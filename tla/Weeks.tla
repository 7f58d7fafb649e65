------------------------------- MODULE Weeks --------------------------------
(***************************************************************************)
(* The picker's weeks.  The page is a number of weeks from the moment it   *)
(* was turned to, its days are that moment and whole days of 24 hours      *)
(* after it, read in the guest's zone, whose clock may make one day an     *)
(* hour longer or shorter.  Time is counted in the guest's hours, scaled   *)
(* down: Hours of them make an ordinary day and PageDays days a page.      *)
(***************************************************************************)
EXTENDS Integers, FiniteSets, FiniteSetsExt

CONSTANTS
  Hours, PageDays,
  Days,        \* days the calendar has
  MaxSlots,    \* bound: slots on offer
  MaxPages     \* bound: pages turned

ASSUME WeeksAssumption ==
  /\ {Hours, PageDays, Days, MaxSlots, MaxPages} \subseteq Nat \ {0}
  /\ Hours > 2

VARIABLES
  zone,      \* by how much the odd day is longer
  instant,     \* now
  weekPicker     \* slots on offer, page, the days it shows and since when

weekVars == <<zone, instant, weekPicker>>

OddDay == 3

\* dayKey: the day an instant falls on in the guest's zone.
DayStarts(d) == (d - 1) * Hours + (IF d > OddDay THEN zone ELSE 0)
DayKey(t) ==
  IF t < DayStarts(OddDay) THEN t \div Hours + 1
  ELSE IF t < DayStarts(OddDay + 1) THEN OddDay ELSE (t - zone) \div Hours + 1

\* Bound: the times on offer are the last of a day, which only its day tells apart.
StillAhead == {t \in {DayStarts(d + 1) - 1 : d \in 1..Days} : t > instant}

\* weekDayKeys
WeekDayKeys(page) == {DayKey(instant + (page * PageDays + i) * Hours) : i \in 0..(PageDays - 1)}

\* firstPageWithSlot: the first page whose last day reaches the first slot's.
LastPage == Days \div PageDays
FirstPageWithSlot(slots) ==
  LET good == {p \in 0..LastPage : Max(WeekDayKeys(p)) >= DayKey(Min(slots))}
  IN IF good = {} THEN 0 ELSE Min(good)

\* Mutant: Later looks no further than the next week.
NextWeekOnly(slots, days) == \E s \in slots : DayKey(s) \in (Max(days) + 1)..(Max(days) + PageDays)

HasNext(slots, days) == \E s \in slots : DayKey(s) > Max(days)

Turned(page) == [weekPicker EXCEPT !.page = page, !.days = WeekDayKeys(page), !.since = instant,
                                   !.turns = @ + 1]

-----------------------------------------------------------------------------
WeeksInit ==
  /\ zone = 0 /\ instant = 0
  /\ weekPicker = [slots |-> {}, page |-> 0, days |-> {}, since |-> 0, turns |-> 0]

\* guestTimeZone: the zone the browser is in, before anything is shown.
GuestTimeZone ==
  /\ weekPicker.turns = 0 /\ instant = 0 /\ zone = 0
  /\ zone' \in {-1, 1}
  /\ UNCHANGED <<instant, weekPicker>>

\* SlotPicker, and a new set of slots.
SlotsLoad ==
  /\ weekPicker.turns < MaxPages
  /\ \E k \in 1..MaxSlots : \E slots \in kSubset(k, StillAhead) :
       weekPicker' = [Turned(FirstPageWithSlot(slots)) EXCEPT !.slots = slots]
  /\ UNCHANGED <<zone, instant>>

Later ==
  /\ weekPicker.turns < MaxPages /\ HasNext(weekPicker.slots, weekPicker.days)
  /\ weekPicker' = Turned(weekPicker.page + 1)
  /\ UNCHANGED <<zone, instant>>

Earlier ==
  /\ weekPicker.turns < MaxPages /\ weekPicker.page > 0
  /\ weekPicker' = Turned(weekPicker.page - 1)
  /\ UNCHANGED <<zone, instant>>

\* The page stays as it is while time goes on.
HourGoes ==
  /\ instant < (OddDay + 1) * Hours
  /\ instant' = instant + 1
  /\ UNCHANGED <<zone, weekPicker>>

WeeksNext == GuestTimeZone \/ SlotsLoad \/ Later \/ Earlier \/ HourGoes

WeeksSpec == WeeksInit /\ [][WeeksNext]_weekVars

-----------------------------------------------------------------------------
\* The pages the guest gets to by turning from the page that is open now, back
\* to the first and on again.
Turnable ==
  LET on == HasNext(weekPicker.slots, weekPicker.days)
      passes(p) == \A q \in 0..(p - 1) : HasNext(weekPicker.slots, WeekDayKeys(q))
  IN {p \in 0..(LastPage + 1) : p < weekPicker.page \/ ((weekPicker.page > 0 \/ on) /\ passes(p))}

OnAPage(s) == DayKey(s) \in weekPicker.days \/ \E p \in Turnable : DayKey(s) \in WeekDayKeys(p)

\* Every time on offer that still lies ahead can be seen: on the open page, or
\* by turning pages, however long the page has been open, whichever way it was
\* turned, and across midnight and the clock's odd day.  The one day that may be
\* left out is a day an hour short, on pages turned to in the last hour of a day
\* before it.
EndsADay(t) == t < DayStarts(OddDay) /\ (t + 1) % Hours = 0

EveryTimeHasAPage ==
  \A s \in weekPicker.slots \cap StillAhead :
    \/ OnAPage(s)
    \/ zone = -1 /\ DayKey(s) = OddDay /\ (EndsADay(instant) \/ EndsADay(weekPicker.since))

\* "Iterating instants at 24h steps and formatting per-zone sidesteps DST maths":
\* the short day is no exception.
ShortDaysToo == \A s \in weekPicker.slots \cap StillAhead : OnAPage(s)
=============================================================================
