------------------------------- MODULE Slots -------------------------------
(***************************************************************************)
(* The availability engine and the two questions asked of it: the picker   *)
(* asks which starts to offer, the booking asks whether one start is still *)
(* good.  Pure functions over one manager's hours, calendar, bookings and  *)
(* holds; time is counted in half hours.  The state is the input.          *)
(***************************************************************************)
EXTENDS Integers, FiniteSets, SequencesExt

CONSTANTS
  Day,         \* half hours of an ordinary day
  Gap,         \* the wall clock's hour that is skipped or repeated: its first half hour
  Clocks,      \* what the clock does on the first of the two days asked about
  CallLengths,   \* lengths of a call
  Buffers,
  Window,      \* length of the booking window
  Horizon,     \* how far ahead the alternatives are compared
  Nows

\* The settings' form takes windows of seven days or more, which is the horizon of the
\* alternatives; the tables hold calls of five minutes or more and buffers of two hours
\* or less.
ASSUME SlotsAssumption ==
  /\ Day \in Nat /\ Gap \in 0..(Day - 2) /\ Window \in Nat /\ Horizon \in 0..Window
  /\ Clocks \subseteq {"plain", "spring", "autumn"}
  /\ CallLengths \subseteq Nat \ {0} /\ Buffers \subseteq 0..Day /\ Nows \subseteq Nat

VARIABLE desks   \* the manager as known when the question is asked, once one is

Never == -1
Instants == 0..(2 * Day + 2)

\* Length of a day, and the instant it starts at.
Long(kind) == CASE kind = "plain" -> Day [] kind = "spring" -> Day - 2 [] kind = "autumn" -> Day + 2
DayStart(clock, d) == CASE d = 1 -> 0 [] d = 2 -> Long(clock) [] d = 3 -> Long(clock) + Day

\* wallTime: a time that is skipped does not exist, a repeated one is its first
\* occurrence, and 24:00 is the next day's start.
WallTime(clock, d, minute) ==
  LET start == DayStart(clock, d) IN
  IF minute = Day THEN DayStart(clock, d + 1)
  ELSE IF d = 2 \/ minute < Gap \/ clock = "plain" THEN start + minute
  ELSE IF clock = "spring"
    THEN IF minute < Gap + 2 THEN Never ELSE start + minute - 2
    ELSE IF minute < Gap + 2 THEN start + minute ELSE start + minute + 2

\* Mutant: touching intervals overlap.
OverlapsClosed(s, e, i) == s <= i.to /\ e >= i.from

\* overlaps: half open.
Overlaps(s, e, i) == s < i.to /\ e > i.from

Wider(is, b) == {[from |-> i.from - b, to |-> i.to + b] : i \in is}

\* The body of computeSlots' loops: start s comes from some block's grid.
Fits(q, s) ==
  \E d \in 1..2, r \in q.hours :
    /\ WallTime(q.clock, d, r.close) # Never
    /\ s + q.length <= WallTime(q.clock, d, r.close)
    /\ \E m \in r.open..(r.close - q.length) :
         (m - r.open) % q.grain = 0 /\ WallTime(q.clock, d, m) = s

IsSlot(q, s, window, buffer, busy, confirmed, holds) ==
  /\ s >= q.now + q.notice
  /\ s + q.length <= q.now + window
  /\ ~\E i \in Wider(busy \cup confirmed, buffer) \cup holds : Overlaps(s, s + q.length, i)
  /\ Fits(q, s)

-----------------------------------------------------------------------------
\* freeBusy and getConfirmed return what meets the window they are asked about.
Within(is, from, to) == {i \in is : i.from < to /\ i.to > from}

ConfirmedIn(q, window) == Within(q.booked, q.now, q.now + window)

\* What the calendar, the bookings and the holds leave open in a window from now
\* on; a calendar that could not be read leaves nothing.
OpenStarts(q, window) ==
  {s \in Instants : q.reachable /\
     IsSlot(q, s, window, q.buffer, Within(q.busy, q.now, q.now + window), ConfirmedIn(q, window), q.held)}

\* availabilityForStaff: the starts the picker shows.
OffersOf(q) == OpenStarts(q, Window)

\* rankBackups: a manager is listed as an alternative with the first of these.
BackupSlots(q) == OpenStarts(q, Horizon)

\* createBooking and rescheduleBooking, up to the INSERT: the answer to a start.
\* A day around the start is read anew, and the holds are not counted.
Verify(q, s) ==
  LET fresh == Within(q.busy, s - Day, s + q.length + Day) IN
  IF s <= q.now THEN "slot_invalid"
  ELSE IF ~q.reachable THEN "calendar_failed"
  ELSE IF IsSlot(q, s, Window, q.buffer, fresh, ConfirmedIn(q, Window), {}) THEN "ok"
  ELSE IF IsSlot(q, s, Window, 0, {}, {}, {}) THEN "slot_taken" ELSE "slot_invalid"

Touches(last, i) == i.from <= last.to

\* The intervals that start at t and end then are laid onto those merged so far.
Merge(merged, t, ends) ==
  IF ends = {} THEN merged
  ELSE LET i == [from |-> t, to |-> Max(ends)] IN
       IF merged # <<>> /\ Touches(merged[Len(merged)], i)
       THEN [merged EXCEPT ![Len(merged)].to = IF i.to > @ THEN i.to ELSE @]
       ELSE Append(merged, i)

\* mergeIntervals: the open ranges of the manager's own calendar page, in the order
\* the intervals start.
MergeIntervals(is) ==
  LET merged[t \in 0..(2 * Day + 3)] ==
        IF t = 0 THEN <<>> ELSE Merge(merged[t - 1], t - 1, {i.to : i \in {i \in is : i.from = t - 1}})
  IN merged[2 * Day + 3]

-----------------------------------------------------------------------------
\* Inputs: one or two working blocks a day, and an interval or none of each sort.
Hour(starts) == {{}} \cup {{[from |-> t, to |-> t + 2]} : t \in starts}
Blocks == {r \in [open : 0..Day, close : 1..Day] : r.open < r.close}

\* Bounds: one or two blocks, the same on both days, and one busy hour.
DesksByHours ==
  [clock : Clocks, hours : {{r} : r \in Blocks} \cup {{r1, r2} : r1, r2 \in {r \in Blocks : r.close - r.open = 3}},
   length : CallLengths, grain : {1}, buffer : Buffers, notice : {0, 2}, now : Nows,
   busy : Hour({4}), booked : {{}}, held : {{}}, reachable : {TRUE}]

\* Bounds: one block all day, with one busy hour, one booking and one hold.
DesksByCalendar ==
  [clock : Clocks, hours : {{[open |-> 0, close |-> Day]}},
   length : CallLengths, grain : {1, 2}, buffer : Buffers, notice : {0}, now : Nows,
   busy : Hour(Instants), booked : Hour({1, 4, 7}), held : Hour({3, 6, 9}), reachable : {TRUE}]

DesksUnread ==
  [clock : Clocks, hours : {{[open |-> 0, close |-> Day]}},
   length : CallLengths, grain : {1}, buffer : Buffers, notice : {0}, now : Nows,
   busy : {{}}, booked : {{}}, held : {{}}, reachable : {FALSE}]

Desks == DesksByHours \cup DesksByCalendar \cup DesksUnread

SlotsInit == desks = {}
AskDesk == desks = {} /\ \E q \in Desks : desks' = {q}

SlotsSpec == SlotsInit /\ [][AskDesk]_desks

-----------------------------------------------------------------------------
\* The same question asked of every half hour instead of every wall time.
\* Reading the clock at instant t: the day, the wall time, and whether the
\* clock shows that time for the second time.
DayOf(clock, t) == IF t < Long(clock) THEN 1 ELSE 2
Reads(clock, t) ==
  LET d == DayOf(clock, t)  m == t - DayStart(clock, d) IN
  IF d = 2 \/ clock = "plain" \/ m < Gap THEN [minute |-> m, again |-> FALSE]
  ELSE IF clock = "spring" THEN [minute |-> m + 2, again |-> FALSE]
  ELSE [minute |-> IF m < Gap + 2 THEN m ELSE m - 2, again |-> m \in (Gap + 2)..(Gap + 3)]

\* A block runs from the first half hour of the day that reads its opening time
\* or later, until the first that reads its closing time or later.
AtWork(q, r, t) ==
  LET so_far == {Reads(q.clock, u).minute : u \in {u \in 0..t : DayOf(q.clock, u) = DayOf(q.clock, t)}} IN
  /\ t < DayStart(q.clock, 3)
  /\ \E m \in so_far : m >= r.open
  /\ \A m \in so_far : m < r.close

\* A start is offered exactly when every half hour of the call lies in one
\* working block of one day, on the block's grid and, where the clock repeats an
\* hour, on its first showing; no half hour of the call or of the buffer before
\* or after it is taken; and the notice and the window are kept.  A block whose
\* closing time the clock skips that day offers nothing, and a call that only
\* fits because an hour repeats is not offered.
OffersExactlyTheFree ==
  \A q \in desks :
    LET taken(t) == \E i \in q.busy \cup q.booked : i.from <= t /\ t < i.to
        held(t)  == \E i \in q.held : i.from <= t /\ t < i.to
        call(s)  == s..(s + q.length - 1)
        good(s)  ==
          /\ s >= q.now + q.notice /\ s + q.length <= q.now + Window
          /\ \A t \in (s - q.buffer)..(s + q.length + q.buffer - 1) : ~taken(t)
          /\ \A t \in call(s) : ~held(t)
          /\ \E r \in q.hours :
               LET w == Reads(q.clock, s) IN
               /\ ~w.again /\ (w.minute - r.open) % q.grain = 0
               /\ w.minute + q.length <= r.close
               /\ ~(q.clock = "spring" /\ DayOf(q.clock, s) = 1 /\ r.close \in Gap..(Gap + 1))
               /\ \A t \in call(s) : AtWork(q, r, t) /\ DayOf(q.clock, t) = DayOf(q.clock, s)
        seen(s) == s - q.buffer >= q.now /\ s + q.length + q.buffer <= q.now + Window
        offered == OffersOf(q)
    IN q.reachable =>
         \A s \in {t \in 0..(DayStart(q.clock, 3) - 1) : seen(t)} : s \in offered <=> good(s)

\* What the picker offers, the booking accepts, as long as nothing changed in
\* between, it still lies ahead, and the whole buffer lies inside the booking
\* window; and what the booking accepts, the picker hid at most because somebody
\* holds it.
OfferedIsAccepted ==
  \A desk \in desks :
    LET offered == OffersOf(desk) IN
    \A s \in Instants :
      /\ s \in offered =>
           \/ Verify(desk, s) = "ok"
           \/ s <= desk.now
           \/ s - desk.buffer < desk.now \/ s + desk.length + desk.buffer > desk.now + Window
      /\ Verify(desk, s) = "ok" =>
           s \in offered \/ \E i \in desk.held : Overlaps(s, s + desk.length, i)

\* What the picker offers, the booking accepts, as long as nothing changed in
\* between and it still lies ahead.
OfferStands == \A desk \in desks : \A s \in OffersOf(desk) : s > desk.now => Verify(desk, s) = "ok"

\* The open ranges cover exactly the half hours of the slots they are made of,
\* in order, and no two of them touch.
RangesCoverTheSlots ==
  \A desk \in desks :
    LET slots  == {[from |-> s, to |-> s + desk.length] : s \in OffersOf(desk)}
        ranges == MergeIntervals(slots)
        half(is) == UNION {i.from..(i.to - 1) : i \in is}
    IN /\ half({ranges[k] : k \in 1..Len(ranges)}) = half(slots)
       /\ \A k \in 1..(Len(ranges) - 1) : ranges[k].to < ranges[k + 1].from

\* A manager is listed as an alternative exactly when the picker will have a time
\* that soon to show, unless the buffer reaches beyond what was compared.
ListedHaveTimes ==
  \A desk \in desks :
    LET soon == {s \in OffersOf(desk) : s + desk.length <= desk.now + Horizon}
        edge(s) == s + desk.length + desk.buffer > desk.now + Horizon
    IN /\ soon \subseteq BackupSlots(desk)
       /\ \A s \in BackupSlots(desk) : s \in soon \/ edge(s)

\* The picker's list, the alternatives', the open ranges and the booking's own
\* check describe one calendar.
OffersAgree == OffersExactlyTheFree /\ OfferedIsAccepted /\ ListedHaveTimes /\ RangesCoverTheSlots
=============================================================================
