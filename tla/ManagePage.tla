----------------------------- MODULE ManagePage -----------------------------
(***************************************************************************)
(* The guest's own page for one booking, open in several tabs: each shows  *)
(* what it read when it was opened, asks for times while its picker is     *)
(* open, and cancels or moves the booking with one call at a time, whose   *)
(* answer may be lost while the call still arrives.  The handlers          *)
(* themselves are Manage's; here each is one step.                         *)
(***************************************************************************)
EXTENDS Naturals, FiniteSets, FiniteSetsExt

CONSTANTS
  LinkTabs,
  CallTimes,     \* times a call can be at
  MaxTries,      \* bound: calls of one tab
  LastNow        \* bound: how far time goes

ASSUME ManagePageAssumption ==
  CallTimes \subseteq Nat /\ CallTimes # {} /\ MaxTries \in Nat /\ LastNow \in Nat

VARIABLES
  booking,   \* the booking, and every time it has had
  passed,
  tabs,
  posted     \* calls on their way to the server

manageVars == <<booking, passed, tabs, posted>>

Unfilled == {}     \* the absent value of the fields that hold at most one thing

\* bookingManageable
BookingManageable == booking.confirmed /\ booking.at > passed

\* What the page is given, and the state it starts in.
ClosedTab ==
  [state |-> "closed", mode |-> "summary", shown |-> 0, made |-> 0, waits |-> Unfilled, heard |-> Unfilled,
   pending |-> Unfilled, error |-> "none", refused |-> 0, nonce |-> 0,
   asking |-> Unfilled, times |-> Unfilled]

PageState == IF BookingManageable THEN "manageable" ELSE IF booking.confirmed THEN "past" ELSE "cancelled"

OpenedTab ==
  [ClosedTab EXCEPT !.state = PageState, !.shown = booking.at,
                    !.mode = IF booking.confirmed THEN "summary" ELSE "cancelled"]

TabsInit ==
  /\ LET t == Min(CallTimes) IN booking = [confirmed |-> TRUE, at |-> t, was |-> {t}]
  /\ passed = 0 /\ posted = {}
  /\ tabs = [g \in LinkTabs |-> ClosedTab]

\* availKey: what the picker's request is about, nothing while it is closed.
AvailKey(p) == IF p.mode = "reschedule" THEN {p.nonce} ELSE Unfilled

\* The tab's state becomes p and its effect runs: a key that changed aborts the
\* request under way for the old one and asks anew.  A request is known by its
\* key and, for the properties only, by the refusals the tab had heard of.
TabRenders(g, p) ==
  tabs' = [tabs EXCEPT ![g] =
    [p EXCEPT !.asking = IF AvailKey(p) = AvailKey(tabs[g]) THEN @
                         ELSE {[key |-> k, since |-> p.refused] : k \in AvailKey(p)}]]

\* The times on show: the last answer, if it is one to the present key.
OnShow(p) == {a \in p.times : a.key \in AvailKey(p)}

Waiting(p) == p.waits # Unfilled
Changing(p) == p.state = "manageable"

-----------------------------------------------------------------------------
\* Bound: a tab is opened once.
OpenTab(g) ==
  /\ tabs[g].state = "closed"
  /\ tabs' = [tabs EXCEPT ![g] = OpenedTab]
  /\ UNCHANGED <<booking, passed, posted>>

\* The buttons of the summary, the question and the picker.
Pressed(g) ==
  LET p == tabs[g]
      quiet == [p EXCEPT !.error = "none"]
  IN
  \/ p.mode = "summary" /\ TabRenders(g, [quiet EXCEPT !.mode = "reschedule"])
  \/ p.mode = "summary" /\ TabRenders(g, [quiet EXCEPT !.mode = "confirm-cancel"])
  \/ p.mode = "confirm-cancel" /\ ~Waiting(p) /\ TabRenders(g, [p EXCEPT !.mode = "summary"])
  \/ p.mode = "reschedule" /\ p.pending # Unfilled /\ ~Waiting(p) /\ TabRenders(g, [p EXCEPT !.pending = Unfilled])
  \/ p.mode = "reschedule" /\ p.pending = Unfilled
       /\ TabRenders(g, [p EXCEPT !.mode = "summary", !.error = "none"])
  \/ p.mode = "reschedule" /\ p.pending = Unfilled
       /\ \E a \in OnShow(p) : \E t \in a.free : TabRenders(g, [p EXCEPT !.pending = {t}])

Press(g) == Changing(tabs[g]) /\ Pressed(g) /\ UNCHANGED <<booking, passed, posted>>

\* The availability effect's answer: of the times to come, whichever are free.  A
\* request that fails shows no times, as one that never answers does.
TimesCome(g) ==
  /\ \E a \in tabs[g].asking :
       tabs' = [tabs EXCEPT ![g].asking = Unfilled,
                            ![g].times = {[key |-> a.key, since |-> a.since,
                                           free |-> {t \in CallTimes : t > passed} \ {booking.at}]}]
  /\ UNCHANGED <<booking, passed, posted>>

\* doCancel and doReschedule, up to the call.
Calls(g, what) ==
  LET n == tabs[g].made + 1 IN
  /\ ~Waiting(tabs[g]) /\ n <= MaxTries
  /\ tabs' = [tabs EXCEPT ![g].made = n, ![g].waits = {n}, ![g].error = "none"]
  /\ posted' = posted \cup {[by |-> g, number |-> n, move |-> what]}
  /\ UNCHANGED <<booking, passed>>

DoCancel(g) == Changing(tabs[g]) /\ tabs[g].mode = "confirm-cancel" /\ Calls(g, Unfilled)
DoReschedule(g) ==
  Changing(tabs[g]) /\ tabs[g].mode = "reschedule" /\ tabs[g].pending # Unfilled /\ Calls(g, tabs[g].pending)

-----------------------------------------------------------------------------
\* The answer reaches the tab only if that is still waiting for it.
Replies(c, what) ==
  /\ posted' = posted \ {c}
  /\ tabs' = [tabs EXCEPT ![c.by].heard = IF c.number \in tabs[c.by].waits THEN {what} ELSE @]
  /\ UNCHANGED passed

\* cancelBookingAction
CancelAction(c) ==
  /\ c.move = Unfilled
  /\ booking' = IF BookingManageable THEN [booking EXCEPT !.confirmed = FALSE] ELSE booking
  /\ Replies(c, IF BookingManageable THEN "cancelled" ELSE "not_cancelled")

\* Mutant: the booking behind the link is not checked.
MovesAnything(c) ==
  \E t \in c.move :
    \/ /\ t > passed
       /\ booking' = [booking EXCEPT !.at = t, !.was = @ \cup {t}] /\ Replies(c, "moved")
    \/ booking' = booking /\ Replies(c, "slot_taken")

\* rescheduleBookingAction: any time may be refused, for another booking, for
\* what the calendar says or because it cannot be read.
RescheduleAction(c) ==
  \E t \in c.move :
    IF ~BookingManageable THEN booking' = booking /\ Replies(c, "not_manageable")
    ELSE \/ /\ t > passed
            /\ booking' = [booking EXCEPT !.at = t, !.was = @ \cup {t}] /\ Replies(c, "moved")
         \/ booking' = booking /\ Replies(c, "slot_taken")

Handle == \E c \in posted : CancelAction(c) \/ RescheduleAction(c)

\* What the tab makes of an answer.
Heard(g) ==
  LET p == [tabs[g] EXCEPT !.waits = Unfilled, !.heard = Unfilled] IN
  \E what \in tabs[g].heard :
    TabRenders(g,
      CASE what = "cancelled" -> [p EXCEPT !.mode = "cancelled"]
        [] what = "not_cancelled" -> [p EXCEPT !.error = "again"]
        [] what = "moved" -> [p EXCEPT !.shown = CHOOSE t \in p.pending : TRUE, !.mode = "summary",
                                       !.pending = Unfilled]
        [] what = "slot_taken" -> [p EXCEPT !.pending = Unfilled, !.error = "taken", !.nonce = @ + 1,
                                            !.refused = @ + 1]
        [] what = "not_manageable" -> [p EXCEPT !.error = "closed", !.mode = "summary"])

\* catch: the call failed, whether or not it arrives.
Failed(g) ==
  /\ Waiting(tabs[g])
  /\ tabs' = [tabs EXCEPT ![g].waits = Unfilled, ![g].heard = Unfilled,
                          ![g].error = "again"]

Hears(g) == (Heard(g) \/ Failed(g)) /\ UNCHANGED <<booking, passed, posted>>

TimeGoes == passed < LastNow /\ passed' = passed + 1 /\ UNCHANGED <<booking, tabs, posted>>

TabsNext ==
  \/ \E g \in LinkTabs : OpenTab(g) \/ Press(g) \/ TimesCome(g) \/ DoCancel(g) \/ DoReschedule(g) \/ Hears(g)
  \/ Handle
  \/ TimeGoes

TabsSpec == TabsInit /\ [][TabsNext]_manageVars

-----------------------------------------------------------------------------
\* What a tab says stays true whatever the other tabs, late calls and the clock
\* do: a booking it shows as cancelled is cancelled; one it calls past, or one
\* that "can no longer be changed", can never be changed again; the time it
\* shows, moved or not, is one the booking has had; and the "fresh options"
\* after a refusal were asked for after it.
TabsTellTheTruth ==
  \A g \in LinkTabs :
    LET p == tabs[g] IN
    p.state # "closed" =>
      /\ p.mode = "cancelled" => ~booking.confirmed
      /\ p.state = "past" => booking.confirmed /\ booking.at <= passed
      /\ p.error = "closed" => ~BookingManageable
      /\ p.shown \in booking.was
      /\ \A a \in OnShow(p) : a.since = p.refused

\* "We couldn't cancel this booking just now. Please try again" is said of a
\* booking that can still be cancelled.
NotCancelledIsManageable ==
  \A g \in LinkTabs : tabs[g].mode = "confirm-cancel" /\ tabs[g].error = "again" => BookingManageable
=============================================================================
