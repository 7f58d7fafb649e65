----------------------------- MODULE GroupDesk ------------------------------
(***************************************************************************)
(* Group sessions among everything else that happens to one manager: the   *)
(* seats' guests hold manage links like any other guest (Manage), and 1:1  *)
(* bookings go on being made (Create).                                     *)
(***************************************************************************)
EXTENDS Create, Manage, Groups

ASSUME GroupDeskAssumption == Requests \cap Claims = {}

vars == <<now, row, event, meetings, mail, link, alerted, req, op, session, publish, claim, closing>>

Init == LedgerInit /\ CreateInit /\ ManageInit /\ GroupsInit

Next ==
  \/ CreateNext /\ UNCHANGED <<op, groupVars>>
  \/ ManageNext /\ UNCHANGED <<req, groupVars>>
  \/ GroupsNext /\ UNCHANGED <<req, op>>
  \/ Tick /\ UNCHANGED <<req, op, groupVars>>

\* An invocation that is not killed runs on.
Fairness ==
  /\ \A s \in Sessions : WF_vars(PublishStep(s) /\ UNCHANGED <<req, op>>)
  /\ \A c \in Claims : WF_vars(ClaimStep(c) /\ UNCHANGED <<req, op>>)
  /\ \A x \in Closings : WF_vars(CloseStep(x) /\ UNCHANGED <<req, op>>)

Spec == Init /\ [][Next]_vars

FairSpec == Spec /\ Fairness
-----------------------------------------------------------------------------
TypeOK == LedgerTypeOK /\ CreateTypeOK /\ ManageTypeOK /\ GroupsTypeOK

\* Claims that have taken a seat on s and have not inserted its row.
Seatless(s) == {c \in DOMAIN claim : claim[c].session = s /\ claim[c].pc \in {"insert", "release"}}

\* seats_taken never falls below the seats that are confirmed or being made,
\* whatever releases, cancellations and crashes come in between, so a session
\* never holds more guests than its capacity ("the seats_taken guard IS the
\* race protection").
SeatsCovered ==
  ~AnswersLost =>
    \A s \in DOMAIN session :
      /\ Cardinality(Seats(s)) + Cardinality(Seatless(s)) <= session[s].seats
      /\ session[s].seats <= session[s].cap

\* The status column never disagrees with the counter: a session that guests
\* are told is open has a seat, one they are told is full has none.
StatusMatchesSeats ==
  \A s \in DOMAIN session :
    /\ session[s].status = "open" => session[s].seats < session[s].cap
    /\ session[s].status = "full" => session[s].seats = session[s].cap

\* Counter, status and seats agree, in every interleaving of claims, releases and
\* the closing.
SeatsAgree == SeatsCovered /\ StatusMatchesSeats

\* Every form, for a seat or for a 1:1, books once however often it is posted.
OneBookingPerKey ==
  \A a, b \in DOMAIN row : row[a].key = row[b].key => a = b

\* Nothing is at work on the session's calendar event and nothing died.
SessionSettled(s) ==
  /\ publish[s] = "done"
  /\ \A x \in DOMAIN closing : closing[x].session = s => closing[x].pc = "done"

\* When publication and closings have run to their end and no alert was raised,
\* the session's event is on the calendar exactly when it was not called off,
\* whatever claims and closings come in between.  (A closing that read the
\* session before its event was recorded does not know the event and leaves it.)
SessionCalendarFollows ==
  CalendarConfigured =>
    \A s \in DOMAIN session \ alerted :
      /\ SessionSettled(s)
      /\ \A x \in DOMAIN closing : closing[x].session = s => closing[x].linked
      => (session[s].status # "cancelled" <=> s \in DOMAIN event)

\* A session that was called off, or whose publication was undone, never opens
\* again: not even the release of a seat claimed before.
CalledOffIsFinal ==
  [][\A s \in DOMAIN session :
       session[s].status = "cancelled" => session'[s].status = "cancelled"]_session

\* The same of seats as of 1:1 bookings: in whatever order the confirmation and
\* the mails of the guest's own cancellation or move and of the manager's bulk
\* cancellation arrive, the highest SEQUENCE is never ahead of the row, no two
\* mails differ under one number, and the row's own number says what it says.
GuestCalendarCurrent ==
  /\ \A m \in mail : m.seq <= row[m.id].seq
  /\ \A m, n \in mail : m.id = n.id /\ m.seq = n.seq => m = n
  /\ \A m \in mail : m.seq = row[m.id].seq =>
       IF m.method = "CANCEL" THEN row[m.id].status = "cancelled"
       ELSE row[m.id].status = "confirmed" /\ m.slot = row[m.id].slot

\* A closing that got to the seats answers, each of them mailed or given up,
\* unless the invocation dies: the manager is not left with a session half
\* called off because one mail threw.
ClosingCompletes ==
  \A x \in Closings : IsClosing(x, "seats") ~> IsClosing(x, "crashed") \/ IsClosing(x, "done")
-----------------------------------------------------------------------------
(* Statements of comments and pages that the code does not keep.           *)

\* "Session cancelled - booked guests have been emailed": once it is, and no
\* claim is under way, no seat of the session is confirmed.
NoSeatOutlivesItsSession ==
  \A x \in DOMAIN closing :
    LET s == closing[x].session IN
    closing[x].ok /\ (\A c \in DOMAIN claim : claim[c].session = s => claim[c].pc = "done")
      => Seats(s) = {}

\* "The single Google event blocks the BM's time so no 1:1 lands on top of it":
\* no 1:1 is inserted over a session whose event is on the calendar.
NoBookingOnASession ==
  [][\A r \in DOMAIN row' \ DOMAIN row : row'[r].group = NoSession =>
       \A s \in DOMAIN session \cap DOMAIN event :
         ~Overlap(row'[r].slot, session[s].slot)]_row

\* "Zero rows updated means the session filled": a claim refused because the
\* session was full is told so.
FullIsAnsweredFull ==
  \A c \in DOMAIN claim : claim[c].result = "session_closed" => ~claim[c].wasFull
=============================================================================
