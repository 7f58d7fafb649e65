------------------------------ MODULE OneToOne ------------------------------
(***************************************************************************)
(* The life of 1:1 bookings: Create and Manage running against one Ledger, *)
(* every invocation interleaved with every other.  Group sessions are the  *)
(* subject of GroupDesk and reminders of Reminders; here a manage link     *)
(* comes from the confirmation alone.                                      *)
(***************************************************************************)
EXTENDS Create, Manage

vars == <<now, row, event, meetings, mail, link, alerted, req, op>>

Init == LedgerInit /\ CreateInit /\ ManageInit

Next ==
  \/ CreateNext /\ UNCHANGED op
  \/ ManageNext /\ UNCHANGED req
  \/ (Tick \/ \E i \in Interval : AcceptMeeting(i)) /\ UNCHANGED <<req, op>>

\* A serverless invocation that is not killed runs on: each step of each
\* invocation is weakly fair.  Nothing obliges guests to submit or to retry.
Fairness ==
  /\ \A r \in Requests : WF_vars(CreateStep(r) /\ UNCHANGED op)
  /\ \A m \in Ops : WF_vars(ManageStep(m) /\ UNCHANGED req)

Spec == Init /\ [][Next]_vars

FairSpec == Spec /\ Fairness
-----------------------------------------------------------------------------
TypeOK == LedgerTypeOK /\ CreateTypeOK /\ ManageTypeOK

\* No two confirmed 1:1 bookings of the manager overlap, whatever creations and
\* moves interleave (the constraint booking_no_overlap behind createBooking's
\* INSERT and rescheduleBooking's UPDATE).
NoDoubleBooking ==
  \A a, b \in Exclusive : a # b => ~Overlap(row[a].slot, row[b].slot)

\* However often a form is posted, concurrently or again, its key has one row.
OneBookingPerKey ==
  \A a, b \in DOMAIN row : row[a].key = row[b].key => a = b

\* Guests' calendar programs keep, per booking, the .ics with the highest
\* SEQUENCE.  In whatever order the mails of create, move and cancel arrive,
\* the highest one is never ahead of the row, no two differ under one number,
\* and one that carries the row's own number says what the row says.
GuestCalendarCurrent ==
  /\ \A m \in mail : m.seq <= row[m.id].seq
  /\ \A m, n \in mail : m.id = n.id /\ m.seq = n.seq => m = n
  /\ \A m \in mail : m.seq = row[m.id].seq =>
       IF m.method = "CANCEL" THEN row[m.id].status = "cancelled"
       ELSE row[m.id].status = "confirmed" /\ m.slot = row[m.id].slot

\* No invocation works on the booking any more, and none of them died.
Settled(b) ==
  /\ req[b].pc = "done"
  /\ \A m \in DOMAIN op : op[m].id = b => op[m].pc = "done"

\* When everything about a booking has run to its end and no alert was raised,
\* the manager's calendar has its event exactly when the row is confirmed:
\* cancel racing reschedule included (the DELETE and the PATCH may swap).
CalendarFollows ==
  CalendarConfigured =>
    \A b \in DOMAIN row :
      Settled(b) /\ b \notin alerted => (b \in Confirmed <=> b \in DOMAIN event)

\* The guest's finished moves of b.
Moves(b) == {m \in DOMAIN op : op[m].id = b /\ op[m].kind = "reschedule" /\ op[m].result = "ok"}

\* ... and the event is at the booking's time, a cancellation racing the move or
\* not.  (Two moves at once may patch the event in the other order than they
\* updated the row; nothing detects it.)
CalendarTimeFollows ==
  CalendarConfigured =>
    \A b \in Confirmed \cap DOMAIN event :
      Settled(b) /\ b \notin alerted /\ Cardinality(Moves(b)) <= 1 => event[b] = row[b].slot

\* The calendar and the table agree: an event for every confirmed booking and no
\* other, at its time, once everything about the booking has run to its end.
CalendarAgrees == CalendarFollows /\ CalendarTimeFollows

\* Whoever was told "booked" by the invocation that inserted the row keeps the
\* booking until the guest gives it up: the rollback never takes it back.
OwnAnswerStands ==
  \A r \in DOMAIN req :
    req[r].result = "ok" /\ ~req[r].found => row[r].by # "system"

\* A cancelled booking never comes back and never moves.
CancelledIsFinal ==
  [][\A b \in DOMAIN row : row[b].status = "cancelled" =>
       row'[b].status = "cancelled" /\ row'[b].slot = row[b].slot]_row

\* A row that was inserted is on the calendar, cancelled or orphaned by a crash
\* in the end: no invocation that lives leaves it in between.
BookingSettles ==
  \A r \in Requests :
    r \in DOMAIN row ~>
      \/ At(r, "crashed")
      \/ /\ At(r, "done") /\ r \in DOMAIN row
         /\ row[r].status = "cancelled" \/ (CalendarConfigured => row[r].linked)

\* The instants of a time.
Instants(i) == i.start .. End(i) - 1

Promise == INSTANCE Diary WITH
  Bookings <- Requests,
  Spans    <- {Instants(i) : i \in Interval},
  held     <- [b \in Exclusive |-> Instants(row[b].slot)],
  released <- {b \in DOMAIN row : row[b].status = "cancelled"}

\* Of all that the handlers do, with their crashes, retries and rollbacks, the
\* table shows nothing but the diary: bookings made on free instants, moved to
\* free instants and given up, one at a time and for good.
KeepsTheDiary == Promise!Spec
-----------------------------------------------------------------------------
(* Statements of comments that the code does not keep.                     *)

\* "Idempotent double-submit: hand back the existing booking": what the 23505
\* branch hands back is a booking, not one the rollback has cancelled.
FoundIsBooked ==
  \A r \in DOMAIN req :
    req[r].found => \A b \in RowsOf(req[r].key) : row[b].by # "system"

\* An errored calendar is not "free all week": a move that passes the check is
\* clear of every meeting the calendar holds, those carved out with the old
\* time aside.
MoveAvoidsMeetings ==
  [][\A m \in DOMAIN op :
       op[m].pc = "loaded" /\ op'[m].pc = "update" =>
         \A i \in meetings \ JoinedTo(Busy, op[m].old) : ~Overlap(i, op[m].to)]_op
=============================================================================
