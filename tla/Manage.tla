------------------------------- MODULE Manage -------------------------------
(***************************************************************************)
(* /manage/[token]: the guest cancels or moves a booking.  The action      *)
(* reads the row once (findBookingByToken) and every later step works from *)
(* that snapshot; only the two conditional UPDATEs look at the row again.  *)
(***************************************************************************)
EXTENDS Ledger

CONSTANTS
  Ops \* invocations of the two server actions

VARIABLE op \* a partial function: the invocations that have started

Op == [pc     : {"loaded", "update", "google", "mail", "done", "crashed"},
       kind   : {"cancel", "reschedule"},
       id     : Ids,
       old    : Interval,   \* startsAt, endsAt of the snapshot
       linked : BOOLEAN,    \* googleEventId of the snapshot
       to     : Interval,   \* the time asked for
       seq    : Nat,        \* ical_sequence the UPDATE returned
       result : {"none", "ok", "not_ok", "slot_taken", "slot_invalid", "not_manageable"}]

ManageInit == op = << >>

ManageTypeOK ==
  /\ DOMAIN op \subseteq Ops
  /\ op \in [DOMAIN op -> Op]

Pc(m, pc) == m \in DOMAIN op /\ op[m].pc = pc

Finish(m, result) == op' = [op EXCEPT ![m].pc = "done", ![m].result = result]

\* Mutant: Google is told of cancellations only.
CancelOnly(m) == IF op[m].kind = "cancel" THEN "google" ELSE "mail"

\* After the UPDATE: Google only when the snapshot had an event id.
AfterUpdate(m) == IF op[m].linked /\ CalendarConfigured THEN "google" ELSE "mail"

TrustSnapshot(b) == TRUE  \* mutant: no status condition in the UPDATE

\* where id = ... and status = 'confirmed'
StillConfirmed(b) == row[b].status = "confirmed"

SameSeq(b) == row[b].seq     \* mutants
LowerSeq(b) == row[b].seq - 1

\* ical_sequence = ical_sequence + 1 returning ical_sequence
NextSeq(b) == row[b].seq + 1
-----------------------------------------------------------------------------
\* loadByToken and bookingManageable, of the row as it is now.  A refused
\* action changes nothing, so only admitted ones become processes.
OpenCancel(m, b) ==
  /\ m \notin DOMAIN op
  /\ b \in link /\ Manageable(row[b])
  /\ op' = Put(op, m, [pc |-> "update", kind |-> "cancel", id |-> b, old |-> row[b].slot,
                       linked |-> row[b].linked, to |-> row[b].slot, seq |-> 0,
                       result |-> "none"])
  /\ UNCHANGED ledgerVars

\* The event type, and so the duration, stays.
OpenReschedule(m, b, s) ==
  /\ m \notin DOMAIN op
  /\ b \in link /\ Manageable(row[b])
  /\ op' = Put(op, m, [pc |-> "loaded", kind |-> "reschedule", id |-> b, old |-> row[b].slot,
                       linked |-> row[b].linked, to |-> [start |-> s, dur |-> row[b].slot.dur],
                       seq |-> 0, result |-> "none"])
  /\ UNCHANGED ledgerVars

\* The busy intervals that overlap the booking's old time, whoever they belong
\* to.  Google may report events without a gap between them as one interval.
Overlapping(busy, old) == {i \in busy : Overlap(i, old)}

Joined(i, j, busy) ==
  \A t \in (i.start .. End(j) - 1) \cup (j.start .. End(i) - 1) :
    \E b \in busy : b.start <= t /\ t < End(b)

JoinedTo(busy, old) == {i \in busy : \E j \in Overlapping(busy, old) : Joined(i, j, busy)}

\* computeSlots of rescheduleBooking.  Confirmed rows are not read at all.
CheckMove(m, blocked) ==
  IF Offered(op[m].to, now, blocked)
  THEN op' = [op EXCEPT ![m].pc = "update"]
  ELSE Finish(m, "slot_taken")

\* freeBusy, from which what overlaps the old time is carved out; a calendar
\* Google reports as errored counts as empty.
ReadAndCheckMove(m) ==
  /\ Pc(m, "loaded")
  /\ op[m].old.start > now
  /\ \/ CalendarConfigured /\ CheckMove(m, Busy \ Overlapping(Busy, op[m].old))
     \/ CalendarConfigured /\ CheckMove(m, Busy \ JoinedTo(Busy, op[m].old))
     \/ CheckMove(m, {})
  /\ UNCHANGED ledgerVars

\* bookingManageable again, of the snapshot.
MoveTooLate(m) ==
  /\ Pc(m, "loaded")
  /\ op[m].old.start <= now
  /\ Finish(m, "not_manageable")
  /\ UNCHANGED ledgerVars

\* The free/busy query throws.
MoveUnverified(m) ==
  /\ Pc(m, "loaded")
  /\ op[m].old.start > now
  /\ CalendarConfigured
  /\ Finish(m, "slot_invalid")
  /\ UNCHANGED ledgerVars

\* The UPDATE finds no row: no change.
UpdateFindsNothing(m) ==
  /\ Pc(m, "update")
  /\ ~StillConfirmed(op[m].id)
  /\ Finish(m, IF op[m].kind = "cancel" THEN "not_ok" ELSE "not_manageable")
  /\ UNCHANGED ledgerVars

CancelRow(m) ==
  LET b == op[m].id IN
  /\ Pc(m, "update") /\ op[m].kind = "cancel"
  /\ StillConfirmed(b)
  /\ row' = [row EXCEPT ![b].status = "cancelled", ![b].by = "guest", ![b].seq = NextSeq(b)]
  /\ op' = [op EXCEPT ![m].pc = AfterUpdate(m), ![m].seq = NextSeq(b)]
  /\ UNCHANGED <<now, event, meetings, mail, link, alerted>>

\* 23P01 on the UPDATE.  The constraint covers the row only when it is a 1:1.
MoveRefused(m) ==
  LET b == op[m].id IN
  /\ Pc(m, "update") /\ op[m].kind = "reschedule"
  /\ b \in Exclusive /\ Refused(b, op[m].to)
  /\ Finish(m, "slot_taken")
  /\ UNCHANGED ledgerVars

\* The move also clears the reminder flags.
MoveRow(m) ==
  LET b == op[m].id IN
  /\ Pc(m, "update") /\ op[m].kind = "reschedule"
  /\ StillConfirmed(b)
  /\ b \in Exclusive => ~Refused(b, op[m].to)
  /\ row' = [row EXCEPT ![b].slot = op[m].to, ![b].reminded = FALSE, ![b].seq = NextSeq(b)]
  /\ op' = [op EXCEPT ![m].pc = AfterUpdate(m), ![m].seq = NextSeq(b)]
  /\ UNCHANGED <<now, event, meetings, mail, link, alerted>>

\* events.delete: an event that is gone already counts as deleted.
DeleteEvent(m) ==
  /\ Pc(m, "google") /\ op[m].kind = "cancel"
  /\ event' = Drop(event, op[m].id)
  /\ op' = [op EXCEPT ![m].pc = "mail"]
  /\ UNCHANGED <<now, row, meetings, mail, link, alerted>>

\* events.patch: moves the event when there is one.
PatchEvent(m) ==
  /\ Pc(m, "google") /\ op[m].kind = "reschedule"
  /\ op[m].id \in DOMAIN event
  /\ event' = [event EXCEPT ![op[m].id] = op[m].to]
  /\ op' = [op EXCEPT ![m].pc = "mail"]
  /\ UNCHANGED <<now, row, meetings, mail, link, alerted>>

\* Either call fails, before or after Google did its part, and alerts.
GoogleFails(m) ==
  LET b == op[m].id IN
  /\ Pc(m, "google")
  /\ \/ UNCHANGED event
     \/ op[m].kind = "cancel" /\ event' = Drop(event, b)
     \/ op[m].kind = "reschedule" /\ b \in DOMAIN event /\ event' = [event EXCEPT ![b] = op[m].to]
  /\ alerted' = alerted \cup {b}
  /\ op' = [op EXCEPT ![m].pc = "mail"]
  /\ UNCHANGED <<now, row, meetings, mail, link>>

\* The mail carries the sequence number the UPDATE returned and, for a move,
\* the new time.  Refused in silence, or thrown with an alert, delivered or not.
SendMail(m) ==
  LET o == op[m]
      msg == [id |-> o.id, seq |-> o.seq, slot |-> o.to,
              method |-> IF o.kind = "cancel" THEN "CANCEL" ELSE "REQUEST"]
  IN
  /\ Pc(m, "mail")
  /\ mail' \in {mail, mail \cup {msg}}
  /\ alerted' \in {alerted, alerted \cup {o.id}}
  /\ Finish(m, "ok")
  /\ UNCHANGED <<now, row, event, meetings, link>>

CrashOp(m) ==
  /\ m \in DOMAIN op
  /\ op[m].pc \notin {"done", "crashed"}
  /\ op' = [op EXCEPT ![m].pc = "crashed"]
  /\ UNCHANGED ledgerVars

ManageStep(m) ==
  \/ ReadAndCheckMove(m) \/ MoveTooLate(m) \/ MoveUnverified(m)
  \/ UpdateFindsNothing(m) \/ CancelRow(m) \/ MoveRefused(m) \/ MoveRow(m)
  \/ DeleteEvent(m) \/ PatchEvent(m) \/ GoogleFails(m) \/ SendMail(m)

ManageNext ==
  \/ \E m \in Ops, b \in Ids : OpenCancel(m, b)
  \/ \E m \in Ops, b \in Ids, s \in Starts : OpenReschedule(m, b, s)
  \/ \E m \in Ops : ManageStep(m) \/ CrashOp(m)
=============================================================================
