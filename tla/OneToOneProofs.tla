--------------------------- MODULE OneToOneProofs ---------------------------
(***************************************************************************)
(* OneToOne for every value of its constants: types, the two uniqueness    *)
(* invariants of the booking table and the finality of cancellation.       *)
(* NoDoubleBooking and OneBookingPerKey are kept by the two statements     *)
(* that write new times and keys; the rest of IInv says that handlers only *)
(* ever refer to rows that exist, and that a row appears once.             *)
(***************************************************************************)
EXTENDS OneToOne, TLAPS

\* Manage links, and so the handlers behind them, belong to rows.
LinksExist ==
  /\ link \subseteq DOMAIN row
  /\ \A m \in DOMAIN op : op[m].id \in DOMAIN row

\* An invocation has inserted its row exactly when it is past the INSERT.
RowsInStep ==
  /\ DOMAIN row \subseteq DOMAIN req
  /\ \A r \in DOMAIN req :
       /\ req[r].pc \in {"google", "link", "rollback", "notify"} => r \in DOMAIN row
       /\ req[r].pc \in {"calendar", "rows", "insert"} => r \notin DOMAIN row

IInv == TypeOK /\ LinksExist /\ RowsInStep /\ NoDoubleBooking /\ OneBookingPerKey
-----------------------------------------------------------------------------
\* The tables with one entry more, less or replaced keep their types.
LEMMA PutRow ==
  ASSUME LedgerTypeOK, NEW b \in Ids, NEW v \in Row
  PROVE  /\ DOMAIN Put(row, b, v) \subseteq Ids
         /\ Put(row, b, v) \in [DOMAIN Put(row, b, v) -> Row]
  BY DEF Put, LedgerTypeOK

LEMMA SetRow ==
  ASSUME LedgerTypeOK, NEW b, NEW v \in Row
  PROVE  /\ DOMAIN [row EXCEPT ![b] = v] \subseteq Ids
         /\ [row EXCEPT ![b] = v] \in [DOMAIN [row EXCEPT ![b] = v] -> Row]
  BY DEF LedgerTypeOK

LEMMA PutEvent ==
  ASSUME LedgerTypeOK, NEW e \in Ids \cup Sessions, NEW i \in Interval
  PROVE  /\ DOMAIN Put(event, e, i) \subseteq Ids \cup Sessions
         /\ Put(event, e, i) \in [DOMAIN Put(event, e, i) -> Interval]
  BY DEF Put, LedgerTypeOK

LEMMA DropEvent ==
  ASSUME LedgerTypeOK, NEW e
  PROVE  /\ DOMAIN Drop(event, e) \subseteq Ids \cup Sessions
         /\ Drop(event, e) \in [DOMAIN Drop(event, e) -> Interval]
  BY DEF Drop, LedgerTypeOK

LEMMA PutReq ==
  ASSUME CreateTypeOK, NEW r \in Requests, NEW v \in Request
  PROVE  /\ DOMAIN Put(req, r, v) \subseteq Requests
         /\ Put(req, r, v) \in [DOMAIN Put(req, r, v) -> Request]
  BY DEF Put, CreateTypeOK

LEMMA PutOp ==
  ASSUME ManageTypeOK, NEW m \in Ops, NEW v \in Op
  PROVE  /\ DOMAIN Put(op, m, v) \subseteq Ops
         /\ Put(op, m, v) \in [DOMAIN Put(op, m, v) -> Op]
  BY DEF Put, ManageTypeOK

LEMMA InitIInv == Init => IInv
  BY DEF Init, LedgerInit, CreateInit, ManageInit, IInv, TypeOK, LedgerTypeOK, CreateTypeOK,
         ManageTypeOK, LinksExist, RowsInStep, NoDoubleBooking, OneBookingPerKey, Exclusive, Confirmed
-----------------------------------------------------------------------------
\* Steps that leave the ledger alone and update an invocation that exists.
LEMMA CreateTypes ==
  ASSUME TypeOK, RowsInStep, NEW r \in Requests, CreateStep(r) \/ Crash(r), UNCHANGED op
  PROVE  TypeOK'
<1> USE DEF TypeOK, LedgerTypeOK, CreateTypeOK, ManageTypeOK, ledgerVars
<1>0. r \in DOMAIN req /\ req[r] \in Request
  BY DEF CreateStep, StartPassed, ReadCalendar, CalendarUnreachable, CheckSlot, InsertFindsKey,
         InsertRefused, InsertRow, InsertEvent, InsertEventFails, Rollback, LinkEvent, Notify,
         Crash, At
<1>1. CASE StartPassed(r)
  BY <1>0, <1>1 DEF StartPassed, Answer, Request
<1>2. CASE ReadCalendar(r)
  <2>1. Busy \subseteq Interval
    BY DEF Busy
  <2> QED BY <1>0, <1>2, <2>1 DEF ReadCalendar, Request
<1>3. CASE CalendarUnreachable(r)
  BY <1>0, <1>3 DEF CalendarUnreachable, Answer, Request
<1>4. CASE CheckSlot(r)
  BY <1>0, <1>4 DEF CheckSlot, Request
<1>5. CASE InsertFindsKey(r)
  BY <1>0, <1>5 DEF InsertFindsKey, Request
<1>6. CASE InsertRefused(r)
  BY <1>0, <1>6 DEF InsertRefused, Answer, Request
<1>7. CASE InsertRow(r)
  <2>1. NewRow(req[r].slot, req[r].key, NoSession) \in Row
    BY <1>0 DEF NewRow, Row, Request
  <2>2. DOMAIN row' \subseteq Ids /\ row' \in [DOMAIN row' -> Row]
    BY <1>7, <2>1, PutRow, CreateAssumption DEF InsertRow
  <2> QED BY <1>0, <1>7, <2>2 DEF InsertRow, Goto, Request
<1>8. CASE InsertEvent(r)
  <2>1. DOMAIN event' \subseteq Ids \cup Sessions /\ event' \in [DOMAIN event' -> Interval]
    BY <1>0, <1>8, PutEvent, CreateAssumption DEF InsertEvent, Request
  <2> QED BY <1>0, <1>8, <2>1 DEF InsertEvent, Goto, Request
<1>9. CASE InsertEventFails(r)
  <2>1. DOMAIN event' \subseteq Ids \cup Sessions /\ event' \in [DOMAIN event' -> Interval]
    BY <1>0, <1>9, PutEvent, CreateAssumption DEF InsertEventFails, Request
  <2> QED BY <1>0, <1>9, <2>1 DEF InsertEventFails, Goto, Request
<1>10. CASE Rollback(r)
  <2>1. DOMAIN row' \subseteq Ids /\ row' \in [DOMAIN row' -> Row]
    <3>1. [row[r] EXCEPT !.status = "cancelled", !.by = "system"] \in Row
      <4>1. r \in DOMAIN row
        BY <1>0, <1>10 DEF Rollback, RowsInStep, At
      <4>2. row[r] \in Row
        BY <4>1
      <4> QED BY <4>2 DEF Row
    <3>2. row' = [row EXCEPT ![r] = [row[r] EXCEPT !.status = "cancelled", !.by = "system"]]
      BY <1>10 DEF Rollback
    <3> QED BY <3>1, <3>2, SetRow
  <2> QED BY <1>0, <1>10, <2>1, CreateAssumption DEF Rollback, Answer, Request
<1>11. CASE LinkEvent(r)
  <2>1. DOMAIN row' \subseteq Ids /\ row' \in [DOMAIN row' -> Row]
    <3>1. [row[r] EXCEPT !.linked = TRUE] \in Row
      <4>1. r \in DOMAIN row
        BY <1>0, <1>11 DEF LinkEvent, RowsInStep, At
      <4>2. row[r] \in Row
        BY <4>1
      <4> QED BY <4>2 DEF Row
    <3>2. row' = [row EXCEPT ![r] = [row[r] EXCEPT !.linked = TRUE]]
      BY <1>11 DEF LinkEvent
    <3> QED BY <3>1, <3>2, SetRow
  <2> QED BY <1>0, <1>11, <2>1 DEF LinkEvent, Goto, Request
<1>12. CASE Notify(r)
  <2>1. mail' \subseteq Mail
    BY <1>0, <1>12, CreateAssumption DEF Notify, Confirmation, Mail, Request
  <2>2. CreateTypeOK'
    BY <1>0, <1>12 DEF Notify, Answer, Request
  <2> QED BY <1>12, <2>1, <2>2, CreateAssumption DEF Notify
<1>13. CASE Crash(r)
  BY <1>0, <1>13 DEF Crash, Request
<1> QED
  BY <1>1, <1>2, <1>3, <1>4, <1>5, <1>6, <1>7, <1>8, <1>9, <1>10, <1>11, <1>12, <1>13 DEF CreateStep

LEMMA SubmitTypes ==
  ASSUME TypeOK, NEW r \in Requests, NEW k \in Keys, NEW i \in Interval, Submit(r, k, i), UNCHANGED op
  PROVE  TypeOK'
<1>1. [pc |-> "calendar", key |-> k, slot |-> i, at |-> now, busy |-> {}, result |-> "none",
       found |-> FALSE] \in Request
  BY DEF Request, TypeOK, LedgerTypeOK
<1>2. CreateTypeOK'
  BY <1>1, PutReq DEF Submit, TypeOK, CreateTypeOK
<1> QED BY <1>2 DEF Submit, TypeOK, LedgerTypeOK, ManageTypeOK, ledgerVars

LEMMA ManageTypes ==
  ASSUME TypeOK, LinksExist, NEW m \in Ops, ManageStep(m) \/ CrashOp(m), UNCHANGED req
  PROVE  TypeOK'
<1> USE DEF TypeOK, LedgerTypeOK, CreateTypeOK, ManageTypeOK, ledgerVars
<1>0. /\ m \in DOMAIN op /\ op[m] \in Op
      /\ op[m].id \in DOMAIN row /\ row[op[m].id] \in Row
  BY DEF ManageStep, ReadAndCheckMove, MoveTooLate, MoveUnverified, UpdateFindsNothing, CancelRow,
         MoveRefused, MoveRow, DeleteEvent, PatchEvent, GoogleFails, SendMail, CrashOp, Pc, LinksExist
<1>1. CASE ReadAndCheckMove(m)
  BY <1>0, <1>1 DEF ReadAndCheckMove, CheckMove, Finish, Op
<1>2. CASE MoveTooLate(m)
  BY <1>0, <1>2 DEF MoveTooLate, Finish, Op
<1>3. CASE MoveUnverified(m)
  BY <1>0, <1>3 DEF MoveUnverified, Finish, Op
<1>4. CASE UpdateFindsNothing(m)
  BY <1>0, <1>4 DEF UpdateFindsNothing, Finish, Op
<1>5. CASE CancelRow(m)
  <2>1. DOMAIN row' \subseteq Ids /\ row' \in [DOMAIN row' -> Row]
    BY <1>0, <1>5 DEF CancelRow, NextSeq, Row
  <2>2. AfterUpdate(m) \in {"google", "mail"} /\ NextSeq(op[m].id) \in Nat
    BY <1>0 DEF AfterUpdate, NextSeq, Row
  <2>3. ManageTypeOK'
    BY <1>0, <1>5, <2>2 DEF CancelRow, Op
  <2> QED BY <1>5, <2>1, <2>3 DEF CancelRow
<1>6. CASE MoveRefused(m)
  BY <1>0, <1>6 DEF MoveRefused, Finish, Op
<1>7. CASE MoveRow(m)
  <2>1. AfterUpdate(m) \in {"google", "mail"} /\ NextSeq(op[m].id) \in Nat
    BY <1>0 DEF AfterUpdate, NextSeq, Row
  <2>2. DOMAIN row' \subseteq Ids /\ row' \in [DOMAIN row' -> Row]
    <3>1. [row[op[m].id] EXCEPT !.slot = op[m].to, !.reminded = FALSE, !.seq = NextSeq(op[m].id)] \in Row
      BY <1>0, <2>1 DEF Row, Op
    <3>2. row' = [row EXCEPT ![op[m].id] = [row[op[m].id] EXCEPT !.slot = op[m].to, !.reminded = FALSE,
                                                                !.seq = NextSeq(op[m].id)]]
      BY <1>7 DEF MoveRow
    <3> QED BY <3>1, <3>2, SetRow
  <2>3. ManageTypeOK'
    BY <1>0, <1>7, <2>1 DEF MoveRow, Op
  <2> QED BY <1>7, <2>2, <2>3 DEF MoveRow
<1>8. CASE DeleteEvent(m)
  <2>1. DOMAIN event' \subseteq Ids \cup Sessions /\ event' \in [DOMAIN event' -> Interval]
    BY <1>8, DropEvent DEF DeleteEvent
  <2> QED BY <1>0, <1>8, <2>1 DEF DeleteEvent, Op
<1>9. CASE PatchEvent(m)
  <2>1. DOMAIN event' \subseteq Ids \cup Sessions /\ event' \in [DOMAIN event' -> Interval]
    BY <1>0, <1>9 DEF PatchEvent, Op
  <2> QED BY <1>0, <1>9, <2>1 DEF PatchEvent, Op
<1>10. CASE GoogleFails(m)
  <2>1. DOMAIN event' \subseteq Ids \cup Sessions /\ event' \in [DOMAIN event' -> Interval]
    BY <1>0, <1>10, DropEvent DEF GoogleFails, Op
  <2>2. alerted' \subseteq Ids \cup Sessions
    BY <1>0, <1>10 DEF GoogleFails
  <2> QED BY <1>0, <1>10, <2>1, <2>2 DEF GoogleFails, Op
<1>11. CASE SendMail(m)
  <2>1. mail' \subseteq Mail /\ alerted' \subseteq Ids \cup Sessions
    BY <1>0, <1>11 DEF SendMail, Mail, Op
  <2>2. ManageTypeOK'
    BY <1>0, <1>11 DEF SendMail, Finish, Op
  <2> QED BY <1>11, <2>1, <2>2 DEF SendMail
<1>12. CASE CrashOp(m)
  BY <1>0, <1>12 DEF CrashOp, Op
<1> QED
  BY <1>1, <1>2, <1>3, <1>4, <1>5, <1>6, <1>7, <1>8, <1>9, <1>10, <1>11, <1>12 DEF ManageStep

LEMMA OpenTypes ==
  ASSUME TypeOK, LinksExist, NEW m \in Ops, NEW b \in Ids, UNCHANGED req,
         OpenCancel(m, b) \/ \E s \in Starts : OpenReschedule(m, b, s)
  PROVE  TypeOK'
<1>1. b \in DOMAIN row /\ row[b] \in Row
  BY DEF OpenCancel, OpenReschedule, LinksExist, TypeOK, LedgerTypeOK
<1>2. ASSUME OpenCancel(m, b) PROVE ManageTypeOK'
  <2>1. [pc |-> "update", kind |-> "cancel", id |-> b, old |-> row[b].slot, linked |-> row[b].linked,
         to |-> row[b].slot, seq |-> 0, result |-> "none"] \in Op
    BY <1>1 DEF Op, Row
  <2> QED BY <1>2, <2>1, PutOp DEF OpenCancel, TypeOK, ManageTypeOK
<1>3. ASSUME NEW s \in Starts, OpenReschedule(m, b, s) PROVE ManageTypeOK'
  <2>1. [pc |-> "loaded", kind |-> "reschedule", id |-> b, old |-> row[b].slot,
         linked |-> row[b].linked, to |-> [start |-> s, dur |-> row[b].slot.dur],
         seq |-> 0, result |-> "none"] \in Op
    BY <1>1 DEF Op, Row, Interval
  <2> QED BY <1>3, <2>1, PutOp DEF OpenReschedule, TypeOK, ManageTypeOK
<1> QED
  BY <1>2, <1>3 DEF OpenCancel, OpenReschedule, TypeOK, LedgerTypeOK, CreateTypeOK, ledgerVars

LEMMA StepTypes == TypeOK /\ LinksExist /\ RowsInStep /\ [Next]_vars => TypeOK'
<1> SUFFICES ASSUME TypeOK, LinksExist, RowsInStep, [Next]_vars PROVE TypeOK'
  OBVIOUS
<1>1. CASE CreateNext /\ UNCHANGED op
  BY <1>1, CreateTypes, SubmitTypes DEF CreateNext
<1>2. CASE ManageNext /\ UNCHANGED req
  BY <1>2, ManageTypes, OpenTypes DEF ManageNext
<1>3. CASE Tick /\ UNCHANGED <<req, op>>
  BY <1>3 DEF Tick, TypeOK, LedgerTypeOK, CreateTypeOK, ManageTypeOK
<1>4. CASE (\E i \in Interval : AcceptMeeting(i)) /\ UNCHANGED <<req, op>>
  BY <1>4 DEF AcceptMeeting, TypeOK, LedgerTypeOK, CreateTypeOK, ManageTypeOK
<1>5. CASE UNCHANGED vars
  BY <1>5 DEF vars, TypeOK, LedgerTypeOK, CreateTypeOK, ManageTypeOK
<1> QED BY <1>1, <1>2, <1>3, <1>4, <1>5 DEF Next
-----------------------------------------------------------------------------
\* The five statements that write booking.booking.
LEMMA RowWrites ==
  ASSUME [Next]_vars
  PROVE  \/ UNCHANGED row
         \/ \E r \in Requests : InsertRow(r) \/ Rollback(r) \/ LinkEvent(r)
         \/ \E m \in Ops : CancelRow(m) \/ MoveRow(m)
<1>1. CASE CreateNext /\ UNCHANGED op
  BY <1>1 DEF CreateNext, CreateStep, Submit, StartPassed, ReadCalendar, CalendarUnreachable,
     CheckSlot, InsertFindsKey, InsertRefused, InsertEvent, InsertEventFails, Notify, Crash, ledgerVars
<1>2. CASE ManageNext /\ UNCHANGED req
  BY <1>2 DEF ManageNext, ManageStep, OpenCancel, OpenReschedule, ReadAndCheckMove, MoveTooLate,
     MoveUnverified, UpdateFindsNothing, MoveRefused, DeleteEvent, PatchEvent, GoogleFails, SendMail,
     CrashOp, ledgerVars
<1>3. CASE (Tick \/ \E i \in Interval : AcceptMeeting(i)) /\ UNCHANGED <<req, op>>
  BY <1>3 DEF Tick, AcceptMeeting
<1>4. CASE UNCHANGED vars
  BY <1>4 DEF vars
<1> QED BY <1>1, <1>2, <1>3, <1>4 DEF Next

\* What those statements do to the columns the invariants read.
LEMMA RowEffects ==
  ASSUME IInv, [Next]_vars
  PROVE  \/ /\ DOMAIN row' = DOMAIN row
            /\ \A b \in DOMAIN row : /\ row'[b].slot = row[b].slot
                                     /\ row'[b].key = row[b].key
                                     /\ row'[b].group = row[b].group
                                     /\ row'[b].status = "confirmed" => row[b].status = "confirmed"
         \/ \E r \in Requests :
              /\ r \notin DOMAIN row /\ DOMAIN row' = DOMAIN row \cup {r}
              /\ \A b \in DOMAIN row : row'[b] = row[b]
              /\ RowsOf(row'[r].key) = {}
              /\ ~Refused(r, row'[r].slot)
         \/ \E b \in DOMAIN row :
              /\ DOMAIN row' = DOMAIN row
              /\ \A c \in DOMAIN row \ {b} : row'[c] = row[c]
              /\ row[b].status = "confirmed" /\ row'[b].status = "confirmed"
              /\ row'[b].key = row[b].key /\ row'[b].group = row[b].group
              /\ b \in Exclusive => ~Refused(b, row'[b].slot)
<1> USE DEF IInv, TypeOK, LedgerTypeOK
<1>1. CASE UNCHANGED row
  BY <1>1
<1>2. ASSUME NEW r \in Requests, InsertRow(r) PROVE r \notin DOMAIN row /\ row' = Put(row, r, NewRow(req[r].slot, req[r].key, NoSession))
  BY <1>2 DEF InsertRow, At, RowsInStep
<1>3. ASSUME NEW r \in Requests, InsertRow(r)
      PROVE  /\ r \notin DOMAIN row /\ DOMAIN row' = DOMAIN row \cup {r}
             /\ \A b \in DOMAIN row : row'[b] = row[b]
             /\ RowsOf(row'[r].key) = {}
             /\ ~Refused(r, row'[r].slot)
  <2>1. row'[r] = NewRow(req[r].slot, req[r].key, NoSession)
    BY <1>2, <1>3 DEF Put
  <2>2. row'[r].slot = req[r].slot /\ row'[r].key = req[r].key
    BY <2>1 DEF NewRow
  <2>3. DOMAIN row' = DOMAIN row \cup {r} /\ \A b \in DOMAIN row : row'[b] = row[b]
    BY <1>2, <1>3 DEF Put
  <2> QED BY <1>2, <1>3, <2>2, <2>3 DEF InsertRow
<1>4. ASSUME NEW r \in Requests, Rollback(r) \/ LinkEvent(r)
      PROVE  /\ DOMAIN row' = DOMAIN row
             /\ \A b \in DOMAIN row : /\ row'[b].slot = row[b].slot
                                      /\ row'[b].key = row[b].key
                                      /\ row'[b].group = row[b].group
                                      /\ row'[b].status = "confirmed" => row[b].status = "confirmed"
  BY <1>4 DEF Rollback, LinkEvent, Row
<1>5. ASSUME NEW m \in Ops, CancelRow(m)
      PROVE  /\ DOMAIN row' = DOMAIN row
             /\ \A b \in DOMAIN row : /\ row'[b].slot = row[b].slot
                                      /\ row'[b].key = row[b].key
                                      /\ row'[b].group = row[b].group
                                      /\ row'[b].status = "confirmed" => row[b].status = "confirmed"
  <2>1. PICK c : c = op[m].id
    OBVIOUS
  <2>2. PICK n : n = NextSeq(c)
    OBVIOUS
  <2>3. row' = [row EXCEPT ![c].status = "cancelled", ![c].by = "guest", ![c].seq = n]
    BY <1>5, <2>1, <2>2 DEF CancelRow
  <2>4. ASSUME NEW b \in DOMAIN row
        PROVE  /\ row'[b].slot = row[b].slot /\ row'[b].key = row[b].key /\ row'[b].group = row[b].group
               /\ row'[b].status = "confirmed" => row[b].status = "confirmed"
    <3>1. row[b] \in Row
      OBVIOUS
    <3>2. CASE b = c
      BY <2>3, <3>1, <3>2 DEF Row
    <3>3. CASE b # c
      BY <2>3, <3>3
    <3> QED BY <3>2, <3>3
  <2> QED BY <2>3, <2>4
<1>6. ASSUME NEW m \in Ops, MoveRow(m)
      PROVE  \E b \in DOMAIN row :
              /\ DOMAIN row' = DOMAIN row
              /\ \A c \in DOMAIN row \ {b} : row'[c] = row[c]
              /\ row[b].status = "confirmed" /\ row'[b].status = "confirmed"
              /\ row'[b].key = row[b].key /\ row'[b].group = row[b].group
              /\ b \in Exclusive => ~Refused(b, row'[b].slot)
  <2>1. op[m].id \in DOMAIN row /\ row[op[m].id] \in Row
    BY <1>6 DEF MoveRow, Pc, LinksExist
  <2>2. row' = [row EXCEPT ![op[m].id] = [row[op[m].id] EXCEPT !.slot = op[m].to, !.reminded = FALSE,
                                                              !.seq = NextSeq(op[m].id)]]
    BY <1>6 DEF MoveRow
  <2>3. /\ row'[op[m].id].slot = op[m].to
        /\ row'[op[m].id].status = row[op[m].id].status
        /\ row'[op[m].id].key = row[op[m].id].key
        /\ row'[op[m].id].group = row[op[m].id].group
    BY <2>1, <2>2 DEF Row
  <2>4. DOMAIN row' = DOMAIN row /\ \A c \in DOMAIN row \ {op[m].id} : row'[c] = row[c]
    BY <2>1, <2>2
  <2> QED BY <1>6, <2>1, <2>3, <2>4 DEF MoveRow, StillConfirmed
<1> QED BY <1>1, <1>3, <1>4, <1>5, <1>6, RowWrites

LEMMA StepKeys == IInv /\ [Next]_vars => OneBookingPerKey'
<1> SUFFICES ASSUME IInv, [Next]_vars, NEW a \in DOMAIN row', NEW b \in DOMAIN row',
                    row'[a].key = row'[b].key
             PROVE  a = b
  BY DEF OneBookingPerKey
<1>0. \A c, d \in DOMAIN row : row[c].key = row[d].key => c = d
  BY DEF IInv, OneBookingPerKey
<1>1. CASE DOMAIN row' = DOMAIN row /\ \A c \in DOMAIN row : row'[c].key = row[c].key
  BY <1>0, <1>1
<1>2. ASSUME NEW r \in Requests, r \notin DOMAIN row, DOMAIN row' = DOMAIN row \cup {r},
             \A c \in DOMAIN row : row'[c] = row[c], RowsOf(row'[r].key) = {}
      PROVE  a = b
  <2>1. \A c \in DOMAIN row : row'[c].key # row'[r].key
    BY <1>2 DEF RowsOf
  <2> QED BY <1>0, <1>2, <2>1
<1>3. ASSUME NEW x \in DOMAIN row, DOMAIN row' = DOMAIN row,
             \A c \in DOMAIN row \ {x} : row'[c] = row[c], row'[x].key = row[x].key
      PROVE  a = b
  <2>1. \A c \in DOMAIN row : row'[c].key = row[c].key
    BY <1>3
  <2> QED BY <1>0, <1>3, <2>1
<1> QED BY <1>1, <1>2, <1>3, RowEffects

LEMMA OverlapSymmetric ==
  ASSUME NEW i \in Interval, NEW j \in Interval
  PROVE  Overlap(i, j) <=> Overlap(j, i)
  BY DEF Overlap

LEMMA StepSlots == IInv /\ [Next]_vars => NoDoubleBooking'
<1> SUFFICES ASSUME IInv, [Next]_vars, NEW a \in Exclusive', NEW b \in Exclusive', a # b
             PROVE  ~Overlap(row'[a].slot, row'[b].slot)
  BY DEF NoDoubleBooking
<1>1. row' \in [DOMAIN row' -> Row] /\ a \in DOMAIN row' /\ b \in DOMAIN row'
  BY StepTypes DEF IInv, TypeOK, LedgerTypeOK, Exclusive, Confirmed
<1>2. row'[a].slot \in Interval /\ row'[b].slot \in Interval
  BY <1>1 DEF Row
<1>3. CASE /\ DOMAIN row' = DOMAIN row
           /\ \A c \in DOMAIN row : /\ row'[c].slot = row[c].slot
                                    /\ row'[c].key = row[c].key
                                    /\ row'[c].group = row[c].group
                                    /\ row'[c].status = "confirmed" => row[c].status = "confirmed"
  BY <1>3 DEF IInv, NoDoubleBooking, Exclusive, Confirmed
<1>4. ASSUME NEW r \in Requests, r \notin DOMAIN row, DOMAIN row' = DOMAIN row \cup {r},
             \A c \in DOMAIN row : row'[c] = row[c], ~Refused(r, row'[r].slot)
      PROVE  ~Overlap(row'[a].slot, row'[b].slot)
  <2>1. CASE a # r /\ b # r
    BY <1>4, <2>1 DEF IInv, NoDoubleBooking, Exclusive, Confirmed
  <2>2. CASE a = r
    BY <1>4, <2>2 DEF Refused, Exclusive, Confirmed
  <2>3. CASE b = r
    BY <1>4, <2>3, <1>2, OverlapSymmetric DEF Refused, Exclusive, Confirmed
  <2> QED BY <2>1, <2>2, <2>3
<1>5. ASSUME NEW x \in DOMAIN row, DOMAIN row' = DOMAIN row,
             \A c \in DOMAIN row \ {x} : row'[c] = row[c],
             row[x].status = "confirmed", row'[x].group = row[x].group,
             x \in Exclusive => ~Refused(x, row'[x].slot)
      PROVE  ~Overlap(row'[a].slot, row'[b].slot)
  <2>1. CASE a # x /\ b # x
    BY <1>5, <2>1 DEF IInv, NoDoubleBooking, Exclusive, Confirmed
  <2>2. CASE a = x
    BY <1>5, <2>2 DEF Refused, Exclusive, Confirmed
  <2>3. CASE b = x
    BY <1>5, <2>3, <1>2, OverlapSymmetric DEF Refused, Exclusive, Confirmed
  <2> QED BY <2>1, <2>2, <2>3
<1> QED BY <1>3, <1>4, <1>5, RowEffects

LEMMA StepLinks == IInv /\ [Next]_vars => LinksExist'
<1> SUFFICES ASSUME IInv, [Next]_vars PROVE LinksExist'
  OBVIOUS
<1>1. DOMAIN row \subseteq DOMAIN row'
  BY RowEffects
<1>2. link' \subseteq link \cup DOMAIN row
  <2>1. CASE CreateNext /\ UNCHANGED op
    <3>1. ASSUME NEW r \in Requests, Notify(r) PROVE link' \subseteq link \cup DOMAIN row
      BY <3>1 DEF Notify, At, IInv, RowsInStep
    <3>2. UNCHANGED link \/ \E r \in Requests : Notify(r)
      BY <2>1 DEF CreateNext, CreateStep, Submit, StartPassed, ReadCalendar, CalendarUnreachable,
         CheckSlot, InsertFindsKey, InsertRefused, InsertRow, InsertEvent, InsertEventFails, Rollback,
         LinkEvent, Crash, ledgerVars
    <3> QED BY <3>1, <3>2
  <2>2. CASE ManageNext /\ UNCHANGED req
    BY <2>2 DEF ManageNext, ManageStep, OpenCancel, OpenReschedule, ReadAndCheckMove, MoveTooLate,
       MoveUnverified, UpdateFindsNothing, CancelRow, MoveRefused, MoveRow, DeleteEvent, PatchEvent,
       GoogleFails, SendMail, CrashOp, ledgerVars
  <2>3. CASE (Tick \/ \E i \in Interval : AcceptMeeting(i)) /\ UNCHANGED <<req, op>>
    BY <2>3 DEF Tick, AcceptMeeting
  <2>4. CASE UNCHANGED vars
    BY <2>4 DEF vars
  <2> QED BY <2>1, <2>2, <2>3, <2>4 DEF Next
<1>3. \A m \in DOMAIN op' : op'[m].id \in DOMAIN row
  <2> USE DEF IInv, LinksExist, TypeOK, ManageTypeOK, Op
  <2>1. ASSUME NEW m \in Ops, NEW b \in Ids, OpenCancel(m, b)
        PROVE  \A n \in DOMAIN op' : op'[n].id \in DOMAIN row
    BY <2>1 DEF OpenCancel, Put
  <2>2. ASSUME NEW m \in Ops, NEW b \in Ids, NEW s \in Starts, OpenReschedule(m, b, s)
        PROVE  \A n \in DOMAIN op' : op'[n].id \in DOMAIN row
    BY <2>2 DEF OpenReschedule, Put
  <2>3. ASSUME NEW m \in Ops, ManageStep(m) \/ CrashOp(m)
        PROVE  \A n \in DOMAIN op' : op'[n].id \in DOMAIN row
    <3>1. m \in DOMAIN op
      BY <2>3 DEF ManageStep, ReadAndCheckMove, MoveTooLate, MoveUnverified, UpdateFindsNothing,
         CancelRow, MoveRefused, MoveRow, DeleteEvent, PatchEvent, GoogleFails, SendMail, CrashOp, Pc
    <3>2. CASE ReadAndCheckMove(m)
      BY <3>1, <3>2 DEF ReadAndCheckMove, CheckMove, Finish
    <3>3. CASE MoveTooLate(m) \/ MoveUnverified(m) \/ UpdateFindsNothing(m) \/ MoveRefused(m)
      BY <3>1, <3>3 DEF MoveTooLate, MoveUnverified, UpdateFindsNothing, MoveRefused, Finish
    <3>4. CASE CancelRow(m)
      BY <3>1, <3>4 DEF CancelRow
    <3>5. CASE MoveRow(m)
      BY <3>1, <3>5 DEF MoveRow
    <3>6. CASE DeleteEvent(m) \/ PatchEvent(m) \/ GoogleFails(m)
      BY <3>1, <3>6 DEF DeleteEvent, PatchEvent, GoogleFails
    <3>7. CASE SendMail(m) \/ CrashOp(m)
      BY <3>1, <3>7 DEF SendMail, CrashOp, Finish
    <3> QED BY <2>3, <3>2, <3>3, <3>4, <3>5, <3>6, <3>7 DEF ManageStep
  <2>4. CASE UNCHANGED op
    BY <2>4
  <2>5. CASE ManageNext /\ UNCHANGED req
    BY <2>1, <2>2, <2>3, <2>5 DEF ManageNext
  <2>6. UNCHANGED op \/ (ManageNext /\ UNCHANGED req)
    BY DEF Next, vars
  <2> QED BY <2>4, <2>5, <2>6
<1> QED BY <1>1, <1>2, <1>3 DEF LinksExist, IInv

LEMMA StepRows == IInv /\ [Next]_vars => RowsInStep'
<1> SUFFICES ASSUME IInv, [Next]_vars PROVE RowsInStep'
  OBVIOUS
<1> USE DEF IInv, RowsInStep, TypeOK, CreateTypeOK
<1>1. ASSUME NEW r \in Requests, NEW k \in Keys, NEW i \in Interval, Submit(r, k, i)
      PROVE  RowsInStep'
  <2>1. r \notin DOMAIN req /\ r \notin DOMAIN row /\ UNCHANGED row
    BY <1>1 DEF Submit, ledgerVars
  <2>2. DOMAIN req' = DOMAIN req \cup {r} /\ req'[r].pc = "calendar"
    BY <1>1 DEF Submit, Put
  <2>3. \A q \in DOMAIN req : req'[q] = req[q]
    BY <1>1, <2>1 DEF Submit, Put
  <2> QED BY <2>1, <2>2, <2>3
<1>2. ASSUME NEW r \in Requests, CreateStep(r) \/ Crash(r) PROVE RowsInStep'
  <2>1. r \in DOMAIN req /\ req[r] \in Request
    BY <1>2 DEF CreateStep, StartPassed, ReadCalendar, CalendarUnreachable, CheckSlot, InsertFindsKey,
       InsertRefused, InsertRow, InsertEvent, InsertEventFails, Rollback, LinkEvent, Notify, Crash, At
  <2>2. DOMAIN req' = DOMAIN req /\ \A q \in DOMAIN req \ {r} : req'[q] = req[q]
    <3>1. CASE StartPassed(r) \/ CalendarUnreachable(r) \/ InsertRefused(r) \/ Rollback(r) \/ Notify(r)
      BY <2>1, <3>1 DEF StartPassed, CalendarUnreachable, InsertRefused, Rollback, Notify, Answer
    <3>2. CASE ReadCalendar(r) \/ CheckSlot(r) \/ InsertFindsKey(r) \/ Crash(r)
      BY <2>1, <3>2 DEF ReadCalendar, CheckSlot, InsertFindsKey, Crash
    <3>3. CASE InsertRow(r) \/ InsertEvent(r) \/ InsertEventFails(r) \/ LinkEvent(r)
      BY <2>1, <3>3 DEF InsertRow, InsertEvent, InsertEventFails, LinkEvent, Goto
    <3> QED BY <1>2, <3>1, <3>2, <3>3 DEF CreateStep
  <2>3. CASE InsertRow(r)
    <3>1. DOMAIN row' = DOMAIN row \cup {r}
      BY <2>3 DEF InsertRow, Put
    <3>2. req'[r].pc \in {"google", "notify"}
      BY <2>1, <2>3 DEF InsertRow, Goto, Request
    <3> QED BY <2>1, <2>2, <3>1, <3>2
  <2>4. CASE ~InsertRow(r)
    <3>1. DOMAIN row' = DOMAIN row
      BY <1>2, <2>4 DEF CreateStep, StartPassed, ReadCalendar, CalendarUnreachable, CheckSlot,
         InsertFindsKey, InsertRefused, InsertEvent, InsertEventFails, Rollback, LinkEvent, Notify,
         Crash, ledgerVars
    <3>2. \/ req'[r].pc \in {"done", "crashed"}
          \/ req[r].pc \in {"calendar", "rows"} /\ req'[r].pc \in {"rows", "insert"}
          \/ req[r].pc \in {"google", "link"} /\ req'[r].pc \in {"link", "rollback", "notify"}
      <4>1. CASE StartPassed(r) \/ CalendarUnreachable(r) \/ InsertRefused(r) \/ Rollback(r) \/ Notify(r)
        BY <2>1, <4>1 DEF StartPassed, CalendarUnreachable, InsertRefused, Rollback, Notify, Answer,
           Request
      <4>2. CASE ReadCalendar(r) \/ CheckSlot(r) \/ InsertFindsKey(r) \/ Crash(r)
        BY <2>1, <4>2 DEF ReadCalendar, CheckSlot, InsertFindsKey, Crash, At, Request
      <4>3. CASE InsertEvent(r) \/ InsertEventFails(r) \/ LinkEvent(r)
        BY <2>1, <4>3 DEF InsertEvent, InsertEventFails, LinkEvent, Goto, At, Request
      <4> QED BY <1>2, <2>4, <4>1, <4>2, <4>3 DEF CreateStep
    <3> QED BY <2>1, <2>2, <3>1, <3>2
  <2> QED BY <2>3, <2>4
<1>3. ASSUME UNCHANGED req PROVE RowsInStep'
  <2>1. CASE ManageNext
    BY <1>3, <2>1, ZenonT(20) DEF ManageNext, ManageStep, OpenCancel, OpenReschedule, ReadAndCheckMove,
       MoveTooLate, MoveUnverified, UpdateFindsNothing, CancelRow, MoveRefused, MoveRow, DeleteEvent,
       PatchEvent, GoogleFails, SendMail, CrashOp, ledgerVars
  <2>2. CASE UNCHANGED row
    BY <1>3, <2>2
  <2>3. ManageNext \/ UNCHANGED row \/ (CreateNext /\ UNCHANGED op)
    BY DEF Next, Tick, AcceptMeeting, vars
  <2>4. CASE CreateNext
    BY <1>1, <1>2, <2>4 DEF CreateNext
  <2> QED BY <2>1, <2>2, <2>3, <2>4
<1>4. UNCHANGED req \/ CreateNext
  BY DEF Next, vars
<1> QED BY <1>1, <1>2, <1>3, <1>4 DEF CreateNext
-----------------------------------------------------------------------------
\* The invariant behind the theorems below.
THEOREM Inductive == Spec => []IInv
<1>1. IInv /\ [Next]_vars => IInv'
  BY StepTypes, StepLinks, StepRows, StepSlots, StepKeys DEF IInv
<1> QED BY InitIInv, <1>1, PTL DEF Spec

\* Every handler leaves the state well formed: the types of the table, of the
\* calendar, of the mail and of the invocations' local variables.
THEOREM TypeCorrect == Spec => []TypeOK
<1>1. IInv => TypeOK
  BY DEF IInv
<1> QED BY Inductive, <1>1, PTL

\* Whatever creations and moves interleave, no two confirmed 1:1 bookings of the
\* manager overlap (booking_no_overlap, and the two statements it guards).
THEOREM NeverDoubleBooked == Spec => []NoDoubleBooking
<1>1. IInv => NoDoubleBooking
  BY DEF IInv
<1> QED BY Inductive, <1>1, PTL

\* However often a form is posted, its idempotency key has one row.
THEOREM KeyedOnce == Spec => []OneBookingPerKey
<1>1. IInv => OneBookingPerKey
  BY DEF IInv
<1> QED BY Inductive, <1>1, PTL

\* No step of any handler revives or moves a cancelled booking: the conditional
\* UPDATE of cancel and move looks at the row itself, not at its snapshot, and
\* the two updates by id alone never write "confirmed".
THEOREM CancellationFinal == Spec => CancelledIsFinal
<1>1. ASSUME IInv, [Next]_vars
      PROVE  \A b \in DOMAIN row : row[b].status = "cancelled" =>
               row'[b].status = "cancelled" /\ row'[b].slot = row[b].slot
  <2>1. CASE UNCHANGED row
    BY <2>1
  <2>2. ASSUME NEW r \in Requests, InsertRow(r)
        PROVE  \A b \in DOMAIN row : row'[b] = row[b]
    BY <1>1, <2>2 DEF InsertRow, At, Put, IInv, RowsInStep
  <2>3. ASSUME NEW r \in Requests, Rollback(r) \/ LinkEvent(r)
        PROVE  \A b \in DOMAIN row : row[b].status = "cancelled" =>
                 row'[b].status = "cancelled" /\ row'[b].slot = row[b].slot
    BY <1>1, <2>3 DEF Rollback, LinkEvent, IInv, TypeOK, LedgerTypeOK, Row
  <2>4. ASSUME NEW m \in Ops, CancelRow(m) \/ MoveRow(m)
        PROVE  \A b \in DOMAIN row : row[b].status = "cancelled" => row'[b] = row[b]
    BY <1>1, <2>4 DEF CancelRow, MoveRow, StillConfirmed, IInv, TypeOK, LedgerTypeOK
  <2> QED BY <1>1, <2>1, <2>2, <2>3, <2>4, RowWrites
<1> QED BY Inductive, <1>1, PTL DEF Spec, CancelledIsFinal
=============================================================================
