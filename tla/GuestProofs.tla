---------------------------- MODULE GuestProofs -----------------------------
(***************************************************************************)
(* What guests were told, for every value of OneToOne's constants.  Mails  *)
(* leave in any order and long after the row changed, so the invariant is  *)
(* about everything that is Said: what was mailed and what an invocation   *)
(* past its UPDATE is still going to mail.  Every number was given by one  *)
(* UPDATE of its row, and the newest one says what the row says.  And the  *)
(* answer "booked" is given after the last step that could take it back.   *)
(* The last section is about the manager's Google calendar.                *)
(***************************************************************************)
EXTENDS OneToOneProofs, FiniteSetTheorems

\* The mail of a cancellation or a move (SendMail).
Notice(m) == [id |-> op[m].id, seq |-> op[m].seq, slot |-> op[m].to,
              method |-> IF op[m].kind = "cancel" THEN "CANCEL" ELSE "REQUEST"]

Said == mail \cup {Notice(m) : m \in {n \in DOMAIN op : op[n].pc \in {"google", "mail"}}}

SaysTheRow(x) ==
  IF x.method = "CANCEL" THEN row[x.id].status = "cancelled"
  ELSE row[x.id].status = "confirmed" /\ x.slot = row[x.id].slot

\* A guest holds a manage link only when the booking's own invocation is over.
LinkedWhenDone ==
  /\ \A b \in link : b \in DOMAIN req /\ req[b].pc = "done"
  /\ \A m \in DOMAIN op : op[m].id \in link

\* Until then the row is as it was inserted.
AsInserted ==
  \A r \in DOMAIN req : req[r].pc \in {"google", "link", "notify"} =>
    row[r].seq = 0 /\ row[r].slot = req[r].slot /\ row[r].status = "confirmed"

NeverAhead ==
  \A x \in Said : /\ x.id \in link /\ x.seq <= row[x.id].seq
                  /\ x.seq = row[x.id].seq => SaysTheRow(x)

OneMailPerNumber == \A x, y \in Said : x.id = y.id /\ x.seq = y.seq => x = y

MInv == IInv /\ LinkedWhenDone /\ AsInserted /\ NeverAhead /\ OneMailPerNumber
-----------------------------------------------------------------------------
LEMMA InitMInv == Init => MInv
<1> SUFFICES ASSUME Init PROVE MInv
  OBVIOUS
<1>1. DOMAIN req = {} /\ DOMAIN op = {} /\ link = {} /\ mail = {}
  BY DEF Init, LedgerInit, CreateInit, ManageInit
<1>2. Said = {}
  BY <1>1 DEF Said
<1> QED
  BY <1>1, <1>2, InitIInv DEF MInv, LinkedWhenDone, AsInserted, NeverAhead, OneMailPerNumber

\* How one step of createBooking moves its invocation.
LEMMA ReqMoves ==
  ASSUME IInv, NEW r \in Requests, CreateStep(r) \/ Crash(r)
  PROVE  /\ r \in DOMAIN req /\ DOMAIN req' = DOMAIN req /\ req[r].pc # "done"
         /\ \A q \in DOMAIN req \ {r} : req'[q] = req[q]
         /\ req'[r].slot = req[r].slot
         /\ \/ InsertRow(r) /\ UNCHANGED <<mail, link>>
            \/ /\ LinkEvent(r) /\ req[r].pc = "link" /\ UNCHANGED <<mail, link>>
            \/ Rollback(r) /\ req'[r].pc = "done" /\ UNCHANGED <<mail, link>>
            \/ Notify(r) /\ req[r].pc = "notify" /\ req'[r].pc = "done"
            \/ /\ UNCHANGED <<row, mail, link>>
               /\ req'[r].pc \in {"google", "link", "notify"} => req[r].pc \in {"google", "link", "notify"}
<1> USE DEF IInv, TypeOK, CreateTypeOK, ledgerVars
<1>0. r \in DOMAIN req /\ req[r] \in Request /\ req[r].pc # "done"
  BY DEF CreateStep, StartPassed, ReadCalendar, CalendarUnreachable, CheckSlot, InsertFindsKey,
         InsertRefused, InsertRow, InsertEvent, InsertEventFails, Rollback, LinkEvent, Notify,
         Crash, At
<1>1. CASE StartPassed(r) \/ CalendarUnreachable(r) \/ InsertRefused(r)
  BY <1>0, <1>1 DEF StartPassed, CalendarUnreachable, InsertRefused, Answer, Request
<1>2. CASE ReadCalendar(r)
  BY <1>0, <1>2 DEF ReadCalendar, Request
<1>3. CASE CheckSlot(r)
  BY <1>0, <1>3 DEF CheckSlot, Request
<1>4. CASE InsertFindsKey(r) \/ Crash(r)
  BY <1>0, <1>4 DEF InsertFindsKey, Crash, Request
<1>5. CASE InsertRow(r)
  BY <1>0, <1>5 DEF InsertRow, Goto, Request
<1>6. CASE InsertEvent(r) \/ InsertEventFails(r)
  BY <1>0, <1>6 DEF InsertEvent, InsertEventFails, Goto, At, Request
<1>7. CASE Rollback(r)
  BY <1>0, <1>7 DEF Rollback, Answer, Request
<1>8. CASE LinkEvent(r)
  BY <1>0, <1>8 DEF LinkEvent, Goto, At, Request
<1>9. CASE Notify(r)
  BY <1>0, <1>9 DEF Notify, Answer, At, Request
<1> QED BY <1>1, <1>2, <1>3, <1>4, <1>5, <1>6, <1>7, <1>8, <1>9 DEF CreateStep

\* How one step of a cancel or a move does.
LEMMA OpMoves ==
  ASSUME IInv, NEW m \in Ops, ManageStep(m) \/ CrashOp(m)
  PROVE  /\ m \in DOMAIN op /\ DOMAIN op' = DOMAIN op /\ op[m] \in Op
         /\ \A n \in DOMAIN op \ {m} : op'[n] = op[n]
         /\ op'[m].id = op[m].id /\ op'[m].to = op[m].to /\ op'[m].kind = op[m].kind
         /\ UNCHANGED link
         /\ \/ /\ CancelRow(m) \/ MoveRow(m)
               /\ op'[m].seq = NextSeq(op[m].id) /\ UNCHANGED mail
            \/ /\ UNCHANGED <<row, mail>> /\ op[m].pc = "google" /\ op'[m].seq = op[m].seq
            \/ UNCHANGED row /\ op'[m].pc \in {"update", "done", "crashed"} /\ mail' \subseteq Said
<1> USE DEF IInv, TypeOK, ManageTypeOK, ledgerVars
<1>0. m \in DOMAIN op /\ op[m] \in Op
  BY DEF ManageStep, ReadAndCheckMove, MoveTooLate, MoveUnverified, UpdateFindsNothing, CancelRow,
         MoveRefused, MoveRow, DeleteEvent, PatchEvent, GoogleFails, SendMail, CrashOp, Pc
<1>1. CASE ReadAndCheckMove(m)
  BY <1>0, <1>1 DEF ReadAndCheckMove, CheckMove, Finish, Op, Said
<1>2. CASE MoveTooLate(m) \/ MoveUnverified(m) \/ UpdateFindsNothing(m) \/ MoveRefused(m)
  BY <1>0, <1>2 DEF MoveTooLate, MoveUnverified, UpdateFindsNothing, MoveRefused, Finish, Op, Said
<1>3. CASE CancelRow(m)
  BY <1>0, <1>3 DEF CancelRow, Op
<1>4. CASE MoveRow(m)
  BY <1>0, <1>4 DEF MoveRow, Op
<1>5. CASE DeleteEvent(m) \/ PatchEvent(m) \/ GoogleFails(m)
  BY <1>0, <1>5 DEF DeleteEvent, PatchEvent, GoogleFails, Pc, Op
<1>6. CASE SendMail(m)
  <2>1. Notice(m) \in Said
    BY <1>0, <1>6 DEF SendMail, Pc, Said
  <2>2. mail' \subseteq Said
    BY <1>6, <2>1 DEF SendMail, Notice, Said
  <2> QED BY <1>0, <1>6, <2>2 DEF SendMail, Finish, Op
<1>7. CASE CrashOp(m)
  BY <1>0, <1>7 DEF CrashOp, Op, Said
<1> QED BY <1>1, <1>2, <1>3, <1>4, <1>5, <1>6, <1>7 DEF ManageStep
-----------------------------------------------------------------------------
LEMMA StepLinked == MInv /\ [Next]_vars => LinkedWhenDone' /\ link \subseteq link'
<1> SUFFICES ASSUME MInv, [Next]_vars PROVE LinkedWhenDone' /\ link \subseteq link'
  OBVIOUS
<1> USE DEF MInv, LinkedWhenDone
<1>1. ASSUME NEW r \in Requests, CreateStep(r) \/ Crash(r), UNCHANGED op
      PROVE  LinkedWhenDone' /\ link \subseteq link'
  <2>1. link' \subseteq link \cup {r} /\ link \subseteq link' /\ (r \in link' => req'[r].pc = "done")
    <3>1. CASE Notify(r)
      BY <1>1, <3>1, ReqMoves DEF Notify
    <3>2. CASE ~Notify(r)
      BY <1>1, <3>2, ReqMoves
    <3> QED BY <3>1, <3>2
  <2> QED BY <1>1, <2>1, ReqMoves
<1>2. ASSUME NEW r \in Requests, NEW k \in Keys, NEW i \in Interval, Submit(r, k, i), UNCHANGED op
      PROVE  LinkedWhenDone' /\ link \subseteq link'
  BY <1>2 DEF Submit, Put, ledgerVars
<1>3. ASSUME NEW m \in Ops, ManageStep(m) \/ CrashOp(m), UNCHANGED req
      PROVE  LinkedWhenDone' /\ link \subseteq link'
  BY <1>3, OpMoves
<1>4. ASSUME NEW m \in Ops, NEW b \in Ids, OpenCancel(m, b), UNCHANGED req
      PROVE  LinkedWhenDone' /\ link \subseteq link'
  BY <1>4 DEF OpenCancel, Put, ledgerVars
<1>5. ASSUME NEW m \in Ops, NEW b \in Ids, NEW s \in Starts, OpenReschedule(m, b, s), UNCHANGED req
      PROVE  LinkedWhenDone' /\ link \subseteq link'
  BY <1>5 DEF OpenReschedule, Put, ledgerVars
<1>6. CASE UNCHANGED <<link, req, op>>
  BY <1>6
<1> QED
  BY <1>1, <1>2, <1>3, <1>4, <1>5, <1>6 DEF Next, CreateNext, ManageNext, Tick, AcceptMeeting, vars

\* What is written of a row before its guest has a link, and what after.
LEMMA RowsChange ==
  ASSUME MInv, [Next]_vars
  PROVE  \/ /\ \A b \in DOMAIN row : /\ row'[b].seq = row[b].seq /\ row'[b].slot = row[b].slot
                                     /\ row'[b].status = row[b].status
            /\ DOMAIN row' = DOMAIN row
         \/ \E r \in Requests :
              /\ InsertRow(r) /\ r \notin DOMAIN row
              /\ row'[r] = NewRow(req[r].slot, req[r].key, NoSession)
              /\ \A b \in DOMAIN row : row'[b] = row[b]
         \/ \E r \in Requests :
              /\ Rollback(r) /\ r \notin link
              /\ \A b \in DOMAIN row \ {r} : row'[b] = row[b]
         \/ \E m \in Ops :
              /\ CancelRow(m) \/ MoveRow(m)
              /\ m \in DOMAIN op /\ op[m].id \in link
              /\ \A b \in DOMAIN row \ {op[m].id} : row'[b] = row[b]
<1> USE DEF MInv, IInv, TypeOK, LedgerTypeOK
<1>1. ASSUME NEW r \in Requests, InsertRow(r)
      PROVE  /\ r \notin DOMAIN row
             /\ row'[r] = NewRow(req[r].slot, req[r].key, NoSession)
             /\ \A b \in DOMAIN row : row'[b] = row[b]
  BY <1>1 DEF InsertRow, At, RowsInStep, Put
<1>2. ASSUME NEW r \in Requests, Rollback(r)
      PROVE  /\ r \notin link
             /\ \A b \in DOMAIN row \ {r} : row'[b] = row[b]
  BY <1>2 DEF Rollback, At, LinkedWhenDone
<1>3. ASSUME NEW r \in Requests, LinkEvent(r)
      PROVE  /\ \A b \in DOMAIN row : /\ row'[b].seq = row[b].seq /\ row'[b].slot = row[b].slot
                                      /\ row'[b].status = row[b].status
             /\ DOMAIN row' = DOMAIN row
  BY <1>3 DEF LinkEvent, Row
<1>4. ASSUME NEW m \in Ops, CancelRow(m) \/ MoveRow(m)
      PROVE  /\ m \in DOMAIN op /\ op[m].id \in link
             /\ \A b \in DOMAIN row \ {op[m].id} : row'[b] = row[b]
  BY <1>4 DEF CancelRow, MoveRow, Pc, LinkedWhenDone
<1> QED BY <1>1, <1>2, <1>3, <1>4, RowWrites

LEMMA StepInserted == MInv /\ [Next]_vars => AsInserted'
<1> SUFFICES ASSUME MInv, [Next]_vars, NEW q \in DOMAIN req', req'[q].pc \in {"google", "link", "notify"}
             PROVE  row'[q].seq = 0 /\ row'[q].slot = req'[q].slot /\ row'[q].status = "confirmed"
  BY DEF AsInserted
<1> DEFINE Kept == row'[q].seq = 0 /\ row'[q].slot = req'[q].slot /\ row'[q].status = "confirmed"
<1>0. IInv /\ LinkedWhenDone /\ AsInserted
  BY DEF MInv
<1>1. ASSUME q \in DOMAIN req, req[q].pc \in {"google", "link", "notify"}, req'[q].slot = req[q].slot
      PROVE  Kept
  <2>1. q \in DOMAIN row /\ q \notin link
    BY <1>0, <1>1 DEF IInv, RowsInStep, LinkedWhenDone
  <2>2. row[q].seq = 0 /\ row[q].slot = req'[q].slot /\ row[q].status = "confirmed"
    BY <1>0, <1>1 DEF AsInserted
  <2>3. ASSUME NEW r \in Requests, Rollback(r) PROVE r # q
    <3>1. req[r].pc = "rollback"
      BY <2>3 DEF Rollback, At
    <3> QED BY <1>1, <3>1
  <2> QED BY <2>1, <2>2, <2>3, RowsChange
<1>2. ASSUME NEW r \in Requests, CreateStep(r) \/ Crash(r) PROVE Kept
  <2>1. CASE q # r
    BY <1>0, <1>1, <1>2, <2>1, ReqMoves
  <2>2. CASE q = r /\ InsertRow(r)
    <3>1. row'[r] = NewRow(req[r].slot, req[r].key, NoSession)
      BY <2>2, <1>0 DEF InsertRow, Put
    <3> QED BY <1>0, <1>2, <2>2, <3>1, ReqMoves DEF NewRow
  <2>3. CASE q = r /\ ~InsertRow(r)
    <3>1. req[r].pc \in {"google", "link", "notify"} /\ r \in DOMAIN req /\ req'[r].slot = req[r].slot
      BY <1>0, <1>2, <2>3, ReqMoves
    <3> QED BY <1>1, <2>3, <3>1
  <2> QED BY <2>1, <2>2, <2>3
<1>3. ASSUME NEW r \in Requests, NEW k \in Keys, NEW i \in Interval, Submit(r, k, i) PROVE Kept
  BY <1>1, <1>3 DEF Submit, Put
<1>4. CASE UNCHANGED req
  BY <1>1, <1>4
<1> QED BY <1>2, <1>3, <1>4 DEF Next, CreateNext, vars
-----------------------------------------------------------------------------
\* Nothing new is said, and of the rows with a link nothing was written that a mail
\* tells.
LEMMA NothingNew ==
  ASSUME MInv, link \subseteq link', Said' \subseteq Said,
         \A b \in link : /\ row'[b].seq = row[b].seq /\ row'[b].slot = row[b].slot
                         /\ row'[b].status = row[b].status
  PROVE  NeverAhead' /\ OneMailPerNumber'
<1>1. OneMailPerNumber'
  BY DEF MInv, OneMailPerNumber
<1>2. NeverAhead'
  BY DEF MInv, NeverAhead, SaysTheRow
<1> QED BY <1>1, <1>2

\* The confirmation is the first that is said of its row.
LEMMA ConfirmationSaid ==
  ASSUME MInv, NEW r \in Requests, Notify(r), UNCHANGED op
  PROVE  NeverAhead' /\ OneMailPerNumber'
<1> DEFINE c == Confirmation(r, req[r].slot)
<1>0. /\ r \in DOMAIN req /\ r \notin link /\ link' = link \cup {r} /\ UNCHANGED row
      /\ row[r].seq = 0 /\ row[r].slot = req[r].slot /\ row[r].status = "confirmed"
  BY DEF Notify, At, MInv, LinkedWhenDone, AsInserted
<1>1. Said' \subseteq Said \cup {c}
  BY DEF Notify, Said, Notice
<1>2. c.id = r /\ c.seq = 0 /\ c.method = "REQUEST" /\ c.slot = req[r].slot
  BY DEF Confirmation
<1>3. \A x \in Said : x.id # r /\ x.id \in link
  BY <1>0 DEF MInv, NeverAhead
<1>4. OneMailPerNumber'
  BY <1>1, <1>2, <1>3 DEF MInv, OneMailPerNumber
<1>5. NeverAhead'
  BY <1>0, <1>1, <1>2, <1>3 DEF MInv, NeverAhead, SaysTheRow
<1> QED BY <1>4, <1>5

\* The two UPDATEs give a number nobody has, and what will be said under it is what
\* they wrote.
LEMMA NoticeSaid ==
  ASSUME MInv, NEW m \in Ops, CancelRow(m) \/ MoveRow(m)
  PROVE  NeverAhead' /\ OneMailPerNumber'
<1> DEFINE b == op[m].id
           n == Notice(m)'
<1> USE DEF MInv, IInv, TypeOK, LedgerTypeOK, ManageTypeOK
<1>0. /\ m \in DOMAIN op /\ op[m] \in Op /\ DOMAIN op' = DOMAIN op
      /\ \A d \in DOMAIN op \ {m} : op'[d] = op[d]
      /\ op'[m].id = b /\ op'[m].to = op[m].to /\ op'[m].kind = op[m].kind
      /\ op'[m].seq = NextSeq(b) /\ UNCHANGED <<mail, link>>
  <2>1. ManageStep(m)
    BY DEF ManageStep
  <2>2. op'[m].seq = NextSeq(b) /\ UNCHANGED mail
    <3>1. m \in DOMAIN op /\ op[m] \in Op
      BY <2>1, OpMoves
    <3> QED BY <3>1 DEF CancelRow, MoveRow, Op
  <2> QED BY <2>1, <2>2, OpMoves
<1>1. b \in DOMAIN row /\ b \in link /\ row[b] \in Row
  BY <1>0 DEF LinkedWhenDone, LinksExist
<1>2. row[b].seq \in Nat /\ NextSeq(b) = row[b].seq + 1
  BY <1>1 DEF Row, NextSeq
<1>3. /\ row'[b].seq = NextSeq(b)
      /\ IF op[m].kind = "cancel" THEN row'[b].status = "cancelled"
         ELSE row'[b].status = "confirmed" /\ row'[b].slot = op[m].to
      /\ \A a \in DOMAIN row \ {b} : row'[a] = row[a]
  <2>1. CASE CancelRow(m)
    BY <1>1, <2>1 DEF CancelRow, Row
  <2>2. CASE MoveRow(m)
    BY <1>1, <2>2 DEF MoveRow, StillConfirmed, Row
  <2> QED BY <2>1, <2>2
<1>4. /\ n.id = b /\ n.seq = NextSeq(b) /\ n.slot = op[m].to
      /\ n.method = IF op[m].kind = "cancel" THEN "CANCEL" ELSE "REQUEST"
  BY <1>0 DEF Notice
<1>5. Said' \subseteq Said \cup {n}
  BY <1>0 DEF Said, Notice
<1>6. \A x \in Said : x.id = b => x.seq # NextSeq(b) /\ x.seq <= NextSeq(b)
  <2> SUFFICES ASSUME NEW x \in Said, x.id = b PROVE x.seq # NextSeq(b) /\ x.seq <= NextSeq(b)
    OBVIOUS
  <2>1. x.seq <= row[b].seq
    BY DEF NeverAhead
  <2>2. x.seq \in Int
    BY DEF Said, Notice, Mail, Op
  <2> QED BY <1>2, <2>1, <2>2
<1>7. OneMailPerNumber'
  BY <1>4, <1>5, <1>6 DEF OneMailPerNumber
<1>8. NeverAhead'
  <2> SUFFICES ASSUME NEW x \in Said' PROVE /\ x.id \in link' /\ x.seq <= row'[x.id].seq
                                            /\ x.seq = row'[x.id].seq => SaysTheRow(x)'
    BY DEF NeverAhead
  <2>1. CASE x = n
    BY <1>0, <1>1, <1>2, <1>3, <1>4, <2>1 DEF SaysTheRow
  <2>2. CASE x \in Said /\ x.id = b
    BY <1>0, <1>1, <1>3, <1>6, <2>2
  <2>3. CASE x \in Said /\ x.id # b
    <3>1. x.id \in link /\ x.id \in DOMAIN row /\ x.seq <= row[x.id].seq
          /\ (x.seq = row[x.id].seq => SaysTheRow(x))
      BY <2>3 DEF NeverAhead, LinksExist
    <3>2. row'[x.id] = row[x.id]
      BY <1>3, <2>3, <3>1
    <3> QED BY <1>0, <3>1, <3>2 DEF SaysTheRow
  <2> QED BY <1>5, <2>1, <2>2, <2>3
<1> QED BY <1>7, <1>8

LEMMA StepSaid == MInv /\ [Next]_vars => NeverAhead' /\ OneMailPerNumber'
<1> SUFFICES ASSUME MInv, [Next]_vars PROVE NeverAhead' /\ OneMailPerNumber'
  OBVIOUS
<1>0. IInv /\ link \subseteq link'
  BY StepLinked DEF MInv
<1>1. CASE \E r \in Requests : Notify(r) /\ UNCHANGED op
  BY <1>1, ConfirmationSaid
<1>2. CASE \E m \in Ops : CancelRow(m) \/ MoveRow(m)
  BY <1>2, NoticeSaid
<1>3. ASSUME ~ \E r \in Requests : Notify(r) /\ UNCHANGED op,
             ~ \E m \in Ops : CancelRow(m) \/ MoveRow(m)
      PROVE  NeverAhead' /\ OneMailPerNumber'
  <2>1. \A b \in link : /\ row'[b].seq = row[b].seq /\ row'[b].slot = row[b].slot
                        /\ row'[b].status = row[b].status
    <3>1. link \subseteq DOMAIN row
      BY <1>0 DEF IInv, LinksExist
    <3> QED BY <1>3, <3>1, RowsChange
  <2>2. Said' \subseteq Said
    <3>1. ASSUME NEW r \in Requests, CreateStep(r) \/ Crash(r), UNCHANGED op PROVE Said' \subseteq Said
      <4>1. UNCHANGED mail
        BY <1>0, <1>3, <3>1, ReqMoves
      <4> QED BY <3>1, <4>1 DEF Said, Notice
    <3>2. ASSUME NEW m \in Ops, ManageStep(m) \/ CrashOp(m) PROVE Said' \subseteq Said
      <4>1. /\ m \in DOMAIN op /\ DOMAIN op' = DOMAIN op
            /\ \A n \in DOMAIN op \ {m} : op'[n] = op[n]
            /\ op'[m].id = op[m].id /\ op'[m].to = op[m].to /\ op'[m].kind = op[m].kind
            /\ \/ UNCHANGED mail /\ op[m].pc = "google" /\ op'[m].seq = op[m].seq
               \/ op'[m].pc \in {"update", "done", "crashed"} /\ mail' \subseteq Said
        BY <1>0, <1>3, <3>2, OpMoves
      <4> QED BY <4>1 DEF Said, Notice
    <3>3. ASSUME NEW m \in Ops, NEW b \in Ids, OpenCancel(m, b) PROVE Said' \subseteq Said
      BY <3>3 DEF OpenCancel, Put, ledgerVars, Said, Notice
    <3>4. ASSUME NEW m \in Ops, NEW b \in Ids, NEW s \in Starts, OpenReschedule(m, b, s)
          PROVE  Said' \subseteq Said
      BY <3>4 DEF OpenReschedule, Put, ledgerVars, Said, Notice
    <3>5. CASE UNCHANGED <<mail, op>>
      BY <3>5 DEF Said, Notice
    <3> QED
      BY <3>1, <3>2, <3>3, <3>4, <3>5
         DEF Next, CreateNext, ManageNext, Submit, Tick, AcceptMeeting, vars, ledgerVars
  <2> QED BY <1>0, <2>1, <2>2, NothingNew
<1> QED BY <1>1, <1>2, <1>3
-----------------------------------------------------------------------------
\* In whatever order the mails of creations, moves and cancellations are delivered,
\* delayed or lost, a guest's calendar program that keeps the highest SEQUENCE is
\* never ahead of the row, and under the row's own number it shows the row
\* (createBooking's confirmation and the two conditional UPDATEs returning
\* ical_sequence).
THEOREM GuestsAreToldTheRow == Spec => []GuestCalendarCurrent
<1>1. MInv /\ [Next]_vars => MInv'
  <2>1. IInv /\ [Next]_vars => IInv'
    BY StepTypes, StepLinks, StepRows, StepSlots, StepKeys DEF IInv
  <2> QED BY <2>1, StepLinked, StepInserted, StepSaid DEF MInv
<1>2. MInv => GuestCalendarCurrent
  BY DEF MInv, NeverAhead, OneMailPerNumber, SaysTheRow, Said, GuestCalendarCurrent
<1> QED BY InitMInv, <1>1, <1>2, PTL DEF Spec
-----------------------------------------------------------------------------
\* An answer ends its invocation; "booked" by the invocation that inserted the row
\* comes after the INSERT, and a row that was taken back was never answered so.
Answered ==
  /\ \A r \in DOMAIN req : req[r].pc # "done" => req[r].result = "none"
  /\ \A r \in DOMAIN req : req[r].result = "ok" /\ ~req[r].found => r \in DOMAIN row
  /\ \A r \in DOMAIN row : row[r].by = "system" =>
       req[r].pc = "done" /\ req[r].result = "calendar_failed"

LEMMA AnswerOf ==
  ASSUME RowsInStep, Answered, NEW r \in DOMAIN req, DOMAIN req' = DOMAIN req,
         \A q \in DOMAIN req \ {r} : req'[q] = req[q],
         DOMAIN row \subseteq DOMAIN row', DOMAIN row' \subseteq DOMAIN row \cup {r},
         \A b \in DOMAIN row \ {r} : row'[b].by = row[b].by,
         req'[r].pc # "done" => req'[r].result = "none",
         req'[r].result = "ok" /\ ~req'[r].found => r \in DOMAIN row',
         r \in DOMAIN row' /\ row'[r].by = "system" =>
           req'[r].pc = "done" /\ req'[r].result = "calendar_failed"
  PROVE  Answered'
<1>1. \A q \in DOMAIN req' : req'[q].pc # "done" => req'[q].result = "none"
  BY DEF Answered
<1>2. \A q \in DOMAIN req' : req'[q].result = "ok" /\ ~req'[q].found => q \in DOMAIN row'
  BY DEF Answered
<1>3. ASSUME NEW q \in DOMAIN row', row'[q].by = "system"
      PROVE  req'[q].pc = "done" /\ req'[q].result = "calendar_failed"
  <2>1. CASE q # r
    <3>1. q \in DOMAIN row /\ q \in DOMAIN req /\ row[q].by = "system"
      BY <1>3, <2>1 DEF RowsInStep
    <3> QED BY <2>1, <3>1 DEF Answered
  <2> QED BY <1>3, <2>1
<1> QED BY <1>1, <1>2, <1>3 DEF Answered

LEMMA CreateAnswers ==
  ASSUME IInv, Answered, NEW r \in Requests, CreateStep(r) \/ Crash(r)
  PROVE  Answered'
<1> USE DEF IInv
<1>0. /\ r \in DOMAIN req /\ req[r] \in Request /\ req[r].pc # "done" /\ req[r].result = "none"
      /\ RowsInStep /\ DOMAIN req' = DOMAIN req
      /\ \A q \in DOMAIN req \ {r} : req'[q] = req[q]
  BY ReqMoves DEF Answered, TypeOK, CreateTypeOK
<1>1. r \in DOMAIN row => row[r].by # "system"
  BY <1>0 DEF Answered
<1>2. ASSUME UNCHANGED row, req'[r].pc # "done" => req'[r].result = "none",
             req'[r].result = "ok" /\ ~req'[r].found => r \in DOMAIN row
      PROVE  Answered'
  BY <1>0, <1>1, <1>2, AnswerOf
<1>3. CASE StartPassed(r) \/ CalendarUnreachable(r) \/ InsertRefused(r)
  BY <1>0, <1>2, <1>3 DEF StartPassed, CalendarUnreachable, InsertRefused, Answer, Request, ledgerVars
<1>4. CASE ReadCalendar(r)
  BY <1>0, <1>2, <1>4 DEF ReadCalendar, Request, ledgerVars
<1>5. CASE CheckSlot(r)
  BY <1>0, <1>2, <1>5 DEF CheckSlot, Request, ledgerVars
<1>6. CASE InsertFindsKey(r) \/ Crash(r)
  BY <1>0, <1>2, <1>6 DEF InsertFindsKey, Crash, Request, ledgerVars
<1>7. CASE InsertRow(r)
  <2>1. /\ DOMAIN row' = DOMAIN row \cup {r} /\ row'[r].by = "nobody"
        /\ \A b \in DOMAIN row \ {r} : row'[b].by = row[b].by
    BY <1>7 DEF InsertRow, Put, NewRow
  <2>2. req'[r].pc # "done" /\ req'[r].result = "none"
    BY <1>0, <1>7 DEF InsertRow, Goto, Request
  <2> QED BY <1>0, <2>1, <2>2, AnswerOf
<1>8. CASE InsertEvent(r) \/ InsertEventFails(r)
  BY <1>0, <1>2, <1>8 DEF InsertEvent, InsertEventFails, Goto, Request
<1>9. CASE Rollback(r)
  <2>1. DOMAIN row' = DOMAIN row /\ \A b \in DOMAIN row \ {r} : row'[b].by = row[b].by
    BY <1>9 DEF Rollback
  <2>2. req'[r].pc = "done" /\ req'[r].result = "calendar_failed"
    BY <1>0, <1>9 DEF Rollback, Answer, Request
  <2> QED BY <1>0, <2>1, <2>2, AnswerOf
<1>10. CASE LinkEvent(r)
  <2>1. DOMAIN row' = DOMAIN row /\ \A b \in DOMAIN row : row'[b].by = row[b].by
    BY <1>10 DEF LinkEvent, TypeOK, LedgerTypeOK, Row
  <2>2. req'[r].pc # "done" /\ req'[r].result = "none"
    BY <1>0, <1>10 DEF LinkEvent, Goto, Request
  <2> QED BY <1>0, <1>1, <2>1, <2>2, AnswerOf
<1>11. CASE Notify(r)
  <2>1. r \in DOMAIN row /\ UNCHANGED row
    BY <1>0, <1>11 DEF Notify, At, RowsInStep
  <2>2. req'[r].pc = "done"
    BY <1>0, <1>11 DEF Notify, Answer, Request
  <2> QED BY <1>2, <2>1, <2>2
<1> QED BY <1>3, <1>4, <1>5, <1>6, <1>7, <1>8, <1>9, <1>10, <1>11 DEF CreateStep

LEMMA StepAnswers == IInv /\ Answered /\ [Next]_vars => Answered'
<1> SUFFICES ASSUME IInv, Answered, [Next]_vars PROVE Answered'
  OBVIOUS
<1> USE DEF IInv
<1>1. ASSUME NEW r \in Requests, NEW k \in Keys, NEW i \in Interval, Submit(r, k, i) PROVE Answered'
  <2>1. r \notin DOMAIN req /\ r \notin DOMAIN row /\ UNCHANGED row
    BY <1>1 DEF Submit, RowsInStep, ledgerVars
  <2>2. /\ DOMAIN req' = DOMAIN req \cup {r} /\ req'[r].pc = "calendar" /\ req'[r].result = "none"
        /\ \A q \in DOMAIN req : req'[q] = req[q]
    BY <1>1, <2>1 DEF Submit, Put
  <2> QED BY <2>1, <2>2 DEF Answered, RowsInStep
<1>2. ASSUME NEW m \in Ops, CancelRow(m) \/ MoveRow(m), UNCHANGED req PROVE Answered'
  <2>1. DOMAIN row' = DOMAIN row /\ \A b \in DOMAIN row : row'[b].by \in {row[b].by, "guest"}
    <3>1. \A b \in DOMAIN row : row[b] \in Row
      BY DEF TypeOK, LedgerTypeOK
    <3>2. CASE CancelRow(m)
      <4>1. PICK c : c = op[m].id
        OBVIOUS
      <4>2. PICK n : n = NextSeq(c)
        OBVIOUS
      <4>3. row' = [row EXCEPT ![c].status = "cancelled", ![c].by = "guest", ![c].seq = n]
        BY <3>2, <4>1, <4>2 DEF CancelRow
      <4>4. ASSUME NEW b \in DOMAIN row PROVE row'[b].by \in {row[b].by, "guest"}
        BY <3>1, <4>3 DEF Row
      <4> QED BY <4>3, <4>4
    <3>3. CASE MoveRow(m)
      <4>1. PICK c : c = op[m].id
        OBVIOUS
      <4>2. PICK n : n = NextSeq(c)
        OBVIOUS
      <4>3. row' = [row EXCEPT ![c].slot = op[m].to, ![c].reminded = FALSE, ![c].seq = n]
        BY <3>3, <4>1, <4>2 DEF MoveRow
      <4>4. ASSUME NEW b \in DOMAIN row PROVE row'[b].by \in {row[b].by, "guest"}
        BY <3>1, <4>3 DEF Row
      <4> QED BY <4>3, <4>4
    <3> QED BY <1>2, <3>2, <3>3
  <2> QED BY <1>2, <2>1 DEF Answered
<1>3. CASE UNCHANGED <<row, req>>
  BY <1>3 DEF Answered
<1>4. \/ UNCHANGED <<row, req>>
      \/ \E m \in Ops : (CancelRow(m) \/ MoveRow(m)) /\ UNCHANGED req
      \/ CreateNext
  BY DEF Next, Tick, AcceptMeeting, vars, ManageNext, ManageStep, OpenCancel, OpenReschedule,
     ReadAndCheckMove, MoveTooLate, MoveUnverified, UpdateFindsNothing, MoveRefused, DeleteEvent,
     PatchEvent, GoogleFails, SendMail, CrashOp, ledgerVars
<1> QED BY <1>1, <1>2, <1>3, <1>4, CreateAnswers DEF CreateNext

\* Whoever was told "booked" by the invocation that made the booking keeps it: no
\* rollback, whenever it runs, takes back a row that was answered so (createBooking's
\* catch block returns before the confirmation).
THEOREM BookedIsKept == Spec => []OwnAnswerStands
<1>1. Init => Answered
  BY DEF Init, LedgerInit, CreateInit, Answered
<1>2. IInv /\ [Next]_vars => IInv'
  BY StepTypes, StepLinks, StepRows, StepSlots, StepKeys DEF IInv
<1>3. IInv /\ Answered => OwnAnswerStands
  BY DEF Answered, OwnAnswerStands
<1> QED BY InitIInv, <1>1, <1>2, <1>3, StepAnswers, PTL DEF Spec
-----------------------------------------------------------------------------
(***************************************************************************)
(* What stands in the manager's calendar.  A guest who holds a manage link *)
(* holds one to a row whose event was made and linked, so from then on     *)
(* only a cancellation that has already cancelled the row can take the     *)
(* event away (ShownAt), and the event can be behind the row only while    *)
(* the one move that wrote the row has not told Google (TimedAt).          *)
(***************************************************************************)

\* Until the answer the booking's own invocation alone is at its event.
Drafted ==
  \A r \in DOMAIN req :
    /\ req[r].pc \in {"link", "notify"} => r \in DOMAIN event /\ event[r] = req[r].slot
    /\ req[r].pc = "notify" => row[r].linked
    /\ req[r].pc = "done" /\ r \in DOMAIN row => r \in link \cup alerted

LinksKnown ==
  /\ \A b \in link : row[b].linked
  /\ \A m \in DOMAIN op : op[m].linked

OpsAnswered ==
  /\ IsFiniteSet(DOMAIN op)
  /\ \A m \in DOMAIN op : op[m].pc # "done" => op[m].result = "none"

\* Past its UPDATE a cancellation has cancelled the row, for good.
GivenUp ==
  \A m \in DOMAIN op : op[m].kind = "cancel" /\ op[m].pc = "google" =>
    row[op[m].id].status = "cancelled"

Cancelling(b) == \E m \in DOMAIN op :
  op[m].id = b /\ op[m].kind = "cancel" /\ op[m].pc \in {"google", "crashed"}

Broken(b) == \E m \in DOMAIN op : op[m].id = b /\ op[m].pc = "crashed"

\* The moves that have written the row.
Applied(b) == {m \in DOMAIN op : /\ op[m].id = b /\ op[m].kind = "reschedule"
                                 /\ op[m].pc \in {"google", "mail"} \/ op[m].result = "ok"}

ShownAt(b) ==
  IF row[b].status = "confirmed" THEN b \in DOMAIN event
  ELSE b \notin DOMAIN event \/ b \in alerted \/ Cancelling(b)

TimedAt(b) ==
  row[b].status = "confirmed" /\ b \notin alerted /\ ~Broken(b) =>
    /\ Applied(b) = {} => event[b] = row[b].slot
    /\ \A m \in DOMAIN op : Applied(b) = {m} =>
         op[m].to = row[b].slot /\ (op[m].pc = "google" \/ event[b] = row[b].slot)

EventInv ==
  /\ Drafted /\ LinksKnown /\ OpsAnswered /\ GivenUp
  /\ \A b \in link : ShownAt(b) /\ TimedAt(b)

CInv == MInv /\ (CalendarConfigured => EventInv)
-----------------------------------------------------------------------------
LEMMA StillShown ==
  ASSUME NEW b, ShownAt(b), TimedAt(b),
         b \in DOMAIN event' <=> b \in DOMAIN event, b \in DOMAIN event => event'[b] = event[b],
         row'[b].status = row[b].status, row'[b].slot = row[b].slot, alerted \subseteq alerted',
         Applied(b)' = Applied(b), Broken(b) => Broken(b)', Cancelling(b) => Cancelling(b)',
         \A m \in Applied(b) : op'[m].to = op[m].to /\ (op[m].pc = "google" => op'[m].pc = "google")
  PROVE  ShownAt(b)' /\ TimedAt(b)'
<1>1. ShownAt(b)'
  BY DEF ShownAt
<1>2. ASSUME row'[b].status = "confirmed", b \notin alerted', ~Broken(b)'
      PROVE  /\ Applied(b)' = {} => event'[b] = row'[b].slot
             /\ \A m \in DOMAIN op' : Applied(b)' = {m} =>
                  op'[m].to = row'[b].slot /\ (op'[m].pc = "google" \/ event'[b] = row'[b].slot)
  <2>1. /\ Applied(b) = {} => event[b] = row[b].slot
        /\ \A m \in DOMAIN op : Applied(b) = {m} =>
             op[m].to = row[b].slot /\ (op[m].pc = "google" \/ event[b] = row[b].slot)
    BY <1>2 DEF TimedAt
  <2>2. \A m : Applied(b) = {m} => m \in Applied(b) /\ m \in DOMAIN op
    BY DEF Applied
  <2>3. event'[b] = event[b]
    BY <1>2 DEF ShownAt
  <2> QED BY <2>1, <2>2, <2>3
<1> QED BY <1>1, <1>2 DEF TimedAt

\* A step of one invocation leaves what the others do to other bookings.
LEMMA OtherBookings ==
  ASSUME NEW m \in DOMAIN op, DOMAIN op' = DOMAIN op, op'[m].id = op[m].id,
         \A n \in DOMAIN op \ {m} : op'[n] = op[n], NEW b, b # op[m].id
  PROVE  /\ Applied(b)' = Applied(b) /\ (Broken(b) => Broken(b)') /\ (Cancelling(b) => Cancelling(b)')
         /\ \A n \in Applied(b) : op'[n] = op[n]
BY DEF Applied, Broken, Cancelling

\* ... and when it neither writes its row nor is done to it, the same of its own.
LEMMA OwnBooking ==
  ASSUME NEW m \in DOMAIN op, DOMAIN op' = DOMAIN op, op'[m].id = op[m].id,
         \A n \in DOMAIN op \ {m} : op'[n] = op[n], NEW b, b = op[m].id,
         op'[m].kind = op[m].kind, op'[m].to = op[m].to,
         op[m].pc \notin {"google", "mail", "crashed"}, op[m].result # "ok",
         op'[m].pc \notin {"google", "mail"}, op'[m].result # "ok"
  PROVE  /\ Applied(b)' = Applied(b) /\ (Broken(b) => Broken(b)') /\ (Cancelling(b) => Cancelling(b)')
         /\ \A n \in Applied(b) : op'[n] = op[n]
<1>1. m \notin Applied(b) /\ m \notin Applied(b)'
  BY DEF Applied
<1>2. Applied(b)' = Applied(b) /\ \A n \in Applied(b) : op'[n] = op[n]
  BY <1>1 DEF Applied
<1>3. Broken(b) => Broken(b)'
  BY DEF Broken
<1>4. Cancelling(b) => Cancelling(b)'
  BY DEF Cancelling
<1> QED BY <1>2, <1>3, <1>4
-----------------------------------------------------------------------------
(* The steps of a cancel or a move, seen from the booking they are about.  *)

LEMMA ManageFrame ==
  ASSUME CInv, CalendarConfigured, NEW m \in Ops, ManageStep(m) \/ CrashOp(m)
  PROVE  /\ m \in DOMAIN op /\ op[m] \in Op /\ op[m].id \in link /\ op[m].id \in DOMAIN row
         /\ row[op[m].id] \in Row /\ op[m].linked
         /\ DOMAIN op' = DOMAIN op /\ \A n \in DOMAIN op \ {m} : op'[n] = op[n]
         /\ op'[m].id = op[m].id /\ op'[m].to = op[m].to /\ op'[m].kind = op[m].kind
         /\ link' = link /\ alerted \subseteq alerted'
<1>1. IInv /\ LinkedWhenDone /\ LinksKnown
  BY DEF CInv, MInv, EventInv
<1>2. /\ m \in DOMAIN op /\ op[m] \in Op
      /\ DOMAIN op' = DOMAIN op /\ \A n \in DOMAIN op \ {m} : op'[n] = op[n]
      /\ op'[m].id = op[m].id /\ op'[m].to = op[m].to /\ op'[m].kind = op[m].kind /\ link' = link
  BY <1>1, OpMoves
<1>3. op[m].id \in link /\ op[m].id \in DOMAIN row /\ row[op[m].id] \in Row /\ op[m].linked
  BY <1>1, <1>2 DEF LinkedWhenDone, LinksKnown, IInv, LinksExist, TypeOK, LedgerTypeOK
<1>4. alerted \subseteq alerted'
  BY DEF ManageStep, ReadAndCheckMove, MoveTooLate, MoveUnverified, UpdateFindsNothing, CancelRow,
         MoveRefused, MoveRow, DeleteEvent, PatchEvent, GoogleFails, SendMail, CrashOp, ledgerVars
<1> QED BY <1>2, <1>3, <1>4

LEMMA QuietManage ==
  ASSUME CInv, CalendarConfigured, NEW m \in Ops,
         \/ ReadAndCheckMove(m) \/ MoveTooLate(m) \/ MoveUnverified(m)
         \/ UpdateFindsNothing(m) \/ MoveRefused(m)
  PROVE  /\ UNCHANGED ledgerVars
         /\ op[m].pc \notin {"google", "mail", "crashed"} /\ op[m].result # "ok"
         /\ op'[m].pc \notin {"google", "mail", "crashed"} /\ op'[m].result # "ok"
         /\ op'[m].linked = op[m].linked
         /\ op'[m].pc # "done" => op'[m].result = "none"
<1>1. m \in DOMAIN op /\ op[m] \in Op
  BY ManageFrame DEF ManageStep
<1>2. op[m].pc # "done" => op[m].result = "none"
  BY <1>1 DEF CInv, EventInv, OpsAnswered
<1>3. CASE ReadAndCheckMove(m)
  BY <1>1, <1>2, <1>3 DEF ReadAndCheckMove, CheckMove, Finish, Pc, Op
<1>4. CASE MoveTooLate(m) \/ MoveUnverified(m) \/ UpdateFindsNothing(m) \/ MoveRefused(m)
  BY <1>1, <1>2, <1>4 DEF MoveTooLate, MoveUnverified, UpdateFindsNothing, MoveRefused, Finish, Pc, Op
<1> QED BY <1>3, <1>4

LEMMA ManageShown ==
  ASSUME CInv, CalendarConfigured, NEW m \in Ops, ManageStep(m) \/ CrashOp(m),
         NEW b \in link, b = op[m].id
  PROVE  ShownAt(b)' /\ TimedAt(b)'
<1>0. /\ m \in DOMAIN op /\ op[m] \in Op /\ b \in DOMAIN row /\ row[b] \in Row /\ op[m].linked
      /\ DOMAIN op' = DOMAIN op /\ \A n \in DOMAIN op \ {m} : op'[n] = op[n]
      /\ op'[m].id = b /\ op'[m].to = op[m].to /\ op'[m].kind = op[m].kind
      /\ link' = link /\ alerted \subseteq alerted'
  BY ManageFrame
<1>1. ShownAt(b) /\ TimedAt(b) /\ OpsAnswered /\ GivenUp
  BY DEF CInv, EventInv
<1>2. CASE ReadAndCheckMove(m) \/ MoveTooLate(m) \/ MoveUnverified(m) \/ UpdateFindsNothing(m)
           \/ MoveRefused(m)
  <2>1. /\ UNCHANGED ledgerVars
        /\ op[m].pc \notin {"google", "mail", "crashed"} /\ op[m].result # "ok"
        /\ op'[m].pc \notin {"google", "mail"} /\ op'[m].result # "ok"
    BY <1>2, QuietManage
  <2>2. /\ Applied(b)' = Applied(b) /\ (Broken(b) => Broken(b)') /\ (Cancelling(b) => Cancelling(b)')
        /\ \A n \in Applied(b) : op'[n] = op[n]
    BY <1>0, <2>1, OwnBooking
  <2> QED BY <1>1, <2>1, <2>2, StillShown DEF ledgerVars
<1>3. CASE CancelRow(m)
  <2>1. row'[b].status = "cancelled"
    BY <1>0, <1>3 DEF CancelRow, Row
  <2>2. op'[m].pc = "google" /\ op'[m].kind = "cancel"
    BY <1>0, <1>3 DEF CancelRow, AfterUpdate, Op
  <2>3. Cancelling(b)'
    BY <1>0, <2>2 DEF Cancelling
  <2> QED BY <2>1, <2>3 DEF ShownAt, TimedAt
<1>4. CASE MoveRow(m)
  <2>1. /\ row'[b].status = row[b].status /\ row[b].status = "confirmed" /\ row'[b].slot = op[m].to
        /\ event' = event
    BY <1>0, <1>4 DEF MoveRow, StillConfirmed, Row
  <2>2. op'[m].pc = "google" /\ op[m].kind = "reschedule" /\ op[m].pc = "update"
    BY <1>0, <1>4 DEF MoveRow, AfterUpdate, Pc, Op
  <2>3. ShownAt(b)'
    BY <1>1, <2>1 DEF ShownAt
  <2>4. op[m].result # "ok"
    BY <1>0, <1>1, <2>2 DEF OpsAnswered
  <2>5. Applied(b)' = Applied(b) \cup {m}
    BY <1>0, <2>2 DEF Applied
  <2>6. \A n \in DOMAIN op' : Applied(b)' = {n} => n = m
    BY <2>5
  <2>7. TimedAt(b)'
    BY <1>0, <2>1, <2>2, <2>5, <2>6 DEF TimedAt
  <2> QED BY <2>3, <2>7
<1>5. CASE DeleteEvent(m)
  <2>1. row[b].status = "cancelled" /\ row' = row
    BY <1>0, <1>1, <1>5 DEF DeleteEvent, GivenUp, Pc
  <2>2. b \notin DOMAIN event'
    BY <1>0, <1>5 DEF DeleteEvent, Drop
  <2> QED BY <2>1, <2>2 DEF ShownAt, TimedAt
<1>6. CASE PatchEvent(m)
  <2>1. /\ row' = row /\ alerted' = alerted /\ DOMAIN event' = DOMAIN event /\ event'[b] = op[m].to
        /\ op[m].kind = "reschedule" /\ op[m].pc = "google"
        /\ op'[m].pc = "mail" /\ op'[m].result = op[m].result
    BY <1>0, <1>6 DEF PatchEvent, Pc, Op
  <2>2. m \in Applied(b) /\ Applied(b)' = Applied(b)
    BY <1>0, <2>1 DEF Applied
  <2>3. (Broken(b) => Broken(b)') /\ (Cancelling(b) => Cancelling(b)')
    BY <1>0, <2>1 DEF Broken, Cancelling
  <2>4. ShownAt(b)'
    BY <1>1, <2>1, <2>3 DEF ShownAt
  <2>5. ASSUME row'[b].status = "confirmed", b \notin alerted', ~Broken(b)'
        PROVE  /\ Applied(b)' # {}
               /\ \A n \in DOMAIN op' : Applied(b)' = {n} =>
                    op'[n].to = row'[b].slot /\ event'[b] = row'[b].slot
    <3>1. \A n \in DOMAIN op : Applied(b) = {n} => n = m /\ op[n].to = row[b].slot
      BY <1>1, <2>1, <2>2, <2>3, <2>5 DEF TimedAt
    <3> QED BY <1>0, <2>1, <2>2, <3>1
  <2> QED BY <2>4, <2>5 DEF TimedAt
<1>7. CASE GoogleFails(m)
  <2>1. b \in alerted' /\ row' = row
    BY <1>0, <1>7 DEF GoogleFails
  <2>2. row[b].status = "confirmed" => DOMAIN event' = DOMAIN event
    BY <1>0, <1>1, <1>7 DEF GoogleFails, GivenUp, Pc
  <2> QED BY <1>1, <2>1, <2>2 DEF ShownAt, TimedAt
<1>8. CASE SendMail(m)
  <2>1. /\ row' = row /\ event' = event
        /\ op[m].pc = "mail" /\ op'[m].pc = "done" /\ op'[m].result = "ok"
    BY <1>0, <1>8 DEF SendMail, Finish, Pc, Op
  <2>2. /\ Applied(b)' = Applied(b) /\ (Broken(b) => Broken(b)') /\ (Cancelling(b) => Cancelling(b)')
        /\ \A n \in Applied(b) : op'[n].to = op[n].to /\ (op[n].pc = "google" => op'[n].pc = "google")
    BY <1>0, <2>1 DEF Applied, Broken, Cancelling
  <2> QED BY <1>0, <1>1, <2>1, <2>2, StillShown
<1>9. CASE CrashOp(m)
  <2>1. /\ row' = row /\ event' = event /\ alerted' = alerted
        /\ op[m].pc \notin {"done", "crashed"} /\ op'[m].pc = "crashed"
    BY <1>0, <1>9 DEF CrashOp, Op, ledgerVars
  <2>2. Broken(b)' /\ (Cancelling(b) => Cancelling(b)')
    BY <1>0, <2>1 DEF Broken, Cancelling
  <2> QED BY <1>1, <2>1, <2>2 DEF ShownAt, TimedAt
<1> QED BY <1>2, <1>3, <1>4, <1>5, <1>6, <1>7, <1>8, <1>9 DEF ManageStep

\* ... and from every other booking.
LEMMA ManageElsewhere ==
  ASSUME CInv, CalendarConfigured, NEW m \in Ops, ManageStep(m) \/ CrashOp(m)
  PROVE  /\ DOMAIN row' = DOMAIN row /\ \A b \in DOMAIN row \ {op[m].id} : row'[b] = row[b]
         /\ \A b : b # op[m].id => /\ b \in DOMAIN event' <=> b \in DOMAIN event
                                   /\ b \in DOMAIN event => event'[b] = event[b]
<1>0. row \in [DOMAIN row -> Row] /\ event \in [DOMAIN event -> Interval]
  BY DEF CInv, MInv, IInv, TypeOK, LedgerTypeOK
<1>1. CASE CancelRow(m) \/ MoveRow(m)
  BY <1>0, <1>1 DEF CancelRow, MoveRow
<1>2. CASE DeleteEvent(m) \/ PatchEvent(m) \/ GoogleFails(m)
  <2>1. row' = row
    BY <1>2 DEF DeleteEvent, PatchEvent, GoogleFails
  <2>2. event' = event \/ event' = Drop(event, op[m].id) \/ event' = [event EXCEPT ![op[m].id] = op[m].to]
    BY <1>2 DEF DeleteEvent, PatchEvent, GoogleFails
  <2> QED BY <1>0, <2>1, <2>2 DEF Drop
<1>3. CASE UNCHANGED <<row, event>>
  BY <1>3
<1> QED
  BY <1>1, <1>2, <1>3 DEF ManageStep, ReadAndCheckMove, MoveTooLate, MoveUnverified,
     UpdateFindsNothing, MoveRefused, SendMail, CrashOp, ledgerVars

LEMMA ManageEventInv ==
  ASSUME CInv, CalendarConfigured, NEW m \in Ops, ManageStep(m) \/ CrashOp(m), UNCHANGED req
  PROVE  EventInv'
<1> DEFINE b == op[m].id
<1>0. /\ m \in DOMAIN op /\ op[m] \in Op /\ b \in link /\ b \in DOMAIN row /\ row[b] \in Row /\ op[m].linked
      /\ DOMAIN op' = DOMAIN op /\ \A n \in DOMAIN op \ {m} : op'[n] = op[n]
      /\ op'[m].id = b /\ op'[m].to = op[m].to /\ op'[m].kind = op[m].kind
      /\ link' = link /\ alerted \subseteq alerted'
  BY ManageFrame
<1>1. /\ DOMAIN row' = DOMAIN row /\ \A c \in DOMAIN row \ {b} : row'[c] = row[c]
      /\ \A c : c # b => /\ c \in DOMAIN event' <=> c \in DOMAIN event
                         /\ c \in DOMAIN event => event'[c] = event[c]
  BY ManageElsewhere
<1>2. EventInv /\ LinkedWhenDone /\ LinksExist /\ RowsInStep
  BY DEF CInv, MInv, IInv
<1> USE DEF EventInv
<1>3. row'[b].linked = row[b].linked /\ (row[b].status = "cancelled" => row'[b].status = "cancelled")
      /\ (CancelRow(m) => row'[b].status = "cancelled")
  <2>1. ASSUME CancelRow(m)
        PROVE  row'[b].linked = row[b].linked /\ row'[b].status = "cancelled"
    BY <1>0, <2>1 DEF CancelRow, Row
  <2>2. ASSUME MoveRow(m)
        PROVE  row'[b].linked = row[b].linked /\ row'[b].status = row[b].status
    BY <1>0, <2>2 DEF MoveRow, Row
  <2>3. CancelRow(m) \/ MoveRow(m) \/ row' = row
    BY DEF ManageStep, ReadAndCheckMove, MoveTooLate, MoveUnverified, UpdateFindsNothing,
       MoveRefused, DeleteEvent, PatchEvent, GoogleFails, SendMail, CrashOp, ledgerVars
  <2> QED BY <2>1, <2>2, <2>3
<1>4. Drafted'
  <2>1. \A r \in DOMAIN req : req[r].pc \in {"link", "notify"} => r # b /\ r \in DOMAIN row
    BY <1>0, <1>2 DEF LinkedWhenDone, RowsInStep
  <2> QED BY <1>0, <1>1, <1>2, <2>1 DEF Drafted
<1>5. op'[m].linked = op[m].linked /\ (op'[m].pc # "done" => op'[m].result = "none")
      /\ (op'[m].pc = "google" => op[m].pc = "google" \/ CancelRow(m) \/ op'[m].kind # "cancel")
  <2>1. op[m].pc # "done" => op[m].result = "none"
    BY <1>0, <1>2 DEF OpsAnswered
  <2>2. CASE ReadAndCheckMove(m) \/ MoveTooLate(m) \/ MoveUnverified(m) \/ UpdateFindsNothing(m)
             \/ MoveRefused(m)
    BY <2>2, QuietManage
  <2>3. CASE CancelRow(m) \/ MoveRow(m)
    <3>1. op[m].pc = "update" /\ op'[m].linked = op[m].linked /\ op'[m].result = op[m].result
      <4>1. CASE CancelRow(m)
        BY <1>0, <4>1 DEF CancelRow, Pc, Op
      <4>2. CASE MoveRow(m)
        BY <1>0, <4>2 DEF MoveRow, Pc, Op
      <4> QED BY <2>3, <4>1, <4>2
    <3>2. CancelRow(m) \/ op'[m].kind # "cancel"
      BY <1>0, <2>3 DEF MoveRow
    <3> QED BY <2>1, <3>1, <3>2
  <2>4. CASE DeleteEvent(m) \/ PatchEvent(m) \/ GoogleFails(m)
    <3>1. op[m].pc = "google" /\ op'[m].linked = op[m].linked /\ op'[m].result = op[m].result
      BY <1>0, <2>4, ZenonT(20) DEF DeleteEvent, PatchEvent, GoogleFails, Pc, Op
    <3> QED BY <2>1, <3>1
  <2>5. CASE SendMail(m)
    <3>1. op'[m].pc = "done" /\ op'[m].linked = op[m].linked
      BY <1>0, <2>5 DEF SendMail, Finish, Op
    <3> QED BY <3>1
  <2>6. CASE CrashOp(m)
    <3>1. /\ op[m].pc # "done" /\ op'[m].pc = "crashed"
          /\ op'[m].linked = op[m].linked /\ op'[m].result = op[m].result
      BY <1>0, <2>6 DEF CrashOp, Op
    <3> QED BY <2>1, <3>1
  <2> QED BY <2>2, <2>3, <2>4, <2>5, <2>6 DEF ManageStep
<1>6. LinksKnown'
  <2>1. \A c \in link : row'[c].linked
    BY <1>1, <1>2, <1>3 DEF LinksKnown, LinksExist
  <2> QED BY <1>0, <1>2, <1>5, <2>1 DEF LinksKnown
<1>7. OpsAnswered'
  BY <1>0, <1>2, <1>5 DEF OpsAnswered
<1>8. GivenUp'
  <2>1. \A c \in DOMAIN row : row[c].status = "cancelled" => row'[c].status = "cancelled"
    BY <1>1, <1>3
  <2>2. \A n \in DOMAIN op : op[n].id \in DOMAIN row
    BY <1>2 DEF LinksExist
  <2> QED BY <1>0, <1>2, <1>3, <1>5, <2>1, <2>2 DEF GivenUp
<1>9. ASSUME NEW c \in link, c # b PROVE ShownAt(c)' /\ TimedAt(c)'
  <2>1. /\ Applied(c)' = Applied(c) /\ (Broken(c) => Broken(c)') /\ (Cancelling(c) => Cancelling(c)')
        /\ \A n \in Applied(c) : op'[n] = op[n]
    BY <1>0, <1>9, OtherBookings
  <2>2. c \in DOMAIN row
    BY <1>2 DEF LinksExist
  <2> QED BY <1>0, <1>1, <1>2, <1>9, <2>1, <2>2, StillShown
<1>10. \A c \in link' : ShownAt(c)' /\ TimedAt(c)'
  BY <1>0, <1>9, ManageShown
<1> QED BY <1>4, <1>6, <1>7, <1>8, <1>10

LEMMA OpenEventInv ==
  ASSUME CInv, CalendarConfigured, NEW m \in Ops, NEW b \in Ids, UNCHANGED req,
         OpenCancel(m, b) \/ \E s \in Starts : OpenReschedule(m, b, s)
  PROVE  EventInv'
<1>0. EventInv /\ LinkedWhenDone
  BY DEF CInv, MInv
<1>1. /\ UNCHANGED ledgerVars /\ m \notin DOMAIN op /\ DOMAIN op' = DOMAIN op \cup {m}
      /\ \A n \in DOMAIN op : op'[n] = op[n]
      /\ b \in link /\ op'[m].linked = row[b].linked
      /\ op'[m].pc \in {"update", "loaded"} /\ op'[m].result = "none"
  BY DEF OpenCancel, OpenReschedule, Put
<1> USE DEF EventInv
<1>2. Drafted'
  BY <1>0, <1>1 DEF Drafted, ledgerVars
<1>3. LinksKnown'
  BY <1>0, <1>1 DEF LinksKnown, ledgerVars
<1>4. OpsAnswered'
  <2>1. IsFiniteSet(DOMAIN op')
    BY <1>0, <1>1, FS_AddElement DEF OpsAnswered
  <2> QED BY <1>0, <1>1, <2>1 DEF OpsAnswered
<1>5. GivenUp'
  BY <1>0, <1>1 DEF GivenUp, ledgerVars
<1>6. ASSUME NEW c \in link PROVE ShownAt(c)' /\ TimedAt(c)'
  <2>1. /\ Applied(c)' = Applied(c) /\ (Broken(c) => Broken(c)') /\ (Cancelling(c) => Cancelling(c)')
        /\ \A n \in Applied(c) : op'[n] = op[n]
    BY <1>1 DEF Applied, Broken, Cancelling
  <2> QED BY <1>0, <1>1, <2>1, StillShown DEF ledgerVars
<1> QED BY <1>1, <1>2, <1>3, <1>4, <1>5, <1>6 DEF ledgerVars
-----------------------------------------------------------------------------
(* The steps of createBooking.                                             *)

\* What one of them writes of its own booking alone.
LEMMA CreateFrame ==
  ASSUME IInv, NEW r \in Requests, CreateStep(r) \/ Crash(r)
  PROVE  /\ \A b \in DOMAIN row \ {r} : row'[b] = row[b]
         /\ DOMAIN row' \subseteq DOMAIN row \cup {r}
         /\ \A b : b # r => /\ b \in DOMAIN event' <=> b \in DOMAIN event
                            /\ b \in DOMAIN event => event'[b] = event[b]
         /\ alerted \subseteq alerted'
<1>0. row \in [DOMAIN row -> Row] /\ event \in [DOMAIN event -> Interval]
  BY DEF IInv, TypeOK, LedgerTypeOK
<1>1. CASE InsertRow(r)
  BY <1>0, <1>1 DEF InsertRow, Put
<1>2. CASE InsertEvent(r) \/ InsertEventFails(r)
  BY <1>0, <1>2 DEF InsertEvent, InsertEventFails, Put
<1>3. CASE Rollback(r) \/ LinkEvent(r)
  BY <1>0, <1>3 DEF Rollback, LinkEvent
<1>4. CASE UNCHANGED <<row, event>> /\ alerted \subseteq alerted'
  BY <1>4
<1> QED
  BY <1>1, <1>2, <1>3, <1>4 DEF CreateStep, StartPassed, ReadCalendar, CalendarUnreachable, CheckSlot,
     InsertFindsKey, InsertRefused, Notify, Crash, ledgerVars

LEMMA NotifyEventInv ==
  ASSUME CInv, CalendarConfigured, NEW r \in Requests, Notify(r), UNCHANGED op
  PROVE  EventInv'
<1>0. EventInv /\ LinkedWhenDone /\ AsInserted /\ RowsInStep /\ LinksExist
      /\ TypeOK
  BY DEF CInv, MInv, IInv
<1> USE DEF EventInv
<1>1. /\ r \in DOMAIN req /\ req[r].pc = "notify" /\ UNCHANGED <<row, event>>
      /\ link' = link \cup {r} /\ alerted \subseteq alerted'
      /\ DOMAIN req' = DOMAIN req /\ req'[r].pc = "done" /\ \A q \in DOMAIN req \ {r} : req'[q] = req[q]
  BY <1>0 DEF Notify, At, Answer, TypeOK, CreateTypeOK, Request
<1>2. /\ r \notin link /\ r \in DOMAIN event /\ event[r] = row[r].slot
      /\ row[r].linked /\ row[r].status = "confirmed"
  BY <1>0, <1>1 DEF Drafted, AsInserted, LinkedWhenDone
<1>3. \A m \in DOMAIN op : op[m].id # r
  BY <1>0, <1>2 DEF LinkedWhenDone
<1>4. Drafted'
  BY <1>0, <1>1 DEF Drafted
<1>5. LinksKnown' /\ OpsAnswered' /\ GivenUp'
  BY <1>0, <1>1, <1>2 DEF LinksKnown, OpsAnswered, GivenUp
<1>6. ASSUME NEW c \in link PROVE ShownAt(c)' /\ TimedAt(c)'
  <2>1. /\ Applied(c)' = Applied(c) /\ (Broken(c) => Broken(c)') /\ (Cancelling(c) => Cancelling(c)')
        /\ \A n \in Applied(c) : op'[n] = op[n]
    BY DEF Applied, Broken, Cancelling
  <2> QED BY <1>0, <1>1, <2>1, StillShown
<1>7. ShownAt(r)' /\ TimedAt(r)'
  <2>1. Applied(r)' = {}
    BY <1>3 DEF Applied
  <2> QED BY <1>1, <1>2, <2>1 DEF ShownAt, TimedAt
<1> QED BY <1>1, <1>4, <1>5, <1>6, <1>7

LEMMA CreateEventInv ==
  ASSUME CInv, CalendarConfigured, NEW r \in Requests, CreateStep(r) \/ Crash(r), ~Notify(r), UNCHANGED op
  PROVE  EventInv'
<1>0. EventInv /\ LinkedWhenDone /\ RowsInStep /\ LinksExist /\ TypeOK /\ IInv /\ GivenUp
  BY DEF CInv, MInv, IInv, EventInv
<1>1. /\ \A b \in DOMAIN row \ {r} : row'[b] = row[b]
      /\ DOMAIN row' \subseteq DOMAIN row \cup {r}
      /\ \A b : b # r => /\ b \in DOMAIN event' <=> b \in DOMAIN event
                         /\ b \in DOMAIN event => event'[b] = event[b]
      /\ alerted \subseteq alerted'
  BY <1>0, CreateFrame
<1>2. /\ r \in DOMAIN req /\ DOMAIN req' = DOMAIN req /\ req[r].pc # "done" /\ req[r] \in Request
      /\ \A q \in DOMAIN req \ {r} : req'[q] = req[q]
      /\ req'[r].slot = req[r].slot
      /\ UNCHANGED link
  BY <1>0, ReqMoves DEF TypeOK, CreateTypeOK
<1>3. r \notin link /\ \A m \in DOMAIN op : op[m].id # r /\ op[m].id \in DOMAIN row
  BY <1>0, <1>2 DEF LinkedWhenDone, LinksExist
<1> USE DEF EventInv
<1>4. /\ req'[r].pc \in {"link", "notify"} => r \in DOMAIN event' /\ event'[r] = req'[r].slot
      /\ req'[r].pc = "notify" => row'[r].linked
      /\ req'[r].pc = "done" /\ r \in DOMAIN row' => r \in link' \cup alerted'
  <2>0. req \in [DOMAIN req -> Request]
    BY <1>0 DEF TypeOK, CreateTypeOK
  <2>1. req[r].pc = "link" => r \in DOMAIN event /\ event[r] = req[r].slot
    BY <1>0, <1>2 DEF Drafted
  <2>2. ASSUME StartPassed(r) \/ CalendarUnreachable(r) \/ InsertRefused(r) \/ InsertFindsKey(r)
        PROVE  req[r].pc \in {"calendar", "insert"} /\ row' = row /\ req'[r].pc = "done"
    <3>1. CASE StartPassed(r)
      BY <1>2, <2>0, <3>1 DEF StartPassed, At, Answer, Request, ledgerVars
    <3>2. CASE CalendarUnreachable(r)
      BY <1>2, <2>0, <3>2 DEF CalendarUnreachable, At, Answer, Request, ledgerVars
    <3>3. CASE InsertRefused(r)
      BY <1>2, <2>0, <3>3 DEF InsertRefused, At, Answer, Request, ledgerVars
    <3>4. CASE InsertFindsKey(r)
      BY <1>2, <2>0, <3>4 DEF InsertFindsKey, At, Request, ledgerVars
    <3> QED BY <2>2, <3>1, <3>2, <3>3, <3>4
  <2>3. ASSUME ReadCalendar(r) \/ CheckSlot(r)
        PROVE  /\ req[r].pc \in {"calendar", "rows"} /\ row' = row
               /\ req'[r].pc \notin {"link", "notify"}
    <3>1. CASE ReadCalendar(r)
      BY <1>2, <2>0, <3>1 DEF ReadCalendar, At, Request, ledgerVars
    <3>2. CASE CheckSlot(r)
      BY <1>2, <2>0, <3>2 DEF CheckSlot, At, Request, ledgerVars
    <3> QED BY <2>3, <3>1, <3>2
  <2>3a. CASE \/ StartPassed(r) \/ CalendarUnreachable(r) \/ InsertRefused(r) \/ InsertFindsKey(r)
              \/ ReadCalendar(r) \/ CheckSlot(r)
    <3>1. /\ req[r].pc \in {"calendar", "rows", "insert"} /\ row' = row
          /\ req'[r].pc \notin {"link", "notify"}
      BY <2>2, <2>3, <2>3a
    <3>2. r \notin DOMAIN row
      BY <1>0, <1>2, <3>1 DEF RowsInStep
    <3> QED BY <3>1, <3>2
  <2>4. CASE InsertRow(r)
    <3>1. req'[r].pc = "google"
      BY <1>2, <2>0, <2>4 DEF InsertRow, Goto, Request
    <3> QED BY <3>1
  <2>5. CASE InsertEvent(r)
    <3>1. req'[r].pc = "link"
      BY <1>2, <2>0, <2>5 DEF InsertEvent, Goto, Request
    <3>2. r \in DOMAIN event' /\ event'[r] = req[r].slot
      BY <2>5 DEF InsertEvent, Put
    <3> QED BY <1>2, <3>1, <3>2
  <2>6. CASE InsertEventFails(r)
    <3>1. req'[r].pc = "rollback"
      BY <1>2, <2>0, <2>6 DEF InsertEventFails, Goto, Request
    <3> QED BY <3>1
  <2>7. CASE Rollback(r)
    <3>1. req'[r].pc = "done" /\ r \in alerted'
      BY <1>2, <2>0, <2>7 DEF Rollback, Answer, Request
    <3> QED BY <3>1
  <2>8. CASE LinkEvent(r)
    <3>1. req[r].pc = "link" /\ event' = event /\ r \in DOMAIN row /\ row[r] \in Row
      BY <1>0, <1>2, <2>8 DEF LinkEvent, At, RowsInStep, TypeOK, LedgerTypeOK
    <3>2. row'[r].linked
      BY <2>8, <3>1 DEF LinkEvent, Row
    <3>3. req'[r].pc = "notify"
      BY <1>2, <2>0, <2>8 DEF LinkEvent, Goto, Request
    <3> QED BY <1>2, <2>1, <3>1, <3>2, <3>3
  <2>9. CASE Crash(r)
    <3>1. req'[r].pc = "crashed"
      BY <1>2, <2>0, <2>9 DEF Crash, Request
    <3> QED BY <3>1
  <2> QED BY <2>3a, <2>4, <2>5, <2>6, <2>7, <2>8, <2>9 DEF CreateStep
<1>5. Drafted'
  <2> SUFFICES ASSUME NEW q \in DOMAIN req'
               PROVE  /\ req'[q].pc \in {"link", "notify"} => q \in DOMAIN event' /\ event'[q] = req'[q].slot
                      /\ req'[q].pc = "notify" => row'[q].linked
                      /\ req'[q].pc = "done" /\ q \in DOMAIN row' => q \in link' \cup alerted'
    BY DEF Drafted
  <2>1. CASE q = r
    BY <1>4, <2>1
  <2>2. CASE q # r
    <3>1. q \in DOMAIN req /\ req'[q] = req[q]
      BY <1>2, <2>2
    <3>2. req[q].pc = "notify" => q \in DOMAIN row /\ row'[q] = row[q]
      BY <1>0, <1>1, <2>2, <3>1 DEF RowsInStep
    <3>3. q \in DOMAIN row' => q \in DOMAIN row
      BY <1>1, <2>2
    <3> QED BY <1>0, <1>1, <1>2, <2>2, <3>1, <3>2, <3>3 DEF Drafted
  <2> QED BY <2>1, <2>2
<1>6. LinksKnown' /\ OpsAnswered' /\ GivenUp'
  BY <1>0, <1>1, <1>2, <1>3 DEF LinksKnown, OpsAnswered, GivenUp, LinksExist
<1>7. ASSUME NEW c \in link PROVE ShownAt(c)' /\ TimedAt(c)'
  <2>1. /\ Applied(c)' = Applied(c) /\ (Broken(c) => Broken(c)') /\ (Cancelling(c) => Cancelling(c)')
        /\ \A n \in Applied(c) : op'[n] = op[n]
    BY DEF Applied, Broken, Cancelling
  <2>2. c # r /\ c \in DOMAIN row
    BY <1>0, <1>3 DEF LinksExist
  <2> QED BY <1>0, <1>1, <2>1, <2>2, StillShown
<1> QED BY <1>2, <1>5, <1>6, <1>7

LEMMA StepEventInv == CInv /\ CalendarConfigured /\ [Next]_vars => EventInv'
<1> SUFFICES ASSUME CInv, CalendarConfigured, [Next]_vars PROVE EventInv'
  OBVIOUS
<1>1. ASSUME NEW r \in Requests, CreateStep(r) \/ Crash(r), UNCHANGED op PROVE EventInv'
  BY <1>1, NotifyEventInv, CreateEventInv
<1>2. ASSUME NEW m \in Ops, ManageStep(m) \/ CrashOp(m), UNCHANGED req PROVE EventInv'
  BY <1>2, ManageEventInv
<1>3. ASSUME NEW m \in Ops, NEW b \in Ids, UNCHANGED req,
             OpenCancel(m, b) \/ \E s \in Starts : OpenReschedule(m, b, s)
      PROVE  EventInv'
  BY <1>3, OpenEventInv
<1>4. ASSUME UNCHANGED <<row, event, link, alerted, op>>,
             \A q \in DOMAIN req' : (q \in DOMAIN req /\ req'[q] = req[q]) \/ req'[q].pc = "calendar"
      PROVE  EventInv'
  <2>0. EventInv
    BY DEF CInv
  <2>1. \A c \in link : ShownAt(c)' /\ TimedAt(c)'
    BY <1>4, <2>0 DEF EventInv, ShownAt, TimedAt, Applied, Broken, Cancelling
  <2>2. Drafted' /\ LinksKnown' /\ OpsAnswered' /\ GivenUp'
    BY <1>4, <2>0 DEF EventInv, Drafted, LinksKnown, OpsAnswered, GivenUp
  <2> QED BY <1>4, <2>1, <2>2 DEF EventInv
<1>5. ASSUME NEW r \in Requests, NEW k \in Keys, NEW i \in Interval, Submit(r, k, i), UNCHANGED op
      PROVE  EventInv'
  BY <1>4, <1>5 DEF Submit, Put, ledgerVars
<1>6. CASE UNCHANGED <<row, event, link, alerted, op, req>>
  BY <1>4, <1>6
<1> QED
  BY <1>1, <1>2, <1>3, <1>5, <1>6 DEF Next, CreateNext, ManageNext, Tick, AcceptMeeting, vars
-----------------------------------------------------------------------------
LEMMA CalendarAgreesNow == CInv => CalendarAgrees
<1> SUFFICES ASSUME CInv, CalendarConfigured, NEW b \in DOMAIN row, Settled(b), b \notin alerted
             PROVE  /\ b \in Confirmed <=> b \in DOMAIN event
                    /\ b \in Confirmed /\ Cardinality(Moves(b)) <= 1 => event[b] = row[b].slot
  BY DEF CalendarAgrees, CalendarFollows, CalendarTimeFollows, Confirmed
<1>0. EventInv /\ RowsInStep /\ b \in DOMAIN req
  BY DEF CInv, MInv, IInv, RowsInStep
<1>1. req[b].pc = "done" /\ \A m \in DOMAIN op : op[m].id = b => op[m].pc = "done"
  BY DEF Settled
<1>2. ~Broken(b) /\ ~Cancelling(b)
  BY <1>1 DEF Broken, Cancelling
<1>3. Moves(b) = Applied(b)
  BY <1>1 DEF Moves, Applied
<1>4. b \in link /\ ShownAt(b) /\ TimedAt(b)
  BY <1>0, <1>1 DEF EventInv, Drafted
<1>5. b \in Confirmed <=> b \in DOMAIN event
  BY <1>2, <1>4 DEF ShownAt, Confirmed
<1>6. ASSUME b \in Confirmed, Cardinality(Moves(b)) <= 1 PROVE event[b] = row[b].slot
  <2>1. Moves(b) \subseteq DOMAIN op /\ IsFiniteSet(DOMAIN op)
    BY <1>0 DEF Moves, EventInv, OpsAnswered
  <2>2. IsFiniteSet(Moves(b)) /\ Cardinality(Moves(b)) \in Nat
    BY <2>1, FS_Subset, FS_CardinalityType
  <2>3. Cardinality(Moves(b)) = 0 \/ Cardinality(Moves(b)) = 1
    BY <1>6, <2>2
  <2>4. Moves(b) = {} \/ \E m : Moves(b) = {m}
    BY <2>2, <2>3, FS_EmptySet, FS_Singleton
  <2>5. CASE Moves(b) = {}
    BY <1>2, <1>3, <1>4, <1>6, <2>5 DEF TimedAt, Confirmed
  <2>6. ASSUME NEW m, Moves(b) = {m} PROVE event[b] = row[b].slot
    <3>1. m \in DOMAIN op /\ op[m].id = b
      BY <2>6 DEF Moves
    <3> QED BY <1>1, <1>2, <1>3, <1>4, <1>6, <2>6, <3>1 DEF TimedAt, Confirmed
  <2> QED BY <2>4, <2>5, <2>6
<1> QED BY <1>5, <1>6

\* However many posts, cancellations and moves of a booking race, fail halfway and
\* are retried: once they have all run to their end with no alert raised, the
\* manager's calendar has the booking's event exactly when the row is confirmed,
\* and at its time unless two moves were applied (createBooking's link and
\* rollback, cancelBooking's DELETE, rescheduleBooking's PATCH).
THEOREM CalendarIsTheTable == Spec => []CalendarAgrees
<1>1. Init => CInv
  <2> SUFFICES ASSUME Init PROVE CInv
    OBVIOUS
  <2>1. DOMAIN req = {} /\ DOMAIN op = {} /\ link = {}
    BY DEF Init, LedgerInit, CreateInit, ManageInit
  <2>2. EventInv
    BY <2>1, FS_EmptySet DEF EventInv, Drafted, LinksKnown, OpsAnswered, GivenUp
  <2> QED BY <2>2, InitMInv DEF CInv
<1>2. CInv /\ [Next]_vars => CInv'
  <2>1. IInv /\ [Next]_vars => IInv'
    BY StepTypes, StepLinks, StepRows, StepSlots, StepKeys DEF IInv
  <2>2. MInv /\ [Next]_vars => MInv'
    BY <2>1, StepLinked, StepInserted, StepSaid DEF MInv
  <2> QED BY <2>2, StepEventInv DEF CInv
<1> QED BY <1>1, <1>2, CalendarAgreesNow, PTL DEF Spec
=============================================================================
