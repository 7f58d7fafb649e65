----------------------------- MODULE DiaryProofs ----------------------------
(***************************************************************************)
(* OneToOne implements Diary for every value of its constants: each of the *)
(* statements that write the table is a step of the diary or invisible in  *)
(* it, and nothing else writes the table.                                  *)
(***************************************************************************)
EXTENDS OneToOneProofs

\* createBooking never writes a group session: without seats, every confirmed
\* row is under the exclusion constraint.
NoSeats == \A b \in DOMAIN row : row[b].group = NoSession

DInv == IInv /\ NoSeats

Held     == [b \in Exclusive |-> Instants(row[b].slot)]
Released == {b \in DOMAIN row : row[b].status = "cancelled"}
-----------------------------------------------------------------------------
LEMMA DisjointInstants ==
  ASSUME NEW i \in Interval, NEW j \in Interval, ~Overlap(i, j)
  PROVE  Instants(i) \cap Instants(j) = {}
<1>1. /\ i.start \in Nat /\ i.dur \in Nat /\ j.start \in Nat /\ j.dur \in Nat
  BY LedgerAssumption DEF Interval
<1>2. ASSUME NEW t \in Instants(i), t \in Instants(j) PROVE FALSE
  BY <1>1, <1>2 DEF Instants, Overlap, End
<1> QED BY <1>2

\* What the exclusion constraint lets through is free in the diary.
LEMMA NotRefusedIsFree ==
  ASSUME TypeOK, NEW b, NEW i \in Interval, ~Refused(b, i)
  PROVE  Promise!Free(b, Instants(i))
<1>1. \A c \in Exclusive \ {b} : row[c].slot \in Interval /\ ~Overlap(i, row[c].slot)
  BY DEF Refused, Exclusive, Confirmed, TypeOK, LedgerTypeOK, Row
<1>2. \A c \in Exclusive \ {b} : Instants(i) \cap Instants(row[c].slot) = {}
  BY <1>1, DisjointInstants
<1> QED BY <1>2 DEF Promise!Free

LEMMA StepNoSeats == DInv /\ [Next]_vars => NoSeats'
<1> SUFFICES ASSUME DInv, [Next]_vars PROVE NoSeats'
  OBVIOUS
<1> USE DEF DInv, IInv, NoSeats
<1>1. CASE UNCHANGED row
  BY <1>1
<1>2. ASSUME NEW r \in Requests, InsertRow(r) PROVE NoSeats'
  BY <1>2 DEF InsertRow, Put, NewRow
<1>3. ASSUME NEW r \in Requests, Rollback(r) \/ LinkEvent(r) PROVE NoSeats'
  BY <1>3 DEF Rollback, LinkEvent, TypeOK, LedgerTypeOK, Row
<1>4. ASSUME NEW m \in Ops, CancelRow(m) PROVE NoSeats'
  BY <1>4 DEF CancelRow, TypeOK, LedgerTypeOK, Row
<1>5. ASSUME NEW m \in Ops, MoveRow(m) PROVE NoSeats'
  BY <1>5 DEF MoveRow, TypeOK, LedgerTypeOK, Row
<1> QED BY <1>1, <1>2, <1>3, <1>4, <1>5, RowWrites
-----------------------------------------------------------------------------
LEMMA InitMaps == Init => Promise!Init
<1> SUFFICES ASSUME Init PROVE Promise!Init
  OBVIOUS
<1>1. DOMAIN row = {}
  BY DEF Init, LedgerInit
<1>2. Exclusive = {} /\ Released = {}
  BY <1>1 DEF Exclusive, Confirmed, Released
<1> QED BY <1>2 DEF Promise!Init, Released

\* A row that keeps its time, its kind and its status is the same in the diary.
LEMMA InvisibleWrites ==
  ASSUME DOMAIN row' = DOMAIN row,
         \A b \in DOMAIN row : /\ row'[b].slot = row[b].slot
                               /\ row'[b].group = row[b].group
                               /\ row'[b].status = row[b].status
  PROVE  Held' = Held /\ Released' = Released
<1>1. Exclusive' = Exclusive
  BY DEF Exclusive, Confirmed
<1>2. \A b \in Exclusive : row'[b].slot = row[b].slot
  BY DEF Exclusive, Confirmed
<1>3. Held' = Held
  BY <1>1, <1>2 DEF Held, Instants, End
<1> QED BY <1>3 DEF Released

LEMMA InsertBooks ==
  ASSUME DInv, NEW r \in Requests, InsertRow(r)
  PROVE  Promise!Next
<1>1. /\ r \in DOMAIN req /\ req[r].slot \in Interval
      /\ r \notin DOMAIN row
      /\ row' = Put(row, r, NewRow(req[r].slot, req[r].key, NoSession))
      /\ ~Refused(r, req[r].slot)
  BY DEF InsertRow, At, DInv, IInv, RowsInStep, TypeOK, CreateTypeOK, Request
<1>2. DOMAIN row' = DOMAIN row \cup {r} /\ \A c \in DOMAIN row : row'[c] = row[c]
  BY <1>1 DEF Put
<1>3. row'[r] = NewRow(req[r].slot, req[r].key, NoSession)
  BY <1>1 DEF Put
<1>4. row'[r].slot = req[r].slot /\ row'[r].status = "confirmed" /\ row'[r].group = NoSession
  BY <1>3 DEF NewRow
<1>5. Exclusive' = Exclusive \cup {r} /\ r \notin Exclusive /\ Exclusive \subseteq DOMAIN row
  BY <1>1, <1>2, <1>4 DEF Exclusive, Confirmed
<1>6. Released' = Released /\ r \notin Released
  BY <1>1, <1>2, <1>4 DEF Released
<1>7. Held' = [c \in Exclusive \cup {r} |-> IF c = r THEN Instants(req[r].slot) ELSE Held[c]]
  BY <1>2, <1>4, <1>5 DEF Held, Instants, End
<1>8. Promise!Free(r, Instants(req[r].slot))
  BY <1>1, NotRefusedIsFree DEF DInv, IInv
<1>9. Promise!Book(r, Instants(req[r].slot))
  BY <1>5, <1>6, <1>7, <1>8 DEF Promise!Book, Held, Released
<1> QED BY <1>1, <1>9 DEF Promise!Next

\* A row that loses its confirmation is given up.
LEMMA CancelGivesUp ==
  ASSUME DInv, NEW b \in DOMAIN row, row[b].status = "confirmed",
         DOMAIN row' = DOMAIN row, row'[b].status = "cancelled",
         \A c \in DOMAIN row \ {b} : row'[c] = row[c]
  PROVE  Promise!Next
<1>1. b \in Exclusive /\ b \in Requests
  BY DEF Exclusive, Confirmed, DInv, IInv, NoSeats, RowsInStep, TypeOK, CreateTypeOK
<1>2. Exclusive' = Exclusive \ {b} /\ Exclusive \subseteq DOMAIN row
  BY DEF Exclusive, Confirmed
<1>3. Released' = Released \cup {b}
  BY DEF Released
<1>4. Held' = [c \in Exclusive \ {b} |-> Held[c]]
  BY <1>2 DEF Held, Instants, End
<1>5. Promise!GiveUp(b)
  BY <1>1, <1>3, <1>4 DEF Promise!GiveUp, Held, Released
<1> QED BY <1>1, <1>5 DEF Promise!Next

LEMMA MoveMoves ==
  ASSUME DInv, NEW m \in Ops, MoveRow(m)
  PROVE  Promise!Next
<1> DEFINE b == op[m].id
<1>1. /\ b \in DOMAIN row /\ row[b] \in Row /\ b \in Requests /\ op[m].to \in Interval
  BY DEF MoveRow, Pc, DInv, IInv, LinksExist, RowsInStep, TypeOK, LedgerTypeOK, CreateTypeOK,
         ManageTypeOK, Op
<1>2. row' = [row EXCEPT ![b] = [row[b] EXCEPT !.slot = op[m].to, !.reminded = FALSE,
                                               !.seq = NextSeq(b)]]
  BY DEF MoveRow
<1>3. /\ DOMAIN row' = DOMAIN row /\ \A c \in DOMAIN row \ {b} : row'[c] = row[c]
      /\ row'[b].slot = op[m].to /\ row'[b].status = row[b].status /\ row'[b].group = row[b].group
  BY <1>1, <1>2 DEF Row
<1>4. b \in Exclusive /\ ~Refused(b, op[m].to)
  BY <1>1 DEF MoveRow, StillConfirmed, Exclusive, Confirmed, DInv, NoSeats
<1>5. Exclusive' = Exclusive /\ Released' = Released /\ Exclusive \subseteq DOMAIN row
  BY <1>3 DEF Exclusive, Confirmed, Released
<1>6. Held' = [Held EXCEPT ![b] = Instants(op[m].to)]
  BY <1>3, <1>4, <1>5 DEF Held, Instants, End
<1>7. Promise!Free(b, Instants(op[m].to))
  BY <1>1, <1>4, NotRefusedIsFree DEF DInv, IInv
<1>8. Promise!Move(b, Instants(op[m].to))
  BY <1>4, <1>5, <1>6, <1>7 DEF Promise!Move, Held, Released
<1> QED BY <1>1, <1>8 DEF Promise!Next

LEMMA StepMaps == DInv /\ [Next]_vars => [Promise!Next]_(Promise!diary)
<1> SUFFICES ASSUME DInv, [Next]_vars PROVE Promise!Next \/ UNCHANGED Promise!diary
  OBVIOUS
<1>0. Held' = Held /\ Released' = Released => UNCHANGED Promise!diary
  BY DEF Promise!diary, Held, Released
<1>1. CASE UNCHANGED row
  BY <1>0, <1>1, InvisibleWrites
<1>2. ASSUME NEW r \in Requests, InsertRow(r) PROVE Promise!Next
  BY <1>2, InsertBooks
<1>3. ASSUME NEW r \in Requests, LinkEvent(r) PROVE UNCHANGED Promise!diary
  <2>1. /\ DOMAIN row' = DOMAIN row
        /\ \A b \in DOMAIN row : /\ row'[b].slot = row[b].slot
                                 /\ row'[b].group = row[b].group
                                 /\ row'[b].status = row[b].status
    BY <1>3 DEF LinkEvent, DInv, IInv, TypeOK, LedgerTypeOK, Row
  <2> QED BY <1>0, <2>1, InvisibleWrites
<1>4. ASSUME NEW r \in Requests, Rollback(r) PROVE Promise!Next \/ UNCHANGED Promise!diary
  <2>1. r \in DOMAIN row /\ row[r] \in Row
    BY <1>4 DEF Rollback, At, DInv, IInv, RowsInStep, TypeOK, LedgerTypeOK
  <2>2. row' = [row EXCEPT ![r] = [row[r] EXCEPT !.status = "cancelled", !.by = "system"]]
    BY <1>4 DEF Rollback
  <2>3. /\ DOMAIN row' = DOMAIN row /\ \A c \in DOMAIN row \ {r} : row'[c] = row[c]
        /\ row'[r].status = "cancelled" /\ row'[r].slot = row[r].slot /\ row'[r].group = row[r].group
    BY <2>1, <2>2 DEF Row
  <2>4. CASE row[r].status = "confirmed"
    BY <2>1, <2>3, <2>4, CancelGivesUp
  <2>5. CASE row[r].status = "cancelled"
    <3>1. \A b \in DOMAIN row : /\ row'[b].slot = row[b].slot
                                /\ row'[b].group = row[b].group
                                /\ row'[b].status = row[b].status
      BY <2>3, <2>5
    <3> QED BY <1>0, <2>3, <3>1, InvisibleWrites
  <2> QED BY <2>1, <2>4, <2>5 DEF Row
<1>5. ASSUME NEW m \in Ops, CancelRow(m) PROVE Promise!Next
  <2> DEFINE b == op[m].id
  <2>1. b \in DOMAIN row /\ row[b] \in Row /\ row[b].status = "confirmed"
    BY <1>5 DEF CancelRow, Pc, StillConfirmed, DInv, IInv, LinksExist, TypeOK, LedgerTypeOK
  <2>2. row' = [row EXCEPT ![b] = [row[b] EXCEPT !.status = "cancelled", !.by = "guest",
                                                 !.seq = NextSeq(b)]]
    BY <1>5 DEF CancelRow
  <2>3. /\ DOMAIN row' = DOMAIN row /\ row'[b].status = "cancelled"
        /\ \A c \in DOMAIN row \ {b} : row'[c] = row[c]
    BY <2>1, <2>2 DEF Row
  <2> QED BY <2>1, <2>3, CancelGivesUp
<1>6. ASSUME NEW m \in Ops, MoveRow(m) PROVE Promise!Next
  BY <1>6, MoveMoves
<1> QED BY <1>1, <1>2, <1>3, <1>4, <1>5, <1>6, RowWrites
-----------------------------------------------------------------------------
\* Of all that the handlers do, with their crashes, retries and rollbacks, the
\* booking table shows nothing but a diary: bookings made on free instants,
\* moved to free instants and given up, one at a time and for good.
THEOREM ImplementsDiary == Spec => KeepsTheDiary
<1>1. Init => DInv
  <2>1. Init => NoSeats
    BY DEF Init, LedgerInit, NoSeats
  <2> QED BY <2>1, InitIInv DEF DInv
<1>2. NoSeats /\ IInv /\ [Next]_vars => NoSeats'
  BY StepNoSeats DEF DInv
<1>3. Init => NoSeats
  BY <1>1 DEF DInv
<1>4. IInv /\ NoSeats => DInv
  BY DEF DInv
<1> QED BY Inductive, <1>2, <1>3, <1>4, InitMaps, StepMaps, PTL DEF Spec, KeepsTheDiary, Promise!Spec
=============================================================================
