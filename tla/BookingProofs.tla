--------------------------- MODULE BookingProofs ----------------------------
(***************************************************************************)
(* The parts of the booking application around the booking handlers, for   *)
(* every value of their constants: the lead's column of the settings, the  *)
(* invitation's first answer, the reminders' claims, the tabs of the       *)
(* guest's page, the saves of templates, the limits of time, the times on  *)
(* offer and who a guest is booked with.  The parts share no state, and    *)
(* each section has the inductive invariant of one.                        *)
(***************************************************************************)
EXTENDS Slots, Coverage, Invites, Templates, Settings, Reminders, ManagePage, Traffic,
        FiniteSetTheorems, SequenceTheorems, WellFoundedInduction, TLAPS

(* The settings *)

\* A row on its way to the table was laid over one as it was read: what a manager's
\* save holds in the lead's column stood there, and so a lead wrote it.
SettingsInv ==
  /\ staff.lead \in ordained
  /\ DOMAIN staff = {"own", "lead"}
  /\ DOMAIN save = Savers
  /\ \A a \in Savers :
       /\ {"step", "row"} \subseteq DOMAIN save[a]
       /\ DOMAIN save[a].row = {"own", "lead"}
       /\ save[a].step = "write" => a \in PodLeads \/ save[a].row.lead \in ordained

\* A step leaves every save as it was, or begins, ends or continues one of them.
LEMMA SettingsStep == SettingsInv /\ SettingsNext => SettingsInv'
<1> SUFFICES ASSUME SettingsInv, NEW a \in Savers,
                    LoadSettings(a) \/ WriteSettings(a) \/ DeleteHours(a) \/ InsertHours(a)
             PROVE  SettingsInv'
  BY DEF SettingsNext
<1> USE DEF SettingsInv, IdleSave
<1>1. CASE LoadSettings(a)
  BY <1>1 DEF LoadSettings, LeadRefuses
<1>2. CASE WriteSettings(a)
  BY <1>2 DEF WriteSettings
<1>3. CASE DeleteHours(a)
  BY <1>3 DEF DeleteHours
<1>4. CASE InsertHours(a)
  BY <1>4 DEF InsertHours
<1> QED
  BY <1>1, <1>2, <1>3, <1>4

\* What stands in the lead's column was put there by a lead, however the saves of
\* saveSettings overlap.
THEOREM LeadsColumnStands == SettingsSpec => []LeadValuesAreTheLeads
<1>1. SettingsInit => SettingsInv
  BY DEF SettingsInit, SettingsInv, IdleSave
<1>2. SettingsInv /\ [SettingsNext]_settingVars => SettingsInv'
  BY SettingsStep DEF SettingsInv, settingVars
<1>3. SettingsInv => LeadValuesAreTheLeads
  BY DEF SettingsInv, LeadValuesAreTheLeads
<1> QED
  BY <1>1, <1>2, <1>3, PTL DEF SettingsSpec
-----------------------------------------------------------------------------
(* The invitation *)

\* The booking an invitation names was made under the key of one of its forms, and a
\* form that is about to confirm has made one; none is named while it is pending.
InviteInv ==
  /\ DOMAIN invitation = {"status", "booking", "lapsed"}
  /\ DOMAIN calls = {"booked", "taken"}
  /\ DOMAIN tab = Tabs
  /\ \A t \in Tabs :
       /\ DOMAIN tab[t] = {"step", "time"}
       /\ tab[t].step = "booked" => \E b \in calls.booked : b.key = t
  /\ invitation.status = "pending" => invitation.booking = NoBooking
  /\ invitation.booking # NoBooking => \E b \in calls.booked : b.key = invitation.booking

\* What FirstAnswerStands says of one step.
AnswerStands ==
  /\ invitation.status # "pending" =>
       invitation'.status = invitation.status /\ invitation'.booking = invitation.booking
  /\ invitation'.booking # NoBooking => \E b \in calls'.booked : b.key = invitation'.booking

\* findInvitationByToken marks a pending invitation that lapsed and no other.
LEMMA LookedKeeps ==
  ASSUME DOMAIN invitation = {"status", "booking", "lapsed"}
  PROVE  /\ DOMAIN Looked(invitation) = {"status", "booking", "lapsed"}
         /\ Looked(invitation).booking = invitation.booking
         /\ invitation.status # "pending" => Looked(invitation) = invitation
  BY DEF Looked

\* One form's turn.
LEMMA TurnsOne ==
  ASSUME InviteInv, NEW t \in Tabs, NEW step, NEW showing, Turns(t, step, showing),
         \A b \in calls.booked : b \in calls'.booked,
         step = "booked" => \E b \in calls'.booked : b.key = t
  PROVE  /\ DOMAIN tab' = Tabs
         /\ \A u \in Tabs :
              /\ DOMAIN tab'[u] = {"step", "time"}
              /\ tab'[u].step = "booked" => \E b \in calls'.booked : b.key = u
  BY DEF InviteInv, Turns

\* The bookings stay and every answer with them; createBooking keys its booking with
\* the form, and only a pending invitation is confirmed.
LEMMA InviteStep == InviteInv /\ InviteNext => InviteInv' /\ AnswerStands
<1> SUFFICES ASSUME InviteInv, InviteNext PROVE InviteInv' /\ AnswerStands
  OBVIOUS
<1>1. CASE ExpiryPasses
  BY <1>1 DEF ExpiryPasses, InviteInv, AnswerStands
<1>2. CASE \E c \in Candidates : OthersBook(c)
  <2> PICK c \in Candidates : OthersBook(c)
    BY <1>2
  <2>1. DOMAIN calls' = DOMAIN calls /\ calls'.booked = calls.booked
    BY DEF OthersBook, InviteInv
  <2> QED
    BY <2>1 DEF OthersBook, InviteInv, AnswerStands
<1>3. ASSUME NEW t \in Tabs, OpenInvite(t) PROVE InviteInv' /\ AnswerStands
  <2>1. invitation' = Looked(invitation) /\ calls' = calls
    BY <1>3 DEF OpenInvite
  <2>2. PICK step, showing : Turns(t, step, showing) /\ step \in {"told", "form"}
    BY <1>3 DEF OpenInvite
  <2>3. DOMAIN invitation = {"status", "booking", "lapsed"}
    BY DEF InviteInv
  <2>4. /\ DOMAIN tab' = Tabs
        /\ \A u \in Tabs : /\ DOMAIN tab'[u] = {"step", "time"}
                           /\ tab'[u].step = "booked" => \E b \in calls'.booked : b.key = u
    BY <2>1, <2>2, TurnsOne
  <2> QED
    BY <2>1, <2>3, <2>4, LookedKeeps DEF InviteInv, AnswerStands
<1>4. ASSUME NEW t \in Tabs, SubmitInvite(t) PROVE InviteInv' /\ AnswerStands
  <2>1. invitation' = Looked(invitation) /\ calls' = calls
    BY <1>4 DEF SubmitInvite
  <2>2. PICK step, showing : Turns(t, step, showing) /\ step \in {"told", "found"}
    BY <1>4 DEF SubmitInvite
  <2>3. DOMAIN invitation = {"status", "booking", "lapsed"}
    BY DEF InviteInv
  <2>4. /\ DOMAIN tab' = Tabs
        /\ \A u \in Tabs : /\ DOMAIN tab'[u] = {"step", "time"}
                           /\ tab'[u].step = "booked" => \E b \in calls'.booked : b.key = u
    BY <2>1, <2>2, TurnsOne
  <2> QED
    BY <2>1, <2>3, <2>4, LookedKeeps DEF InviteInv, AnswerStands
<1>5. ASSUME NEW t \in Tabs, BookInvite(t) PROVE InviteInv' /\ AnswerStands
  <2>1. DOMAIN calls' = DOMAIN calls /\ \A b \in calls.booked : b \in calls'.booked
    BY <1>5 DEF BookInvite, InviteInv
  <2>2. PICK step, showing : /\ Turns(t, step, showing)
                             /\ step = "booked" => \E b \in calls'.booked : b.key = t
    <3>1. CASE Turns(t, "form", tab[t].time)
      BY <3>1
    <3>2. CASE /\ calls' = [calls EXCEPT !.booked = @ \cup {[key |-> t, time |-> tab[t].time]}]
               /\ Turns(t, "booked", tab[t].time)
      <4>1. [key |-> t, time |-> tab[t].time] \in calls'.booked
        BY <3>2 DEF InviteInv
      <4> QED
        BY <4>1, <3>2
    <3> QED
      BY <1>5, <3>1, <3>2 DEF BookInvite
  <2>3. /\ DOMAIN tab' = Tabs
        /\ \A u \in Tabs : /\ DOMAIN tab'[u] = {"step", "time"}
                           /\ tab'[u].step = "booked" => \E b \in calls'.booked : b.key = u
    <3>1. Turns(t, step, showing)
      BY <2>2
    <3>2. step = "booked" => \E b \in calls'.booked : b.key = t
      BY <2>2
    <3> QED
      BY <2>1, <3>1, <3>2, TurnsOne
  <2>4. invitation' = invitation
    BY <1>5 DEF BookInvite
  <2> QED
    BY <2>1, <2>3, <2>4 DEF InviteInv, AnswerStands
<1>6. ASSUME NEW t \in Tabs, ConfirmInvite(t) PROVE InviteInv' /\ AnswerStands
  <2>1. calls' = calls /\ \E b \in calls.booked : b.key = t
    BY <1>6 DEF ConfirmInvite, InviteInv
  <2>2. /\ DOMAIN tab' = Tabs
        /\ \A u \in Tabs : /\ DOMAIN tab'[u] = {"step", "time"}
                           /\ tab'[u].step = "booked" => \E b \in calls'.booked : b.key = u
    BY <1>6, <2>1, TurnsOne DEF ConfirmInvite
  <2>3. \/ invitation.status # "pending" /\ invitation' = invitation
        \/ /\ invitation.status = "pending"
           /\ invitation' = [invitation EXCEPT !.status = "confirmed", !.booking = t]
    BY <1>6 DEF ConfirmInvite
  <2> QED
    BY <2>1, <2>2, <2>3 DEF InviteInv, AnswerStands
<1>7. ASSUME NEW t \in Tabs, DieInvite(t) PROVE InviteInv' /\ AnswerStands
  <2>1. /\ DOMAIN tab' = Tabs
        /\ \A u \in Tabs : /\ DOMAIN tab'[u] = {"step", "time"}
                           /\ tab'[u].step = "booked" => \E b \in calls'.booked : b.key = u
    BY <1>7, TurnsOne DEF DieInvite
  <2> QED
    BY <1>7, <2>1 DEF DieInvite, InviteInv, AnswerStands
<1> QED
  BY <1>1, <1>2, <1>3, <1>4, <1>5, <1>6, <1>7 DEF InviteNext

\* The first answer of an invitation stands, and the booking it names was made from
\* it: acceptInvitation in any number of tabs, dying at any step.
THEOREM FirstAnswerIsFinal == InviteSpec => FirstAnswerStands
<1>1. InviteInit => InviteInv
  BY DEF InviteInit, InviteInv
<1>2. InviteInv /\ [InviteNext]_inviteVars => InviteInv'
  BY InviteStep DEF InviteInv, inviteVars
<1>3. InviteInv /\ [InviteNext]_inviteVars => [AnswerStands]_inviteVars
  BY InviteStep
<1> QED
  BY <1>1, <1>2, <1>3, PTL DEF InviteSpec, FirstAnswerStands, AnswerStands
-----------------------------------------------------------------------------
(* The reminders *)

RowsReminded ==
  /\ DOMAIN row = Ids
  /\ \A b \in Ids : /\ {"status", "seq", "reminded"} \subseteq DOMAIN row[b]
                    /\ row[b].seq \in Nat /\ row[b].reminded \in BOOLEAN

\* A run has rows to do from its claim until its loop ends; the row of a failed mail
\* is at hand until its flag is given back.
RunsShaped ==
  /\ IsFiniteSet(DOMAIN run)
  /\ \A j \in DOMAIN run :
       /\ DOMAIN run[j] = {"pc", "todo", "at"}
       /\ run[j].pc \in {"claim", "send", "reset", "alert", "done", "crashed"}
       /\ run[j].todo \subseteq Ids
       /\ run[j].pc \in {"claim", "done"} => run[j].todo = {}
       /\ run[j].pc = "reset" => run[j].at \in Ids

\* The runs that have the booking to do, and those that owe its guest a mail or its
\* flag to the next run.
Todo(b) == {j \in DOMAIN run : b \in run[j].todo}
Owing(b) == {j \in DOMAIN run : b \in run[j].todo \/ (run[j].pc \in {"reset", "crashed"} /\ run[j].at = b)}

CountsTyped ==
  /\ sent \in [Ids -> Nat] /\ claims \in [Ids -> Nat] /\ resets \in [Ids -> Nat]

\* One claim may stand without a reset or a move: the one the flag tells of.
ClaimsFlagged == \A b \in Ids :
  claims[b] <= resets[b] + row[b].seq + (IF row[b].reminded THEN 1 ELSE 0)

\* A claim is a mail, or its run still has the row to do ...
ClaimsCover == \A b \in Ids : sent[b] + Cardinality(Todo(b)) <= claims[b]

\* ... and what is neither a mail nor given back, some run owes.
ClaimsOwed == \A b \in Ids : claims[b] <= sent[b] + resets[b] + Cardinality(Owing(b))

RemindInv == RowsReminded /\ RunsShaped /\ CountsTyped /\ ClaimsFlagged /\ ClaimsCover /\ ClaimsOwed

\* Sets of runs with one run put in or taken out.
LEMMA OneRun ==
  ASSUME NEW S, IsFiniteSet(S), NEW j
  PROVE  /\ Cardinality(S) \in Nat /\ Cardinality(S \ {j}) \in Nat
         /\ Cardinality(S \cup {j}) = Cardinality(S) + (IF j \in S THEN 0 ELSE 1)
         /\ Cardinality(S \ {j}) = Cardinality(S) - (IF j \in S THEN 1 ELSE 0)
<1>1. Cardinality(S) \in Nat
  BY FS_CardinalityType
<1>2. IsFiniteSet(S \cup {j}) /\ (Cardinality(S \cup {j}) = IF j \in S THEN Cardinality(S) ELSE Cardinality(S) + 1)
  BY FS_AddElement
<1>3. IsFiniteSet(S \ {j}) /\ (Cardinality(S \ {j}) = IF j \in S THEN Cardinality(S) - 1 ELSE Cardinality(S))
  BY FS_RemoveElement
<1>4. Cardinality(S \ {j}) \in Nat
  BY <1>3, FS_CardinalityType
<1> QED
  BY <1>1, <1>2, <1>3, <1>4

\* A step of one run leaves what the others have to do.
LEMMA OneRunMoves ==
  ASSUME RunsShaped, NEW j, DOMAIN run' = DOMAIN run \cup {j},
         \A k \in DOMAIN run \ {j} : run'[k] = run[k], NEW b
  PROVE  /\ Todo(b)' = IF b \in run'[j].todo THEN Todo(b) \cup {j} ELSE Todo(b) \ {j}
         /\ Owing(b)' = IF b \in run'[j].todo \/ (run'[j].pc \in {"reset", "crashed"} /\ run'[j].at = b)
                        THEN Owing(b) \cup {j} ELSE Owing(b) \ {j}
         /\ IsFiniteSet(Todo(b)) /\ IsFiniteSet(Owing(b)) /\ IsFiniteSet(DOMAIN run')
<1>1. IsFiniteSet(DOMAIN run)
  BY DEF RunsShaped
<1>2. IsFiniteSet(Todo(b)) /\ IsFiniteSet(Owing(b))
  BY <1>1, FS_Subset DEF Todo, Owing
<1>3. IsFiniteSet(DOMAIN run')
  BY <1>1, FS_AddElement
<1>4. Todo(b)' = IF b \in run'[j].todo THEN Todo(b) \cup {j} ELSE Todo(b) \ {j}
  BY DEF Todo
<1>5. Owing(b)' = IF b \in run'[j].todo \/ (run'[j].pc \in {"reset", "crashed"} /\ run'[j].at = b)
                  THEN Owing(b) \cup {j} ELSE Owing(b) \ {j}
  BY DEF Owing
<1> QED
  BY <1>2, <1>3, <1>4, <1>5

\* A cancellation or a move counts, and whatever clears the flag does; the other
\* steps of the two handlers leave the flags and numbers alone.
LEMMA ManageCounts ==
  ASSUME RowsReminded, ManageNext
  PROVE  /\ RowsReminded'
         /\ \A b \in Ids : \/ row'[b].seq = row[b].seq /\ row'[b].reminded = row[b].reminded
                           \/ row'[b].seq = row[b].seq + 1
<1> DEFINE Kept == /\ RowsReminded'
                   /\ \A b \in Ids : \/ row'[b].seq = row[b].seq /\ row'[b].reminded = row[b].reminded
                                     \/ row'[b].seq = row[b].seq + 1
<1>1. ASSUME row' = row PROVE Kept
  BY <1>1 DEF RowsReminded
<1>2. ASSUME NEW m \in Ops, CancelRow(m) PROVE Kept
  <2>1. PICK b : b = op[m].id
    OBVIOUS
  <2>2. row' = [row EXCEPT ![b].status = "cancelled", ![b].by = "guest", ![b].seq = row[b].seq + 1]
    BY <1>2, <2>1 DEF CancelRow, NextSeq
  <2>3. /\ DOMAIN row' = Ids /\ \A c \in Ids \ {b} : row'[c] = row[c]
        /\ b \in Ids => row'[b] = [row[b] EXCEPT !.status = "cancelled", !.by = "guest", !.seq = row[b].seq + 1]
    BY <2>2 DEF RowsReminded
  <2>4. b \in Ids => /\ DOMAIN row'[b] = DOMAIN row[b] /\ row'[b].seq = row[b].seq + 1
                     /\ row'[b].reminded = row[b].reminded
    BY <2>3 DEF RowsReminded
  <2> QED
    BY <2>3, <2>4 DEF RowsReminded
<1>3. ASSUME NEW m \in Ops, MoveRow(m) PROVE Kept
  <2>1. PICK b, to : b = op[m].id /\ to = op[m].to
    OBVIOUS
  <2>2. row' = [row EXCEPT ![b].slot = to, ![b].reminded = FALSE, ![b].seq = row[b].seq + 1]
    BY <1>3, <2>1 DEF MoveRow, NextSeq
  <2>3. /\ DOMAIN row' = Ids /\ \A c \in Ids \ {b} : row'[c] = row[c]
        /\ b \in Ids => row'[b] = [row[b] EXCEPT !.slot = to, !.reminded = FALSE, !.seq = row[b].seq + 1]
    BY <2>2 DEF RowsReminded
  <2>4. b \in Ids => /\ DOMAIN row'[b] = DOMAIN row[b] /\ row'[b].seq = row[b].seq + 1
                     /\ row'[b].reminded \in BOOLEAN
    BY <2>3 DEF RowsReminded
  <2> QED
    BY <2>3, <2>4 DEF RowsReminded
<1>4. \/ row' = row
      \/ \E m \in Ops : CancelRow(m) \/ MoveRow(m)
  BY DEF ManageNext, ManageStep, ledgerVars, OpenCancel, OpenReschedule, ReadAndCheckMove, MoveTooLate,
     MoveUnverified, UpdateFindsNothing, MoveRefused, DeleteEvent, PatchEvent, GoogleFails, SendMail, CrashOp
<1> QED
  BY <1>1, <1>2, <1>3, <1>4

\* Cancellations and moves run next to the cron and never break a count.
LEMMA ManageKeepsCounts == RemindInv /\ ManageNext /\ UNCHANGED cronVars => RemindInv'
<1> SUFFICES ASSUME RemindInv, ManageNext, UNCHANGED cronVars PROVE RemindInv'
  OBVIOUS
<1>1. /\ RowsReminded'
      /\ \A b \in Ids : \/ row'[b].seq = row[b].seq /\ row'[b].reminded = row[b].reminded
                        \/ row'[b].seq = row[b].seq + 1
  BY ManageCounts DEF RemindInv
<1>2. run' = run /\ sent' = sent /\ claims' = claims /\ resets' = resets
  BY DEF cronVars
<1>3. ClaimsFlagged'
  BY <1>1, <1>2 DEF RemindInv, ClaimsFlagged, CountsTyped, RowsReminded
<1>4. ClaimsCover' /\ ClaimsOwed'
  BY <1>2 DEF RemindInv, ClaimsCover, ClaimsOwed, Todo, Owing
<1> QED
  BY <1>1, <1>2, <1>3, <1>4 DEF RemindInv, RunsShaped, CountsTyped

\* A run that starts, ends, dies or goes on from an alert keeps what it has to do and
\* what it owes.
LEMMA RunTurns ==
  ASSUME RemindInv, NEW j, DOMAIN run' = DOMAIN run \cup {j},
         \A k \in DOMAIN run \ {j} : run'[k] = run[k],
         row' = row, sent' = sent, claims' = claims, resets' = resets,
         DOMAIN run'[j] = {"pc", "todo", "at"},
         run'[j].pc \in {"claim", "send", "alert", "done", "crashed"},
         run'[j].todo = (IF j \in DOMAIN run THEN run[j].todo ELSE {}),
         run'[j].pc \in {"claim", "done"} => run'[j].todo = {},
         j \in DOMAIN run /\ run[j].pc \in {"reset", "crashed"} => run'[j].pc = "crashed" /\ run'[j].at = run[j].at
  PROVE  RemindInv'
<1>0. RunsShaped /\ RowsReminded /\ CountsTyped
  BY DEF RemindInv
<1>1. RunsShaped'
  <2>1. IsFiniteSet(DOMAIN run')
    BY <1>0, OneRunMoves
  <2> QED
    BY <1>0, <2>1 DEF RunsShaped
<1>2. ASSUME NEW b \in Ids
      PROVE  /\ Cardinality(Todo(b)') = Cardinality(Todo(b))
             /\ Cardinality(Owing(b)') >= Cardinality(Owing(b))
             /\ Cardinality(Owing(b)) \in Nat /\ Cardinality(Owing(b)') \in Nat
  <2>1. /\ Todo(b)' = IF b \in run'[j].todo THEN Todo(b) \cup {j} ELSE Todo(b) \ {j}
        /\ Owing(b)' = IF b \in run'[j].todo \/ (run'[j].pc \in {"reset", "crashed"} /\ run'[j].at = b)
                       THEN Owing(b) \cup {j} ELSE Owing(b) \ {j}
        /\ IsFiniteSet(Todo(b)) /\ IsFiniteSet(Owing(b))
    BY <1>0, OneRunMoves
  <2>2. j \in Todo(b) <=> b \in run'[j].todo
    BY DEF Todo
  <2>3. Todo(b)' = Todo(b)
    BY <2>1, <2>2
  <2>4. Owing(b)' = Owing(b) \cup {j} \/ Owing(b)' = Owing(b)
    BY <2>1 DEF Owing
  <2>5. /\ Cardinality(Owing(b)) \in Nat
        /\ Cardinality(Owing(b) \cup {j}) = Cardinality(Owing(b)) + (IF j \in Owing(b) THEN 0 ELSE 1)
    BY <2>1, OneRun
  <2>6. Cardinality(Todo(b)') = Cardinality(Todo(b))
    BY <2>3
  <2>7. CASE Owing(b)' = Owing(b)
    BY <2>5, <2>6, <2>7
  <2>8. CASE Owing(b)' = Owing(b) \cup {j}
    <3>1. Cardinality(Owing(b)') = Cardinality(Owing(b)) + (IF j \in Owing(b) THEN 0 ELSE 1)
      BY <2>5, <2>8
    <3> QED
      BY <2>5, <2>6, <3>1
  <2> QED
    BY <2>4, <2>7, <2>8
<1>3. ClaimsCover'
  BY <1>2 DEF RemindInv, ClaimsCover
<1>4. ClaimsOwed'
  <2> SUFFICES ASSUME NEW b \in Ids
               PROVE  claims[b] <= sent[b] + resets[b] + Cardinality(Owing(b)')
    BY DEF ClaimsOwed
  <2>1. claims[b] <= sent[b] + resets[b] + Cardinality(Owing(b))
    BY DEF RemindInv, ClaimsOwed
  <2>2. claims[b] \in Nat /\ sent[b] \in Nat /\ resets[b] \in Nat
    BY <1>0 DEF CountsTyped
  <2> QED
    BY <1>2, <2>1, <2>2
<1> QED
  BY <1>0, <1>1, <1>3, <1>4 DEF RemindInv, RowsReminded, CountsTyped, ClaimsFlagged

\* claimDue: a booking that is claimed had no flag, and the run that claims it had
\* nothing to do.
LEMMA ClaimCounts == ASSUME RemindInv, NEW j, ClaimDue(j) PROVE RemindInv'
<1> DEFINE due == {b \in DOMAIN row : Due(b)}
<1>0. RunsShaped /\ RowsReminded /\ CountsTyped /\ ClaimsFlagged /\ ClaimsCover /\ ClaimsOwed
  BY DEF RemindInv
<1>1. PICK mine : mine = due
  OBVIOUS
<1>2. /\ j \in DOMAIN run /\ run[j].pc = "claim" /\ run[j].todo = {}
      /\ row' = [b \in DOMAIN row |-> [row[b] EXCEPT !.reminded = @ \/ b \in mine]]
      /\ claims' = [b \in Ids |-> IF b \in mine THEN claims[b] + 1 ELSE claims[b]]
      /\ run' = [run EXCEPT ![j].pc = "send", ![j].todo = mine]
      /\ sent' = sent /\ resets' = resets
  BY <1>0, <1>1 DEF ClaimDue, Running, RunsShaped
<1>3. mine \subseteq Ids /\ \A b \in mine : ~row[b].reminded
  BY <1>0, <1>1 DEF Due, RowsReminded
<1>4. /\ DOMAIN run' = DOMAIN run \cup {j} /\ \A k \in DOMAIN run \ {j} : run'[k] = run[k]
      /\ DOMAIN run'[j] = {"pc", "todo", "at"}
      /\ run'[j].pc = "send" /\ run'[j].todo = mine /\ run'[j].at = run[j].at
  BY <1>0, <1>2 DEF RunsShaped
<1>5. RunsShaped'
  <2>1. IsFiniteSet(DOMAIN run')
    BY <1>0, <1>4, OneRunMoves
  <2> QED
    BY <1>0, <1>3, <1>4, <2>1 DEF RunsShaped
<1>6. RowsReminded'
  BY <1>0, <1>2 DEF RowsReminded
<1>7. CountsTyped'
  BY <1>0, <1>2 DEF CountsTyped
<1>8. ClaimsFlagged'
  <2> SUFFICES ASSUME NEW b \in Ids
               PROVE  claims'[b] <= resets'[b] + row'[b].seq + (IF row'[b].reminded THEN 1 ELSE 0)
    BY DEF ClaimsFlagged
  <2>1. row'[b].seq = row[b].seq /\ row[b].seq \in Nat /\ claims[b] \in Nat /\ resets[b] \in Nat
    BY <1>0, <1>2 DEF RowsReminded, CountsTyped
  <2>2. row'[b].reminded <=> row[b].reminded \/ b \in mine
    BY <1>0, <1>2 DEF RowsReminded
  <2>3. claims[b] <= resets[b] + row[b].seq + (IF row[b].reminded THEN 1 ELSE 0)
    BY <1>0 DEF ClaimsFlagged
  <2>4. claims'[b] = (IF b \in mine THEN claims[b] + 1 ELSE claims[b]) /\ resets'[b] = resets[b]
    BY <1>2
  <2> QED
    BY <1>3, <2>1, <2>2, <2>3, <2>4
<1>9. ASSUME NEW b \in Ids
      PROVE  /\ sent'[b] + Cardinality(Todo(b)') <= claims'[b]
             /\ claims'[b] <= sent'[b] + resets'[b] + Cardinality(Owing(b)')
  <2>1. /\ Todo(b)' = IF b \in run'[j].todo THEN Todo(b) \cup {j} ELSE Todo(b) \ {j}
        /\ Owing(b)' = IF b \in run'[j].todo \/ (run'[j].pc \in {"reset", "crashed"} /\ run'[j].at = b)
                       THEN Owing(b) \cup {j} ELSE Owing(b) \ {j}
        /\ IsFiniteSet(Todo(b)) /\ IsFiniteSet(Owing(b))
    BY <1>0, <1>4, OneRunMoves
  <2>2. j \notin Todo(b) /\ j \notin Owing(b)
    BY <1>2 DEF Todo, Owing
  <2>3. /\ Cardinality(Todo(b)) \in Nat /\ Cardinality(Owing(b)) \in Nat
        /\ Cardinality(Todo(b)') = Cardinality(Todo(b)) + (IF b \in mine THEN 1 ELSE 0)
        /\ Cardinality(Owing(b)') = Cardinality(Owing(b)) + (IF b \in mine THEN 1 ELSE 0)
    <3>1. /\ Cardinality(Todo(b)) \in Nat /\ Cardinality(Owing(b)) \in Nat
          /\ Cardinality(Todo(b) \cup {j}) = Cardinality(Todo(b)) + 1
          /\ Cardinality(Owing(b) \cup {j}) = Cardinality(Owing(b)) + 1
      BY <2>1, <2>2, OneRun
    <3>2. CASE b \in mine
      <4>1. Todo(b)' = Todo(b) \cup {j} /\ Owing(b)' = Owing(b) \cup {j}
        BY <1>4, <2>1, <3>2
      <4> QED
        BY <3>1, <3>2, <4>1
    <3>3. CASE b \notin mine
      <4>1. Todo(b)' = Todo(b) /\ Owing(b)' = Owing(b)
        BY <1>4, <2>1, <2>2, <3>3
      <4> QED
        BY <3>1, <3>3, <4>1
    <3> QED
      BY <3>2, <3>3
  <2>4. claims[b] \in Nat /\ sent[b] \in Nat /\ resets[b] \in Nat
    BY <1>0 DEF CountsTyped
  <2>5. /\ sent[b] + Cardinality(Todo(b)) <= claims[b]
        /\ claims[b] <= sent[b] + resets[b] + Cardinality(Owing(b))
    BY <1>0 DEF ClaimsCover, ClaimsOwed
  <2>6. claims'[b] = claims[b] + (IF b \in mine THEN 1 ELSE 0)
    BY <1>2, <2>4
  <2> QED
    BY <1>2, <2>3, <2>4, <2>5, <2>6
<1> QED
  BY <1>5, <1>6, <1>7, <1>8, <1>9 DEF RemindInv, ClaimsCover, ClaimsOwed

\* One reminder is tried, delivered or not: the row leaves what is to do, and a mail
\* that was not delivered for certain has its row at hand.
LEMMA SendCounts ==
  ASSUME RemindInv, NEW j, NEW b \in Ids, SendReminder(j, b) \/ SendFails(j, b)
  PROVE  RemindInv'
<1>0. RunsShaped /\ RowsReminded /\ CountsTyped /\ ClaimsFlagged /\ ClaimsCover /\ ClaimsOwed
  BY DEF RemindInv
<1>1. j \in DOMAIN run /\ run[j].pc = "send" /\ b \in run[j].todo
  BY DEF SendReminder, SendFails, Running
<1>2. row' = row /\ claims' = claims /\ resets' = resets
  BY DEF SendReminder, SendFails, ledgerVars
<1>3. /\ DOMAIN run' = DOMAIN run \cup {j} /\ \A k \in DOMAIN run \ {j} : run'[k] = run[k]
      /\ DOMAIN run'[j] = {"pc", "todo", "at"} /\ run'[j].todo = run[j].todo \ {b}
      /\ \/ run'[j].pc = "send" /\ sent' = [sent EXCEPT ![b] = @ + 1]
         \/ /\ run'[j].pc = "reset" /\ run'[j].at = b
            /\ sent' \in {sent, [sent EXCEPT ![b] = @ + 1]}
  <2>1. CASE SendReminder(j, b)
    <3>1. run' = [run EXCEPT ![j].todo = @ \ {b}] /\ sent' = [sent EXCEPT ![b] = @ + 1]
      BY <2>1 DEF SendReminder
    <3> QED
      BY <1>0, <1>1, <3>1 DEF RunsShaped
  <2>2. CASE SendFails(j, b)
    <3>1. /\ run' = [run EXCEPT ![j].pc = "reset", ![j].todo = @ \ {b}, ![j].at = b]
          /\ sent' \in {sent, [sent EXCEPT ![b] = @ + 1]}
      BY <2>2 DEF SendFails
    <3>2. /\ DOMAIN run' = DOMAIN run /\ \A k \in DOMAIN run \ {j} : run'[k] = run[k]
          /\ run'[j] = [run[j] EXCEPT !.pc = "reset", !.todo = run[j].todo \ {b}, !.at = b]
      BY <1>1, <3>1
    <3>3. DOMAIN run[j] = {"pc", "todo", "at"}
      BY <1>0, <1>1 DEF RunsShaped
    <3>4. /\ DOMAIN run'[j] = {"pc", "todo", "at"} /\ run'[j].todo = run[j].todo \ {b}
          /\ run'[j].pc = "reset" /\ run'[j].at = b
      BY <3>2, <3>3
    <3> QED
      BY <1>1, <3>1, <3>2, <3>4
  <2> QED
    BY <2>1, <2>2
<1>4. CountsTyped'
  <2>1. [sent EXCEPT ![b] = @ + 1] \in [Ids -> Nat]
    BY <1>0 DEF CountsTyped
  <2> QED
    BY <1>0, <1>2, <1>3, <2>1 DEF CountsTyped
<1>5. RunsShaped'
  <2>1. IsFiniteSet(DOMAIN run')
    BY <1>0, <1>3, OneRunMoves
  <2>2. run'[j].pc \in {"send", "reset"} /\ run'[j].todo \subseteq Ids
    BY <1>0, <1>1, <1>3 DEF RunsShaped
  <2>3. run'[j].pc = "reset" => run'[j].at \in Ids
    BY <1>3
  <2> QED
    BY <1>0, <1>3, <2>1, <2>2, <2>3 DEF RunsShaped
<1>6. ASSUME NEW c \in Ids
      PROVE  /\ sent'[c] + Cardinality(Todo(c)') <= claims'[c]
             /\ claims'[c] <= sent'[c] + resets'[c] + Cardinality(Owing(c)')
  <2>1. /\ Todo(c)' = IF c \in run'[j].todo THEN Todo(c) \cup {j} ELSE Todo(c) \ {j}
        /\ Owing(c)' = IF c \in run'[j].todo \/ (run'[j].pc \in {"reset", "crashed"} /\ run'[j].at = c)
                       THEN Owing(c) \cup {j} ELSE Owing(c) \ {j}
        /\ IsFiniteSet(Todo(c)) /\ IsFiniteSet(Owing(c))
    BY <1>0, <1>3, OneRunMoves
  <2>2. claims[c] \in Nat /\ sent[c] \in Nat /\ resets[c] \in Nat
    BY <1>0 DEF CountsTyped
  <2>3. /\ sent[c] + Cardinality(Todo(c)) <= claims[c]
        /\ claims[c] <= sent[c] + resets[c] + Cardinality(Owing(c))
    BY <1>0 DEF ClaimsCover, ClaimsOwed
  <2>4. (j \in Todo(c) <=> c \in run[j].todo) /\ (j \in Owing(c) <=> c \in run[j].todo)
    BY <1>1 DEF Todo, Owing
  <2>5. Cardinality(Todo(c)) \in Nat /\ Cardinality(Owing(c)) \in Nat
    BY <2>1, OneRun
  <2>6. CASE c # b
    <3>1. Todo(c)' = Todo(c)
      BY <1>3, <2>1, <2>4, <2>6
    <3>2. Owing(c)' = Owing(c)
      BY <1>3, <2>1, <2>4, <2>6
    <3>3. sent'[c] = sent[c]
      BY <1>0, <1>3, <2>6 DEF CountsTyped
    <3> QED
      BY <1>2, <2>2, <2>3, <3>1, <3>2, <3>3
  <2>7. CASE c = b
    <3>1. Cardinality(Todo(c)') = Cardinality(Todo(c)) - 1
      BY <1>1, <1>3, <2>1, <2>4, <2>7, OneRun
    <3>2. \/ sent'[c] = sent[c] + 1
          \/ sent'[c] = sent[c] /\ run'[j].pc = "reset" /\ run'[j].at = b
      BY <1>0, <1>3, <2>7 DEF CountsTyped
    <3>3. \/ Cardinality(Owing(c)') = Cardinality(Owing(c)) - 1 /\ sent'[c] = sent[c] + 1
          \/ Cardinality(Owing(c)') = Cardinality(Owing(c)) /\ sent'[c] \in {sent[c], sent[c] + 1}
      <4>1. CASE run'[j].pc = "reset"
        <5>1. Owing(c)' = Owing(c)
          BY <1>1, <1>3, <2>1, <2>4, <2>7, <4>1
        <5> QED
          BY <3>2, <5>1
      <4>2. CASE run'[j].pc = "send"
        <5>1. Owing(c)' = Owing(c) \ {j} /\ j \in Owing(c)
          BY <1>1, <1>3, <2>1, <2>4, <2>7, <4>2
        <5>2. Cardinality(Owing(c) \ {j}) = Cardinality(Owing(c)) - 1
          BY <2>1, <5>1, OneRun
        <5> QED
          BY <3>2, <4>2, <5>1, <5>2
      <4> QED
        BY <1>3, <4>1, <4>2
    <3> QED
      BY <1>2, <2>2, <2>3, <2>5, <3>1, <3>2, <3>3
  <2> QED
    BY <2>6, <2>7
<1> QED
  BY <1>0, <1>2, <1>4, <1>5, <1>6 DEF RemindInv, ClaimsCover, ClaimsOwed, ClaimsFlagged, RowsReminded

\* resetClaim: the flag is given back, and the reset accounts for it.
LEMMA ResetCounts == ASSUME RemindInv, NEW j, ResetClaim(j) PROVE RemindInv'
<1>0. RunsShaped /\ RowsReminded /\ CountsTyped /\ ClaimsFlagged /\ ClaimsCover /\ ClaimsOwed
  BY DEF RemindInv
<1>1. PICK b : b = run[j].at
  OBVIOUS
<1>2. /\ j \in DOMAIN run /\ run[j].pc = "reset" /\ b \in Ids
      /\ row' = [row EXCEPT ![b].reminded = FALSE]
      /\ resets' = [resets EXCEPT ![b] = @ + 1]
      /\ run' = [run EXCEPT ![j].pc = "alert"]
      /\ sent' = sent /\ claims' = claims
  BY <1>0, <1>1 DEF ResetClaim, Running, RunsShaped
<1>3. /\ DOMAIN run' = DOMAIN run \cup {j} /\ \A k \in DOMAIN run \ {j} : run'[k] = run[k]
      /\ DOMAIN run'[j] = {"pc", "todo", "at"} /\ run'[j].todo = run[j].todo /\ run'[j].pc = "alert"
  BY <1>0, <1>2 DEF RunsShaped
<1>4. CountsTyped'
  BY <1>0, <1>2 DEF CountsTyped
<1>5. RunsShaped'
  <2>1. IsFiniteSet(DOMAIN run')
    BY <1>0, <1>3, OneRunMoves
  <2>2. run'[j].todo \subseteq Ids
    BY <1>0, <1>2, <1>3 DEF RunsShaped
  <2> QED
    BY <1>0, <1>3, <2>1, <2>2 DEF RunsShaped
<1>6. /\ RowsReminded'
      /\ \A c \in Ids : row'[c].seq = row[c].seq /\ (c # b => row'[c] = row[c])
  <2>1. /\ DOMAIN row' = Ids /\ \A c \in Ids \ {b} : row'[c] = row[c]
        /\ row'[b] = [row[b] EXCEPT !.reminded = FALSE]
    BY <1>0, <1>2 DEF RowsReminded
  <2>2. DOMAIN row'[b] = DOMAIN row[b] /\ row'[b].seq = row[b].seq /\ row'[b].reminded \in BOOLEAN
    BY <1>0, <2>1, <1>2 DEF RowsReminded
  <2> QED
    BY <1>0, <2>1, <2>2 DEF RowsReminded
<1>7. ClaimsFlagged'
  <2> SUFFICES ASSUME NEW c \in Ids
               PROVE  claims'[c] <= resets'[c] + row'[c].seq + (IF row'[c].reminded THEN 1 ELSE 0)
    BY DEF ClaimsFlagged
  <2>1. row'[c].seq = row[c].seq /\ row[c].seq \in Nat /\ claims[c] \in Nat /\ resets[c] \in Nat
    BY <1>0, <1>6 DEF RowsReminded, CountsTyped
  <2>2. claims[c] <= resets[c] + row[c].seq + (IF row[c].reminded THEN 1 ELSE 0)
    BY <1>0 DEF ClaimsFlagged
  <2>3. CASE c = b
    BY <1>0, <1>2, <2>1, <2>2, <2>3 DEF CountsTyped
  <2>4. CASE c # b
    BY <1>0, <1>2, <1>6, <2>1, <2>2, <2>4 DEF CountsTyped
  <2> QED
    BY <2>3, <2>4
<1>8. ASSUME NEW c \in Ids
      PROVE  /\ sent'[c] + Cardinality(Todo(c)') <= claims'[c]
             /\ claims'[c] <= sent'[c] + resets'[c] + Cardinality(Owing(c)')
  <2>1. /\ Todo(c)' = IF c \in run'[j].todo THEN Todo(c) \cup {j} ELSE Todo(c) \ {j}
        /\ Owing(c)' = IF c \in run'[j].todo \/ (run'[j].pc \in {"reset", "crashed"} /\ run'[j].at = c)
                       THEN Owing(c) \cup {j} ELSE Owing(c) \ {j}
        /\ IsFiniteSet(Todo(c)) /\ IsFiniteSet(Owing(c))
    BY <1>0, <1>3, OneRunMoves
  <2>2. claims[c] \in Nat /\ sent[c] \in Nat /\ resets[c] \in Nat
    BY <1>0 DEF CountsTyped
  <2>3. /\ sent[c] + Cardinality(Todo(c)) <= claims[c]
        /\ claims[c] <= sent[c] + resets[c] + Cardinality(Owing(c))
    BY <1>0 DEF ClaimsCover, ClaimsOwed
  <2>4. Cardinality(Todo(c)) \in Nat /\ Cardinality(Owing(c)) \in Nat
    BY <2>1, OneRun
  <2>5. Todo(c)' = Todo(c)
    BY <1>2, <1>3, <2>1 DEF Todo
  <2>6. \/ Owing(c)' = Owing(c) \/ Owing(c)' = Owing(c) \cup {j}
        \/ c = b /\ Owing(c)' = Owing(c) \ {j}
    BY <1>1, <1>2, <1>3, <2>1 DEF Owing
  <2>7. resets'[c] = IF c = b THEN resets[c] + 1 ELSE resets[c]
    BY <1>0, <1>2 DEF CountsTyped
  <2>8. /\ Cardinality(Owing(c)') \in Nat
        /\ Cardinality(Owing(c)') >= Cardinality(Owing(c)) - (IF c = b THEN 1 ELSE 0)
    <3>1. /\ Cardinality(Owing(c) \cup {j}) = Cardinality(Owing(c)) + (IF j \in Owing(c) THEN 0 ELSE 1)
          /\ Cardinality(Owing(c) \ {j}) = Cardinality(Owing(c)) - (IF j \in Owing(c) THEN 1 ELSE 0)
          /\ Cardinality(Owing(c) \ {j}) \in Nat
      BY <2>1, OneRun
    <3>2. CASE Owing(c)' = Owing(c)
      BY <2>4, <3>2
    <3>3. CASE Owing(c)' = Owing(c) \cup {j}
      <4>1. Cardinality(Owing(c)') = Cardinality(Owing(c)) + (IF j \in Owing(c) THEN 0 ELSE 1)
        BY <3>1, <3>3
      <4> QED
        BY <2>4, <4>1
    <3>4. CASE c = b /\ Owing(c)' = Owing(c) \ {j}
      <4>1. /\ Cardinality(Owing(c)') = Cardinality(Owing(c)) - (IF j \in Owing(c) THEN 1 ELSE 0)
            /\ Cardinality(Owing(c)') \in Nat
        BY <3>1, <3>4
      <4> QED
        BY <2>4, <3>4, <4>1
    <3> QED
      BY <2>6, <3>2, <3>3, <3>4
  <2> QED
    BY <1>2, <2>2, <2>3, <2>4, <2>5, <2>7, <2>8
<1> QED
  BY <1>4, <1>5, <1>6, <1>7, <1>8 DEF RemindInv, ClaimsCover, ClaimsOwed

LEMMA RemindStep == RemindInv /\ Next => RemindInv'
<1> SUFFICES ASSUME RemindInv, Next PROVE RemindInv'
  OBVIOUS
<1>0. RunsShaped
  BY DEF RemindInv
<1>1. CASE ManageNext /\ UNCHANGED cronVars
  BY <1>1, ManageKeepsCounts
<1>2. CASE Tick /\ UNCHANGED <<op, cronVars>>
  BY <1>2 DEF Tick, cronVars, RemindInv, RowsReminded, RunsShaped, CountsTyped, ClaimsFlagged, ClaimsCover,
     ClaimsOwed, Todo, Owing
<1>3. ASSUME NEW j \in Runs, Start(j) PROVE RemindInv'
  <2>1. /\ j \notin DOMAIN run
        /\ DOMAIN run' = DOMAIN run \cup {j} /\ \A k \in DOMAIN run \ {j} : run'[k] = run[k]
        /\ run'[j] = [pc |-> "claim", todo |-> {}, at |-> NoSession]
    BY <1>3 DEF Start, Put
  <2>2. row' = row /\ sent' = sent /\ claims' = claims /\ resets' = resets
    BY <1>3 DEF Start, ledgerVars
  <2>3. /\ DOMAIN run'[j] = {"pc", "todo", "at"} /\ run'[j].pc = "claim" /\ run'[j].todo = {}
    BY <2>1
  <2> QED
    BY <2>1, <2>2, <2>3, RunTurns
<1>4. ASSUME NEW j \in Runs, RaiseAlert(j) \/ EndRun(j) \/ RunCrash(j) PROVE RemindInv'
  <2>1. /\ j \in DOMAIN run
        /\ DOMAIN run' = DOMAIN run \cup {j} /\ \A k \in DOMAIN run \ {j} : run'[k] = run[k]
        /\ DOMAIN run'[j] = {"pc", "todo", "at"} /\ run'[j].todo = run[j].todo
        /\ \/ run[j].pc = "alert" /\ run'[j].pc = "send"
           \/ run[j].pc = "send" /\ run'[j].pc = "done" /\ run[j].todo = {}
           \/ run[j].pc # "crashed" /\ run'[j].pc = "crashed" /\ run'[j].at = run[j].at
    <3>1. CASE RaiseAlert(j)
      BY <1>0, <3>1 DEF RaiseAlert, Running, RunsShaped
    <3>2. CASE EndRun(j)
      BY <1>0, <3>2 DEF EndRun, Running, RunsShaped
    <3>3. CASE RunCrash(j)
      BY <1>0, <3>3 DEF RunCrash, RunsShaped
    <3> QED
      BY <1>4, <3>1, <3>2, <3>3
  <2>2. row' = row /\ sent' = sent /\ claims' = claims /\ resets' = resets
    BY <1>4 DEF RaiseAlert, EndRun, RunCrash, ledgerVars
  <2> QED
    BY <2>1, <2>2, RunTurns
<1>5. ASSUME NEW j \in Runs, ClaimDue(j) \/ ResetClaim(j) \/ \E b \in Ids : SendReminder(j, b) \/ SendFails(j, b)
      PROVE  RemindInv'
  BY <1>5, ClaimCounts, ResetCounts, SendCounts
<1> QED
  BY <1>1, <1>2, <1>3, <1>4, <1>5 DEF Next, RunStep

LEMMA RemindStart == Init => RemindInv
<1> SUFFICES ASSUME Init PROVE RemindInv
  OBVIOUS
<1>1. PICK at \in [Ids -> Interval], key \in [Ids -> Keys] :
        row = [b \in Ids |-> [NewRow(at[b], key[b], NoSession) EXCEPT !.linked = TRUE]]
  BY DEF Init
<1>2. RowsReminded
  BY <1>1 DEF RowsReminded, NewRow
<1>3. \A b \in Ids : row[b].seq = 0
  BY <1>1 DEF NewRow
<1>4. DOMAIN run = {} /\ IsFiniteSet(DOMAIN run)
  BY FS_EmptySet DEF Init
<1>5. \A b : Todo(b) = {} /\ Owing(b) = {}
  BY <1>4 DEF Todo, Owing
<1>6. /\ sent = [b \in Ids |-> 0] /\ claims = [b \in Ids |-> 0] /\ resets = [b \in Ids |-> 0]
  BY DEF Init
<1>7. RunsShaped /\ CountsTyped
  BY <1>4, <1>6 DEF RunsShaped, CountsTyped
<1>8. ClaimsFlagged
  BY <1>2, <1>3, <1>6 DEF ClaimsFlagged, RowsReminded
<1>9. Cardinality({}) = 0
  BY FS_EmptySet
<1>10. ClaimsCover
  <2> SUFFICES ASSUME NEW b \in Ids PROVE sent[b] + Cardinality(Todo(b)) <= claims[b]
    BY DEF ClaimsCover
  <2>1. Cardinality(Todo(b)) = 0
    BY <1>5, <1>9
  <2> QED
    BY <1>6, <2>1
<1>11. ClaimsOwed
  <2> SUFFICES ASSUME NEW b \in Ids PROVE claims[b] <= sent[b] + resets[b] + Cardinality(Owing(b))
    BY DEF ClaimsOwed
  <2>1. Cardinality(Owing(b)) = 0
    BY <1>5, <1>9
  <2> QED
    BY <1>6, <2>1
<1> QED
  BY <1>2, <1>7, <1>8, <1>10, <1>11 DEF RemindInv

\* However many runs of the cron overlap each other and the guests' moves and
\* cancellations, and wherever they die: every reminder sent was claimed, a second
\* claim is accounted for by a reset or a move, and runs that end owe nothing.
THEOREM RemindersAreCounted == Spec => []OneReminderPerClaim
<1>1. RemindInv /\ [Next]_vars => RemindInv'
  <2> SUFFICES ASSUME RemindInv, UNCHANGED vars PROVE RemindInv'
    BY RemindStep
  <2> QED
    BY DEF vars, RemindInv, RowsReminded, RunsShaped, CountsTyped, ClaimsFlagged, ClaimsCover,
       ClaimsOwed, Todo, Owing
<1>2. RemindInv => OneReminderPerClaim
  <2> SUFFICES ASSUME RemindInv, NEW b \in Ids
               PROVE  /\ sent[b] <= claims[b]
                      /\ claims[b] <= 1 + resets[b] + row[b].seq
                      /\ (\A j \in DOMAIN run : run[j].pc = "done") => claims[b] <= sent[b] + resets[b]
    BY DEF OneReminderPerClaim, RemindersAccountedFor, NoReminderDropped
  <2>1. /\ claims[b] \in Nat /\ sent[b] \in Nat /\ resets[b] \in Nat /\ row[b].seq \in Nat
        /\ claims[b] <= resets[b] + row[b].seq + (IF row[b].reminded THEN 1 ELSE 0)
        /\ sent[b] + Cardinality(Todo(b)) <= claims[b]
        /\ claims[b] <= sent[b] + resets[b] + Cardinality(Owing(b))
    BY DEF RemindInv, CountsTyped, RowsReminded, ClaimsFlagged, ClaimsCover, ClaimsOwed
  <2>2. Cardinality(Todo(b)) \in Nat
    <3>1. IsFiniteSet(Todo(b))
      BY FS_Subset DEF Todo, RemindInv, RunsShaped
    <3> QED
      BY <3>1, FS_CardinalityType
  <2>3. (\A j \in DOMAIN run : run[j].pc = "done") => Cardinality(Owing(b)) = 0
    <3> SUFFICES ASSUME \A j \in DOMAIN run : run[j].pc = "done" PROVE Cardinality(Owing(b)) = 0
      OBVIOUS
    <3>1. Owing(b) = {}
      BY DEF Owing, RemindInv, RunsShaped
    <3> QED
      BY <3>1, FS_EmptySet
  <2> QED
    BY <2>1, <2>2, <2>3
<1> QED
  BY <1>1, <1>2, RemindStart, PTL DEF Spec
-----------------------------------------------------------------------------
(* The tabs of the guest's page *)

BookingShaped ==
  /\ DOMAIN booking = {"confirmed", "at", "was"}
  /\ booking.confirmed \in BOOLEAN /\ booking.at \in Nat /\ passed \in Nat
  /\ booking.at \in booking.was

TabFields ==
  {"state", "mode", "shown", "made", "waits", "heard", "pending", "error", "refused", "nonce", "asking", "times"}

\* A page waits for one call, with the question or the time on show it was made about.
PageShaped(p) ==
  /\ DOMAIN p = TabFields
  /\ p.made \in Nat /\ (p.state = "closed" => p.made = 0)
  /\ p.waits \in {Unfilled, {p.made}}
  /\ p.pending = Unfilled \/ \E t \in CallTimes : p.pending = {t}
  /\ Waiting(p) => p.mode = "confirm-cancel" \/ (p.mode = "reschedule" /\ p.pending # Unfilled)
  /\ p.heard \subseteq {"cancelled", "not_cancelled", "moved", "slot_taken", "not_manageable"}
  /\ p.heard # Unfilled => Waiting(p)
  /\ \A a \in p.times : a.free \subseteq CallTimes

\* The key of a request for times is the number of refusals heard of.
KeysRefused(p) ==
  p.nonce = p.refused /\ \A a \in p.asking \cup p.times : a.since = a.key

\* What a page says, and what it has heard and will say next.
PageTrue(p) ==
  /\ p.mode = "cancelled" \/ "cancelled" \in p.heard => ~booking.confirmed
  /\ p.state = "past" => booking.confirmed /\ booking.at <= passed
  /\ p.error = "closed" \/ "not_manageable" \in p.heard => ~BookingManageable
  /\ p.state # "closed" => p.shown \in booking.was
  /\ "moved" \in p.heard => p.pending # Unfilled /\ p.pending \subseteq booking.was

PageOk(p) == PageShaped(p) /\ KeysRefused(p) /\ PageTrue(p)

\* A call on its way whose page still waits for it asks for the time on show.
PostedShaped ==
  \A c \in posted :
    /\ c.by \in LinkTabs /\ c.number \in Nat /\ c.number <= tabs[c.by].made
    /\ c.move \subseteq CallTimes
    /\ c.number \in tabs[c.by].waits /\ c.move # Unfilled => c.move = tabs[c.by].pending

TabsInv ==
  /\ BookingShaped /\ PostedShaped
  /\ DOMAIN tabs = LinkTabs /\ \A g \in LinkTabs : PageOk(tabs[g])

\* The first time there is.
LEMMA FirstTime == Min(CallTimes) \in CallTimes
<1>1. CallTimes \subseteq Nat /\ CallTimes # {}
  BY ManagePageAssumption
<1>2. PICK x \in CallTimes : \A y \in CallTimes : <<y, x>> \notin OpToRel(<, Nat)
  BY <1>1, NatLessThanWellFounded, WFMin
<1>3. \A y \in CallTimes : x <= y
  <2> SUFFICES ASSUME NEW y \in CallTimes, y < x PROVE FALSE
    BY <1>1
  <2>1. <<y, x>> \in Nat \X Nat
    BY <1>1
  <2> QED
    BY <1>2, <2>1 DEF OpToRel
<1> QED
  BY <1>2, <1>3 DEF Min

LEMMA TabsStart == TabsInit => TabsInv
<1> SUFFICES ASSUME TabsInit PROVE TabsInv
  OBVIOUS
<1>1. booking = [confirmed |-> TRUE, at |-> Min(CallTimes), was |-> {Min(CallTimes)}] /\ passed = 0
  BY DEF TabsInit
<1>2. BookingShaped
  BY <1>1, FirstTime, ManagePageAssumption DEF BookingShaped
<1>3. DOMAIN tabs = LinkTabs /\ \A g \in LinkTabs : tabs[g] = ClosedTab
  BY DEF TabsInit
<1>4. PageShaped(ClosedTab)
  BY DEF PageShaped, ClosedTab, TabFields, Waiting, Unfilled
<1>5. KeysRefused(ClosedTab) /\ PageTrue(ClosedTab)
  BY DEF KeysRefused, PageTrue, ClosedTab, Unfilled
<1> QED
  BY <1>2, <1>3, <1>4, <1>5 DEF TabsInv, PageOk, PostedShaped, TabsInit

\* A page's state with its request for times, as TabRenders leaves it.
LEMMA Rendered ==
  ASSUME TabsInv, NEW g \in LinkTabs, NEW p, PageOk(p), TabRenders(g, p)
  PROVE  /\ DOMAIN tabs' = LinkTabs /\ \A h \in LinkTabs \ {g} : tabs'[h] = tabs[h]
         /\ PageOk(tabs'[g])
         /\ tabs'[g].made = p.made /\ tabs'[g].waits = p.waits /\ tabs'[g].pending = p.pending
<1>1. PICK asks : /\ tabs' = [tabs EXCEPT ![g] = [p EXCEPT !.asking = asks]]
                  /\ asks = IF AvailKey(p) = AvailKey(tabs[g]) THEN p.asking
                            ELSE {[key |-> k, since |-> p.refused] : k \in AvailKey(p)}
  BY DEF TabRenders
<1>2. DOMAIN tabs' = LinkTabs /\ (\A h \in LinkTabs \ {g} : tabs'[h] = tabs[h])
      /\ tabs'[g] = [p EXCEPT !.asking = asks]
  BY <1>1 DEF TabsInv
<1>3. DOMAIN p = TabFields
  BY DEF PageOk, PageShaped
<1>4. \A a \in asks : a.since = a.key
  BY <1>1 DEF PageOk, KeysRefused, AvailKey, Unfilled
<1>5. PICK q : q = [p EXCEPT !.asking = asks]
  OBVIOUS
<1>6. /\ DOMAIN q = TabFields /\ q.asking = asks
      /\ q.state = p.state /\ q.mode = p.mode /\ q.shown = p.shown /\ q.made = p.made /\ q.waits = p.waits
      /\ q.heard = p.heard /\ q.pending = p.pending /\ q.error = p.error /\ q.refused = p.refused
      /\ q.nonce = p.nonce /\ q.times = p.times
  BY <1>3, <1>5 DEF TabFields
<1>7. PageShaped(q)
  BY <1>6 DEF PageOk, PageShaped, Waiting
<1>8. KeysRefused(q)
  BY <1>4, <1>6 DEF PageOk, KeysRefused
<1>9. PageTrue(q)
  BY <1>6 DEF PageOk, PageTrue
<1> QED
  BY <1>2, <1>5, <1>6, <1>7, <1>8, <1>9 DEF PageOk

\* A step of one page: nothing is posted, and while it goes on waiting it shows the
\* time it waits for.
LEMMA PageTurns ==
  ASSUME TabsInv, NEW g \in LinkTabs, UNCHANGED <<booking, passed, posted>>,
         DOMAIN tabs' = LinkTabs, \A h \in LinkTabs \ {g} : tabs'[h] = tabs[h],
         PageOk(tabs'[g]), tabs'[g].made = tabs[g].made, tabs'[g].waits \subseteq tabs[g].waits,
         tabs'[g].waits # Unfilled => tabs'[g].pending = tabs[g].pending
  PROVE  TabsInv'
<1>1. BookingShaped'
  BY DEF TabsInv, BookingShaped
<1>2. ASSUME NEW h \in LinkTabs PROVE PageOk(tabs[h])'
  <2>1. PageOk(tabs'[h])
    BY DEF TabsInv
  <2>2. PICK p : p = tabs'[h]
    OBVIOUS
  <2>3. PageOk(p)'
    BY <2>1, <2>2 DEF PageOk, PageShaped, KeysRefused, PageTrue, BookingManageable, Waiting
  <2> QED
    BY <2>2, <2>3 DEF PageOk, PageShaped, KeysRefused, PageTrue, BookingManageable, Waiting
<1>3. PostedShaped'
  BY DEF TabsInv, PostedShaped, Unfilled
<1> QED
  BY <1>1, <1>2, <1>3 DEF TabsInv

\* The buttons: none that changes what is asked for can be pressed while a call is
\* awaited.
LEMMA PressTells ==
  ASSUME TabsInv, NEW g \in LinkTabs, Press(g)
  PROVE  TabsInv'
<1>1. PICK p : p = tabs[g]
  OBVIOUS
<1>2. PageOk(p) /\ DOMAIN p = TabFields
  BY <1>1 DEF TabsInv, PageOk, PageShaped
<1>3. UNCHANGED <<booking, passed, posted>>
  BY DEF Press
<1>4. ~Waiting(p)
  BY <1>1, <1>2 DEF Press, Pressed, PageOk, PageShaped
<1>5. p.waits = Unfilled /\ p.heard = Unfilled
  BY <1>2, <1>4 DEF Waiting, PageOk, PageShaped
<1>6. \E q : /\ PageOk(q) /\ TabRenders(g, q) /\ q.made = p.made /\ q.waits = Unfilled
  <2> DEFINE Goal == \E q : /\ PageOk(q) /\ TabRenders(g, q) /\ q.made = p.made /\ q.waits = Unfilled
  <2>1. ASSUME NEW mode \in {"summary", "reschedule", "confirm-cancel"}, NEW error \in {"none", p.error},
               TabRenders(g, [p EXCEPT !.error = error, !.mode = mode])
        PROVE  Goal
    <3>1. PICK q : q = [p EXCEPT !.error = error, !.mode = mode]
      OBVIOUS
    <3>2. /\ DOMAIN q = TabFields /\ q.mode = mode /\ q.error = error
          /\ q.asking = p.asking /\ q.state = p.state /\ q.shown = p.shown /\ q.made = p.made
          /\ q.waits = p.waits /\ q.heard = p.heard /\ q.pending = p.pending /\ q.refused = p.refused
          /\ q.nonce = p.nonce /\ q.times = p.times
      BY <1>2, <3>1 DEF TabFields
    <3>3. PageShaped(q)
      BY <1>2, <1>5, <3>2 DEF PageOk, PageShaped, Waiting
    <3>4. KeysRefused(q) /\ PageTrue(q)
      BY <1>2, <1>5, <3>2 DEF PageOk, KeysRefused, PageTrue, Unfilled
    <3> QED
      BY <1>5, <2>1, <3>1, <3>2, <3>3, <3>4 DEF PageOk
  <2>2. ASSUME NEW pending, pending = Unfilled \/ \E t \in CallTimes : pending = {t},
               TabRenders(g, [p EXCEPT !.pending = pending])
        PROVE  Goal
    <3>1. PICK q : q = [p EXCEPT !.pending = pending]
      OBVIOUS
    <3>2. /\ DOMAIN q = TabFields /\ q.mode = p.mode /\ q.error = p.error
          /\ q.asking = p.asking /\ q.state = p.state /\ q.shown = p.shown /\ q.made = p.made
          /\ q.waits = p.waits /\ q.heard = p.heard /\ q.pending = pending /\ q.refused = p.refused
          /\ q.nonce = p.nonce /\ q.times = p.times
      BY <1>2, <3>1 DEF TabFields
    <3>3. PageShaped(q)
      BY <1>2, <1>5, <2>2, <3>2 DEF PageOk, PageShaped, Waiting
    <3>4. KeysRefused(q) /\ PageTrue(q)
      BY <1>2, <1>5, <3>2 DEF PageOk, KeysRefused, PageTrue, Unfilled
    <3> QED
      BY <1>5, <2>2, <3>1, <3>2, <3>3, <3>4 DEF PageOk
  <2>3. CASE TabRenders(g, [[p EXCEPT !.error = "none"] EXCEPT !.mode = "reschedule"])
    <3>1. [[p EXCEPT !.error = "none"] EXCEPT !.mode = "reschedule"] = [p EXCEPT !.error = "none", !.mode = "reschedule"]
      OBVIOUS
    <3> QED
      BY <2>1, <2>3, <3>1
  <2>4. CASE TabRenders(g, [[p EXCEPT !.error = "none"] EXCEPT !.mode = "confirm-cancel"])
    <3>1. [[p EXCEPT !.error = "none"] EXCEPT !.mode = "confirm-cancel"]
            = [p EXCEPT !.error = "none", !.mode = "confirm-cancel"]
      OBVIOUS
    <3> QED
      BY <2>1, <2>4, <3>1
  <2>5. CASE TabRenders(g, [p EXCEPT !.mode = "summary"])
    <3>1. [p EXCEPT !.mode = "summary"] = [p EXCEPT !.error = p.error, !.mode = "summary"]
      BY <1>2 DEF TabFields
    <3> QED
      BY <2>1, <2>5, <3>1
  <2>6. CASE TabRenders(g, [p EXCEPT !.mode = "summary", !.error = "none"])
    <3>1. [p EXCEPT !.mode = "summary", !.error = "none"] = [p EXCEPT !.error = "none", !.mode = "summary"]
      BY <1>2 DEF TabFields
    <3> QED
      BY <2>1, <2>6, <3>1
  <2>7. CASE TabRenders(g, [p EXCEPT !.pending = Unfilled])
    BY <2>2, <2>7
  <2>8. CASE \E a \in OnShow(p) : \E t \in a.free : TabRenders(g, [p EXCEPT !.pending = {t}])
    <3>1. \A a \in OnShow(p) : a.free \subseteq CallTimes
      BY <1>2 DEF OnShow, PageOk, PageShaped
    <3> QED
      BY <2>2, <2>8, <3>1
  <2> QED
    BY <1>1, <2>3, <2>4, <2>5, <2>6, <2>7, <2>8 DEF Press, Pressed
<1>7. PICK q : PageOk(q) /\ TabRenders(g, q) /\ q.made = p.made /\ q.waits = Unfilled
  BY <1>6
<1>8. /\ DOMAIN tabs' = LinkTabs /\ \A h \in LinkTabs \ {g} : tabs'[h] = tabs[h]
      /\ PageOk(tabs'[g]) /\ tabs'[g].made = tabs[g].made /\ tabs'[g].waits = Unfilled
  BY <1>1, <1>7, Rendered
<1> QED
  BY <1>3, <1>8, PageTurns DEF Unfilled

\* The page is opened, and says what it read.
LEMMA OpenTells ==
  ASSUME TabsInv, NEW g \in LinkTabs, OpenTab(g)
  PROVE  TabsInv'
<1>1. PICK q : q = OpenedTab
  OBVIOUS
<1>2. /\ DOMAIN tabs' = LinkTabs /\ \A h \in LinkTabs \ {g} : tabs'[h] = tabs[h]
      /\ tabs'[g] = q /\ UNCHANGED <<booking, passed, posted>>
  BY <1>1 DEF OpenTab, TabsInv
<1>3. /\ DOMAIN q = TabFields /\ q.state = PageState /\ q.shown = booking.at
      /\ q.mode = (IF booking.confirmed THEN "summary" ELSE "cancelled")
      /\ q.made = 0 /\ q.waits = Unfilled /\ q.heard = Unfilled /\ q.pending = Unfilled
      /\ q.error = "none" /\ q.refused = 0 /\ q.nonce = 0 /\ q.asking = Unfilled /\ q.times = Unfilled
  BY <1>1 DEF OpenedTab, ClosedTab, TabFields
<1>4. PageShaped(q)
  BY <1>3 DEF PageShaped, Waiting, Unfilled
<1>5. KeysRefused(q)
  BY <1>3 DEF KeysRefused, Unfilled
<1>6. PageTrue(q)
  BY <1>3 DEF PageTrue, PageState, BookingManageable, Unfilled, TabsInv, BookingShaped
<1>7. BookingShaped'
  BY <1>2 DEF TabsInv, BookingShaped
<1>8. ASSUME NEW h \in LinkTabs PROVE PageOk(tabs[h])'
  <2>1. PICK p : p = tabs'[h]
    OBVIOUS
  <2>2. PageOk(p)
    BY <1>2, <1>4, <1>5, <1>6, <2>1 DEF TabsInv, PageOk
  <2>3. PageOk(p)'
    BY <1>2, <2>2 DEF PageOk, PageShaped, KeysRefused, PageTrue, BookingManageable, Waiting
  <2> QED
    BY <2>1, <2>3 DEF PageOk, PageShaped, KeysRefused, PageTrue, BookingManageable, Waiting
<1>9. PostedShaped'
  <2> SUFFICES ASSUME NEW c \in posted
               PROVE  /\ c.by \in LinkTabs /\ c.number \in Nat /\ c.number <= tabs'[c.by].made
                      /\ c.move \subseteq CallTimes
                      /\ c.number \in tabs'[c.by].waits /\ c.move # Unfilled => c.move = tabs'[c.by].pending
    BY <1>2 DEF PostedShaped
  <2>1. /\ c.by \in LinkTabs /\ c.number \in Nat /\ c.number <= tabs[c.by].made
        /\ c.move \subseteq CallTimes
        /\ c.number \in tabs[c.by].waits /\ c.move # Unfilled => c.move = tabs[c.by].pending
    BY DEF TabsInv, PostedShaped
  <2>2. CASE c.by # g
    BY <1>2, <2>1, <2>2
  <2>3. CASE c.by = g
    <3>1. tabs[g].made = 0 /\ c.number <= 0
      BY <2>1, <2>3 DEF OpenTab, TabsInv, PageOk, PageShaped
    <3> QED
      BY <1>2, <1>3, <2>1, <2>3, <3>1 DEF Unfilled
  <2> QED
    BY <2>2, <2>3
<1> QED
  BY <1>2, <1>7, <1>8, <1>9 DEF TabsInv

\* The times the page asked for come.
LEMMA TimesTell ==
  ASSUME TabsInv, NEW g \in LinkTabs, TimesCome(g)
  PROVE  TabsInv'
<1>1. PICK p : p = tabs[g]
  OBVIOUS
<1>2. PageOk(p) /\ DOMAIN p = TabFields
  BY <1>1 DEF TabsInv, PageOk, PageShaped
<1>3. PICK a \in p.asking :
        tabs' = [tabs EXCEPT ![g].asking = Unfilled,
                             ![g].times = {[key |-> a.key, since |-> a.since,
                                            free |-> {t \in CallTimes : t > passed} \ {booking.at}]}]
  BY <1>1 DEF TimesCome
<1>13. PICK times : times = {[key |-> a.key, since |-> a.since,
                              free |-> {t \in CallTimes : t > passed} \ {booking.at}]}
  OBVIOUS
<1>14. PICK q : q = [p EXCEPT !.asking = Unfilled, !.times = times]
  OBVIOUS
<1>4. /\ DOMAIN tabs' = LinkTabs /\ \A h \in LinkTabs \ {g} : tabs'[h] = tabs[h]
      /\ tabs'[g] = q /\ UNCHANGED <<booking, passed, posted>>
  BY <1>1, <1>3, <1>13, <1>14 DEF TimesCome, TabsInv
<1>5. /\ DOMAIN q = TabFields /\ q.mode = p.mode /\ q.error = p.error /\ q.asking = Unfilled
      /\ q.state = p.state /\ q.shown = p.shown /\ q.made = p.made /\ q.waits = p.waits
      /\ q.heard = p.heard /\ q.pending = p.pending /\ q.refused = p.refused /\ q.nonce = p.nonce
      /\ q.times = times
  BY <1>2, <1>14 DEF TabFields
<1>6. \A b \in times : b.since = b.key /\ b.free \subseteq CallTimes
  BY <1>2, <1>3, <1>13 DEF PageOk, KeysRefused
<1>7. PageShaped(q)
  BY <1>2, <1>5, <1>6 DEF PageOk, PageShaped, Waiting
<1>8. KeysRefused(q) /\ PageTrue(q)
  BY <1>2, <1>5, <1>6 DEF PageOk, KeysRefused, PageTrue, Unfilled
<1> QED
  BY <1>1, <1>4, <1>5, <1>7, <1>8, PageTurns DEF PageOk

\* The page hears the answer, or gives the call up.
LEMMA AnswerTells ==
  ASSUME TabsInv, NEW g \in LinkTabs, Hears(g)
  PROVE  TabsInv'
<1>1. PICK p : p = tabs[g]
  OBVIOUS
<1>2. PageOk(p) /\ DOMAIN p = TabFields
  BY <1>1 DEF TabsInv, PageOk, PageShaped
<1>3. UNCHANGED <<booking, passed, posted>>
  BY DEF Hears
<1>4. CASE Failed(g)
  <2>1. PICK q : q = [p EXCEPT !.waits = Unfilled, !.heard = Unfilled, !.error = "again"]
    OBVIOUS
  <2>2. /\ DOMAIN tabs' = LinkTabs /\ \A h \in LinkTabs \ {g} : tabs'[h] = tabs[h]
        /\ tabs'[g] = q
    BY <1>1, <1>4, <2>1 DEF Failed, TabsInv
  <2>3. /\ DOMAIN q = TabFields /\ q.mode = p.mode /\ q.error = "again" /\ q.asking = p.asking
        /\ q.state = p.state /\ q.shown = p.shown /\ q.made = p.made /\ q.waits = Unfilled
        /\ q.heard = Unfilled /\ q.pending = p.pending /\ q.refused = p.refused /\ q.nonce = p.nonce
        /\ q.times = p.times
    BY <1>2, <2>1 DEF TabFields
  <2>4. PageShaped(q)
    BY <1>2, <2>3 DEF PageOk, PageShaped, Waiting, Unfilled
  <2>5. KeysRefused(q) /\ PageTrue(q)
    BY <1>2, <2>3 DEF PageOk, KeysRefused, PageTrue, Unfilled
  <2> QED
    BY <1>1, <1>3, <2>2, <2>3, <2>4, <2>5, PageTurns DEF PageOk, Unfilled
<1>5. CASE Heard(g)
  <2>1. PICK o : o = [p EXCEPT !.waits = Unfilled, !.heard = Unfilled]
    OBVIOUS
  <2>2. PICK what \in p.heard : TabRenders(g,
          CASE what = "cancelled" -> [o EXCEPT !.mode = "cancelled"]
            [] what = "not_cancelled" -> [o EXCEPT !.error = "again"]
            [] what = "moved" -> [o EXCEPT !.shown = CHOOSE t \in o.pending : TRUE, !.mode = "summary",
                                           !.pending = Unfilled]
            [] what = "slot_taken" -> [o EXCEPT !.pending = Unfilled, !.error = "taken", !.nonce = @ + 1,
                                                !.refused = @ + 1]
            [] what = "not_manageable" -> [o EXCEPT !.error = "closed", !.mode = "summary"])
    BY <1>1, <1>5, <2>1 DEF Heard
  <2>3. /\ DOMAIN o = TabFields /\ o.mode = p.mode /\ o.error = p.error /\ o.asking = p.asking
        /\ o.state = p.state /\ o.shown = p.shown /\ o.made = p.made /\ o.waits = Unfilled
        /\ o.heard = Unfilled /\ o.pending = p.pending /\ o.refused = p.refused /\ o.nonce = p.nonce
        /\ o.times = p.times
    BY <1>2, <2>1 DEF TabFields
  <2>4. what \in {"cancelled", "not_cancelled", "moved", "slot_taken", "not_manageable"}
    BY <1>2 DEF PageOk, PageShaped
  <2>5. PageShaped(o)
    BY <1>2, <2>3 DEF PageOk, PageShaped, Waiting, Unfilled
  <2>6. KeysRefused(o) /\ PageTrue(o)
    BY <1>2, <2>3 DEF PageOk, KeysRefused, PageTrue, Unfilled
  <2>7. \E q : /\ TabRenders(g, q) /\ q.made = p.made /\ q.waits = Unfilled
              /\ PageShaped(q) /\ KeysRefused(q) /\ PageTrue(q)
    <3> DEFINE Goal == \E q : /\ TabRenders(g, q) /\ q.made = p.made /\ q.waits = Unfilled
                             /\ PageShaped(q) /\ KeysRefused(q) /\ PageTrue(q)
    <3>1. ASSUME what = "cancelled" PROVE Goal
      <4>1. PICK q : q = [o EXCEPT !.mode = "cancelled"]
        OBVIOUS
      <4>2. TabRenders(g, q)
        BY <2>2, <3>1, <4>1
      <4>3. /\ DOMAIN q = TabFields /\ q.mode = "cancelled" /\ q.error = o.error /\ q.asking = o.asking
            /\ q.state = o.state /\ q.shown = o.shown /\ q.made = p.made /\ q.waits = Unfilled
            /\ q.heard = Unfilled /\ q.pending = o.pending /\ q.refused = o.refused /\ q.nonce = o.nonce
            /\ q.times = o.times
        BY <2>3, <4>1 DEF TabFields
      <4>4. PageShaped(q) /\ KeysRefused(q)
        BY <2>3, <2>5, <2>6, <4>3 DEF PageShaped, KeysRefused, Waiting, Unfilled
      <4>5. PageTrue(q)
        BY <1>2, <2>2, <2>3, <2>6, <3>1, <4>3 DEF PageOk, PageTrue, Unfilled
      <4> QED
        BY <4>2, <4>3, <4>4, <4>5
    <3>2. ASSUME what = "not_cancelled" PROVE Goal
      <4>1. PICK q : q = [o EXCEPT !.error = "again"]
        OBVIOUS
      <4>2. TabRenders(g, q)
        BY <2>2, <3>2, <4>1
      <4>3. /\ DOMAIN q = TabFields /\ q.mode = o.mode /\ q.error = "again" /\ q.asking = o.asking
            /\ q.state = o.state /\ q.shown = o.shown /\ q.made = p.made /\ q.waits = Unfilled
            /\ q.heard = Unfilled /\ q.pending = o.pending /\ q.refused = o.refused /\ q.nonce = o.nonce
            /\ q.times = o.times
        BY <2>3, <4>1 DEF TabFields
      <4>4. PageShaped(q) /\ KeysRefused(q)
        BY <2>3, <2>5, <2>6, <4>3 DEF PageShaped, KeysRefused, Waiting, Unfilled
      <4>5. PageTrue(q)
        BY <2>3, <2>6, <4>3 DEF PageTrue, Unfilled
      <4> QED
        BY <4>2, <4>3, <4>4, <4>5
    <3>3. ASSUME what = "moved" PROVE Goal
      <4>0. PICK to : to = CHOOSE t \in o.pending : TRUE
        OBVIOUS
      <4>1. PICK q : q = [o EXCEPT !.shown = to, !.mode = "summary", !.pending = Unfilled]
        OBVIOUS
      <4>2. TabRenders(g, q)
        BY <2>2, <3>3, <4>0, <4>1
      <4>3. /\ DOMAIN q = TabFields /\ q.mode = "summary" /\ q.error = o.error /\ q.asking = o.asking
            /\ q.state = o.state /\ q.shown = to /\ q.made = p.made /\ q.waits = Unfilled
            /\ q.heard = Unfilled /\ q.pending = Unfilled /\ q.refused = o.refused /\ q.nonce = o.nonce
            /\ q.times = o.times
        BY <2>3, <4>1 DEF TabFields
      <4>4. PageShaped(q) /\ KeysRefused(q)
        BY <2>3, <2>5, <2>6, <4>3 DEF PageShaped, KeysRefused, Waiting, Unfilled
      <4>5. to \in booking.was
        BY <1>2, <2>2, <2>3, <3>3, <4>0 DEF PageOk, PageTrue, Unfilled
      <4>6. PageTrue(q)
        BY <2>3, <2>6, <4>3, <4>5 DEF PageTrue, Unfilled
      <4> QED
        BY <4>2, <4>3, <4>4, <4>6
    <3>4. ASSUME what = "slot_taken" PROVE Goal
      <4>1. PICK q : q = [o EXCEPT !.pending = Unfilled, !.error = "taken", !.nonce = o.nonce + 1,
                                   !.refused = o.refused + 1]
        OBVIOUS
      <4>2. TabRenders(g, q)
        BY <2>2, <2>3, <3>4, <4>1 DEF TabFields
      <4>3. /\ DOMAIN q = TabFields /\ q.mode = o.mode /\ q.error = "taken" /\ q.asking = o.asking
            /\ q.state = o.state /\ q.shown = o.shown /\ q.made = p.made /\ q.waits = Unfilled
            /\ q.heard = Unfilled /\ q.pending = Unfilled /\ q.refused = o.refused + 1
            /\ q.nonce = o.nonce + 1 /\ q.times = o.times
        BY <2>3, <4>1 DEF TabFields
      <4>4. PageShaped(q) /\ KeysRefused(q)
        BY <2>3, <2>5, <2>6, <4>3 DEF PageShaped, KeysRefused, Waiting, Unfilled
      <4>5. PageTrue(q)
        BY <2>3, <2>6, <4>3 DEF PageTrue, Unfilled
      <4> QED
        BY <4>2, <4>3, <4>4, <4>5
    <3>5. ASSUME what = "not_manageable" PROVE Goal
      <4>1. PICK q : q = [o EXCEPT !.error = "closed", !.mode = "summary"]
        OBVIOUS
      <4>2. TabRenders(g, q)
        BY <2>2, <3>5, <4>1
      <4>3. /\ DOMAIN q = TabFields /\ q.mode = "summary" /\ q.error = "closed" /\ q.asking = o.asking
            /\ q.state = o.state /\ q.shown = o.shown /\ q.made = p.made /\ q.waits = Unfilled
            /\ q.heard = Unfilled /\ q.pending = o.pending /\ q.refused = o.refused /\ q.nonce = o.nonce
            /\ q.times = o.times
        BY <2>3, <4>1 DEF TabFields
      <4>4. PageShaped(q) /\ KeysRefused(q)
        BY <2>3, <2>5, <2>6, <4>3 DEF PageShaped, KeysRefused, Waiting, Unfilled
      <4>5. PageTrue(q)
        BY <1>2, <2>2, <2>3, <2>6, <3>5, <4>3 DEF PageOk, PageTrue, Unfilled
      <4> QED
        BY <4>2, <4>3, <4>4, <4>5
    <3> QED
      BY <2>4, <3>1, <3>2, <3>3, <3>4, <3>5
  <2>8. PICK q : /\ TabRenders(g, q) /\ q.made = p.made /\ q.waits = Unfilled /\ PageOk(q)
    BY <2>7 DEF PageOk
  <2>9. /\ DOMAIN tabs' = LinkTabs /\ \A h \in LinkTabs \ {g} : tabs'[h] = tabs[h]
        /\ PageOk(tabs'[g]) /\ tabs'[g].made = tabs[g].made /\ tabs'[g].waits = Unfilled
    BY <1>1, <2>8, Rendered
  <2> QED
    BY <1>3, <2>9, PageTurns DEF Unfilled
<1> QED
  BY <1>4, <1>5 DEF Hears

\* The page sends a call, its next one, about what it shows.
LEMMA CallTells ==
  ASSUME TabsInv, NEW g \in LinkTabs, DoCancel(g) \/ DoReschedule(g)
  PROVE  TabsInv'
<1>1. PICK p : p = tabs[g]
  OBVIOUS
<1>2. PageOk(p) /\ DOMAIN p = TabFields /\ p.made \in Nat
  BY <1>1 DEF TabsInv, PageOk, PageShaped
<1>3. PICK what : /\ Calls(g, what) /\ p.state = "manageable"
                  /\ \/ what = Unfilled /\ p.mode = "confirm-cancel"
                     \/ what = p.pending /\ p.mode = "reschedule" /\ p.pending # Unfilled
  BY <1>1 DEF DoCancel, DoReschedule, Changing
<1>4. PICK n : n = p.made + 1
  OBVIOUS
<1>5. PICK q : q = [p EXCEPT !.made = n, !.waits = {n}, !.error = "none"]
  OBVIOUS
<1>6. /\ DOMAIN tabs' = LinkTabs /\ \A h \in LinkTabs \ {g} : tabs'[h] = tabs[h]
      /\ tabs'[g] = q /\ UNCHANGED <<booking, passed>> /\ ~Waiting(p)
      /\ posted' = posted \cup {[by |-> g, number |-> n, move |-> what]}
  BY <1>1, <1>3, <1>4, <1>5 DEF Calls, TabsInv
<1>7. /\ DOMAIN q = TabFields /\ q.mode = p.mode /\ q.error = "none" /\ q.asking = p.asking
      /\ q.state = p.state /\ q.shown = p.shown /\ q.made = n /\ q.waits = {n}
      /\ q.heard = p.heard /\ q.pending = p.pending /\ q.refused = p.refused /\ q.nonce = p.nonce
      /\ q.times = p.times
  BY <1>2, <1>5 DEF TabFields
<1>8. p.heard = Unfilled
  BY <1>2, <1>6 DEF PageOk, PageShaped
<1>9. PageShaped(q)
  BY <1>2, <1>3, <1>4, <1>7, <1>8 DEF PageOk, PageShaped, Waiting, Unfilled
<1>10. KeysRefused(q) /\ PageTrue(q)
  BY <1>2, <1>7, <1>8 DEF PageOk, KeysRefused, PageTrue, Unfilled
<1>11. BookingShaped'
  BY <1>6 DEF TabsInv, BookingShaped
<1>12. ASSUME NEW h \in LinkTabs PROVE PageOk(tabs[h])'
  <2>1. PICK r : r = tabs'[h]
    OBVIOUS
  <2>2. PageOk(r)
    BY <1>6, <1>9, <1>10, <2>1 DEF TabsInv, PageOk
  <2>3. PageOk(r)'
    BY <1>6, <2>2 DEF PageOk, PageShaped, KeysRefused, PageTrue, BookingManageable, Waiting
  <2> QED
    BY <2>1, <2>3 DEF PageOk, PageShaped, KeysRefused, PageTrue, BookingManageable, Waiting
<1>13. PostedShaped'
  <2> SUFFICES ASSUME NEW c \in posted'
               PROVE  /\ c.by \in LinkTabs /\ c.number \in Nat /\ c.number <= tabs'[c.by].made
                      /\ c.move \subseteq CallTimes
                      /\ c.number \in tabs'[c.by].waits /\ c.move # Unfilled => c.move = tabs'[c.by].pending
    BY DEF PostedShaped
  <2>1. CASE c = [by |-> g, number |-> n, move |-> what]
    <3>1. c.by = g /\ c.number = n /\ c.move = what
      BY <2>1
    <3>2. what \subseteq CallTimes
      BY <1>2, <1>3 DEF PageOk, PageShaped, Unfilled
    <3> QED
      BY <1>2, <1>3, <1>4, <1>6, <1>7, <3>1, <3>2
  <2>2. CASE c \in posted
    <3>1. /\ c.by \in LinkTabs /\ c.number \in Nat /\ c.number <= tabs[c.by].made
          /\ c.move \subseteq CallTimes
          /\ c.number \in tabs[c.by].waits /\ c.move # Unfilled => c.move = tabs[c.by].pending
      BY <2>2 DEF TabsInv, PostedShaped
    <3>2. CASE c.by # g
      BY <1>6, <3>1, <3>2
    <3>3. CASE c.by = g
      BY <1>1, <1>2, <1>4, <1>6, <1>7, <3>1, <3>3
    <3> QED
      BY <3>2, <3>3
  <2> QED
    BY <1>6, <2>1, <2>2
<1> QED
  BY <1>6, <1>11, <1>12, <1>13 DEF TabsInv

\* What no step of the server or the clock undoes.
BookingMoves ==
  /\ booking.was \subseteq booking'.was
  /\ ~booking.confirmed => ~booking'.confirmed
  /\ ~BookingManageable => ~BookingManageable'
  /\ booking.confirmed /\ booking.at <= passed => booking'.confirmed /\ booking'.at <= passed'

\* And so a page that was right stays right.
LEMMA PageStands ==
  ASSUME BookingMoves, NEW p, PageOk(p)
  PROVE  PageOk(p)'
  BY DEF BookingMoves, PageOk, PageShaped, KeysRefused, PageTrue, Waiting

\* cancelBookingAction and rescheduleBookingAction: what they do to the booking and
\* what they answer.
LEMMA Handled ==
  ASSUME BookingShaped, NEW c, c.move \subseteq CallTimes, CancelAction(c) \/ RescheduleAction(c)
  PROVE  /\ BookingShaped' /\ BookingMoves
         /\ \E what \in {"cancelled", "not_cancelled", "moved", "slot_taken", "not_manageable"} :
              /\ Replies(c, what)
              /\ what = "cancelled" => ~booking'.confirmed
              /\ what = "not_manageable" => ~BookingManageable'
              /\ what = "moved" => \E t \in c.move : t \in booking'.was
<1>1. passed' = passed
  BY DEF CancelAction, RescheduleAction, Replies
<1>2. CASE booking' = booking
  <2>1. BookingShaped' /\ BookingMoves
    BY <1>1, <1>2 DEF BookingShaped, BookingMoves, BookingManageable
  <2>2. \/ ~BookingManageable /\ (Replies(c, "not_cancelled") \/ Replies(c, "not_manageable"))
        \/ Replies(c, "slot_taken")
        \/ \E t \in c.move : t \in booking'.was /\ Replies(c, "moved")
        \/ BookingManageable /\ booking' = [booking EXCEPT !.confirmed = FALSE] /\ Replies(c, "cancelled")
    BY DEF CancelAction, RescheduleAction, BookingShaped
  <2>3. ~BookingManageable => ~BookingManageable'
    BY <2>1 DEF BookingMoves
  <2>4. CASE BookingManageable /\ booking' = [booking EXCEPT !.confirmed = FALSE] /\ Replies(c, "cancelled")
    BY <2>1, <2>4 DEF BookingShaped
  <2> QED
    BY <2>1, <2>2, <2>3, <2>4
<1>3. CASE /\ BookingManageable /\ booking' = [booking EXCEPT !.confirmed = FALSE] /\ Replies(c, "cancelled")
  <2>1. /\ DOMAIN booking' = DOMAIN booking /\ ~booking'.confirmed /\ booking'.confirmed \in BOOLEAN
        /\ booking'.at = booking.at /\ booking'.was = booking.was
    BY <1>3 DEF BookingShaped
  <2>2. BookingShaped' /\ BookingMoves
    BY <1>1, <1>3, <2>1 DEF BookingShaped, BookingMoves, BookingManageable
  <2> QED
    BY <1>3, <2>1, <2>2
<1>4. CASE /\ BookingManageable
           /\ \E t \in c.move : /\ t > passed /\ booking' = [booking EXCEPT !.at = t, !.was = @ \cup {t}]
                              /\ Replies(c, "moved")
  <2>1. PICK t \in c.move : /\ t > passed /\ booking' = [booking EXCEPT !.at = t, !.was = booking.was \cup {t}]
                            /\ Replies(c, "moved")
    BY <1>4
  <2>2. /\ DOMAIN booking' = DOMAIN booking /\ booking'.confirmed = booking.confirmed
        /\ booking'.at = t /\ booking'.was = booking.was \cup {t} /\ t \in Nat
    BY <2>1, ManagePageAssumption DEF BookingShaped
  <2>3. BookingShaped'
    BY <1>1, <2>2 DEF BookingShaped
  <2>4. BookingMoves
    BY <1>1, <1>4, <2>2 DEF BookingShaped, BookingMoves, BookingManageable
  <2> QED
    BY <2>1, <2>2, <2>3, <2>4
<1> QED
  BY <1>2, <1>3, <1>4 DEF CancelAction, RescheduleAction

\* A call is handled, and answered if its page still waits for it.
LEMMA HandleTells ==
  ASSUME TabsInv, Handle
  PROVE  TabsInv'
<1>1. PICK c \in posted : CancelAction(c) \/ RescheduleAction(c)
  BY DEF Handle
<1>2. /\ c.by \in LinkTabs /\ c.number \in Nat /\ c.number <= tabs[c.by].made
      /\ c.move \subseteq CallTimes
      /\ c.number \in tabs[c.by].waits /\ c.move # Unfilled => c.move = tabs[c.by].pending
  BY DEF TabsInv, PostedShaped
<1>3. /\ BookingShaped' /\ BookingMoves
      /\ \E what \in {"cancelled", "not_cancelled", "moved", "slot_taken", "not_manageable"} :
           /\ Replies(c, what)
           /\ what = "cancelled" => ~booking'.confirmed
           /\ what = "not_manageable" => ~BookingManageable'
           /\ what = "moved" => \E t \in c.move : t \in booking'.was
  BY <1>1, <1>2, Handled DEF TabsInv
<1>4. PICK what \in {"cancelled", "not_cancelled", "moved", "slot_taken", "not_manageable"} :
        /\ Replies(c, what)
        /\ what = "cancelled" => ~booking'.confirmed
        /\ what = "not_manageable" => ~BookingManageable'
        /\ what = "moved" => \E t \in c.move : t \in booking'.was
  BY <1>3
<1>5. PICK p, g : p = tabs[c.by] /\ g = c.by
  OBVIOUS
<1>6. PICK heard : heard = IF c.number \in p.waits THEN {what} ELSE p.heard
  OBVIOUS
<1>7. PICK q : q = [p EXCEPT !.heard = heard]
  OBVIOUS
<1>8. PageOk(p) /\ DOMAIN p = TabFields
  BY <1>2, <1>5 DEF TabsInv, PageOk, PageShaped
<1>9. /\ DOMAIN tabs' = LinkTabs /\ \A h \in LinkTabs \ {g} : tabs'[h] = tabs[h]
      /\ tabs'[g] = q /\ posted' = posted \ {c}
  BY <1>2, <1>4, <1>5, <1>6, <1>7 DEF Replies, TabsInv
<1>10. /\ DOMAIN q = TabFields /\ q.mode = p.mode /\ q.error = p.error /\ q.asking = p.asking
       /\ q.state = p.state /\ q.shown = p.shown /\ q.made = p.made /\ q.waits = p.waits
       /\ q.heard = heard /\ q.pending = p.pending /\ q.refused = p.refused /\ q.nonce = p.nonce
       /\ q.times = p.times
  BY <1>7, <1>8 DEF TabFields
<1>11. PageOk(p)'
  BY <1>3, <1>8, PageStands
<1>12. PageShaped(q)
  BY <1>6, <1>8, <1>10 DEF PageOk, PageShaped, Waiting, Unfilled
<1>13. KeysRefused(q)
  BY <1>8, <1>10 DEF PageOk, KeysRefused
<1>14. PageTrue(q)'
  <2>1. CASE heard = p.heard
    BY <1>10, <1>11, <2>1 DEF PageOk, PageTrue
  <2>2. CASE heard = {what} /\ c.number \in p.waits
    <3>1. what = "moved" => p.pending # Unfilled /\ p.pending \subseteq booking'.was
      <4> SUFFICES ASSUME what = "moved" PROVE p.pending # Unfilled /\ p.pending \subseteq booking'.was
        OBVIOUS
      <4>1. PICK t \in c.move : t \in booking'.was
        BY <1>4
      <4>2. c.move = p.pending
        BY <1>2, <1>5, <2>2, <4>1 DEF Unfilled
      <4>3. p.pending = {t}
        BY <1>8, <4>1, <4>2 DEF PageOk, PageShaped, Unfilled
      <4> QED
        BY <4>1, <4>3 DEF Unfilled
    <3> QED
      BY <1>4, <1>10, <1>11, <2>2, <3>1 DEF PageOk, PageTrue
  <2> QED
    BY <1>6, <2>1, <2>2
<1>15. ASSUME NEW h \in LinkTabs PROVE PageOk(tabs[h])'
  <2>1. CASE h = g
    BY <1>9, <1>12, <1>13, <1>14, <2>1 DEF PageOk, PageShaped, KeysRefused, PageTrue, BookingManageable, Waiting
  <2>2. CASE h # g
    <3>1. PICK r : r = tabs[h]
      OBVIOUS
    <3>2. PageOk(r)'
      BY <1>3, <3>1, PageStands DEF TabsInv
    <3> QED
      BY <1>9, <2>2, <3>1, <3>2 DEF PageOk, PageShaped, KeysRefused, PageTrue, BookingManageable, Waiting
  <2> QED
    BY <2>1, <2>2
<1>16. PostedShaped'
  <2>1. \A h \in LinkTabs : /\ tabs'[h].made = tabs[h].made /\ tabs'[h].waits = tabs[h].waits
                           /\ tabs'[h].pending = tabs[h].pending
    BY <1>5, <1>9, <1>10
  <2> QED
    BY <1>9, <2>1 DEF TabsInv, PostedShaped
<1> QED
  BY <1>3, <1>9, <1>15, <1>16 DEF TabsInv

\* Time goes by.
LEMMA TimeTells == TabsInv /\ TimeGoes => TabsInv'
<1> SUFFICES ASSUME TabsInv, TimeGoes PROVE TabsInv'
  OBVIOUS
<1>1. UNCHANGED <<booking, tabs, posted>> /\ passed' = passed + 1
  BY DEF TimeGoes
<1>2. BookingShaped' /\ BookingMoves
  BY <1>1 DEF TabsInv, BookingShaped, BookingMoves, BookingManageable
<1>3. ASSUME NEW h \in LinkTabs PROVE PageOk(tabs[h])'
  <2>1. PICK r : r = tabs[h]
    OBVIOUS
  <2>2. PageOk(r)'
    BY <1>2, <2>1, PageStands DEF TabsInv
  <2> QED
    BY <1>1, <2>1, <2>2 DEF PageOk, PageShaped, KeysRefused, PageTrue, BookingManageable, Waiting
<1> QED
  BY <1>1, <1>2, <1>3 DEF TabsInv, PostedShaped

\* What a page says is true, whatever the other tabs, late calls and the clock do.
THEOREM PagesTellTheTruth == TabsSpec => []TabsTellTheTruth
<1>1. TabsInv /\ [TabsNext]_manageVars => TabsInv'
  <2> SUFFICES ASSUME TabsInv, [TabsNext]_manageVars PROVE TabsInv'
    OBVIOUS
  <2>1. CASE UNCHANGED manageVars
    BY <2>1 DEF manageVars, TabsInv, BookingShaped, PostedShaped, PageOk, PageShaped, KeysRefused, PageTrue,
       BookingManageable, Waiting
  <2> QED
    BY <2>1, OpenTells, PressTells, TimesTell, CallTells, AnswerTells, HandleTells, TimeTells DEF TabsNext
<1>2. TabsInv => TabsTellTheTruth
  BY DEF TabsInv, PageOk, PageTrue, KeysRefused, TabsTellTheTruth, OnShow, AvailKey, Unfilled
<1> QED
  BY <1>1, <1>2, TabsStart, PTL DEF TabsSpec
-----------------------------------------------------------------------------
(* The templates *)

Save ==
  [at : {"update", "insert", "retry", "answered"}, todo : Seq(TemplateScopes), to : SUBSET TemplateScopes,
   kind : {"save", "apply"}, after : SUBSET Nat]

EditorShaped(e) ==
  /\ DOMAIN e = {"scope", "rows", "picked", "sure", "busy"}
  /\ e.scope \in TemplateScopes /\ e.picked \in Seq(Brands)
  /\ e.sure => e.picked # <<>>

TemplatesTyped ==
  /\ template \in [TemplateScopes -> Nat]
  /\ saving \in Seq(Save)
  /\ DOMAIN editor = Leads /\ \A l \in Leads : EditorShaped(editor[l])

\* A save that is not answered has a scope to write; whatever it wrote stands, or was
\* replaced by a save that was not answered yet when it was sent.
SaveStands(n) ==
  /\ saving[n].at = "answered" <=> saving[n].todo = <<>>
  /\ saving[n].at = "retry" => template[Head(saving[n].todo)] # 0
  /\ saving[n].after \subseteq AnsweredSaves
  /\ \A s \in saving[n].to \ ToSet(saving[n].todo) : template[s] # 0 /\ template[s] \notin saving[n].after

TemplatesInv == TemplatesTyped /\ \A n \in Saves : SaveStands(n)

\* The scopes left after the first.
LEMMA ScopesLeft ==
  ASSUME NEW S, NEW todo \in Seq(S), todo # <<>>
  PROVE  /\ Head(todo) \in S /\ Tail(todo) \in Seq(S)
         /\ ToSet(todo) = {Head(todo)} \cup ToSet(Tail(todo))
<1>1. /\ Head(todo) \in S /\ Tail(todo) \in Seq(S) /\ Len(todo) \in Nat \ {0}
      /\ Head(todo) = todo[1] /\ Len(Tail(todo)) = Len(todo) - 1
      /\ \A i \in 1 .. Len(Tail(todo)) : Tail(todo)[i] = todo[i + 1]
  BY HeadTailProperties, EmptySeq, LenProperties
<1>2. DOMAIN todo = 1 .. Len(todo) /\ DOMAIN Tail(todo) = 1 .. Len(todo) - 1
  BY <1>1, LenProperties
<1>3. ASSUME NEW i \in 1 .. Len(todo) PROVE todo[i] \in {Head(todo)} \cup ToSet(Tail(todo))
  <2>1. CASE i = 1
    BY <1>1, <2>1
  <2>2. CASE i # 1
    <3>1. i - 1 \in DOMAIN Tail(todo) /\ Tail(todo)[i - 1] = todo[i]
      BY <1>1, <1>2, <2>2
    <3> QED
      BY <3>1 DEF ToSet
  <2> QED
    BY <2>1, <2>2
<1>4. ASSUME NEW i \in DOMAIN Tail(todo) PROVE Tail(todo)[i] \in ToSet(todo)
  <2>1. i + 1 \in DOMAIN todo /\ Tail(todo)[i] = todo[i + 1]
    BY <1>1, <1>2
  <2> QED
    BY <2>1 DEF ToSet
<1>5. Head(todo) \in ToSet(todo)
  BY <1>1, <1>2 DEF ToSet
<1> QED
  BY <1>1, <1>2, <1>3, <1>4, <1>5 DEF ToSet

LEMMA TemplatesStart == TemplatesInit => TemplatesInv
<1> SUFFICES ASSUME TemplatesInit PROVE TemplatesInv
  OBVIOUS
<1>1. template \in [TemplateScopes -> Nat] /\ saving = <<>>
  BY DEF TemplatesInit
<1>2. PICK s : s = [brand |-> Every, type |-> Every]
  OBVIOUS
<1>3. s \in TemplateScopes
  BY <1>2 DEF TemplateScopes
<1>4. EditorShaped(EditorPage(s, template))
  BY <1>3 DEF EditorShaped, EditorPage
<1> QED
  BY <1>1, <1>2, <1>4, EmptySeq DEF TemplatesInit, TemplatesInv, TemplatesTyped, Saves

\* A click in an editor that sends nothing.
LEMMA EditorTurns ==
  ASSUME TemplatesInv, NEW l \in Leads, NEW e, EditorShaped(e),
         editor' = [editor EXCEPT ![l] = e], UNCHANGED <<template, saving>>
  PROVE  TemplatesInv'
  BY DEF TemplatesInv, TemplatesTyped, SaveStands, Saves, AnsweredSaves

\* A save or an application is sent: what is answered by now is older than it.
LEMMA SaveSent ==
  ASSUME TemplatesInv, NEW l \in Leads, NEW scopes \in Seq(TemplateScopes), scopes # <<>>,
         NEW kind \in {"save", "apply"}, SendsAction(l, scopes, kind)
  PROVE  TemplatesInv'
<1>1. saving \in Seq(Save) /\ Len(saving) \in Nat /\ Saves = 1 .. Len(saving)
  BY LenProperties DEF TemplatesInv, TemplatesTyped, Saves
<1>2. AnsweredSaves \in SUBSET Nat /\ AnsweredSaves \subseteq Saves
  BY <1>1 DEF AnsweredSaves
<1>3. PICK v : v = [at |-> "update", todo |-> scopes, to |-> ToSet(scopes), kind |-> kind, after |-> AnsweredSaves]
  OBVIOUS
<1>4. ToSet(scopes) \subseteq TemplateScopes
  BY LenProperties, ElementOfSeq DEF ToSet
<1>5. v \in Save
  BY <1>2, <1>3, <1>4 DEF Save
<1>6. saving' = Append(saving, v) /\ template' = template
  BY <1>3 DEF SendsAction
<1>7. /\ saving' \in Seq(Save) /\ Len(saving') = Len(saving) + 1
      /\ \A n \in 1 .. Len(saving) : saving'[n] = saving[n]
      /\ saving'[Len(saving) + 1] = v
  BY <1>1, <1>5, <1>6, AppendProperties
<1>8. Saves' = 1 .. Len(saving) + 1 /\ AnsweredSaves' = AnsweredSaves
  <2>1. Saves' = 1 .. Len(saving) + 1
    BY <1>7, LenProperties DEF Saves
  <2>2. v.at # "answered"
    BY <1>3
  <2> QED
    BY <1>1, <1>7, <2>1, <2>2 DEF AnsweredSaves
<1>9. ASSUME NEW n \in Saves' PROVE SaveStands(n)'
  <2>1. CASE n \in Saves
    <3>1. saving'[n] = saving[n]
      BY <1>1, <1>7, <2>1
    <3> QED
      BY <1>6, <1>8, <2>1, <3>1 DEF SaveStands, TemplatesInv
  <2>2. CASE n = Len(saving) + 1
    <3>1. saving'[n] = v
      BY <1>7, <2>2
    <3> QED
      BY <1>3, <1>8, <3>1 DEF SaveStands
  <2> QED
    BY <1>1, <1>8, <2>1, <2>2
<1>10. DOMAIN editor' = Leads /\ \A k \in Leads : EditorShaped(editor'[k])
  <2>1. PICK n : n = Len(saving')
    OBVIOUS
  <2>2. editor' = [editor EXCEPT ![l].busy = n]
    BY <2>1 DEF SendsAction
  <2> QED
    BY <2>2 DEF TemplatesInv, TemplatesTyped, EditorShaped
<1> QED
  BY <1>6, <1>7, <1>9, <1>10 DEF TemplatesInv, TemplatesTyped

\* The buttons of an editor.
LEMMA EditorSteps ==
  ASSUME TemplatesInv, NEW l \in Leads,
         \/ \E s \in TemplateScopes : ChooseScope(l, s)
         \/ \E b \in Brands : ToggleBrand(l, b)
         \/ SaveTemplate(l) \/ ConfirmApply(l) \/ ApplyToMany(l)
  PROVE  TemplatesInv'
<1>1. PICK e : e = editor[l]
  OBVIOUS
<1>2. EditorShaped(e)
  BY <1>1 DEF TemplatesInv, TemplatesTyped
<1>3. ASSUME NEW s \in TemplateScopes, ChooseScope(l, s) PROVE TemplatesInv'
  <2>1. PICK p : p = EditorPage(s, template)
    OBVIOUS
  <2>2. EditorShaped(p)
    BY <2>1 DEF EditorPage, EditorShaped
  <2> QED
    BY <1>3, <2>1, <2>2, EditorTurns DEF ChooseScope
<1>4. ASSUME NEW b \in Brands, ToggleBrand(l, b) PROVE TemplatesInv'
  <2>0. PICK place : place = CHOOSE i \in DOMAIN e.picked : e.picked[i] = b
    OBVIOUS
  <2>1. PICK picked : picked = IF b \in ToSet(e.picked) THEN RemoveAt(e.picked, place) ELSE Append(e.picked, b)
    OBVIOUS
  <2>2. picked \in Seq(Brands)
    <3>1. e.picked \in Seq(Brands)
      BY <1>2 DEF EditorShaped
    <3>2. CASE b \in ToSet(e.picked)
      <4>1. place \in 1 .. Len(e.picked) /\ Len(e.picked) \in Nat
        BY <2>0, <3>1, <3>2, LenProperties DEF ToSet
      <4>2. /\ SubSeq(e.picked, 1, place - 1) \in Seq(Brands)
            /\ SubSeq(e.picked, place + 1, Len(e.picked)) \in Seq(Brands)
        BY <3>1, <4>1, SubSeqProperties
      <4> QED
        BY <2>1, <3>2, <4>2, ConcatProperties DEF RemoveAt
    <3>3. CASE b \notin ToSet(e.picked)
      BY <2>1, <3>1, <3>3, AppendProperties
    <3> QED
      BY <3>2, <3>3
  <2>3. PICK q : q = [e EXCEPT !.sure = FALSE, !.picked = picked]
    OBVIOUS
  <2>4. /\ DOMAIN q = {"scope", "rows", "picked", "sure", "busy"} /\ q.scope = e.scope
        /\ q.picked = picked /\ ~q.sure
    BY <1>2, <2>3 DEF EditorShaped
  <2>5. EditorShaped(q)
    BY <1>2, <2>2, <2>4 DEF EditorShaped
  <2>6. editor' = [editor EXCEPT ![l] = q] /\ UNCHANGED <<template, saving>>
    <3>1. /\ editor' = [editor EXCEPT ![l].sure = FALSE,
              ![l].picked = IF b \in ToSet(e.picked)
                            THEN RemoveAt(e.picked, CHOOSE i \in DOMAIN e.picked : e.picked[i] = b)
                            ELSE Append(e.picked, b)]
          /\ UNCHANGED <<template, saving>>
      BY <1>1, <1>2, <1>4 DEF ToggleBrand, EditorShaped
    <3>2. editor' = [editor EXCEPT ![l].sure = FALSE, ![l].picked = picked]
      BY <2>0, <2>1, <3>1
    <3> QED
      BY <1>1, <2>3, <3>1, <3>2
  <2> QED
    BY <2>5, <2>6, EditorTurns
<1>5. CASE ConfirmApply(l)
  <2>1. PICK q : q = [e EXCEPT !.sure = TRUE]
    OBVIOUS
  <2>2. /\ DOMAIN q = {"scope", "rows", "picked", "sure", "busy"} /\ q.scope = e.scope /\ q.picked = e.picked
    BY <1>2, <2>1 DEF EditorShaped
  <2>3. EditorShaped(q)
    BY <1>1, <1>2, <1>5, <2>2 DEF EditorShaped, ConfirmApply
  <2>4. editor' = [editor EXCEPT ![l] = q] /\ UNCHANGED <<template, saving>>
    BY <1>1, <1>5, <2>1 DEF ConfirmApply
  <2> QED
    BY <2>3, <2>4, EditorTurns
<1>6. CASE SaveTemplate(l)
  <2>1. PICK scopes : scopes = <<e.scope>>
    OBVIOUS
  <2>2. scopes \in Seq(TemplateScopes) /\ scopes # <<>>
    BY <1>2, <2>1 DEF EditorShaped
  <2> QED
    BY <1>1, <1>6, <2>1, <2>2, SaveSent DEF SaveTemplate
<1>7. CASE ApplyToMany(l)
  <2>1. PICK scopes : scopes = [i \in DOMAIN e.picked |-> [brand |-> e.picked[i], type |-> e.scope.type]]
    OBVIOUS
  <2>2. scopes \in Seq(TemplateScopes) /\ scopes # <<>>
    <3>1. e.picked \in Seq(Brands) /\ e.picked # <<>> /\ e.scope \in TemplateScopes
      BY <1>1, <1>2, <1>7 DEF EditorShaped, ApplyToMany
    <3>2. DOMAIN e.picked = 1 .. Len(e.picked) /\ Len(e.picked) \in Nat /\ Len(e.picked) # 0
      BY <3>1, LenProperties, EmptySeq
    <3>3. \A i \in 1 .. Len(e.picked) : [brand |-> e.picked[i], type |-> e.scope.type] \in TemplateScopes
      BY <3>1, ElementOfSeq DEF TemplateScopes
    <3>4. scopes \in [1 .. Len(e.picked) -> TemplateScopes]
      BY <2>1, <3>2, <3>3
    <3>5. scopes \in Seq(TemplateScopes) /\ Len(scopes) = Len(e.picked)
      BY <3>2, <3>4, SeqDef, LenProperties
    <3> QED
      BY <3>2, <3>5, EmptySeq
  <2> QED
    BY <1>1, <1>7, <2>1, <2>2, SaveSent DEF ApplyToMany
<1> QED
  BY <1>3, <1>4, <1>5, <1>6, <1>7

\* What the editors show after a save is answered.
LEMMA EditorsRead ==
  ASSUME TemplatesTyped, NEW n, NEW rows
  PROVE  LET after == EditorsAfter(n, rows) IN
         DOMAIN after = Leads /\ \A l \in Leads : EditorShaped(after[l])
<1> SUFFICES ASSUME NEW l \in Leads PROVE EditorShaped(EditorsAfter(n, rows)[l])
  BY DEF EditorsAfter
<1>1. PICK e : e = editor[l]
  OBVIOUS
<1>2. EditorShaped(e)
  BY <1>1 DEF TemplatesTyped
<1>3. EditorShaped(EditorPage(e.scope, rows))
  BY <1>2, EmptySeq DEF EditorShaped, EditorPage
<1>4. EditorShaped([e EXCEPT !.busy = 0, !.rows = rows])
  BY <1>2 DEF EditorShaped
<1> QED
  BY <1>1, <1>2, <1>3, <1>4 DEF EditorsAfter

\* A statement that writes nothing: on to the next way to write the scope.
LEMMA SaveGoesOn ==
  ASSUME TemplatesInv, NEW n \in Saves, NEW step \in {"insert", "retry"}, SaveTurns(n, step),
         saving[n].at # "answered", step = "retry" => RowIsThere(n)
  PROVE  TemplatesInv'
<1>1. saving \in Seq(Save) /\ Saves = 1 .. Len(saving) /\ Len(saving) \in Nat /\ saving[n] \in Save
  BY LenProperties, ElementOfSeq DEF TemplatesInv, TemplatesTyped, Saves
<1>2. PICK v : v = [saving[n] EXCEPT !.at = step]
  OBVIOUS
<1>3. /\ v \in Save /\ v.at = step /\ v.todo = saving[n].todo /\ v.to = saving[n].to
      /\ v.after = saving[n].after
  BY <1>1, <1>2 DEF Save
<1>4. saving' = [saving EXCEPT ![n] = v] /\ template' = template /\ editor' = editor
  BY <1>2 DEF SaveTurns
<1>5. saving' \in Seq(Save) /\ Len(saving') = Len(saving) /\ \A m \in 1 .. Len(saving) : saving'[m] = IF m = n THEN v ELSE saving[m]
  BY <1>1, <1>3, <1>4, ExceptSeq
<1>6. Saves' = Saves
  BY <1>1, <1>5, LenProperties DEF Saves
<1>7. AnsweredSaves' = AnsweredSaves
  BY <1>1, <1>3, <1>5, <1>6 DEF AnsweredSaves
<1>8. ASSUME NEW m \in Saves PROVE SaveStands(m)'
  <2>1. CASE m # n
    BY <1>1, <1>4, <1>5, <1>7, <2>1 DEF TemplatesInv, SaveStands
  <2>2. CASE m = n
    <3>1. saving'[m] = v
      BY <1>1, <1>5, <2>2
    <3>2. SaveStands(n)
      BY DEF TemplatesInv
    <3> QED
      BY <1>3, <1>4, <1>7, <2>2, <3>1, <3>2 DEF SaveStands, RowIsThere
  <2> QED
    BY <2>1, <2>2
<1> QED
  BY <1>4, <1>5, <1>6, <1>8 DEF TemplatesInv, TemplatesTyped

\* One scope is written: it holds this save, which no answered save came after.
LEMMA SaveWrites ==
  ASSUME TemplatesInv, NEW n \in Saves, WritesScope(n), saving[n].at # "answered"
  PROVE  TemplatesInv'
<1>1. saving \in Seq(Save) /\ Saves = 1 .. Len(saving) /\ Len(saving) \in Nat /\ saving[n] \in Save
  BY LenProperties, ElementOfSeq DEF TemplatesInv, TemplatesTyped, Saves
<1>2. /\ saving[n].todo \in Seq(TemplateScopes) /\ saving[n].todo # <<>> /\ saving[n].to \subseteq TemplateScopes
      /\ SaveStands(n)
  BY <1>1 DEF TemplatesInv, SaveStands, Save
<1>3. PICK first, left : first = Head(saving[n].todo) /\ left = Tail(saving[n].todo)
  OBVIOUS
<1>4. /\ first \in TemplateScopes /\ left \in Seq(TemplateScopes)
      /\ ToSet(saving[n].todo) = {first} \cup ToSet(left)
  BY <1>2, <1>3, ScopesLeft
<1>5. PICK at : at = IF left = <<>> THEN "answered" ELSE "update"
  OBVIOUS
<1>6. PICK u : u = [saving[n] EXCEPT !.todo = left]
  OBVIOUS
<1>7. u \in Save /\ u.todo = left /\ u.to = saving[n].to /\ u.after = saving[n].after
  BY <1>1, <1>4, <1>6 DEF Save
<1>8. PICK v : v = [u EXCEPT !.at = at]
  OBVIOUS
<1>9. v \in Save /\ v.at = at /\ v.todo = left /\ v.to = saving[n].to /\ v.after = saving[n].after
  BY <1>5, <1>7, <1>8 DEF Save
<1>10. /\ template' = [template EXCEPT ![first] = n]
       /\ saving' = [saving EXCEPT ![n].todo = left, ![n].at = at]
       /\ editor' = IF left = <<>> THEN EditorsAfter(n, [template EXCEPT ![first] = n]) ELSE editor
  BY <1>3, <1>5 DEF WritesScope
<1>11. saving' = [saving EXCEPT ![n] = v]
  <2>1. v = [[saving[n] EXCEPT !.todo = left] EXCEPT !.at = at]
    BY <1>6, <1>8
  <2>2. v = [saving[n] EXCEPT !.todo = left, !.at = at]
    BY <2>1
  <2> QED
    BY <1>10, <2>2
<1>12. saving' \in Seq(Save) /\ Len(saving') = Len(saving)
       /\ \A m \in 1 .. Len(saving) : saving'[m] = IF m = n THEN v ELSE saving[m]
  BY <1>1, <1>9, <1>11, ExceptSeq
<1>13. Saves' = Saves
  BY <1>1, <1>12, LenProperties DEF Saves
<1>14. AnsweredSaves \subseteq AnsweredSaves'
  BY <1>1, <1>12, <1>13 DEF AnsweredSaves
<1>15. n \notin AnsweredSaves /\ n \in Nat \ {0}
  BY <1>1 DEF AnsweredSaves
<1>16. /\ template' \in [TemplateScopes -> Nat]
       /\ \A s \in TemplateScopes : template'[s] = IF s = first THEN n ELSE template[s]
  BY <1>4, <1>10, <1>15 DEF TemplatesInv, TemplatesTyped
<1>17. DOMAIN editor' = Leads /\ \A l \in Leads : EditorShaped(editor'[l])
  <2>1. PICK rows : rows = [template EXCEPT ![first] = n]
    OBVIOUS
  <2>2. TemplatesTyped
    BY DEF TemplatesInv
  <2>3. DOMAIN EditorsAfter(n, rows) = Leads /\ \A l \in Leads : EditorShaped(EditorsAfter(n, rows)[l])
    BY <2>2, EditorsRead
  <2>4. DOMAIN editor = Leads /\ \A l \in Leads : EditorShaped(editor[l])
    BY DEF TemplatesInv, TemplatesTyped
  <2> QED
    BY <1>10, <2>1, <2>3, <2>4
<1>18. ASSUME NEW m \in Saves PROVE SaveStands(m)'
  <2>1. CASE m # n
    <3>1. saving'[m] = saving[m] /\ saving[m] \in Save /\ SaveStands(m)
      BY <1>1, <1>12, <2>1, ElementOfSeq DEF TemplatesInv
    <3>2. saving[m].to \subseteq TemplateScopes /\ saving[m].todo \in Seq(TemplateScopes)
      BY <3>1 DEF Save
    <3>3. saving[m].at = "retry" => template'[Head(saving[m].todo)] # 0
      <4> SUFFICES ASSUME saving[m].at = "retry" PROVE template'[Head(saving[m].todo)] # 0
        OBVIOUS
      <4>1. saving[m].todo # <<>>
        BY <3>1 DEF SaveStands
      <4>2. Head(saving[m].todo) \in TemplateScopes
        BY <3>2, <4>1, ScopesLeft
      <4> QED
        BY <1>15, <1>16, <3>1, <4>2 DEF SaveStands
    <3>4. saving[m].after \subseteq AnsweredSaves' /\ n \notin saving[m].after
      BY <1>14, <1>15, <3>1 DEF SaveStands
    <3>5. \A s \in saving[m].to \ ToSet(saving[m].todo) : template'[s] # 0 /\ template'[s] \notin saving[m].after
      BY <1>15, <1>16, <3>1, <3>2, <3>4 DEF SaveStands
    <3> QED
      BY <3>1, <3>3, <3>4, <3>5 DEF SaveStands
  <2>2. CASE m = n
    <3>1. saving'[m] = v
      BY <1>1, <1>12, <2>2
    <3>2. v.at = "answered" <=> v.todo = <<>>
      BY <1>5, <1>9
    <3>3. v.after \subseteq AnsweredSaves' /\ n \notin v.after
      BY <1>2, <1>9, <1>14, <1>15 DEF SaveStands
    <3>4. \A s \in v.to \ ToSet(v.todo) : template'[s] # 0 /\ template'[s] \notin v.after
      BY <1>2, <1>4, <1>9, <1>15, <1>16, <3>3 DEF SaveStands
    <3> QED
      BY <1>5, <1>9, <3>1, <3>2, <3>3, <3>4 DEF SaveStands
  <2> QED
    BY <2>1, <2>2
<1> QED
  BY <1>12, <1>13, <1>16, <1>17, <1>18 DEF TemplatesInv, TemplatesTyped

\* writeScope: the second UPDATE finds the row the INSERT was refused for.
LEMMA SaveSteps ==
  ASSUME TemplatesInv, NEW n \in Saves, UpdateRow(n) \/ InsertRow(n) \/ RetryUpdate(n)
  PROVE  TemplatesInv'
<1>1. saving[n].at # "answered"
  BY DEF UpdateRow, InsertRow, RetryUpdate
<1>2. CASE WritesScope(n)
  BY <1>1, <1>2, SaveWrites
<1>3. CASE SaveTurns(n, "insert")
  BY <1>1, <1>3, SaveGoesOn
<1>4. CASE SaveTurns(n, "retry") /\ RowIsThere(n)
  BY <1>1, <1>4, SaveGoesOn
<1>5. CASE saving[n].at = "retry" /\ ~RowIsThere(n)
  BY <1>5 DEF TemplatesInv, SaveStands, RowIsThere
<1> QED
  BY <1>2, <1>3, <1>4, <1>5 DEF UpdateRow, InsertRow, RetryUpdate

\* However first saves of one scope cross and however many editors are open: no save
\* fails, and what an answered save wrote is not undone by an older one.
THEOREM AnsweredSavesStand == TemplatesSpec => []SavesLand
<1>1. TemplatesInv /\ [TemplatesNext]_templateVars => TemplatesInv'
  <2> SUFFICES ASSUME TemplatesInv, [TemplatesNext]_templateVars PROVE TemplatesInv'
    OBVIOUS
  <2>1. CASE UNCHANGED templateVars
    BY <2>1 DEF templateVars, TemplatesInv, TemplatesTyped, SaveStands, Saves, AnsweredSaves
  <2> QED
    BY <2>1, EditorSteps, SaveSteps DEF TemplatesNext
<1>2. TemplatesInv => SavesLand
  <2> SUFFICES ASSUME TemplatesInv, NEW n \in Saves
               PROVE  /\ saving[n].at # "failed"
                      /\ n \in AnsweredSaves => \A s \in saving[n].to : template[s] # 0 /\ template[s] \notin saving[n].after
    BY DEF SavesLand
  <2>1. saving[n] \in Save /\ SaveStands(n)
    BY LenProperties, ElementOfSeq DEF TemplatesInv, TemplatesTyped, Saves
  <2>2. saving[n].at # "failed"
    BY <2>1 DEF Save
  <2>3. saving[n].todo = <<>> => ToSet(saving[n].todo) = {}
    BY EmptySeq DEF ToSet
  <2> QED
    BY <2>1, <2>2, <2>3 DEF SaveStands, AnsweredSaves
<1> QED
  BY <1>1, <1>2, TemplatesStart, PTL DEF TemplatesSpec

-----------------------------------------------------------------------------
(* The limits of time *)

\* What was let in before the counter's window began is bounded by how many windows fit
\* since (Earlier), what was let in within it by the counter (Counts); every hold that was
\* made, and every request that is about to make one, was let in not long ago (Paid); a
\* token in use outlives the request that uses it (TokensLast).

Stages == {"idle", "hold", "calendar", "exchange", "issued", "call"}

Typed ==
  /\ time \in Nat
  /\ limiter \in [RouteKinds -> [start : Nat, count : Nat]]
  /\ hits \subseteq [nr : Nat, at : Nat, kind : RouteKinds, open : BOOLEAN] /\ IsFiniteSet(hits)
  /\ holding \subseteq [until : Nat, by : Guests, at : Nat] /\ IsFiniteSet(holding)
  /\ token \in [until : Nat, ends : Nat]
  /\ request \in [Guests -> [at : Stages, since : Nat, ends : Nat, tries : Nat]]

\* The counter's window, and what was let in in it and before it.
Current(k) == {h \in hits : h.kind = k /\ h.at >= limiter[k].start}
OpenNow(k) == {h \in Current(k) : h.open}
Before(k, a) == {h \in hits : h.kind = k /\ h.open /\ h.at >= a /\ h.at < limiter[k].start}

\* No hit lies a window's time behind its counter's window or more.
Numbered ==
  /\ \A h \in hits : h.at <= time /\ h.nr < Cardinality(hits) /\ h.at - WindowTime <= limiter[h.kind].start
  /\ \A k \in RouteKinds : limiter[k].start <= time

Counts == \A k \in RouteKinds :
  Cardinality(Current(k)) = limiter[k].count /\ Cardinality(OpenNow(k)) <= Limit

\* Windows begin more than a window's time apart.
Earlier == \A k \in RouteKinds, a \in Int, j \in Nat :
  limiter[k].start - a <= j * (WindowTime + 1) => Cardinality(Before(k, a)) <= j * Limit

Stretch(k, t) == {h \in hits : h.kind = k /\ h.open /\ h.at \in t..(t + WindowTime)}
Stretches == \A k \in RouteKinds, t \in Nat : Cardinality(Stretch(k, t)) <= 2 * Limit

\* The requests that used up the limit when h was refused.
Used(h) == {i \in hits : i.kind = h.kind /\ i.nr < h.nr /\ i.at >= h.at - WindowTime}
Refusals == \A h \in hits : ~h.open => Cardinality(Used(h)) >= Limit

Stays == \A g \in Guests : request[g].at # "idle" =>
  request[g].since <= time /\ time <= request[g].since + MaxStay

HoldsMade == \A h \in holding : h.until = h.at + HoldTime /\ h.at <= time

HeldFrom(a)  == {h \in holding : h.at >= a + MaxStay}
AskedFrom(a) == {g \in Guests : request[g].at = "hold" /\ request[g].since >= a}
OpenFrom(a)  == {h \in hits : h.kind = "hold" /\ h.open /\ h.at >= a}
Paid == \A a \in Int :
  Cardinality(HeldFrom(a)) + Cardinality(AskedFrom(a)) <= Cardinality(OpenFrom(a))

TokensLast ==
  /\ token.until <= token.ends + MaxStay
  /\ \A g \in Guests :
       /\ Sits(g, "issued") => request[g].ends >= request[g].since + TokenLife
       /\ Sits(g, "call") => request[g].ends > request[g].since + MaxStay

CountInv == Numbered /\ Counts /\ Earlier /\ Stretches /\ Refusals
TInv == Typed /\ CountInv /\ Stays /\ HoldsMade /\ Paid /\ TokensLast
-----------------------------------------------------------------------------
LEMMA Params ==
  /\ Limit \in Nat /\ WindowTime \in Nat /\ HoldTime \in Nat /\ TokenLife \in Nat /\ Margin \in Nat
  /\ MaxStay \in Nat /\ WindowTime > 0 /\ 2 * MaxStay <= Margin /\ MaxStay < TokenLife
  /\ IsFiniteSet(Guests)
BY TrafficAssumption

LEMMA PartIsSmaller ==
  ASSUME NEW S, IsFiniteSet(S), NEW T, T \subseteq S
  PROVE  /\ IsFiniteSet(T) /\ Cardinality(T) \in Nat /\ Cardinality(S) \in Nat
         /\ Cardinality(T) <= Cardinality(S)
BY FS_Subset, FS_CardinalityType

LEMMA OneMore ==
  ASSUME NEW S, IsFiniteSet(S), NEW x
  PROVE  /\ IsFiniteSet(S \cup {x}) /\ Cardinality(S) \in Nat /\ Cardinality(S \cup {x}) \in Nat
         /\ x \notin S => Cardinality(S \cup {x}) = Cardinality(S) + 1
         /\ Cardinality(S \cup {x}) <= Cardinality(S) + 1
<1>1. CASE x \in S
  <2>1. S \cup {x} = S
    BY <1>1
  <2>2. IsFiniteSet(S) /\ Cardinality(S) \in Nat
    BY FS_CardinalityType
  <2>3. Cardinality(S) <= Cardinality(S) + 1
    BY <2>2
  <2>4. IsFiniteSet(S \cup {x}) /\ Cardinality(S \cup {x}) = Cardinality(S)
    BY <2>1, <2>2
  <2>5. Cardinality(S \cup {x}) \in Nat
    BY <2>2, <2>4
  <2>6. Cardinality(S \cup {x}) <= Cardinality(S) + 1
    BY <2>3, <2>4
  <2>7. x \notin S => Cardinality(S \cup {x}) = Cardinality(S) + 1
    BY <1>1
  <2> QED BY <2>2, <2>4, <2>5, <2>6, <2>7
<1>2. CASE x \notin S
  <2>1. IsFiniteSet(S \cup {x}) /\ Cardinality(S \cup {x}) = Cardinality(S) + 1
    BY <1>2, FS_AddElement
  <2>2. Cardinality(S) \in Nat
    BY FS_CardinalityType
  <2> QED BY <2>1, <2>2
<1> QED BY <1>1, <1>2

LEMMA TwoSets ==
  ASSUME NEW S, IsFiniteSet(S), NEW T, IsFiniteSet(T)
  PROVE  /\ IsFiniteSet(S \cup T) /\ Cardinality(S \cup T) \in Nat
         /\ Cardinality(S \cup T) <= Cardinality(S) + Cardinality(T)
<1>1. IsFiniteSet(S \cap T) /\ Cardinality(S \cap T) \in Nat
  <2>1. S \cap T \subseteq S
    OBVIOUS
  <2> QED BY <2>1, PartIsSmaller
<1>2. IsFiniteSet(S \cup T) /\ Cardinality(S \cup T) = Cardinality(S) + Cardinality(T) - Cardinality(S \cap T)
  BY FS_Union
<1> QED BY <1>1, <1>2, FS_CardinalityType

LEMMA Quotient ==
  ASSUME NEW x \in Int, NEW d \in Nat, d > 0
  PROVE  x \div d \in Int /\ x < d * (x \div d) + d
OBVIOUS
-----------------------------------------------------------------------------
LEMMA InitTInv == TrafficInit => TInv
<1> SUFFICES ASSUME TrafficInit PROVE TInv
  OBVIOUS
<1>0. IsFiniteSet({}) /\ Cardinality({}) = 0
  BY FS_EmptySet
<1>1. Typed
  BY <1>0 DEF TrafficInit, Typed, NoRequest, Stages
<1>2. \A k \in RouteKinds, a \in Int : Current(k) = {} /\ OpenNow(k) = {} /\ Before(k, a) = {}
  BY DEF TrafficInit, Current, OpenNow, Before
<1>3. \A k \in RouteKinds, t \in Nat : Stretch(k, t) = {}
  BY DEF TrafficInit, Stretch
<1>4. \A a \in Int : HeldFrom(a) = {} /\ AskedFrom(a) = {} /\ OpenFrom(a) = {}
  BY DEF TrafficInit, HeldFrom, AskedFrom, OpenFrom, NoRequest
<1>5. Numbered
  BY DEF TrafficInit, Numbered
<1>6. Counts
  <2> SUFFICES ASSUME NEW k \in RouteKinds
               PROVE  Cardinality(Current(k)) = limiter[k].count /\ Cardinality(OpenNow(k)) <= Limit
    BY DEF Counts
  <2>1. limiter[k].count = 0 /\ 0 \in Int
    BY DEF TrafficInit
  <2>2. Current(k) = {} /\ OpenNow(k) = {}
    BY <1>2
  <2> QED BY <1>0, <2>1, <2>2, Params
<1>7. Earlier
  <2> SUFFICES ASSUME NEW k \in RouteKinds, NEW a \in Int, NEW j \in Nat
               PROVE  Cardinality(Before(k, a)) <= j * Limit
    BY DEF Earlier
  <2>1. j * Limit \in Nat
    BY Params
  <2> QED BY <1>0, <1>2, <2>1
<1>8. Stretches
  BY <1>0, <1>3, Params DEF Stretches
<1>9. Refusals /\ Stays /\ HoldsMade
  BY DEF TrafficInit, Refusals, Stays, HoldsMade, NoRequest
<1>10. Paid
  <2> SUFFICES ASSUME NEW a \in Int
               PROVE  Cardinality(HeldFrom(a)) + Cardinality(AskedFrom(a)) <= Cardinality(OpenFrom(a))
    BY DEF Paid
  <2>1. Cardinality(HeldFrom(a)) = 0 /\ Cardinality(AskedFrom(a)) = 0 /\ Cardinality(OpenFrom(a)) = 0
    BY <1>0, <1>4
  <2> QED BY <2>1
<1>11. TokensLast
  BY Params DEF TrafficInit, TokensLast, Sits, NoRequest
<1> QED BY <1>1, <1>5, <1>6, <1>7, <1>8, <1>9, <1>10, <1>11 DEF TInv, CountInv
-----------------------------------------------------------------------------
LEMMA Finite ==
  ASSUME Typed
  PROVE  /\ \A k \in RouteKinds : IsFiniteSet(Current(k)) /\ IsFiniteSet(OpenNow(k))
         /\ \A k \in RouteKinds, a \in Int : IsFiniteSet(Before(k, a))
         /\ \A k \in RouteKinds, t \in Nat : IsFiniteSet(Stretch(k, t))
         /\ \A a \in Int : IsFiniteSet(HeldFrom(a)) /\ IsFiniteSet(AskedFrom(a)) /\ IsFiniteSet(OpenFrom(a))
<1>1. \A k \in RouteKinds : Current(k) \subseteq hits /\ OpenNow(k) \subseteq hits
  BY DEF Current, OpenNow
<1>2. \A k \in RouteKinds, a \in Int : Before(k, a) \subseteq hits
  BY DEF Before
<1>3. \A k \in RouteKinds, t \in Nat : Stretch(k, t) \subseteq hits
  BY DEF Stretch
<1>4. \A a \in Int : HeldFrom(a) \subseteq holding /\ AskedFrom(a) \subseteq Guests /\ OpenFrom(a) \subseteq hits
  BY DEF HeldFrom, AskedFrom, OpenFrom
<1>5. IsFiniteSet(hits) /\ IsFiniteSet(holding) /\ IsFiniteSet(Guests)
  BY Params DEF Typed
<1> QED BY <1>1, <1>2, <1>3, <1>4, <1>5, FS_Subset

\* The hit a request leaves, and what the upsert makes of the counter.
Hit(kind) == [nr |-> Cardinality(hits), at |-> time, kind |-> kind,
              open |-> Counted(limiter[kind]).count <= Limit]
Resets(kind) == limiter[kind].start < time - WindowTime

LEMMA Asks ==
  ASSUME Typed, Numbered, NEW g \in Guests, NEW kind \in RouteKinds, AskRoute(g, kind)
  PROVE  /\ hits' = hits \cup {Hit(kind)} /\ Hit(kind) \notin hits
         /\ Hit(kind) \in [nr : Nat, at : Nat, kind : RouteKinds, open : BOOLEAN]
         /\ IsFiniteSet(hits') /\ Cardinality(hits) \in Nat /\ Cardinality(hits') = Cardinality(hits) + 1
         /\ limiter' \in [RouteKinds -> [start : Nat, count : Nat]]
         /\ \A k \in RouteKinds : k # kind => limiter'[k] = limiter[k]
         /\ Resets(kind) => limiter'[kind].start = time /\ limiter'[kind].count = 1
         /\ ~Resets(kind) => /\ limiter'[kind].start = limiter[kind].start
                             /\ limiter'[kind].count = limiter[kind].count + 1
         /\ Hit(kind).open <=> limiter'[kind].count <= Limit
         /\ time' = time
<1> DEFINE x == Hit(kind)
<1>1. hits' = hits \cup {x} /\ limiter' = [limiter EXCEPT ![kind] = Counted(limiter[kind])] /\ time' = time
  BY DEF AskRoute, Hit
<1>2. IsFiniteSet(hits) /\ Cardinality(hits) \in Nat
  BY FS_CardinalityType DEF Typed
<1>3. x.nr = Cardinality(hits) /\ x.at = time /\ x.kind = kind
  BY DEF Hit
<1>4. x \notin hits
  BY <1>2, <1>3 DEF Numbered, Typed
<1>5. limiter[kind] \in [start : Nat, count : Nat] /\ time \in Nat
  BY DEF Typed
<1>6. IF Resets(kind) THEN Counted(limiter[kind]) = [start |-> time, count |-> 1]
      ELSE Counted(limiter[kind]) = [start |-> limiter[kind].start, count |-> limiter[kind].count + 1]
  BY <1>5 DEF Counted, Resets
<1>7. Counted(limiter[kind]) \in [start : Nat, count : Nat]
  BY <1>5, <1>6
<1>8. limiter'[kind] = Counted(limiter[kind])
  BY <1>1 DEF Typed
<1>9. \A k \in RouteKinds : k # kind => limiter'[k] = limiter[k]
  BY <1>1 DEF Typed
<1>10. limiter' \in [RouteKinds -> [start : Nat, count : Nat]]
  BY <1>1, <1>7 DEF Typed
<1>11. IsFiniteSet(hits') /\ Cardinality(hits') = Cardinality(hits) + 1
  BY <1>1, <1>2, <1>4, OneMore
<1>12. x.open <=> limiter'[kind].count <= Limit
  BY <1>8 DEF Hit
<1>13. x \in [nr : Nat, at : Nat, kind : RouteKinds, open : BOOLEAN]
  BY <1>2, <1>5 DEF Hit
<1>14. Resets(kind) => limiter'[kind].start = time /\ limiter'[kind].count = 1
  BY <1>6, <1>8
<1>15. ~Resets(kind) => /\ limiter'[kind].start = limiter[kind].start
                        /\ limiter'[kind].count = limiter[kind].count + 1
  BY <1>6, <1>8
<1> QED BY <1>1, <1>2, <1>4, <1>9, <1>10, <1>11, <1>12, <1>13, <1>14, <1>15

LEMMA AskNumbered ==
  ASSUME TInv, NEW g \in Guests, NEW kind \in RouteKinds, AskRoute(g, kind)
  PROVE  Numbered'
<1> DEFINE x == Hit(kind)
<1>0. Typed /\ Numbered
  BY DEF TInv, CountInv
<1>1. /\ hits' = hits \cup {x} /\ time' = time /\ Cardinality(hits') = Cardinality(hits) + 1
      /\ Cardinality(hits) \in Nat /\ limiter' \in [RouteKinds -> [start : Nat, count : Nat]]
      /\ \A k \in RouteKinds : k # kind => limiter'[k] = limiter[k]
      /\ limiter'[kind].start = IF Resets(kind) THEN time ELSE limiter[kind].start
  BY <1>0, Asks
<1>2. time \in Nat /\ limiter[kind].start \in Nat /\ WindowTime \in Nat /\ limiter[kind].start <= time
  BY <1>0, Params DEF Typed, Numbered
<1>3. limiter[kind].start <= limiter'[kind].start /\ limiter'[kind].start <= time
      /\ time - WindowTime <= limiter'[kind].start
  BY <1>1, <1>2 DEF Resets
<1>4. \A k \in RouteKinds : limiter[k].start \in Nat /\ limiter'[k].start \in Nat
                            /\ limiter[k].start <= limiter'[k].start /\ limiter'[k].start <= time
  BY <1>0, <1>1, <1>3 DEF Numbered, Typed
<1>5. ASSUME NEW h \in hits
      PROVE  h.at <= time /\ h.nr < Cardinality(hits) + 1 /\ h.at - WindowTime <= limiter'[h.kind].start
  <2>1. h.at \in Nat /\ h.nr \in Nat /\ h.kind \in RouteKinds
    BY <1>0 DEF Typed
  <2>2. h.at <= time /\ h.nr < Cardinality(hits) /\ h.at - WindowTime <= limiter[h.kind].start
    BY <1>0 DEF Numbered
  <2> QED BY <1>1, <1>2, <1>4, <2>1, <2>2
<1>6. x.at <= time /\ x.nr < Cardinality(hits) + 1 /\ x.at - WindowTime <= limiter'[x.kind].start
  BY <1>1, <1>2, <1>3 DEF Hit
<1> QED BY <1>1, <1>4, <1>5, <1>6 DEF Numbered

\* What the new hit does to the counter's sets.
LEMMA AskSets ==
  ASSUME TInv, NEW g \in Guests, NEW kind \in RouteKinds, AskRoute(g, kind)
  PROVE  /\ \A k \in RouteKinds \ {kind} :
              /\ Current(k)' = Current(k) /\ OpenNow(k)' = OpenNow(k)
              /\ \A a \in Int : Before(k, a)' = Before(k, a)
              /\ \A t \in Nat : Stretch(k, t)' = Stretch(k, t)
         /\ Resets(kind) =>
              /\ Current(kind)' = {Hit(kind)}
              /\ \A a \in Int : Before(kind, a)' \subseteq Before(kind, a) \cup OpenNow(kind)
         /\ ~Resets(kind) =>
              /\ Current(kind)' = Current(kind) \cup {Hit(kind)}
              /\ \A a \in Int : Before(kind, a)' = Before(kind, a)
         /\ OpenNow(kind)' \subseteq Current(kind)'
         /\ ~Hit(kind).open => OpenNow(kind)' \subseteq OpenNow(kind)
         /\ \A a \in Int : Before(kind, a)' \subseteq {h \in hits : h.at < limiter'[kind].start}
<1> DEFINE x == Hit(kind)
<1>0. Typed /\ Numbered
  BY DEF TInv, CountInv
<1>1. /\ hits' = hits \cup {x} /\ x \notin hits /\ limiter' \in [RouteKinds -> [start : Nat, count : Nat]]
      /\ \A k \in RouteKinds : k # kind => limiter'[k] = limiter[k]
      /\ limiter'[kind].start = IF Resets(kind) THEN time ELSE limiter[kind].start
  BY <1>0, Asks
<1>2. x.kind = kind /\ x.at = time
  BY DEF Hit
<1>3. time \in Nat /\ WindowTime \in Nat /\ limiter[kind].start \in Nat /\ limiter[kind].start <= time
  BY <1>0, Params DEF Typed, Numbered
<1>4. \A h \in hits : h.at \in Nat /\ h.at <= time /\ (h.kind = kind => h.at - WindowTime <= limiter[kind].start)
  BY <1>0 DEF Typed, Numbered
<1>5. \A k \in RouteKinds \ {kind} :
        /\ Current(k)' = Current(k) /\ OpenNow(k)' = OpenNow(k)
        /\ \A a \in Int : Before(k, a)' = Before(k, a)
        /\ \A t \in Nat : Stretch(k, t)' = Stretch(k, t)
  BY <1>1, <1>2 DEF Current, OpenNow, Before, Stretch
<1>6. CASE Resets(kind)
  <2>1. limiter'[kind].start = time /\ limiter[kind].start < time - WindowTime
    BY <1>1, <1>6 DEF Resets
  <2>2. \A h \in hits : h.kind = kind => h.at < time
    BY <1>3, <1>4, <2>1
  <2>3. Current(kind)' = {x}
    BY <1>1, <1>2, <1>3, <1>4, <2>1, <2>2 DEF Current
  <2>4. OpenNow(kind)' \subseteq Current(kind)' /\ (~x.open => OpenNow(kind)' \subseteq OpenNow(kind))
    BY <2>3 DEF OpenNow
  <2>5. \A a \in Int : Before(kind, a)' \subseteq Before(kind, a) \cup OpenNow(kind)
    BY <1>1, <1>2, <1>3, <1>4, <2>1 DEF Before, OpenNow, Current
  <2>6. \A a \in Int : Before(kind, a)' \subseteq {h \in hits : h.at < limiter'[kind].start}
    BY <1>1, <1>2, <1>3, <2>1 DEF Before
  <2> QED BY <1>5, <1>6, <2>3, <2>4, <2>5, <2>6
<1>7. CASE ~Resets(kind)
  <2>1. limiter'[kind].start = limiter[kind].start
    BY <1>1, <1>7
  <2>3. Current(kind)' = Current(kind) \cup {x}
    BY <1>1, <1>2, <1>3, <2>1 DEF Current
  <2>4. OpenNow(kind)' \subseteq Current(kind)' /\ (~x.open => OpenNow(kind)' \subseteq OpenNow(kind))
    BY <2>3 DEF OpenNow
  <2>5. \A a \in Int : Before(kind, a)' = Before(kind, a)
    BY <1>1, <1>2, <1>3, <2>1 DEF Before
  <2>6. \A a \in Int : Before(kind, a)' \subseteq {h \in hits : h.at < limiter'[kind].start}
    BY <2>1, <2>5 DEF Before
  <2> QED BY <1>5, <1>7, <2>3, <2>4, <2>5, <2>6
<1> QED BY <1>6, <1>7

LEMMA AskCounts ==
  ASSUME TInv, NEW g \in Guests, NEW kind \in RouteKinds, AskRoute(g, kind)
  PROVE  Counts'
<1> DEFINE x == Hit(kind)
<1>0. Typed /\ Numbered /\ Counts
  BY DEF TInv, CountInv
<1>1. /\ x \notin hits /\ limiter' \in [RouteKinds -> [start : Nat, count : Nat]]
      /\ \A k \in RouteKinds : k # kind => limiter'[k] = limiter[k]
      /\ Resets(kind) => limiter'[kind].count = 1
      /\ ~Resets(kind) => limiter'[kind].count = limiter[kind].count + 1
      /\ x.open <=> limiter'[kind].count <= Limit
  BY <1>0, Asks
<1>2. IsFiniteSet(Current(kind)) /\ IsFiniteSet(OpenNow(kind)) /\ x \notin Current(kind)
  BY <1>0, <1>1, Finite DEF Current
<1>3. Cardinality(Current(kind)) = limiter[kind].count /\ Cardinality(OpenNow(kind)) <= Limit
  BY <1>0 DEF Counts
<1>4. IsFiniteSet(Current(kind)') /\ Cardinality(Current(kind)') = limiter'[kind].count
  <2>1. CASE Resets(kind)
    <3>1. Current(kind)' = {x} /\ limiter'[kind].count = 1
      BY <1>1, <2>1, AskSets
    <3> QED BY <3>1, FS_Singleton
  <2>2. CASE ~Resets(kind)
    <3>1. Current(kind)' = Current(kind) \cup {x} /\ limiter'[kind].count = limiter[kind].count + 1
      BY <1>1, <2>2, AskSets
    <3> QED BY <1>2, <1>3, <3>1, OneMore
  <2> QED BY <2>1, <2>2
<1>5. Cardinality(OpenNow(kind)') <= Limit
  <2>1. CASE x.open
    <3>1. OpenNow(kind)' \subseteq Current(kind)'
      BY AskSets
    <3>2. Cardinality(OpenNow(kind)') \in Nat /\ Cardinality(OpenNow(kind)') <= Cardinality(Current(kind)')
      BY <1>4, <3>1, PartIsSmaller
    <3>3. limiter'[kind].count \in Nat /\ limiter'[kind].count <= Limit /\ Limit \in Nat
      BY <1>1, <2>1, Params
    <3> QED BY <1>4, <3>2, <3>3
  <2>2. CASE ~x.open
    <3>1. OpenNow(kind)' \subseteq OpenNow(kind)
      BY <2>2, AskSets
    <3>2. Cardinality(OpenNow(kind)') \in Nat /\ Cardinality(OpenNow(kind)') <= Cardinality(OpenNow(kind))
          /\ Cardinality(OpenNow(kind)) \in Nat
      BY <1>2, <3>1, PartIsSmaller
    <3> QED BY <1>3, <3>2, Params
  <2> QED BY <2>1, <2>2
<1>6. ASSUME NEW k \in RouteKinds, k # kind
      PROVE  Cardinality(Current(k)') = limiter'[k].count /\ Cardinality(OpenNow(k)') <= Limit
  <2>1. Current(k)' = Current(k) /\ OpenNow(k)' = OpenNow(k) /\ limiter'[k] = limiter[k]
    BY <1>1, <1>6, AskSets
  <2>2. Cardinality(Current(k)) = limiter[k].count /\ Cardinality(OpenNow(k)) <= Limit
    BY <1>0 DEF Counts
  <2> QED BY <2>1, <2>2
<1> QED BY <1>4, <1>5, <1>6 DEF Counts

LEMMA OneWindowLess ==
  ASSUME NEW j \in Nat, j # 0, NEW d \in Nat
  PROVE  j - 1 \in Nat /\ j * d = (j - 1) * d + d /\ j * d \in Nat
OBVIOUS

LEMMA AskEarlier ==
  ASSUME TInv, NEW g \in Guests, NEW kind \in RouteKinds, AskRoute(g, kind)
  PROVE  Earlier'
<1>0. Typed /\ Numbered /\ Counts /\ Earlier
  BY DEF TInv, CountInv
<1>1. /\ limiter' \in [RouteKinds -> [start : Nat, count : Nat]]
      /\ \A k \in RouteKinds : k # kind => limiter'[k] = limiter[k]
      /\ limiter'[kind].start = IF Resets(kind) THEN time ELSE limiter[kind].start
  BY <1>0, Asks
<1>2. limiter[kind].start \in Nat /\ limiter'[kind].start \in Nat /\ time \in Nat
      /\ WindowTime \in Nat /\ Limit \in Nat /\ WindowTime + 1 \in Nat
  BY <1>0, <1>1, Params DEF Typed
<1>3. ASSUME NEW k \in RouteKinds, NEW a \in Int, NEW j \in Nat,
             limiter'[k].start - a <= j * (WindowTime + 1)
      PROVE  Cardinality(Before(k, a)') <= j * Limit
  <2>1. CASE k # kind
    <3>1. Before(k, a)' = Before(k, a) /\ limiter'[k] = limiter[k]
      BY <1>1, <2>1, AskSets
    <3> QED BY <1>0, <1>3, <3>1 DEF Earlier
  <2>2. CASE k = kind /\ ~Resets(kind)
    <3>1. Before(k, a)' = Before(k, a) /\ limiter'[k].start = limiter[k].start
      BY <1>1, <2>2, AskSets
    <3> QED BY <1>0, <1>3, <3>1 DEF Earlier
  <2>3. CASE k = kind /\ Resets(kind) /\ j = 0
    <3>1. limiter'[kind].start <= a
      BY <1>2, <1>3, <2>3
    <3>2. Before(kind, a)' \subseteq {h \in hits : h.at < limiter'[kind].start}
      BY AskSets
    <3>3. \A h \in Before(kind, a)' : h.at >= a
      BY DEF Before
    <3>4. \A h \in hits : h.at \in Nat
      BY <1>0 DEF Typed
    <3>5. Before(kind, a)' = {}
      BY <1>2, <3>1, <3>2, <3>3, <3>4
    <3>6. Cardinality(Before(kind, a)') = 0
      BY <3>5, FS_EmptySet
    <3> QED BY <1>2, <2>3, <3>6
  <2>4. CASE k = kind /\ Resets(kind) /\ j # 0
    <3>1. /\ j - 1 \in Nat
          /\ j * (WindowTime + 1) = (j - 1) * (WindowTime + 1) + (WindowTime + 1)
          /\ j * Limit = (j - 1) * Limit + Limit /\ (j - 1) * (WindowTime + 1) \in Int
          /\ (j - 1) * Limit \in Nat
      BY <1>2, <2>4, OneWindowLess
    <3>2. limiter[kind].start < time - WindowTime /\ limiter'[kind].start = time
      BY <1>1, <2>4 DEF Resets
    <3>3. limiter[kind].start - a <= (j - 1) * (WindowTime + 1)
      BY <1>2, <1>3, <2>4, <3>1, <3>2
    <3>4. Cardinality(Before(kind, a)) <= (j - 1) * Limit
      BY <1>0, <3>1, <3>3 DEF Earlier
    <3>5. Cardinality(OpenNow(kind)) <= Limit
      BY <1>0 DEF Counts
    <3>6. IsFiniteSet(Before(kind, a)) /\ IsFiniteSet(OpenNow(kind))
      BY <1>0, Finite
    <3>7. Before(kind, a)' \subseteq Before(kind, a) \cup OpenNow(kind)
      BY <2>4, AskSets
    <3>8. /\ IsFiniteSet(Before(kind, a) \cup OpenNow(kind))
          /\ Cardinality(Before(kind, a) \cup OpenNow(kind))
               <= Cardinality(Before(kind, a)) + Cardinality(OpenNow(kind))
      BY <3>6, TwoSets
    <3>9. Cardinality(Before(kind, a)') \in Nat
          /\ Cardinality(Before(kind, a) \cup OpenNow(kind)) \in Nat
          /\ Cardinality(Before(kind, a)') <= Cardinality(Before(kind, a) \cup OpenNow(kind))
      BY <3>7, <3>8, PartIsSmaller
    <3>10. Cardinality(Before(kind, a)) \in Nat /\ Cardinality(OpenNow(kind)) \in Nat
      BY <3>6, FS_CardinalityType
    <3>11. Cardinality(Before(kind, a)') <= j * Limit
      BY <1>2, <3>1, <3>4, <3>5, <3>8, <3>9, <3>10
    <3> QED BY <2>4, <3>11
  <2> QED BY <2>1, <2>2, <2>3, <2>4
<1> QED BY <1>3 DEF Earlier

LEMMA AskStretches ==
  ASSUME TInv, NEW g \in Guests, NEW kind \in RouteKinds, AskRoute(g, kind)
  PROVE  Stretches'
<1> DEFINE x == Hit(kind)
<1>0. Typed /\ Numbered /\ Stretches /\ Earlier' /\ Counts' /\ Numbered'
  BY AskEarlier, AskCounts, AskNumbered DEF TInv, CountInv
<1>1. /\ hits' = hits \cup {x} /\ IsFiniteSet(hits') /\ time' = time
      /\ limiter' \in [RouteKinds -> [start : Nat, count : Nat]]
      /\ x \in [nr : Nat, at : Nat, kind : RouteKinds, open : BOOLEAN]
  BY <1>0, Asks
<1>2. x.kind = kind /\ x.at = time
  BY DEF Hit
<1>3. WindowTime \in Nat /\ Limit \in Nat /\ time \in Nat /\ limiter'[kind].start \in Nat
  BY <1>0, <1>1, Params DEF Typed
<1>4. \A h \in hits' : h.at \in Nat /\ h.kind \in RouteKinds
  BY <1>0, <1>1 DEF Typed
<1>5. ASSUME NEW k \in RouteKinds, NEW t \in Nat
      PROVE  Cardinality(Stretch(k, t)') <= 2 * Limit
  <2>1. CASE k # kind
    <3>1. Stretch(k, t)' = Stretch(k, t)
      BY <2>1, AskSets
    <3> QED BY <1>0, <3>1 DEF Stretches
  <2>2. CASE k = kind /\ ~(x.open /\ time \in t..(t + WindowTime))
    <3>1. Stretch(k, t)' = Stretch(k, t)
      BY <1>1, <1>2, <2>2 DEF Stretch
    <3> QED BY <1>0, <3>1 DEF Stretches
  <2>3. CASE k = kind /\ time \in t..(t + WindowTime)
    <3>1. Stretch(kind, t)' \subseteq Before(kind, t)' \cup OpenNow(kind)'
      BY <1>3, <1>4 DEF Stretch, Before, OpenNow, Current
    <3>2. limiter'[kind].start - t <= 1 * (WindowTime + 1)
      <4>1. limiter'[kind].start <= time
        BY <1>0, <1>1 DEF Numbered
      <4> QED BY <1>3, <2>3, <4>1
    <3>3. t \in Int /\ 1 \in Nat
      OBVIOUS
    <3>4. Cardinality(Before(kind, t)') <= 1 * Limit
      BY <1>0, <3>2, <3>3 DEF Earlier
    <3>5. Cardinality(OpenNow(kind)') <= Limit
      BY <1>0 DEF Counts
    <3>6. Before(kind, t)' \subseteq hits' /\ OpenNow(kind)' \subseteq hits'
      BY DEF Before, OpenNow, Current
    <3>7. IsFiniteSet(Before(kind, t)') /\ IsFiniteSet(OpenNow(kind)')
      BY <1>1, <3>6, FS_Subset
    <3>8. /\ IsFiniteSet(Before(kind, t)' \cup OpenNow(kind)')
          /\ Cardinality(Before(kind, t)' \cup OpenNow(kind)')
               <= Cardinality(Before(kind, t)') + Cardinality(OpenNow(kind)')
      BY <3>7, TwoSets
    <3>9. Cardinality(Stretch(kind, t)') \in Nat
          /\ Cardinality(Before(kind, t)' \cup OpenNow(kind)') \in Nat
          /\ Cardinality(Stretch(kind, t)') <= Cardinality(Before(kind, t)' \cup OpenNow(kind)')
      BY <3>1, <3>8, PartIsSmaller
    <3>10. Cardinality(Before(kind, t)') \in Nat /\ Cardinality(OpenNow(kind)') \in Nat
      BY <3>7, FS_CardinalityType
    <3>11. Cardinality(Stretch(kind, t)') <= 2 * Limit
      BY <1>3, <3>4, <3>5, <3>8, <3>9, <3>10
    <3> QED BY <2>3, <3>11
  <2> QED BY <2>1, <2>2, <2>3
<1> QED BY <1>5 DEF Stretches

LEMMA AskRefusals ==
  ASSUME TInv, NEW g \in Guests, NEW kind \in RouteKinds, AskRoute(g, kind)
  PROVE  Refusals'
<1>a. PICK x : x = Hit(kind)
  OBVIOUS
<1>0. Typed /\ Numbered /\ Counts /\ Refusals /\ Numbered'
  BY AskNumbered DEF TInv, CountInv
<1>1. /\ hits' = hits \cup {x} /\ x \notin hits /\ time' = time
      /\ Resets(kind) => limiter'[kind].count = 1
      /\ ~Resets(kind) => limiter'[kind].count = limiter[kind].count + 1
      /\ x.open <=> limiter'[kind].count <= Limit
      /\ IsFiniteSet(hits) /\ Cardinality(hits) \in Nat
  BY <1>a, <1>0, Asks DEF Typed
<1>2. x.kind = kind /\ x.at = time /\ x.nr = Cardinality(hits)
  BY <1>a DEF Hit
<1>3. WindowTime \in Nat /\ Limit \in Nat /\ time \in Nat /\ limiter[kind].start \in Nat
      /\ limiter[kind].count \in Nat
  BY <1>0, Params DEF Typed
<1>4. \A h \in hits : h.at \in Nat /\ h.nr \in Nat /\ h.nr < Cardinality(hits) /\ h.at <= time
  BY <1>0 DEF Typed, Numbered
<1>5. ASSUME NEW h \in hits, ~h.open
      PROVE  Cardinality(Used(h)') >= Limit
  <2>1. ~(x.nr < h.nr)
    BY <1>1, <1>2, <1>4
  <2>2. Used(h)' = Used(h)
    BY <1>1, <2>1 DEF Used
  <2> QED BY <1>0, <1>5, <2>2 DEF Refusals
<1>6. ASSUME ~x.open
      PROVE  Cardinality(Used(x)') >= Limit
  <2>1. Used(x)' \subseteq hits'
    BY DEF Used
  <2>2. IsFiniteSet(hits')
    BY <1>0, Asks
  <2>3. IsFiniteSet(Used(x)') /\ Cardinality(Used(x)') \in Nat
    BY <2>1, <2>2, PartIsSmaller
  <2>4. CASE Resets(kind)
    <3>1. limiter'[kind].count = 1 /\ ~(limiter'[kind].count <= Limit)
      BY <1>1, <1>6, <2>4
    <3> QED BY <1>3, <2>3, <3>1
  <2>5. CASE ~Resets(kind)
    <3>1. limiter[kind].start >= time - WindowTime
      BY <1>3, <2>5 DEF Resets
    <3>2. Current(kind) \subseteq Used(x)'
      <4> SUFFICES ASSUME NEW i \in Current(kind)
                   PROVE  i \in Used(x)'
        OBVIOUS
      <4>1. i \in hits /\ i.kind = kind /\ i.at >= limiter[kind].start
        BY DEF Current
      <4>2. i.nr < x.nr /\ i.at >= x.at - WindowTime /\ i.kind = x.kind
        BY <1>2, <1>3, <1>4, <3>1, <4>1
      <4> QED BY <1>1, <4>1, <4>2 DEF Used
    <3>3. Cardinality(Current(kind)) \in Nat /\ Cardinality(Current(kind)) <= Cardinality(Used(x)')
      BY <2>3, <3>2, PartIsSmaller
    <3>4. Cardinality(Current(kind)) = limiter[kind].count
      BY <1>0 DEF Counts
    <3>5. limiter[kind].count + 1 > Limit
      BY <1>1, <1>3, <1>6, <2>5
    <3> QED BY <1>3, <2>3, <3>3, <3>4, <3>5
  <2> QED BY <2>4, <2>5
<1>7. ASSUME NEW h \in hits', ~h.open
      PROVE  Cardinality(Used(h)') >= Limit
  BY <1>1, <1>5, <1>6, <1>7
<1> QED BY <1>7 DEF Refusals

LEMMA AskRequest ==
  ASSUME Typed, NEW g \in Guests, NEW kind \in RouteKinds, AskRoute(g, kind)
  PROVE  /\ request' \in [Guests -> [at : Stages, since : Nat, ends : Nat, tries : Nat]]
         /\ \A i \in Guests \ {g} : request'[i] = request[i]
         /\ Counted(limiter[kind]).count <= Limit => request'[g].at = kind /\ request'[g].since = time
         /\ ~(Counted(limiter[kind]).count <= Limit) => request'[g] = request[g]
<1>a. PICK next : next = [NoRequest EXCEPT !.at = kind, !.since = time]
  OBVIOUS
<1>1. next.at = kind /\ next.since = time
  BY <1>a DEF NoRequest
<1>2. next \in [at : Stages, since : Nat, ends : Nat, tries : Nat]
  <2>1. kind \in Stages /\ time \in Nat
    BY DEF RouteKinds, Stages, Typed
  <2> QED BY <1>a, <2>1 DEF NoRequest
<1>3. request \in [Guests -> [at : Stages, since : Nat, ends : Nat, tries : Nat]]
  BY DEF Typed
<1>4. CASE Counted(limiter[kind]).count <= Limit
  <2>1. request' = [request EXCEPT ![g] = next]
    BY <1>a, <1>4 DEF AskRoute, Goes
  <2> QED BY <1>1, <1>2, <1>3, <1>4, <2>1
<1>5. CASE ~(Counted(limiter[kind]).count <= Limit)
  <2>1. request' = request
    BY <1>5 DEF AskRoute
  <2> QED BY <1>3, <1>5, <2>1
<1> QED BY <1>4, <1>5

LEMMA AskTyped ==
  ASSUME TInv, NEW g \in Guests, NEW kind \in RouteKinds, AskRoute(g, kind)
  PROVE  Typed'
<1>0. Typed /\ Numbered
  BY DEF TInv, CountInv
<1>1. /\ hits' = hits \cup {Hit(kind)} /\ IsFiniteSet(hits')
      /\ Hit(kind) \in [nr : Nat, at : Nat, kind : RouteKinds, open : BOOLEAN]
      /\ limiter' \in [RouteKinds -> [start : Nat, count : Nat]]
  BY <1>0, Asks
<1>2. hits' \subseteq [nr : Nat, at : Nat, kind : RouteKinds, open : BOOLEAN]
  BY <1>0, <1>1 DEF Typed
<1>3. request' \in [Guests -> [at : Stages, since : Nat, ends : Nat, tries : Nat]]
  BY <1>0, AskRequest
<1> QED BY <1>0, <1>1, <1>2, <1>3 DEF Typed, AskRoute

\* A request let in may make one hold more, and is one hit more.
LEMMA AskPaid ==
  ASSUME TInv, NEW g \in Guests, NEW kind \in RouteKinds, AskRoute(g, kind)
  PROVE  Paid'
<1>a. PICK x : x = Hit(kind)
  OBVIOUS
<1>0. Typed /\ Numbered /\ Paid
  BY DEF TInv, CountInv
<1>1. /\ hits' = hits \cup {x} /\ x \notin hits /\ IsFiniteSet(hits')
      /\ x.open <=> limiter'[kind].count <= Limit
  BY <1>a, <1>0, Asks
<1>2. x.kind = kind /\ x.at = time /\ (x.open <=> Counted(limiter[kind]).count <= Limit)
  BY <1>a DEF Hit
<1>3. holding' = holding /\ request[g].at = "idle"
  BY DEF AskRoute, Sits
<1>4. \A i \in Guests \ {g} : request'[i] = request[i]
  BY <1>0, AskRequest
<1>5. IF x.open THEN request'[g].at = kind /\ request'[g].since = time ELSE request'[g] = request[g]
  BY <1>0, <1>2, AskRequest
<1>6. ASSUME NEW a \in Int
      PROVE  Cardinality(HeldFrom(a)') + Cardinality(AskedFrom(a)') <= Cardinality(OpenFrom(a)')
  <2>0. IsFiniteSet(HeldFrom(a)) /\ IsFiniteSet(AskedFrom(a)) /\ IsFiniteSet(OpenFrom(a))
    BY <1>0, Finite
  <2>1. Cardinality(HeldFrom(a)) + Cardinality(AskedFrom(a)) <= Cardinality(OpenFrom(a))
    BY <1>0 DEF Paid
  <2>2. HeldFrom(a)' = HeldFrom(a)
    BY <1>3 DEF HeldFrom
  <2>3. CASE kind = "hold" /\ x.open /\ time >= a
    <3>1. AskedFrom(a)' = AskedFrom(a) \cup {g}
      BY <1>4, <1>5, <2>3 DEF AskedFrom
    <3>2. OpenFrom(a)' = OpenFrom(a) \cup {x} /\ x \notin OpenFrom(a)
      BY <1>1, <1>2, <2>3 DEF OpenFrom
    <3>3. Cardinality(AskedFrom(a)') <= Cardinality(AskedFrom(a)) + 1
          /\ Cardinality(AskedFrom(a)') \in Nat /\ Cardinality(AskedFrom(a)) \in Nat
      BY <2>0, <3>1, OneMore
    <3>4. Cardinality(OpenFrom(a)') = Cardinality(OpenFrom(a)) + 1
      BY <2>0, <3>2, OneMore
    <3>5. Cardinality(HeldFrom(a)) \in Nat /\ Cardinality(OpenFrom(a)) \in Nat
      BY <2>0, FS_CardinalityType
    <3> QED BY <2>1, <2>2, <3>3, <3>4, <3>5
  <2>4. CASE ~(kind = "hold" /\ x.open /\ time >= a)
    <3>1. AskedFrom(a)' = AskedFrom(a)
      BY <1>3, <1>4, <1>5, <2>4 DEF AskedFrom
    <3>2. OpenFrom(a)' = OpenFrom(a)
      BY <1>1, <1>2, <2>4 DEF OpenFrom
    <3> QED BY <2>1, <2>2, <3>1, <3>2
  <2> QED BY <2>3, <2>4
<1> QED BY <1>6 DEF Paid

LEMMA AskInv ==
  ASSUME TInv, NEW g \in Guests, NEW kind \in RouteKinds, AskRoute(g, kind)
  PROVE  TInv'
<1>1. Typed /\ Stays /\ HoldsMade /\ TokensLast
  BY DEF TInv
<1>2. holding' = holding /\ token' = token /\ time' = time /\ MaxStay \in Nat /\ time \in Nat
  BY <1>1, Params DEF AskRoute, Typed
<1>3. ASSUME NEW i \in Guests
      PROVE  request'[i] = request[i] \/ (request'[i].at = kind /\ request'[i].since = time)
  BY <1>1, AskRequest
<1>4. Stays'
  BY <1>1, <1>2, <1>3 DEF Stays
<1>5. HoldsMade'
  BY <1>1, <1>2 DEF HoldsMade
<1>6. TokensLast'
  BY <1>1, <1>2, <1>3 DEF TokensLast, Sits, RouteKinds
<1>7. Typed' /\ Paid' /\ Numbered' /\ Counts' /\ Earlier' /\ Stretches' /\ Refusals'
  BY AskTyped, AskPaid, AskNumbered, AskCounts, AskEarlier, AskStretches, AskRefusals
<1> QED BY <1>4, <1>5, <1>6, <1>7 DEF TInv, CountInv
-----------------------------------------------------------------------------
\* The steps that count nothing.
LEMMA QuietCounts ==
  ASSUME Typed, CountInv, UNCHANGED <<limiter, hits>>, time' >= time, time' \in Nat
  PROVE  CountInv'
<1>1. /\ \A k \in RouteKinds : Current(k)' = Current(k) /\ OpenNow(k)' = OpenNow(k)
      /\ \A k \in RouteKinds, a \in Int : Before(k, a)' = Before(k, a)
      /\ \A k \in RouteKinds, t \in Nat : Stretch(k, t)' = Stretch(k, t)
      /\ \A h \in hits : Used(h)' = Used(h)
  BY DEF Current, OpenNow, Before, Stretch, Used
<1>2. Numbered'
  BY DEF Typed, CountInv, Numbered
<1>3. Counts' /\ Earlier' /\ Stretches' /\ Refusals'
  BY <1>1 DEF CountInv, Counts, Earlier, Stretches, Refusals
<1> QED BY <1>2, <1>3 DEF CountInv

\* Nothing is held or let in anew, and no request is about to make a hold that was not.
LEMMA QuietPaid ==
  ASSUME Typed, Paid, Typed', hits' = hits, holding' \subseteq holding,
         \A g \in Guests : request'[g].at = "hold" => request'[g] = request[g]
  PROVE  Paid'
<1> SUFFICES ASSUME NEW a \in Int
             PROVE  Cardinality(HeldFrom(a)') + Cardinality(AskedFrom(a)') <= Cardinality(OpenFrom(a)')
  BY DEF Paid
<1>1. HeldFrom(a)' \subseteq HeldFrom(a) /\ AskedFrom(a)' \subseteq AskedFrom(a) /\ OpenFrom(a)' = OpenFrom(a)
  BY DEF HeldFrom, AskedFrom, OpenFrom
<1>2. IsFiniteSet(HeldFrom(a)) /\ IsFiniteSet(AskedFrom(a)) /\ IsFiniteSet(OpenFrom(a))
  BY Finite
<1>3. /\ Cardinality(HeldFrom(a)') <= Cardinality(HeldFrom(a)) /\ Cardinality(HeldFrom(a)') \in Nat
      /\ Cardinality(HeldFrom(a)) \in Nat
  BY <1>1, <1>2, PartIsSmaller
<1>4. /\ Cardinality(AskedFrom(a)') <= Cardinality(AskedFrom(a)) /\ Cardinality(AskedFrom(a)') \in Nat
      /\ Cardinality(AskedFrom(a)) \in Nat
  BY <1>1, <1>2, PartIsSmaller
<1>5. Cardinality(OpenFrom(a)) \in Nat
  BY <1>2, FS_CardinalityType
<1>6. Cardinality(HeldFrom(a)) + Cardinality(AskedFrom(a)) <= Cardinality(OpenFrom(a))
  BY DEF Paid
<1> QED BY <1>1, <1>3, <1>4, <1>5, <1>6

\* The steps of a request that touch neither the holds nor the token kept.
LEMMA RequestInv ==
  ASSUME TInv, UNCHANGED <<time, limiter, hits, holding, token>>,
         request' \in [Guests -> [at : Stages, since : Nat, ends : Nat, tries : Nat]],
         \A i \in Guests :
           \/ request'[i] = request[i]
           \/ request'[i].at = "idle"
           \/ /\ request[i].at \in {"calendar", "exchange", "call"} /\ request'[i].since = request[i].since
              /\ \/ request'[i].at = "exchange"
                 \/ request'[i].at = "issued" /\ request'[i].ends >= request'[i].since + TokenLife
                 \/ request'[i].at = "call" /\ request'[i].ends > request'[i].since + MaxStay
  PROVE  TInv'
<1>1. Typed /\ CountInv /\ Stays /\ HoldsMade /\ Paid /\ TokensLast
  BY DEF TInv
<1>2. Typed'
  BY <1>1 DEF Typed
<1>3. CountInv'
  BY <1>1, QuietCounts DEF Typed
<1>4. Stays'
  BY <1>1 DEF Stays
<1>5. HoldsMade'
  BY <1>1 DEF HoldsMade
<1>6. Paid'
  BY <1>1, <1>2, QuietPaid
<1>7. TokensLast'
  BY <1>1 DEF TokensLast, Sits
<1> QED BY <1>2, <1>3, <1>4, <1>5, <1>6, <1>7 DEF TInv

\* One request moves, and its record says how.
LEMMA Moves ==
  ASSUME Typed, NEW g \in Guests, NEW next \in [at : Stages, since : Nat, ends : Nat, tries : Nat],
         Goes(g, next)
  PROVE  /\ request' \in [Guests -> [at : Stages, since : Nat, ends : Nat, tries : Nat]]
         /\ request'[g] = next /\ \A i \in Guests \ {g} : request'[i] = request[i]
BY DEF Typed, Goes

LEMMA EndInv ==
  ASSUME TInv, NEW g \in Guests, Ends(g), UNCHANGED <<time, limiter, hits, holding, token>>
  PROVE  TInv'
<1>1. NoRequest \in [at : Stages, since : Nat, ends : Nat, tries : Nat] /\ NoRequest.at = "idle"
  BY DEF NoRequest, Stages
<1>2. /\ request' \in [Guests -> [at : Stages, since : Nat, ends : Nat, tries : Nat]]
      /\ request'[g].at = "idle" /\ \A i \in Guests \ {g} : request'[i] = request[i]
  BY <1>1, Moves DEF TInv, Ends
<1> QED BY <1>2, RequestInv

LEMMA TakeTokenInv ==
  ASSUME TInv, NEW g \in Guests, TakeToken(g)
  PROVE  TInv'
<1>0. Typed /\ Stays /\ TokensLast /\ request[g].at = "calendar"
      /\ request[g] \in [at : Stages, since : Nat, ends : Nat, tries : Nat]
      /\ token \in [until : Nat, ends : Nat] /\ time \in Nat
  BY DEF TInv, TakeToken, Sits, Typed
<1>1. CASE FreshToken
  <2>a. PICK next : next = [request[g] EXCEPT !.at = "call", !.ends = token.ends]
    OBVIOUS
  <2>1. next.at = "call" /\ next.ends = token.ends /\ next.since = request[g].since
        /\ next \in [at : Stages, since : Nat, ends : Nat, tries : Nat]
    BY <1>0, <2>a DEF Stages
  <2>2. token.ends > request[g].since + MaxStay
    <3>1. token.until > time + Margin /\ token.until <= token.ends + MaxStay
      BY <1>0, <1>1 DEF FreshToken, TokensLast
    <3>2. request[g].since <= time
      BY <1>0 DEF Stays
    <3> QED BY <1>0, <3>1, <3>2, Params
  <2>3. Goes(g, next)
    BY <1>1, <2>a DEF TakeToken
  <2>4. /\ request' \in [Guests -> [at : Stages, since : Nat, ends : Nat, tries : Nat]]
        /\ request'[g] = next /\ \A i \in Guests \ {g} : request'[i] = request[i]
    BY <1>0, <2>1, <2>3, Moves
  <2> QED BY <1>0, <2>1, <2>2, <2>4, RequestInv DEF TakeToken
<1>2. CASE ~FreshToken
  <2>a. PICK next : next = [request[g] EXCEPT !.at = "exchange"]
    OBVIOUS
  <2>1. next.at = "exchange" /\ next.since = request[g].since
        /\ next \in [at : Stages, since : Nat, ends : Nat, tries : Nat]
    BY <1>0, <2>a DEF Stages
  <2>2. Goes(g, next)
    BY <1>2, <2>a DEF TakeToken, ToStage
  <2>3. /\ request' \in [Guests -> [at : Stages, since : Nat, ends : Nat, tries : Nat]]
        /\ request'[g] = next /\ \A i \in Guests \ {g} : request'[i] = request[i]
    BY <1>0, <2>1, <2>2, Moves
  <2> QED BY <1>0, <2>1, <2>3, RequestInv DEF TakeToken
<1> QED BY <1>1, <1>2

LEMMA GoogleIssuesInv ==
  ASSUME TInv, NEW g \in Guests, GoogleIssues(g)
  PROVE  TInv'
<1>0. Typed /\ Stays /\ request[g].at = "exchange"
      /\ request[g] \in [at : Stages, since : Nat, ends : Nat, tries : Nat] /\ time \in Nat
  BY DEF TInv, GoogleIssues, Sits, Typed
<1>1. CASE Ends(g)
  BY <1>1, EndInv DEF GoogleIssues
<1>2. CASE ~Ends(g)
  <2>a. PICK next : next = [request[g] EXCEPT !.at = "issued", !.ends = time + TokenLife]
    OBVIOUS
  <2>0. time + TokenLife \in Nat
    BY <1>0, Params
  <2>1. next.at = "issued" /\ next.ends = time + TokenLife /\ next.since = request[g].since
        /\ next \in [at : Stages, since : Nat, ends : Nat, tries : Nat]
    BY <1>0, <2>a, <2>0 DEF Stages
  <2>2. next.ends >= next.since + TokenLife
    <3>1. request[g].since <= time
      BY <1>0 DEF Stays
    <3> QED BY <1>0, <2>1, <3>1, Params
  <2>3. Goes(g, next)
    BY <1>2, <2>a DEF GoogleIssues
  <2>4. /\ request' \in [Guests -> [at : Stages, since : Nat, ends : Nat, tries : Nat]]
        /\ request'[g] = next /\ \A i \in Guests \ {g} : request'[i] = request[i]
    BY <1>0, <2>1, <2>3, Moves
  <2> QED BY <1>0, <2>1, <2>2, <2>4, RequestInv DEF GoogleIssues
<1> QED BY <1>1, <1>2

LEMMA CallCalendarInv ==
  ASSUME TInv, NEW g \in Guests, CallCalendar(g)
  PROVE  TInv'
<1>0. Typed /\ TokensLast /\ request[g].at = "call"
      /\ request[g] \in [at : Stages, since : Nat, ends : Nat, tries : Nat]
  BY DEF TInv, CallCalendar, Sits, Typed
<1>1. CASE Ends(g)
  BY <1>1, EndInv DEF CallCalendar
<1>2. CASE ~Ends(g)
  <2>a. PICK next : next = [request[g] EXCEPT !.tries = @ + 1]
    OBVIOUS
  <2>1. next.at = "call" /\ next.ends = request[g].ends /\ next.since = request[g].since
        /\ next \in [at : Stages, since : Nat, ends : Nat, tries : Nat]
    BY <1>0, <2>a
  <2>2. next.ends > next.since + MaxStay
    BY <1>0, <2>1 DEF TokensLast, Sits
  <2>3. Goes(g, next)
    BY <1>2, <2>a DEF CallCalendar
  <2>4. /\ request' \in [Guests -> [at : Stages, since : Nat, ends : Nat, tries : Nat]]
        /\ request'[g] = next /\ \A i \in Guests \ {g} : request'[i] = request[i]
    BY <1>0, <2>1, <2>3, Moves
  <2> QED BY <1>0, <2>1, <2>2, <2>4, RequestInv DEF CallCalendar
<1> QED BY <1>1, <1>2

LEMMA KeepTokenInv ==
  ASSUME TInv, NEW g \in Guests, KeepToken(g)
  PROVE  TInv'
<1>0. Typed /\ CountInv /\ Stays /\ HoldsMade /\ Paid /\ TokensLast /\ request[g].at = "issued"
      /\ request[g] \in [at : Stages, since : Nat, ends : Nat, tries : Nat] /\ time \in Nat
  BY DEF TInv, KeepToken, Sits, Typed
<1>a. PICK next : next = [request[g] EXCEPT !.at = "call"]
  OBVIOUS
<1>1. next.at = "call" /\ next.ends = request[g].ends /\ next.since = request[g].since
      /\ next \in [at : Stages, since : Nat, ends : Nat, tries : Nat]
  BY <1>0, <1>a DEF Stages
<1>2. Goes(g, next)
  BY <1>a DEF KeepToken, ToStage
<1>3. /\ request' \in [Guests -> [at : Stages, since : Nat, ends : Nat, tries : Nat]]
      /\ request'[g] = next /\ \A i \in Guests \ {g} : request'[i] = request[i]
  BY <1>0, <1>1, <1>2, Moves
<1>4. /\ time' = time /\ limiter' = limiter /\ hits' = hits /\ holding' = holding
      /\ token'.until = time + TokenLife /\ token'.ends = request[g].ends
      /\ token' \in [until : Nat, ends : Nat]
  <2>1. time + TokenLife \in Nat /\ request[g].ends \in Nat
    BY <1>0, Params
  <2> QED BY <2>1 DEF KeepToken
<1>5. request[g].ends >= request[g].since + TokenLife /\ time <= request[g].since + MaxStay
  BY <1>0 DEF TokensLast, Stays, Sits
<1>6. Typed'
  BY <1>0, <1>3, <1>4 DEF Typed
<1>7. CountInv'
  BY <1>0, <1>4, QuietCounts DEF Typed
<1>8. Stays'
  BY <1>0, <1>1, <1>3, <1>4 DEF Stays
<1>9. HoldsMade'
  BY <1>0, <1>4 DEF HoldsMade
<1>10. Paid'
  BY <1>0, <1>1, <1>3, <1>4, <1>6, QuietPaid
<1>11. TokensLast'
  <2>1. token'.until <= token'.ends + MaxStay
    BY <1>0, <1>4, <1>5, Params
  <2>2. request'[g].ends > request'[g].since + MaxStay
    BY <1>0, <1>1, <1>3, <1>5, Params
  <2> QED BY <1>0, <1>1, <1>3, <2>1, <2>2 DEF TokensLast, Sits
<1> QED BY <1>6, <1>7, <1>8, <1>9, <1>10, <1>11 DEF TInv

LEMMA SweepInv ==
  ASSUME TInv, SweepHolds
  PROVE  TInv'
<1>0. Typed /\ CountInv /\ Stays /\ HoldsMade /\ Paid /\ TokensLast
  BY DEF TInv
<1>1. /\ holding' \subseteq holding /\ IsFiniteSet(holding')
      /\ UNCHANGED <<time, limiter, hits, token, request>>
  <2>1. holding' \subseteq holding
    BY DEF SweepHolds, LiveHolds
  <2> QED BY <1>0, <2>1, FS_Subset DEF SweepHolds, Typed
<1>2. Typed'
  BY <1>0, <1>1 DEF Typed
<1>3. CountInv'
  BY <1>0, <1>1, QuietCounts DEF Typed
<1>4. Stays' /\ HoldsMade' /\ TokensLast'
  BY <1>0, <1>1 DEF Stays, HoldsMade, TokensLast, Sits
<1>5. Paid'
  BY <1>0, <1>1, <1>2, QuietPaid
<1> QED BY <1>2, <1>3, <1>4, <1>5 DEF TInv

LEMMA TimeInv ==
  ASSUME TInv, TimePasses
  PROVE  TInv'
<1>0. Typed /\ CountInv /\ Stays /\ HoldsMade /\ Paid /\ TokensLast /\ time \in Nat /\ MaxStay \in Nat
  BY Params DEF TInv, Typed
<1>1. time' = time + 1 /\ UNCHANGED <<limiter, hits, holding, token>>
  BY DEF TimePasses
<1>2. NoRequest \in [at : Stages, since : Nat, ends : Nat, tries : Nat] /\ NoRequest.at = "idle"
  BY DEF NoRequest, Stages
<1>3. request' \in [Guests -> [at : Stages, since : Nat, ends : Nat, tries : Nat]]
  BY <1>0, <1>2 DEF TimePasses, Typed
<1>4. ASSUME NEW i \in Guests
      PROVE  \/ request'[i].at = "idle"
             \/ request'[i] = request[i] /\ ~(time + 1 - request[i].since > MaxStay)
  BY <1>2 DEF TimePasses
<1>5. Typed'
  BY <1>0, <1>1, <1>3 DEF Typed
<1>6. CountInv'
  BY <1>0, <1>1, QuietCounts
<1>7. Stays'
  <2> SUFFICES ASSUME NEW i \in Guests, request'[i].at # "idle"
               PROVE  request'[i].since <= time + 1 /\ time + 1 <= request'[i].since + MaxStay
    BY <1>1 DEF Stays
  <2>1. request'[i] = request[i] /\ ~(time + 1 - request[i].since > MaxStay) /\ request[i].since \in Nat
    BY <1>0, <1>4 DEF Typed
  <2>2. request[i].since <= time
    BY <1>0, <2>1 DEF Stays
  <2> QED BY <1>0, <2>1, <2>2
<1>8. HoldsMade'
  BY <1>0, <1>1 DEF HoldsMade, Typed
<1>9. Paid'
  BY <1>0, <1>1, <1>4, <1>5, QuietPaid
<1>10. TokensLast'
  BY <1>0, <1>1, <1>4 DEF TokensLast, Sits
<1> QED BY <1>5, <1>6, <1>7, <1>8, <1>9, <1>10 DEF TInv

\* A hold costs the request that makes it; one that was let in before a is over
\* before a + MaxStay.
LEMMA CreatePaid ==
  ASSUME TInv, NEW g \in Guests, CreateHold(g), Typed'
  PROVE  Paid'
<1>a. PICK new : new = [until |-> time + HoldTime, by |-> g, at |-> time]
  OBVIOUS
<1>0. Typed /\ Stays /\ Paid /\ request[g].at = "hold" /\ time \in Nat /\ MaxStay \in Nat
      /\ request[g].since \in Nat
  BY Params DEF TInv, CreateHold, Sits, Typed
<1>1. holding' = LiveHolds \cup {new} /\ hits' = hits
  BY <1>a DEF CreateHold
<1>2. new.at = time
  BY <1>a
<1>3. request'[g].at = "idle" /\ \A i \in Guests \ {g} : request'[i] = request[i]
  BY <1>0 DEF CreateHold, Ends, Goes, NoRequest, Typed
<1>4. SUFFICES ASSUME NEW a \in Int
               PROVE  Cardinality(HeldFrom(a)') + Cardinality(AskedFrom(a)') <= Cardinality(OpenFrom(a)')
  BY DEF Paid
<1>5. IsFiniteSet(HeldFrom(a)) /\ IsFiniteSet(AskedFrom(a)) /\ IsFiniteSet(OpenFrom(a))
  BY <1>0, Finite
<1>6. Cardinality(HeldFrom(a)) \in Nat /\ Cardinality(AskedFrom(a)) \in Nat /\ Cardinality(OpenFrom(a)) \in Nat
  BY <1>5, FS_CardinalityType
<1>7. OpenFrom(a)' = OpenFrom(a)
  BY <1>1 DEF OpenFrom
<1>8. Cardinality(HeldFrom(a)) + Cardinality(AskedFrom(a)) <= Cardinality(OpenFrom(a))
  BY <1>0 DEF Paid
<1>9. CASE request[g].since >= a
  <2>1. HeldFrom(a)' \subseteq HeldFrom(a) \cup {new}
    BY <1>1 DEF HeldFrom, LiveHolds
  <2>2. AskedFrom(a)' = AskedFrom(a) \ {g} /\ g \in AskedFrom(a)
    BY <1>0, <1>3, <1>9 DEF AskedFrom
  <2>3. /\ IsFiniteSet(HeldFrom(a) \cup {new}) /\ Cardinality(HeldFrom(a) \cup {new}) \in Nat
        /\ Cardinality(HeldFrom(a) \cup {new}) <= Cardinality(HeldFrom(a)) + 1
    BY <1>5, OneMore
  <2>4. Cardinality(HeldFrom(a)') \in Nat /\ Cardinality(HeldFrom(a)') <= Cardinality(HeldFrom(a) \cup {new})
    BY <2>1, <2>3, PartIsSmaller
  <2>5. Cardinality(AskedFrom(a)') = Cardinality(AskedFrom(a)) - 1
    BY <1>5, <2>2, FS_RemoveElement
  <2> QED BY <1>6, <1>7, <1>8, <2>3, <2>4, <2>5
<1>10. CASE ~(request[g].since >= a)
  <2>1. time < a + MaxStay
    <3>1. time <= request[g].since + MaxStay
      BY <1>0 DEF Stays
    <3> QED BY <1>0, <1>10, <3>1
  <2>2. HeldFrom(a)' \subseteq HeldFrom(a)
    BY <1>0, <1>1, <1>2, <2>1 DEF HeldFrom, LiveHolds
  <2>3. AskedFrom(a)' \subseteq AskedFrom(a)
    BY <1>3 DEF AskedFrom
  <2>4. /\ Cardinality(HeldFrom(a)') \in Nat /\ Cardinality(HeldFrom(a)') <= Cardinality(HeldFrom(a))
        /\ Cardinality(AskedFrom(a)') \in Nat /\ Cardinality(AskedFrom(a)') <= Cardinality(AskedFrom(a))
    BY <1>5, <2>2, <2>3, PartIsSmaller
  <2> QED BY <1>6, <1>7, <1>8, <2>4
<1> QED BY <1>9, <1>10

LEMMA CreateInv ==
  ASSUME TInv, NEW g \in Guests, CreateHold(g)
  PROVE  TInv'
<1>0. Typed /\ CountInv /\ Stays /\ HoldsMade /\ TokensLast /\ time \in Nat /\ HoldTime \in Nat
  BY Params DEF TInv, Typed
<1>1. UNCHANGED <<time, limiter, hits, token>>
  BY DEF CreateHold
<1>2. NoRequest \in [at : Stages, since : Nat, ends : Nat, tries : Nat] /\ NoRequest.at = "idle"
  BY DEF NoRequest, Stages
<1>3. /\ request' \in [Guests -> [at : Stages, since : Nat, ends : Nat, tries : Nat]]
      /\ request'[g].at = "idle" /\ \A i \in Guests \ {g} : request'[i] = request[i]
  BY <1>0, <1>2, Moves DEF CreateHold, Ends
<1>4. LiveHolds \subseteq holding /\ IsFiniteSet(LiveHolds)
  <2>1. LiveHolds \subseteq holding
    BY DEF LiveHolds
  <2> QED BY <1>0, <2>1, FS_Subset DEF Typed
<1>a. PICK new : new = [until |-> time + HoldTime, by |-> g, at |-> time]
  OBVIOUS
<1>5. holding' = LiveHolds \cup {new} /\ new \in [until : Nat, by : Guests, at : Nat]
      /\ new.until = new.at + HoldTime /\ new.at = time
  BY <1>0, <1>a DEF CreateHold
<1>6. Typed'
  <2>1. IsFiniteSet(holding')
    BY <1>4, <1>5, OneMore
  <2> QED BY <1>0, <1>1, <1>3, <1>4, <1>5, <2>1 DEF Typed
<1>7. CountInv'
  BY <1>0, <1>1, QuietCounts
<1>8. Stays' /\ TokensLast'
  BY <1>0, <1>1, <1>3 DEF Stays, TokensLast, Sits
<1>9. HoldsMade'
  BY <1>0, <1>1, <1>4, <1>5 DEF HoldsMade
<1>10. Paid'
  BY <1>6, CreatePaid
<1> QED BY <1>6, <1>7, <1>8, <1>9, <1>10 DEF TInv

LEMMA StepTInv == TInv /\ [TrafficNext]_trafficVars => TInv'
<1> SUFFICES ASSUME TInv, [TrafficNext]_trafficVars PROVE TInv'
  OBVIOUS
<1>1. ASSUME NEW g \in Guests, NEW kind \in RouteKinds, AskRoute(g, kind) PROVE TInv'
  BY <1>1, AskInv
<1>2. ASSUME NEW g \in Guests, TurnedAway(g) PROVE TInv'
  BY <1>2, EndInv DEF TurnedAway
<1>3. ASSUME NEW g \in Guests, CreateHold(g) PROVE TInv'
  BY <1>3, CreateInv
<1>4. ASSUME NEW g \in Guests, TakeToken(g) PROVE TInv'
  BY <1>4, TakeTokenInv
<1>5. ASSUME NEW g \in Guests, GoogleIssues(g) PROVE TInv'
  BY <1>5, GoogleIssuesInv
<1>6. ASSUME NEW g \in Guests, KeepToken(g) PROVE TInv'
  BY <1>6, KeepTokenInv
<1>7. ASSUME NEW g \in Guests, CallCalendar(g) PROVE TInv'
  BY <1>7, CallCalendarInv
<1>8. CASE SweepHolds
  BY <1>8, SweepInv
<1>9. CASE TimePasses
  BY <1>9, TimeInv
<1>10. CASE UNCHANGED trafficVars
  <2>1. UNCHANGED <<time, limiter, hits, holding, token>> /\ request' = request
    BY <1>10 DEF trafficVars
  <2>2. request' \in [Guests -> [at : Stages, since : Nat, ends : Nat, tries : Nat]]
    BY <2>1 DEF TInv, Typed
  <2> QED BY <2>1, <2>2, RequestInv
<1> QED BY <1>1, <1>2, <1>3, <1>4, <1>5, <1>6, <1>7, <1>8, <1>9, <1>10 DEF TrafficNext
-----------------------------------------------------------------------------
\* What is held now was asked for within HoldTime + MaxStay.
LEMMA HoldsAreBounded ==
  ASSUME TInv
  PROVE  Cardinality(LiveHolds) <= (2 + (HoldTime + MaxStay - 2) \div (WindowTime + 1)) * Limit
<1> DEFINE q == (HoldTime + MaxStay - 2) \div (WindowTime + 1)
           a == time - HoldTime - MaxStay + 1
<1>0. Typed /\ Numbered /\ Counts /\ Earlier /\ HoldsMade /\ Paid
  BY DEF TInv, CountInv
<1>1. /\ time \in Nat /\ HoldTime \in Nat /\ MaxStay \in Nat /\ WindowTime \in Nat /\ Limit \in Nat
      /\ WindowTime > 0 /\ a \in Int /\ a + MaxStay = time - HoldTime + 1
  BY <1>0, Params DEF Typed
<1>2. LiveHolds \subseteq HeldFrom(a)
  <2> SUFFICES ASSUME NEW h \in LiveHolds
               PROVE  h.at >= a + MaxStay
    BY DEF LiveHolds, HeldFrom
  <2>1. h \in holding /\ h.until > time /\ h.until = h.at + HoldTime /\ h.at \in Nat
    BY <1>0 DEF LiveHolds, HoldsMade, Typed
  <2> HIDE DEF a
  <2> QED BY <1>1, <2>1
<1>3. /\ q \in Int /\ q + 1 \in Nat
      /\ HoldTime + MaxStay - 1 <= (q + 1) * (WindowTime + 1)
  <2>1. HoldTime + MaxStay - 2 \in Int /\ WindowTime + 1 \in Nat /\ WindowTime + 1 > 0
    BY <1>1
  <2>2. q \in Int /\ HoldTime + MaxStay - 2 < (WindowTime + 1) * q + (WindowTime + 1)
    BY <2>1, Quotient
  <2> HIDE DEF q
  <2>3. (q + 1) * (WindowTime + 1) = (WindowTime + 1) * q + (WindowTime + 1)
        /\ (WindowTime + 1) * q \in Int
    BY <1>1, <2>2
  <2>4. q >= -1
    <3>1. ASSUME q <= -2 PROVE FALSE
      <4>1. (WindowTime + 1) * q <= (WindowTime + 1) * (-2)
        BY <1>1, <2>2, <3>1
      <4>2. (WindowTime + 1) * (-2) <= -(WindowTime + 1) - 2
        BY <1>1
      <4> QED BY <1>1, <2>2, <2>3, <4>1, <4>2
    <3> QED BY <2>2, <3>1
  <2> QED BY <1>1, <2>2, <2>3, <2>4
<1> HIDE DEF q, a
<1>4. limiter["hold"].start - a <= (q + 1) * (WindowTime + 1)
  <2>1. limiter["hold"].start <= time /\ limiter["hold"].start \in Nat
    BY <1>0 DEF Numbered, RouteKinds, Typed
  <2>2. time - a = HoldTime + MaxStay - 1
    BY <1>1 DEF a
  <2>3. (q + 1) * (WindowTime + 1) \in Int
    BY <1>1, <1>3
  <2> QED BY <1>1, <1>3, <2>1, <2>2, <2>3
<1>5. Cardinality(Before("hold", a)) <= (q + 1) * Limit
  BY <1>0, <1>1, <1>3, <1>4 DEF Earlier, RouteKinds
<1>6. Cardinality(OpenNow("hold")) <= Limit
  BY <1>0 DEF Counts, RouteKinds
<1>7. OpenFrom(a) \subseteq Before("hold", a) \cup OpenNow("hold")
  <2>1. limiter["hold"].start \in Nat /\ \A h \in hits : h.at \in Nat
    BY <1>0 DEF Typed, RouteKinds
  <2> QED BY <2>1 DEF OpenFrom, Before, OpenNow, Current
<1>8. /\ IsFiniteSet(Before("hold", a)) /\ IsFiniteSet(OpenNow("hold"))
      /\ IsFiniteSet(HeldFrom(a)) /\ IsFiniteSet(AskedFrom(a))
  BY <1>0, <1>1, Finite DEF RouteKinds
<1>9. /\ IsFiniteSet(Before("hold", a) \cup OpenNow("hold"))
      /\ Cardinality(Before("hold", a) \cup OpenNow("hold"))
           <= Cardinality(Before("hold", a)) + Cardinality(OpenNow("hold"))
  BY <1>8, TwoSets
<1>10. /\ Cardinality(OpenFrom(a)) \in Nat /\ Cardinality(Before("hold", a) \cup OpenNow("hold")) \in Nat
       /\ Cardinality(OpenFrom(a)) <= Cardinality(Before("hold", a) \cup OpenNow("hold"))
  BY <1>7, <1>9, PartIsSmaller
<1>11. Cardinality(LiveHolds) \in Nat /\ Cardinality(LiveHolds) <= Cardinality(HeldFrom(a))
  BY <1>2, <1>8, PartIsSmaller
<1>12. Cardinality(HeldFrom(a)) + Cardinality(AskedFrom(a)) <= Cardinality(OpenFrom(a))
  BY <1>0, <1>1 DEF Paid
<1>13. /\ Cardinality(HeldFrom(a)) \in Nat /\ Cardinality(AskedFrom(a)) \in Nat
       /\ Cardinality(Before("hold", a)) \in Nat /\ Cardinality(OpenNow("hold")) \in Nat
  BY <1>8, FS_CardinalityType
<1>14. (2 + q) * Limit = (q + 1) * Limit + Limit /\ (q + 1) * Limit \in Int
  BY <1>1, <1>3
<1>15. Cardinality(LiveHolds) <= (2 + q) * Limit
  BY <1>1, <1>5, <1>6, <1>9, <1>10, <1>11, <1>12, <1>13, <1>14
<1> QED BY <1>15 DEF q

LEMMA TInvTimesAreKept == TInv => TimesAreKept
<1> SUFFICES ASSUME TInv PROVE TimesAreKept
  OBVIOUS
<1>0. Typed /\ Stretches /\ Refusals /\ Stays /\ TokensLast
  BY DEF TInv, CountInv
<1>1. \A k \in RouteKinds, t \in 0..time :
        Cardinality({h \in hits : h.kind = k /\ h.open /\ h.at \in t..(t + WindowTime)}) <= 2 * Limit
  <2> SUFFICES ASSUME NEW k \in RouteKinds, NEW t \in 0..time
               PROVE  Cardinality(Stretch(k, t)) <= 2 * Limit
    BY DEF Stretch
  <2> QED BY <1>0 DEF Stretches
<1>2. \A h \in hits : ~h.open =>
        Cardinality({i \in hits : i.kind = h.kind /\ i.nr < h.nr /\ i.at >= h.at - WindowTime}) >= Limit
  BY <1>0 DEF Refusals, Used
<1>3. Cardinality(LiveHolds) <= (2 + (HoldTime + MaxStay - 2) \div (WindowTime + 1)) * Limit
  BY HoldsAreBounded
<1>4. TokensLive
  <2> SUFFICES ASSUME NEW g \in Guests, Sits(g, "call")
               PROVE  request[g].ends > time
    BY DEF TokensLive
  <2>1. /\ request[g].ends > request[g].since + MaxStay /\ time <= request[g].since + MaxStay
        /\ request[g].ends \in Nat /\ request[g].since \in Nat /\ time \in Nat /\ MaxStay \in Nat
    BY <1>0, Params DEF TokensLast, Stays, Sits, Typed
  <2> QED BY <2>1
<1> QED BY <1>1, <1>2, <1>3, <1>4 DEF TimesAreKept, FloodsAreBounded

\* However long the windows, the holds, the tokens and the requests last, and
\* however many guests ask: no stretch of a window's length lets in more than
\* twice the limit, nobody is refused early, what is held is bounded (hitRateLimit
\* over createHold), and no token is shown to Google that has ended (accessTokenFor).
THEOREM TimesKept == TrafficSpec => []TimesAreKept
<1>1. TrafficInit => TInv
  BY InitTInv
<1>2. TInv /\ [TrafficNext]_trafficVars => TInv'
  BY StepTInv
<1>3. TInv => TimesAreKept
  BY TInvTimesAreKept
<1> QED BY <1>1, <1>2, <1>3, PTL DEF TrafficSpec

-----------------------------------------------------------------------------
(* The availability engine and the questions asked of it *)

\* Any manager's settings, calendar, bookings and holds.
Spans(is) == \A i \in is : i.from \in Int /\ i.to \in Int /\ i.from < i.to
DeskOk(q) ==
  /\ q.clock \in {"plain", "spring", "autumn"}
  /\ q.length \in Nat \ {0} /\ q.grain \in Nat \ {0} /\ q.buffer \in 0..Day
  /\ q.notice \in Nat /\ q.now \in Nat
  /\ \A r \in q.hours : r.open \in 0..Day /\ r.close \in 1..Day /\ r.open < r.close
  /\ Spans(q.busy) /\ Spans(q.booked) /\ Spans(q.held)

\* Some interval is met by the time from s to e, with a buffer around it.
Hits(is, b, s, e) == \E i \in is : s < i.to + b /\ e > i.from - b

LEMMA WiderHits ==
  ASSUME NEW is, NEW b, NEW s, NEW e
  PROVE  (\E i \in Wider(is, b) : Overlaps(s, e, i)) <=> Hits(is, b, s, e)
<1>1. \A i \in is : LET w == [from |-> i.from - b, to |-> i.to + b]
                    IN  Overlaps(s, e, w) <=> (s < i.to + b /\ e > i.from - b)
  BY DEF Overlaps
<1> QED BY <1>1 DEF Wider, Hits

LEMMA SlotSays ==
  ASSUME NEW q, NEW s, NEW w, NEW b, NEW busy, NEW booked, NEW held
  PROVE  IsSlot(q, s, w, b, busy, booked, held) <=>
           /\ s >= q.now + q.notice /\ s + q.length <= q.now + w
           /\ ~Hits(busy \cup booked, b, s, s + q.length)
           /\ ~\E i \in held : Overlaps(s, s + q.length, i)
           /\ Fits(q, s)
BY WiderHits DEF IsSlot

LEMMA OpenSays ==
  ASSUME NEW q, NEW w, NEW s
  PROVE  s \in OpenStarts(q, w) <=>
           /\ s \in Instants /\ q.reachable
           /\ s >= q.now + q.notice /\ s + q.length <= q.now + w
           /\ ~Hits(Within(q.busy, q.now, q.now + w) \cup Within(q.booked, q.now, q.now + w), q.buffer, s, s + q.length)
           /\ ~\E i \in q.held : Overlaps(s, s + q.length, i)
           /\ Fits(q, s)
BY SlotSays DEF OpenStarts, ConfirmedIn

\* The buffer around a start inside the window is met by what meets the window.
LEMMA WithinHits ==
  ASSUME NEW is, Spans(is), NEW b \in Nat, NEW s \in Int, NEW e \in Int, NEW from \in Int, NEW to \in Int,
         from <= s - b, e + b <= to
  PROVE  Hits(Within(is, from, to), b, s, e) <=> Hits(is, b, s, e)
<1>1. ASSUME NEW i \in is, s < i.to + b, e > i.from - b PROVE i \in Within(is, from, to)
  BY <1>1 DEF Within, Spans
<1> QED BY <1>1 DEF Hits, Within

LEMMA HitsBoth ==
  ASSUME NEW is, NEW js, NEW b, NEW s, NEW e
  PROVE  Hits(is \cup js, b, s, e) <=> (Hits(is, b, s, e) \/ Hits(js, b, s, e))
BY DEF Hits

\* What the picker offers the booking accepts, and what the booking accepts the picker hid
\* at most for a hold.
LEMMA PickerAndBooking ==
  ASSUME NEW q, DeskOk(q), NEW s \in Instants
  PROVE  /\ s \in OffersOf(q) =>
              \/ Verify(q, s) = "ok" \/ s <= q.now
              \/ s - q.buffer < q.now \/ s + q.length + q.buffer > q.now + Window
         /\ Verify(q, s) = "ok" => s \in OffersOf(q) \/ \E i \in q.held : Overlaps(s, s + q.length, i)
<1>1. /\ Day \in Nat /\ Window \in Nat /\ s \in Int /\ q.length \in Nat \ {0} /\ q.buffer \in Nat /\ q.buffer <= Day
      /\ q.now \in Nat /\ q.notice \in Nat /\ Spans(q.busy) /\ Spans(q.booked)
  BY SlotsAssumption DEF DeskOk, Instants
<1>2. PICK e \in Int : e = s + q.length
  BY <1>1
<1>3. PICK fresh : fresh = Within(q.busy, s - Day, s + q.length + Day)
  OBVIOUS
<1>4. PICK booked : booked = Within(q.booked, q.now, q.now + Window)
  OBVIOUS
<1>5. PICK busy : busy = Within(q.busy, q.now, q.now + Window)
  OBVIOUS
<1>6. Hits(fresh, q.buffer, s, e) <=> Hits(q.busy, q.buffer, s, e)
  <2>1. s - Day \in Int /\ s + q.length + Day \in Int /\ s - Day <= s - q.buffer /\ e + q.buffer <= s + q.length + Day
    BY <1>1, <1>2
  <2> QED BY <1>1, <1>3, <2>1, WithinHits
<1>7. s \in OffersOf(q) <=>
           /\ q.reachable /\ s >= q.now + q.notice /\ e <= q.now + Window
           /\ ~Hits(busy, q.buffer, s, e) /\ ~Hits(booked, q.buffer, s, e)
           /\ ~\E i \in q.held : Overlaps(s, e, i)
           /\ Fits(q, s)
  BY <1>2, <1>4, <1>5, OpenSays, HitsBoth DEF OffersOf
<1>8. Verify(q, s) = "ok" <=>
           /\ s > q.now /\ q.reachable /\ s >= q.now + q.notice /\ e <= q.now + Window
           /\ ~Hits(q.busy, q.buffer, s, e) /\ ~Hits(booked, q.buffer, s, e)
           /\ Fits(q, s)
  <2>1. IsSlot(q, s, Window, q.buffer, fresh, booked, {}) <=>
           /\ s >= q.now + q.notice /\ e <= q.now + Window
           /\ ~Hits(q.busy, q.buffer, s, e) /\ ~Hits(booked, q.buffer, s, e)
           /\ Fits(q, s)
    BY <1>2, <1>6, SlotSays, HitsBoth
  <2>2. Verify(q, s) = "ok" <=> ~(s <= q.now) /\ q.reachable /\ IsSlot(q, s, Window, q.buffer, fresh, booked, {})
    BY <1>3, <1>4 DEF Verify, ConfirmedIn
  <2>3. ~(s <= q.now) <=> s > q.now
    BY <1>1
  <2> QED BY <2>1, <2>2, <2>3
<1>9. Hits(busy, q.buffer, s, e) => Hits(q.busy, q.buffer, s, e)
  BY <1>5 DEF Hits, Within
<1>10. ASSUME q.now <= s - q.buffer, e + q.buffer <= q.now + Window
       PROVE  Hits(q.busy, q.buffer, s, e) => Hits(busy, q.buffer, s, e)
  <2>1. q.now \in Int /\ q.now + Window \in Int /\ s \in Int
    BY <1>1
  <2>2. Hits(Within(q.busy, q.now, q.now + Window), q.buffer, s, e) <=> Hits(q.busy, q.buffer, s, e)
    BY <1>1, <1>2, <1>10, <2>1, WithinHits
  <2> QED BY <1>5, <2>2
<1>11. ASSUME s \in OffersOf(q), s > q.now, ~(s - q.buffer < q.now), ~(s + q.length + q.buffer > q.now + Window)
       PROVE  Verify(q, s) = "ok"
  <2>1. q.now <= s - q.buffer /\ e + q.buffer <= q.now + Window
    BY <1>1, <1>2, <1>11
  <2> QED BY <1>7, <1>8, <1>10, <1>11, <2>1
<1>12. ASSUME Verify(q, s) = "ok", ~\E i \in q.held : Overlaps(s, s + q.length, i)
       PROVE  s \in OffersOf(q)
  BY <1>2, <1>7, <1>8, <1>9, <1>12
<1> QED BY <1>1, <1>11, <1>12

\* Who is listed as an alternative has a time to show that soon.
LEMMA AlternativesHaveTimes ==
  ASSUME NEW q, DeskOk(q), NEW s
  PROVE  /\ s \in OffersOf(q) /\ s + q.length <= q.now + Horizon => s \in BackupSlots(q)
         /\ s \in BackupSlots(q) /\ ~(s + q.length + q.buffer > q.now + Horizon) =>
              s \in OffersOf(q) /\ s + q.length <= q.now + Horizon
<1>1. /\ Window \in Nat /\ Horizon \in Nat /\ Horizon <= Window /\ q.length \in Nat /\ q.buffer \in Nat /\ q.now \in Nat
      /\ Spans(q.busy) /\ Spans(q.booked)
  BY SlotsAssumption DEF DeskOk
<1>2. \A w : Hits(Within(q.busy, q.now, q.now + w) \cup Within(q.booked, q.now, q.now + w), q.buffer, s, s + q.length)
             <=> \/ \E i \in q.busy : i.from < q.now + w /\ i.to > q.now /\ s < i.to + q.buffer /\ s + q.length > i.from - q.buffer
                 \/ \E i \in q.booked : i.from < q.now + w /\ i.to > q.now /\ s < i.to + q.buffer /\ s + q.length > i.from - q.buffer
  BY DEF Hits, Within
<1>3. \A i \in q.busy \cup q.booked : i.from \in Int /\ i.to \in Int
  BY <1>1 DEF Spans
<1>4. ASSUME s \in OffersOf(q), s + q.length <= q.now + Horizon PROVE s \in BackupSlots(q)
  <2>1. \A i \in q.busy \cup q.booked : i.from < q.now + Horizon => i.from < q.now + Window
    BY <1>1, <1>3
  <2> QED BY <1>2, <1>4, <2>1, OpenSays DEF OffersOf, BackupSlots
<1>5. ASSUME s \in BackupSlots(q), ~(s + q.length + q.buffer > q.now + Horizon)
      PROVE  s \in OffersOf(q) /\ s + q.length <= q.now + Horizon
  <2>1. s \in Int /\ s + q.length <= q.now + Horizon
    <3>1. s \in Instants /\ s + q.length <= q.now + Horizon
      BY <1>5, OpenSays DEF BackupSlots
    <3> QED BY <3>1, SlotsAssumption DEF Instants
  <2>2. s + q.length <= q.now + Window
    BY <1>1, <2>1
  <2>3. \A i \in q.busy \cup q.booked : s + q.length > i.from - q.buffer => i.from < q.now + Horizon
    BY <1>1, <1>3, <1>5, <2>1
  <2> QED BY <1>2, <1>5, <2>1, <2>2, <2>3, OpenSays DEF OffersOf, BackupSlots
<1> QED BY <1>4, <1>5

-----------------------------------------------------------------------------
\* The clock of the two days asked about, wall time by wall time.
LEMMA Lengths ==
  ASSUME NEW c \in {"plain", "spring", "autumn"}
  PROVE  /\ Long(c) = IF c = "plain" THEN Day ELSE IF c = "spring" THEN Day - 2 ELSE Day + 2
         /\ DayStart(c, 1) = 0 /\ DayStart(c, 2) = Long(c) /\ DayStart(c, 3) = Long(c) + Day
<1>1. DayStart(c, 1) = 0 /\ DayStart(c, 2) = Long(c) /\ DayStart(c, 3) = Long(c) + Day
  BY DEF DayStart
<1> QED BY <1>1 DEF Long

LEMMA WallIs ==
  ASSUME NEW c \in {"plain", "spring", "autumn"}, NEW m \in 0..Day
  PROVE  /\ WallTime(c, 1, m) = IF c = "plain" \/ m < Gap THEN m
                                ELSE IF c = "spring" THEN IF m < Gap + 2 THEN Never ELSE m - 2
                                ELSE IF m < Gap + 2 THEN m ELSE m + 2
         /\ WallTime(c, 2, m) = Long(c) + m
<1>1. Day \in Nat /\ Gap \in Nat /\ Gap + 2 <= Day
  BY SlotsAssumption
<1>2. 1 + 1 = 2 /\ 2 + 1 = 3
  OBVIOUS
<1>3. WallTime(c, 2, m) = Long(c) + m
  BY <1>1, <1>2, Lengths DEF WallTime
<1>4. CASE m = Day
  BY <1>1, <1>2, <1>3, <1>4, Lengths DEF WallTime
<1>5. CASE m # Day
  <2>1. WallTime(c, 1, m) = IF m < Gap \/ c = "plain" THEN 0 + m
                            ELSE IF c = "spring" THEN IF m < Gap + 2 THEN Never ELSE 0 + m - 2
                            ELSE IF m < Gap + 2 THEN 0 + m ELSE 0 + m + 2
    BY <1>5, Lengths DEF WallTime
  <2> QED BY <1>1, <1>3, <2>1
<1> QED BY <1>4, <1>5

LEMMA ReadsIs ==
  ASSUME NEW c \in {"plain", "spring", "autumn"}, NEW t \in Nat
  PROVE  /\ DayOf(c, t) = IF t < Long(c) THEN 1 ELSE 2
         /\ t < Long(c) =>
              /\ Reads(c, t).minute = IF c = "plain" \/ t < Gap THEN t
                                      ELSE IF c = "spring" THEN t + 2 ELSE IF t < Gap + 2 THEN t ELSE t - 2
              /\ Reads(c, t).again <=> c = "autumn" /\ t \in (Gap + 2)..(Gap + 3)
         /\ ~(t < Long(c)) => Reads(c, t).minute = t - Long(c) /\ ~Reads(c, t).again
<1>1. DayOf(c, t) = IF t < Long(c) THEN 1 ELSE 2
  BY DEF DayOf
<1>2. PICK m : m = t - DayStart(c, DayOf(c, t))
  OBVIOUS
<1>3. Reads(c, t) = IF DayOf(c, t) = 2 \/ c = "plain" \/ m < Gap THEN [minute |-> m, again |-> FALSE]
                    ELSE IF c = "spring" THEN [minute |-> m + 2, again |-> FALSE]
                    ELSE [minute |-> IF m < Gap + 2 THEN m ELSE m - 2, again |-> m \in (Gap + 2)..(Gap + 3)]
  BY <1>2 DEF Reads
<1>4. /\ Reads(c, t).minute = IF DayOf(c, t) = 2 \/ c = "plain" \/ m < Gap THEN m
                              ELSE IF c = "spring" THEN m + 2 ELSE IF m < Gap + 2 THEN m ELSE m - 2
      /\ Reads(c, t).again <=> /\ ~(DayOf(c, t) = 2 \/ c = "plain" \/ m < Gap) /\ c # "spring"
                               /\ m \in (Gap + 2)..(Gap + 3)
  <2>1. CASE DayOf(c, t) = 2 \/ c = "plain" \/ m < Gap
    BY <1>3, <2>1
  <2>2. CASE ~(DayOf(c, t) = 2 \/ c = "plain" \/ m < Gap) /\ c = "spring"
    BY <1>3, <2>2
  <2>3. CASE ~(DayOf(c, t) = 2 \/ c = "plain" \/ m < Gap) /\ c # "spring"
    <3>1. Reads(c, t) = [minute |-> IF m < Gap + 2 THEN m ELSE m - 2, again |-> m \in (Gap + 2)..(Gap + 3)]
      BY <1>3, <2>3
    <3>2. Reads(c, t).minute = IF m < Gap + 2 THEN m ELSE m - 2
      BY <3>1
    <3>3. Reads(c, t).again = (m \in (Gap + 2)..(Gap + 3))
      BY <3>1
    <3> QED BY <2>3, <3>2, <3>3
  <2> QED BY <2>1, <2>2, <2>3
<1>5. CASE t < Long(c)
  <2>1. DayOf(c, t) = 1 /\ m = t
    BY <1>1, <1>2, <1>5, Lengths
  <2>2. Gap \in Nat
    BY SlotsAssumption
  <2> QED BY <1>1, <1>4, <1>5, <2>1, <2>2
<1>6. CASE ~(t < Long(c))
  <2>1. DayOf(c, t) = 2 /\ m = t - Long(c)
    BY <1>1, <1>2, <1>6, Lengths
  <2> QED BY <1>1, <1>4, <1>6, <2>1
<1> QED BY <1>5, <1>6

LEMMA ClockShape ==
  ASSUME NEW c \in {"plain", "spring", "autumn"}
  PROVE  /\ Day \in Nat /\ Gap \in Nat /\ Gap + 2 <= Day /\ Never = -1
         /\ Long(c) \in Nat /\ (c = "plain" => Long(c) = Day) /\ (c = "spring" => Long(c) = Day - 2)
         /\ (c = "autumn" => Long(c) = Day + 2)
         /\ DayStart(c, 3) = Long(c) + Day
BY SlotsAssumption, Lengths DEF Never

\* A reading that is no repetition leads back to its instant, and the first instant that
\* has a wall time reads it.
LEMMA ReadsBack ==
  ASSUME NEW c \in {"plain", "spring", "autumn"}, NEW s \in Nat, s < DayStart(c, 3), ~Reads(c, s).again
  PROVE  /\ Reads(c, s).minute \in 0..(Day - 1) /\ DayOf(c, s) \in 1..2
         /\ WallTime(c, DayOf(c, s), Reads(c, s).minute) = s
<1>1. PICK m : m = Reads(c, s).minute
  OBVIOUS
<1>2. CASE s < Long(c)
  <2>1. /\ DayOf(c, s) = 1
        /\ m = IF c = "plain" \/ s < Gap THEN s ELSE IF c = "spring" THEN s + 2 ELSE IF s < Gap + 2 THEN s ELSE s - 2
        /\ ~(c = "autumn" /\ s \in (Gap + 2)..(Gap + 3))
    BY <1>1, <1>2, ReadsIs
  <2>2. m \in 0..(Day - 1)
    BY <1>2, <2>1, ClockShape
  <2>3. WallTime(c, 1, m) = IF c = "plain" \/ m < Gap THEN m
                            ELSE IF c = "spring" THEN IF m < Gap + 2 THEN Never ELSE m - 2
                            ELSE IF m < Gap + 2 THEN m ELSE m + 2
    <3>1. m \in 0..Day
      BY <2>2, ClockShape
    <3> QED BY <3>1, WallIs
  <2>4. WallTime(c, 1, m) = s
    BY <1>2, <2>1, <2>2, <2>3, ClockShape
  <2> QED BY <1>1, <2>1, <2>2, <2>4
<1>3. CASE ~(s < Long(c))
  <2>1. DayOf(c, s) = 2 /\ m = s - Long(c)
    BY <1>1, <1>3, ReadsIs
  <2>2. m \in 0..(Day - 1) /\ m \in 0..Day
    BY <1>3, <2>1, ClockShape
  <2>3. WallTime(c, 2, m) = Long(c) + m
    BY <2>2, WallIs
  <2>4. WallTime(c, 2, m) = s
    BY <2>1, <2>2, <2>3, ClockShape
  <2> QED BY <1>1, <2>1, <2>2, <2>4
<1> QED BY <1>2, <1>3

LEMMA WallReads ==
  ASSUME NEW c \in {"plain", "spring", "autumn"}, NEW d \in 1..2, NEW m \in 0..(Day - 1), NEW s \in Nat,
         WallTime(c, d, m) = s
  PROVE  s < DayStart(c, 3) /\ DayOf(c, s) = d /\ Reads(c, s).minute = m /\ ~Reads(c, s).again
<1>1. m \in 0..Day /\ m \in Nat /\ m < Day
  BY ClockShape
<1>2. CASE d = 1
  <2>1. s = IF c = "plain" \/ m < Gap THEN m
            ELSE IF c = "spring" THEN IF m < Gap + 2 THEN Never ELSE m - 2
            ELSE IF m < Gap + 2 THEN m ELSE m + 2
    BY <1>1, <1>2, WallIs
  <2>2. s < Long(c)
    BY <1>1, <2>1, ClockShape
  <2>3. /\ DayOf(c, s) = 1
        /\ Reads(c, s).minute = IF c = "plain" \/ s < Gap THEN s ELSE IF c = "spring" THEN s + 2 ELSE IF s < Gap + 2 THEN s ELSE s - 2
        /\ Reads(c, s).again <=> c = "autumn" /\ s \in (Gap + 2)..(Gap + 3)
    BY <2>2, ReadsIs
  <2>4. ~(c = "autumn" /\ s \in (Gap + 2)..(Gap + 3))
    BY <1>1, <2>1, ClockShape
  <2>5. Reads(c, s).minute = m
    BY <1>1, <2>1, <2>3, ClockShape
  <2> QED BY <1>2, <2>2, <2>3, <2>4, <2>5, ClockShape
<1>3. CASE d = 2
  <2>1. s = Long(c) + m
    BY <1>1, <1>3, WallIs
  <2>2. ~(s < Long(c)) /\ s - Long(c) = m /\ s < DayStart(c, 3)
    BY <1>1, <2>1, ClockShape
  <2> QED BY <1>3, <2>2, ReadsIs
<1> QED BY <1>2, <1>3

\* A block is open as long as its closing time has not been read.
LEMMA BeforeClose ==
  ASSUME NEW c \in {"plain", "spring", "autumn"}, NEW close \in 1..Day, NEW t \in Nat, t < DayStart(c, 3),
         WallTime(c, DayOf(c, t), close) # Never
  PROVE  /\ WallTime(c, DayOf(c, t), close) \in Nat
         /\ t < WallTime(c, DayOf(c, t), close) <=>
              \A u \in 0..t : DayOf(c, u) = DayOf(c, t) => Reads(c, u).minute < close
<1>1. close \in 0..Day /\ close \in Nat /\ close <= Day
  BY ClockShape
<1>2. CASE t < Long(c)
  <2>1. DayOf(c, t) = 1 /\ \A u \in 0..t : u \in Nat /\ u < Long(c) /\ DayOf(c, u) = 1
    <3>1. \A u \in 0..t : u \in Nat /\ u < Long(c)
      <4>1. Long(c) \in Nat
        BY ClockShape
      <4> QED BY <1>2, <4>1
    <3>2. \A u \in Nat : u < Long(c) => DayOf(c, u) = 1
      BY ReadsIs
    <3> QED BY <1>2, <3>1, <3>2
  <2>2. PICK w : w = WallTime(c, 1, close)
    OBVIOUS
  <2>3. w = (IF c = "plain" \/ close < Gap THEN close
             ELSE IF c = "spring" THEN IF close < Gap + 2 THEN Never ELSE close - 2
             ELSE IF close < Gap + 2 THEN close ELSE close + 2) /\ w # Never
    BY <1>1, <2>1, <2>2, WallIs
  <2>4. w \in Nat
    BY <1>1, <2>3, ClockShape
  <2>5. \A u \in 0..t : Reads(c, u).minute = IF c = "plain" \/ u < Gap THEN u ELSE IF c = "spring" THEN u + 2
                                             ELSE IF u < Gap + 2 THEN u ELSE u - 2
    BY <2>1, ReadsIs
  <2>6. ASSUME t < w, NEW u \in 0..t PROVE Reads(c, u).minute < close
    <3>1. u \in Nat /\ u < w
      BY <2>4, <2>6
    <3>2. Reads(c, u).minute = IF c = "plain" \/ u < Gap THEN u ELSE IF c = "spring" THEN u + 2
                               ELSE IF u < Gap + 2 THEN u ELSE u - 2
      BY <2>5
    <3> QED BY <1>1, <2>3, <3>1, <3>2, ClockShape
  <2>7. ASSUME ~(t < w) PROVE \E u \in 0..t : ~(Reads(c, u).minute < close)
    <3>1. w \in 0..t
      BY <2>4, <2>7
    <3>2. Reads(c, w).minute = IF c = "plain" \/ w < Gap THEN w ELSE IF c = "spring" THEN w + 2
                               ELSE IF w < Gap + 2 THEN w ELSE w - 2
      BY <2>5, <3>1
    <3>3. ~(Reads(c, w).minute < close)
      BY <1>1, <2>3, <2>4, <3>2, ClockShape
    <3> QED BY <3>1, <3>3
  <2> QED BY <2>1, <2>2, <2>4, <2>6, <2>7
<1>3. CASE ~(t < Long(c))
  <2>1. DayOf(c, t) = 2
    BY <1>3, ReadsIs
  <2>2. WallTime(c, 2, close) = Long(c) + close
    BY <1>1, WallIs
  <2>3. \A u \in 0..t : u \in Nat /\ (DayOf(c, u) = 2 <=> ~(u < Long(c)))
                        /\ (~(u < Long(c)) => Reads(c, u).minute = u - Long(c))
    BY ReadsIs
  <2>4. ASSUME t < Long(c) + close, NEW u \in 0..t, DayOf(c, u) = 2 PROVE Reads(c, u).minute < close
    BY <1>1, <2>3, <2>4, ClockShape
  <2>5. ASSUME ~(t < Long(c) + close) PROVE \E u \in 0..t : DayOf(c, u) = 2 /\ ~(Reads(c, u).minute < close)
    <3>1. PICK w : w = Long(c) + close
      OBVIOUS
    <3>2. w \in 0..t /\ ~(w < Long(c)) /\ w - Long(c) = close
      BY <1>1, <2>5, <3>1, ClockShape
    <3> QED BY <1>1, <2>3, <3>2
  <2> QED BY <1>1, <2>1, <2>2, <2>4, <2>5, ClockShape
<1> QED BY <1>2, <1>3

\* What has been read before a reading that is no repetition is not later.
LEMMA ReadsGrow ==
  ASSUME NEW c \in {"plain", "spring", "autumn"}, NEW s \in Nat, ~Reads(c, s).again,
         NEW u \in 0..s, DayOf(c, u) = DayOf(c, s)
  PROVE  Reads(c, u).minute <= Reads(c, s).minute /\ Reads(c, u).minute \in Int /\ Reads(c, s).minute \in Int
<1>1. u \in Nat /\ u <= s
  OBVIOUS
<1>2. CASE s < Long(c)
  <2>1. u < Long(c)
    BY <1>1, <1>2, ClockShape
  <2>2. /\ Reads(c, u).minute = IF c = "plain" \/ u < Gap THEN u ELSE IF c = "spring" THEN u + 2
                                ELSE IF u < Gap + 2 THEN u ELSE u - 2
        /\ Reads(c, s).minute = IF c = "plain" \/ s < Gap THEN s ELSE IF c = "spring" THEN s + 2
                                ELSE IF s < Gap + 2 THEN s ELSE s - 2
        /\ ~(c = "autumn" /\ s \in (Gap + 2)..(Gap + 3))
    BY <1>1, <1>2, <2>1, ReadsIs
  <2> QED BY <1>1, <2>2, ClockShape
<1>3. CASE ~(s < Long(c))
  <2>1. ~(u < Long(c))
    <3>1. DayOf(c, s) = 2 /\ (u < Long(c) => DayOf(c, u) = 1)
      BY <1>1, <1>3, ReadsIs
    <3> QED BY <3>1
  <2>2. Reads(c, u).minute = u - Long(c) /\ Reads(c, s).minute = s - Long(c)
    BY <1>1, <1>3, <2>1, ReadsIs
  <2> QED BY <1>1, <2>2, ClockShape
<1> QED BY <1>2, <1>3
\* The answer of computeSlots for one start, half hour by half hour.
LEMMA AtWorkSays ==
  ASSUME NEW q, NEW r, NEW t
  PROVE  AtWork(q, r, t) <=>
           /\ t < DayStart(q.clock, 3)
           /\ \E u \in 0..t : DayOf(q.clock, u) = DayOf(q.clock, t) /\ Reads(q.clock, u).minute >= r.open
           /\ \A u \in 0..t : DayOf(q.clock, u) = DayOf(q.clock, t) => Reads(q.clock, u).minute < r.close
BY DEF AtWork

\* Half hour by half hour, the call that starts at s lies in the block r, on its grid.
BlockHas(q, r, s) ==
  /\ ~Reads(q.clock, s).again /\ (Reads(q.clock, s).minute - r.open) % q.grain = 0
  /\ Reads(q.clock, s).minute + q.length <= r.close
  /\ ~(q.clock = "spring" /\ DayOf(q.clock, s) = 1 /\ r.close \in Gap..(Gap + 1))
  /\ \A t \in s..(s + q.length - 1) : AtWork(q, r, t) /\ DayOf(q.clock, t) = DayOf(q.clock, s)

\* The block's grid offers s on day d.
BlockOffers(q, d, r, s) ==
  /\ WallTime(q.clock, d, r.close) # Never
  /\ s + q.length <= WallTime(q.clock, d, r.close)
  /\ \E m \in r.open..(r.close - q.length) : (m - r.open) % q.grain = 0 /\ WallTime(q.clock, d, m) = s

\* A closing time is skipped on the first day in spring only, and lies in its day.
LEMMA ClosingIs ==
  ASSUME NEW c \in {"plain", "spring", "autumn"}, NEW close \in 1..Day, NEW d \in 1..2
  PROVE  /\ WallTime(c, d, close) = Never <=> c = "spring" /\ d = 1 /\ close \in Gap..(Gap + 1)
         /\ WallTime(c, d, close) \in Int
         /\ d = 1 => WallTime(c, d, close) <= Long(c)
         /\ d = 2 => WallTime(c, d, close) <= DayStart(c, 3)
<1>1. close \in 0..Day /\ close \in Nat /\ close <= Day
  BY ClockShape
<1>2. CASE d = 1
  <2>1. PICK w : w = WallTime(c, d, close)
    OBVIOUS
  <2>2. w = IF c = "plain" \/ close < Gap THEN close
            ELSE IF c = "spring" THEN IF close < Gap + 2 THEN Never ELSE close - 2
            ELSE IF close < Gap + 2 THEN close ELSE close + 2
    BY <1>1, <1>2, <2>1, WallIs
  <2>3. w = Never <=> c = "spring" /\ close \in Gap..(Gap + 1)
    BY <1>1, <2>2, ClockShape
  <2>4. w \in Int /\ w <= Long(c)
    BY <1>1, <2>2, ClockShape
  <2> QED BY <1>2, <2>1, <2>3, <2>4
<1>3. CASE d = 2
  <2>1. WallTime(c, d, close) = Long(c) + close
    BY <1>1, <1>3, WallIs
  <2> QED BY <1>1, <1>3, <2>1, ClockShape
<1> QED BY <1>2, <1>3

LEMMA OfferedFits ==
  ASSUME NEW q, DeskOk(q), NEW r \in q.hours, NEW d \in 1..2, NEW s \in Nat, BlockOffers(q, d, r, s)
  PROVE  BlockHas(q, r, s)
<1>1. PICK c \in {"plain", "spring", "autumn"} : c = q.clock
  BY DEF DeskOk
<1>2. PICK n \in Nat \ {0} : n = q.length
  BY DEF DeskOk
<1>3. r.open \in Nat /\ r.close \in 1..Day /\ r.close \in Nat /\ r.close <= Day /\ Day \in Nat
  BY SlotsAssumption DEF DeskOk
<1>4. PICK m \in r.open..(r.close - n) : (m - r.open) % q.grain = 0 /\ WallTime(c, d, m) = s
  BY <1>1, <1>2 DEF BlockOffers
<1>5. PICK end : end = WallTime(c, d, r.close)
  OBVIOUS
<1>6. end # Never /\ s + n <= end
  BY <1>1, <1>2, <1>5 DEF BlockOffers
<1>7. m \in 0..(Day - 1) /\ m + n <= r.close /\ m >= r.open /\ m \in Nat
  BY <1>2, <1>3, <1>4
<1>8. s < DayStart(c, 3) /\ DayOf(c, s) = d /\ Reads(c, s).minute = m /\ ~Reads(c, s).again
  BY <1>4, <1>7, WallReads
<1>9. ~(c = "spring" /\ d = 1 /\ r.close \in Gap..(Gap + 1)) /\ end \in Int
  BY <1>3, <1>5, <1>6, ClosingIs
<1>10. ASSUME NEW t \in s..(s + n - 1) PROVE AtWork(q, r, t) /\ DayOf(c, t) = d
  <2>1. t \in Nat /\ s <= t /\ t < end
    BY <1>2, <1>6, <1>9
  <2>2. DayOf(c, t) = d /\ t < DayStart(c, 3)
    <3>1. CASE d = 1
      <4>1. t < Long(c)
        BY <1>3, <1>5, <1>9, <2>1, <3>1, ClosingIs, ClockShape
      <4>2. DayOf(c, t) = 1
        BY <2>1, <4>1, ReadsIs
      <4> QED BY <1>3, <3>1, <4>1, <4>2, ClockShape
    <3>2. CASE d = 2
      <4>1. t < DayStart(c, 3)
        BY <1>3, <1>5, <1>9, <2>1, <3>2, ClosingIs, ClockShape
      <4>2. ~(s < Long(c))
        BY <1>8, <3>2, ReadsIs
      <4>3. ~(t < Long(c))
        BY <2>1, <4>2, ClockShape
      <4> QED BY <2>1, <3>2, <4>1, <4>3, ReadsIs
    <3> QED BY <3>1, <3>2
  <2>3. WallTime(c, DayOf(c, t), r.close) # Never
    BY <1>5, <1>6, <2>2
  <2>4. t < WallTime(c, DayOf(c, t), r.close)
    BY <1>5, <2>1, <2>2
  <2>5. \A u \in 0..t : DayOf(c, u) = DayOf(c, t) => Reads(c, u).minute < r.close
    BY <1>3, <2>1, <2>2, <2>3, <2>4, BeforeClose
  <2>6. s \in 0..t /\ DayOf(c, s) = DayOf(c, t) /\ Reads(c, s).minute >= r.open
    BY <1>7, <1>8, <2>1, <2>2
  <2> QED BY <1>1, <2>2, <2>5, <2>6, AtWorkSays
<1> QED BY <1>1, <1>2, <1>4, <1>7, <1>8, <1>9, <1>10 DEF BlockHas

LEMMA FittingIsOffered ==
  ASSUME NEW q, DeskOk(q), NEW r \in q.hours, NEW s \in Nat, s < DayStart(q.clock, 3), BlockHas(q, r, s)
  PROVE  BlockOffers(q, DayOf(q.clock, s), r, s) /\ DayOf(q.clock, s) \in 1..2
<1>1. PICK c \in {"plain", "spring", "autumn"} : c = q.clock
  BY DEF DeskOk
<1>2. PICK n \in Nat \ {0} : n = q.length
  BY DEF DeskOk
<1>3. r.open \in Nat /\ r.close \in 1..Day /\ r.close \in Nat /\ r.close <= Day /\ Day \in Nat
  BY SlotsAssumption DEF DeskOk
<1>4. PICK m : m = Reads(c, s).minute
  OBVIOUS
<1>5. PICK d : d = DayOf(c, s)
  OBVIOUS
<1>6. m \in 0..(Day - 1) /\ d \in 1..2 /\ WallTime(c, d, m) = s
  BY <1>1, <1>4, <1>5, ReadsBack DEF BlockHas
<1>7. (m - r.open) % q.grain = 0 /\ m + n <= r.close /\ ~(c = "spring" /\ d = 1 /\ r.close \in Gap..(Gap + 1))
  BY <1>1, <1>2, <1>4, <1>5 DEF BlockHas
<1>8. PICK end : end = WallTime(c, d, r.close)
  OBVIOUS
<1>9. end # Never /\ end \in Int
  BY <1>3, <1>6, <1>7, <1>8, ClosingIs
<1>10. m >= r.open
  <2>1. s \in s..(s + n - 1)
    OBVIOUS
  <2>2. AtWork(q, r, s)
    BY <1>2, <2>1 DEF BlockHas
  <2>3. PICK u \in 0..s : DayOf(c, u) = DayOf(c, s) /\ Reads(c, u).minute >= r.open
    BY <1>1, <2>2, AtWorkSays
  <2>4. Reads(c, u).minute <= m /\ Reads(c, u).minute \in Int /\ m \in Int
    BY <1>1, <1>4, <2>3, ReadsGrow DEF BlockHas
  <2> QED BY <1>3, <2>3, <2>4
<1>11. s + n <= end
  <2>1. PICK t \in Nat : t = s + n - 1
    OBVIOUS
  <2>2. t \in s..(s + n - 1)
    BY <2>1
  <2>3. AtWork(q, r, t) /\ DayOf(c, t) = d
    BY <1>1, <1>2, <1>5, <2>2 DEF BlockHas
  <2>4. t < DayStart(c, 3) /\ \A u \in 0..t : DayOf(c, u) = DayOf(c, t) => Reads(c, u).minute < r.close
    BY <1>1, <2>3, AtWorkSays
  <2>5. WallTime(c, DayOf(c, t), r.close) # Never
    BY <1>8, <1>9, <2>3
  <2>6. t < end
    BY <1>3, <1>8, <2>3, <2>4, <2>5, BeforeClose
  <2> QED BY <1>9, <2>1, <2>6
<1>12. m \in r.open..(r.close - n)
  BY <1>2, <1>3, <1>6, <1>7, <1>10
<1> QED BY <1>1, <1>2, <1>5, <1>6, <1>7, <1>8, <1>9, <1>11, <1>12 DEF BlockOffers

LEMMA FitsIs ==
  ASSUME NEW q, DeskOk(q), NEW s \in Nat, s < DayStart(q.clock, 3)
  PROVE  Fits(q, s) <=> \E r \in q.hours : BlockHas(q, r, s)
<1>1. Fits(q, s) <=> \E d \in 1..2, r \in q.hours : BlockOffers(q, d, r, s)
  BY DEF Fits, BlockOffers
<1> QED BY <1>1, OfferedFits, FittingIsOffered

\* An interval meets the call and the buffers around it when it takes one of their half hours.
LEMMA HitsIsTaken ==
  ASSUME NEW is, Spans(is), NEW b \in Nat, NEW s \in Int, NEW e \in Int, s < e
  PROVE  Hits(is, b, s, e) <=> \E t \in (s - b)..(e + b - 1) : \E i \in is : i.from <= t /\ t < i.to
<1>1. ASSUME NEW i \in is, s < i.to + b, e > i.from - b
      PROVE  \E t \in (s - b)..(e + b - 1) : i.from <= t /\ t < i.to
  <2>1. i.from \in Int /\ i.to \in Int /\ i.from < i.to
    BY DEF Spans
  <2>2. PICK f \in Int : f = i.from
    BY <2>1
  <2>3. CASE f <= s - b
    <3>1. s - b \in (s - b)..(e + b - 1) /\ i.from <= s - b /\ s - b < i.to
      BY <1>1, <2>1, <2>2, <2>3
    <3> QED BY <3>1
  <2>4. CASE ~(f <= s - b)
    <3>1. f \in (s - b)..(e + b - 1) /\ i.from <= f /\ f < i.to
      BY <1>1, <2>1, <2>2, <2>4
    <3> QED BY <3>1
  <2> QED BY <2>3, <2>4
<1>2. ASSUME NEW i \in is, NEW t \in (s - b)..(e + b - 1), i.from <= t, t < i.to
      PROVE  s < i.to + b /\ e > i.from - b
  <2>1. i.from \in Int /\ i.to \in Int
    BY DEF Spans
  <2> QED BY <1>2, <2>1
<1> QED BY <1>1, <1>2 DEF Hits
LEMMA OffersAreFree ==
  ASSUME NEW q, DeskOk(q), q.reachable, NEW s \in 0..(DayStart(q.clock, 3) - 1),
         s - q.buffer >= q.now, s + q.length + q.buffer <= q.now + Window
  PROVE  s \in OffersOf(q) <=>
           /\ s >= q.now + q.notice /\ s + q.length <= q.now + Window
           /\ \A t \in (s - q.buffer)..(s + q.length + q.buffer - 1) :
                ~\E i \in q.busy \cup q.booked : i.from <= t /\ t < i.to
           /\ \A t \in s..(s + q.length - 1) : ~\E i \in q.held : i.from <= t /\ t < i.to
           /\ \E r \in q.hours : BlockHas(q, r, s)
<1>1. /\ Day \in Nat /\ Window \in Nat /\ q.length \in Nat \ {0} /\ q.buffer \in Nat
      /\ q.now \in Nat /\ Spans(q.busy) /\ Spans(q.booked) /\ Spans(q.held)
  BY SlotsAssumption DEF DeskOk
<1>2. DayStart(q.clock, 3) \in Nat /\ DayStart(q.clock, 3) <= 2 * Day + 2
  BY ClockShape DEF DeskOk
<1>3. s \in Nat /\ s < DayStart(q.clock, 3) /\ s \in Instants
  BY <1>1, <1>2 DEF Instants
<1>4. PICK e \in Int : e = s + q.length /\ s < e
  BY <1>1, <1>3
<1>5. PICK from \in Int : from = q.now
  BY <1>1
<1>6. PICK to \in Int : to = q.now + Window
  BY <1>1
<1>7. PICK b \in Nat : b = q.buffer
  BY <1>1
<1>8. from <= s - b /\ e + b <= to
  BY <1>1, <1>3, <1>4, <1>5, <1>6, <1>7
<1>9. /\ Hits(Within(q.busy, from, to), b, s, e) <=> Hits(q.busy, b, s, e)
      /\ Hits(Within(q.booked, from, to), b, s, e) <=> Hits(q.booked, b, s, e)
  BY <1>1, <1>3, <1>4, <1>8, WithinHits
<1>10. PICK all : all = q.busy \cup q.booked
  OBVIOUS
<1>11. Spans(all)
  BY <1>1, <1>10 DEF Spans
<1>12. Hits(Within(q.busy, from, to) \cup Within(q.booked, from, to), b, s, e) <=> Hits(all, b, s, e)
  BY <1>9, <1>10, HitsBoth
<1>13. Hits(all, b, s, e) <=> \E t \in (s - b)..(e + b - 1) : \E i \in all : i.from <= t /\ t < i.to
  BY <1>3, <1>4, <1>11, HitsIsTaken
<1>14. Hits(q.held, 0, s, e) <=> \E t \in s..(e - 1) : \E i \in q.held : i.from <= t /\ t < i.to
  <2>1. s - 0 = s /\ e + 0 - 1 = e - 1 /\ 0 \in Nat
    BY <1>3, <1>4
  <2>2. Hits(q.held, 0, s, e) <=> \E t \in (s - 0)..(e + 0 - 1) : \E i \in q.held : i.from <= t /\ t < i.to
    BY <1>1, <1>3, <1>4, <2>1, HitsIsTaken
  <2> QED BY <2>1, <2>2
<1>15. (\E i \in q.held : Overlaps(s, e, i)) <=> Hits(q.held, 0, s, e)
  <2>1. \A i \in q.held : i.to + 0 = i.to /\ i.from - 0 = i.from
    BY <1>1 DEF Spans
  <2> QED BY <2>1 DEF Overlaps, Hits
<1>16. s \in OffersOf(q) <=>
           /\ s >= q.now + q.notice /\ e <= to
           /\ ~Hits(all, b, s, e)
           /\ ~\E i \in q.held : Overlaps(s, e, i)
           /\ Fits(q, s)
  BY <1>3, <1>4, <1>5, <1>6, <1>7, <1>12, OpenSays DEF OffersOf
<1>17. Fits(q, s) <=> \E r \in q.hours : BlockHas(q, r, s)
  BY <1>3, FitsIs
<1>18. \A t : t \in (s - q.buffer)..(s + q.length + q.buffer - 1) <=> t \in (s - b)..(e + b - 1)
  BY <1>4, <1>7
<1>19. s + q.length - 1 = e - 1
  BY <1>1, <1>3, <1>4
<1> QED BY <1>4, <1>6, <1>10, <1>13, <1>14, <1>15, <1>16, <1>17, <1>18, <1>19

\* The inputs are managers of that kind.
LEMMA DesksAreOk == \A q \in Desks : DeskOk(q)
<1>1. /\ Day \in Nat /\ Clocks \subseteq {"plain", "spring", "autumn"} /\ CallLengths \subseteq Nat \ {0}
      /\ Buffers \subseteq 0..Day /\ Nows \subseteq Nat
  BY SlotsAssumption
<1>2. \A starts \in SUBSET Nat : \A is \in Hour(starts) : Spans(is)
  <2> SUFFICES ASSUME NEW starts \in SUBSET Nat, NEW is \in Hour(starts) PROVE Spans(is)
    OBVIOUS
  <2>1. \A t \in starts : t \in Int /\ t + 2 \in Int /\ t < t + 2
    OBVIOUS
  <2> QED BY <2>1 DEF Hour, Spans
<1>3. \A is \in {{}} : Spans(is)
  BY DEF Spans
<1>4. Instants \in SUBSET Nat /\ {4} \in SUBSET Nat /\ {1, 4, 7} \in SUBSET Nat /\ {3, 6, 9} \in SUBSET Nat
  BY <1>1 DEF Instants
<1>5. \A r \in Blocks : r.open \in 0..Day /\ r.close \in 1..Day /\ r.open < r.close
  BY DEF Blocks
<1>6. [open |-> 0, close |-> Day].open \in 0..Day /\ [open |-> 0, close |-> Day].close \in 1..Day
      /\ [open |-> 0, close |-> Day].open < [open |-> 0, close |-> Day].close
  BY SlotsAssumption
<1>7. ASSUME NEW q \in DesksByHours PROVE DeskOk(q)
  <2>1. /\ q.clock \in Clocks /\ q.length \in CallLengths /\ q.grain = 1 /\ q.buffer \in Buffers
        /\ q.notice \in {0, 2} /\ q.now \in Nows /\ q.busy \in Hour({4}) /\ q.booked = {} /\ q.held = {}
    BY <1>7 DEF DesksByHours
  <2>2. q.hours \in {{r} : r \in Blocks} \cup {{r1, r2} : r1, r2 \in {r \in Blocks : r.close - r.open = 3}}
    BY <1>7 DEF DesksByHours
  <2>3. \A r \in q.hours : r \in Blocks
    BY <2>2
  <2>4. Spans(q.busy) /\ Spans(q.booked) /\ Spans(q.held)
    BY <1>2, <1>3, <1>4, <2>1
  <2>5. \A r \in q.hours : r.open \in 0..Day /\ r.close \in 1..Day /\ r.open < r.close
    BY <1>5, <2>3
  <2>6. /\ q.clock \in {"plain", "spring", "autumn"} /\ q.length \in Nat \ {0} /\ q.grain \in Nat \ {0}
        /\ q.buffer \in 0..Day /\ q.notice \in Nat /\ q.now \in Nat
    <3>1. q.clock \in {"plain", "spring", "autumn"}
      BY <1>1, <2>1
    <3>2. q.length \in Nat \ {0}
      BY <1>1, <2>1
    <3>3. q.grain \in Nat \ {0} /\ q.notice \in Nat
      BY <2>1
    <3>4. q.buffer \in 0..Day
      BY <1>1, <2>1
    <3>5. q.now \in Nat
      BY <1>1, <2>1
    <3> QED BY <3>1, <3>2, <3>3, <3>4, <3>5
  <2> QED BY <2>4, <2>5, <2>6 DEF DeskOk
<1>8. ASSUME NEW q \in DesksByCalendar PROVE DeskOk(q)
  <2>1. /\ q.clock \in Clocks /\ q.length \in CallLengths /\ q.grain \in {1, 2} /\ q.buffer \in Buffers
        /\ q.notice = 0 /\ q.now \in Nows
        /\ q.busy \in Hour(Instants) /\ q.booked \in Hour({1, 4, 7}) /\ q.held \in Hour({3, 6, 9})
    BY <1>8 DEF DesksByCalendar
  <2>2. q.hours = {[open |-> 0, close |-> Day]}
    BY <1>8 DEF DesksByCalendar
  <2>3. Spans(q.busy) /\ Spans(q.booked) /\ Spans(q.held)
    BY <1>2, <1>4, <2>1
  <2>5. \A r \in q.hours : r.open \in 0..Day /\ r.close \in 1..Day /\ r.open < r.close
    BY <1>6, <2>2
  <2>6. /\ q.clock \in {"plain", "spring", "autumn"} /\ q.length \in Nat \ {0} /\ q.grain \in Nat \ {0}
        /\ q.buffer \in 0..Day /\ q.notice \in Nat /\ q.now \in Nat
    <3>1. q.clock \in {"plain", "spring", "autumn"}
      BY <1>1, <2>1
    <3>2. q.length \in Nat \ {0}
      BY <1>1, <2>1
    <3>3. q.grain \in Nat \ {0} /\ q.notice \in Nat
      BY <2>1
    <3>4. q.buffer \in 0..Day
      BY <1>1, <2>1
    <3>5. q.now \in Nat
      BY <1>1, <2>1
    <3> QED BY <3>1, <3>2, <3>3, <3>4, <3>5
  <2> QED BY <2>3, <2>5, <2>6 DEF DeskOk
<1>9. ASSUME NEW q \in DesksUnread PROVE DeskOk(q)
  <2>1. /\ q.clock \in Clocks /\ q.length \in CallLengths /\ q.grain = 1 /\ q.buffer \in Buffers
        /\ q.notice = 0 /\ q.now \in Nows /\ q.busy = {} /\ q.booked = {} /\ q.held = {}
    BY <1>9 DEF DesksUnread
  <2>2. q.hours = {[open |-> 0, close |-> Day]}
    BY <1>9 DEF DesksUnread
  <2>3. Spans(q.busy) /\ Spans(q.booked) /\ Spans(q.held)
    BY <1>3, <2>1
  <2>5. \A r \in q.hours : r.open \in 0..Day /\ r.close \in 1..Day /\ r.open < r.close
    BY <1>6, <2>2
  <2>6. /\ q.clock \in {"plain", "spring", "autumn"} /\ q.length \in Nat \ {0} /\ q.grain \in Nat \ {0}
        /\ q.buffer \in 0..Day /\ q.notice \in Nat /\ q.now \in Nat
    <3>1. q.clock \in {"plain", "spring", "autumn"}
      BY <1>1, <2>1
    <3>2. q.length \in Nat \ {0}
      BY <1>1, <2>1
    <3>3. q.grain \in Nat \ {0} /\ q.notice \in Nat
      BY <2>1
    <3>4. q.buffer \in 0..Day
      BY <1>1, <2>1
    <3>5. q.now \in Nat
      BY <1>1, <2>1
    <3> QED BY <3>1, <3>2, <3>3, <3>4, <3>5
  <2> QED BY <2>3, <2>5, <2>6 DEF DeskOk
<1> QED BY <1>7, <1>8, <1>9 DEF Desks

\* The open ranges of a manager's own page: intervals of whole half hours.
OpenRanges == [from : Int, to : Int]

\* What has been merged of the slots that start before t.
MergedOk(m, is, t) ==
  /\ m \in Seq(OpenRanges)
  /\ \A k \in 1..Len(m) : m[k].from < m[k].to /\ m[k].from < t
  /\ \A k \in 1..(Len(m) - 1) : m[k].to < m[k + 1].from
  /\ \A x \in Int : (\E k \in 1..Len(m) : m[k].from <= x /\ x < m[k].to)
                    <=> \E i \in is : i.from < t /\ i.from <= x /\ x < i.to

\* Slots of one length, one at most at each start.
SlotsOf(is, n) == \A i \in is : i.from \in Nat /\ i.from < 2 * Day + 3 /\ i.to = i.from + n

EndsAt(is, t) == {i.to : i \in {i \in is : i.from = t}}

LEMMA MaxOfOne ==
  ASSUME NEW x \in Int PROVE Max({x}) = x
<1>1. x \in {x} /\ \A y \in {x} : x >= y
  OBVIOUS
<1> QED BY <1>1 DEF Max

LEMMA MergeKeeps ==
  ASSUME NEW is, NEW n \in Nat \ {0}, SlotsOf(is, n), NEW t \in Nat, NEW m, MergedOk(m, is, t)
  PROVE  MergedOk(Merge(m, t, EndsAt(is, t)), is, t + 1)
<1>1. \A i \in is : i.from \in Nat /\ i.to \in Nat /\ i.to = i.from + n
  BY DEF SlotsOf
<1>2. m \in Seq(OpenRanges) /\ Len(m) \in Nat
  BY DEF MergedOk
<1>3. \A k \in 1..Len(m) : m[k] \in OpenRanges /\ m[k].from \in Int /\ m[k].to \in Int /\ m[k].from < m[k].to /\ m[k].from < t
  <2>1. \A k \in 1..Len(m) : m[k] \in OpenRanges
    BY <1>2
  <2>2. \A r \in OpenRanges : r.from \in Int /\ r.to \in Int
    BY DEF OpenRanges
  <2> QED BY <2>1, <2>2 DEF MergedOk
<1>4. \A k \in 1..(Len(m) - 1) : m[k].to < m[k + 1].from
  BY DEF MergedOk
<1>5. \A x \in Int : (\E k \in 1..Len(m) : m[k].from <= x /\ x < m[k].to)
                    <=> \E i \in is : i.from < t /\ i.from <= x /\ x < i.to
  BY DEF MergedOk
<1>6. \A i \in is : i.from < t + 1 <=> (i.from < t \/ i.from = t)
  BY <1>1
<1>7. \A k \in 1..Len(m) : m[k].from < t + 1
  BY <1>3
<1>8. CASE EndsAt(is, t) = {}
  <2>1. \A i \in is : i.from # t
    BY <1>8 DEF EndsAt
  <2>2. Merge(m, t, EndsAt(is, t)) = m
    BY <1>8 DEF Merge
  <2>3. \A i \in is : i.from < t + 1 <=> i.from < t
    BY <1>6, <2>1
  <2>4. \A x \in Int : (\E k \in 1..Len(m) : m[k].from <= x /\ x < m[k].to)
                    <=> \E i \in is : i.from < t + 1 /\ i.from <= x /\ x < i.to
    BY <1>5, <2>3
  <2> QED BY <1>2, <1>3, <1>4, <1>7, <2>2, <2>4 DEF MergedOk
<1>9. CASE EndsAt(is, t) # {}
  <2>1. PICK e \in Nat : e = t + n
    OBVIOUS
  <2>2. PICK j \in is : j.from = t
    BY <1>9 DEF EndsAt
  <2>3. EndsAt(is, t) = {e}
    BY <1>1, <2>1, <2>2 DEF EndsAt
  <2>4. Max(EndsAt(is, t)) = e
    BY <2>3, MaxOfOne
  <2>5. PICK i : i = [from |-> t, to |-> e]
    OBVIOUS
  <2>6. i \in OpenRanges /\ i.from = t /\ i.to = e /\ t < e
    BY <2>1, <2>5 DEF OpenRanges
  <2>7. Merge(m, t, EndsAt(is, t)) = IF m # <<>> /\ Touches(m[Len(m)], i)
                                     THEN [m EXCEPT ![Len(m)].to = IF i.to > @ THEN i.to ELSE @]
                                     ELSE Append(m, i)
    BY <1>9, <2>4, <2>5 DEF Merge
  <2>8. \A x \in Int : (\E s \in is : s.from < t + 1 /\ s.from <= x /\ x < s.to)
                       <=> (\E k \in 1..Len(m) : m[k].from <= x /\ x < m[k].to) \/ (t <= x /\ x < e)
    <3>1. \A s \in is : s.from = t => s.to = e
      BY <1>1, <2>1
    <3>2. j.from = t /\ j.to = e
      BY <2>2, <3>1
    <3>3. ASSUME NEW x \in Int
          PROVE  (\E s \in is : s.from < t + 1 /\ s.from <= x /\ x < s.to)
                 <=> (\E s \in is : s.from < t /\ s.from <= x /\ x < s.to) \/ (t <= x /\ x < e)
      BY <1>6, <3>1, <3>2
    <3> QED BY <1>5, <3>3
  <2>9. CASE m # <<>> /\ Touches(m[Len(m)], i)
    <3>1. PICK n0 \in Nat : n0 = Len(m) /\ n0 \in 1..Len(m) /\ n0 >= 1
      BY <1>2, <2>9, EmptySeq
    <3>2. PICK last : last = m[n0]
      OBVIOUS
    <3>3. last \in OpenRanges /\ last.from \in Int /\ last.to \in Int /\ last.from < t /\ last.from < last.to /\ t <= last.to
      BY <1>3, <2>6, <2>9, <3>1, <3>2 DEF Touches
    <3>4. PICK end : end = IF e > last.to THEN e ELSE last.to
      OBVIOUS
    <3>5. end \in Int /\ end >= e /\ end >= last.to /\ (end = e \/ end = last.to)
      BY <2>1, <3>3, <3>4
    <3>6. PICK m2 : m2 = Merge(m, t, EndsAt(is, t))
      OBVIOUS
    <3>7. m2 = [m EXCEPT ![n0] = [last EXCEPT !.to = end]]
      BY <2>6, <2>7, <2>9, <3>1, <3>2, <3>4, <3>6
    <3>8. PICK new : new = [last EXCEPT !.to = end]
      OBVIOUS
    <3>9. new \in OpenRanges /\ new.from = last.from /\ new.to = end
      BY <3>3, <3>5, <3>8 DEF OpenRanges
    <3>10. /\ m2 \in Seq(OpenRanges) /\ Len(m2) = n0
           /\ \A k \in 1..n0 : m2[k] = IF k = n0 THEN new ELSE m[k]
      BY <1>2, <3>1, <3>7, <3>8, <3>9
    <3>11. \A k \in 1..n0 : m2[k].from = m[k].from /\ (k < n0 => m2[k].to = m[k].to)
      BY <3>1, <3>2, <3>9, <3>10
    <3>12. m2[n0].to = end /\ m2[n0].from = last.from
      BY <3>1, <3>9, <3>10
    <3>13. \A k \in 1..n0 : m2[k].from < m2[k].to /\ m2[k].from < t + 1
      <4> SUFFICES ASSUME NEW k \in 1..n0 PROVE m2[k].from < m2[k].to /\ m2[k].from < t + 1
        OBVIOUS
      <4>1. CASE k = n0
        BY <3>3, <3>5, <3>12, <4>1
      <4>2. CASE k # n0
        <5>1. k < n0 /\ m2[k].from = m[k].from /\ m2[k].to = m[k].to
          BY <3>1, <3>11, <4>2
        <5> QED BY <1>3, <1>7, <3>1, <5>1
      <4> QED BY <4>1, <4>2
    <3>14. \A k \in 1..(n0 - 1) : m2[k].to < m2[k + 1].from
      <4> SUFFICES ASSUME NEW k \in 1..(n0 - 1) PROVE m2[k].to < m2[k + 1].from
        OBVIOUS
      <4>1. k \in 1..n0 /\ k < n0 /\ k + 1 \in 1..n0
        BY <3>1
      <4> QED BY <1>4, <3>1, <3>11, <4>1
    <3>15. ASSUME NEW x \in Int
           PROVE  (\E k \in 1..n0 : m2[k].from <= x /\ x < m2[k].to)
                  <=> (\E k \in 1..n0 : m[k].from <= x /\ x < m[k].to) \/ (t <= x /\ x < e)
      <4>1. (last.from <= x /\ x < end) <=> (last.from <= x /\ x < last.to) \/ (t <= x /\ x < e)
        BY <2>1, <3>3, <3>5
      <4>2. \A k \in 1..n0 : k # n0 => ((m2[k].from <= x /\ x < m2[k].to) <=> (m[k].from <= x /\ x < m[k].to))
        BY <3>1, <3>11
      <4>3. (m2[n0].from <= x /\ x < m2[n0].to) <=> (m[n0].from <= x /\ x < m[n0].to) \/ (t <= x /\ x < e)
        BY <3>2, <3>12, <4>1
      <4> QED BY <3>1, <4>2, <4>3
    <3>16. \A x \in Int : (\E k \in 1..n0 : m2[k].from <= x /\ x < m2[k].to)
                          <=> \E p \in is : p.from < t + 1 /\ p.from <= x /\ x < p.to
      BY <2>8, <3>1, <3>15
    <3>17. MergedOk(m2, is, t + 1)
      BY <3>10, <3>13, <3>14, <3>16 DEF MergedOk
    <3> QED BY <3>6, <3>17
  <2>10. CASE ~(m # <<>> /\ Touches(m[Len(m)], i))
    <3>1. PICK m2 : m2 = Merge(m, t, EndsAt(is, t))
      OBVIOUS
    <3>2. PICK n0 \in Nat : n0 = Len(m)
      BY <1>2
    <3>3. m2 = Append(m, i)
      BY <2>7, <2>10, <3>1
    <3>4. m2 \in Seq(OpenRanges) /\ Len(m2) = n0 + 1 /\ m2[n0 + 1] = i /\ \A k \in 1..n0 : m2[k] = m[k]
      BY <1>2, <2>6, <3>2, <3>3
    <3>5. n0 >= 1 => m[n0].to < t
      <4> SUFFICES ASSUME n0 >= 1 PROVE m[n0].to < t
        OBVIOUS
      <4>1. m # <<>> /\ n0 \in 1..Len(m)
        BY <3>2
      <4> QED BY <1>3, <2>6, <2>10, <3>2, <4>1 DEF Touches
    <3>6. \A k \in 1..(n0 + 1) : k \in 1..n0 \/ k = n0 + 1
      OBVIOUS
    <3>7. \A k \in 1..(n0 + 1) : m2[k].from < m2[k].to /\ m2[k].from < t + 1
      BY <1>3, <1>7, <2>6, <3>2, <3>4, <3>6
    <3>8. \A k \in 1..(n0 + 1 - 1) : m2[k].to < m2[k + 1].from
      <4> SUFFICES ASSUME NEW k \in 1..n0 PROVE m2[k].to < m2[k + 1].from
        OBVIOUS
      <4>1. CASE k = n0
        BY <2>6, <3>4, <3>5, <4>1
      <4>2. CASE k # n0
        <5>1. k \in 1..(n0 - 1) /\ k + 1 \in 1..n0
          BY <4>2
        <5> QED BY <1>4, <3>2, <3>4, <5>1
      <4> QED BY <4>1, <4>2
    <3>9. ASSUME NEW x \in Int
          PROVE  (\E k \in 1..(n0 + 1) : m2[k].from <= x /\ x < m2[k].to)
                 <=> (\E k \in 1..n0 : m[k].from <= x /\ x < m[k].to) \/ (t <= x /\ x < e)
      <4>1. n0 + 1 \in 1..(n0 + 1) /\ \A k \in 1..n0 : k \in 1..(n0 + 1)
        OBVIOUS
      <4> QED BY <2>6, <3>4, <3>6, <4>1
    <3>10. \A x \in Int : (\E k \in 1..(n0 + 1) : m2[k].from <= x /\ x < m2[k].to)
                          <=> \E p \in is : p.from < t + 1 /\ p.from <= x /\ x < p.to
      BY <2>8, <3>2, <3>9
    <3>11. MergedOk(m2, is, t + 1)
      <4>1. /\ \A k \in 1..Len(m2) : m2[k].from < m2[k].to /\ m2[k].from < t + 1
            /\ \A x \in Int : (\E k \in 1..Len(m2) : m2[k].from <= x /\ x < m2[k].to)
                              <=> \E p \in is : p.from < t + 1 /\ p.from <= x /\ x < p.to
        BY <3>4, <3>7, <3>10
      <4>2. \A k \in 1..(Len(m2) - 1) : m2[k].to < m2[k + 1].from
        BY <3>4, <3>8
      <4>3. m2 \in Seq(OpenRanges)
        BY <3>4
      <4> QED BY <4>1, <4>2, <4>3 DEF MergedOk
    <3> QED BY <3>1, <3>11
  <2> QED BY <2>9, <2>10
<1> QED BY <1>8, <1>9

\* What mergeIntervals has merged up to each start, as far as the start k.
Merging(is, k, f) ==
  f = [t \in 0..k |-> IF t = 0 THEN <<>> ELSE Merge(f[t - 1], t - 1, EndsAt(is, t - 1))]

LEMMA MergingGoesOn ==
  ASSUME NEW is, NEW k \in Nat PROVE \E f : Merging(is, k, f)
<1>1. PICK bad : bad = {n \in Nat : ~\E f : Merging(is, n, f)}
  OBVIOUS
<1> SUFFICES bad = {}
  BY <1>1
<1> SUFFICES ASSUME bad # {} PROVE FALSE
  OBVIOUS
<1>2. PICK n \in bad : \A y \in bad : <<y, n>> \notin OpToRel(<, Nat)
  BY <1>1, NatLessThanWellFounded, WFMin
<1>3. n \in Nat /\ ~\E f : Merging(is, n, f)
  BY <1>1, <1>2
<1>4. CASE n = 0
  <2>1. PICK f : f = [t \in 0..0 |-> <<>>]
    OBVIOUS
  <2>2. \A t \in 0..0 : t = 0
    OBVIOUS
  <2>3. Merging(is, 0, f)
    BY <2>1, <2>2 DEF Merging
  <2> QED BY <1>3, <1>4, <2>3
<1>5. CASE n # 0
  <2>1. n - 1 \in Nat /\ n - 1 < n
    BY <1>3, <1>5
  <2>2. n - 1 \notin bad
    BY <1>2, <1>3, <2>1 DEF OpToRel
  <2>3. PICK g : Merging(is, n - 1, g)
    BY <1>1, <2>1, <2>2
  <2>4. PICK f : f = [t \in 0..n |-> IF t = n THEN Merge(g[n - 1], n - 1, EndsAt(is, n - 1)) ELSE g[t]]
    OBVIOUS
  <2>5. \A t \in 0..(n - 1) : f[t] = g[t]
    <3>1. \A t \in 0..(n - 1) : t \in 0..n /\ t # n
      BY <1>3
    <3> QED BY <2>4, <3>1
  <2>6. n \in 0..n /\ f[n] = Merge(g[n - 1], n - 1, EndsAt(is, n - 1))
    BY <1>3, <2>4
  <2>7. \A t \in 0..(n - 1) : g[t] = IF t = 0 THEN <<>> ELSE Merge(g[t - 1], t - 1, EndsAt(is, t - 1))
    BY <2>3 DEF Merging
  <2>8. ASSUME NEW t \in 0..n
        PROVE  f[t] = IF t = 0 THEN <<>> ELSE Merge(f[t - 1], t - 1, EndsAt(is, t - 1))
    <3>1. CASE t = n
      <4>1. n - 1 \in 0..(n - 1) /\ f[n - 1] = g[n - 1]
        BY <2>1, <2>5
      <4> QED BY <1>5, <2>6, <3>1, <4>1
    <3>2. CASE t # n
      <4>1. t \in 0..(n - 1)
        BY <1>3, <3>2
      <4>2. CASE t = 0
        BY <2>5, <2>7, <4>1, <4>2
      <4>3. CASE t # 0
        <5>0. t - 1 \in 0..(n - 1)
          BY <1>3, <4>1, <4>3
        <5>1. t - 1 \in 0..(n - 1) /\ f[t - 1] = g[t - 1] /\ f[t] = g[t]
          BY <2>5, <4>1, <5>0
        <5> QED BY <2>7, <4>1, <4>3, <5>1
      <4> QED BY <4>2, <4>3
    <3> QED BY <3>1, <3>2
  <2>9. f = [t \in 0..n |-> f[t]]
    BY <2>4
  <2>10. Merging(is, n, f)
    BY <2>8, <2>9 DEF Merging
  <2> QED BY <1>3, <2>10
<1> QED BY <1>4, <1>5

LEMMA MergedIsOk ==
  ASSUME NEW is, NEW n \in Nat \ {0}, SlotsOf(is, n)
  PROVE  MergedOk(MergeIntervals(is), is, 2 * Day + 3)
<1>1. PICK last \in Nat : last = 2 * Day + 3
  BY SlotsAssumption
<1>2. \E f : Merging(is, last, f)
  BY <1>1, MergingGoesOn
<1>3. PICK f : Merging(is, last, f) /\ MergeIntervals(is) = f[last]
  BY <1>1, <1>2 DEF MergeIntervals, Merging, EndsAt
<1>4. \A t \in 0..last : f[t] = IF t = 0 THEN <<>> ELSE Merge(f[t - 1], t - 1, EndsAt(is, t - 1))
  BY <1>3 DEF Merging
<1>5. PICK bad : bad = {t \in 0..last : ~MergedOk(f[t], is, t)}
  OBVIOUS
<1>6. ASSUME bad # {} PROVE FALSE
  <2>1. bad \subseteq Nat
    BY <1>5
  <2>2. PICK t \in bad : \A y \in bad : <<y, t>> \notin OpToRel(<, Nat)
    BY <1>6, <2>1, NatLessThanWellFounded, WFMin
  <2>3. t \in 0..last /\ ~MergedOk(f[t], is, t)
    BY <1>5, <2>2
  <2>4. CASE t = 0
    <3>1. f[0] = <<>>
      BY <1>4, <2>3, <2>4
    <3>2. \A i \in is : ~(i.from < 0)
      BY DEF SlotsOf
    <3>3. <<>> \in Seq(OpenRanges) /\ Len(<<>>) = 0 /\ 1..0 = {} /\ 1..(0 - 1) = {}
      OBVIOUS
    <3>4. MergedOk(<<>>, is, 0)
      BY <3>2, <3>3 DEF MergedOk
    <3> QED BY <2>3, <2>4, <3>1, <3>4
  <2>5. CASE t # 0
    <3>1. t - 1 \in Nat /\ t - 1 \in 0..last /\ t - 1 < t /\ t \in Nat /\ t - 1 + 1 = t
      BY <1>1, <2>3, <2>5
    <3>2. t - 1 \notin bad
      BY <2>2, <3>1 DEF OpToRel
    <3>3. MergedOk(f[t - 1], is, t - 1)
      BY <1>5, <3>1, <3>2
    <3>4. f[t] = Merge(f[t - 1], t - 1, EndsAt(is, t - 1))
      BY <1>4, <2>3, <2>5
    <3>5. PICK p : p = t - 1
      OBVIOUS
    <3>6. MergedOk(Merge(f[p], p, EndsAt(is, p)), is, p + 1)
      BY <3>1, <3>3, <3>5, MergeKeeps
    <3> QED BY <2>3, <3>1, <3>4, <3>5, <3>6
  <2> QED BY <2>4, <2>5
<1>7. last \in 0..last
  BY <1>1
<1> QED BY <1>1, <1>3, <1>5, <1>6, <1>7

\* The ranges m cover what the intervals cover, and no two of them touch.
HalvesOf(is) == UNION {i.from..(i.to - 1) : i \in is}
Covered(m, is) ==
  /\ HalvesOf({m[k] : k \in 1..Len(m)}) = HalvesOf(is)
  /\ \A k \in 1..(Len(m) - 1) : m[k].to < m[k + 1].from

LEMMA HalvesAre ==
  ASSUME NEW is, NEW x PROVE x \in HalvesOf(is) <=> \E i \in is : x \in i.from..(i.to - 1)
BY DEF HalvesOf

LEMMA RangesCover ==
  ASSUME NEW q, q.length \in Nat \ {0}, NEW starts, starts \subseteq Instants,
         NEW is, is = {[from |-> s, to |-> s + q.length] : s \in starts}, NEW m, m = MergeIntervals(is)
  PROVE  Covered(m, is)
<1>1. Day \in Nat
  BY SlotsAssumption
<1>2. \A s \in starts : s \in Nat /\ s < 2 * Day + 3 /\ s + q.length \in Nat
  BY <1>1 DEF Instants
<1>3. \A i \in is : i.from \in Nat /\ i.from < 2 * Day + 3 /\ i.to = i.from + q.length /\ i.to \in Nat
  <2>1. \A s \in starts : LET i == [from |-> s, to |-> s + q.length]
                          IN  i.from = s /\ i.to = s + q.length
    OBVIOUS
  <2> QED BY <1>2, <2>1
<1>4. SlotsOf(is, q.length)
  BY <1>3 DEF SlotsOf
<1>6. MergedOk(m, is, 2 * Day + 3)
  BY <1>4, MergedIsOk
<1>7. \A k \in 1..Len(m) : m[k].from \in Int /\ m[k].to \in Int
  <2>1. \A k \in 1..Len(m) : m[k] \in OpenRanges
    BY <1>6 DEF MergedOk
  <2> QED BY <2>1 DEF OpenRanges
<1>8. ASSUME NEW x
      PROVE  (\E k \in 1..Len(m) : x \in m[k].from..(m[k].to - 1)) <=> (\E i \in is : x \in i.from..(i.to - 1))
  <2>1. CASE x \in Int
    <3>1. (\E k \in 1..Len(m) : m[k].from <= x /\ x < m[k].to) <=> (\E i \in is : i.from < 2 * Day + 3 /\ i.from <= x /\ x < i.to)
      BY <1>6, <2>1 DEF MergedOk
    <3>2. \A k \in 1..Len(m) : x \in m[k].from..(m[k].to - 1) <=> m[k].from <= x /\ x < m[k].to
      BY <1>7, <2>1
    <3>3. \A i \in is : x \in i.from..(i.to - 1) <=> i.from < 2 * Day + 3 /\ i.from <= x /\ x < i.to
      BY <1>3, <2>1
    <3> QED BY <3>1, <3>2, <3>3
  <2>2. CASE x \notin Int
    <3>1. \A a, b \in Int : x \notin a..b
      BY <2>2
    <3>2. \A k \in 1..Len(m) : m[k].from \in Int /\ m[k].to - 1 \in Int
      BY <1>7
    <3>3. \A i \in is : i.from \in Int /\ i.to - 1 \in Int
      BY <1>3
    <3> QED BY <3>1, <3>2, <3>3
  <2> QED BY <2>1, <2>2
<1>9. PICK rs : rs = {m[k] : k \in 1..Len(m)}
  OBVIOUS
<1>10. \A x : (\E r \in rs : x \in r.from..(r.to - 1)) <=> \E k \in 1..Len(m) : x \in m[k].from..(m[k].to - 1)
  BY <1>9
<1>11. HalvesOf(rs) = HalvesOf(is)
  <2>1. \A x : x \in HalvesOf(rs) <=> x \in HalvesOf(is)
    BY <1>8, <1>10, HalvesAre
  <2>2. HalvesOf(rs) \subseteq HalvesOf(is) /\ HalvesOf(is) \subseteq HalvesOf(rs)
    BY <2>1
  <2> QED BY <2>2
<1>12. \A k \in 1..(Len(m) - 1) : m[k].to < m[k + 1].from
  BY <1>6 DEF MergedOk
<1> QED BY <1>9, <1>11, <1>12 DEF Covered

\* Whatever the settings, the calendar, the bookings and the holds, on a day the clock
\* changes as on any other: the picker offers exactly the starts whose every half hour is
\* worked and free, the booking accepts what was offered, whoever is listed as an
\* alternative has a time to show, and the open ranges are the slots' half hours
\* (computeSlots, availabilityForStaff, createBooking, rankBackups, mergeIntervals).
THEOREM OfferedIsFree == SlotsSpec => []OffersAgree
<1>1. SlotsInit => desks \in SUBSET Desks
  BY DEF SlotsInit
<1>2. desks \in SUBSET Desks /\ [AskDesk]_desks => (desks \in SUBSET Desks)'
  BY DEF AskDesk
<1>3. ASSUME desks \in SUBSET Desks PROVE OffersExactlyTheFree
  <2> SUFFICES ASSUME NEW q \in desks, q.reachable, NEW s \in 0..(DayStart(q.clock, 3) - 1),
                      s - q.buffer >= q.now, s + q.length + q.buffer <= q.now + Window
               PROVE  s \in OffersOf(q) <=>
                        /\ s >= q.now + q.notice /\ s + q.length <= q.now + Window
                        /\ \A t \in (s - q.buffer)..(s + q.length + q.buffer - 1) :
                             ~\E i \in q.busy \cup q.booked : i.from <= t /\ t < i.to
                        /\ \A t \in s..(s + q.length - 1) : ~\E i \in q.held : i.from <= t /\ t < i.to
                        /\ \E r \in q.hours : BlockHas(q, r, s)
    BY DEF OffersExactlyTheFree, BlockHas
  <2> QED BY <1>3, DesksAreOk, OffersAreFree
<1>4. ASSUME desks \in SUBSET Desks PROVE OfferedIsAccepted
  BY <1>4, DesksAreOk, PickerAndBooking DEF OfferedIsAccepted
<1>5. ASSUME desks \in SUBSET Desks PROVE ListedHaveTimes
  <2> SUFFICES ASSUME NEW q \in desks
               PROVE  /\ \A s \in OffersOf(q) : s + q.length <= q.now + Horizon => s \in BackupSlots(q)
                      /\ \A s \in BackupSlots(q) : (s \in OffersOf(q) /\ s + q.length <= q.now + Horizon)
                                                   \/ s + q.length + q.buffer > q.now + Horizon
    BY DEF ListedHaveTimes
  <2> QED BY <1>5, DesksAreOk, AlternativesHaveTimes
<1>6. ASSUME desks \in SUBSET Desks PROVE RangesCoverTheSlots
  <2> SUFFICES ASSUME NEW q \in desks
               PROVE  Covered(MergeIntervals({[from |-> s, to |-> s + q.length] : s \in OffersOf(q)}),
                              {[from |-> s, to |-> s + q.length] : s \in OffersOf(q)})
    BY DEF RangesCoverTheSlots, Covered, HalvesOf
  <2>1. OffersOf(q) \subseteq Instants
    BY DEF OffersOf, OpenStarts
  <2>2. q.length \in Nat \ {0}
    BY <1>6, DesksAreOk DEF DeskOk
  <2> QED BY <2>1, <2>2, RangesCover
<1>7. desks \in SUBSET Desks => OffersAgree
  BY <1>3, <1>4, <1>5, <1>6 DEF OffersAgree
<1> QED BY <1>1, <1>2, <1>7, PTL DEF SlotsSpec

(* The coverage map *)

\* Any records: departures by number, with a date or none, and any coordinators.
WorldOk(w) ==
  /\ DOMAIN w.trips \subseteq Nat
  /\ \A d \in DOMAIN w.trips :
       /\ w.trips[d].start = None \/ w.trips[d].start \in Nat
       /\ \E cs : w.trips[d].coordinators \in Seq(cs)

\* A set of numbers has a least one.
LEMMA LeastOf ==
  ASSUME NEW S, S \subseteq Nat, S # {}
  PROVE  /\ \E x \in S : \A y \in S : x <= y
         /\ Min(S) \in S /\ \A y \in S : Min(S) <= y
<1>1. PICK x \in S : \A y \in S : <<y, x>> \notin OpToRel(<, Nat)
  BY NatLessThanWellFounded, WFMin
<1>2. \A y \in S : x <= y
  <2> SUFFICES ASSUME NEW y \in S, y < x PROVE FALSE
    OBVIOUS
  <2>1. <<y, x>> \in Nat \X Nat
    OBVIOUS
  <2> QED BY <1>1, <2>1 DEF OpToRel
<1> QED BY <1>2 DEF Min

LEMMA EarliestIs ==
  ASSUME NEW w, WorldOk(w), NEW ds, ds \subseteq Upcoming(w), ds # {}
  PROVE  Earliest(w, ds) \in ds /\ \A e \in ds : Sooner(w, Earliest(w, ds), e)
<1>1. \A d \in ds : d \in Nat /\ w.trips[d].start \in Nat
  BY DEF WorldOk, Upcoming
<1>2. PICK starts : starts = {w.trips[d].start : d \in ds}
  OBVIOUS
<1>3. PICK a \in starts : \A b \in starts : a <= b
  <2>1. starts \subseteq Nat /\ starts # {}
    BY <1>1, <1>2
  <2> QED BY <2>1, LeastOf
<1>4. PICK first : first = {d \in ds : w.trips[d].start = a}
  OBVIOUS
<1>5. PICK d \in first : \A e \in first : d <= e
  <2>1. first \subseteq Nat /\ first # {}
    BY <1>1, <1>2, <1>3, <1>4
  <2> QED BY <2>1, LeastOf
<1>6. d \in ds /\ w.trips[d].start = a
  BY <1>4, <1>5
<1>7. ASSUME NEW e \in ds PROVE Sooner(w, d, e)
  <2>1. a <= w.trips[e].start /\ a \in Nat /\ w.trips[e].start \in Nat
    BY <1>1, <1>2, <1>3, <1>6
  <2>2. w.trips[e].start = a => d <= e
    BY <1>4, <1>5
  <2> QED BY <1>6, <2>1, <2>2 DEF Sooner
<1> QED BY <1>6, <1>7 DEF Earliest

\* A departure no coordinator of which can be given to a guest is on the map.
LEMMA UnreachableIsShown ==
  ASSUME NEW w, WorldOk(w), NEW d \in Upcoming(w), Reachable(w, d) = {}
  PROVE  \E kind \in {"departure-no-coordinator", "coordinator-unknown"} : <<kind, d>> \in DepartureIssues(w)
<1>1. PICK cs : cs = w.trips[d].coordinators
  OBVIOUS
<1>2. PICK S : cs \in Seq(S)
  BY <1>1 DEF WorldOk, Upcoming
<1>3. CASE cs = <<>>
  BY <1>1, <1>3 DEF DepartureIssues
<1>4. CASE cs # <<>>
  <2>1. PICK k \in DOMAIN cs : k = 1
    <3>1. Len(cs) \in Nat /\ Len(cs) # 0 /\ DOMAIN cs = 1..Len(cs)
      BY <1>2, <1>4, EmptySeq
    <3> QED BY <3>1
  <2>2. Lost(w, cs[k])
    <3> SUFFICES ASSUME cs[k] \in DOMAIN w.managers, w.managers[cs[k]] # None, w.managers[cs[k]] \in w.active
                 PROVE  FALSE
      BY DEF Lost
    <3>1. k \in DOMAIN CoordinatorEmails(w, d) /\ CoordinatorEmails(w, d)[k] = w.managers[cs[k]]
      BY <1>1, <2>1 DEF CoordinatorEmails
    <3> QED BY <3>1 DEF Reachable
  <2>3. cs[k] \in ToSet(cs)
    BY <2>1 DEF ToSet
  <2> QED BY <1>1, <2>2, <2>3 DEF DepartureIssues
<1> QED BY <1>3, <1>4

LEMMA MatchedIsUpcoming ==
  ASSUME NEW w, NEW button PROVE Matched(w, button) \subseteq Upcoming(w)
BY DEF Matched

LEMMA RoutedWell ==
  ASSUME NEW w, WorldOk(w), NEW button
  PROVE  /\ Routed(w, button).kind = "pool" => \A d \in Matched(w, button) : Reachable(w, d) = {}
         /\ Routed(w, button).kind = "primary" =>
              /\ Routed(w, button).of \in Matched(w, button)
              /\ \E k \in Reachable(w, Routed(w, button).of) :
                   Routed(w, button).staff = CoordinatorEmails(w, Routed(w, button).of)[k]
              /\ \A d \in Matched(w, button) \ {Routed(w, button).of} :
                   Sooner(w, d, Routed(w, button).of) => Reachable(w, d) = {}
<1>1. PICK ms : ms = Matched(w, button) /\ ms \subseteq Upcoming(w)
  BY MatchedIsUpcoming
<1>2. PICK staffed : staffed = {d \in ms : Reachable(w, d) # {}}
  OBVIOUS
<1>3. PICK r : r = Routed(w, button)
  OBVIOUS
<1>4. CASE ms = {} \/ ~BrandForDeparture(w.trips[Earliest(w, ms)].brand)
  <2>1. r = [kind |-> "unresolved"]
    BY <1>1, <1>3, <1>4 DEF Routed
  <2> QED BY <1>3, <2>1
<1>5. CASE ~(ms = {} \/ ~BrandForDeparture(w.trips[Earliest(w, ms)].brand)) /\ staffed = {}
  <2>1. r = [kind |-> "pool"]
    BY <1>1, <1>2, <1>3, <1>5 DEF Routed
  <2> QED BY <1>1, <1>2, <1>3, <1>5, <2>1
<1>6. CASE ~(ms = {} \/ ~BrandForDeparture(w.trips[Earliest(w, ms)].brand)) /\ staffed # {}
  <2>1. PICK d : d = Earliest(w, staffed)
    OBVIOUS
  <2>2. d \in staffed /\ \A e \in staffed : Sooner(w, d, e)
    BY <1>1, <1>2, <1>6, <2>1, EarliestIs
  <2>3. r = [kind |-> "primary", staff |-> CoordinatorEmails(w, d)[Min(Reachable(w, d))], of |-> d]
    BY <1>1, <1>2, <1>3, <1>6, <2>1 DEF Routed
  <2>4. r.kind = "primary" /\ r.of = d /\ r.staff = CoordinatorEmails(w, d)[Min(Reachable(w, d))]
    BY <2>3
  <2>5. Min(Reachable(w, d)) \in Reachable(w, d)
    <3>1. d \in Upcoming(w) /\ Reachable(w, d) # {}
      BY <1>1, <1>2, <2>2
    <3>2. DOMAIN w.trips[d].coordinators \subseteq Nat
      BY <3>1 DEF WorldOk, Upcoming
    <3>3. Reachable(w, d) \subseteq Nat
      BY <3>2 DEF Reachable, CoordinatorEmails
    <3> QED BY <3>1, <3>3, LeastOf
  <2>6. ASSUME NEW e \in ms \ {d}, Sooner(w, e, d), Reachable(w, e) # {} PROVE FALSE
    <3>1. e \in staffed /\ Sooner(w, d, e)
      BY <1>2, <2>2, <2>6
    <3>2. /\ d \in Nat /\ w.trips[d].start \in Nat /\ e \in Nat /\ w.trips[e].start \in Nat /\ d # e
      BY <1>1, <1>2, <2>2, <3>1 DEF WorldOk, Upcoming
    <3> QED BY <2>6, <3>1, <3>2 DEF Sooner
  <2>7. d \in ms
    BY <1>2, <2>2
  <2> QED BY <1>1, <1>3, <2>4, <2>5, <2>6, <2>7
<1> QED BY <1>4, <1>5, <1>6

-----------------------------------------------------------------------------
\* One manager's leave, joined as far as the day.
LeaveRanges == [from : Int, to : Int]
JoinedOk(j, ls, day) ==
  /\ j \in Seq(LeaveRanges)
  /\ \A k \in 1..Len(j) : 1 <= j[k].from /\ j[k].from <= j[k].to /\ j[k].from <= day /\ j[k].to <= LastDay
  /\ \A k, l \in 1..Len(j) : k < l => j[k].to + 1 < j[l].from
  /\ \A x \in Int : (\E k \in 1..Len(j) : j[k].from <= x /\ x <= j[k].to)
                    <=> \E k \in DOMAIN ls : ls[k].from <= day /\ ls[k].from <= x /\ x <= ls[k].to

\* When the leave that starts on a day ends.
EndsOf(ls, day) == {ls[k].to : k \in {k \in DOMAIN ls : ls[k].from = day}}

LEMMA LargestOf ==
  ASSUME NEW S, S \subseteq Int, NEW n \in Int, \A x \in S : x <= n, S # {}
  PROVE  Max(S) \in S /\ \A y \in S : y <= Max(S)
<1>1. PICK gaps : gaps = {n - x : x \in S}
  OBVIOUS
<1>2. gaps \subseteq Nat /\ gaps # {}
  <2>1. \A x \in S : n - x \in Nat
    <3> SUFFICES ASSUME NEW x \in S PROVE n - x \in Nat
      OBVIOUS
    <3>1. x \in Int /\ x <= n
      OBVIOUS
    <3> QED BY <3>1
  <2> QED BY <1>1, <2>1
<1>3. PICK g \in gaps : \A h \in gaps : g <= h
  BY <1>2, LeastOf
<1>4. PICK x \in S : g = n - x
  BY <1>1, <1>3
<1>5. \A y \in S : x >= y
  <2> SUFFICES ASSUME NEW y \in S PROVE x >= y
    OBVIOUS
  <2>1. g <= n - y
    BY <1>1, <1>3
  <2> QED BY <1>4, <2>1
<1>6. Max(S) \in S /\ \A y \in S : Max(S) >= y
  BY <1>5 DEF Max
<1> QED BY <1>6

LEMMA JoinKeeps ==
  ASSUME NEW ls \in Seq(Intervals), NEW day \in 1..LastDay, NEW j, JoinedOk(j, ls, day - 1)
  PROVE  JoinedOk(Join(j, day, EndsOf(ls, day)), ls, day)
<1>0. LastDay \in Nat /\ day \in Nat
  BY CoverageAssumption
<1>1. \A k \in DOMAIN ls : /\ ls[k].from \in Nat /\ ls[k].to \in Nat /\ ls[k].from >= 1
                           /\ ls[k].from <= ls[k].to /\ ls[k].to <= LastDay
  <2>1. \A k \in DOMAIN ls : ls[k] \in Intervals
    OBVIOUS
  <2>2. \A i \in Intervals : i.from \in Nat /\ i.to \in Nat /\ i.from >= 1 /\ i.from <= i.to /\ i.to <= LastDay
    BY <1>0 DEF Intervals
  <2> QED BY <2>1, <2>2
<1>2. PICK n0 \in Nat : n0 = Len(j)
  BY DEF JoinedOk
<1>3. \A k \in 1..n0 : /\ j[k] \in LeaveRanges /\ j[k].from \in Int /\ j[k].to \in Int /\ 1 <= j[k].from
                       /\ j[k].from <= j[k].to /\ j[k].from < day /\ j[k].to <= LastDay
  <2>1. \A k \in 1..n0 : j[k] \in LeaveRanges
    BY <1>2 DEF JoinedOk
  <2>2. \A r \in LeaveRanges : r.from \in Int /\ r.to \in Int
    BY DEF LeaveRanges
  <2>3. \A k \in 1..n0 : 1 <= j[k].from /\ j[k].from <= j[k].to /\ j[k].from <= day - 1 /\ j[k].to <= LastDay
    BY <1>2 DEF JoinedOk
  <2> QED BY <1>0, <2>1, <2>2, <2>3
<1>4. \A k, l \in 1..n0 : k < l => j[k].to + 1 < j[l].from
  BY <1>2 DEF JoinedOk
<1>5. \A x \in Int : (\E k \in 1..n0 : j[k].from <= x /\ x <= j[k].to)
                    <=> \E k \in DOMAIN ls : ls[k].from < day /\ ls[k].from <= x /\ x <= ls[k].to
  <2>1. \A k \in DOMAIN ls : ls[k].from <= day - 1 <=> ls[k].from < day
    BY <1>0, <1>1
  <2> QED BY <1>2, <2>1 DEF JoinedOk
<1>6. j \in Seq(LeaveRanges)
  BY DEF JoinedOk
<1>7. \A k \in DOMAIN ls : ls[k].from <= day <=> (ls[k].from < day \/ ls[k].from = day)
  BY <1>0, <1>1
<1>8. PICK ends : ends = EndsOf(ls, day)
  OBVIOUS
<1>9. CASE ends = {}
  <2>1. \A k \in DOMAIN ls : ls[k].from # day
    BY <1>8, <1>9 DEF EndsOf
  <2>2. Join(j, day, ends) = j
    BY <1>9 DEF Join
  <2>3. \A k \in DOMAIN ls : ls[k].from <= day <=> ls[k].from < day
    BY <1>7, <2>1
  <2>4. \A x \in Int : (\E k \in 1..n0 : j[k].from <= x /\ x <= j[k].to)
                    <=> \E k \in DOMAIN ls : ls[k].from <= day /\ ls[k].from <= x /\ x <= ls[k].to
    BY <1>5, <2>3
  <2>5. \A k \in 1..n0 : j[k].from <= day
    BY <1>0, <1>3
  <2>6. JoinedOk(j, ls, day)
    <3>1. \A k \in 1..Len(j) : 1 <= j[k].from /\ j[k].from <= j[k].to /\ j[k].from <= day /\ j[k].to <= LastDay
      BY <1>2, <1>3, <2>5
    <3> QED BY <1>2, <1>4, <1>6, <2>4, <3>1 DEF JoinedOk
  <2> QED BY <1>8, <2>2, <2>6
<1>10. CASE ends # {}
  <2>1. ends \subseteq Int /\ \A x \in ends : day <= x /\ x <= LastDay
    BY <1>1, <1>8 DEF EndsOf
  <2>2. PICK e : e = Max(ends)
    OBVIOUS
  <2>3. e \in ends /\ \A x \in ends : x <= e
    <3>1. LastDay \in Int /\ \A x \in ends : x <= LastDay
      BY <1>0, <2>1
    <3>2. Max(ends) \in ends /\ \A x \in ends : x <= Max(ends)
      BY <1>10, <2>1, <3>1, LargestOf
    <3> QED BY <2>2, <3>2
  <2>4. e \in Int /\ day <= e /\ e <= LastDay
    BY <2>1, <2>3
  <2>5. \A x \in Int : (\E k \in DOMAIN ls : ls[k].from = day /\ ls[k].from <= x /\ x <= ls[k].to) <=> day <= x /\ x <= e
    <3>1. PICK k \in DOMAIN ls : ls[k].from = day /\ ls[k].to = e
      BY <1>8, <2>3 DEF EndsOf
    <3>2. \A l \in DOMAIN ls : ls[l].from = day => ls[l].to <= e /\ ls[l].to \in Int
      BY <1>1, <1>8, <2>3 DEF EndsOf
    <3>3. ASSUME NEW x \in Int, NEW l \in DOMAIN ls, ls[l].from = day, ls[l].from <= x, x <= ls[l].to
          PROVE  day <= x /\ x <= e
      BY <2>4, <3>2, <3>3
    <3> QED BY <3>1, <3>3
  <2>6. \A x \in Int : (\E k \in DOMAIN ls : ls[k].from <= day /\ ls[k].from <= x /\ x <= ls[k].to)
                       <=> (\E k \in 1..n0 : j[k].from <= x /\ x <= j[k].to) \/ (day <= x /\ x <= e)
    <3> SUFFICES ASSUME NEW x \in Int
                 PROVE (\E k \in DOMAIN ls : ls[k].from <= day /\ ls[k].from <= x /\ x <= ls[k].to)
                       <=> (\E k \in 1..n0 : j[k].from <= x /\ x <= j[k].to) \/ (day <= x /\ x <= e)
      OBVIOUS
    <3>1. (\E k \in DOMAIN ls : ls[k].from <= day /\ ls[k].from <= x /\ x <= ls[k].to)
          <=> (\E k \in DOMAIN ls : ls[k].from < day /\ ls[k].from <= x /\ x <= ls[k].to)
              \/ (\E k \in DOMAIN ls : ls[k].from = day /\ ls[k].from <= x /\ x <= ls[k].to)
      BY <1>7
    <3> QED BY <1>5, <2>5, <3>1
  <2>7. PICK j2 : j2 = Join(j, day, ends)
    OBVIOUS
  <2>8. j2 = IF j # <<>> /\ day <= j[Len(j)].to + 1
             THEN [j EXCEPT ![Len(j)].to = IF e > @ THEN e ELSE @]
             ELSE Append(j, [from |-> day, to |-> e])
    BY <1>10, <2>2, <2>7 DEF Join
  <2>9. CASE j # <<>> /\ day <= j[Len(j)].to + 1
    <3>1. n0 \in 1..n0 /\ n0 >= 1
      BY <1>2, <1>6, <2>9, EmptySeq
    <3>2. PICK last : last = j[n0]
      OBVIOUS
    <3>3. /\ last \in LeaveRanges /\ last.from \in Int /\ last.to \in Int /\ 1 <= last.from
          /\ last.from <= last.to /\ last.from < day /\ last.to <= LastDay /\ day <= last.to + 1
      BY <1>2, <1>3, <2>9, <3>1, <3>2
    <3>4. PICK end : end = IF e > last.to THEN e ELSE last.to
      OBVIOUS
    <3>5. end \in Int /\ end >= e /\ end >= last.to /\ (end = e \/ end = last.to) /\ end <= LastDay
      BY <2>4, <3>3, <3>4
    <3>6. PICK new : new = [last EXCEPT !.to = end]
      OBVIOUS
    <3>7. j2 = [j EXCEPT ![n0] = new]
      BY <1>2, <2>8, <2>9, <3>2, <3>4, <3>6
    <3>8. new \in LeaveRanges /\ new.from = last.from /\ new.to = end
      BY <3>3, <3>5, <3>6 DEF LeaveRanges
    <3>9. j2 \in Seq(LeaveRanges) /\ Len(j2) = n0 /\ \A k \in 1..n0 : j2[k] = IF k = n0 THEN new ELSE j[k]
      BY <1>2, <1>6, <3>1, <3>7, <3>8
    <3>10. j2[n0].from = last.from /\ j2[n0].to = end
      BY <3>1, <3>8, <3>9
    <3>11. \A k \in 1..n0 : j2[k].from = j[k].from /\ (k # n0 => j2[k].to = j[k].to)
      BY <3>1, <3>2, <3>8, <3>9
    <3>12. \A k \in 1..n0 : 1 <= j2[k].from /\ j2[k].from <= j2[k].to /\ j2[k].from <= day /\ j2[k].to <= LastDay
      <4> SUFFICES ASSUME NEW k \in 1..n0
                   PROVE  1 <= j2[k].from /\ j2[k].from <= j2[k].to /\ j2[k].from <= day /\ j2[k].to <= LastDay
        OBVIOUS
      <4>1. CASE k = n0
        <5>1. 1 <= last.from /\ last.from <= end /\ last.from <= day /\ end <= LastDay
          BY <1>0, <3>3, <3>5
        <5> QED BY <3>10, <4>1, <5>1
      <4>2. CASE k # n0
        <5>1. 1 <= j[k].from /\ j[k].from <= j[k].to /\ j[k].from <= day /\ j[k].to <= LastDay
          BY <1>3
        <5>2. j2[k].from = j[k].from /\ j2[k].to = j[k].to
          BY <3>11, <4>2
        <5> QED BY <5>1, <5>2
      <4> QED BY <4>1, <4>2
    <3>13. \A k, l \in 1..n0 : k < l => j2[k].to + 1 < j2[l].from
      <4> SUFFICES ASSUME NEW k \in 1..n0, NEW l \in 1..n0, k < l PROVE j2[k].to + 1 < j2[l].from
        OBVIOUS
      <4>1. k # n0
        BY <3>1
      <4> QED BY <1>4, <3>11, <4>1
    <3>14. ASSUME NEW x \in Int
           PROVE  (\E k \in 1..n0 : j2[k].from <= x /\ x <= j2[k].to)
                  <=> (\E k \in 1..n0 : j[k].from <= x /\ x <= j[k].to) \/ (day <= x /\ x <= e)
      <4>1. (last.from <= x /\ x <= end) <=> (last.from <= x /\ x <= last.to) \/ (day <= x /\ x <= e)
        BY <1>0, <2>4, <3>3, <3>5
      <4>2. \A k \in 1..n0 : k # n0 => ((j2[k].from <= x /\ x <= j2[k].to) <=> (j[k].from <= x /\ x <= j[k].to))
        BY <3>11
      <4>3. (j2[n0].from <= x /\ x <= j2[n0].to) <=> (j[n0].from <= x /\ x <= j[n0].to) \/ (day <= x /\ x <= e)
        BY <3>2, <3>10, <4>1
      <4> QED BY <3>1, <4>2, <4>3
    <3>15. \A x \in Int : (\E k \in 1..n0 : j2[k].from <= x /\ x <= j2[k].to)
                          <=> \E k \in DOMAIN ls : ls[k].from <= day /\ ls[k].from <= x /\ x <= ls[k].to
      BY <2>6, <3>14
    <3>16. JoinedOk(j2, ls, day)
      BY <3>9, <3>12, <3>13, <3>15 DEF JoinedOk
    <3> QED BY <1>8, <2>7, <3>16
  <2>10. CASE ~(j # <<>> /\ day <= j[Len(j)].to + 1)
    <3>1. PICK i : i = [from |-> day, to |-> e]
      OBVIOUS
    <3>2. i \in LeaveRanges /\ i.from = day /\ i.to = e
      BY <1>0, <2>4, <3>1 DEF LeaveRanges
    <3>3. j2 \in Seq(LeaveRanges) /\ Len(j2) = n0 + 1 /\ j2[n0 + 1] = i /\ \A k \in 1..n0 : j2[k] = j[k]
      BY <1>2, <1>6, <2>8, <2>10, <3>1, <3>2
    <3>4. \A k \in 1..n0 : j[k].to + 1 < day
      <4> SUFFICES ASSUME NEW k \in 1..n0 PROVE j[k].to + 1 < day
        OBVIOUS
      <4>1. j # <<>> /\ n0 \in 1..n0
        BY <1>2
      <4>2. j[n0].to + 1 < day /\ j[n0].from < day
        BY <1>0, <1>2, <1>3, <2>10, <4>1
      <4>3. CASE k = n0
        BY <4>2, <4>3
      <4>4. CASE k # n0
        <5>1. j[k].to + 1 < j[n0].from
          BY <1>4, <4>1, <4>4
        <5>2. j[k].to \in Int /\ j[n0].from \in Int
          BY <1>3, <4>1
        <5>3. j[n0].from < day
          BY <4>2
        <5> QED BY <1>0, <5>1, <5>2, <5>3
      <4> QED BY <4>3, <4>4
    <3>5. \A k \in 1..(n0 + 1) : k \in 1..n0 \/ k = n0 + 1
      OBVIOUS
    <3>6. \A k \in 1..(n0 + 1) : 1 <= j2[k].from /\ j2[k].from <= j2[k].to /\ j2[k].from <= day /\ j2[k].to <= LastDay
      <4> SUFFICES ASSUME NEW k \in 1..(n0 + 1)
                   PROVE  1 <= j2[k].from /\ j2[k].from <= j2[k].to /\ j2[k].from <= day /\ j2[k].to <= LastDay
        OBVIOUS
      <4>1. CASE k \in 1..n0
        <5>1. 1 <= j[k].from /\ j[k].from <= j[k].to /\ j[k].from <= day /\ j[k].to <= LastDay
          BY <1>0, <1>3, <4>1
        <5>2. j2[k] = j[k]
          BY <3>3, <4>1
        <5> QED BY <5>1, <5>2
      <4>2. CASE k = n0 + 1
        BY <1>0, <2>4, <3>2, <3>3, <4>2
      <4> QED BY <3>5, <4>1, <4>2
    <3>7. \A k, l \in 1..(n0 + 1) : k < l => j2[k].to + 1 < j2[l].from
      <4> SUFFICES ASSUME NEW k \in 1..(n0 + 1), NEW l \in 1..(n0 + 1), k < l PROVE j2[k].to + 1 < j2[l].from
        OBVIOUS
      <4>1. k \in 1..n0 /\ j2[k] = j[k]
        BY <3>3
      <4>2. CASE l \in 1..n0
        BY <1>4, <3>3, <4>1, <4>2
      <4>3. CASE l = n0 + 1
        BY <3>2, <3>3, <3>4, <4>1, <4>3
      <4> QED BY <3>5, <4>2, <4>3
    <3>8. ASSUME NEW x \in Int
          PROVE  (\E k \in 1..(n0 + 1) : j2[k].from <= x /\ x <= j2[k].to)
                 <=> (\E k \in 1..n0 : j[k].from <= x /\ x <= j[k].to) \/ (day <= x /\ x <= e)
      <4>1. n0 + 1 \in 1..(n0 + 1) /\ \A k \in 1..n0 : k \in 1..(n0 + 1)
        OBVIOUS
      <4> QED BY <3>2, <3>3, <3>5, <4>1
    <3>9. \A x \in Int : (\E k \in 1..(n0 + 1) : j2[k].from <= x /\ x <= j2[k].to)
                         <=> \E k \in DOMAIN ls : ls[k].from <= day /\ ls[k].from <= x /\ x <= ls[k].to
      BY <2>6, <3>8
    <3>10. JoinedOk(j2, ls, day)
      BY <3>3, <3>6, <3>7, <3>9 DEF JoinedOk
    <3> QED BY <1>8, <2>7, <3>10
  <2> QED BY <2>9, <2>10
<1> QED BY <1>9, <1>10

\* What is joined day by day, as far as the day n.
Joining(ls, n, f) ==
  f = [t \in 0..n |-> IF t = 0 THEN <<>> ELSE Join(f[t - 1], t, EndsOf(ls, t))]

LEMMA JoiningGoesOn ==
  ASSUME NEW ls, NEW k \in Nat PROVE \E f : Joining(ls, k, f)
<1>1. PICK bad : bad = {n \in Nat : ~\E f : Joining(ls, n, f)}
  OBVIOUS
<1> SUFFICES bad = {}
  BY <1>1
<1> SUFFICES ASSUME bad # {} PROVE FALSE
  OBVIOUS
<1>2. PICK n \in bad : \A y \in bad : n <= y
  BY <1>1, LeastOf
<1>3. n \in Nat /\ ~\E f : Joining(ls, n, f)
  BY <1>1, <1>2
<1>4. CASE n = 0
  <2>1. PICK f : f = [t \in 0..0 |-> <<>>]
    OBVIOUS
  <2>2. \A t \in 0..0 : t = 0
    OBVIOUS
  <2>3. Joining(ls, 0, f)
    BY <2>1, <2>2 DEF Joining
  <2> QED BY <1>3, <1>4, <2>3
<1>5. CASE n # 0
  <2>1. n - 1 \in Nat /\ n - 1 < n
    BY <1>3, <1>5
  <2>2. n - 1 \notin bad
    BY <1>2, <1>3, <2>1
  <2>3. PICK g : Joining(ls, n - 1, g)
    BY <1>1, <2>1, <2>2
  <2>4. PICK f : f = [t \in 0..n |-> IF t = n THEN Join(g[n - 1], n, EndsOf(ls, n)) ELSE g[t]]
    OBVIOUS
  <2>5. \A t \in 0..(n - 1) : f[t] = g[t]
    <3>1. \A t \in 0..(n - 1) : t \in 0..n /\ t # n
      BY <1>3
    <3> QED BY <2>4, <3>1
  <2>6. n \in 0..n /\ f[n] = Join(g[n - 1], n, EndsOf(ls, n))
    BY <1>3, <2>4
  <2>7. \A t \in 0..(n - 1) : g[t] = IF t = 0 THEN <<>> ELSE Join(g[t - 1], t, EndsOf(ls, t))
    BY <2>3 DEF Joining
  <2>8. ASSUME NEW t \in 0..n
        PROVE  f[t] = IF t = 0 THEN <<>> ELSE Join(f[t - 1], t, EndsOf(ls, t))
    <3>1. CASE t = n
      <4>1. n - 1 \in 0..(n - 1) /\ f[n - 1] = g[n - 1]
        BY <2>1, <2>5
      <4> QED BY <1>5, <2>6, <3>1, <4>1
    <3>2. CASE t # n
      <4>1. t \in 0..(n - 1)
        BY <1>3, <3>2
      <4>2. CASE t = 0
        BY <2>5, <2>7, <4>1, <4>2
      <4>3. CASE t # 0
        <5>1. t - 1 \in 0..(n - 1)
          BY <1>3, <4>1, <4>3
        <5>2. f[t - 1] = g[t - 1] /\ f[t] = g[t]
          BY <2>5, <4>1, <5>1
        <5> QED BY <2>7, <4>1, <4>3, <5>2
      <4> QED BY <4>2, <4>3
    <3> QED BY <3>1, <3>2
  <2>9. f = [t \in 0..n |-> f[t]]
    BY <2>4
  <2>10. Joining(ls, n, f)
    BY <2>8, <2>9 DEF Joining
  <2> QED BY <1>3, <2>10
<1> QED BY <1>4, <1>5

LEMMA LeaveIsJoined ==
  ASSUME NEW ls \in Seq(Intervals)
  PROVE  JoinedOk(JoinLeave(ls), ls, LastDay)
<1>1. LastDay \in Nat /\ LastDay \in 0..LastDay
  BY CoverageAssumption
<1>2. \E f : Joining(ls, LastDay, f)
  BY <1>1, JoiningGoesOn
<1>3. PICK f : Joining(ls, LastDay, f) /\ JoinLeave(ls) = f[LastDay]
  BY <1>1, <1>2 DEF JoinLeave, Joining, EndsOf
<1>4. \A t \in 0..LastDay : f[t] = IF t = 0 THEN <<>> ELSE Join(f[t - 1], t, EndsOf(ls, t))
  BY <1>3 DEF Joining
<1>5. PICK bad : bad = {t \in 0..LastDay : ~JoinedOk(f[t], ls, t)}
  OBVIOUS
<1>6. ASSUME bad # {} PROVE FALSE
  <2>1. bad \subseteq Nat
    BY <1>5
  <2>2. PICK t \in bad : \A y \in bad : t <= y
    BY <1>6, <2>1, LeastOf
  <2>3. t \in 0..LastDay /\ ~JoinedOk(f[t], ls, t) /\ t \in Nat
    BY <1>1, <1>5, <2>2
  <2>4. CASE t = 0
    <3>1. f[0] = <<>>
      BY <1>4, <2>3, <2>4
    <3>2. \A k \in DOMAIN ls : ~(ls[k].from <= 0)
      <4>1. \A k \in DOMAIN ls : ls[k] \in Intervals
        OBVIOUS
      <4>2. \A i \in Intervals : ~(i.from <= 0)
        BY <1>1 DEF Intervals
      <4> QED BY <4>1, <4>2
    <3>3. <<>> \in Seq(LeaveRanges) /\ Len(<<>>) = 0 /\ 1..0 = {}
      OBVIOUS
    <3>4. JoinedOk(<<>>, ls, 0)
      BY <3>2, <3>3 DEF JoinedOk
    <3> QED BY <2>3, <2>4, <3>1, <3>4
  <2>5. CASE t # 0
    <3>1. t - 1 \in Nat /\ t - 1 \in 0..LastDay /\ t - 1 < t /\ t \in 1..LastDay
      BY <1>1, <2>3, <2>5
    <3>2. t - 1 \notin bad
      BY <2>2, <2>3, <3>1
    <3>3. JoinedOk(f[t - 1], ls, t - 1)
      BY <1>5, <3>1, <3>2
    <3>4. f[t] = Join(f[t - 1], t, EndsOf(ls, t))
      BY <1>4, <2>3, <2>5
    <3>5. JoinedOk(Join(f[t - 1], t, EndsOf(ls, t)), ls, t)
      BY <3>1, <3>3, JoinKeeps
    <3> QED BY <2>3, <3>4, <3>5
  <2> QED BY <2>4, <2>5
<1> QED BY <1>1, <1>3, <1>5, <1>6

-----------------------------------------------------------------------------
\* The sweep counts, day by day, the managers that are away.
LeaveOk(leave) == \A m \in DOMAIN leave : leave[m] \in Seq(Intervals)
Pieces(joined) == UNION {{<<m, k>> : k \in DOMAIN joined[m]} : m \in DOMAIN joined}
OnLeave(joined, day) == {p \in Pieces(joined) : joined[p[1]][p[2]].from <= day /\ day <= joined[p[1]][p[2]].to}
AwayOn(leave, day) ==
  {m \in DOMAIN leave : \E k \in DOMAIN leave[m] : leave[m][k].from <= day /\ day <= leave[m][k].to}

LEMMA PiecesAre ==
  ASSUME NEW joined, NEW p
  PROVE  p \in Pieces(joined) <=> \E m \in DOMAIN joined : \E k \in DOMAIN joined[m] : p = <<m, k>>
BY DEF Pieces

\* What one manager's leave is joined to.
LEMMA JoinedLeave ==
  ASSUME NEW leave, LeaveOk(leave), NEW joined, joined = [m \in DOMAIN leave |-> JoinLeave(leave[m])],
         NEW m \in DOMAIN leave
  PROVE  /\ \A k \in DOMAIN joined[m] : /\ joined[m][k].from \in Int /\ joined[m][k].to \in Int
                                        /\ 1 <= joined[m][k].from /\ joined[m][k].from <= joined[m][k].to
                                        /\ joined[m][k].to <= LastDay
         /\ \A k, l \in DOMAIN joined[m] : k = l \/ joined[m][k].to < joined[m][l].from \/ joined[m][l].to < joined[m][k].from
         /\ \A x \in Int : (\E k \in DOMAIN joined[m] : joined[m][k].from <= x /\ x <= joined[m][k].to) <=> m \in AwayOn(leave, x)
<1>1. PICK ls : ls = leave[m] /\ ls \in Seq(Intervals)
  BY DEF LeaveOk
<1>2. PICK j : j = joined[m]
  OBVIOUS
<1>3. j = JoinLeave(ls)
  BY <1>1, <1>2
<1>4. JoinedOk(j, ls, LastDay)
  BY <1>1, <1>3, LeaveIsJoined
<1>5. j \in Seq(LeaveRanges) /\ DOMAIN j = 1..Len(j)
  BY <1>4 DEF JoinedOk
<1>6. \A k \in DOMAIN j : j[k].from \in Int /\ j[k].to \in Int
  <2>1. \A k \in DOMAIN j : j[k] \in LeaveRanges
    BY <1>5
  <2> QED BY <2>1 DEF LeaveRanges
<1>7. \A k \in DOMAIN j : 1 <= j[k].from /\ j[k].from <= j[k].to /\ j[k].to <= LastDay
  BY <1>4, <1>5 DEF JoinedOk
<1>8. \A k, l \in DOMAIN j : k = l \/ j[k].to < j[l].from \/ j[l].to < j[k].from
  <2> SUFFICES ASSUME NEW k \in DOMAIN j, NEW l \in DOMAIN j, k # l
               PROVE  j[k].to < j[l].from \/ j[l].to < j[k].from
    OBVIOUS
  <2>1. k \in 1..Len(j) /\ l \in 1..Len(j) /\ (k < l \/ l < k)
    BY <1>5
  <2>2. k < l => j[k].to + 1 < j[l].from
    BY <1>4, <2>1 DEF JoinedOk
  <2>3. l < k => j[l].to + 1 < j[k].from
    BY <1>4, <2>1 DEF JoinedOk
  <2> QED BY <1>6, <2>1, <2>2, <2>3
<1>9. ASSUME NEW x \in Int
      PROVE  (\E k \in DOMAIN j : j[k].from <= x /\ x <= j[k].to) <=> m \in AwayOn(leave, x)
  <2>1. (\E k \in DOMAIN j : j[k].from <= x /\ x <= j[k].to)
        <=> \E k \in DOMAIN ls : ls[k].from <= LastDay /\ ls[k].from <= x /\ x <= ls[k].to
    BY <1>4, <1>5 DEF JoinedOk
  <2>2. \A k \in DOMAIN ls : ls[k].from <= LastDay
    <3>1. \A k \in DOMAIN ls : ls[k] \in Intervals
      BY <1>1
    <3>2. \A i \in Intervals : i.from <= LastDay
      BY CoverageAssumption DEF Intervals
    <3> QED BY <3>1, <3>2
  <2>3. m \in AwayOn(leave, x) <=> \E k \in DOMAIN ls : ls[k].from <= x /\ x <= ls[k].to
    BY <1>1 DEF AwayOn
  <2> QED BY <2>1, <2>2, <2>3
<1> QED BY <1>2, <1>6, <1>7, <1>8, <1>9

\* A manager that is away on a day is away in one piece.
LEMMA AwayIsCounted ==
  ASSUME NEW leave, LeaveOk(leave), IsFiniteSet(DOMAIN leave), NEW joined,
         joined = [m \in DOMAIN leave |-> JoinLeave(leave[m])], NEW day \in Int
  PROVE  /\ IsFiniteSet(OnLeave(joined, day))
         /\ Cardinality(OnLeave(joined, day)) = Cardinality(AwayOn(leave, day))
<1>1. PICK ps : ps = OnLeave(joined, day)
  OBVIOUS
<1>2. PICK ms : ms = AwayOn(leave, day)
  OBVIOUS
<1>3. DOMAIN joined = DOMAIN leave
  OBVIOUS
<1>4. \A p : p \in ps <=> \E m \in DOMAIN leave : \E k \in DOMAIN joined[m] :
                            p = <<m, k>> /\ joined[m][k].from <= day /\ day <= joined[m][k].to
  BY <1>1, <1>3, PiecesAre DEF OnLeave
<1>5. IsFiniteSet(ms)
  BY <1>2, FS_Subset DEF AwayOn
<1>6. PICK f : f = [p \in ps |-> p[1]]
  OBVIOUS
<1>7. \A p \in ps : p[1] \in ms
  <2> SUFFICES ASSUME NEW p \in ps PROVE p[1] \in ms
    OBVIOUS
  <2>1. PICK m \in DOMAIN leave : \E k \in DOMAIN joined[m] :
                            p = <<m, k>> /\ joined[m][k].from <= day /\ day <= joined[m][k].to
    BY <1>4
  <2>2. m \in AwayOn(leave, day)
    BY <2>1, JoinedLeave
  <2> QED BY <1>2, <2>1, <2>2
<1>8. \A p, q \in ps : p[1] = q[1] => p = q
  <2> SUFFICES ASSUME NEW p \in ps, NEW q \in ps, p[1] = q[1] PROVE p = q
    OBVIOUS
  <2>0. PICK m \in DOMAIN leave, n \in DOMAIN leave :
          /\ \E k \in DOMAIN joined[m] : p = <<m, k>> /\ joined[m][k].from <= day /\ day <= joined[m][k].to
          /\ \E l \in DOMAIN joined[n] : q = <<n, l>> /\ joined[n][l].from <= day /\ day <= joined[n][l].to
    BY <1>4
  <2>1. PICK k \in DOMAIN joined[m] : p = <<m, k>> /\ joined[m][k].from <= day /\ day <= joined[m][k].to
    BY <2>0
  <2>2. PICK l \in DOMAIN joined[n] : q = <<n, l>> /\ joined[n][l].from <= day /\ day <= joined[n][l].to
    BY <2>0
  <2>3. m = n
    BY <2>1, <2>2
  <2>4. /\ joined[m][k].from \in Int /\ joined[m][k].to \in Int /\ joined[m][l].from \in Int /\ joined[m][l].to \in Int
        /\ k = l \/ joined[m][k].to < joined[m][l].from \/ joined[m][l].to < joined[m][k].from
    BY <2>1, <2>2, <2>3, JoinedLeave
  <2>5. k = l
    BY <2>1, <2>2, <2>3, <2>4
  <2> QED BY <2>1, <2>2, <2>3, <2>5
<1>9. \A m \in ms : \E p \in ps : p[1] = m
  <2> SUFFICES ASSUME NEW m \in ms PROVE \E p \in ps : p[1] = m
    OBVIOUS
  <2>1. m \in DOMAIN leave /\ m \in AwayOn(leave, day)
    BY <1>2 DEF AwayOn
  <2>2. PICK k \in DOMAIN joined[m] : joined[m][k].from <= day /\ day <= joined[m][k].to
    BY <2>1, JoinedLeave
  <2>3. <<m, k>> \in ps
    BY <1>4, <2>1, <2>2
  <2> QED BY <2>3
<1>10. f \in Injection(ps, ms)
  BY <1>6, <1>7, <1>8 DEF Injection, IsInjective
<1>11. f \in Surjection(ps, ms)
  BY <1>6, <1>7, <1>9 DEF Surjection
<1>12. IsFiniteSet(ps) /\ Cardinality(ps) = Cardinality(ms)
  BY <1>5, <1>10, <1>11, FS_Injection
<1> QED BY <1>1, <1>2, <1>12

\* The events of a day turn the count of the day before into the day's.
LEMMA EventsAdd ==
  ASSUME NEW leave, LeaveOk(leave), IsFiniteSet(DOMAIN leave), NEW joined,
         joined = [m \in DOMAIN leave |-> JoinLeave(leave[m])], NEW day \in Int
  PROVE  /\ Cardinality(AwayOn(leave, day)) \in Nat /\ Cardinality(AwayOn(leave, day - 1)) \in Nat
         /\ LeaveEvents(joined, day) = Cardinality(AwayOn(leave, day)) - Cardinality(AwayOn(leave, day - 1))
<1>1. PICK here : here = OnLeave(joined, day)
  OBVIOUS
<1>2. PICK before : before = OnLeave(joined, day - 1)
  OBVIOUS
<1>3. PICK starts : starts = {p \in Pieces(joined) : joined[p[1]][p[2]].from = day}
  OBVIOUS
<1>4. PICK ends : ends = {p \in Pieces(joined) : joined[p[1]][p[2]].to + 1 = day}
  OBVIOUS
<1>5. LeaveEvents(joined, day) = Cardinality(starts) - Cardinality(ends)
  BY <1>3, <1>4 DEF LeaveEvents, Pieces
<1>6. \A p \in Pieces(joined) : /\ joined[p[1]][p[2]].from \in Int /\ joined[p[1]][p[2]].to \in Int
                                /\ joined[p[1]][p[2]].from <= joined[p[1]][p[2]].to
  <2> SUFFICES ASSUME NEW p \in Pieces(joined)
               PROVE  /\ joined[p[1]][p[2]].from \in Int /\ joined[p[1]][p[2]].to \in Int
                      /\ joined[p[1]][p[2]].from <= joined[p[1]][p[2]].to
    OBVIOUS
  <2>0. PICK m \in DOMAIN joined : \E k \in DOMAIN joined[m] : p = <<m, k>>
    BY PiecesAre
  <2>1. PICK k \in DOMAIN joined[m] : p = <<m, k>>
    BY <2>0
  <2>2. p[1] = m /\ p[2] = k /\ m \in DOMAIN leave
    BY <2>1
  <2>3. joined[m][k].from \in Int /\ joined[m][k].to \in Int /\ joined[m][k].from <= joined[m][k].to
    BY <2>1, <2>2, JoinedLeave
  <2> QED BY <2>2, <2>3
<1>7. day - 1 \in Int
  OBVIOUS
<1>8. /\ IsFiniteSet(here) /\ Cardinality(here) = Cardinality(AwayOn(leave, day))
      /\ IsFiniteSet(before) /\ Cardinality(before) = Cardinality(AwayOn(leave, day - 1))
  BY <1>1, <1>2, <1>7, AwayIsCounted
<1>9. starts \subseteq here /\ ends \subseteq before
  BY <1>1, <1>2, <1>3, <1>4, <1>6 DEF OnLeave
<1>10. here \cap ends = {} /\ before \cap starts = {}
  BY <1>1, <1>2, <1>3, <1>4, <1>6 DEF OnLeave
<1>11. here \cup ends = before \cup starts
  BY <1>1, <1>2, <1>3, <1>4, <1>6 DEF OnLeave
<1>12. IsFiniteSet(starts) /\ IsFiniteSet(ends)
  BY <1>8, <1>9, FS_Subset
<1>13. Cardinality(here \cup ends) = Cardinality(here) + Cardinality(ends) - 0
  BY <1>8, <1>10, <1>12, FS_Union, FS_EmptySet
<1>14. Cardinality(before \cup starts) = Cardinality(before) + Cardinality(starts) - 0
  BY <1>8, <1>10, <1>12, FS_Union, FS_EmptySet
<1>15. /\ Cardinality(here) \in Nat /\ Cardinality(before) \in Nat /\ Cardinality(starts) \in Nat
       /\ Cardinality(ends) \in Nat
  BY <1>8, <1>12, FS_CardinalityType
<1>16. Cardinality(here) + Cardinality(ends) - 0 = Cardinality(before) + Cardinality(starts) - 0
  BY <1>11, <1>13, <1>14
<1>17. Cardinality(starts) - Cardinality(ends) = Cardinality(here) - Cardinality(before)
  BY <1>15, <1>16
<1> QED BY <1>5, <1>8, <1>15, <1>17

-----------------------------------------------------------------------------
\* The windows on which two or more are away, of the numbers away day by day.
LowDays(h) == {i \in Intervals : (\A d \in i.from..i.to : h[d] >= 2) /\ h[i.from - 1] < 2 /\ h[i.to + 1] < 2}
Worst(h, i) == [from |-> i.from, to |-> i.to, most |-> Max({h[d] : d \in i.from..i.to})]
HeadsAreNumbers(h) == \A d \in 0..(LastDay + 1) : h[d] \in Nat

\* The sweep has passed the day.
SweptOk(s, h, today, day) ==
  /\ DOMAIN s = {"count", "start", "most", "found"}
  /\ s.count = h[day]
  /\ h[day] >= 2 =>
       /\ s.start \in 1..day /\ h[s.start - 1] < 2
       /\ \A d \in s.start..day : h[d] >= 2 /\ h[d] <= s.most
       /\ \E d \in s.start..day : s.most = h[d]
  /\ s.found = {Worst(h, i) : i \in {i \in LowDays(h) : i.to < day /\ i.to >= today}}

LEMMA MaxIs ==
  ASSUME NEW S, S \subseteq Int, NEW x \in S, \A y \in S : y <= x PROVE Max(S) = x
<1>1. x \in S /\ \A y \in S : x >= y
  OBVIOUS
<1>2. PICK m : m = Max(S)
  OBVIOUS
<1>3. m \in S /\ \A y \in S : m >= y
  BY <1>1, <1>2 DEF Max
<1>4. m \in Int /\ x \in Int /\ m >= x /\ x >= m
  BY <1>1, <1>3
<1> QED BY <1>2, <1>4

LEMMA LowDaysAre ==
  ASSUME NEW h, NEW i \in LowDays(h)
  PROVE  /\ i \in Intervals /\ i.from \in Nat /\ i.to \in Nat /\ 1 <= i.from /\ i.from <= i.to /\ i.to <= LastDay
         /\ \A d \in i.from..i.to : h[d] >= 2
         /\ h[i.from - 1] < 2 /\ h[i.to + 1] < 2
<1>1. i \in Intervals
  BY DEF LowDays
<1>2. i.from \in Nat /\ i.to \in Nat /\ 1 <= i.from /\ i.from <= i.to /\ i.to <= LastDay
  BY <1>1, CoverageAssumption DEF Intervals
<1> QED BY <1>1, <1>2 DEF LowDays

LEMMA SweepKeeps ==
  ASSUME NEW h, HeadsAreNumbers(h), NEW today \in Int, NEW day \in 1..(LastDay + 1), NEW s, SweptOk(s, h, today, day - 1)
  PROVE  SweptOk(Sweep(s, day, today, h[day] - h[day - 1]), h, today, day)
<1>0. LastDay \in Nat /\ day \in Nat /\ day >= 1 /\ day - 1 \in Nat /\ day - 1 <= LastDay
  BY CoverageAssumption
<1>1. h[day] \in Nat /\ h[day - 1] \in Nat
  <2>1. day \in 0..(LastDay + 1) /\ day - 1 \in 0..(LastDay + 1)
    BY <1>0
  <2> QED BY <2>1 DEF HeadsAreNumbers
<1>2. PICK next \in Nat : next = h[day]
  BY <1>1
<1>3. PICK count \in Nat : count = h[day - 1]
  BY <1>1
<1>4. DOMAIN s = {"count", "start", "most", "found"} /\ s.count = count
  BY <1>3 DEF SweptOk
<1>5. s.count + (h[day] - h[day - 1]) = next
  BY <1>2, <1>3, <1>4
<1>6. PICK s2 : s2 = Sweep(s, day, today, h[day] - h[day - 1])
  OBVIOUS
<1>7. s2 = IF count < 2 /\ next >= 2 THEN [s EXCEPT !.count = next, !.start = day, !.most = next]
           ELSE IF count >= 2 /\ next >= 2 THEN [s EXCEPT !.count = next, !.most = IF next > @ THEN next ELSE @]
           ELSE IF count >= 2
             THEN [s EXCEPT !.count = next,
                            !.found = @ \cup IF day - 1 >= today
                                             THEN {[from |-> s.start, to |-> day - 1, most |-> s.most]} ELSE {}]
           ELSE [s EXCEPT !.count = next]
  BY <1>4, <1>5, <1>6 DEF Sweep
<1>8. PICK old : old = {i \in LowDays(h) : i.to < day - 1 /\ i.to >= today}
  OBVIOUS
<1>9. PICK new : new = {i \in LowDays(h) : i.to < day /\ i.to >= today}
  OBVIOUS
<1>10. s.found = {Worst(h, i) : i \in old}
  BY <1>8 DEF SweptOk
<1>11. ASSUME ~(count >= 2 /\ next < 2) PROVE new = old
  <2>1. \A i \in LowDays(h) : i.to < day <=> i.to < day - 1
    <3> SUFFICES ASSUME NEW i \in LowDays(h), i.to = day - 1 PROVE FALSE
      BY <1>0, LowDaysAre
    <3>1. i.to + 1 = day /\ i.to \in i.from..i.to
      BY <1>0, LowDaysAre
    <3>2. h[day - 1] >= 2 /\ h[day] < 2
      BY <3>1, LowDaysAre
    <3> QED BY <1>2, <1>3, <1>11, <3>2
  <2> QED BY <1>8, <1>9, <2>1
<1>12. CASE count < 2 /\ next >= 2
  <2>1. s2 = [s EXCEPT !.count = next, !.start = day, !.most = next]
    BY <1>7, <1>12
  <2>2. DOMAIN s2 = {"count", "start", "most", "found"} /\ s2.count = next /\ s2.start = day /\ s2.most = next /\ s2.found = s.found
    BY <1>4, <2>1
  <2>3. new = old
    BY <1>11, <1>12
  <2>4. s2.found = {Worst(h, i) : i \in new}
    BY <1>10, <2>2, <2>3
  <2>5. day \in 1..day /\ h[day - 1] < 2 /\ \A d \in day..day : d = day
    BY <1>0, <1>3, <1>12
  <2>6. \A d \in day..day : h[d] >= 2 /\ h[d] <= next
    BY <1>2, <1>12, <2>5
  <2>7. \E d \in day..day : next = h[d]
    BY <1>0, <1>2
  <2>8. SweptOk(s2, h, today, day)
    BY <1>2, <1>9, <2>2, <2>4, <2>5, <2>6, <2>7 DEF SweptOk
  <2> QED BY <1>6, <2>8
<1>13. ASSUME count >= 2
       PROVE  /\ s.start \in 1..(day - 1) /\ h[s.start - 1] < 2
              /\ \A d \in s.start..(day - 1) : h[d] >= 2 /\ h[d] <= s.most
              /\ \E d \in s.start..(day - 1) : s.most = h[d]
  BY <1>3, <1>13 DEF SweptOk
<1>14. ASSUME count >= 2 PROVE s.most \in Nat
  <2>1. PICK d \in s.start..(day - 1) : s.most = h[d]
    BY <1>13, <1>14
  <2>2. s.start \in 1..(day - 1)
    BY <1>13, <1>14
  <2>3. d \in 0..(LastDay + 1)
    BY <1>0, <2>1, <2>2
  <2> QED BY <2>1, <2>3 DEF HeadsAreNumbers
<1>15. CASE count >= 2 /\ next >= 2
  <2>1. PICK most \in Nat : most = s.most
    BY <1>14, <1>15
  <2>2. PICK more : more = IF next > most THEN next ELSE most
    OBVIOUS
  <2>3. s2 = [s EXCEPT !.count = next, !.most = more]
    BY <1>4, <1>7, <1>15, <2>1, <2>2
  <2>4. DOMAIN s2 = {"count", "start", "most", "found"} /\ s2.count = next /\ s2.start = s.start /\ s2.most = more /\ s2.found = s.found
    BY <1>4, <2>3
  <2>5. s2.found = {Worst(h, i) : i \in new}
    BY <1>10, <1>11, <1>15, <2>4
  <2>6. s.start \in Nat /\ s.start \in 1..day /\ s.start <= day - 1 /\ h[s.start - 1] < 2
    BY <1>0, <1>13, <1>15
  <2>7. more \in Nat /\ more >= most /\ more >= next /\ (more = most \/ more = next)
    BY <2>1, <2>2
  <2>8. ASSUME NEW d \in s.start..day PROVE h[d] >= 2 /\ h[d] <= more
    <3>1. CASE d = day
      BY <1>2, <1>15, <2>7, <3>1
    <3>2. CASE d # day
      <4>1. d \in s.start..(day - 1)
        BY <1>0, <2>6, <3>2
      <4>2. h[d] >= 2 /\ h[d] <= most
        BY <1>13, <1>15, <2>1, <4>1
      <4>3. h[d] \in Nat
        <5>1. d \in 0..(LastDay + 1)
          BY <1>0, <2>6, <4>1
        <5> QED BY <5>1 DEF HeadsAreNumbers
      <4> QED BY <2>7, <4>2, <4>3
    <3> QED BY <3>1, <3>2
  <2>9. \E d \in s.start..day : more = h[d]
    <3>1. CASE more = next
      <4>1. day \in s.start..day
        BY <1>0, <2>6
      <4> QED BY <1>2, <3>1, <4>1
    <3>2. CASE more = most
      <4>1. PICK d \in s.start..(day - 1) : s.most = h[d]
        BY <1>13, <1>15
      <4>2. d \in s.start..day
        BY <1>0, <2>6, <4>1
      <4> QED BY <2>1, <3>2, <4>1, <4>2
    <3> QED BY <2>7, <3>1, <3>2
  <2>10. SweptOk(s2, h, today, day)
    BY <1>2, <1>9, <2>4, <2>5, <2>6, <2>8, <2>9 DEF SweptOk
  <2> QED BY <1>6, <2>10
<1>16. CASE count >= 2 /\ next < 2
  <2>1. PICK w : w = [from |-> s.start, to |-> day - 1]
    OBVIOUS
  <2>2. s.start \in Nat /\ 1 <= s.start /\ s.start <= day - 1
    BY <1>0, <1>13, <1>16
  <2>3. w \in LowDays(h) /\ w.from = s.start /\ w.to = day - 1
    <3>1. w \in Intervals /\ w.from = s.start /\ w.to = day - 1
      BY <1>0, <2>1, <2>2 DEF Intervals
    <3>2. h[w.from - 1] < 2 /\ \A d \in w.from..w.to : h[d] >= 2
      BY <1>13, <1>16, <3>1
    <3>3. w.to + 1 = day
      BY <1>0, <3>1
    <3> QED BY <1>2, <1>16, <3>1, <3>2, <3>3 DEF LowDays
  <2>4. \A i \in LowDays(h) : i.to = day - 1 => i = w
    <3> SUFFICES ASSUME NEW i \in LowDays(h), i.to = day - 1 PROVE i.from = s.start
      BY <2>1, LowDaysAre DEF Intervals
    <3>1. i.from \in Nat /\ 1 <= i.from /\ i.from <= day - 1
      BY <1>0, LowDaysAre
    <3>2. ASSUME i.from < s.start PROVE FALSE
      <4>1. s.start - 1 \in i.from..i.to
        BY <1>0, <2>2, <3>1, <3>2
      <4>2. h[s.start - 1] >= 2 /\ h[s.start - 1] < 2 /\ h[s.start - 1] \in Nat
        <5>1. s.start - 1 \in 0..(LastDay + 1)
          BY <1>0, <2>2
        <5> QED BY <1>13, <1>16, <4>1, <5>1, LowDaysAre DEF HeadsAreNumbers
      <4> QED BY <4>2
    <3>3. ASSUME s.start < i.from PROVE FALSE
      <4>1. i.from - 1 \in s.start..(day - 1)
        BY <1>0, <2>2, <3>1, <3>3
      <4>2. h[i.from - 1] >= 2 /\ h[i.from - 1] < 2 /\ h[i.from - 1] \in Nat
        <5>1. i.from - 1 \in 0..(LastDay + 1)
          BY <1>0, <3>1
        <5> QED BY <1>13, <1>16, <4>1, <5>1, LowDaysAre DEF HeadsAreNumbers
      <4> QED BY <4>2
    <3> QED BY <2>2, <3>1, <3>2, <3>3
  <2>5. new = old \cup (IF day - 1 >= today THEN {w} ELSE {})
    <3>1. \A i \in LowDays(h) : i.to < day <=> i.to < day - 1 \/ i = w
      BY <1>0, <2>3, <2>4, LowDaysAre
    <3>2. w.to >= today <=> day - 1 >= today
      BY <2>3
    <3> QED BY <1>8, <1>9, <2>3, <3>1, <3>2
  <2>6. Worst(h, w) = [from |-> s.start, to |-> day - 1, most |-> s.most]
    <3>1. PICK S : S = {h[d] : d \in s.start..(day - 1)}
      OBVIOUS
    <3>2. S \subseteq Int
      <4>1. \A d \in s.start..(day - 1) : d \in 0..(LastDay + 1)
        BY <1>0, <2>2
      <4> QED BY <3>1, <4>1 DEF HeadsAreNumbers
    <3>3. s.most \in S /\ \A y \in S : y <= s.most
      BY <1>13, <1>16, <3>1
    <3>4. Max(S) = s.most
      BY <3>2, <3>3, MaxIs
    <3> QED BY <2>3, <3>1, <3>4 DEF Worst
  <2>7. s2 = [s EXCEPT !.count = next,
                       !.found = @ \cup IF day - 1 >= today
                                        THEN {[from |-> s.start, to |-> day - 1, most |-> s.most]} ELSE {}]
    BY <1>7, <1>16
  <2>8. /\ DOMAIN s2 = {"count", "start", "most", "found"} /\ s2.count = next
        /\ s2.found = s.found \cup IF day - 1 >= today
                                   THEN {[from |-> s.start, to |-> day - 1, most |-> s.most]} ELSE {}
    BY <1>4, <2>7
  <2>9. s2.found = {Worst(h, i) : i \in new}
    <3>1. CASE day - 1 >= today
      BY <1>10, <2>5, <2>6, <2>8, <3>1
    <3>2. CASE ~(day - 1 >= today)
      BY <1>10, <2>5, <2>8, <3>2
    <3> QED BY <3>1, <3>2
  <2>10. ~(h[day] >= 2)
    BY <1>2, <1>16
  <2>11. SweptOk(s2, h, today, day)
    BY <1>2, <1>9, <2>8, <2>9, <2>10 DEF SweptOk
  <2> QED BY <1>6, <2>11
<1>17. CASE count < 2 /\ next < 2
  <2>1. s2 = [s EXCEPT !.count = next]
    BY <1>7, <1>17
  <2>2. DOMAIN s2 = {"count", "start", "most", "found"} /\ s2.count = next /\ s2.found = s.found
    BY <1>4, <2>1
  <2>3. s2.found = {Worst(h, i) : i \in new}
    BY <1>10, <1>11, <1>17, <2>2
  <2>4. ~(h[day] >= 2)
    BY <1>2, <1>17
  <2>5. SweptOk(s2, h, today, day)
    BY <1>2, <1>9, <2>2, <2>3, <2>4 DEF SweptOk
  <2> QED BY <1>6, <2>5
<1> QED BY <1>12, <1>15, <1>16, <1>17

\* What the sweep has found day by day, as far as the day n.
Sweeping(joined, today, n, f) ==
  f = [t \in 0..n |-> IF t = 0 THEN [count |-> 0, start |-> 0, most |-> 0, found |-> {}]
                      ELSE Sweep(f[t - 1], t, today, LeaveEvents(joined, t))]

LEMMA SweepingGoesOn ==
  ASSUME NEW joined, NEW today, NEW k \in Nat PROVE \E f : Sweeping(joined, today, k, f)
<1>0. PICK none : none = [count |-> 0, start |-> 0, most |-> 0, found |-> {}]
  OBVIOUS
<1>1. PICK bad : bad = {n \in Nat : ~\E f : Sweeping(joined, today, n, f)}
  OBVIOUS
<1> SUFFICES bad = {}
  BY <1>1
<1> SUFFICES ASSUME bad # {} PROVE FALSE
  OBVIOUS
<1>2. PICK n \in bad : \A y \in bad : n <= y
  BY <1>1, LeastOf
<1>3. n \in Nat /\ ~\E f : Sweeping(joined, today, n, f)
  BY <1>1, <1>2
<1>4. CASE n = 0
  <2>1. PICK f : f = [t \in 0..0 |-> none]
    OBVIOUS
  <2>2. \A t \in 0..0 : t = 0
    OBVIOUS
  <2>3. Sweeping(joined, today, 0, f)
    BY <1>0, <2>1, <2>2 DEF Sweeping
  <2> QED BY <1>3, <1>4, <2>3
<1>5. CASE n # 0
  <2>1. n - 1 \in Nat /\ n - 1 < n
    BY <1>3, <1>5
  <2>2. n - 1 \notin bad
    BY <1>2, <1>3, <2>1
  <2>3. PICK g : Sweeping(joined, today, n - 1, g)
    BY <1>1, <2>1, <2>2
  <2>4. PICK f : f = [t \in 0..n |-> IF t = n THEN Sweep(g[n - 1], n, today, LeaveEvents(joined, n)) ELSE g[t]]
    OBVIOUS
  <2>5. \A t \in 0..(n - 1) : f[t] = g[t]
    <3>1. \A t \in 0..(n - 1) : t \in 0..n /\ t # n
      BY <1>3
    <3> QED BY <2>4, <3>1
  <2>6. n \in 0..n /\ f[n] = Sweep(g[n - 1], n, today, LeaveEvents(joined, n))
    BY <1>3, <2>4
  <2>7. \A t \in 0..(n - 1) : g[t] = IF t = 0 THEN none ELSE Sweep(g[t - 1], t, today, LeaveEvents(joined, t))
    BY <1>0, <2>3 DEF Sweeping
  <2>8. ASSUME NEW t \in 0..n
        PROVE  f[t] = IF t = 0 THEN none ELSE Sweep(f[t - 1], t, today, LeaveEvents(joined, t))
    <3>1. CASE t = n
      <4>1. n - 1 \in 0..(n - 1) /\ f[n - 1] = g[n - 1]
        BY <2>1, <2>5
      <4> QED BY <1>5, <2>6, <3>1, <4>1
    <3>2. CASE t # n
      <4>1. t \in 0..(n - 1)
        BY <1>3, <3>2
      <4>2. CASE t = 0
        BY <2>5, <2>7, <4>1, <4>2
      <4>3. CASE t # 0
        <5>1. t - 1 \in 0..(n - 1)
          BY <1>3, <4>1, <4>3
        <5>2. f[t - 1] = g[t - 1] /\ f[t] = g[t]
          BY <2>5, <4>1, <5>1
        <5> QED BY <2>7, <4>1, <4>3, <5>2
      <4> QED BY <4>2, <4>3
    <3> QED BY <3>1, <3>2
  <2>9. f = [t \in 0..n |-> f[t]]
    BY <2>4
  <2>10. Sweeping(joined, today, n, f)
    BY <1>0, <2>8, <2>9 DEF Sweeping
  <2> QED BY <1>3, <2>10
<1> QED BY <1>4, <1>5

\* The windows found are those on which two or more are away.
HeadCount(leave) == [d \in 0..(LastDay + 1) |-> Cardinality(AwayOn(leave, d))]

LEMMA CoverIsPointwise ==
  ASSUME NEW leave, LeaveOk(leave), IsFiniteSet(DOMAIN leave), NEW today \in Int, NEW h, h = HeadCount(leave)
  PROVE  ReducedCover(leave, today) = {Worst(h, i) : i \in {i \in LowDays(h) : i.to >= today}}
<1>1. LastDay \in Nat
  BY CoverageAssumption
<1>2. PICK joined : joined = [m \in DOMAIN leave |-> JoinLeave(leave[m])]
  OBVIOUS
<1>3. PICK n \in Nat : n = LastDay + 1
  BY <1>1
<1>4. \E f : Sweeping(joined, today, n, f)
  BY SweepingGoesOn
<1>5. PICK f : Sweeping(joined, today, n, f) /\ ReducedCover(leave, today) = f[n].found
  BY <1>2, <1>3, <1>4 DEF ReducedCover, Sweeping
<1>6. \A t \in 0..n : f[t] = IF t = 0 THEN [count |-> 0, start |-> 0, most |-> 0, found |-> {}]
                             ELSE Sweep(f[t - 1], t, today, LeaveEvents(joined, t))
  BY <1>5 DEF Sweeping
<1>7. ASSUME NEW d \in 0..n PROVE h[d] = Cardinality(AwayOn(leave, d)) /\ h[d] \in Nat
  <2>1. d \in Int /\ d \in 0..(LastDay + 1)
    BY <1>3
  <2>2. Cardinality(AwayOn(leave, d)) \in Nat
    BY <1>2, <2>1, EventsAdd
  <2> QED BY <2>1, <2>2 DEF HeadCount
<1>8. HeadsAreNumbers(h)
  BY <1>3, <1>7 DEF HeadsAreNumbers
<1>9. ASSUME NEW t \in 1..n PROVE LeaveEvents(joined, t) = h[t] - h[t - 1]
  <2>1. t \in Int /\ t \in 0..n /\ t - 1 \in 0..n
    BY <1>3
  <2>2. LeaveEvents(joined, t) = Cardinality(AwayOn(leave, t)) - Cardinality(AwayOn(leave, t - 1))
    BY <1>2, <2>1, EventsAdd
  <2> QED BY <1>7, <2>1, <2>2
<1>10. h[0] = 0
  <2>1. AwayOn(leave, 0) = {}
    <3>1. \A m \in DOMAIN leave : \A k \in DOMAIN leave[m] : leave[m][k] \in Intervals
      BY DEF LeaveOk
    <3>2. \A i \in Intervals : ~(i.from <= 0)
      BY <1>1 DEF Intervals
    <3> QED BY <3>1, <3>2 DEF AwayOn
  <2>2. 0 \in 0..n
    BY <1>3
  <2> QED BY <1>7, <2>1, <2>2, FS_EmptySet
<1>11. PICK bad : bad = {t \in 0..n : ~SweptOk(f[t], h, today, t)}
  OBVIOUS
<1>12. ASSUME bad # {} PROVE FALSE
  <2>1. bad \subseteq Nat
    BY <1>11
  <2>2. PICK t \in bad : \A y \in bad : t <= y
    BY <1>12, <2>1, LeastOf
  <2>3. t \in 0..n /\ ~SweptOk(f[t], h, today, t) /\ t \in Nat
    BY <1>3, <1>11, <2>2
  <2>4. CASE t = 0
    <3>1. PICK s : s = [count |-> 0, start |-> 0, most |-> 0, found |-> {}]
      OBVIOUS
    <3>2. DOMAIN s = {"count", "start", "most", "found"} /\ s.count = 0 /\ s.found = {}
      BY <3>1
    <3>3. f[0] = s
      BY <1>6, <2>3, <2>4, <3>1
    <3>4. \A i \in LowDays(h) : ~(i.to < 0)
      BY LowDaysAre
    <3>5. SweptOk(s, h, today, 0)
      BY <1>10, <3>2, <3>4 DEF SweptOk
    <3> QED BY <2>3, <2>4, <3>3, <3>5
  <2>5. CASE t # 0
    <3>1. t - 1 \in 0..n /\ t - 1 < t /\ t \in 1..n /\ t \in 1..(LastDay + 1)
      BY <1>3, <2>3, <2>5
    <3>2. t - 1 \notin bad
      BY <2>2, <2>3, <3>1
    <3>3. SweptOk(f[t - 1], h, today, t - 1)
      BY <1>11, <3>1, <3>2
    <3>4. f[t] = Sweep(f[t - 1], t, today, h[t] - h[t - 1])
      BY <1>6, <1>9, <2>3, <2>5, <3>1
    <3>5. SweptOk(Sweep(f[t - 1], t, today, h[t] - h[t - 1]), h, today, t)
      BY <1>8, <3>1, <3>3, SweepKeeps
    <3> QED BY <2>3, <3>4, <3>5
  <2> QED BY <2>4, <2>5
<1>13. SweptOk(f[n], h, today, n)
  <2>1. n \in 0..n
    BY <1>3
  <2> QED BY <1>11, <1>12, <2>1
<1>14. f[n].found = {Worst(h, i) : i \in {i \in LowDays(h) : i.to < n /\ i.to >= today}}
  BY <1>13 DEF SweptOk
<1>15. \A i \in LowDays(h) : i.to < n
  BY <1>1, <1>3, LowDaysAre
<1>16. {i \in LowDays(h) : i.to < n /\ i.to >= today} = {i \in LowDays(h) : i.to >= today}
  BY <1>15
<1> QED BY <1>5, <1>14, <1>16

CoverPointwise(leave, today) ==
  ReducedCover(leave, today) =
    {[from |-> i.from, to |-> i.to, most |-> Max({Cardinality(AwayOn(leave, day)) : day \in i.from..i.to})] :
       i \in {i \in {i \in Intervals : /\ \A day \in i.from..i.to : Cardinality(AwayOn(leave, day)) >= 2
                                       /\ Cardinality(AwayOn(leave, i.from - 1)) < 2
                                       /\ Cardinality(AwayOn(leave, i.to + 1)) < 2} :
                i.to >= today}}

LEMMA AnyLeaveIsPointwise ==
  ASSUME NEW leave, LeaveOk(leave), IsFiniteSet(DOMAIN leave), NEW today \in Int PROVE CoverPointwise(leave, today)
<1>1. PICK h : h = HeadCount(leave)
  OBVIOUS
<1>2. ReducedCover(leave, today) = {Worst(h, i) : i \in {i \in LowDays(h) : i.to >= today}}
  BY <1>1, CoverIsPointwise
<1>3. \A d \in 0..(LastDay + 1) : h[d] = Cardinality(AwayOn(leave, d))
  BY <1>1 DEF HeadCount
<1>4. ASSUME NEW i \in Intervals
      PROVE  /\ i.from - 1 \in 0..(LastDay + 1) /\ i.to + 1 \in 0..(LastDay + 1)
             /\ \A d \in i.from..i.to : d \in 0..(LastDay + 1)
  BY CoverageAssumption DEF Intervals
<1>5. LowDays(h) = {i \in Intervals : /\ \A day \in i.from..i.to : Cardinality(AwayOn(leave, day)) >= 2
                                      /\ Cardinality(AwayOn(leave, i.from - 1)) < 2
                                      /\ Cardinality(AwayOn(leave, i.to + 1)) < 2}
  BY <1>3, <1>4 DEF LowDays
<1>6. ASSUME NEW i \in LowDays(h)
      PROVE  Worst(h, i) = [from |-> i.from, to |-> i.to,
                            most |-> Max({Cardinality(AwayOn(leave, day)) : day \in i.from..i.to})]
  <2>1. \A d \in i.from..i.to : h[d] = Cardinality(AwayOn(leave, d))
    BY <1>3, <1>4, LowDaysAre
  <2>2. {h[d] : d \in i.from..i.to} = {Cardinality(AwayOn(leave, day)) : day \in i.from..i.to}
    BY <2>1
  <2> QED BY <2>2 DEF Worst
<1>7. {Worst(h, i) : i \in {i \in LowDays(h) : i.to >= today}} =
        {[from |-> i.from, to |-> i.to, most |-> Max({Cardinality(AwayOn(leave, day)) : day \in i.from..i.to})] :
           i \in {i \in LowDays(h) : i.to >= today}}
  BY <1>6
<1> QED BY <1>2, <1>5, <1>7 DEF CoverPointwise

\* The questions are about records and leave of that kind.
LEMMA QuestionsAreOk ==
  \A q \in CoverageQuestions :
    /\ q.ask = "route" => WorldOk(q.world)
    /\ q.ask = "leave" => LeaveOk(q.leave) /\ IsFiniteSet(DOMAIN q.leave) /\ q.today \in Int
<1> SUFFICES ASSUME NEW q \in CoverageQuestions
             PROVE  /\ q.ask = "route" => WorldOk(q.world)
                    /\ q.ask = "leave" => LeaveOk(q.leave) /\ IsFiniteSet(DOMAIN q.leave) /\ q.today \in Int
  OBVIOUS
<1>1. q \in [ask : {"route"}, world : Worlds, link : Links] \cup [ask : {"leave"}, today : {1, 3}, leave : Leaves]
  BY DEF CoverageQuestions
<1>2. ASSUME q.ask = "route" PROVE q.world \in Worlds
  BY <1>1, <1>2
<1>3. ASSUME q.ask = "leave" PROVE q.leave \in Leaves /\ q.today \in Int
  BY <1>1, <1>3
<1>4. ASSUME NEW w \in Worlds PROVE WorldOk(w)
  <2>1. PICK ps, bs, qs, cs :
          /\ ps = {None} \cup TourPage("plain") \cup TourPage("other")
          /\ bs = {None, Text("plain"), Text("other")}
          /\ qs = TourPage("plain") /\ cs = {Text("plain"), Text("other")}
    OBVIOUS
  <2>2. w.trips \in Trip(ps, {"k", "l"}, bs, {None, 1, 2}, {<<>>, <<"a">>, <<"a", "b">>})
                      \X Trip(qs, {"k"}, cs, {1}, {<<>>, <<"b">>})
    BY <2>1 DEF Worlds
  <2>3. PICK t \in Trip(ps, {"k", "l"}, bs, {None, 1, 2}, {<<>>, <<"a">>, <<"a", "b">>}),
             u \in Trip(qs, {"k"}, cs, {1}, {<<>>, <<"b">>}) : w.trips = <<t, u>>
    BY <2>2
  <2>4. DOMAIN w.trips = {1, 2} /\ w.trips[1] = t /\ w.trips[2] = u
    BY <2>3
  <2>5. <<>> \in Seq({"a", "b"}) /\ <<"a">> \in Seq({"a", "b"}) /\ <<"b">> \in Seq({"a", "b"}) /\ <<"a", "b">> \in Seq({"a", "b"})
    OBVIOUS
  <2>6. (t.start = None \/ t.start \in Nat) /\ t.coordinators \in {<<>>, <<"a">>, <<"a", "b">>}
    BY <2>3 DEF Trip
  <2>7. u.start \in Nat /\ u.coordinators \in {<<>>, <<"b">>}
    BY <2>3 DEF Trip
  <2>8. t.coordinators \in Seq({"a", "b"}) /\ u.coordinators \in Seq({"a", "b"})
    BY <2>5, <2>6, <2>7
  <2> QED BY <2>4, <2>6, <2>7, <2>8 DEF WorldOk
<1>5. ASSUME NEW leave \in Leaves PROVE LeaveOk(leave) /\ IsFiniteSet(DOMAIN leave)
  <2>1. DOMAIN leave = {1, 2, 3}
    BY DEF Leaves
  <2>2. /\ leave[1] \in Intervals \X Intervals /\ leave[2] \in {<<k>> : k \in Intervals}
        /\ leave[3] \in {<<>>} \cup {<<l>> : l \in Intervals}
    BY DEF Leaves
  <2>3. /\ \A i, j \in Intervals : <<i, j>> \in Seq(Intervals)
        /\ \A l \in Intervals : <<l>> \in Seq(Intervals)
        /\ <<>> \in Seq(Intervals)
    OBVIOUS
  <2>4. \A x \in Intervals \X Intervals : x \in Seq(Intervals)
    <3> SUFFICES ASSUME NEW x \in Intervals \X Intervals PROVE x \in Seq(Intervals)
      OBVIOUS
    <3>1. PICK i \in Intervals, j \in Intervals : x = <<i, j>>
      OBVIOUS
    <3> QED BY <2>3, <3>1
  <2>5. leave[1] \in Seq(Intervals) /\ leave[2] \in Seq(Intervals) /\ leave[3] \in Seq(Intervals)
    BY <2>2, <2>3, <2>4
  <2>6. IsFiniteSet({1, 2, 3})
    <3>1. PICK n \in Int : n = 3
      OBVIOUS
    <3>2. IsFiniteSet(1..n)
      BY FS_Interval
    <3>3. 1..n = {1, 2, 3}
      BY <3>1
    <3> QED BY <3>2, <3>3
  <2> QED BY <2>1, <2>5, <2>6 DEF LeaveOk
<1> QED BY <1>2, <1>3, <1>4, <1>5

\* For any departures, coordinators and leave: no departure without a reachable
\* coordinator is passed over unseen on the way to whom a guest is booked with
\* (resolveByTrip), and cover is reported reduced on exactly the days with two or
\* more of a brand's managers away (computeCoverageIssues).
THEOREM PassedOverIsShown == CoverageSpec => []CoverIsShown
<1>1. CoverageInit => surveyed \in SUBSET CoverageQuestions
  BY DEF CoverageInit
<1>2. surveyed \in SUBSET CoverageQuestions /\ [Survey]_surveyed => (surveyed \in SUBSET CoverageQuestions)'
  BY DEF Survey
<1>3. ASSUME surveyed \in SUBSET CoverageQuestions PROVE NoSilentSubstitution
  <2> SUFFICES ASSUME NEW q \in surveyed, q.ask = "route"
               PROVE  /\ Routed(q.world, q.link).kind = "pool" =>
                           \A d \in Matched(q.world, q.link) :
                             \E kind \in {"departure-no-coordinator", "coordinator-unknown"} : <<kind, d>> \in DepartureIssues(q.world)
                      /\ Routed(q.world, q.link).kind = "primary" =>
                           /\ Routed(q.world, q.link).of \in Matched(q.world, q.link)
                           /\ \E k \in Reachable(q.world, Routed(q.world, q.link).of) :
                                Routed(q.world, q.link).staff = CoordinatorEmails(q.world, Routed(q.world, q.link).of)[k]
                           /\ \A d \in Matched(q.world, q.link) \ {Routed(q.world, q.link).of} :
                                Sooner(q.world, d, Routed(q.world, q.link).of) =>
                                  \E kind \in {"departure-no-coordinator", "coordinator-unknown"} : <<kind, d>> \in DepartureIssues(q.world)
    BY DEF NoSilentSubstitution
  <2>1. WorldOk(q.world)
    BY <1>3, QuestionsAreOk
  <2>2. Matched(q.world, q.link) \subseteq Upcoming(q.world)
    BY MatchedIsUpcoming
  <2>3. \A d \in Upcoming(q.world) : Reachable(q.world, d) = {} =>
          \E kind \in {"departure-no-coordinator", "coordinator-unknown"} : <<kind, d>> \in DepartureIssues(q.world)
    BY <2>1, UnreachableIsShown
  <2> QED BY <2>1, <2>2, <2>3, RoutedWell
<1>4. ASSUME surveyed \in SUBSET CoverageQuestions PROVE ReducedCoverIsPointwise
  <2> SUFFICES ASSUME NEW q \in surveyed, q.ask = "leave" PROVE CoverPointwise(q.leave, q.today)
    BY DEF ReducedCoverIsPointwise, CoverPointwise, AwayOn
  <2> QED BY <1>4, QuestionsAreOk, AnyLeaveIsPointwise
<1>5. surveyed \in SUBSET CoverageQuestions => CoverIsShown
  BY <1>3, <1>4 DEF CoverIsShown
<1> QED BY <1>1, <1>2, <1>5, PTL DEF CoverageSpec

==============================================================================
