----------------------------- MODULE Reminders ------------------------------
(***************************************************************************)
(* The cron of the reminders among the guests' cancellations and moves.    *)
(* One kind of reminder stands for both: they differ in the column and in  *)
(* the window only.  Nothing keeps two runs apart but the claim itself.    *)
(* It starts with bookings createBooking made earlier.                     *)
(***************************************************************************)
EXTENDS Manage

CONSTANTS
  Runs,    \* invocations of GET /api/booking/cron/reminders
  Soonest, \* a reminder is due between Soonest
  Latest   \* and Latest before the start

ASSUME RemindersAssumption == Soonest \in Nat /\ Latest \in Nat /\ Soonest <= Latest

VARIABLES
  run,     \* a partial function: the invocations that have started
  sent,    \* reminders delivered, per booking
  claims,  \* history: claims made, per booking
  resets   \* history: claims given back, per booking

cronVars == <<run, sent, claims, resets>>
vars == <<now, row, event, meetings, mail, link, alerted, op, run, sent, claims, resets>>

Run == [pc   : {"claim", "send", "reset", "alert", "done", "crashed"},
        todo : SUBSET Ids,       \* the rows of RETURNING not handled yet
        at   : Ids \cup {NoSession}] \* the row at hand, once its mail was tried

\* Confirmed bookings, each at its own time and on the calendar.
Init ==
  /\ now = 0 /\ meetings = {} /\ mail = {} /\ alerted = {}
  /\ \E time \in [Ids -> Interval], key \in [Ids -> Keys] :
       /\ \A b, c \in Ids : b # c => ~Overlap(time[b], time[c]) /\ key[b] # key[c]
       /\ row = [b \in Ids |-> [NewRow(time[b], key[b], NoSession) EXCEPT !.linked = TRUE]]
       /\ event = time
  /\ link = Ids
  /\ op = << >> /\ run = << >>
  /\ sent = [b \in Ids |-> 0] /\ claims = [b \in Ids |-> 0] /\ resets = [b \in Ids |-> 0]
-----------------------------------------------------------------------------
Running(j, pc) == j \in DOMAIN run /\ run[j].pc = pc

Start(j) ==
  /\ j \notin DOMAIN run
  /\ run' = Put(run, j, [pc |-> "claim", todo |-> {}, at |-> NoSession])
  /\ UNCHANGED <<ledgerVars, op, sent, claims, resets>>

\* Mutants: no "is null" on the flag; the failed mail's flag is not given back.
DueAgain(b) == row[b].status = "confirmed" /\ row[b].slot.start - now \in Soonest .. Latest

FailureKeepsFlag(j, b) ==
  /\ Running(j, "send") /\ b \in run[j].todo
  /\ run' = [run EXCEPT ![j].pc = "alert", ![j].todo = @ \ {b}, ![j].at = b]
  /\ UNCHANGED <<ledgerVars, op, sent, claims, resets>>

\* The condition of claimDue's UPDATE.
Due(b) ==
  /\ row[b].status = "confirmed"
  /\ ~row[b].reminded
  /\ row[b].slot.start - now \in Soonest .. Latest

\* One UPDATE flags every row that is due and returns them.
ClaimDue(j) ==
  LET due == {b \in DOMAIN row : Due(b)} IN
  /\ Running(j, "claim")
  /\ row' = [b \in DOMAIN row |-> [row[b] EXCEPT !.reminded = @ \/ b \in due]]
  /\ claims' = [b \in Ids |-> IF b \in due THEN claims[b] + 1 ELSE claims[b]]
  /\ run' = [run EXCEPT ![j].pc = "send", ![j].todo = due]
  /\ UNCHANGED <<now, event, meetings, mail, link, alerted, op, sent, resets>>

\* The mail is delivered and accepted.  It carries a manage link derived from
\* the booking's id.  The row is not read again: a guest may have moved or
\* cancelled since the claim.
SendReminder(j, b) ==
  /\ Running(j, "send") /\ b \in run[j].todo
  /\ sent' = [sent EXCEPT ![b] = @ + 1]
  /\ link' = link \cup {b}
  /\ run' = [run EXCEPT ![j].todo = @ \ {b}]
  /\ UNCHANGED <<now, row, event, meetings, mail, alerted, op, claims, resets>>

\* The context is missing, the provider refuses, or the call throws: the mail
\* may have been delivered all the same.
SendFails(j, b) ==
  /\ Running(j, "send") /\ b \in run[j].todo
  /\ sent' \in {sent, [sent EXCEPT ![b] = @ + 1]}
  /\ run' = [run EXCEPT ![j].pc = "reset", ![j].todo = @ \ {b}, ![j].at = b]
  /\ UNCHANGED <<ledgerVars, op, claims, resets>>

\* The flag goes back to null, by id alone, for the next run to retry.
ResetClaim(j) ==
  LET b == run[j].at IN
  /\ Running(j, "reset")
  /\ row' = [row EXCEPT ![b].reminded = FALSE]
  /\ resets' = [resets EXCEPT ![b] = @ + 1]
  /\ run' = [run EXCEPT ![j].pc = "alert"]
  /\ UNCHANGED <<now, event, meetings, mail, link, alerted, op, sent, claims>>

RaiseAlert(j) ==
  /\ Running(j, "alert")
  /\ alerted' = alerted \cup {run[j].at}
  /\ run' = [run EXCEPT ![j].pc = "send", ![j].at = NoSession]
  /\ UNCHANGED <<now, row, event, meetings, mail, link, op, sent, claims, resets>>

EndRun(j) ==
  /\ Running(j, "send") /\ run[j].todo = {}
  /\ run' = [run EXCEPT ![j].pc = "done"]
  /\ UNCHANGED <<ledgerVars, op, sent, claims, resets>>

\* The invocation dies, or resetClaim throws out of the loop: the
\* rows still to do keep their flags.
RunCrash(j) ==
  /\ j \in DOMAIN run /\ run[j].pc \notin {"done", "crashed"}
  /\ run' = [run EXCEPT ![j].pc = "crashed"]
  /\ UNCHANGED <<ledgerVars, op, sent, claims, resets>>

RunStep(j) ==
  \/ ClaimDue(j) \/ ResetClaim(j) \/ RaiseAlert(j) \/ EndRun(j)
  \/ \E b \in Ids : SendReminder(j, b) \/ SendFails(j, b)

Next ==
  \/ ManageNext /\ UNCHANGED cronVars
  \/ Tick /\ UNCHANGED <<op, cronVars>>
  \/ \E j \in Runs : Start(j) \/ RunStep(j) \/ RunCrash(j)

Spec == Init /\ [][Next]_vars
-----------------------------------------------------------------------------
TypeOK ==
  /\ LedgerTypeOK /\ ManageTypeOK
  /\ DOMAIN run \subseteq Runs /\ run \in [DOMAIN run -> Run]
  /\ sent \in [Ids -> Nat] /\ claims \in [Ids -> Nat] /\ resets \in [Ids -> Nat]

\* Every reminder a guest gets was claimed, and every claim after the first is
\* accounted for by a claim given back or by a move (ical_sequence counts
\* them): runs that overlap each other and the guest's moves never remind
\* twice without a failure reported in between.
RemindersAccountedFor ==
  \A b \in Ids : sent[b] <= claims[b] /\ claims[b] <= 1 + resets[b] + row[b].seq

\* When the runs are over and none of them died, every claim has ended in a
\* mail or was given back: no failure of one guest's mail, and no move or
\* cancellation in between, swallows a reminder, and no row of a batch is left out.
NoReminderDropped ==
  (\A j \in DOMAIN run : run[j].pc = "done") =>
    \A b \in Ids : claims[b] <= sent[b] + resets[b]

\* The two together: one reminder for each claim, no more and no less.
OneReminderPerClaim == RemindersAccountedFor /\ NoReminderDropped
-----------------------------------------------------------------------------
(* Statements of comments that the code does not keep.                     *)

\* "A crash mid-send costs at most one duplicate", never a reminder: when no
\* run is at work, a claimed booking whose guest was not told otherwise has
\* had its reminder.
CrashCostsNoReminder ==
  (\A j \in DOMAIN run : run[j].pc \in {"done", "crashed"}) =>
    \A b \in Ids : row[b].reminded => sent[b] > 0
=============================================================================
