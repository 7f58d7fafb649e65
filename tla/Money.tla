-------------------------------- MODULE Money --------------------------------
(***************************************************************************)
(* Money: employees submit invoices, reimbursements and trips, finance     *)
(* reviews them from a queue that is as old as its page.  Submissions live *)
(* in Cove's database or, where Airtable writes are enabled, in Airtable.  *)
(* The database keeps times finer than the page that shows them.           *)
(***************************************************************************)
EXTENDS Integers

CONSTANTS
  Reviewers,
  Submissions,   \* ids of submissions
  Unit,          \* of the database's clock per one of the page's (1000 in truth)
  MaxTime        \* bound: of the database's clock

ASSUME MoneyAssumption == Unit \in Nat \ {0} /\ MaxTime \in Nat

VARIABLES
  clock,       \* now()
  submission,  \* the records, wherever they are kept
  queue,       \* what each reviewer's page shows
  review       \* the server action of each reviewer's page

moneyVars == <<clock, submission, queue, review>>

MoneyKinds == {"invoice", "reimbursement", "travel_credit"}
MoneyStatuses == {"submitted", "in_review", "action_required", "approved", "scheduled", "paid", "available", "used", "declined"}
Unsent  == [kind |-> "none"]
NoReview == [step |-> "none"]
RefusedReview(s) == [step |-> "refused", of |-> s]

\* moneyStatusTransitions
MoneyTransitions(kind, status) ==
  IF kind = "travel_credit" THEN IF status = "available" THEN {"used", "declined"} ELSE {}
  ELSE CASE status = "submitted"       -> {"in_review", "action_required", "approved", "declined"}
         [] status = "in_review"       -> {"action_required", "approved", "declined"}
         [] status = "action_required" -> {"in_review", "approved", "declined"}
         [] status = "approved"        -> {"scheduled"}
         [] status = "scheduled"       -> {"paid"}
         [] OTHER                      -> {}

\* isAllowedMoneyStatusTransition: a status may be kept, for its note.
MoneyAllowed(kind, status, next) == next = status \/ next \in MoneyTransitions(kind, status)

\* A record as the page gets it: its time in the page's units.
ShownMoney(row) == [row EXCEPT !.at = @ \div Unit]

MoneyInit ==
  /\ clock = 0
  /\ submission = [s \in Submissions |-> Unsent]
  /\ queue = [v \in Reviewers |-> [s \in Submissions |-> Unsent]]
  /\ review = [v \in Reviewers |-> NoReview]
-----------------------------------------------------------------------------
\* POST /api/money/submit: an invoice or a receipt comes with its document.
MaySubmit(kind, store, document) ==
  /\ kind = "travel_credit" => store = "database"
  /\ store = "database" => (document <=> kind # "travel_credit")

\* createMoneyRequest.  Where AIRTABLE_MONEY_WRITES_ENABLED the document is
\* uploaded after the record and may fail: the form says so and the record stays;
\* nor need the record be one that Cove can verify when it is read.
SubmitMoney(s, kind, store, document, sound) ==
  /\ submission[s] = Unsent
  /\ MaySubmit(kind, store, document) /\ (store = "database" => sound)
  /\ \E t \in (clock + 1)..MaxTime :
       /\ clock' = t
       /\ submission' = [submission EXCEPT ![s] =
            [kind |-> kind, store |-> store, status |-> "submitted", note |-> "", at |-> t,
             document |-> document, sound |-> sound]]
  /\ UNCHANGED <<queue, review>>

\* recordFromAirtable: the record's amount, currency, dates and document make sense.
Verified(row) == row.sound

\* readMoney: of the Airtable tables that can be read, the records that can be
\* verified.
ReadFromAirtable(row, readable) == row.kind \in readable /\ Verified(row)

\* /admin/money, getAllMoney: those, and the database's rows.
OpenQueue(v, readable) ==
  /\ review[v] = NoReview
  /\ queue' = [queue EXCEPT ![v] =
       [s \in Submissions |->
          IF /\ submission[s] # Unsent
             /\ submission[s].store = "airtable" => ReadFromAirtable(submission[s], readable)
          THEN ShownMoney(submission[s]) ELSE Unsent]]
  /\ queue' # queue
  /\ UNCHANGED <<clock, submission, review>>

\* reviewMoneyRequest: the page's record and the status chosen go together.
MayReview(shown, status) ==
  /\ shown # Unsent
  /\ status \in MoneyStatuses /\ MoneyAllowed(shown.kind, shown.status, status)

\* updateMoneyReview, up to the write: the record is read again and compared with
\* the page's.
SaveReview(v, s, status, note) ==
  LET shown == queue[v][s]  now == ShownMoney(submission[s]) IN
  /\ review[v] = NoReview /\ MayReview(shown, status)
  /\ review' = [review EXCEPT ![v] =
       IF now.at = shown.at /\ now.status = shown.status
       THEN [step |-> "write", of |-> s, status |-> status, note |-> note] ELSE RefusedReview(s)]
  /\ UNCHANGED <<clock, submission, queue>>

\* Mutant: the UPDATE names the row alone.
IdIsEnough(row, shown) == TRUE

\* updatePostgresMoneyReview's UPDATE ... where id and status and updated_at are
\* those of the page: its time is taken as the database's.
StillAsShown(row, shown) == row.status = shown.status /\ row.at = shown.at * Unit

\* ... or updateMoneyReview's PATCH, which has no condition.
WriteReview(v) ==
  LET r == review[v] IN
  /\ r.step = "write"
  /\ IF submission[r.of].store = "airtable" \/ StillAsShown(submission[r.of], queue[v][r.of])
     THEN \E t \in (clock + 1)..MaxTime :
            LET row == [submission[r.of] EXCEPT !.status = r.status, !.note = r.note, !.at = t] IN
            /\ clock' = t
            /\ submission' = [submission EXCEPT ![r.of] = row]
            /\ queue' = [queue EXCEPT ![v][r.of] = ShownMoney(row)]
            /\ review' = [review EXCEPT ![v] = NoReview]
     ELSE /\ review' = [review EXCEPT ![v] = RefusedReview(r.of)]
          /\ UNCHANGED <<clock, submission, queue>>

\* The message is read, and the page stays as it is until it is loaded again.
ReadRefusal(v) ==
  /\ review[v].step = "refused"
  /\ review' = [review EXCEPT ![v] = NoReview]
  /\ UNCHANGED <<clock, submission, queue>>

MoneyNext ==
  \/ \E s \in Submissions, kind \in MoneyKinds, store \in {"database", "airtable"}, document, sound \in BOOLEAN :
       SubmitMoney(s, kind, store, document, sound)
  \/ \E v \in Reviewers :
       \/ \E readable \in SUBSET {"invoice", "reimbursement"} : OpenQueue(v, readable)
       \/ \E s \in Submissions, status \in MoneyStatuses, note \in {"", "why"} : SaveReview(v, s, status, note)
       \/ WriteReview(v) \/ ReadRefusal(v)

MoneySpec == MoneyInit /\ [][MoneyNext]_moneyVars
-----------------------------------------------------------------------------
\* A decision in Cove's database is made on what the reviewer saw: whatever
\* reviews cross, however close in time, the record is still what the reviewer's
\* page shows, its note included, and the change is one the table allows.
DecisionsAreSeen ==
  [][\A s \in Submissions :
       submission[s] # Unsent /\ submission[s].store = "database" /\ submission'[s] # submission[s] =>
         \E v \in Reviewers :
           /\ review[v].step = "write" /\ review[v].of = s
           /\ ShownMoney(submission[s]) = queue[v][s]
           /\ MoneyAllowed(submission[s].kind, submission[s].status, submission'[s].status)]_moneyVars

\* "This record changed after you opened it": a review that is refused so met a
\* record that had changed since the page was loaded.
RefusedMeansChanged ==
  \A v \in Reviewers :
    review[v].step = "refused" => ShownMoney(submission[review[v].of]) # queue[v][review[v].of]
=============================================================================
