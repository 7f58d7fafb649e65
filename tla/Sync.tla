-------------------------------- MODULE Sync --------------------------------
(***************************************************************************)
(* The reference sync: the roster and the trips of the day become staff    *)
(* rows and coverage issues.  The cron and two buttons run it, statement   *)
(* by statement without a transaction, each run from what it fetched and   *)
(* from the staff rows as they were before it began.                       *)
(***************************************************************************)
EXTENDS Integers, FiniteSets, TLC

CONSTANTS
  Pages,       \* pages of the Notion roster, one per person
  Emails,
  StaffIds,    \* ids of booking.staff rows
  SyncRuns,    \* invocations that may overlap
  Missing,     \* no email on the page, no page on the row, nothing loaded
  MaxEdits,    \* bound: edits of the sources
  MaxOutages   \* bound: fetches and statements that fail, invocations that die,
               \* runs that start while another one is at work

ASSUME SyncAssumption ==
  /\ Missing \notin Pages \cup Emails \cup StaffIds
  /\ {MaxEdits, MaxOutages} \subseteq Nat

VARIABLES
  sources,     \* what Notion and Airtable say
  staffRows,   \* booking.staff
  openIssues,  \* coverage_issue rows that are not resolved
  syncRun,     \* the invocations
  budget       \* what is left of the bounds

syncVars == <<sources, staffRows, openIssues, syncRun, budget>>

AbsentRow == [email |-> Missing, page |-> Missing, active |-> FALSE]
IdleRun == [at |-> "idle", roster |-> Missing, trips |-> Missing, before |-> Missing,
            left |-> {}, found |-> {}]

\* One manager is on the roster and in the table; the other id is free.
SyncInit ==
  /\ LET p == CHOOSE p \in Pages : TRUE  e == CHOOSE e \in Emails : TRUE  s == CHOOSE s \in StaffIds : TRUE IN
       /\ sources = [roster |-> p :> e, trips |-> {e}]
       /\ staffRows = [t \in StaffIds |-> IF t = s THEN [email |-> e, page |-> p, active |-> TRUE] ELSE AbsentRow]
  /\ openIssues = {}
  /\ syncRun = [r \in SyncRuns |-> IdleRun]
  /\ budget = [edits |-> MaxEdits, outages |-> MaxOutages]
-----------------------------------------------------------------------------
SyncGoes(r, next) == syncRun' = [syncRun EXCEPT ![r] = next]
Spends(outage) ==
  IF outage THEN budget.outages > 0 /\ budget' = [budget EXCEPT !.outages = @ - 1] ELSE UNCHANGED budget

\* Somebody edits the roster or reassigns the trips.
EditSources ==
  /\ budget.edits > 0 /\ budget' = [budget EXCEPT !.edits = @ - 1]
  /\ \/ \E ps \in SUBSET Pages : \E roster \in [ps -> Emails \cup {Missing}] : sources' = [sources EXCEPT !.roster = roster]
     \/ \E trips \in SUBSET Emails : sources' = [sources EXCEPT !.trips = trips]
  /\ UNCHANGED <<staffRows, openIssues, syncRun>>

\* Every source is fetched; one that fails is tolerated.
Fetch(r) ==
  /\ syncRun[r].at = "idle"
  /\ \E failed \in SUBSET {"roster", "trips"} :
       /\ Spends(failed # {} \/ \E other \in SyncRuns : syncRun[other].at # "idle")
       /\ SyncGoes(r, [IdleRun EXCEPT !.at = "read",
            !.roster = IF "roster" \in failed THEN Missing ELSE sources.roster,
            !.trips  = IF "trips" \in failed THEN Missing ELSE sources.trips])
  /\ UNCHANGED <<sources, staffRows, openIssues>>

\* The staff rows as they were before the run.
ReadStaff(r) ==
  /\ syncRun[r].at = "read"
  /\ SyncGoes(r, [syncRun[r] EXCEPT !.at = "staff", !.before = staffRows,
                    !.left = IF syncRun[r].roster = Missing THEN {} ELSE DOMAIN syncRun[r].roster])
  /\ UNCHANGED <<sources, staffRows, openIssues, budget>>

\* The row a person of the roster is matched to: by email, else by page.
Existing(before, email, page) ==
  LET byEmail == {s \in StaffIds : before[s].email = email}
      byPage  == {s \in StaffIds : before[s].page = page}
  IN IF byEmail # {} THEN byEmail ELSE byPage

\* The unique index on the email.
EmailTaken(email, s) == \E t \in StaffIds \ {s} : staffRows[t].email = email

\* Mutant: a row found again is not made active.
UpdatedStays(row, email, page) == [row EXCEPT !.email = email, !.page = page]

Updated(row, email, page) == [row EXCEPT !.email = email, !.page = page, !.active = TRUE]

\* One person of the roster: the row is updated or inserted, or the statement
\* fails and the run goes on.
SyncPerson(r, page) ==
  LET run == syncRun[r]
      email == run.roster[page]
      matches == Existing(run.before, email, page)
      free == {s \in StaffIds : staffRows[s] = AbsentRow}
      targets == IF matches = {} THEN free ELSE matches
  IN
  /\ run.at = "staff" /\ page \in run.left
  /\ SyncGoes(r, [run EXCEPT !.left = @ \ {page}])
  /\ \/ /\ email # Missing
        /\ IF \E s \in targets : ~EmailTaken(email, s)
           THEN \E s \in targets : ~EmailTaken(email, s) /\ staffRows' = [staffRows EXCEPT ![s] = Updated(@, email, page)]
           ELSE UNCHANGED staffRows
        /\ UNCHANGED budget
     \/ email # Missing /\ Spends(TRUE) /\ UNCHANGED staffRows
     \/ email = Missing /\ UNCHANGED <<staffRows, budget>>
  /\ UNCHANGED <<sources, openIssues>>

\* Those whose page left the roster are deactivated, if there is a roster.
Deactivate(r) ==
  LET run == syncRun[r] IN
  /\ run.at = "staff" /\ run.left = {}
  /\ staffRows' =
       IF run.roster = Missing THEN staffRows ELSE IF DOMAIN run.roster = {} THEN staffRows
       ELSE [s \in StaffIds |->
               IF staffRows[s].page # Missing /\ staffRows[s].page \notin DOMAIN run.roster
               THEN [staffRows[s] EXCEPT !.active = FALSE] ELSE staffRows[s]]
  /\ SyncGoes(r, [run EXCEPT !.at = "issues", !.before = Missing])
  /\ UNCHANGED <<sources, openIssues, budget>>

\* computeCoverageIssues on what was loaded and the rows as they are: trips whose
\* coordinator is no active manager, people of the roster without an email.
Wrong(roster, trips, rows) ==
  (IF trips = Missing THEN {} ELSE {e \in trips : ~\E s \in StaffIds : rows[s].email = e /\ rows[s].active})
    \cup (IF roster = Missing THEN {} ELSE {p \in DOMAIN roster : roster[p] = Missing})

\* The issues found are opened; one insert may fail.
OpenIssues(r) ==
  LET run == syncRun[r]
      found == Wrong(run.roster, run.trips, staffRows)
  IN
  /\ run.at = "issues"
  /\ \/ openIssues' = openIssues \cup found /\ UNCHANGED budget
     \/ \E one \in found : openIssues' = openIssues \cup (found \ {one}) /\ Spends(TRUE)
  /\ SyncGoes(r, [run EXCEPT !.at = "resolve", !.found = found])
  /\ UNCHANGED <<sources, staffRows>>

\* The issues of the kinds whose sources loaded.
Computed(run) ==
  (IF run.trips = Missing THEN {} ELSE Emails) \cup (IF run.roster = Missing THEN {} ELSE Pages)

\* Those of the kinds computed that were not found are resolved.
Resolve(r) ==
  /\ syncRun[r].at = "resolve"
  /\ openIssues' = openIssues \ (Computed(syncRun[r]) \ syncRun[r].found)
  /\ SyncGoes(r, IdleRun)
  /\ UNCHANGED <<sources, staffRows, budget>>

\* The invocation dies, or a statement outside every attempt throws.
SyncDies(r) ==
  /\ syncRun[r].at # "idle" /\ Spends(TRUE)
  /\ SyncGoes(r, IdleRun)
  /\ UNCHANGED <<sources, staffRows, openIssues>>

SyncStep(r) ==
  Fetch(r) \/ ReadStaff(r) \/ (\E p \in Pages : SyncPerson(r, p)) \/ Deactivate(r) \/ OpenIssues(r) \/ Resolve(r)

\* A guest asks for a trip whose coordinator is no active manager: the router
\* offers the brand's pool and puts that on the map (recordPoolFallback).
GuestMeetsThePool ==
  /\ "pool" \notin openIssues /\ Wrong(Missing, sources.trips, staffRows) # {}
  /\ openIssues' = openIssues \cup {"pool"}
  /\ UNCHANGED <<sources, staffRows, syncRun, budget>>

SyncNext == EditSources \/ GuestMeetsThePool \/ \E r \in SyncRuns : SyncStep(r) \/ SyncDies(r)

-----------------------------------------------------------------------------
\* An issue is closed only by a run that read every source it is computed from:
\* a failed fetch never closes what it could not look at, however runs overlap.
ClosedWasRead ==
  [][\A i \in openIssues \ openIssues' :
       \E r \in SyncRuns :
         /\ syncRun[r].at = "resolve" /\ syncRun'[r].at = "idle"
         /\ i \in Emails => syncRun[r].trips # Missing
         /\ i \in Pages  => syncRun[r].roster # Missing]_syncVars

\* Once nobody edits the sources, nothing fails and no runs cross, the table and
\* the map come to agree with the sources for good, whatever happened before: everybody on a roster
\* that is not empty has an active row under their email, nobody who left it is
\* active, and the open issues the sync computes are the ones that are there.
RosterReached ==
  LET roster == sources.roster IN
  DOMAIN roster # {} =>
    /\ \A p \in DOMAIN roster : roster[p] # Missing => \E s \in StaffIds : staffRows[s].email = roster[p] /\ staffRows[s].active
    /\ \A s \in StaffIds : staffRows[s].active => staffRows[s].page \in DOMAIN roster
SyncConverges ==
  <>[](RosterReached /\ openIssues \ {"pool"} = Wrong(sources.roster, sources.trips, staffRows))

\* What the router put on the map leaves it once its reason is gone.  No run
\* computes that kind, so nothing ever resolves it.
RaisedIsResolved ==
  <>[]("pool" \in openIssues => Wrong(Missing, sources.trips, staffRows) # {})

\* Whoever is deactivated left the roster.
DeactivatedLeft ==
  [][\A s \in StaffIds : staffRows[s].active /\ ~staffRows'[s].active =>
       staffRows[s].email \notin {sources.roster[p] : p \in DOMAIN sources.roster}]_syncVars
=============================================================================
