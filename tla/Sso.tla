-------------------------------- MODULE Sso --------------------------------
(***************************************************************************)
(* The Cove sign-in workflow of one application: an operator prepares the  *)
(* change set with Clerk, GitHub and Vercel, refreshes its evidence,       *)
(* approves it, and it is merged, deployed and activated.  Every button is *)
(* an invocation of its own that reads the row, awaits a provider, and     *)
(* writes; a trigger of the table decides which moves of state it accepts. *)
(***************************************************************************)
EXTENDS Naturals, FiniteSets

CONSTANTS
  Operators,     \* systems administrators, one invocation of each at a time
  MaxPrepares,   \* bound: how often Prepare is pressed
  MaxMishaps     \* bound: how often GitHub refuses to show the check runs, an
                 \* invocation dies or a piece of evidence gets old, together

ASSUME SsoAssumption == {MaxPrepares, MaxMishaps} \subseteq Nat

VARIABLES
  sso,       \* cove_sso_integrations: the row
  evidence,  \* cove_sso_evidence
  target,    \* the pull request and the deployment at GitHub and Vercel
  op,        \* the operators' invocations
  pressed    \* how much of the bounds is used up

ssoVars == <<sso, evidence, target, op, pressed>>

States == {"not_configured", "changes_prepared", "checks_running",
           "needs_attention", "ready_for_approval", "active"}

\* The providers in the order they are asked, by what they are asked for: the
\* satellite domain at Clerk, the change set at GitHub, the project's settings at
\* Vercel.
Providers == {"domain", "change", "project"}

\* The eleven required checks, by who writes them: one for each provider, the
\* canonical records with the domain; the three read off the check runs; the two
\* of production.
Evidence == Providers \cup {"checks", "production"}
PreApproval == Evidence \ {"production"}

SsoInit ==
  /\ sso = [state |-> "not_configured", known |-> {}, env |-> "not_configured",
            sha |-> "none", stamps |-> {}, behind |-> {}, error |-> FALSE]
  /\ evidence = [k \in Evidence |-> "pending"]
  /\ target = [pull |-> "none", checks |-> "none", live |-> FALSE]
  /\ op = [o \in Operators |-> [at |-> "idle", seen |-> "none", got |-> {}, bad |-> {}]]
  /\ pressed = [prepares |-> 0, mishaps |-> 0]

-----------------------------------------------------------------------------
Doing(o, stage) == op[o].at = stage
Resting(o) == Doing(o, "idle")
Then(o, stage, seen) == op' = [op EXCEPT ![o] = [at |-> stage, seen |-> seen, got |-> {}, bad |-> {}]]
Done(o) == Then(o, "idle", "none")

\* prepare_cove_sso_integration_update.
Allowed(from, to) ==
  \/ from = to
  \/ to \in (CASE from = "not_configured"     -> {"changes_prepared", "needs_attention"}
               [] from = "changes_prepared"   -> {"not_configured", "checks_running", "needs_attention"}
               [] from = "checks_running"     -> {"changes_prepared", "needs_attention", "ready_for_approval"}
               [] from = "needs_attention"    -> {"changes_prepared", "checks_running", "ready_for_approval"}
               [] from = "ready_for_approval" -> {"changes_prepared", "checks_running", "needs_attention", "active"}
               [] from = "active"             -> {"needs_attention"})

\* Mutant: the gate does not look at the evidence.
ProvenByStamps(row, ev) ==
  /\ row.known = Providers /\ row.env = "verified"
  /\ {"approved", "merged"} \subseteq row.stamps /\ ~row.error

\* assert_cove_sso_activation with cove_sso_active_metadata_required, of the
\* row and the evidence as a statement would leave them.
Proven(row, ev) ==
  /\ row.known = Providers /\ row.env = "verified"
  /\ {"approved", "merged", "deployed"} \subseteq row.stamps /\ row.behind = {}
  /\ ~row.error /\ \A k \in Evidence : ev[k] = "passed"

Gate(row, ev) == row.state = "active" => Proven(row, ev)

\* Mutant: an error stays until someone prepares again.
MarkedSticky(state, error) == [sso EXCEPT !.state = state, !.error = @ \/ error]

\* markPostgresCoveSsoState: what it makes of the row, its error included.
Marked(state, error) == [sso EXCEPT !.state = state, !.error = error]

\* deriveCoveSsoState, as far as its caller tells its answers apart.
IsReady(row, ev) ==
  /\ ~row.error /\ row.env = "verified" /\ row.known = Providers
  /\ \A k \in Evidence : ev[k] # "failed"
  /\ \A k \in PreApproval : ev[k] = "passed"
  /\ "approved" \notin row.stamps

-----------------------------------------------------------------------------
\* prepareCoveSsoIntegration up to the calls: the row is there with its evidence.
StartPrepare(o) ==
  /\ Resting(o) /\ pressed.prepares < MaxPrepares /\ Gate(sso, evidence)
  /\ pressed' = [pressed EXCEPT !.prepares = @ + 1]
  /\ Then(o, "domain", "none")
  /\ UNCHANGED <<sso, evidence, target>>

\* The next call is made, or all are.
After(provider) == CASE provider = "domain" -> "change" [] provider = "change" -> "project"
                     [] provider = "project" -> "prepared"

\* A provider is asked and what came of it recorded.  It may refuse; and it may
\* have done what it was asked with something left to do by hand: a canonical
\* record is missing, the change set needs a manual review, the project cannot
\* be written down.  GitHub takes a pull request that is open as it is, refuses
\* a branch left without one, and its answer may be lost.  Evidence the gate
\* does not take ends the invocation.
AskProvider(o) ==
  LET p == op[o].at IN
  /\ p \in Providers
  /\ \E status \in {"passed", "failed"}, got \in {{}, {p}}, reached \in BOOLEAN :
       LET ev == [evidence EXCEPT ![p] = status] IN
       /\ (status = "passed" => got = {p}) /\ (got = {p} => reached)
       /\ p = "change" /\ target.pull = "merged" => ~reached
       /\ target' = IF p = "change" /\ reached /\ target.pull = "none"
                    THEN [target EXCEPT !.pull = "open", !.checks = "pending"] ELSE target
       /\ IF Gate(sso, ev)
          THEN /\ evidence' = ev
               /\ op' = [op EXCEPT ![o].at = After(p), ![o].got = @ \cup got,
                                   ![o].bad = IF status = "failed" THEN @ \cup {p} ELSE @]
          ELSE UNCHANGED evidence /\ Done(o)
  /\ UNCHANGED <<sso, pressed>>

\* updatePostgresCoveSsoPreparation: what was learned is kept (coalesce); the
\* environment is verified unless Vercel failed.
Environment(bad) == IF "project" \in bad THEN "setup_required" ELSE "verified"

UpdatePreparation(o) ==
  /\ Doing(o, "prepared")
  /\ LET ok    == op[o].bad = {}
         state == IF ok THEN "changes_prepared" ELSE "needs_attention" IN
       IF Allowed(sso.state, state)
       THEN /\ sso' = [sso EXCEPT !.state = state, !.known = @ \cup op[o].got, !.error = FALSE,
                                  !.sha = IF "change" \in op[o].got THEN "head" ELSE @,
                                  !.env = Environment(op[o].bad)]
            /\ op' = [op EXCEPT ![o].at = "mark", ![o].got = {},
                                ![o].seen = IF ok THEN "checks_running" ELSE "needs_attention"]
       ELSE UNCHANGED sso /\ Done(o)
  /\ UNCHANGED <<evidence, target, pressed>>

\* The last UPDATE of an invocation: the state it decided on a while ago, after a
\* preparation that failed with the environment it found.  A move the trigger
\* refuses is thrown; within refresh it is caught and the row is marked instead.
Mark(o) ==
  /\ op[o].at \in {"mark", "remark"}
  /\ LET state == op[o].seen IN
       IF Allowed(sso.state, state)
       THEN /\ LET marked == Marked(state, state = "needs_attention") IN
                 sso' = IF op[o].bad = {} THEN marked ELSE [marked EXCEPT !.env = Environment(op[o].bad)]
            /\ Done(o)
       ELSE /\ UNCHANGED sso
            /\ IF Doing(o, "remark") THEN Then(o, "mark", "needs_attention") ELSE Done(o)
  /\ UNCHANGED <<evidence, target, pressed>>

-----------------------------------------------------------------------------
\* refreshCoveSsoIntegration reads the check runs of the pull request: none at
\* all is as bad as a failing one ...
ReadChecksOf(o) ==
  /\ Resting(o) /\ "change" \in sso.known
  /\ Then(o, "read", CASE target.checks = "green" -> "passed"
                       [] target.checks = "pending" -> "running"
                       [] OTHER -> "failed")
  /\ UNCHANGED <<sso, evidence, target, pressed>>

\* ... unless GitHub refuses.
ChecksRefused(o) ==
  /\ Resting(o) /\ "change" \in sso.known /\ pressed.mishaps < MaxMishaps
  /\ pressed' = [pressed EXCEPT !.mishaps = @ + 1]
  /\ Then(o, "mark", "needs_attention")
  /\ UNCHANGED <<sso, evidence, target>>

\* The evidence is recorded, the row is read again and the next step decided.
Decide(o) ==
  LET ev == [evidence EXCEPT !["checks"] = op[o].seen] IN
  /\ Doing(o, "read")
  /\ IF ~Gate(sso, ev) THEN UNCHANGED evidence /\ Then(o, "mark", "needs_attention")
     ELSE /\ evidence' = ev
          /\ IF {"approved", "merged"} \subseteq sso.stamps THEN Then(o, "health", "none")
             ELSE IF op[o].seen = "failed" THEN Then(o, "remark", "needs_attention")
             ELSE IF IsReady(sso, ev) THEN Then(o, "remark", "ready_for_approval")
             ELSE Then(o, "remark", "checks_running")
  /\ UNCHANGED <<sso, target, pressed>>

\* productionHealth: the endpoint does not answer, or not for the commit the
\* row names; or it does and both facts of production are recorded.
CheckHealth(o) ==
  /\ Doing(o, "health")
  /\ \/ Then(o, "mark", "needs_attention") /\ UNCHANGED <<sso, evidence>>
     \/ /\ target.live /\ sso.sha = "merge" /\ Gate(sso, evidence)
        /\ sso' = [sso EXCEPT !.stamps = @ \cup {"deployed"}]
        /\ evidence' = [evidence EXCEPT !["production"] = "passed"]
        /\ Then(o, "activate", "none")
  /\ UNCHANGED <<target, pressed>>

\* activatePostgresCoveSsoIntegration; what the triggers refuse is caught.
Activate(o) ==
  LET row == [sso EXCEPT !.state = "active", !.env = "verified", !.error = FALSE,
                         !.stamps = @ \cup {"deployed", "activated"}] IN
  /\ Doing(o, "activate")
  /\ IF Allowed(sso.state, "active") /\ Gate(row, evidence)
     THEN sso' = row /\ Done(o)
     ELSE UNCHANGED sso /\ Then(o, "mark", "needs_attention")
  /\ UNCHANGED <<evidence, target, pressed>>

-----------------------------------------------------------------------------
\* approveCoveSsoIntegration reads the row ...
StartApprove(o) ==
  /\ Resting(o) /\ sso.state = "ready_for_approval" /\ "change" \in sso.known
  /\ Then(o, "approve", "none")
  /\ UNCHANGED <<sso, evidence, target, pressed>>

\* ... records the approval where the row still is ready (nobody looks whether
\* it was): older stamps now lie before the approval ...
Approve(o) ==
  /\ Doing(o, "approve")
  /\ sso' = IF sso.state # "ready_for_approval" THEN sso
            ELSE [sso EXCEPT !.state = "checks_running", !.error = FALSE,
                             !.stamps = @ \cup {"approved"},
                             !.behind = sso.stamps \cap {"merged", "deployed"}]
  /\ Then(o, "merge", "none")
  /\ UNCHANGED <<evidence, target, pressed>>

\* ... and merges, unless GitHub refuses; its answer may be lost.
MergeChange(o) ==
  /\ Doing(o, "merge")
  /\ \/ /\ target' = [target EXCEPT !.pull = "merged"]
        /\ Then(o, "merged", "none") \/ Then(o, "mark", "needs_attention")
     \/ UNCHANGED target /\ Then(o, "mark", "needs_attention")
  /\ UNCHANGED <<sso, evidence, pressed>>

\* markPostgresCoveSsoMerged: only of an approved row.
MarkMerged(o) ==
  /\ Doing(o, "merged")
  /\ LET row == [sso EXCEPT !.stamps = @ \cup {"merged"}, !.sha = "merge",
                            !.behind = sso.stamps \cap {"deployed"}] IN
       IF "approved" \notin sso.stamps THEN UNCHANGED sso /\ Done(o)
       ELSE IF Gate(row, evidence) THEN sso' = row /\ Done(o)
       ELSE UNCHANGED sso /\ Then(o, "mark", "needs_attention")
  /\ UNCHANGED <<evidence, target, pressed>>

-----------------------------------------------------------------------------
\* GitHub's checks report, Vercel deploys what is merged, evidence gets old.
ChecksReport ==
  /\ target.pull = "open" /\ target.checks = "pending"
  /\ \E checks \in {"failing", "green"} : target' = [target EXCEPT !.checks = checks]
  /\ UNCHANGED <<sso, evidence, op, pressed>>

Deploys ==
  /\ target.pull = "merged" /\ ~target.live
  /\ target' = [target EXCEPT !.live = TRUE]
  /\ UNCHANGED <<sso, evidence, op, pressed>>

EvidenceExpires ==
  /\ pressed.mishaps < MaxMishaps /\ pressed' = [pressed EXCEPT !.mishaps = @ + 1]
  /\ \E k \in Evidence : evidence[k] = "passed" /\ evidence' = [evidence EXCEPT ![k] = "stale"]
  /\ UNCHANGED <<sso, target, op>>

\* The function is cut off, by its time limit or a deployment.
Dies(o) ==
  /\ ~Resting(o) /\ pressed.mishaps < MaxMishaps
  /\ pressed' = [pressed EXCEPT !.mishaps = @ + 1]
  /\ Done(o)
  /\ UNCHANGED <<sso, evidence, target>>

Works(o) ==
  \/ AskProvider(o) \/ UpdatePreparation(o) \/ Mark(o)
  \/ Decide(o) \/ CheckHealth(o) \/ Activate(o)
  \/ Approve(o) \/ MergeChange(o) \/ MarkMerged(o)

SsoNext ==
  \/ \E o \in Operators : StartPrepare(o) \/ ReadChecksOf(o) \/ ChecksRefused(o) \/ StartApprove(o) \/ Works(o) \/ Dies(o)
  \/ ChecksReport \/ Deploys \/ EvidenceExpires

SsoSpec == SsoInit /\ [][SsoNext]_ssoVars

-----------------------------------------------------------------------------
SsoTypeOK ==
  /\ sso \in [state : States, known : SUBSET Providers,
              env : {"not_configured", "setup_required", "verified"},
              sha : {"none", "head", "merge"},
              stamps : SUBSET {"approved", "merged", "deployed", "activated"},
              behind : SUBSET {"merged", "deployed"}, error : BOOLEAN]
  /\ evidence \in [Evidence -> {"pending", "running", "passed", "stale", "failed"}]
  /\ target \in [pull : {"none", "open", "merged"}, checks : {"none", "pending", "failing", "green"},
                 live : BOOLEAN]

\* The gate in the database keeps what it is about: while the row says active,
\* the reviewed change is merged and in production at GitHub and Vercel, the
\* approval, the merge and the deployment are recorded in that order, and every
\* piece of evidence was passed (it may have grown old since).  Stale refreshes,
\* a second approval and a late merge stamp all write into the same row.
ActiveIsProven ==
  sso.state = "active" =>
    /\ target.pull = "merged" /\ target.live
    /\ {"approved", "merged", "deployed"} \subseteq sso.stamps /\ sso.behind = {}
    /\ \A k \in Evidence : evidence[k] \in {"passed", "stale"}

\* An error is not for ever: once everything an operator can put right is right
\* and stays so, refreshing brings the row to where it can be approved, again
\* and again, although other refreshes mark it with what they read before.
PassingReachesApproval ==
  <>[](/\ target.checks = "green" /\ "approved" \notin sso.stamps
       /\ sso.known = Providers /\ sso.env = "verified"
       /\ \A p \in Providers : evidence[p] = "passed")
    => []<>(sso.state = "ready_for_approval" \/ \E o \in Operators : Doing(o, "merge"))

\* "SuperPanel will not merge or activate this change until a Systems Admin
\* approves it after real checks pass."
MergedIsApproved == target.pull = "merged" => "approved" \in sso.stamps

\* "Cove is waiting for real production evidence before activation": an approved
\* and merged change that is in production, with all evidence current, goes
\* active as operators keep refreshing.
ApprovedIsActivated ==
  <>[](/\ {"approved", "merged"} \subseteq sso.stamps /\ sso.behind = {} /\ target.live
       /\ \A k \in PreApproval : evidence[k] = "passed")
    => <>(sso.state = "active")
=============================================================================
