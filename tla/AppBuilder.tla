----------------------------- MODULE AppBuilder -----------------------------
(***************************************************************************)
(* The App Builder's requests against ONE execution asset: an uploaded     *)
(* brief is queued, an OpenAI agent stages files in rounds, a pull request *)
(* is opened, checked, merged and perhaps reversed.  The webhook, the      *)
(* browser's poll, the cron and the buttons run the same functions, with   *)
(* nothing between them but conditional UPDATEs and a unique index.        *)
(***************************************************************************)
EXTENDS Integers, FiniteSets, FiniteSetsExt

CONSTANTS
  Requests,   \* requests of this asset, numbered in the order of created_at
  Workers,    \* serverless invocations that may overlap
  MaxTurns,   \* APP_BUILDER_MAX_TURNS
  Bounds      \* bounds: how many requests are submitted, how many invocations
              \* die, how often Reverse is pressed and how often an invocation
              \* starts while another is at work, together in one behaviour

ASSUME AppBuilderAssumption ==
  /\ Requests \subseteq Nat /\ IsFiniteSet(Requests)
  /\ MaxTurns \in Nat \ {0}
  /\ Bounds \subseteq [requests : Nat, deaths : Nat, clicks : Nat, overlaps : Nat]

VARIABLES
  row,     \* app_builder_requests
  pr,      \* the pull requests on GitHub
  worker,  \* the invocations
  spent    \* the bounds of the behaviour and how much of them is used up

builderVars == <<row, pr, worker, spent>>

Holding == {"reading", "waiting_openai", "making_changes",
            "preparing_review", "publishing", "reversing"}
Statuses == Holding \cup {"absent", "queued", "live", "reversed", "failed"}
Answers  == {"none", "running", "calls", "finished", "blocked", "broken"}
Stages   == {"idle", "brief", "tools", "prepare", "opened", "decide", "merged",
             "fail", "close", "revert", "reverted", "undecide", "unmerged"}

Request == [status : Statuses,
            response : Nat,           \* openai_response_id: how many have been asked for
            answer : Answers,         \* what became of that response
            turn   : 0 .. MaxTurns,
            staged : BOOLEAN,         \* staged_changes is not empty
            pull   : BOOLEAN,         \* pull_number is not null
            sha    : BOOLEAN,         \* published_commit_sha is not null
            undo   : BOOLEAN,         \* reversal_pull_number is not null
            pdf    : BOOLEAN]         \* the brief is still stored

PullRequest == [state  : {"none", "open", "closed", "merged"},
                checks : {"none", "pending", "failing", "green"}]

Worker == [at : Stages, req : Requests \cup {0},
           seen : Answers \cup {"merged", "closed", "failing", "pending", "green"},
           turn : 0 .. MaxTurns, response : Nat]

Idle == [at |-> "idle", req |-> 0, seen |-> "none", turn |-> 0, response |-> 0]

BuilderInit ==
  /\ row = [r \in Requests |-> [status |-> "absent", response |-> 0, answer |-> "none",
                                turn |-> 0, staged |-> FALSE, pull |-> FALSE, sha |-> FALSE,
                                undo |-> FALSE, pdf |-> FALSE]]
  /\ pr = [r \in Requests |-> [kind \in {"change", "reversal"} |->
                                 [state |-> "none", checks |-> "none"]]]
  /\ worker = [w \in Workers |-> Idle]
  /\ spent \in {[requests |-> 0, deaths |-> 0, clicks |-> 0, overlaps |-> 0, of |-> b] : b \in Bounds}
-----------------------------------------------------------------------------
At(w, stage)   == worker[w].at = stage
\* An idle invocation starts on something.
Starts(w, clicks) ==
  LET overlap == \E v \in Workers : ~At(v, "idle") IN
  /\ At(w, "idle")
  /\ overlap => spent.overlaps < spent.of.overlaps
  /\ spent' = [spent EXCEPT !.clicks = @ + clicks, !.overlaps = @ + (IF overlap THEN 1 ELSE 0)]
Goes(w, stage) == worker' = [worker EXCEPT ![w].at = stage, ![w].seen = "none", ![w].turn = 0]
Ends(w)        == worker' = [worker EXCEPT ![w] = Idle]
Takes(w, r, stage) == worker' = [worker EXCEPT ![w] = [Idle EXCEPT !.at = stage, !.req = r]]
Held(r, stages) == \E w \in Workers : worker[w].req = r /\ worker[w].at \in stages

\* The unique index app_builder_requests_one_active_per_app: another request
\* holds the asset, so a write that makes r hold it throws.
Conflict(r) == \E q \in Requests \ {r} : row[q].status \in Holding

\* A new pull request, or a new head pushed to it: GitHub lists its check runs
\* at once or a moment later.
Pushed == {"none", "pending"}

\* What getPullRequestChecks makes of a pull request, in the order its caller
\* looks: no check run counts as none failing and none pending.
Seen(p) == IF p.state \in {"merged", "closed"} THEN p.state
           ELSE IF p.checks \in {"failing", "pending"} THEN p.checks ELSE "green"

-----------------------------------------------------------------------------
(* The queue *)

\* POST /requests.  The requests of the model carry different briefs: an equal
\* one that is queued or in progress is refused.
Submit(r) ==
  /\ row[r].status = "absent" /\ spent.requests < spent.of.requests
  /\ \A q \in Requests : q < r => row[q].status # "absent"
  /\ row' = [row EXCEPT ![r].status = "queued", ![r].pdf = TRUE]
  /\ spent' = [spent EXCEPT !.requests = @ + 1]
  /\ UNCHANGED <<pr, worker>>


\* recoverStalled: ten minutes without an update.  An invocation lives at most
\* five, so the one that held the request is dead.
RecoverStalled(r) ==
  /\ \/ /\ row[r].status = "reading" /\ ~Held(r, {"brief", "fail"})
        /\ row' = [row EXCEPT ![r].status = "queued"]
     \/ /\ row[r].status = "making_changes" /\ row[r].answer # "none"
        /\ ~Held(r, {"tools", "fail"})
        /\ row' = [row EXCEPT ![r].status = "waiting_openai"]
  /\ UNCHANGED <<pr, worker, spent>>

\* claimNextAppBuilderRequest: the oldest queued request, when none is active.
Kick(w) ==
  LET queued == {r \in Requests : row[r].status = "queued"} IN
  /\ Starts(w, 0) /\ queued # {}
  /\ LET r == Min(queued) IN
       /\ ~Conflict(r)
       /\ row' = [row EXCEPT ![r].status = "reading"]
       /\ Takes(w, r, "brief")
  /\ UNCHANGED pr

\* createResponse with the brief.
Ask(w) ==
  LET r == worker[w].req IN
  /\ At(w, "brief") /\ row[r].pdf
  /\ row' = [row EXCEPT ![r].status = "waiting_openai", ![r].turn = 1,
                         ![r].response = @ + 1, ![r].answer = "running"]
  /\ Ends(w)
  /\ UNCHANGED <<pr, spent>>

\* OpenAI is done with the response a row names.
Answer(r) ==
  /\ row[r].answer = "running"
  /\ \E a \in Answers \ {"none", "running"} : row' = [row EXCEPT ![r].answer = a]
  /\ UNCHANGED <<pr, worker, spent>>

\* Mutant: the claim compares the response id only.
ClaimAgain(w, r) ==
  /\ Starts(w, 0)
  /\ row[r].status \in {"waiting_openai", "making_changes"}
  /\ row[r].answer \notin {"none", "running"}
  /\ row' = [row EXCEPT ![r].status = "making_changes"]
  /\ worker' = [worker EXCEPT ![w] = [at |-> "tools", req |-> r, seen |-> row[r].answer,
                                       turn |-> row[r].turn, response |-> row[r].response]]
  /\ UNCHANGED pr

\* continueAppBuilderResponse, from the webhook or the reconcile pass: the
\* claim compares the response id and the status.
ClaimResponse(w, r) ==
  /\ Starts(w, 0)
  /\ row[r].status = "waiting_openai" /\ row[r].answer \notin {"none", "running"}
  /\ row' = [row EXCEPT ![r].status = "making_changes"]
  /\ worker' = [worker EXCEPT ![w] = [at |-> "tools", req |-> r, seen |-> row[r].answer,
                                       turn |-> row[r].turn, response |-> row[r].response]]
  /\ UNCHANGED pr

\* The tools of one round are run and the agent is asked for the next.
NextRound(w) ==
  LET r == worker[w].req IN
  /\ At(w, "tools") /\ worker[w].seen = "calls" /\ worker[w].turn < MaxTurns
  /\ ~Conflict(r)
  /\ \E staged \in {row[r].staged, TRUE} :
       row' = [row EXCEPT ![r].status = "waiting_openai", ![r].turn = worker[w].turn + 1,
                          ![r].response = @ + 1, ![r].answer = "running", ![r].staged = staged]
  /\ Ends(w)
  /\ UNCHANGED <<pr, spent>>

\* The agent blocked, or finished with nothing staged.
Stop(w) ==
  LET r == worker[w].req IN
  /\ At(w, "tools")
  /\ worker[w].seen = "blocked" \/ (worker[w].seen = "finished" /\ ~row[r].staged)
  /\ row' = [row EXCEPT ![r].status = "failed", ![r].pdf = FALSE]
  /\ Ends(w)
  /\ UNCHANGED <<pr, spent>>

Finish(w) ==
  LET r == worker[w].req IN
  /\ At(w, "tools") /\ worker[w].seen = "finished" /\ ~Conflict(r)
  /\ row' = [row EXCEPT ![r].status = "preparing_review", ![r].staged = TRUE]
  /\ Goes(w, "prepare")
  /\ UNCHANGED <<pr, spent>>

-----------------------------------------------------------------------------
(* Publication *)

\* A push that GitHub accepts: the pull request is open with a head to check.
Pushes(w, r, kind, stage) ==
  /\ \E checks \in Pushed :
       pr' = [pr EXCEPT ![r][kind] = [state |-> "open", checks |-> checks]]
  /\ Goes(w, stage)
  /\ UNCHANGED <<row, spent>>

\* prepareGitHubPullRequest: a branch of the request's own and a draft.
Prepare(w) ==
  LET r == worker[w].req IN
  /\ At(w, "prepare") /\ ~row[r].pull /\ pr[r].change.state = "none"
  /\ Pushes(w, r, "change", "opened")

\* updateGitHubPullRequestFiles, in a repair round: only while it is open.
Repair(w) ==
  LET r == worker[w].req IN
  /\ At(w, "prepare") /\ row[r].pull /\ pr[r].change.state = "open"
  /\ Pushes(w, r, "change", "opened")

LinkPull(w) ==
  LET r == worker[w].req IN
  /\ At(w, "opened") /\ ~Conflict(r)
  /\ row' = [row EXCEPT ![r].status = "publishing", ![r].pull = TRUE, ![r].pdf = FALSE]
  /\ Ends(w)
  /\ UNCHANGED <<pr, spent>>

\* The repository's checks report.
Checked(r, kind) ==
  /\ pr[r][kind].state = "open" /\ pr[r][kind].checks \in {"none", "pending"}
  /\ \E checks \in {"pending", "failing", "green"} :
       /\ checks # pr[r][kind].checks
       /\ pr' = [pr EXCEPT ![r][kind].checks = checks]
  /\ UNCHANGED <<row, worker, spent>>

\* publishAppBuilderRequest reads the row and the checks, then awaits.
ReadChecks(w, r) ==
  /\ Starts(w, 0) /\ row[r].status = "publishing" /\ row[r].pull
  /\ worker' = [worker EXCEPT ![w] = [at |-> "decide", req |-> r, seen |-> Seen(pr[r].change),
                                       turn |-> row[r].turn, response |-> row[r].response]]
  /\ UNCHANGED <<row, pr>>

Decides(w, seen) == At(w, "decide") /\ worker[w].seen = seen

\* Checks failed: the agent is asked to repair.
AskRepair(w) ==
  LET r == worker[w].req IN
  /\ Decides(w, "failing") /\ worker[w].turn < MaxTurns /\ ~Conflict(r)
  /\ row' = [row EXCEPT ![r].status = "waiting_openai", ![r].turn = worker[w].turn + 1,
                         ![r].response = @ + 1, ![r].answer = "running"]
  /\ Ends(w)
  /\ UNCHANGED <<pr, spent>>

\* Pending checks, or a merge GitHub refuses for now ("not mergeable",
\* "required status"): the request waits, whatever it has become.
Wait(w) ==
  LET r == worker[w].req IN
  /\ Decides(w, "pending") \/ (Decides(w, "green") /\ pr[r].change.state # "merged")
  /\ IF Conflict(r) THEN Goes(w, "fail") /\ UNCHANGED row
     ELSE row' = [row EXCEPT ![r].status = "publishing"] /\ Ends(w)
  /\ UNCHANGED <<pr, spent>>

\* Mutant: what GitHub answers to the merge is not looked at.
MergeUnread(w) ==
  LET r == worker[w].req IN
  /\ Decides(w, "green")
  /\ pr' = [pr EXCEPT ![r].change.state = IF @ = "open" THEN "merged" ELSE @]
  /\ Goes(w, "merged")
  /\ UNCHANGED <<row, spent>>

\* approveAndMergePullRequest.
Merge(w) ==
  LET r == worker[w].req IN
  /\ Decides(w, "green")
  /\ pr[r].change.state \in {"open", "merged"}
  /\ pr' = [pr EXCEPT ![r].change.state = "merged"]
  /\ Goes(w, "merged")
  /\ UNCHANGED <<row, spent>>

GoLive(w) ==
  /\ At(w, "merged") \/ Decides(w, "merged")
  /\ row' = [row EXCEPT ![worker[w].req].status = "live", ![worker[w].req].sha = TRUE]
  /\ Ends(w)
  /\ UNCHANGED <<pr, spent>>

\* Whatever throws: OpenAI or GitHub refuse, a broken answer, a spent budget,
\* a closed pull request, the unique index; a merge whose answer was lost.
Throws(w) ==
  /\ \/ worker[w].at \in {"brief", "prepare", "merged"}
     \/ (At(w, "opened") /\ Conflict(worker[w].req))
     \/ (At(w, "tools") /\ worker[w].seen # "blocked")
     \/ (At(w, "decide") /\ worker[w].seen # "pending")
  /\ Goes(w, "fail")
  /\ UNCHANGED <<row, pr, spent>>

\* fail: the row is written by id, whatever it has become; the brief goes.
Fail(w) ==
  /\ At(w, "fail")
  /\ row' = [row EXCEPT ![worker[w].req].status = "failed", ![worker[w].req].pdf = FALSE]
  /\ Goes(w, "close")
  /\ UNCHANGED <<pr, spent>>

\* ... and so does the pull request, unless a commit was published: GitHub's
\* answer to this may be lost too.
Close(w) ==
  LET r == worker[w].req IN
  /\ At(w, "close")
  /\ \/ /\ row[r].pull /\ ~row[r].sha /\ pr[r].change.state = "open"
        /\ pr' = [pr EXCEPT ![r].change.state = "closed"]
     \/ UNCHANGED pr
  /\ Ends(w)
  /\ UNCHANGED <<row, spent>>

-----------------------------------------------------------------------------
(* Reversal *)

\* claimAppBuilderReversal; the index may refuse it.
Reverse(w, r) ==
  /\ Starts(w, 1) /\ spent.clicks < spent.of.clicks
  /\ row[r].status = "live" /\ row[r].pull /\ ~Conflict(r)
  /\ row' = [row EXCEPT ![r].status = "reversing"]
  /\ IF row[r].undo THEN UNCHANGED worker ELSE Takes(w, r, "revert")
  /\ UNCHANGED pr

\* prepareGitHubRevertPullRequest: only of a merged change, on a new branch.
PrepareRevert(w) ==
  LET r == worker[w].req IN
  /\ At(w, "revert") /\ pr[r].change.state = "merged" /\ pr[r].reversal.state = "none"
  /\ Pushes(w, r, "reversal", "reverted")

LinkRevert(w) ==
  LET r == worker[w].req IN
  /\ At(w, "reverted") /\ ~Conflict(r)
  /\ row' = [row EXCEPT ![r].status = "reversing", ![r].undo = TRUE]
  /\ Ends(w)
  /\ UNCHANGED <<pr, spent>>

\* continueAppBuilderReversal.
ReadRevert(w, r) ==
  /\ Starts(w, 0) /\ row[r].status = "reversing" /\ row[r].undo
  /\ worker' = [worker EXCEPT ![w] = [Idle EXCEPT !.at = "undecide", !.req = r,
                                                   !.seen = Seen(pr[r].reversal)]]
  /\ UNCHANGED <<row, pr>>

WaitRevert(w) ==
  LET r == worker[w].req IN
  /\ At(w, "undecide") /\ ~Conflict(r)
  /\ worker[w].seen = "pending" \/ (worker[w].seen = "green" /\ pr[r].reversal.state # "merged")
  /\ row' = [row EXCEPT ![r].status = "reversing"]
  /\ Ends(w)
  /\ UNCHANGED <<pr, spent>>

MergeRevert(w) ==
  LET r == worker[w].req IN
  /\ At(w, "undecide") /\ worker[w].seen = "green"
  /\ pr[r].reversal.state \in {"open", "merged"}
  /\ pr' = [pr EXCEPT ![r].reversal.state = "merged"]
  /\ Goes(w, "unmerged")
  /\ UNCHANGED <<row, spent>>

Reversed(w) ==
  /\ At(w, "unmerged") \/ (At(w, "undecide") /\ worker[w].seen = "merged")
  /\ row' = [row EXCEPT ![worker[w].req].status = "reversed"]
  /\ Ends(w)
  /\ UNCHANGED <<pr, spent>>

\* The catch blocks: the change is said to be live.
RevertFails(w) ==
  /\ \/ worker[w].at \in {"revert", "unmerged"}
     \/ (At(w, "reverted") /\ Conflict(worker[w].req))
     \/ (At(w, "undecide") /\ (worker[w].seen # "pending" \/ Conflict(worker[w].req)))
  /\ row' = [row EXCEPT ![worker[w].req].status = "live"]
  /\ Ends(w)
  /\ UNCHANGED <<pr, spent>>

Die(w) ==
  /\ ~At(w, "idle") /\ spent.deaths < spent.of.deaths
  /\ spent' = [spent EXCEPT !.deaths = @ + 1]
  /\ Ends(w)
  /\ UNCHANGED <<row, pr>>
-----------------------------------------------------------------------------
Step(w) ==
  \/ Kick(w) \/ Ask(w)
  \/ \E r \in Requests : ClaimResponse(w, r) \/ ReadChecks(w, r) \/ ReadRevert(w, r)
  \/ NextRound(w) \/ Stop(w) \/ Finish(w)
  \/ Prepare(w) \/ Repair(w) \/ LinkPull(w) \/ AskRepair(w) \/ Wait(w) \/ Merge(w) \/ GoLive(w)
  \/ Throws(w) \/ Fail(w) \/ Close(w)
  \/ PrepareRevert(w) \/ LinkRevert(w) \/ WaitRevert(w) \/ MergeRevert(w)
  \/ Reversed(w) \/ RevertFails(w)

Outside(r) ==
  Answer(r) \/ RecoverStalled(r) \/ (\E kind \in {"change", "reversal"} : Checked(r, kind))

BuilderNext ==
  \/ \E r \in Requests : Submit(r) \/ Outside(r)
  \/ \E w \in Workers : Step(w) \/ Die(w) \/ (\E r \in Requests : Reverse(w, r))

BuilderSpec == BuilderInit /\ [][BuilderNext]_builderVars
-----------------------------------------------------------------------------
\* Rows, pull requests and invocations stay what the code can make of them; in
\* particular no request is ever asked for more rounds than its budget.
BuilderTypeOK ==
  /\ row \in [Requests -> Request]
  /\ pr \in [Requests -> [change : PullRequest, reversal : PullRequest]]
  /\ worker \in [Workers -> Worker]

\* "Live" and "reversed" are never said of a change that is not: whatever order
\* webhook, poll and cron write the row in, and wherever an invocation dies,
\* a row that says live, reversing or names a published commit has its pull
\* request merged, and one that says reversed has the reversal merged.
LiveIsMerged ==
  \A r \in Requests :
    /\ row[r].status \in {"live", "reversing", "reversed"} \/ row[r].sha
         => pr[r].change.state = "merged"
    /\ row[r].status = "reversed" => pr[r].reversal.state = "merged"

\* What the agent is told to tell the requester, "Cove checks and publishes the
\* update": what is merged has passed its checks.  The code does not keep it:
\* a list without check runs counts as neither failing nor pending, and a
\* repair may push a new head after the checks were read.
PublishedWasChecked ==
  \A r \in Requests : pr[r].change.state = "merged" => pr[r].change.checks = "green"

\* A request that can still be read, or read again after a recovery, has its
\* brief: the PDF goes only when nothing will ask for it.
BriefKept ==
  \A r \in Requests : row[r].status \in {"queued", "reading"} => row[r].pdf

\* The invocations that act on an answer of OpenAI, from the claim until the
\* next round is asked for or the pull request is written down.
Runs(w) == worker[w].at \in {"tools", "prepare", "opened"}

\* No answer is acted on twice at a time: webhook, poll and sweep may all bring
\* it, the sweep puts a claimed one back, late invocations write any status over
\* the row; still no two invocations run the tools of one response or push what
\* it finished.
ResponsesRunOnce ==
  \A v, w \in Workers :
    Runs(v) /\ Runs(w) /\ worker[v].req = worker[w].req /\ worker[v].response = worker[w].response
      => v = w

\* An invocation died between the end of a round and the number of its pull
\* request, or between the claim of a reversal and the number of its own: the
\* row is in a state no sweep, poll or button takes up, and nobody is at it.
Orphaned(r) ==
  /\ spent.deaths > 0 /\ ~Held(r, Stages \ {"idle"})
  /\ row[r].status = "preparing_review" \/ (row[r].status = "reversing" /\ ~row[r].undo)


\* What fail() tells the requester: "Stopped safely - nothing was published".
FailedIsUnpublished ==
  \A r \in Requests : row[r].status = "failed" => pr[r].change.state # "merged"
=============================================================================
