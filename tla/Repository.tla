----------------------------- MODULE Repository -----------------------------
(***************************************************************************)
(* One application's repository at GitHub, and everything of Cove that     *)
(* writes into it: Prepare of the sign-in workflow, a request of the App   *)
(* Builder, its repairs and its reversal.  Each reads files from the       *)
(* default branch, commits whole files on top of that branch as it is some *)
(* calls later, and has a pull request merged.  Developers push meanwhile. *)
(* When a merge is due is left open here: that is Sso's and AppBuilder's.  *)
(***************************************************************************)
EXTENDS Naturals, FiniteSets

CONSTANTS
  Preparers,   \* invocations of Prepare for this application
  Edits        \* bound: what developers push, each at most once

\* What is written into a file can be told apart, and so can its writers.
ASSUME RepositoryAssumption ==
  {"own", "cove", "request"} \cap Edits = {} /\ {"builder", "reverser"} \cap Preparers = {}

VARIABLES
  main,      \* the default branch: what each file holds
  intended,  \* history: what everybody who wrote to it meant it to hold
  branch,    \* Cove's branches with their pull requests
  writer,    \* the invocations at work
  unpushed,  \* the edits still to come
  evidence   \* cove_sso_evidence of github_change_set

repoVars == <<main, intended, branch, writer, unpushed, evidence>>

\* app/layout.tsx, a file like any other of the application's to the agent and to
\* Cove's patches, and the request file under either of its names.  A file is the set of
\* what was written into it; the empty one is not there.
Files == {"layout", "proxy"}
Branches == {"kit", "request", "reversal"}
Writers == Preparers \cup {"builder", "reverser"}
BranchOf(w) == CASE w = "builder" -> "request" [] w = "reverser" -> "reversal" [] OTHER -> "kit"

NoContents == [f \in Files |-> {}]
NoFiles == [f \in {} |-> {}]
NoBranch == [state |-> "none", base |-> NoContents, tip |-> NoContents, head |-> NoContents, stale |-> NoContents]
Asleep == [at |-> "idle", read |-> NoFiles, files |-> NoFiles, base |-> NoContents, manual |-> FALSE]

RepositoryInit ==
  /\ main = [layout |-> {"own"}, proxy |-> {}]
  /\ intended = main
  /\ branch = [b \in Branches |-> NoBranch]
  /\ writer = [w \in Writers |-> Asleep]
  /\ unpushed = Edits /\ evidence = "pending"

-----------------------------------------------------------------------------
At(w, stage) == writer[w].at = stage
Goes(w, stage) == writer' = [writer EXCEPT ![w].at = stage]
Rests(w) == writer' = [writer EXCEPT ![w] = Asleep]

\* patchLayout: what is there stays, and doing it again changes nothing; the
\* package files, which are left out, are patched alike.
WithCove(content) == content \cup {"cove"}

\* A request file of the application's own, without createCoveProxy: left
\* alone, and a person is asked to compose the two.
NeedsReview(read) == read["proxy"] # {} /\ "cove" \notin read["proxy"]

\* buildCoveAuthChangeSet
ChangeSet(read) ==
  [f \in IF NeedsReview(read) THEN Files \ {"proxy"} ELSE Files |->
     IF f = "proxy" /\ read[f] # {} THEN read[f] ELSE WithCove(read[f])]

\* What the evidence of an attempt that got its pull request says.
Claimed(w) == IF w \notin Preparers THEN evidence
              ELSE IF writer[w].manual THEN "failed" ELSE "passed"

-----------------------------------------------------------------------------
\* inspectGitHubNextApplication, and what is to be made of the files.
Inspects(w) ==
  /\ At(w, "idle")
  /\ writer' = [writer EXCEPT ![w] = [@ EXCEPT !.at = "branch", !.read = main, !.files = ChangeSet(main),
                                               !.manual = NeedsReview(main)]]
  /\ UNCHANGED <<main, intended, branch, evidence, unpushed>>

\* assertWritablePath: the request file and the package files are not the agent's.
Writable == Files \ {"proxy"}

\* The agent reads a file it listed and stages its own version of it.
AgentStages(f) ==
  /\ At("builder", "idle") /\ branch["request"].state = "none" /\ f \in Writable /\ main[f] # {}
  /\ writer' = [writer EXCEPT !["builder"] =
       [@ EXCEPT !.at = "branch", !.read = [g \in {f} |-> main[f]],
                 !.files = [g \in {f} |-> main[f] \cup {"request"}]]]
  /\ UNCHANGED <<main, intended, branch, evidence, unpushed>>

\* prepareGitHubPullRequest: a branch with an open pull request is taken as it
\* is, one without is refused.
LooksForBranch(w) ==
  /\ At(w, "branch")
  /\ IF branch[BranchOf(w)].state = "none"
     THEN Goes(w, "base") /\ UNCHANGED evidence
     ELSE /\ Rests(w)
          /\ evidence' = IF branch[BranchOf(w)].state = "open" THEN Claimed(w)
                         ELSE IF w \in Preparers THEN "failed" ELSE evidence
  /\ UNCHANGED <<main, intended, branch, unpushed>>

\* The commit that Cove's commit will follow.
ReadsBase(w) ==
  /\ At(w, "base")
  /\ writer' = [writer EXCEPT ![w] = [@ EXCEPT !.at = "commit", !.base = main]]
  /\ UNCHANGED <<main, intended, branch, evidence, unpushed>>

Difference(a, b) == (a \ b) \cup (b \ a)

\* The tree, the commit, and the branch, which somebody else may have created.
\* What changed between the reading and the base is remembered: it is in the
\* base and not in the file that replaces it, or the other way round.
PushesBranch(w) ==
  LET job == writer[w] IN
  /\ At(w, "commit")
  /\ IF branch[BranchOf(w)].state = "none"
     THEN /\ Goes(w, "pull") /\ UNCHANGED evidence
          /\ branch' = [branch EXCEPT ![BranchOf(w)] =
               [@ EXCEPT !.state = "pushed", !.base = job.base,
                  !.head  = [f \in Files |-> IF f \in DOMAIN job.files THEN job.files[f] ELSE job.base[f]],
                  !.stale = [f \in Files |-> IF f \in DOMAIN job.files
                                              THEN Difference(job.base[f], job.read[f]) ELSE {}]]]
     ELSE /\ Rests(w) /\ UNCHANGED branch
          /\ evidence' = IF w \in Preparers THEN "failed" ELSE evidence
  /\ UNCHANGED <<main, intended, unpushed>>

\* GitHub remembers where the default branch was when the pull request came.
OpensPull(w) ==
  /\ At(w, "pull") /\ Rests(w)
  /\ branch' = IF branch[BranchOf(w)].state # "pushed" THEN branch
               ELSE [branch EXCEPT ![BranchOf(w)] =
                       [@ EXCEPT !.state = "open", !.tip = IF w = "builder" THEN main ELSE NoContents]]
  /\ evidence' = IF branch[BranchOf(w)].state = "pushed" THEN Claimed(w)
                 ELSE IF w \in Preparers THEN "failed" ELSE evidence
  /\ UNCHANGED <<main, intended, unpushed>>

\* Any call may be refused, time out or find the App not installed.
Refused(w) ==
  /\ ~At(w, "idle") /\ Rests(w)
  /\ evidence' = IF w \in Preparers THEN "failed" ELSE evidence
  /\ UNCHANGED <<main, intended, branch, unpushed>>

\* A branch without a pull request: somebody removes it.
RemovesBranch(b) ==
  /\ branch[b].state = "pushed"
  /\ branch' = [branch EXCEPT ![b] = NoBranch]
  /\ UNCHANGED <<main, intended, writer, evidence, unpushed>>

-----------------------------------------------------------------------------
\* updateGitHubPullRequestFiles: a file the agent reads for the repair is the
\* default branch's as it is now.
Repairs(f) ==
  /\ branch["request"].state = "open" /\ At("builder", "idle") /\ f \in Writable /\ main[f] # {}
  /\ "request" \notin branch["request"].head[f]
  /\ branch' = [branch EXCEPT !["request"].head[f] = main[f] \cup {"request"}, !["request"].tip = main,
                               !["request"].stale[f] = @ \cup Difference(branch["request"].base[f], main[f])]
  /\ UNCHANGED <<main, intended, writer, evidence, unpushed>>

\* closeGitHubPullRequest
Closes ==
  /\ branch["request"].state = "open" /\ At("builder", "idle")
  /\ branch' = [branch EXCEPT !["request"] = [NoBranch EXCEPT !.state = "closed"]]
  /\ UNCHANGED <<main, intended, writer, evidence, unpushed>>

\* Mutant: the files are put back whatever has become of them.
PutsBackAnything(paths, head, now) == TRUE

\* No file of the change has become another one since.
StillAsMerged(paths, head, now) == \A f \in paths : now[f] = head[f]

\* prepareGitHubRevertPullRequest: the files of the merged change are put back
\* to what they were, on top of the commit they were compared at.
Reverses ==
  LET pull == branch["request"]
      paths == {f \in Files : pull.head[f] # pull.base[f]} IN
  /\ At("reverser", "idle") /\ pull.state = "merged" /\ branch["reversal"].state \in {"none", "pushed"}
  /\ paths # {} /\ StillAsMerged(paths, pull.head, main)
  /\ writer' = [writer EXCEPT !["reverser"] =
       [@ EXCEPT !.at = "commit", !.base = main, !.read = [f \in paths |-> main[f]],
                 !.files = [f \in paths |-> pull.tip[f]]]]
  /\ UNCHANGED <<main, intended, branch, evidence, unpushed>>

-----------------------------------------------------------------------------
\* GitHub's squash merge, file by file: what either side added since the base
\* and what neither removed.
Squashed(pull) ==
  [f \in Files |-> (main[f] \cap pull.head[f]) \cup (main[f] \ pull.base[f])
                                               \cup (pull.head[f] \ pull.base[f])]

\* One side deleted or created the file that the other one changed.
Conflicts(pull) ==
  \E f \in Files : /\ main[f] # pull.base[f] /\ pull.head[f] # pull.base[f] /\ main[f] # pull.head[f]
                   /\ {} \in {main[f], pull.base[f], pull.head[f]}

\* What a branch means to add, and a reversal to take away.
Adds(b) == CASE b = "kit" -> {"cove"} [] b = "request" -> {"request"} [] OTHER -> {}
TakesAway(b) == IF b = "reversal" THEN {"request"} ELSE {}

\* approveAndMergePullRequest; GitHub may refuse what two sides changed.
Merges(b) ==
  LET pull == branch[b] IN
  /\ pull.state = "open" /\ ~Conflicts(pull)
  /\ main' = Squashed(pull)
  /\ branch' = [branch EXCEPT ![b] = IF b = "request" THEN [@ EXCEPT !.state = "merged"]
                                     ELSE [NoBranch EXCEPT !.state = "merged", !.stale = pull.stale]]
  /\ intended' = [f \in Files |-> (intended[f] \cup ((pull.head[f] \ pull.base[f]) \cap Adds(b))) \ TakesAway(b)]
  /\ UNCHANGED <<writer, evidence, unpushed>>

\* A developer pushes an edit of a file: of the request file with createCoveProxy
\* or without.  Nobody deletes one.
Push(f) ==
  /\ \E e \in unpushed, cove \in SUBSET {"cove"} :
       /\ unpushed' = unpushed \ {e}
       /\ cove # {} => f = "proxy"
       /\ main' = [main EXCEPT ![f] = @ \cup {e} \cup cove]
       /\ intended' = [intended EXCEPT ![f] = @ \cup {e} \cup cove]
  /\ UNCHANGED <<branch, writer, evidence>>

RepositoryNext ==
  \/ \E w \in Preparers : Inspects(w)
  \/ \E f \in Files : AgentStages(f) \/ Repairs(f) \/ Push(f)
  \/ \E w \in Writers : LooksForBranch(w) \/ ReadsBase(w) \/ PushesBranch(w) \/ OpensPull(w) \/ Refused(w)
  \/ \E b \in Branches : Merges(b) \/ RemovesBranch(b)
  \/ Closes \/ Reverses

RepositorySpec == RepositoryInit /\ [][RepositoryNext]_repoVars
-----------------------------------------------------------------------------
\* Whatever is prepared, repaired, merged and reversed at the same time, and
\* whatever developers push in between, the default branch holds what everybody
\* meant it to hold: no push is undone, a published change stays, a reversed
\* one is gone, and a reversal takes nothing else with it.  The one exception:
\* what changed in a file between its reading by Prepare or the agent and the
\* base their commit was given, which their version of the file undoes.
OnlyStaleReadsUndo ==
  \A f \in Files :
    LET undone == UNION {branch[b].stale[f] : b \in {c \in Branches : branch[c].state = "merged"}} IN
    Difference(intended[f], main[f]) \subseteq undone

-----------------------------------------------------------------------------
(* Statements of the repository that the code does not keep.               *)

\* "The final proxy must preserve existing non-authentication behaviour": no
\* change of Cove's undoes what a developer pushed.
NothingIsUndone == \A f \in Files : intended[f] \subseteq main[f]

\* "GitHub pull request #... contains the versioned Cove integration change
\* set": where that is the evidence, merging the pull request, which may be one
\* that another Prepare opened, leaves the kit in every file of the change set.
PassedHasTheChangeSet ==
  evidence = "passed" /\ branch["kit"].state = "open" /\ ~Conflicts(branch["kit"])
    => \A f \in Files : "cove" \in Squashed(branch["kit"])[f]
=============================================================================
