----------------------------- MODULE QueueProofs -----------------------------
(***************************************************************************)
(* The App Builder's queue and the sign-in workflow for every value of     *)
(* their constants: however webhook, poll, cron and buttons overlap.       *)
(***************************************************************************)
EXTENDS AppBuilder, Sso, FiniteSetTheorems, WellFoundedInduction, TLAPS

-----------------------------------------------------------------------------
(* The App Builder *)

Placed == \A w \in Workers : worker[w].at # "idle" => worker[w].req \in Requests

TInv == BuilderTypeOK /\ Placed

\* What an invocation saw or did at GitHub stays so: a merge is for good.
SeenIsSo ==
  \A w \in Workers :
    LET r == worker[w].req IN
    /\ worker[w].at = "merged" \/ (worker[w].at = "decide" /\ worker[w].seen = "merged")
         => pr[r].change.state = "merged"
    /\ worker[w].at \in {"revert", "reverted", "undecide", "unmerged"} => pr[r].change.state = "merged"
    /\ worker[w].at = "unmerged" \/ (worker[w].at = "undecide" /\ worker[w].seen = "merged")
         => pr[r].reversal.state = "merged"

MergedInv == TInv /\ LiveIsMerged /\ SeenIsSo

\* An invocation runs an answer of the row's last response or of an earlier one;
\* while it runs the last, the row does not wait for it, and after the round it
\* does not say that the round is on.
RunsBehind ==
  \A w \in Workers : Runs(w) =>
    LET r == worker[w].req IN
    /\ worker[w].response <= row[r].response
    /\ worker[w].response = row[r].response =>
         /\ row[r].status # "waiting_openai"
         /\ worker[w].at # "tools" => row[r].status # "making_changes"

RunsInv == TInv /\ RunsBehind /\ ResponsesRunOnce
-----------------------------------------------------------------------------
\* Who acts: an invocation w at the request it is at, or somebody outside.
LEMMA BuilderActors ==
  ASSUME [BuilderNext]_builderVars
  PROVE  \/ \E r \in Requests : Submit(r) \/ Answer(r) \/ RecoverStalled(r)
                                \/ (\E kind \in {"change", "reversal"} : Checked(r, kind))
         \/ \E w \in Workers : Step(w) \/ Die(w) \/ (\E r \in Requests : Reverse(w, r))
         \/ UNCHANGED builderVars
  BY DEF BuilderNext, Outside

\* The three ways an invocation goes on.
LEMMA Going ==
  ASSUME TInv, NEW w \in Workers, NEW stage \in Stages, Goes(w, stage)
  PROVE  /\ worker' \in [Workers -> Worker]
         /\ \A v \in Workers \ {w} : worker'[v] = worker[v]
         /\ worker'[w].at = stage /\ worker'[w].req = worker[w].req
         /\ worker'[w].response = worker[w].response
<1>1. PICK a : a = [worker[w] EXCEPT !.at = stage]
  OBVIOUS
<1>2. PICK b : b = [a EXCEPT !.seen = "none"]
  OBVIOUS
<1>3. PICK c : c = [b EXCEPT !.turn = 0]
  OBVIOUS
<1>4. worker[w] \in Worker /\ MaxTurns \in Nat
  BY AppBuilderAssumption DEF TInv, BuilderTypeOK
<1>5. a \in Worker /\ a.at = stage /\ a.req = worker[w].req /\ a.response = worker[w].response
  BY <1>1, <1>4 DEF Worker
<1>6. b \in Worker /\ b.at = stage /\ b.req = worker[w].req /\ b.response = worker[w].response
  BY <1>2, <1>5 DEF Worker, Answers
<1>7. c \in Worker /\ c.at = stage /\ c.req = worker[w].req /\ c.response = worker[w].response
  BY <1>3, <1>4, <1>6 DEF Worker
<1>8. worker' = [worker EXCEPT ![w] = c]
  BY <1>1, <1>2, <1>3 DEF Goes
<1> QED BY <1>7, <1>8 DEF TInv, BuilderTypeOK

LEMMA Ending ==
  ASSUME TInv, NEW w \in Workers, Ends(w)
  PROVE  /\ worker' \in [Workers -> Worker]
         /\ \A v \in Workers \ {w} : worker'[v] = worker[v]
         /\ worker'[w].at = "idle"
  BY AppBuilderAssumption DEF TInv, BuilderTypeOK, Worker, Ends, Idle, Stages, Answers

LEMMA Taking ==
  ASSUME TInv, NEW w \in Workers, NEW r \in Requests, NEW stage \in Stages, Takes(w, r, stage)
  PROVE  /\ worker' \in [Workers -> Worker]
         /\ \A v \in Workers \ {w} : worker'[v] = worker[v]
         /\ worker'[w].at = stage /\ worker'[w].req = r
<1>1. Idle \in Worker
  BY AppBuilderAssumption DEF Idle, Worker, Stages, Answers
<1>2. PICK i : i = [Idle EXCEPT !.at = stage]
  OBVIOUS
<1>3. i \in Worker /\ i.at = stage
  BY <1>1, <1>2 DEF Worker
<1>4. PICK j : j = [i EXCEPT !.req = r]
  OBVIOUS
<1>5. j \in Worker /\ j.at = stage /\ j.req = r
  BY <1>3, <1>4 DEF Worker
<1>6. worker' = [worker EXCEPT ![w] = j]
  BY <1>2, <1>4 DEF Takes
<1> QED BY <1>5, <1>6 DEF TInv, BuilderTypeOK

\* Numbers have a least one: the queue a head.
LEMMA QueueHead ==
  ASSUME NEW S \in SUBSET Requests, S # {}
  PROVE  Min(S) \in S
<1>1. S \subseteq Nat
  BY AppBuilderAssumption
<1>2. PICK n \in S : \A m \in S : <<m, n>> \notin OpToRel(<, Nat)
  BY <1>1, NatLessThanWellFounded, WFMin
<1>3. \A m \in S : n <= m
  <2> SUFFICES ASSUME NEW m \in S, m < n PROVE FALSE
    BY <1>1
  <2>1. <<m, n>> \in Nat \X Nat
    BY <1>1
  <2> QED BY <1>2, <2>1 DEF OpToRel
<1> QED BY <1>3 DEF Min

\* A row is written column by column, and only one column counts responses.
LEMMA FieldWrites ==
  /\ \A v \in Request, s \in Statuses : [v EXCEPT !.status = s] \in Request /\ [v EXCEPT !.status = s].response = v.response
  /\ \A v \in Request, i \in Nat : [v EXCEPT !.response = i] \in Request
  /\ \A v \in Request, a \in Answers : [v EXCEPT !.answer = a] \in Request /\ [v EXCEPT !.answer = a].response = v.response
  /\ \A v \in Request, n \in 0 .. MaxTurns : [v EXCEPT !.turn = n] \in Request /\ [v EXCEPT !.turn = n].response = v.response
  /\ \A v \in Request, t \in BOOLEAN : [v EXCEPT !.staged = t] \in Request /\ [v EXCEPT !.staged = t].response = v.response
  /\ \A v \in Request, t \in BOOLEAN : [v EXCEPT !.pull = t] \in Request /\ [v EXCEPT !.pull = t].response = v.response
  /\ \A v \in Request, t \in BOOLEAN : [v EXCEPT !.sha = t] \in Request /\ [v EXCEPT !.sha = t].response = v.response
  /\ \A v \in Request, t \in BOOLEAN : [v EXCEPT !.undo = t] \in Request /\ [v EXCEPT !.undo = t].response = v.response
  /\ \A v \in Request, t \in BOOLEAN : [v EXCEPT !.pdf = t] \in Request /\ [v EXCEPT !.pdf = t].response = v.response
<1>1. \A v \in Request, s \in Statuses : [v EXCEPT !.status = s] \in Request /\ [v EXCEPT !.status = s].response = v.response
  BY DEF Request
<1>2. \A v \in Request, i \in Nat : [v EXCEPT !.response = i] \in Request
  BY DEF Request
<1>3. \A v \in Request, a \in Answers : [v EXCEPT !.answer = a] \in Request /\ [v EXCEPT !.answer = a].response = v.response
  BY DEF Request
<1>4. \A v \in Request, n \in 0 .. MaxTurns : [v EXCEPT !.turn = n] \in Request /\ [v EXCEPT !.turn = n].response = v.response
  BY DEF Request
<1>5. \A v \in Request, t \in BOOLEAN : [v EXCEPT !.staged = t] \in Request /\ [v EXCEPT !.staged = t].response = v.response
  BY DEF Request
<1>6. \A v \in Request, t \in BOOLEAN : [v EXCEPT !.pull = t] \in Request /\ [v EXCEPT !.pull = t].response = v.response
  BY DEF Request
<1>7. \A v \in Request, t \in BOOLEAN : [v EXCEPT !.sha = t] \in Request /\ [v EXCEPT !.sha = t].response = v.response
  BY DEF Request
<1>8. \A v \in Request, t \in BOOLEAN : [v EXCEPT !.undo = t] \in Request /\ [v EXCEPT !.undo = t].response = v.response
  BY DEF Request
<1>9. \A v \in Request, t \in BOOLEAN : [v EXCEPT !.pdf = t] \in Request /\ [v EXCEPT !.pdf = t].response = v.response
  BY DEF Request
<1> QED BY <1>1, <1>2, <1>3, <1>4, <1>5, <1>6, <1>7, <1>8, <1>9

\* What a step of one invocation leaves of the types.
LEMMA StepTypes ==
  ASSUME TInv, NEW w \in Workers, Step(w) \/ Die(w) \/ (\E r \in Requests : Reverse(w, r))
  PROVE  /\ row' \in [Requests -> Request] /\ worker' \in [Workers -> Worker]
         /\ \A v \in Workers \ {w} : worker'[v] = worker[v]
         /\ worker'[w].at # "idle" => worker'[w].req \in Requests
         /\ pr' \in [Requests -> [change : PullRequest, reversal : PullRequest]]
<1> DEFINE Moves == /\ worker' \in [Workers -> Worker]
                    /\ \A v \in Workers \ {w} : worker'[v] = worker[v]
                    /\ worker'[w].at # "idle" => worker'[w].req \in Requests
           Rows  == row' \in [Requests -> Request]
           Pulls == pr' \in [Requests -> [change : PullRequest, reversal : PullRequest]]
<1>0. /\ row \in [Requests -> Request] /\ worker \in [Workers -> Worker]
      /\ pr \in [Requests -> [change : PullRequest, reversal : PullRequest]]
      /\ worker[w].at # "idle" => worker[w].req \in Requests
      /\ worker[w].turn \in 0 .. MaxTurns /\ MaxTurns \in Nat /\ MaxTurns > 0
  BY AppBuilderAssumption DEF TInv, BuilderTypeOK, Placed, Worker
<1>00. row \in [Requests -> Request]
  BY <1>0
<1> USE DEF At, Decides, Starts
<1>1. CASE Kick(w)
  <2>0. \E r \in Requests : row' = [row EXCEPT ![r].status = "reading"] /\ Takes(w, r, "brief")
    BY <1>1, QueueHead DEF Kick
  <2>1. Moves
    BY <1>0, <2>0, Taking DEF Stages
  <2>2. Rows
    <3>1. PICK r \in Requests : row' = [row EXCEPT ![r].status = "reading"]
      BY <2>0
    <3> QED BY <1>00, <3>1 DEF Request, Statuses, Holding
  <2>3. Pulls
    BY <1>0, <1>1 DEF Kick
  <2> QED BY <2>1, <2>2, <2>3
<1>2. CASE Ask(w)
  <2>1. Moves
    BY <1>0, <1>2, Ending DEF Ask
  <2>2. Rows
    <3>0. PICK r \in Requests : r = worker[w].req
      BY <1>0, <1>2 DEF Ask
    <3>1. PICK t \in 0 .. MaxTurns : t = 1
      BY <1>0, <1>2 DEF Ask
    <3>2. row' = [row EXCEPT ![r].status = "waiting_openai", ![r].turn = t, ![r].response = @ + 1,
                              ![r].answer = "running"]
      BY <1>2, <3>0, <3>1 DEF Ask
    <3>3. TRUE \in BOOLEAN
      OBVIOUS
    <3>4. PICK i \in Nat : i = row[r].response + 1
      BY <1>00 DEF Request
    <3>9. "waiting_openai" \in Statuses /\ {TRUE, FALSE} \subseteq BOOLEAN /\ "running" \in Answers
      BY DEF Statuses, Holding, Answers
    <3>10. PICK v1 : v1 = [row[r] EXCEPT !.status = "waiting_openai"]
      OBVIOUS
    <3>5. row[r] \in Request
      BY <1>00
    <3>11. v1 \in Request /\ v1.response = row[r].response
      BY <3>1, <3>3, <3>4, <3>5, <3>9, <3>10, FieldWrites
    <3>12. PICK v2 : v2 = [v1 EXCEPT !.turn = t]
      OBVIOUS
    <3>13. v2 \in Request /\ v2.response = row[r].response
      BY <3>1, <3>3, <3>4, <3>9, <3>11, <3>12, FieldWrites
    <3>14. PICK v3 : v3 = [v2 EXCEPT !.response = i]
      OBVIOUS
    <3>15. v3 \in Request
      BY <3>1, <3>3, <3>4, <3>9, <3>13, <3>14, FieldWrites
    <3>16. PICK v4 : v4 = [v3 EXCEPT !.answer = "running"]
      OBVIOUS
    <3>17. v4 \in Request
      BY <3>1, <3>3, <3>4, <3>9, <3>15, <3>16, FieldWrites
    <3>18. row' = [row EXCEPT ![r] = v4]
      BY <3>2, <3>4, <3>10, <3>11, <3>12, <3>13, <3>14, <3>16
    <3> QED BY <1>00, <3>17, <3>18
  <2>3. Pulls
    BY <1>0, <1>2 DEF Ask
  <2> QED BY <2>1, <2>2, <2>3
<1>3. ASSUME NEW r \in Requests, ClaimResponse(w, r) PROVE Moves /\ Rows /\ Pulls
  <2>1. Moves
    <3>1. row[r].answer \in Answers \cup {"merged", "closed", "failing", "pending", "green"}
      BY <1>00 DEF Request, Seen
    <3>2. row[r].turn \in 0 .. MaxTurns /\ row[r].response \in Nat
      BY <1>00 DEF Request
    <3>3. PICK i : i = [at |-> "tools", req |-> r, seen |-> row[r].answer, turn |-> row[r].turn, response |-> row[r].response]
      OBVIOUS
    <3>4. i \in Worker /\ i.req = r
      BY <3>1, <3>2, <3>3 DEF Worker, Stages
    <3>5. worker' = [worker EXCEPT ![w] = i]
      BY <1>3, <3>3 DEF ClaimResponse
    <3> QED BY <1>0, <3>4, <3>5
  <2>2. Rows
    <3>1. row' = [row EXCEPT ![r].status = "making_changes"]
      BY <1>3 DEF ClaimResponse
    <3> QED BY <1>00, <3>1 DEF Request, Statuses, Holding
  <2>3. Pulls
    BY <1>0, <1>3 DEF ClaimResponse
  <2> QED BY <2>1, <2>2, <2>3
<1>4. ASSUME NEW r \in Requests, ReadChecks(w, r) PROVE Moves /\ Rows /\ Pulls
  <2>1. Moves
    <3>1. Seen(pr[r].change) \in Answers \cup {"merged", "closed", "failing", "pending", "green"}
      BY <1>00 DEF Request, Seen
    <3>2. row[r].turn \in 0 .. MaxTurns /\ row[r].response \in Nat
      BY <1>00 DEF Request
    <3>3. PICK i : i = [at |-> "decide", req |-> r, seen |-> Seen(pr[r].change), turn |-> row[r].turn, response |-> row[r].response]
      OBVIOUS
    <3>4. i \in Worker /\ i.req = r
      BY <3>1, <3>2, <3>3 DEF Worker, Stages
    <3>5. worker' = [worker EXCEPT ![w] = i]
      BY <1>4, <3>3 DEF ReadChecks
    <3> QED BY <1>0, <3>4, <3>5
  <2>2. Rows
    BY <1>0, <1>4 DEF ReadChecks
  <2>3. Pulls
    BY <1>0, <1>4 DEF ReadChecks
  <2> QED BY <2>1, <2>2, <2>3
<1>5. ASSUME NEW r \in Requests, ReadRevert(w, r) PROVE Moves /\ Rows /\ Pulls
  <2>1. Moves
    <3>1. Idle \in Worker /\ Seen(pr[r].reversal) \in Answers \cup {"merged", "closed", "failing", "pending", "green"}
      BY AppBuilderAssumption DEF Idle, Worker, Stages, Answers, Seen
    <3>2. PICK i : i = [Idle EXCEPT !.at = "undecide"]
      OBVIOUS
    <3>3. i \in Worker
      BY <3>1, <3>2 DEF Worker, Stages
    <3>4. PICK j : j = [i EXCEPT !.req = r]
      OBVIOUS
    <3>5. j \in Worker /\ j.req = r
      BY <3>3, <3>4 DEF Worker
    <3>6. PICK k : k = [j EXCEPT !.seen = Seen(pr[r].reversal)]
      OBVIOUS
    <3>7. k \in Worker /\ k.req = r
      BY <3>1, <3>5, <3>6 DEF Worker
    <3>8. worker' = [worker EXCEPT ![w] = k]
      BY <1>5, <3>2, <3>4, <3>6 DEF ReadRevert
    <3> QED BY <1>0, <3>7, <3>8
  <2>2. Rows
    BY <1>0, <1>5 DEF ReadRevert
  <2>3. Pulls
    BY <1>0, <1>5 DEF ReadRevert
  <2> QED BY <2>1, <2>2, <2>3
<1>6. CASE NextRound(w)
  <2>1. Moves
    BY <1>0, <1>6, Ending DEF NextRound
  <2>2. Rows
    <3>0. PICK r \in Requests : r = worker[w].req
      BY <1>0, <1>6 DEF NextRound
    <3>1. PICK t \in 0 .. MaxTurns : t = worker[w].turn + 1
      BY <1>0, <1>6 DEF NextRound
    <3>2. PICK staged \in {row[r].staged, TRUE} :
            row' = [row EXCEPT ![r].status = "waiting_openai", ![r].turn = t, ![r].response = @ + 1,
                               ![r].answer = "running", ![r].staged = staged]
      BY <1>6, <3>0, <3>1 DEF NextRound
    <3>3. staged \in BOOLEAN
      BY <1>00 DEF Request
    <3>4. PICK i \in Nat : i = row[r].response + 1
      BY <1>00 DEF Request
    <3>9. "waiting_openai" \in Statuses /\ {TRUE, FALSE} \subseteq BOOLEAN /\ "running" \in Answers
      BY DEF Statuses, Holding, Answers
    <3>10. PICK v1 : v1 = [row[r] EXCEPT !.status = "waiting_openai"]
      OBVIOUS
    <3>5. row[r] \in Request
      BY <1>00
    <3>11. v1 \in Request /\ v1.response = row[r].response
      BY <3>1, <3>3, <3>4, <3>5, <3>9, <3>10, FieldWrites
    <3>12. PICK v2 : v2 = [v1 EXCEPT !.turn = t]
      OBVIOUS
    <3>13. v2 \in Request /\ v2.response = row[r].response
      BY <3>1, <3>3, <3>4, <3>9, <3>11, <3>12, FieldWrites
    <3>14. PICK v3 : v3 = [v2 EXCEPT !.response = i]
      OBVIOUS
    <3>15. v3 \in Request
      BY <3>1, <3>3, <3>4, <3>9, <3>13, <3>14, FieldWrites
    <3>16. PICK v4 : v4 = [v3 EXCEPT !.answer = "running"]
      OBVIOUS
    <3>17. v4 \in Request
      BY <3>1, <3>3, <3>4, <3>9, <3>15, <3>16, FieldWrites
    <3>18. PICK v5 : v5 = [v4 EXCEPT !.staged = staged]
      OBVIOUS
    <3>19. v5 \in Request
      BY <3>1, <3>3, <3>4, <3>9, <3>17, <3>18, FieldWrites
    <3>20. row' = [row EXCEPT ![r] = v5]
      BY <3>2, <3>4, <3>10, <3>11, <3>12, <3>13, <3>14, <3>16, <3>18
    <3> QED BY <1>00, <3>19, <3>20
  <2>3. Pulls
    BY <1>0, <1>6 DEF NextRound
  <2> QED BY <2>1, <2>2, <2>3
<1>7. CASE Stop(w)
  <2>1. Moves
    BY <1>0, <1>7, Ending DEF Stop
  <2>2. Rows
    <3>0. PICK r \in Requests : r = worker[w].req
      BY <1>0, <1>7 DEF Stop
    <3>9. "failed" \in Statuses /\ {TRUE, FALSE} \subseteq BOOLEAN /\ "none" \in Answers /\ 0 \in 0 .. MaxTurns
      BY <1>0 DEF Statuses, Holding, Answers
    <3>10. PICK v1 : v1 = [row[r] EXCEPT !.status = "failed"]
      OBVIOUS
    <3>11. v1 \in Request
      BY <1>00, <3>9, <3>10, FieldWrites
    <3>12. PICK v2 : v2 = [v1 EXCEPT !.pdf = FALSE]
      OBVIOUS
    <3>13. v2 \in Request
      BY <1>00, <3>9, <3>12, <3>11, FieldWrites
    <3>14. row' = [row EXCEPT ![r] = v2]
      BY <1>7, <3>0, <3>10, <3>12 DEF Stop
    <3> QED BY <1>00, <3>13, <3>14
  <2>3. Pulls
    BY <1>0, <1>7 DEF Stop
  <2> QED BY <2>1, <2>2, <2>3
<1>8. CASE Finish(w)
  <2>1. Moves
    BY <1>0, <1>8, Going DEF Finish, Stages
  <2>2. Rows
    <3>0. PICK r \in Requests : r = worker[w].req
      BY <1>0, <1>8 DEF Finish
    <3>9. "preparing_review" \in Statuses /\ {TRUE, FALSE} \subseteq BOOLEAN /\ "none" \in Answers /\ 0 \in 0 .. MaxTurns
      BY <1>0 DEF Statuses, Holding, Answers
    <3>10. PICK v1 : v1 = [row[r] EXCEPT !.status = "preparing_review"]
      OBVIOUS
    <3>11. v1 \in Request
      BY <1>00, <3>9, <3>10, FieldWrites
    <3>12. PICK v2 : v2 = [v1 EXCEPT !.staged = TRUE]
      OBVIOUS
    <3>13. v2 \in Request
      BY <1>00, <3>9, <3>12, <3>11, FieldWrites
    <3>14. row' = [row EXCEPT ![r] = v2]
      BY <1>8, <3>0, <3>10, <3>12 DEF Finish
    <3> QED BY <1>00, <3>13, <3>14
  <2>3. Pulls
    BY <1>0, <1>8 DEF Finish
  <2> QED BY <2>1, <2>2, <2>3
<1>9. CASE Prepare(w)
  <2>1. Moves
    BY <1>0, <1>9, Going DEF Prepare, Pushes, Stages
  <2>2. Rows
    BY <1>0, <1>9 DEF Prepare, Pushes
  <2>3. Pulls
    <3>0. PICK r \in Requests : r = worker[w].req
      BY <1>0, <1>9 DEF Prepare
    <3>1. PICK checks \in Pushed : pr' = [pr EXCEPT ![r]["change"] = [state |-> "open", checks |-> checks]]
      BY <1>9, <3>0 DEF Prepare, Pushes
    <3>2. PICK p : p = [state |-> "open", checks |-> checks]
      OBVIOUS
    <3>3. p \in PullRequest
      BY <3>2 DEF Pushed, PullRequest
    <3>4. PICK b : b = [pr[r] EXCEPT !["change"] = p]
      OBVIOUS
    <3>5. pr[r] \in [change : PullRequest, reversal : PullRequest]
      BY <1>0
    <3>6. b \in [change : PullRequest, reversal : PullRequest]
      BY <3>3, <3>4, <3>5
    <3>7. pr' = [pr EXCEPT ![r] = b]
      BY <3>1, <3>2, <3>4
    <3> QED BY <1>0, <3>6, <3>7
  <2> QED BY <2>1, <2>2, <2>3
<1>10. CASE Repair(w)
  <2>1. Moves
    BY <1>0, <1>10, Going DEF Repair, Pushes, Stages
  <2>2. Rows
    BY <1>0, <1>10 DEF Repair, Pushes
  <2>3. Pulls
    <3>0. PICK r \in Requests : r = worker[w].req
      BY <1>0, <1>10 DEF Repair
    <3>1. PICK checks \in Pushed : pr' = [pr EXCEPT ![r]["change"] = [state |-> "open", checks |-> checks]]
      BY <1>10, <3>0 DEF Repair, Pushes
    <3>2. PICK p : p = [state |-> "open", checks |-> checks]
      OBVIOUS
    <3>3. p \in PullRequest
      BY <3>2 DEF Pushed, PullRequest
    <3>4. PICK b : b = [pr[r] EXCEPT !["change"] = p]
      OBVIOUS
    <3>5. pr[r] \in [change : PullRequest, reversal : PullRequest]
      BY <1>0
    <3>6. b \in [change : PullRequest, reversal : PullRequest]
      BY <3>3, <3>4, <3>5
    <3>7. pr' = [pr EXCEPT ![r] = b]
      BY <3>1, <3>2, <3>4
    <3> QED BY <1>0, <3>6, <3>7
  <2> QED BY <2>1, <2>2, <2>3
<1>11. CASE LinkPull(w)
  <2>1. Moves
    BY <1>0, <1>11, Ending DEF LinkPull
  <2>2. Rows
    <3>0. PICK r \in Requests : r = worker[w].req
      BY <1>0, <1>11 DEF LinkPull
    <3>9. "publishing" \in Statuses /\ {TRUE, FALSE} \subseteq BOOLEAN /\ "none" \in Answers /\ 0 \in 0 .. MaxTurns
      BY <1>0 DEF Statuses, Holding, Answers
    <3>10. PICK v1 : v1 = [row[r] EXCEPT !.status = "publishing"]
      OBVIOUS
    <3>11. v1 \in Request
      BY <1>00, <3>9, <3>10, FieldWrites
    <3>12. PICK v2 : v2 = [v1 EXCEPT !.pull = TRUE]
      OBVIOUS
    <3>13. v2 \in Request
      BY <1>00, <3>9, <3>12, <3>11, FieldWrites
    <3>14. PICK v3 : v3 = [v2 EXCEPT !.pdf = FALSE]
      OBVIOUS
    <3>15. v3 \in Request
      BY <1>00, <3>9, <3>14, <3>13, FieldWrites
    <3>16. row' = [row EXCEPT ![r] = v3]
      BY <1>11, <3>0, <3>10, <3>12, <3>14 DEF LinkPull
    <3> QED BY <1>00, <3>15, <3>16
  <2>3. Pulls
    BY <1>0, <1>11 DEF LinkPull
  <2> QED BY <2>1, <2>2, <2>3
<1>12. CASE AskRepair(w)
  <2>1. Moves
    BY <1>0, <1>12, Ending DEF AskRepair
  <2>2. Rows
    <3>0. PICK r \in Requests : r = worker[w].req
      BY <1>0, <1>12 DEF AskRepair
    <3>1. PICK t \in 0 .. MaxTurns : t = worker[w].turn + 1
      BY <1>0, <1>12 DEF AskRepair
    <3>2. row' = [row EXCEPT ![r].status = "waiting_openai", ![r].turn = t, ![r].response = @ + 1,
                              ![r].answer = "running"]
      BY <1>12, <3>0, <3>1 DEF AskRepair
    <3>3. TRUE \in BOOLEAN
      OBVIOUS
    <3>4. PICK i \in Nat : i = row[r].response + 1
      BY <1>00 DEF Request
    <3>9. "waiting_openai" \in Statuses /\ {TRUE, FALSE} \subseteq BOOLEAN /\ "running" \in Answers
      BY DEF Statuses, Holding, Answers
    <3>10. PICK v1 : v1 = [row[r] EXCEPT !.status = "waiting_openai"]
      OBVIOUS
    <3>5. row[r] \in Request
      BY <1>00
    <3>11. v1 \in Request /\ v1.response = row[r].response
      BY <3>1, <3>3, <3>4, <3>5, <3>9, <3>10, FieldWrites
    <3>12. PICK v2 : v2 = [v1 EXCEPT !.turn = t]
      OBVIOUS
    <3>13. v2 \in Request /\ v2.response = row[r].response
      BY <3>1, <3>3, <3>4, <3>9, <3>11, <3>12, FieldWrites
    <3>14. PICK v3 : v3 = [v2 EXCEPT !.response = i]
      OBVIOUS
    <3>15. v3 \in Request
      BY <3>1, <3>3, <3>4, <3>9, <3>13, <3>14, FieldWrites
    <3>16. PICK v4 : v4 = [v3 EXCEPT !.answer = "running"]
      OBVIOUS
    <3>17. v4 \in Request
      BY <3>1, <3>3, <3>4, <3>9, <3>15, <3>16, FieldWrites
    <3>18. row' = [row EXCEPT ![r] = v4]
      BY <3>2, <3>4, <3>10, <3>11, <3>12, <3>13, <3>14, <3>16
    <3> QED BY <1>00, <3>17, <3>18
  <2>3. Pulls
    BY <1>0, <1>12 DEF AskRepair
  <2> QED BY <2>1, <2>2, <2>3
<1>13. CASE Wait(w)
  <2>1. Moves
    BY <1>0, <1>13, Going, Ending DEF Wait, Stages
  <2>2. Rows
    <3>0. PICK r \in Requests : r = worker[w].req
      BY <1>0, <1>13 DEF Wait
    <3>1. row' = row \/ row' = [row EXCEPT ![r].status = "publishing"]
      BY <1>13, <3>0 DEF Wait
    <3> QED BY <1>00, <3>1 DEF Request, Statuses, Holding
  <2>3. Pulls
    BY <1>0, <1>13 DEF Wait
  <2> QED BY <2>1, <2>2, <2>3
<1>14. CASE Merge(w)
  <2>1. Moves
    BY <1>0, <1>14, Going DEF Merge, Stages
  <2>2. Rows
    BY <1>0, <1>14 DEF Merge
  <2>3. Pulls
    <3>0. PICK r \in Requests : r = worker[w].req
      BY <1>0, <1>14 DEF Merge
    <3>1. pr' = [pr EXCEPT ![r].change.state = "merged"]
      BY <1>14, <3>0 DEF Merge
    <3>2. PICK p : p = [pr[r].change EXCEPT !.state = "merged"]
      OBVIOUS
    <3>3. p \in PullRequest
      BY <1>0, <3>2 DEF PullRequest
    <3>4. PICK b : b = [pr[r] EXCEPT !.change = p]
      OBVIOUS
    <3>5. pr[r] \in [change : PullRequest, reversal : PullRequest]
      BY <1>0
    <3>6. b \in [change : PullRequest, reversal : PullRequest]
      BY <3>3, <3>4, <3>5
    <3>7. pr' = [pr EXCEPT ![r] = b]
      BY <3>1, <3>2, <3>4
    <3> QED BY <1>0, <3>6, <3>7
  <2> QED BY <2>1, <2>2, <2>3
<1>15. CASE GoLive(w)
  <2>1. Moves
    BY <1>0, <1>15, Ending DEF GoLive
  <2>2. Rows
    <3>0. PICK r \in Requests : r = worker[w].req
      BY <1>0, <1>15 DEF GoLive
    <3>9. "live" \in Statuses /\ {TRUE, FALSE} \subseteq BOOLEAN /\ "none" \in Answers /\ 0 \in 0 .. MaxTurns
      BY <1>0 DEF Statuses, Holding, Answers
    <3>10. PICK v1 : v1 = [row[r] EXCEPT !.status = "live"]
      OBVIOUS
    <3>11. v1 \in Request
      BY <1>00, <3>9, <3>10, FieldWrites
    <3>12. PICK v2 : v2 = [v1 EXCEPT !.sha = TRUE]
      OBVIOUS
    <3>13. v2 \in Request
      BY <1>00, <3>9, <3>12, <3>11, FieldWrites
    <3>14. row' = [row EXCEPT ![r] = v2]
      BY <1>15, <3>0, <3>10, <3>12 DEF GoLive
    <3> QED BY <1>00, <3>13, <3>14
  <2>3. Pulls
    BY <1>0, <1>15 DEF GoLive
  <2> QED BY <2>1, <2>2, <2>3
<1>16. CASE Throws(w)
  <2>1. Moves
    BY <1>0, <1>16, Going DEF Throws, Stages
  <2>2. Rows
    BY <1>0, <1>16 DEF Throws
  <2>3. Pulls
    BY <1>0, <1>16 DEF Throws
  <2> QED BY <2>1, <2>2, <2>3
<1>17. CASE Fail(w)
  <2>1. Moves
    BY <1>0, <1>17, Going DEF Fail, Stages
  <2>2. Rows
    <3>0. PICK r \in Requests : r = worker[w].req
      BY <1>0, <1>17 DEF Fail
    <3>9. "failed" \in Statuses /\ {TRUE, FALSE} \subseteq BOOLEAN /\ "none" \in Answers /\ 0 \in 0 .. MaxTurns
      BY <1>0 DEF Statuses, Holding, Answers
    <3>10. PICK v1 : v1 = [row[r] EXCEPT !.status = "failed"]
      OBVIOUS
    <3>11. v1 \in Request
      BY <1>00, <3>9, <3>10, FieldWrites
    <3>12. PICK v2 : v2 = [v1 EXCEPT !.pdf = FALSE]
      OBVIOUS
    <3>13. v2 \in Request
      BY <1>00, <3>9, <3>12, <3>11, FieldWrites
    <3>14. row' = [row EXCEPT ![r] = v2]
      BY <1>17, <3>0, <3>10, <3>12 DEF Fail
    <3> QED BY <1>00, <3>13, <3>14
  <2>3. Pulls
    BY <1>0, <1>17 DEF Fail
  <2> QED BY <2>1, <2>2, <2>3
<1>18. CASE Close(w)
  <2>1. Moves
    BY <1>0, <1>18, Ending DEF Close
  <2>2. Rows
    BY <1>0, <1>18 DEF Close
  <2>3. Pulls
    <3>0. PICK r \in Requests : r = worker[w].req
      BY <1>0, <1>18 DEF Close
    <3>1. pr' = [pr EXCEPT ![r].change.state = "closed"] \/ pr' = pr
      BY <1>18, <3>0 DEF Close
    <3>2. PICK p : p = [pr[r].change EXCEPT !.state = "closed"]
      OBVIOUS
    <3>3. p \in PullRequest
      BY <1>0, <3>2 DEF PullRequest
    <3>4. PICK b : b = [pr[r] EXCEPT !.change = p]
      OBVIOUS
    <3>5. pr[r] \in [change : PullRequest, reversal : PullRequest]
      BY <1>0
    <3>6. b \in [change : PullRequest, reversal : PullRequest]
      BY <3>3, <3>4, <3>5
    <3>7. pr' = [pr EXCEPT ![r] = b] \/ pr' = pr
      BY <3>1, <3>2, <3>4
    <3> QED BY <1>0, <3>6, <3>7
  <2> QED BY <2>1, <2>2, <2>3
<1>19. CASE PrepareRevert(w)
  <2>1. Moves
    BY <1>0, <1>19, Going DEF PrepareRevert, Pushes, Stages
  <2>2. Rows
    BY <1>0, <1>19 DEF PrepareRevert, Pushes
  <2>3. Pulls
    <3>0. PICK r \in Requests : r = worker[w].req
      BY <1>0, <1>19 DEF PrepareRevert
    <3>1. PICK checks \in Pushed : pr' = [pr EXCEPT ![r]["reversal"] = [state |-> "open", checks |-> checks]]
      BY <1>19, <3>0 DEF PrepareRevert, Pushes
    <3>2. PICK p : p = [state |-> "open", checks |-> checks]
      OBVIOUS
    <3>3. p \in PullRequest
      BY <3>2 DEF Pushed, PullRequest
    <3>4. PICK b : b = [pr[r] EXCEPT !["reversal"] = p]
      OBVIOUS
    <3>5. pr[r] \in [change : PullRequest, reversal : PullRequest]
      BY <1>0
    <3>6. b \in [change : PullRequest, reversal : PullRequest]
      BY <3>3, <3>4, <3>5
    <3>7. pr' = [pr EXCEPT ![r] = b]
      BY <3>1, <3>2, <3>4
    <3> QED BY <1>0, <3>6, <3>7
  <2> QED BY <2>1, <2>2, <2>3
<1>20. CASE LinkRevert(w)
  <2>1. Moves
    BY <1>0, <1>20, Ending DEF LinkRevert
  <2>2. Rows
    <3>0. PICK r \in Requests : r = worker[w].req
      BY <1>0, <1>20 DEF LinkRevert
    <3>9. "reversing" \in Statuses /\ {TRUE, FALSE} \subseteq BOOLEAN /\ "none" \in Answers /\ 0 \in 0 .. MaxTurns
      BY <1>0 DEF Statuses, Holding, Answers
    <3>10. PICK v1 : v1 = [row[r] EXCEPT !.status = "reversing"]
      OBVIOUS
    <3>11. v1 \in Request
      BY <1>00, <3>9, <3>10, FieldWrites
    <3>12. PICK v2 : v2 = [v1 EXCEPT !.undo = TRUE]
      OBVIOUS
    <3>13. v2 \in Request
      BY <1>00, <3>9, <3>12, <3>11, FieldWrites
    <3>14. row' = [row EXCEPT ![r] = v2]
      BY <1>20, <3>0, <3>10, <3>12 DEF LinkRevert
    <3> QED BY <1>00, <3>13, <3>14
  <2>3. Pulls
    BY <1>0, <1>20 DEF LinkRevert
  <2> QED BY <2>1, <2>2, <2>3
<1>21. CASE WaitRevert(w)
  <2>1. Moves
    BY <1>0, <1>21, Ending DEF WaitRevert
  <2>2. Rows
    <3>0. PICK r \in Requests : r = worker[w].req
      BY <1>0, <1>21 DEF WaitRevert
    <3>1. row' = [row EXCEPT ![r].status = "reversing"]
      BY <1>21, <3>0 DEF WaitRevert
    <3> QED BY <1>00, <3>1 DEF Request, Statuses, Holding
  <2>3. Pulls
    BY <1>0, <1>21 DEF WaitRevert
  <2> QED BY <2>1, <2>2, <2>3
<1>22. CASE MergeRevert(w)
  <2>1. Moves
    BY <1>0, <1>22, Going DEF MergeRevert, Stages
  <2>2. Rows
    BY <1>0, <1>22 DEF MergeRevert
  <2>3. Pulls
    <3>0. PICK r \in Requests : r = worker[w].req
      BY <1>0, <1>22 DEF MergeRevert
    <3>1. pr' = [pr EXCEPT ![r].reversal.state = "merged"]
      BY <1>22, <3>0 DEF MergeRevert
    <3>2. PICK p : p = [pr[r].reversal EXCEPT !.state = "merged"]
      OBVIOUS
    <3>3. p \in PullRequest
      BY <1>0, <3>2 DEF PullRequest
    <3>4. PICK b : b = [pr[r] EXCEPT !.reversal = p]
      OBVIOUS
    <3>5. pr[r] \in [change : PullRequest, reversal : PullRequest]
      BY <1>0
    <3>6. b \in [change : PullRequest, reversal : PullRequest]
      BY <3>3, <3>4, <3>5
    <3>7. pr' = [pr EXCEPT ![r] = b]
      BY <3>1, <3>2, <3>4
    <3> QED BY <1>0, <3>6, <3>7
  <2> QED BY <2>1, <2>2, <2>3
<1>23. CASE Reversed(w)
  <2>1. Moves
    BY <1>0, <1>23, Ending DEF Reversed
  <2>2. Rows
    <3>0. PICK r \in Requests : r = worker[w].req
      BY <1>0, <1>23 DEF Reversed
    <3>1. row' = [row EXCEPT ![r].status = "reversed"]
      BY <1>23, <3>0 DEF Reversed
    <3> QED BY <1>00, <3>1 DEF Request, Statuses, Holding
  <2>3. Pulls
    BY <1>0, <1>23 DEF Reversed
  <2> QED BY <2>1, <2>2, <2>3
<1>24. CASE RevertFails(w)
  <2>1. Moves
    BY <1>0, <1>24, Ending DEF RevertFails
  <2>2. Rows
    <3>0. PICK r \in Requests : r = worker[w].req
      BY <1>0, <1>24 DEF RevertFails
    <3>1. row' = [row EXCEPT ![r].status = "live"]
      BY <1>24, <3>0 DEF RevertFails
    <3> QED BY <1>00, <3>1 DEF Request, Statuses, Holding
  <2>3. Pulls
    BY <1>0, <1>24 DEF RevertFails
  <2> QED BY <2>1, <2>2, <2>3
<1>25. CASE Die(w)
  <2>1. Moves
    BY <1>0, <1>25, Ending DEF Die
  <2>2. Rows
    BY <1>0, <1>25 DEF Die
  <2>3. Pulls
    BY <1>0, <1>25 DEF Die
  <2> QED BY <2>1, <2>2, <2>3
<1>26. ASSUME NEW r \in Requests, Reverse(w, r) PROVE Moves /\ Rows /\ Pulls
  <2>1. Moves
    BY <1>0, <1>26, Taking DEF Reverse, Stages
  <2>2. Rows
    <3>1. row' = [row EXCEPT ![r].status = "reversing"]
      BY <1>26 DEF Reverse
    <3> QED BY <1>00, <3>1 DEF Request, Statuses, Holding
  <2>3. Pulls
    BY <1>0, <1>26 DEF Reverse
  <2> QED BY <2>1, <2>2, <2>3
<1> QED BY <1>1, <1>2, <1>3, <1>4, <1>5, <1>6, <1>7, <1>8, <1>9, <1>10, <1>11, <1>12, <1>13, <1>14, <1>15, <1>16, <1>17, <1>18, <1>19, <1>20, <1>21, <1>22, <1>23, <1>24, <1>25, <1>26 DEF Step

\* The same of every step.
LEMMA TypesKept == TInv /\ [BuilderNext]_builderVars => TInv'
<1> SUFFICES ASSUME TInv, [BuilderNext]_builderVars PROVE TInv'
  OBVIOUS
<1> USE DEF TInv, BuilderTypeOK, Placed
<1>1. ASSUME NEW w \in Workers, Step(w) \/ Die(w) \/ (\E r \in Requests : Reverse(w, r)) PROVE TInv'
  BY <1>1, StepTypes
<1>2. ASSUME NEW r \in Requests, Submit(r) PROVE TInv'
  <2>1. PICK v : v = [row[r] EXCEPT !.status = "queued"]
    OBVIOUS
  <2>2. PICK u : u = [v EXCEPT !.pdf = TRUE]
    OBVIOUS
  <2>3. "queued" \in Statuses /\ TRUE \in BOOLEAN /\ "none" \in Answers /\ 0 \in 0 .. MaxTurns
    BY AppBuilderAssumption DEF Statuses, Answers
  <2>4. v \in Request
    BY <2>1, <2>3, FieldWrites
  <2>5. u \in Request
    BY <2>2, <2>3, <2>4, FieldWrites
  <2>6. row' = [row EXCEPT ![r] = u] /\ UNCHANGED <<pr, worker>>
    BY <1>2, <2>1, <2>2 DEF Submit
  <2> QED BY <2>5, <2>6
<1>3. ASSUME NEW r \in Requests, Answer(r) PROVE TInv'
  <2>1. PICK a \in Answers : row' = [row EXCEPT ![r].answer = a]
    BY <1>3 DEF Answer
  <2>2. row' \in [Requests -> Request]
    BY <2>1 DEF Request
  <2> QED BY <1>3, <2>2 DEF Answer
<1>4. ASSUME NEW r \in Requests, RecoverStalled(r) PROVE TInv'
  <2>1. PICK status \in Statuses : row' = [row EXCEPT ![r].status = status]
    BY <1>4 DEF RecoverStalled, Statuses, Holding
  <2>2. row' \in [Requests -> Request]
    BY <2>1 DEF Request
  <2> QED BY <1>4, <2>2 DEF RecoverStalled
<1>5. ASSUME NEW r \in Requests, NEW kind \in {"change", "reversal"}, Checked(r, kind) PROVE TInv'
  <2>1. pr' \in [Requests -> [change : PullRequest, reversal : PullRequest]]
    <3>1. PICK c \in {"pending", "failing", "green"} : pr' = [pr EXCEPT ![r][kind].checks = c]
      BY <1>5 DEF Checked
    <3>2. PICK p \in PullRequest : p = pr[r][kind]
      OBVIOUS
    <3>3. PICK q : q = [p EXCEPT !.checks = c]
      OBVIOUS
    <3>4. q \in PullRequest
      BY <3>3 DEF PullRequest
    <3>5. PICK both \in [change : PullRequest, reversal : PullRequest] : both = pr[r]
      OBVIOUS
    <3>6. pr' = [pr EXCEPT ![r] = [both EXCEPT ![kind] = q]]
      BY <3>1, <3>2, <3>3, <3>5
    <3>7. [both EXCEPT ![kind] = q] \in [change : PullRequest, reversal : PullRequest]
      BY <3>4
    <3> QED BY <3>6, <3>7
  <2> QED BY <1>5, <2>1 DEF Checked
<1>6. CASE UNCHANGED builderVars
  BY <1>6 DEF builderVars
<1> QED BY <1>1, <1>2, <1>3, <1>4, <1>5, <1>6, BuilderActors

\* What a step of w does to the request r it is at, or starts on: a claim runs the
\* answer the row waits for, a question puts another response into the row, and
\* nothing else makes a row wait, or an invocation run.
Effect(w, r) ==
  /\ \A q \in Requests \ {r} : row'[q] = row[q]
  /\ worker[w].at # "idle" => worker[w].req = r
  /\ worker'[w].at # "idle" => worker'[w].req = r
  /\ \/ /\ worker'[w].at = "tools" /\ worker'[w].response = row[r].response
        /\ row[r].status = "waiting_openai" /\ row'[r].status = "making_changes"
        /\ row'[r].response = row[r].response
     \/ row'[r].response = row[r].response + 1 /\ worker'[w].at = "idle"
     \/ /\ row'[r].response = row[r].response
        /\ row'[r].status = row[r].status \/ row'[r].status \notin {"waiting_openai", "making_changes"}
        /\ \/ ~Runs(w)'
           \/ /\ Runs(w) /\ worker'[w].response = worker[w].response /\ worker'[w].at # "tools"
              /\ worker[w].at = "tools" => row'[r].status = "preparing_review"

LEMMA RunMoves ==
  ASSUME TInv, NEW w \in Workers, Step(w) \/ Die(w) \/ (\E r \in Requests : Reverse(w, r))
  PROVE  \/ \E r \in Requests : Effect(w, r)
         \/ UNCHANGED row /\ worker'[w].at = "idle"
<1>0. /\ DOMAIN row = Requests /\ DOMAIN worker = Workers
      /\ \A r \in Requests : {"status", "response", "answer", "turn", "staged", "pull", "sha", "undo", "pdf"} \subseteq DOMAIN row[r]
      /\ {"at", "req", "seen", "turn", "response"} \subseteq DOMAIN worker[w]
      /\ worker[w].at # "idle" => worker[w].req \in Requests
      /\ "idle" \in Stages /\ worker[w].at \in Stages
  BY DEF TInv, BuilderTypeOK, Placed, Request, Worker, Stages
<1>00. PICK z : z = worker[w].req
  OBVIOUS
<1> USE DEF At, Decides, Starts, Runs
<1>1. ASSUME Kick(w) PROVE \E r \in Requests : Effect(w, r)
  <2>1. PICK r \in Requests : /\ row[r].status = "queued" /\ worker[w].at = "idle"
                             /\ row' = [row EXCEPT ![r].status = "reading"] /\ Takes(w, r, "brief")
    BY <1>1, QueueHead DEF Kick
  <2>2. Effect(w, r)
    BY <1>0, <2>1, Taking DEF Effect, Stages
  <2> QED BY <2>2
<1>2. ASSUME Ask(w) PROVE z \in Requests /\ Effect(w, z)
  BY <1>0, <1>00, <1>2, Ending DEF Effect, Ask, Stages
<1>3. ASSUME NEW r \in Requests, ClaimResponse(w, r) PROVE Effect(w, r)
  BY <1>0, <1>3 DEF Effect, ClaimResponse
<1>4. ASSUME NEW r \in Requests, ReadChecks(w, r) PROVE Effect(w, r)
  BY <1>0, <1>4 DEF Effect, ReadChecks
<1>5. ASSUME NEW r \in Requests, ReadRevert(w, r) PROVE Effect(w, r)
  BY <1>0, <1>5 DEF Effect, ReadRevert, Idle
<1>6. ASSUME NextRound(w) PROVE z \in Requests /\ Effect(w, z)
  <2>1. PICK n, staged :
          row' = [row EXCEPT ![z].status = "waiting_openai", ![z].turn = n, ![z].response = @ + 1,
                             ![z].answer = "running", ![z].staged = staged]
    <3>1. PICK n : n = worker[w].turn + 1
      OBVIOUS
    <3>2. \E staged \in {row[z].staged, TRUE} :
            row' = [row EXCEPT ![z].status = "waiting_openai", ![z].turn = n, ![z].response = @ + 1,
                               ![z].answer = "running", ![z].staged = staged]
      BY <1>00, <1>6, <3>1, Zenon DEF NextRound
    <3> QED BY <3>2
  <2>2. worker[w].at = "tools" /\ worker'[w].at = "idle" /\ z \in Requests
    BY <1>0, <1>00, <1>6, Ending DEF NextRound
  <2>3. row'[z].response = row[z].response + 1 /\ \A q \in Requests \ {z} : row'[q] = row[q]
    <3>1. PICK i : i = row[z].response + 1
      OBVIOUS
    <3>2. PICK v : v = [row[z] EXCEPT !.status = "waiting_openai", !.turn = n]
      OBVIOUS
    <3>3. v.response = row[z].response /\ "response" \in DOMAIN v
      BY <1>0, <2>2, <3>2
    <3>4. PICK u : u = [v EXCEPT !.response = i]
      OBVIOUS
    <3>5. u.response = i
      BY <3>3, <3>4
    <3>6. PICK x : x = [u EXCEPT !.answer = "running", !.staged = staged]
      OBVIOUS
    <3>7. x.response = i
      BY <3>5, <3>6
    <3>8. row' = [row EXCEPT ![z] = x]
      BY <2>1, <3>1, <3>2, <3>3, <3>4, <3>6
    <3> QED BY <1>0, <2>2, <3>1, <3>7, <3>8
  <2> QED BY <1>00, <2>2, <2>3 DEF Effect
<1>7. ASSUME Stop(w) PROVE z \in Requests /\ Effect(w, z)
  BY <1>0, <1>00, <1>7, Ending DEF Effect, Stop, Stages
<1>8. ASSUME Finish(w) PROVE z \in Requests /\ Effect(w, z)
  BY <1>0, <1>00, <1>8, Going DEF Effect, Finish, Stages
<1>9. ASSUME Prepare(w) PROVE z \in Requests /\ Effect(w, z)
  BY <1>0, <1>00, <1>9, Going DEF Effect, Prepare, Pushes, Stages
<1>10. ASSUME Repair(w) PROVE z \in Requests /\ Effect(w, z)
  BY <1>0, <1>00, <1>10, Going DEF Effect, Repair, Pushes, Stages
<1>11. ASSUME LinkPull(w) PROVE z \in Requests /\ Effect(w, z)
  BY <1>0, <1>00, <1>11, Ending DEF Effect, LinkPull, Stages
<1>12. ASSUME AskRepair(w) PROVE z \in Requests /\ Effect(w, z)
  BY <1>0, <1>00, <1>12, Ending DEF Effect, AskRepair, Stages
<1>13. ASSUME Wait(w) PROVE z \in Requests /\ Effect(w, z)
  BY <1>0, <1>00, <1>13, Going, Ending DEF Effect, Wait, Stages
<1>14. ASSUME Merge(w) PROVE z \in Requests /\ Effect(w, z)
  BY <1>0, <1>00, <1>14, Going DEF Effect, Merge, Stages
<1>15. ASSUME GoLive(w) PROVE z \in Requests /\ Effect(w, z)
  BY <1>0, <1>00, <1>15, Ending DEF Effect, GoLive, Stages
<1>16. ASSUME Throws(w) PROVE z \in Requests /\ Effect(w, z)
  BY <1>0, <1>00, <1>16, Going DEF Effect, Throws, Stages
<1>17. ASSUME Fail(w) PROVE z \in Requests /\ Effect(w, z)
  BY <1>0, <1>00, <1>17, Going DEF Effect, Fail, Stages
<1>18. ASSUME Close(w) PROVE z \in Requests /\ Effect(w, z)
  BY <1>0, <1>00, <1>18, Ending DEF Effect, Close, Stages
<1>19. ASSUME PrepareRevert(w) PROVE z \in Requests /\ Effect(w, z)
  BY <1>0, <1>00, <1>19, Going DEF Effect, PrepareRevert, Pushes, Stages
<1>20. ASSUME LinkRevert(w) PROVE z \in Requests /\ Effect(w, z)
  BY <1>0, <1>00, <1>20, Ending DEF Effect, LinkRevert, Stages
<1>21. ASSUME WaitRevert(w) PROVE z \in Requests /\ Effect(w, z)
  BY <1>0, <1>00, <1>21, Ending DEF Effect, WaitRevert, Stages
<1>22. ASSUME MergeRevert(w) PROVE z \in Requests /\ Effect(w, z)
  BY <1>0, <1>00, <1>22, Going DEF Effect, MergeRevert, Stages
<1>23. ASSUME Reversed(w) PROVE z \in Requests /\ Effect(w, z)
  BY <1>0, <1>00, <1>23, Ending DEF Effect, Reversed, Stages
<1>24. ASSUME RevertFails(w) PROVE z \in Requests /\ Effect(w, z)
  BY <1>0, <1>00, <1>24, Ending DEF Effect, RevertFails, Stages
<1>25. ASSUME Die(w) PROVE UNCHANGED row /\ worker'[w].at = "idle"
  BY <1>25, Ending DEF Die
<1>26. ASSUME NEW r \in Requests, Reverse(w, r) PROVE Effect(w, r)
  <2>1. CASE row[r].undo
    BY <1>0, <1>26, <2>1 DEF Effect, Reverse
  <2>2. CASE ~row[r].undo
    BY <1>0, <1>26, <2>2, Taking DEF Effect, Reverse, Stages
  <2> QED BY <2>1, <2>2
<1> QED BY <1>1, <1>2, <1>3, <1>4, <1>5, <1>6, <1>7, <1>8, <1>9, <1>10, <1>11, <1>12, <1>13, <1>14, <1>15, <1>16, <1>17, <1>18, <1>19, <1>20, <1>21, <1>22, <1>23, <1>24, <1>25, <1>26 DEF Step

\* An answer is claimed by comparing the response and the status in one UPDATE.
LEMMA RunsKept == RunsInv /\ [BuilderNext]_builderVars => RunsInv'
<1> SUFFICES ASSUME RunsInv, [BuilderNext]_builderVars PROVE RunsBehind' /\ ResponsesRunOnce'
  BY TypesKept DEF RunsInv
<1> DEFINE Goal == RunsBehind' /\ ResponsesRunOnce'
<1>0. /\ TInv /\ RunsBehind /\ ResponsesRunOnce
      /\ \A w \in Workers : Runs(w) => worker[w].req \in Requests /\ worker[w].response \in Nat
      /\ \A r \in Requests : row[r].response \in Nat
  BY DEF RunsInv, TInv, Placed, BuilderTypeOK, Request, Worker, Runs
<1>1. ASSUME NEW w \in Workers, Step(w) \/ Die(w) \/ (\E r \in Requests : Reverse(w, r)) PROVE Goal
  <2>1. \A v \in Workers \ {w} : worker'[v] = worker[v] /\ Runs(v)' = Runs(v)
    BY <1>0, <1>1, StepTypes DEF Runs
  <2>2. CASE UNCHANGED row /\ worker'[w].at = "idle"
    <3>1. \A v \in Workers : Runs(v)' => v # w
      BY <2>2 DEF Runs
    <3>2. RunsBehind'
      BY <1>0, <2>1, <2>2, <3>1 DEF RunsBehind
    <3>3. ResponsesRunOnce'
      BY <1>0, <2>1, <3>1 DEF ResponsesRunOnce
    <3> QED BY <3>2, <3>3
  <2>3. ASSUME NEW r \in Requests, Effect(w, r) PROVE Goal
    <3>0. /\ \A q \in Requests \ {r} : row'[q] = row[q]
          /\ row'[r].response \in {row[r].response, row[r].response + 1}
          /\ worker'[w].at # "idle" => worker'[w].req = r
      BY <2>3 DEF Effect
    <3>1. ASSUME NEW v \in Workers, v # w, Runs(v)'
          PROVE  LET q == worker'[v].req IN
                 /\ worker'[v].response <= row'[q].response
                 /\ worker'[v].response = row'[q].response =>
                      row'[q].status # "waiting_openai" /\ (worker'[v].at # "tools" => row'[q].status # "making_changes")
      <4>1. Runs(v) /\ worker'[v] = worker[v] /\ worker[v].req \in Requests
        BY <1>0, <2>1, <3>1
      <4>2. CASE worker[v].req # r
        BY <1>0, <3>0, <4>1, <4>2 DEF RunsBehind
      <4>3. CASE worker[v].req = r
        BY <1>0, <2>3, <4>1, <4>3 DEF RunsBehind, Effect
      <4> QED BY <4>2, <4>3
    <3>2. ASSUME Runs(w)'
          PROVE  /\ worker'[w].response <= row'[r].response
                 /\ worker'[w].response = row'[r].response =>
                      row'[r].status # "waiting_openai" /\ (worker'[w].at # "tools" => row'[r].status # "making_changes")
      BY <1>0, <2>3, <3>2 DEF RunsBehind, Effect, Runs
    <3>3. RunsBehind'
      <4>1. Runs(w)' => worker'[w].req = r
        BY <3>0 DEF Runs
      <4> QED BY <3>1, <3>2, <4>1 DEF RunsBehind
    <3>4. ASSUME NEW v \in Workers, v # w, Runs(v)', Runs(w)', worker'[v].req = worker'[w].req,
                 worker'[v].response = worker'[w].response
          PROVE  FALSE
      <4>1. Runs(v) /\ worker'[v] = worker[v] /\ worker[v].req = r /\ worker'[w].req = r
        BY <2>1, <3>0, <3>4 DEF Runs
      <4>2. CASE row[r].status = "waiting_openai" /\ worker'[w].response = row[r].response
        BY <1>0, <3>4, <4>1, <4>2 DEF RunsBehind
      <4>3. CASE Runs(w) /\ worker'[w].response = worker[w].response
        BY <1>0, <2>3, <3>4, <4>1, <4>3 DEF ResponsesRunOnce, Effect, Runs
      <4> QED BY <2>3, <3>4, <4>2, <4>3 DEF Effect, Runs
    <3>5. ResponsesRunOnce'
      <4> SUFFICES ASSUME NEW u \in Workers, NEW v \in Workers, Runs(u)', Runs(v)',
                          worker'[u].req = worker'[v].req, worker'[u].response = worker'[v].response, u # v
                   PROVE  FALSE
        BY DEF ResponsesRunOnce
      <4>1. CASE u = w \/ v = w
        BY <3>4, <4>1
      <4>2. CASE u # w /\ v # w
        BY <1>0, <2>1, <4>2 DEF ResponsesRunOnce
      <4> QED BY <4>1, <4>2
    <3> QED BY <3>3, <3>5
  <2> QED BY <1>0, <1>1, <2>2, <2>3, RunMoves
<1>2. ASSUME UNCHANGED worker,
             \A r \in Requests : /\ row'[r].response = row[r].response
                                 /\ \/ row'[r].status = row[r].status
                                    \/ row'[r].status \notin {"waiting_openai", "making_changes"}
                                    \/ row[r].status = "making_changes" /\ ~Held(r, {"tools"})
      PROVE  Goal
  <2>1. ResponsesRunOnce'
    BY <1>0, <1>2 DEF ResponsesRunOnce, Runs
  <2>2. RunsBehind'
    <3> SUFFICES ASSUME NEW w \in Workers, Runs(w), NEW r \in Requests, r = worker[w].req
                 PROVE  /\ worker[w].response <= row'[r].response
                        /\ worker[w].response = row'[r].response =>
                             row'[r].status # "waiting_openai" /\ (worker[w].at # "tools" => row'[r].status # "making_changes")
      BY <1>0, <1>2 DEF RunsBehind, Runs
    <3>1. row[r].status = "making_changes" /\ ~Held(r, {"tools"}) => worker[w].response # row[r].response
      BY <1>0 DEF RunsBehind, Held, Runs
    <3> QED BY <1>0, <1>2, <3>1 DEF RunsBehind
  <2> QED BY <2>1, <2>2
<1>3. /\ DOMAIN row = Requests
      /\ \A r \in Requests : {"status", "response", "answer", "pdf"} \subseteq DOMAIN row[r]
  BY <1>0 DEF TInv, BuilderTypeOK, Request
<1>4. ASSUME NEW r \in Requests, Submit(r) PROVE Goal
  <2>1. UNCHANGED worker /\ \A q \in Requests : /\ row'[q].response = row[q].response
                                                /\ row'[q].status \in {row[q].status, "queued"}
    BY <1>3, <1>4 DEF Submit
  <2> QED BY <1>2, <2>1
<1>5. ASSUME NEW r \in Requests, Answer(r) PROVE Goal
  <2>1. UNCHANGED worker /\ \A q \in Requests : /\ row'[q].response = row[q].response
                                                /\ row'[q].status = row[q].status
    BY <1>3, <1>5 DEF Answer
  <2> QED BY <1>2, <2>1
<1>6. ASSUME NEW r \in Requests, RecoverStalled(r) PROVE Goal
  <2>1. /\ UNCHANGED worker /\ \A q \in Requests \ {r} : row'[q] = row[q]
        /\ row'[r].response = row[r].response
        /\ \/ row'[r].status = "queued"
           \/ row[r].status = "making_changes" /\ ~Held(r, {"tools", "fail"})
    BY <1>3, <1>6 DEF RecoverStalled
  <2>2. ~Held(r, {"tools", "fail"}) => ~Held(r, {"tools"})
    BY DEF Held
  <2> QED BY <1>2, <2>1, <2>2
<1>7. ASSUME NEW r \in Requests, NEW kind \in {"change", "reversal"}, Checked(r, kind) PROVE Goal
  BY <1>2, <1>7 DEF Checked
<1>8. ASSUME UNCHANGED builderVars PROVE Goal
  BY <1>2, <1>8 DEF builderVars
<1> QED BY <1>1, <1>4, <1>5, <1>6, <1>7, <1>8, BuilderActors

LEMMA BuilderStart == BuilderInit => RunsInv /\ MergedInv
<1> SUFFICES ASSUME BuilderInit PROVE RunsInv /\ MergedInv
  OBVIOUS
<1>1. TInv
  <2>1. row \in [Requests -> Request]
    BY AppBuilderAssumption DEF BuilderInit, Request, Statuses, Holding, Answers
  <2>2. worker \in [Workers -> Worker] /\ Placed
    BY AppBuilderAssumption DEF BuilderInit, Worker, Idle, Stages, Answers, Placed
  <2>3. pr \in [Requests -> [change : PullRequest, reversal : PullRequest]]
    BY DEF BuilderInit, PullRequest
  <2> QED BY <2>1, <2>2, <2>3 DEF TInv, BuilderTypeOK
<1>2. /\ \A w \in Workers : worker[w].at = "idle"
      /\ \A r \in Requests : row[r].status = "absent" /\ ~row[r].sha
  BY DEF BuilderInit, Idle
<1> QED BY <1>1, <1>2 DEF RunsInv, MergedInv, RunsBehind, ResponsesRunOnce, Runs, LiveIsMerged, SeenIsSo

\* A merge is for good.
PullsStay ==
  \A r \in Requests :
    /\ pr[r].change.state = "merged" => pr'[r].change.state = "merged"
    /\ pr[r].reversal.state = "merged" => pr'[r].reversal.state = "merged"

LEMMA StepPulls ==
  ASSUME TInv, NEW w \in Workers, Step(w) \/ Die(w) \/ (\E r \in Requests : Reverse(w, r))
  PROVE  PullsStay
<1>0. /\ DOMAIN pr = Requests
      /\ \A r \in Requests : /\ {"change", "reversal"} \subseteq DOMAIN pr[r]
                             /\ {"state", "checks"} \subseteq DOMAIN pr[r].change
                             /\ {"state", "checks"} \subseteq DOMAIN pr[r].reversal
      /\ worker[w].at # "idle" => worker[w].req \in Requests
  BY DEF TInv, BuilderTypeOK, PullRequest, Placed
<1> USE DEF At, Decides, Pushes, PullsStay
<1>1. CASE UNCHANGED pr
  BY <1>0, <1>1
<1>2. CASE Prepare(w) \/ Repair(w)
  <2>0. PICK z : z = worker[w].req
    OBVIOUS
  <2>1. z \in Requests /\ worker[w].at = "prepare" /\ pr[z].change.state \in {"none", "open"}
    BY <1>0, <1>2, <2>0 DEF Prepare, Repair
  <2>2. /\ \A r \in Requests \ {z} : pr'[r] = pr[r]
        /\ pr'[z].reversal = pr[z].reversal
    <3>1. PICK checks \in Pushed : pr' = [pr EXCEPT ![z]["change"] = [state |-> "open", checks |-> checks]]
      BY <1>2, <2>0 DEF Prepare, Repair
    <3>2. pr'[z]["change"] = [state |-> "open", checks |-> checks] /\ pr'[z]["reversal"] = pr[z]["reversal"]
      BY <1>0, <2>1, <3>1
    <3> QED BY <1>0, <2>1, <3>1, <3>2
  <2> QED BY <2>0, <2>1, <2>2
<1>3. CASE Merge(w)
  <2>0. PICK z : z = worker[w].req
    OBVIOUS
  <2>1. /\ \A r \in Requests \ {z} : pr'[r] = pr[r]
        /\ \A r \in Requests : pr'[r].change.checks = pr[r].change.checks /\ pr'[r].reversal = pr[r].reversal
    BY <1>0, <1>3, <2>0 DEF Merge
  <2>2. z \in Requests => pr'[z].change.state = "merged" /\ pr[z].change.state \in {"open", "merged"}
    BY <1>0, <1>3, <2>0 DEF Merge
  <2> QED BY <1>3, <2>0, <2>1, <2>2 DEF Merge
<1>4. CASE Close(w)
  <2>0. PICK z : z = worker[w].req
    OBVIOUS
  <2>1. /\ \A r \in Requests \ {z} : pr'[r] = pr[r]
        /\ \A r \in Requests : pr'[r].change.checks = pr[r].change.checks /\ pr'[r].reversal = pr[r].reversal
    BY <1>0, <1>4, <2>0 DEF Close
  <2>2. z \in Requests => (pr'[z].change.state = pr[z].change.state
                           \/ (pr[z].change.state = "open" /\ pr'[z].change.state = "closed"))
    BY <1>0, <1>4, <2>0 DEF Close
  <2> QED BY <1>4, <2>0, <2>1, <2>2 DEF Close
<1>5. CASE PrepareRevert(w)
  <2>1. \A r \in Requests : pr'[r].change = pr[r].change
    BY <1>0, <1>5 DEF PrepareRevert
  <2>2. \A r \in Requests : pr[r].reversal.state = "merged" => pr'[r].reversal.state = "merged"
    BY <1>0, <1>5 DEF PrepareRevert
  <2> QED BY <2>1, <2>2
<1>6. CASE MergeRevert(w)
  <2>1. \A r \in Requests : pr'[r].change = pr[r].change
    BY <1>0, <1>6 DEF MergeRevert
  <2>2. \A r \in Requests : pr[r].reversal.state = "merged" => pr'[r].reversal.state = "merged"
    BY <1>0, <1>6 DEF MergeRevert
  <2> QED BY <2>1, <2>2
<1>7. Step(w) \/ Die(w) \/ (\E r \in Requests : Reverse(w, r)) =>
        \/ UNCHANGED pr
        \/ Prepare(w) \/ Repair(w) \/ Merge(w) \/ Close(w) \/ PrepareRevert(w) \/ MergeRevert(w)
  BY DEF Step, Kick, Ask, ClaimResponse, ReadChecks, ReadRevert, NextRound, Stop, Finish, LinkPull, AskRepair, Wait, GoLive,
     Throws, Fail, LinkRevert, WaitRevert, Reversed, RevertFails, Die, Reverse
<1> QED BY <1>1, <1>2, <1>3, <1>4, <1>5, <1>6, <1>7

\* What a step of w at r says and knows of r's pull requests afterwards.
Learns(w, r) ==
  /\ \A q \in Requests \ {r} : row'[q] = row[q]
  /\ worker[w].at # "idle" => worker[w].req = r
  /\ worker'[w].at # "idle" => worker'[w].req = r
  /\ row'[r].status \in {"live", "reversing", "reversed"} \/ row'[r].sha =>
       \/ row[r].status \in {"live", "reversing", "reversed"} \/ row[r].sha
       \/ worker[w].at \in {"merged", "revert", "reverted", "undecide", "unmerged"}
       \/ (worker[w].at = "decide" /\ worker[w].seen = "merged")
  /\ row'[r].status = "reversed" =>
       \/ row[r].status = "reversed" \/ worker[w].at = "unmerged"
       \/ (worker[w].at = "undecide" /\ worker[w].seen = "merged")
  /\ worker'[w].at = "decide" => UNCHANGED pr /\ worker'[w].seen = Seen(pr[r].change)
  /\ worker'[w].at = "merged" => pr'[r].change.state = "merged"
  /\ worker'[w].at \in {"revert", "reverted", "undecide", "unmerged"} =>
       row[r].status \in {"live", "reversing"} \/ worker[w].at \in {"revert", "undecide"}
  /\ worker'[w].at = "undecide" => UNCHANGED pr /\ worker'[w].seen = Seen(pr[r].reversal)
  /\ worker'[w].at = "unmerged" => pr'[r].reversal.state = "merged"

LEMMA StepLearns ==
  ASSUME TInv, NEW w \in Workers, Step(w) \/ Die(w) \/ (\E r \in Requests : Reverse(w, r))
  PROVE  \/ \E r \in Requests : Learns(w, r)
         \/ UNCHANGED row /\ worker'[w].at = "idle"
<1>0. /\ DOMAIN row = Requests /\ DOMAIN worker = Workers /\ DOMAIN pr = Requests
      /\ \A r \in Requests : /\ {"status", "response", "answer", "turn", "staged", "pull", "sha", "undo", "pdf"} \subseteq DOMAIN row[r]
                             /\ {"change", "reversal"} \subseteq DOMAIN pr[r]
                             /\ {"state", "checks"} \subseteq DOMAIN pr[r].change
                             /\ {"state", "checks"} \subseteq DOMAIN pr[r].reversal
      /\ {"at", "req", "seen", "turn", "response"} \subseteq DOMAIN worker[w]
      /\ worker[w].at # "idle" => worker[w].req \in Requests
      /\ "idle" \in Stages /\ worker[w].at \in Stages
  BY DEF TInv, BuilderTypeOK, Placed, Request, Worker, Stages, PullRequest
<1>00. PICK z : z = worker[w].req
  OBVIOUS
<1> USE DEF At, Decides, Starts
<1>1. ASSUME Kick(w) PROVE \E r \in Requests : Learns(w, r)
  <2>1. PICK r \in Requests : /\ row[r].status = "queued" /\ worker[w].at = "idle"
                             /\ row' = [row EXCEPT ![r].status = "reading"] /\ Takes(w, r, "brief")
    BY <1>1, QueueHead DEF Kick
  <2>2. Learns(w, r)
    BY <1>0, <2>1, Taking DEF Learns, Stages
  <2> QED BY <2>2
<1>2. ASSUME Ask(w) PROVE z \in Requests /\ Learns(w, z)
  BY <1>0, <1>00, <1>2, Ending DEF Learns, Ask, Stages
<1>3. ASSUME NEW r \in Requests, ClaimResponse(w, r) PROVE Learns(w, r)
  BY <1>0, <1>3 DEF Learns, ClaimResponse
<1>4. ASSUME NEW r \in Requests, ReadChecks(w, r) PROVE Learns(w, r)
  BY <1>0, <1>4 DEF Learns, ReadChecks
<1>5. ASSUME NEW r \in Requests, ReadRevert(w, r) PROVE Learns(w, r)
  BY <1>0, <1>5 DEF Learns, ReadRevert, Idle
<1>6. ASSUME NextRound(w) PROVE z \in Requests /\ Learns(w, z)
  BY <1>0, <1>00, <1>6, Ending DEF Learns, NextRound, Stages
<1>7. ASSUME Stop(w) PROVE z \in Requests /\ Learns(w, z)
  BY <1>0, <1>00, <1>7, Ending DEF Learns, Stop, Stages
<1>8. ASSUME Finish(w) PROVE z \in Requests /\ Learns(w, z)
  BY <1>0, <1>00, <1>8, Going DEF Learns, Finish, Stages
<1>9. ASSUME Prepare(w) PROVE z \in Requests /\ Learns(w, z)
  BY <1>0, <1>00, <1>9, Going DEF Learns, Prepare, Pushes, Stages
<1>10. ASSUME Repair(w) PROVE z \in Requests /\ Learns(w, z)
  BY <1>0, <1>00, <1>10, Going DEF Learns, Repair, Pushes, Stages
<1>11. ASSUME LinkPull(w) PROVE z \in Requests /\ Learns(w, z)
  BY <1>0, <1>00, <1>11, Ending DEF Learns, LinkPull, Stages
<1>12. ASSUME AskRepair(w) PROVE z \in Requests /\ Learns(w, z)
  BY <1>0, <1>00, <1>12, Ending DEF Learns, AskRepair, Stages
<1>13. ASSUME Wait(w) PROVE z \in Requests /\ Learns(w, z)
  BY <1>0, <1>00, <1>13, Going, Ending DEF Learns, Wait, Stages
<1>14. ASSUME Merge(w) PROVE z \in Requests /\ Learns(w, z)
  BY <1>0, <1>00, <1>14, Going DEF Learns, Merge, Stages
<1>15. ASSUME GoLive(w) PROVE z \in Requests /\ Learns(w, z)
  BY <1>0, <1>00, <1>15, Ending DEF Learns, GoLive, Stages
<1>16. ASSUME Throws(w) PROVE z \in Requests /\ Learns(w, z)
  BY <1>0, <1>00, <1>16, Going DEF Learns, Throws, Stages
<1>17. ASSUME Fail(w) PROVE z \in Requests /\ Learns(w, z)
  BY <1>0, <1>00, <1>17, Going DEF Learns, Fail, Stages
<1>18. ASSUME Close(w) PROVE z \in Requests /\ Learns(w, z)
  BY <1>0, <1>00, <1>18, Ending DEF Learns, Close, Stages
<1>19. ASSUME PrepareRevert(w) PROVE z \in Requests /\ Learns(w, z)
  BY <1>0, <1>00, <1>19, Going DEF Learns, PrepareRevert, Pushes, Stages
<1>20. ASSUME LinkRevert(w) PROVE z \in Requests /\ Learns(w, z)
  BY <1>0, <1>00, <1>20, Ending DEF Learns, LinkRevert, Stages
<1>21. ASSUME WaitRevert(w) PROVE z \in Requests /\ Learns(w, z)
  BY <1>0, <1>00, <1>21, Ending DEF Learns, WaitRevert, Stages
<1>22. ASSUME MergeRevert(w) PROVE z \in Requests /\ Learns(w, z)
  BY <1>0, <1>00, <1>22, Going DEF Learns, MergeRevert, Stages
<1>23. ASSUME Reversed(w) PROVE z \in Requests /\ Learns(w, z)
  BY <1>0, <1>00, <1>23, Ending DEF Learns, Reversed, Stages
<1>24. ASSUME RevertFails(w) PROVE z \in Requests /\ Learns(w, z)
  BY <1>0, <1>00, <1>24, Ending DEF Learns, RevertFails, Stages
<1>25. ASSUME Die(w) PROVE UNCHANGED row /\ worker'[w].at = "idle"
  BY <1>25, Ending DEF Die
<1>26. ASSUME NEW r \in Requests, Reverse(w, r) PROVE Learns(w, r)
  <2>1. CASE row[r].undo
    BY <1>0, <1>26, <2>1 DEF Learns, Reverse
  <2>2. CASE ~row[r].undo
    BY <1>0, <1>26, <2>2, Taking DEF Learns, Reverse, Stages
  <2> QED BY <2>1, <2>2
<1> QED BY <1>1, <1>2, <1>3, <1>4, <1>5, <1>6, <1>7, <1>8, <1>9, <1>10, <1>11, <1>12, <1>13, <1>14, <1>15, <1>16, <1>17, <1>18, <1>19, <1>20, <1>21, <1>22, <1>23, <1>24, <1>25, <1>26 DEF Step

\* "Merged" is said by whoever merged it or saw it merged.
LEMMA MergedKept == MergedInv /\ [BuilderNext]_builderVars => MergedInv'
<1> SUFFICES ASSUME MergedInv, [BuilderNext]_builderVars PROVE LiveIsMerged' /\ SeenIsSo'
  BY TypesKept DEF MergedInv
<1> DEFINE Goal == LiveIsMerged' /\ SeenIsSo'
<1>0. /\ TInv /\ LiveIsMerged /\ SeenIsSo
      /\ \A w \in Workers : worker[w].at # "idle" => worker[w].req \in Requests
  BY DEF MergedInv, TInv, Placed
<1>1. ASSUME \A r \in Requests : /\ pr[r].change.state = "merged" => pr'[r].change.state = "merged"
                                 /\ pr[r].reversal.state = "merged" => pr'[r].reversal.state = "merged",
             \A r \in Requests :
               /\ row'[r].status \in {"live", "reversing", "reversed"} \/ row'[r].sha =>
                    row[r].status \in {"live", "reversing", "reversed"} \/ row[r].sha
               /\ row'[r].status = "reversed" => row[r].status = "reversed",
             \A w \in Workers : worker'[w] = worker[w] \/ worker'[w].at = "idle"
      PROVE  Goal
  <2>1. LiveIsMerged'
    BY <1>0, <1>1 DEF LiveIsMerged
  <2>2. SeenIsSo'
    BY <1>0, <1>1 DEF SeenIsSo
  <2> QED BY <2>1, <2>2
<1>2. ASSUME NEW w \in Workers, Step(w) \/ Die(w) \/ (\E r \in Requests : Reverse(w, r)) PROVE Goal
  <2>1. PullsStay /\ \A v \in Workers \ {w} : worker'[v] = worker[v]
    BY <1>0, <1>2, StepPulls, StepTypes
  <2>2. CASE UNCHANGED row /\ worker'[w].at = "idle"
    BY <1>1, <2>1, <2>2 DEF PullsStay
  <2>3. ASSUME NEW r \in Requests, Learns(w, r) PROVE Goal
    <3>1. LiveIsMerged'
      <4>1. \A q \in Requests \ {r} : row'[q] = row[q]
        BY <2>3 DEF Learns
      <4>2. row'[r].status \in {"live", "reversing", "reversed"} \/ row'[r].sha => pr'[r].change.state = "merged"
        BY <1>0, <2>1, <2>3 DEF Learns, PullsStay, LiveIsMerged, SeenIsSo
      <4>3. row'[r].status = "reversed" => pr'[r].reversal.state = "merged"
        BY <1>0, <2>1, <2>3 DEF Learns, PullsStay, LiveIsMerged, SeenIsSo
      <4> QED BY <1>0, <2>1, <4>1, <4>2, <4>3 DEF LiveIsMerged, PullsStay
    <3>2. SeenIsSo'
      <4>1. ASSUME NEW v \in Workers, v # w, worker'[v].at # "idle"
            PROVE  /\ worker'[v] = worker[v] /\ worker[v].req \in Requests
                   /\ pr[worker[v].req].change.state = "merged" => pr'[worker[v].req].change.state = "merged"
                   /\ pr[worker[v].req].reversal.state = "merged" => pr'[worker[v].req].reversal.state = "merged"
        BY <1>0, <2>1, <4>1 DEF PullsStay
      <4>2. worker'[w].at \in {"revert", "reverted", "undecide", "unmerged"} => pr'[r].change.state = "merged"
        BY <1>0, <2>1, <2>3 DEF Learns, PullsStay, LiveIsMerged, SeenIsSo
      <4>3. (worker'[w].at = "decide" /\ worker'[w].seen = "merged") => pr'[r].change.state = "merged"
        BY <2>3 DEF Learns, Seen
      <4>4. (worker'[w].at = "undecide" /\ worker'[w].seen = "merged") => pr'[r].reversal.state = "merged"
        BY <2>3 DEF Learns, Seen
      <4>5. worker'[w].at # "idle" => worker'[w].req = r
        BY <2>3 DEF Learns
      <4> QED BY <1>0, <2>3, <4>1, <4>2, <4>3, <4>4, <4>5 DEF Learns, SeenIsSo
    <3> QED BY <3>1, <3>2
  <2> QED BY <1>0, <1>2, <2>2, <2>3, StepLearns
<1>3. /\ DOMAIN row = Requests /\ DOMAIN pr = Requests
      /\ \A r \in Requests : /\ {"status", "answer", "pdf", "sha"} \subseteq DOMAIN row[r]
                             /\ {"change", "reversal"} \subseteq DOMAIN pr[r]
                             /\ {"state", "checks"} \subseteq DOMAIN pr[r].change
                             /\ {"state", "checks"} \subseteq DOMAIN pr[r].reversal
  BY <1>0 DEF TInv, BuilderTypeOK, Request, PullRequest
<1>4. ASSUME NEW r \in Requests, Submit(r) \/ Answer(r) \/ RecoverStalled(r) PROVE Goal
  <2>1. UNCHANGED <<pr, worker>> /\ \A q \in Requests \ {r} : row'[q] = row[q]
    BY <1>3, <1>4 DEF Submit, Answer, RecoverStalled
  <2>2. row'[r].sha = row[r].sha /\ (row'[r].status = row[r].status \/ row'[r].status \in {"queued", "waiting_openai"})
    BY <1>3, <1>4 DEF Submit, Answer, RecoverStalled
  <2> QED BY <1>1, <2>1, <2>2
<1>5. ASSUME NEW r \in Requests, NEW kind \in {"change", "reversal"}, Checked(r, kind) PROVE Goal
  <2>1. UNCHANGED <<row, worker>>
    BY <1>5 DEF Checked
  <2>2. \A q \in Requests : /\ pr'[q].change.state = pr[q].change.state
                            /\ pr'[q].reversal.state = pr[q].reversal.state
    BY <1>3, <1>5 DEF Checked
  <2> QED BY <1>1, <2>1, <2>2
<1>6. ASSUME UNCHANGED builderVars PROVE Goal
  BY <1>1, <1>6 DEF builderVars
<1> QED BY <1>2, <1>4, <1>5, <1>6, BuilderActors

\* No answer of OpenAI is acted on by two invocations at a time, for any number of
\* requests, rounds, deaths and overlapping invocations: webhook, poll and sweep bring
\* the same answer, recoverStalled puts a claimed one back, and invocations that
\* outlived their round write any status over the row.
THEOREM ResponsesAreRunOnce == BuilderSpec => []ResponsesRunOnce
<1>1. BuilderInit => RunsInv
  BY BuilderStart
<1>2. RunsInv /\ [BuilderNext]_builderVars => RunsInv'
  BY RunsKept
<1>3. RunsInv => ResponsesRunOnce
  BY DEF RunsInv
<1> QED BY <1>1, <1>2, <1>3, PTL DEF BuilderSpec

\* "Live" and "reversed" are never said of a change that is not: GoLive, Fail, the catch
\* blocks of the reversal and the Waits write a row by its id alone, whatever it has become.
THEOREM LiveSaysMerged == BuilderSpec => []LiveIsMerged
<1>1. BuilderInit => MergedInv
  BY BuilderStart
<1>2. MergedInv /\ [BuilderNext]_builderVars => MergedInv'
  BY MergedKept
<1>3. MergedInv => LiveIsMerged
  BY DEF MergedInv
<1> QED BY <1>1, <1>2, <1>3, PTL DEF BuilderSpec

-----------------------------------------------------------------------------
(* The sign-in workflow *)

\* What an invocation carries from its read to its write.
OpsCarry ==
  /\ DOMAIN op = Operators
  /\ \A o \in Operators :
       /\ {"at", "seen", "got", "bad"} \subseteq DOMAIN op[o]
       /\ op[o].at \in {"mark", "remark"} => op[o].seen \in States \ {"active"}
       /\ op[o].at = "read" => op[o].seen \in {"passed", "running", "failed"}
       /\ op[o].at = "activate" => target.live

\* Only what is merged is deployed, and a deployment stays.
LiveIsMergedToo == target.live => target.pull = "merged"

SsoShaped ==
  /\ {"state", "known", "env", "sha", "stamps", "behind", "error"} \subseteq DOMAIN sso
  /\ {"pull", "checks", "live"} \subseteq DOMAIN target
  /\ DOMAIN evidence = Evidence

SsoInv == SsoShaped /\ OpsCarry /\ LiveIsMergedToo /\ ActiveIsProven

\* The row says active only after Activate, and Activate asked the gate.
LEMMA SsoKept == SsoInv /\ [SsoNext]_ssoVars => SsoInv'
<1> SUFFICES ASSUME SsoInv, [SsoNext]_ssoVars PROVE SsoInv'
  OBVIOUS
<1> USE DEF SsoInv, SsoShaped, OpsCarry, LiveIsMergedToo, ActiveIsProven, Doing, Resting, Then, Done
<1>1. ASSUME NEW o \in Operators, StartPrepare(o) PROVE SsoInv'
  BY <1>1 DEF StartPrepare
<1>2. ASSUME NEW o \in Operators, ReadChecksOf(o) PROVE SsoInv'
  BY <1>2 DEF ReadChecksOf
<1>3. ASSUME NEW o \in Operators, ChecksRefused(o) PROVE SsoInv'
  BY <1>3 DEF ChecksRefused, States
<1>4. ASSUME NEW o \in Operators, StartApprove(o) PROVE SsoInv'
  BY <1>4 DEF StartApprove
<1>5. ASSUME NEW o \in Operators, AskProvider(o) PROVE SsoInv'
  <2>1. /\ SsoShaped' /\ LiveIsMergedToo' /\ target'.live = target.live /\ (target.pull = "merged" => target'.pull = "merged")
        /\ UNCHANGED sso
    BY <1>5 DEF AskProvider
  <2>2. \/ Done(o)
        \/ /\ DOMAIN op' = Operators /\ {"at", "seen", "got", "bad"} \subseteq DOMAIN op'[o]
           /\ op'[o].at \in {"change", "project", "prepared"} /\ \A v \in Operators \ {o} : op'[v] = op[v]
    BY <1>5 DEF AskProvider, After, Providers
  <2>3. OpsCarry'
    <3>1. CASE Done(o)
      BY <2>1, <3>1
    <3>2. CASE /\ DOMAIN op' = Operators /\ {"at", "seen", "got", "bad"} \subseteq DOMAIN op'[o]
               /\ op'[o].at \in {"change", "project", "prepared"} /\ \A v \in Operators \ {o} : op'[v] = op[v]
      BY <2>1, <3>2
    <3> QED BY <2>2, <3>1, <3>2
  <2>4. ActiveIsProven'
    <3>1. evidence' = evidence \/ Gate(sso, evidence')
      BY <1>5 DEF AskProvider
    <3> QED BY <2>1, <3>1 DEF Gate, Proven
  <2> QED BY <2>1, <2>3, <2>4
<1>6. ASSUME NEW o \in Operators, UpdatePreparation(o) PROVE SsoInv'
  <2>1. SsoShaped' /\ LiveIsMergedToo' /\ UNCHANGED <<target, evidence>>
    BY <1>6 DEF UpdatePreparation
  <2>2. OpsCarry'
    <3>1. CASE Done(o)
      BY <2>1, <3>1
    <3>2. CASE op' = [op EXCEPT ![o].at = "mark", ![o].got = {},
                                ![o].seen = IF op[o].bad = {} THEN "checks_running" ELSE "needs_attention"]
      BY <2>1, <3>2 DEF States
    <3> QED BY <1>6, <3>1, <3>2 DEF UpdatePreparation
  <2>3. ActiveIsProven'
    <3>1. PICK state : state = IF op[o].bad = {} THEN "changes_prepared" ELSE "needs_attention"
      OBVIOUS
    <3>2. sso' = sso \/ sso'.state = state
      BY <1>6, <3>1 DEF UpdatePreparation
    <3> QED BY <2>1, <3>1, <3>2
  <2> QED BY <2>1, <2>2, <2>3
<1>7. ASSUME NEW o \in Operators, Mark(o) PROVE SsoInv'
  <2>1. SsoShaped' /\ LiveIsMergedToo'
    BY <1>7 DEF Mark, Marked
  <2>2. OpsCarry'
    BY <1>7 DEF Mark, States
  <2>3. ActiveIsProven'
    <3>1. op[o].seen \in States \ {"active"} /\ UNCHANGED <<target, evidence>>
      BY <1>7 DEF Mark
    <3>2. sso' = sso \/ sso'.state = op[o].seen
      BY <1>7 DEF Mark, Marked
    <3> QED BY <3>1, <3>2
  <2> QED BY <2>1, <2>2, <2>3
<1>8. ASSUME NEW o \in Operators, Decide(o) PROVE SsoInv'
  <2>1. SsoShaped' /\ LiveIsMergedToo'
    BY <1>8 DEF Decide
  <2>2. OpsCarry'
    BY <1>8 DEF Decide, States
  <2>3. ActiveIsProven'
    BY <1>8 DEF Decide, Gate, Proven
  <2> QED BY <2>1, <2>2, <2>3
<1>9. ASSUME NEW o \in Operators, CheckHealth(o) PROVE SsoInv'
  <2>1. SsoShaped' /\ LiveIsMergedToo'
    BY <1>9 DEF CheckHealth
  <2>2. OpsCarry'
    BY <1>9 DEF CheckHealth, States
  <2>3. ActiveIsProven'
    BY <1>9 DEF CheckHealth, Evidence
  <2> QED BY <2>1, <2>2, <2>3
<1>10. ASSUME NEW o \in Operators, Activate(o) PROVE SsoInv'
  <2>1. SsoShaped' /\ LiveIsMergedToo'
    BY <1>10 DEF Activate
  <2>2. OpsCarry'
    BY <1>10 DEF Activate, States
  <2>3. ActiveIsProven'
    BY <1>10 DEF Activate, Gate, Proven
  <2> QED BY <2>1, <2>2, <2>3
<1>11. ASSUME NEW o \in Operators, Approve(o) PROVE SsoInv'
  BY <1>11 DEF Approve
<1>12. ASSUME NEW o \in Operators, MergeChange(o) PROVE SsoInv'
  BY <1>12 DEF MergeChange, States
<1>13. ASSUME NEW o \in Operators, MarkMerged(o) PROVE SsoInv'
  <2>1. SsoShaped' /\ LiveIsMergedToo'
    BY <1>13 DEF MarkMerged
  <2>2. OpsCarry'
    BY <1>13 DEF MarkMerged, States
  <2>3. ActiveIsProven'
    BY <1>13 DEF MarkMerged, Gate, Proven
  <2> QED BY <2>1, <2>2, <2>3
<1>14. CASE ChecksReport
  BY <1>14 DEF ChecksReport
<1>15. CASE Deploys
  BY <1>15 DEF Deploys
<1>16. CASE EvidenceExpires
  BY <1>16 DEF EvidenceExpires
<1>17. ASSUME NEW o \in Operators, Dies(o) PROVE SsoInv'
  BY <1>17 DEF Dies
<1>18. CASE UNCHANGED ssoVars
  BY <1>18 DEF ssoVars
<1> QED BY <1>1, <1>2, <1>3, <1>4, <1>5, <1>6, <1>7, <1>8, <1>9, <1>10, <1>11, <1>12, <1>13, <1>14, <1>15, <1>16, <1>17, <1>18
        DEF SsoNext, Works

\* The gate of the database keeps what it is about (assert_cove_sso_activation and
\* prepare_cove_sso_integration_update): an active row stands for a merged change in
\* production with its approval, merge and deployment in order and every piece of evidence
\* passed at some time, for any number of operators and presses of every button.
THEOREM ActiveStaysProven == SsoSpec => []ActiveIsProven
<1>1. SsoInit => SsoInv
  BY DEF SsoInit, SsoInv, SsoShaped, OpsCarry, LiveIsMergedToo, ActiveIsProven, States, Evidence
<1>2. SsoInv /\ [SsoNext]_ssoVars => SsoInv'
  BY SsoKept
<1>3. SsoInv => ActiveIsProven
  BY DEF SsoInv
<1> QED BY <1>1, <1>2, <1>3, PTL DEF SsoSpec
=============================================================================
