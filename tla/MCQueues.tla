------------------------------ MODULE MCQueues ------------------------------
(***************************************************************************)
(* The three parts that sweeps, polls and operators carry to an end.  They *)
(* share no table and none calls another, so one run checks them next to   *)
(* each other: each behaviour is one part's, and the other parts rest in   *)
(* their initial state, in which none of their fair actions is enabled.    *)
(***************************************************************************)
EXTENDS AppBuilder, Sso, Sync

VARIABLE part   \* the part the behaviour is about

queueVars == <<builderVars, ssoVars, syncVars, part>>

\* Everything that may befall one request, and two requests that overlap or of
\* which one's invocation dies.
BuilderBounds ==
  {[requests |-> 1, deaths |-> 1, clicks |-> 1, overlaps |-> 2],
   [requests |-> 2, deaths |-> 0, clicks |-> 0, overlaps |-> 1],
   [requests |-> 2, deaths |-> 1, clicks |-> 0, overlaps |-> 0]}

QueuesInit ==
  /\ part \in {"builder", "sso", "sync"} /\ BuilderInit /\ SsoInit /\ SyncInit
  /\ part # "builder" => spent.of.requests = 1

QueuesNext ==
  /\ UNCHANGED part
  /\ IF part = "builder" THEN BuilderNext ELSE UNCHANGED builderVars
  /\ IF part = "sso"     THEN SsoNext     ELSE UNCHANGED ssoVars
  /\ IF part = "sync"    THEN SyncNext    ELSE UNCHANGED syncVars

\* The cron sweeps every five minutes for as long as there is work, so every
\* recovery, continuation and kick that is due is made; OpenAI and the checks
\* come to an end; GitHub's refusals to merge are transient.
BuilderFairness ==
  /\ WF_builderVars(part = "builder" /\ \E w \in Workers : Step(w))
  /\ SF_builderVars(part = "builder" /\ \E r \in Requests : Outside(r))
  /\ SF_builderVars(part = "builder" /\ \E w \in Workers : Kick(w) \/ Merge(w) \/ MergeRevert(w))

\* Invocations end, and an operator keeps pressing Refresh.
SsoFairness ==
  /\ \A o \in Operators : WF_ssoVars(part = "sso" /\ Works(o))
  /\ WF_ssoVars(part = "sso" /\ \E o \in Operators : ReadChecksOf(o))

\* The cron runs for ever, and an invocation that does not die makes progress.
SyncFairness == \A r \in SyncRuns : WF_syncVars(part = "sync" /\ SyncStep(r))

QueuesSpec == QueuesInit /\ [][QueuesNext]_queueVars /\ BuilderFairness /\ SsoFairness /\ SyncFairness
=============================================================================
