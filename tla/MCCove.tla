-------------------------------- MODULE MCCove --------------------------------
(***************************************************************************)
(* The guest's own booking pages and the parts of Cove around the booking  *)
(* application.  They share no table and none calls another, so one run    *)
(* checks them next to each other: each behaviour is one part's, and the   *)
(* other parts rest in an initial state.                                   *)
(***************************************************************************)
EXTENDS Access, Evaluator, BookingPage, Money, Recruitment, Handoff, Kit,
        Delegate, AdminDesk, Integrity, Records, Weeks, Repository

VARIABLE part   \* the part the behaviour is about

partVars ==
  <<accessVars, decided, pageVars, moneyVars, hiringVars, handoffVars,
    deployed, delegateVars, adminVars, integrityVars, recordVars, weekVars,
    repoVars, part>>

PartsInit ==
  /\ part \in {"access", "evaluator", "page", "money", "recruitment",
               "handoff", "kit", "delegate", "admin", "integrity", "records",
               "weeks", "repository"}
  /\ AccessInit
  /\ EvaluatorInit
  /\ PageInit
  /\ MoneyInit
  /\ HiringInit
  /\ HandoffInit
  /\ KitInit
  /\ DelegateInit
  /\ AdminInit
  /\ IntegrityInit
  /\ RecordsInit
  /\ WeeksInit
  /\ RepositoryInit

PartsNext ==
  /\ UNCHANGED part
  /\ IF part = "access"      THEN AccessNext     ELSE UNCHANGED accessVars
  /\ IF part = "evaluator"   THEN DecideOne      ELSE UNCHANGED decided
  /\ IF part = "page"        THEN PageNext       ELSE UNCHANGED pageVars
  /\ IF part = "money"       THEN MoneyNext      ELSE UNCHANGED moneyVars
  /\ IF part = "recruitment" THEN HiringNext     ELSE UNCHANGED hiringVars
  /\ IF part = "handoff"     THEN HandoffNext    ELSE UNCHANGED handoffVars
  /\ IF part = "kit"         THEN Deploy         ELSE UNCHANGED deployed
  /\ IF part = "delegate"    THEN DelegateNext   ELSE UNCHANGED delegateVars
  /\ IF part = "admin"       THEN AdminNext      ELSE UNCHANGED adminVars
  /\ IF part = "integrity"   THEN IntegrityNext  ELSE UNCHANGED integrityVars
  /\ IF part = "records"     THEN RecordsNext    ELSE UNCHANGED recordVars
  /\ IF part = "weeks"       THEN WeeksNext      ELSE UNCHANGED weekVars
  /\ IF part = "repository"  THEN RepositoryNext ELSE UNCHANGED repoVars

PartsSpec == PartsInit /\ [][PartsNext]_partVars
=============================================================================
