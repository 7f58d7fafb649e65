----------------------------- MODULE Evaluator -----------------------------
(***************************************************************************)
(* Who may do what: the decision every sensitive boundary asks for again,  *)
(* the answer the access service gives another application, and the access *)
(* summary SuperPanel shows, over one snapshot of the tables.  Pure        *)
(* functions: the state is the input they are applied to, once it is known.*)
(***************************************************************************)
EXTENDS FiniteSets

CONSTANTS
  Organisations,  \* partner organisations; the partner of the model is of Home
  Home

\* The platform's partner reference is no partner's.
ASSUME EvaluatorAssumption == Home \in Organisations /\ "all partner organisations" \notin Organisations

VARIABLE decided   \* the question decided, if any: who asks, and the snapshot's rows

Employee == "employee"
Partner  == "external_partner"
Permissions == {"open", "manage", "export"}

\* Roles of the application: what they permit, to whom, at which level.
RoleOf(r) ==
  CASE r = "user"   -> [permits |-> {"open"},             to |-> {Employee},          level |-> "user"]
    [] r = "admin"  -> [permits |-> {"open", "manage"},   to |-> {Employee},          level |-> "admin"]
    [] r = "viewer" -> [permits |-> {"open", "export"},   to |-> {Employee, Partner}, level |-> "user"]
RoleKeys == {"user", "admin", "viewer"}

All == "all partner organisations"
Scopes == SUBSET Organisations \cup {{All}}

\* An entitlement names the user or a team the user is in; it counts when its
\* window is open, the team is active and so is the membership.
Entitlements == [role : RoleKeys, scope : Scopes, to : {"user", "team"}, open : BOOLEAN]

\* What can be wrong with the one who asks or with what is asked for.
Flaws == {"none", "unverified", "other_domain", "suspended", "maintenance", "home_suspended"}

Questions ==
  [population : {Employee, Partner},
   flaw : Flaws,
   team : BOOLEAN,      \* an open membership of an active team
   entitlements : {{}} \cup {{e, f} : e, f \in Entitlements}]   \* bound: two of them

-----------------------------------------------------------------------------
Denied(reason) == [allowed |-> FALSE, reason |-> reason]

\* entitlementApplies with isActiveWindow and activeTeamIds.
Applies(q, e) == e.open /\ (e.to = "team" => q.team)

\* scopeAllowsUser: a partner sees its own organisation and nothing else.
ScopeAllows(q, scope) ==
  q.population = Employee \/ (scope # {} /\ scope \subseteq {Home})

\* mergeScopes
Merged(q, grants) ==
  LET scopes == {e.scope : e \in grants} IN
  IF q.population = Employee /\ {All} \in scopes THEN {All} ELSE (UNION scopes) \ {All}

\* Mutant: an entitlement whose window is closed counts.
CountingClosed(q, permission) ==
  {e \in q.entitlements :
     /\ e.to = "team" => q.team
     /\ q.population \in RoleOf(e.role).to /\ ScopeAllows(q, e.scope)
     /\ permission # "" => permission \in RoleOf(e.role).permits}

\* What of the entitlements counts towards a permission; "" asks for none.
Counting(q, permission) ==
  {e \in q.entitlements :
     /\ Applies(q, e) /\ q.population \in RoleOf(e.role).to
     /\ ScopeAllows(q, e.scope)
     /\ permission # "" => permission \in RoleOf(e.role).permits}

\* evaluateEntitlement, in the order of its refusals.
Evaluate(q, permission) ==
  LET grants == Counting(q, permission) IN
  IF q.flaw = "unverified" THEN Denied("identity_unverified")
  ELSE IF q.flaw = "other_domain" /\ q.population = Employee THEN Denied("identity_mismatch")
  ELSE IF q.flaw = "suspended" THEN Denied("user_inactive")
  ELSE IF q.flaw = "maintenance" THEN Denied("application_inactive")
  ELSE IF q.flaw = "home_suspended" /\ q.population = Partner THEN Denied("partner_organisation_inactive")
  ELSE IF grants = {} THEN Denied("no_entitlement_counts")
  ELSE [allowed |-> TRUE,
        roles |-> {e.role : e \in grants},
        permissions |-> UNION {RoleOf(e.role).permits : e \in grants},
        scope |-> Merged(q, grants)]

Level(roles) == IF \E r \in roles : RoleOf(r).level = "admin" THEN "admin" ELSE "user"

\* POST /api/cove/access
Service(q, required) ==
  LET decision == Evaluate(q, "open") IN
  IF ~decision.allowed THEN "access_denied"
  ELSE IF required = "admin" /\ Level(decision.roles) # "admin" THEN "role_required"
  ELSE Level(decision.roles)

\* buildApplicationAccessSummary: the level it lists an employee with.
Summary(q) ==
  LET roles == {e.role : e \in {g \in q.entitlements :
                                  Employee \in RoleOf(g.role).to /\ Applies(q, g)}} IN
  IF q.population # Employee \/ q.flaw = "suspended" \/ roles = {} THEN "not_listed"
  ELSE IF \E r \in roles : RoleOf(r).level = "admin" THEN "admin" ELSE "user"

EvaluatorInit == decided = {}
DecideOne == decided = {} /\ \E q \in Questions : decided' = {q}
-----------------------------------------------------------------------------
\* Two readings of the tables agree: whoever another application lets in as User
\* or Admin is listed with that level, and whoever is listed is let in as soon as
\* the identity is verified and the application is active.
SummaryAgrees ==
  \A question \in decided :
    LET listed == Summary(question) IN
    /\ \A required \in {"user", "admin"} :
         LET answer == Service(question, required) IN
         question.population = Employee /\ answer \in {"user", "admin"} => answer = listed
    /\ listed # "not_listed" /\ question.flaw \in {"none", "home_suspended"}
         => Service(question, listed) = listed

\* A permission is never exercised over the organisations of an entitlement that
\* does not carry it, and a partner never reaches beyond its own organisation.
PermissionInScope ==
  \A question \in decided, permission \in Permissions :
    LET decision == Evaluate(question, permission) IN
    decision.allowed =>
      /\ \A o \in decision.scope :
           \E e \in question.entitlements :
             /\ Applies(question, e) /\ permission \in RoleOf(e.role).permits
             /\ o \in e.scope
      /\ question.population = Partner => decision.scope = {Home}

\* The three readings of the tables agree: who is listed, who is let in, and over
\* which organisations.
ReadingsAgree == SummaryAgrees /\ PermissionInScope
=============================================================================
