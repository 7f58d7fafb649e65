------------------------------- MODULE Access -------------------------------
(***************************************************************************)
(* Cove's people and what they may open: invitations, sign-in, platform    *)
(* roles, the direct entitlements of one registered application and its    *)
(* employee access policy.  Every change is ONE SQL statement in READ      *)
(* COMMITTED: it reads the tables as they were when it began, takes its    *)
(* advisory lock only then, and writes to the tables as they are.          *)
(***************************************************************************)
EXTENDS Naturals, FiniteSets, FiniteSetsExt

CONSTANTS
  People,         \* employees, by their email
  Boss,           \* COVE_BOOTSTRAP_ADMIN_EMAIL
  Changes,        \* the kinds of change the administrators make
  MaxAtOnce,      \* bound: how many changes run at once
  MaxChanges,     \* bound: how many changes are made
  MaxLapses       \* bound: how many invitations expire

ASSUME AccessAssumption ==
  /\ Boss \in People /\ IsFiniteSet(People)
  /\ Changes \subseteq {"invite", "status", "role", "access", "policy", "register"}
  /\ {MaxAtOnce, MaxChanges, MaxLapses} \subseteq Nat

VARIABLES
  db,      \* the tables
  running, \* the statements that have begun
  used     \* how much of the bounds is used up; history: whom changes that crossed were about

accessVars == <<db, running, used>>

Levels == {"user", "admin"}
Roles  == {"super_admin", "access_admin", "systems_admin"}

AccessInit ==
  /\ db = [user       |-> [p \in People |-> "none"],
           identity   |-> [p \in People |-> "none"],
           invitation |-> [p \in People |-> "none"],
           roles      |-> [p \in People |-> {}],
           rows       |-> {},         \* live entitlements to the application
           panel      |-> {},         \* who holds the live SuperPanel entitlement
           policy     |-> "absent",   \* application_access_policies; absent: not registered
           away       |-> {}]         \* history: who was suspended when the policy became all
  /\ running = {}
  /\ used = [changes |-> 0, lapses |-> 0, crossed |-> {}]

-----------------------------------------------------------------------------
\* is_approved_cove_employee, of the tables a statement reads.
Approved(t, p) == /\ t.user[p] = "active"
                  /\ t.identity[p] # "none" \/ t.invitation[p] = "pending"

Administers(t, p, roles) == t.user[p] = "active" /\ t.roles[p] \cap roles # {}
AccessAdmins  == {"super_admin", "access_admin"}
SystemsAdmins == {"super_admin", "systems_admin"}

HeldOf(t, p) == {e \in t.rows : e.who = p}
NewRow(p, level) == [who |-> p, level |-> level, by |-> used.changes]

\* The User role's rows the all policy gives: who holds a live entitlement of
\* any level, in the tables the statement reads, is passed over.
Evergreen(t, people) == {NewRow(p, "user") : p \in {q \in people : HeldOf(t, q) = {}}}

\* The trigger user_platform_roles_sync_superpanel_entitlement.
PanelOf(panel, p, roles) ==
  IF roles \cap SystemsAdmins # {} THEN panel \cup {p} ELSE panel \ {p}

-----------------------------------------------------------------------------
(* Sign-in *)

\* requireCoveUser, for somebody it does not find: a live invitation is
\* accepted; else the first administrator of an empty directory is created;
\* else an identity of the retired issuer is rebound.
SignIn(p) ==
  LET invited == db.invitation[p] = "pending"
      empty   == \A q \in People : db.user[q] = "none" IN
  /\ ~(db.identity[p] = "current" /\ db.user[p] = "active")
  /\ \/ /\ invited
        /\ db' = [db EXCEPT !.identity[p] = "current", !.invitation[p] = "accepted"]
     \/ /\ ~invited /\ empty /\ p = Boss
        /\ db' = [db EXCEPT !.user[p] = "active", !.identity[p] = "current",
                            !.roles[p] = {"super_admin"}, !.panel = @ \cup {p}]
     \/ /\ ~invited /\ db.identity[p] = "retired" /\ db.user[p] = "active"
        /\ db' = [db EXCEPT !.identity[p] = "current"]
  /\ UNCHANGED <<running, used>>

\* The Clerk instance is replaced: its issuer is retired.
CutOver ==
  /\ \E p \in People : db.identity[p] = "current" /\ \A q \in People : db.identity[q] # "retired"
  /\ used.lapses < MaxLapses /\ running = {}
  /\ db' = [db EXCEPT !.identity = [p \in People |-> IF @[p] = "current" THEN "retired" ELSE @[p]]]
  /\ used' = [used EXCEPT !.lapses = @ + 1]
  /\ UNCHANGED running

\* Fourteen days pass: the invitation stays pending in its column, and is dead.
Lapse(p) ==
  /\ db.invitation[p] = "pending" /\ used.lapses < MaxLapses
  /\ db' = [db EXCEPT !.invitation[p] = "lapsed"]
  /\ used' = [used EXCEPT !.lapses = @ + 1]
  /\ UNCHANGED running

-----------------------------------------------------------------------------
(* Changes.  Begin is the statement's snapshot, each of the actions after it a *)
(* statement's writes and its commit.                                          *)

\* A statement about one person that runs beside one about everybody: an invitation
\* beside a policy that is set, a level beside one.
Crosses(s, q) == \/ s.kind = "invite" /\ q.kind \in {"policy", "register"}
                 \/ s.kind = "access" /\ q.kind = "policy"
Crossed(statements) == {p \in People : \E s, q \in statements : s.who = p /\ Crosses(s, q)}

Begin(kind, who, arg, actor) ==
  /\ kind \in Changes /\ used.changes < MaxChanges /\ Cardinality(running) < MaxAtOnce
  /\ running' = running \cup {[kind |-> kind, who |-> who, arg |-> arg, read |-> db,
                               nr |-> used.changes]}
  /\ used' = [used EXCEPT !.changes = @ + 1, !.crossed = @ \cup Crossed(running')]
  /\ UNCHANGED db

BeginInvite(p, actor) == Administers(db, actor, AccessAdmins) /\ Begin("invite", p, "none", actor)
\* Nobody suspends oneself, and nobody removes one's own administration.
BeginStatus(p, status, actor) ==
  /\ Administers(db, actor, AccessAdmins) /\ db.user[p] # "none"
  /\ ~(status = "suspended" /\ actor = p)
  /\ Begin("status", p, status, actor)
BeginRole(p, role, enabled, actor) ==
  /\ Administers(db, actor, AccessAdmins) /\ db.user[p] # "none"
  /\ role \in {"access_admin", "systems_admin"}
  /\ ~(role = "access_admin" /\ ~enabled /\ actor = p)
  /\ Begin("role", p, [role |-> role, on |-> enabled], actor)
BeginAccess(p, level, actor) ==
  /\ Administers(db, actor, AccessAdmins) /\ db.user[p] # "none"
  /\ Begin("access", p, level, actor)
BeginPolicy(policy, actor) ==
  /\ Administers(db, actor, SystemsAdmins) /\ db.policy # "absent"
  /\ Begin("policy", Boss, policy, actor)
BeginRegister(owner, policy, actor) ==
  /\ Administers(db, actor, SystemsAdmins) /\ Begin("register", owner, policy, actor)

Commits(s) == running' = running \ {s} /\ UNCHANGED used

\* Mutant: an invitation does not give the applications that are for everyone.
InviteBare(s) ==
  LET p == s.who IN
  /\ s.kind = "invite"
  /\ db' = IF s.read.identity[p] # "none" THEN db
           ELSE [db EXCEPT !.user[p] = IF @ = "none" THEN "active" ELSE @,
                           !.invitation[p] = "pending"]
  /\ Commits(s)

\* invitePostgresUser: the user of a new email, or the one not bound yet; the
\* invitation of that email that is pending, or a new one; the evergreen rows.
Invite(s) ==
  LET p == s.who IN
  /\ s.kind = "invite"
  /\ db' = IF s.read.identity[p] # "none" THEN db
           ELSE [db EXCEPT !.user[p] = IF @ = "none" THEN "active" ELSE @,
                           !.invitation[p] = "pending",
                           !.rows = @ \cup (IF s.read.policy = "all" THEN Evergreen(s.read, {p}) ELSE {})]
  /\ Commits(s)

\* updatePostgresUserStatus: no super administrator is suspended.
ChangeStatus(s) ==
  LET p == s.who IN
  /\ s.kind = "status"
  /\ db' = IF s.arg = "suspended" /\ "super_admin" \in s.read.roles[p] THEN db
           ELSE [db EXCEPT !.user[p] = s.arg]
  /\ Commits(s)

\* updatePostgresPlatformRole, with the trigger of the table it writes: a role
\* is taken away when the statement had seen it.
ChangeRole(s) ==
  LET p == s.who
      roles == IF s.arg.on THEN db.roles[p] \cup {s.arg.role}
               ELSE db.roles[p] \ ({s.arg.role} \cap s.read.roles[p]) IN
  /\ s.kind = "role"
  /\ db' = [db EXCEPT !.roles[p] = roles,
                      !.panel = IF roles = db.roles[p] THEN @ ELSE PanelOf(@, p, roles)]
  /\ Commits(s)

\* updatePostgresApplicationAccess: under the selected policy the rows the
\* statement saw are revoked, and a level adds its own.
ChangeAccess(s) ==
  LET p == s.who IN
  /\ s.kind = "access"
  /\ db' = IF s.read.policy # "selected" THEN db
           ELSE [db EXCEPT !.rows = (@ \ HeldOf(s.read, p)) \cup
                             (IF s.arg = "none" THEN {}
                              ELSE {[who |-> p, level |-> s.arg, by |-> s.nr]})]
  /\ Commits(s)

\* updatePostgresManagedAsset, as far as access goes: the policy, and the rows
\* of everybody approved when it becomes all.
ChangePolicy(s) ==
  /\ s.kind = "policy"
  /\ db' = [db EXCEPT !.policy = s.arg,
                      !.rows = @ \cup (IF s.arg = "all"
                                       THEN Evergreen(s.read, {p \in People : Approved(s.read, p)})
                                       ELSE {}),
                      !.away = {p \in People : s.read.user[p] = "suspended"}]
  /\ Commits(s)

\* provision_application_access: a function of the database, whose queries read
\* the tables as they are.  A slug that is taken raises.
Register(s) ==
  LET others == IF s.arg = "all" THEN {p \in People : Approved(db, p)} \ {s.who} ELSE {} IN
  /\ s.kind = "register"
  /\ db' = IF db.policy # "absent" \/ ~Approved(db, s.who) THEN db
           ELSE [db EXCEPT !.policy = s.arg,
                           !.rows = {NewRow(s.who, "admin")} \cup {NewRow(p, "user") : p \in others},
                           !.away = {p \in People : db.user[p] = "suspended"}]
  /\ Commits(s)

AccessNext ==
  \/ \E p, actor \in People :
       \/ BeginInvite(p, actor)
       \/ \E status \in {"active", "suspended"} : BeginStatus(p, status, actor)
       \/ \E role \in Roles, on \in BOOLEAN : BeginRole(p, role, on, actor)
       \/ \E level \in Levels \cup {"none"} : BeginAccess(p, level, actor)
       \/ \E policy \in {"selected", "all"} : BeginRegister(p, policy, actor)
  \/ \E actor \in People, policy \in {"selected", "all"} : BeginPolicy(policy, actor)
  \/ \E s \in running : Invite(s) \/ ChangeStatus(s) \/ ChangeRole(s) \/ ChangeAccess(s)
                        \/ ChangePolicy(s) \/ Register(s)
  \/ \E p \in People : SignIn(p) \/ Lapse(p)
  \/ CutOver

AccessSpec == AccessInit /\ [][AccessNext]_accessVars

-----------------------------------------------------------------------------
(* The access page *)

\* getPostgresAccessDirectory: everybody with the latest invitation to their email.
Rows(t) == {[who |-> p, user |-> t.user[p], bound |-> t.identity[p] # "none", invitation |-> t.invitation[p]] :
              p \in {q \in People : t.user[q] # "none"}}

\* directoryStatus; there is none for somebody active without an identity or an
\* invitation that says why.  An invitation that lapsed is still called pending.
DirectoryStatus(row) ==
  CASE row.user = "suspended" -> "suspended"
    [] row.user # "suspended" /\ row.bound -> "active"
    [] row.user # "suspended" /\ ~row.bound /\ row.invitation = "pending" -> "invited"
    [] row.user # "suspended" /\ ~row.bound /\ row.invitation = "lapsed" -> "invitation_expired"
    [] OTHER -> "inconsistent"

\* parsePerson, what its history checks refuse.
Waiting(row) == row.bound /\ row.invitation \in {"pending", "lapsed"}
Believable(row) ==
  /\ ~Waiting(row)
  /\ ~row.bound => row.invitation # "accepted"
  /\ DirectoryStatus(row) # "inconsistent"

\* parseAccessDirectoryRows: one row that is refused refuses the directory.
Directory(t) ==
  IF \A row \in Rows(t) : Believable(row)
  THEN [source |-> "postgres", people |-> [p \in {row.who : row \in Rows(t)} |->
          DirectoryStatus(CHOOSE row \in Rows(t) : row.who = p)]]
  ELSE [source |-> "unavailable", people |-> [p \in {} |-> "none"]]
-----------------------------------------------------------------------------
\* An entitlement to SuperPanel is live exactly for those whose platform roles
\* make them systems operators, whatever was granted, revoked or overlapped.
PanelFollowsRole == \A p \in People : p \in db.panel <=> db.roles[p] \cap SystemsAdmins # {}

\* Nobody holds two live entitlements to an application: a level is replaced,
\* and the all policy passes over who holds one.
OneLevel == \A p \in People : Cardinality(HeldOf(db, p)) <= 1

\* Under the all policy everyone approved holds a live entitlement, once nothing runs.
Covered(people) ==
  running = {} /\ db.policy = "all" => \A p \in people : Approved(db, p) => HeldOf(db, p) # {}

\* Who is left without: who was suspended when the policy was set, and nobody else but
\* whose invitation, or level, was being written while somebody set the policy.
CoverHolds == Covered(People \ (db.away \cup used.crossed))

\* "The all policy grants every approved employee now and automatically applies to
\* future Cove invitations": the code does not keep it, when the two cross.
EvergreenCovers == Covered(People \ db.away)

\* "Invitations can only be renewed before identity binding": nobody who has
\* signed in under the current issuer has an invitation waiting.
BoundIsNotInvited ==
  \A p \in People : db.identity[p] = "current" => db.invitation[p] \notin {"pending", "lapsed"}

\* The access page shows as active or invited exactly those whom the database
\* approves as employees, whichever of the two tells of them; nothing makes the
\* whole page unavailable but somebody who signed in while being invited again.
PageAgrees ==
  LET page == Directory(db) IN
  IF page.source = "postgres"
  THEN \A p \in People : Approved(db, p) <=> p \in DOMAIN page.people /\ page.people[p] \in {"active", "invited"}
  ELSE \E row \in Rows(db) : Waiting(row)

\* "Access directory contains a pending invitation for a bound identity": the
\* page is there for administrators at every moment.
PageIsThere == Directory(db).source = "postgres"

\* What administrators decide one by one and for everybody stays together, whatever
\* statements overlap: the panel with the roles, the all policy with everyone's grants,
\* and the page they decide on with the database that acts on it.
DecisionsHold == PanelFollowsRole /\ CoverHolds /\ PageAgrees
=============================================================================
