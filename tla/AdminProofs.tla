---------------------------- MODULE AdminProofs -----------------------------
(***************************************************************************)
(* What the administrators of Cove decide and what employees save, for     *)
(* every value of the constants: access to the applications (the tables'   *)
(* invariant AccessInv, and CoverInv for the all policy), the reviews of   *)
(* money, the administrators' pages, the records employees keep of         *)
(* themselves and the recruiters' board.  The parts share no state, and    *)
(* each section has the inductive invariant of one.                        *)
(***************************************************************************)
EXTENDS Access, Money, AdminDesk, Records, Recruitment, FiniteSetTheorems, SequenceTheorems, TLAPS

(* What administrators decide about access *)

DbFields == {"user", "identity", "invitation", "roles", "rows", "panel", "policy", "away"}

\* The tables: somebody without an identity waits for an invitation to be accepted, nobody
\* is invited who is not in the directory, and the panel goes with the roles.
TablesHold(t) ==
  /\ DOMAIN t = DbFields
  /\ t.user \in [People -> {"none", "active", "suspended"}]
  /\ t.identity \in [People -> {"none", "current", "retired"}]
  /\ t.invitation \in [People -> {"none", "pending", "accepted", "lapsed"}]
  /\ DOMAIN t.roles = People
  /\ \A p \in People :
       /\ t.user[p] # "none" /\ t.identity[p] = "none" => t.invitation[p] \in {"pending", "lapsed"}
       /\ t.user[p] = "none" => t.invitation[p] = "none"
       /\ p \in t.panel <=> t.roles[p] \cap SystemsAdmins # {}

\* A statement that has begun is about somebody there is.
StatementHolds(s, t) ==
  /\ s.who \in People
  /\ s.kind = "status" => s.arg \in {"active", "suspended"} /\ t.user[s.who] # "none"
  /\ s.kind \in {"policy", "register"} => s.arg \in {"selected", "all"}

AccessInv == TablesHold(db) /\ \A s \in running : StatementHolds(s, db)

\* In the directory, and invited or known to Clerk: approved, but for a suspension.
Eligible(t, p) == t.user[p] # "none" /\ (t.identity[p] # "none" \/ t.invitation[p] = "pending")

\* What a statement has read is still good for what it will write, unless it crossed: an
\* invitation sees the policy that is, a level is changed under the selected policy only, and
\* who has become eligible since a policy's statement began, or lost an entitlement, is nobody.
ReadStands(s, t, crossed) ==
  /\ s.kind = "invite" /\ s.who \notin crossed =>
       s.read.policy = t.policy /\ (t.policy = "all" => HeldOf(s.read, s.who) \subseteq t.rows)
  /\ s.kind = "access" /\ s.who \notin crossed => (s.read.policy = "selected" => t.policy = "selected")
  /\ s.kind = "policy" =>
       /\ t.policy # "absent"
       /\ s.read.user \in [People -> {"none", "active", "suspended"}]
       /\ \A p \in People \ crossed :
            HeldOf(s.read, p) \subseteq t.rows /\ (Eligible(t, p) => Eligible(s.read, p))

\* Under the all policy everybody eligible holds an entitlement, suspended since or not, but
\* whom a change that crossed was about.
CoverInv ==
  /\ "crossed" \in DOMAIN used
  /\ running # {} \/ db.policy # "absent" => \E p \in People : db.user[p] # "none"
  /\ db.policy = "all" =>
       \A p \in People \ (db.away \cup used.crossed) : Eligible(db, p) => HeldOf(db, p) # {}
  /\ \A r, s \in running : Crosses(r, s) => r.who \in used.crossed
  /\ \A s \in running : ReadStands(s, db, used.crossed)

\* The tables' columns, and what of them one person has.
ColumnsHold(t) ==
  /\ DOMAIN t = DbFields
  /\ t.user \in [People -> {"none", "active", "suspended"}]
  /\ t.identity \in [People -> {"none", "current", "retired"}]
  /\ t.invitation \in [People -> {"none", "pending", "accepted", "lapsed"}]
  /\ DOMAIN t.roles = People

PersonHolds(t, p) ==
  /\ t.user[p] # "none" /\ t.identity[p] = "none" => t.invitation[p] \in {"pending", "lapsed"}
  /\ t.user[p] = "none" => t.invitation[p] = "none"
  /\ p \in t.panel <=> t.roles[p] \cap SystemsAdmins # {}

\* A change of one person's columns leaves the others' as they were.
LEMMA OneChanges ==
  ASSUME TablesHold(db), NEW t, NEW p \in People, ColumnsHold(t), PersonHolds(t, p),
         \A q \in People \ {p} :
           /\ t.user[q] = db.user[q] /\ t.identity[q] = db.identity[q] /\ t.invitation[q] = db.invitation[q]
           /\ t.roles[q] = db.roles[q] /\ (q \in t.panel <=> q \in db.panel)
  PROVE  TablesHold(t)
<1>1. \A q \in People \ {p} : PersonHolds(db, q)
  BY DEF TablesHold, PersonHolds
<1>2. \A q \in People : PersonHolds(t, q)
  <2> SUFFICES ASSUME NEW q \in People PROVE PersonHolds(t, q)
    OBVIOUS
  <2>1. CASE q = p
    BY <2>1
  <2>2. CASE q # p
    BY <1>1, <2>2 DEF PersonHolds
  <2> QED
    BY <2>1, <2>2
<1> QED
  BY <1>2 DEF TablesHold, ColumnsHold, PersonHolds

\* What holds of a statement goes on holding while nobody leaves the directory.
LEMMA StatementsStay ==
  ASSUME AccessInv, NEW t, t = db', TablesHold(t), running' \subseteq running,
         \A p \in People : db.user[p] # "none" => t.user[p] # "none"
  PROVE  AccessInv'
<1>1. TablesHold(db)'
  BY DEF TablesHold
<1>2. \A s \in running' : StatementHolds(s, db)'
  <2> SUFFICES ASSUME NEW s \in running' PROVE StatementHolds(s, t)
    BY DEF StatementHolds
  <2> QED
    BY DEF AccessInv, StatementHolds
<1> QED
  BY <1>1, <1>2 DEF AccessInv

(* What each statement writes *)

LEMMA InviteWrites ==
  ASSUME TablesHold(db), NEW s, s.who \in People, Invite(s)
  PROVE  \/ db' = db /\ s.read.identity[s.who] # "none"
         \/ /\ DOMAIN db' = DbFields
            /\ db'.user = [db.user EXCEPT ![s.who] = IF @ = "none" THEN "active" ELSE @]
            /\ db'.invitation = [db.invitation EXCEPT ![s.who] = "pending"]
            /\ db'.rows = db.rows \cup (IF s.read.policy = "all" THEN Evergreen(s.read, {s.who}) ELSE {})
            /\ db'.identity = db.identity /\ db'.roles = db.roles /\ db'.panel = db.panel
            /\ db'.policy = db.policy /\ db'.away = db.away
<1>1. CASE s.read.identity[s.who] # "none"
  BY <1>1 DEF Invite
<1>2. CASE s.read.identity[s.who] = "none"
  <2>1. PICK new : new = IF s.read.policy = "all" THEN Evergreen(s.read, {s.who}) ELSE {}
    OBVIOUS
  <2>2. db' = [db EXCEPT !.user[s.who] = IF @ = "none" THEN "active" ELSE @,
                         !.invitation[s.who] = "pending", !.rows = @ \cup new]
    BY <1>2, <2>1 DEF Invite
  <2> QED
    BY <2>1, <2>2 DEF TablesHold, DbFields
<1> QED
  BY <1>1, <1>2

LEMMA StatusWrites ==
  ASSUME TablesHold(db), NEW s, ChangeStatus(s)
  PROVE  \/ db' = db
         \/ /\ DOMAIN db' = DbFields /\ db'.user = [db.user EXCEPT ![s.who] = s.arg]
            /\ db'.invitation = db.invitation /\ db'.rows = db.rows /\ db'.identity = db.identity
            /\ db'.roles = db.roles /\ db'.panel = db.panel /\ db'.policy = db.policy /\ db'.away = db.away
BY DEF ChangeStatus, TablesHold, DbFields

LEMMA RoleWrites ==
  ASSUME TablesHold(db), NEW s, ChangeRole(s)
  PROVE  \E roles :
           /\ DOMAIN db' = DbFields /\ db'.roles = [db.roles EXCEPT ![s.who] = roles]
           /\ db'.panel = IF roles = db.roles[s.who] THEN db.panel ELSE PanelOf(db.panel, s.who, roles)
           /\ db'.user = db.user /\ db'.invitation = db.invitation /\ db'.rows = db.rows
           /\ db'.identity = db.identity /\ db'.policy = db.policy /\ db'.away = db.away
<1>1. PICK roles : roles = IF s.arg.on THEN db.roles[s.who] \cup {s.arg.role}
                           ELSE db.roles[s.who] \ ({s.arg.role} \cap s.read.roles[s.who])
  OBVIOUS
<1>2. PICK panel : panel = IF roles = db.roles[s.who] THEN db.panel ELSE PanelOf(db.panel, s.who, roles)
  OBVIOUS
<1>3. db' = [db EXCEPT !.roles[s.who] = roles, !.panel = panel]
  BY <1>1, <1>2 DEF ChangeRole
<1> QED
  BY <1>2, <1>3 DEF TablesHold, DbFields

LEMMA AccessWrites ==
  ASSUME TablesHold(db), NEW s, ChangeAccess(s)
  PROVE  \/ db' = db
         \/ /\ DOMAIN db' = DbFields /\ s.read.policy = "selected"
            /\ db'.user = db.user /\ db'.invitation = db.invitation /\ db'.identity = db.identity
            /\ db'.roles = db.roles /\ db'.panel = db.panel /\ db'.policy = db.policy /\ db'.away = db.away
<1>1. CASE s.read.policy # "selected"
  BY <1>1 DEF ChangeAccess
<1>2. CASE s.read.policy = "selected"
  <2>1. PICK rows : db' = [db EXCEPT !.rows = rows]
    BY <1>2 DEF ChangeAccess
  <2> QED
    BY <1>2, <2>1 DEF TablesHold, DbFields
<1> QED
  BY <1>1, <1>2

LEMMA PolicyWrites ==
  ASSUME TablesHold(db), NEW s, ChangePolicy(s)
  PROVE  /\ DOMAIN db' = DbFields /\ db'.policy = s.arg
         /\ db'.rows = db.rows \cup (IF s.arg = "all" THEN Evergreen(s.read, {p \in People : Approved(s.read, p)}) ELSE {})
         /\ db'.away = {p \in People : s.read.user[p] = "suspended"}
         /\ db'.user = db.user /\ db'.invitation = db.invitation /\ db'.identity = db.identity
         /\ db'.roles = db.roles /\ db'.panel = db.panel
<1>1. PICK new, away :
        /\ new = IF s.arg = "all" THEN Evergreen(s.read, {p \in People : Approved(s.read, p)}) ELSE {}
        /\ away = {p \in People : s.read.user[p] = "suspended"}
  OBVIOUS
<1>2. db' = [db EXCEPT !.policy = s.arg, !.rows = @ \cup new, !.away = away]
  BY <1>1 DEF ChangePolicy
<1> QED
  BY <1>1, <1>2 DEF TablesHold, DbFields

LEMMA RegisterWrites ==
  ASSUME TablesHold(db), NEW s, Register(s)
  PROVE  \/ db' = db
         \/ /\ DOMAIN db' = DbFields /\ db'.policy = s.arg /\ Approved(db, s.who)
            /\ s.arg = "all" => \A p \in People : Approved(db, p) => HeldOf(db', p) # {}
            /\ db'.away = {p \in People : db.user[p] = "suspended"}
            /\ db'.user = db.user /\ db'.invitation = db.invitation /\ db'.identity = db.identity
            /\ db'.roles = db.roles /\ db'.panel = db.panel
<1>1. CASE db.policy # "absent" \/ ~Approved(db, s.who)
  BY <1>1 DEF Register
<1>2. CASE ~(db.policy # "absent" \/ ~Approved(db, s.who))
  <2>1. PICK others, rows, away :
          /\ others = IF s.arg = "all" THEN {p \in People : Approved(db, p)} \ {s.who} ELSE {}
          /\ rows = {NewRow(s.who, "admin")} \cup {NewRow(p, "user") : p \in others}
          /\ away = {p \in People : db.user[p] = "suspended"}
    OBVIOUS
  <2>2. db' = [db EXCEPT !.policy = s.arg, !.rows = rows, !.away = away]
    BY <1>2, <2>1 DEF Register
  <2>3. db'.rows = rows
    BY <2>2 DEF TablesHold, DbFields
  <2>4. ASSUME s.arg = "all", NEW p \in People, Approved(db, p) PROVE HeldOf(db', p) # {}
    <3>1. CASE p = s.who
      <4>1. PICK row : row = NewRow(s.who, "admin")
        OBVIOUS
      <4>2. row \in db'.rows /\ row.who = p
        BY <2>1, <2>3, <3>1, <4>1 DEF NewRow
      <4> QED
        BY <4>2 DEF HeldOf
    <3>2. CASE p # s.who
      <4>1. PICK row : row = NewRow(p, "user")
        OBVIOUS
      <4>2. row \in db'.rows /\ row.who = p
        BY <2>1, <2>3, <2>4, <3>2, <4>1 DEF NewRow
      <4> QED
        BY <4>2 DEF HeldOf
    <3> QED
      BY <3>1, <3>2
  <2> QED
    BY <1>2, <2>1, <2>2, <2>4 DEF TablesHold, DbFields
<1> QED
  BY <1>1, <1>2

LEMMA SignInWrites ==
  ASSUME TablesHold(db), NEW p \in People, SignIn(p)
  PROVE  /\ DOMAIN db' = DbFields /\ running' = running
         /\ db'.identity = [db.identity EXCEPT ![p] = "current"]
         /\ db'.rows = db.rows /\ db'.policy = db.policy /\ db'.away = db.away
         /\ \/ /\ db.invitation[p] = "pending" /\ db'.invitation = [db.invitation EXCEPT ![p] = "accepted"]
               /\ db'.user = db.user /\ db'.roles = db.roles /\ db'.panel = db.panel
            \/ /\ db.invitation[p] # "pending" /\ \A q \in People : db.user[q] = "none"
               /\ db'.user = [db.user EXCEPT ![p] = "active"] /\ db'.roles = [db.roles EXCEPT ![p] = {"super_admin"}]
               /\ db'.panel = db.panel \cup {p} /\ db'.invitation = db.invitation
            \/ /\ db.identity[p] = "retired" /\ db.user[p] = "active"
               /\ db'.user = db.user /\ db'.roles = db.roles /\ db'.panel = db.panel /\ db'.invitation = db.invitation
<1> USE DEF TablesHold, DbFields
<1>1. CASE db.invitation[p] = "pending" /\ db' = [db EXCEPT !.identity[p] = "current", !.invitation[p] = "accepted"]
  BY <1>1 DEF SignIn
<1>2. CASE /\ db.invitation[p] # "pending" /\ \A q \in People : db.user[q] = "none"
           /\ db' = [db EXCEPT !.user[p] = "active", !.identity[p] = "current",
                               !.roles[p] = {"super_admin"}, !.panel = @ \cup {p}]
  BY <1>2 DEF SignIn
<1>3. CASE db.identity[p] = "retired" /\ db.user[p] = "active" /\ db' = [db EXCEPT !.identity[p] = "current"]
  BY <1>3 DEF SignIn
<1> QED
  BY <1>1, <1>2, <1>3 DEF SignIn

LEMMA LapseWrites ==
  ASSUME TablesHold(db), NEW p \in People, Lapse(p)
  PROVE  /\ DOMAIN db' = DbFields /\ running' = running
         /\ db.invitation[p] = "pending" /\ db'.invitation = [db.invitation EXCEPT ![p] = "lapsed"]
         /\ db'.user = db.user /\ db'.identity = db.identity /\ db'.rows = db.rows /\ db'.policy = db.policy
         /\ db'.roles = db.roles /\ db'.panel = db.panel /\ db'.away = db.away
BY DEF Lapse, TablesHold, DbFields

LEMMA CutOverWrites ==
  ASSUME TablesHold(db), CutOver
  PROVE  /\ DOMAIN db' = DbFields /\ running = {} /\ running' = {}
         /\ db'.identity = [p \in People |-> IF db.identity[p] = "current" THEN "retired" ELSE db.identity[p]]
         /\ db'.user = db.user /\ db'.invitation = db.invitation /\ db'.rows = db.rows /\ db'.policy = db.policy
         /\ db'.roles = db.roles /\ db'.panel = db.panel /\ db'.away = db.away
BY DEF CutOver, TablesHold, DbFields

(* Each step keeps the tables *)

\* A statement that begins reads the tables and leaves them.
LEMMA BeginKeeps ==
  ASSUME AccessInv, NEW kind, NEW who \in People, NEW arg, NEW actor, Begin(kind, who, arg, actor),
         kind = "status" => arg \in {"active", "suspended"} /\ db.user[who] # "none",
         kind \in {"policy", "register"} => arg \in {"selected", "all"}
  PROVE  AccessInv'
<1>1. PICK s : s = [kind |-> kind, who |-> who, arg |-> arg, read |-> db, nr |-> used.changes]
  OBVIOUS
<1>2. running' = running \cup {s} /\ db' = db
  BY <1>1 DEF Begin
<1>3. s.kind = kind /\ s.who = who /\ s.arg = arg
  BY <1>1
<1>4. StatementHolds(s, db)
  BY <1>3 DEF StatementHolds
<1>5. \A x \in running' : StatementHolds(x, db)
  BY <1>2, <1>4 DEF AccessInv
<1> QED
  BY <1>2, <1>5 DEF AccessInv, StatementHolds, TablesHold

LEMMA CommitKeeps ==
  ASSUME AccessInv, NEW s \in running,
         Invite(s) \/ ChangeStatus(s) \/ ChangeRole(s) \/ ChangeAccess(s) \/ ChangePolicy(s) \/ Register(s)
  PROVE  AccessInv'
<1>1. TablesHold(db) /\ s.who \in People /\ StatementHolds(s, db)
  BY DEF AccessInv, StatementHolds
<1>2. PICK t : t = db'
  OBVIOUS
<1>3. PICK p \in People : p = s.who
  BY <1>1
<1>4. running' \subseteq running
  BY DEF Invite, ChangeStatus, ChangeRole, ChangeAccess, ChangePolicy, Register, Commits
<1>5. CASE t = db
  BY <1>1, <1>2, <1>4, <1>5, StatementsStay
<1>6. PersonHolds(db, p)
  BY <1>1 DEF TablesHold, PersonHolds
<1>7. CASE t # db /\ Invite(s)
  <2>1. /\ DOMAIN t = DbFields
        /\ t.user = [db.user EXCEPT ![p] = IF @ = "none" THEN "active" ELSE @]
        /\ t.invitation = [db.invitation EXCEPT ![p] = "pending"]
        /\ t.identity = db.identity /\ t.roles = db.roles /\ t.panel = db.panel
    BY <1>1, <1>2, <1>3, <1>7, InviteWrites
  <2>2. ColumnsHold(t)
    BY <1>1, <2>1 DEF ColumnsHold, TablesHold
  <2>3. t.user[p] # "none" /\ t.invitation[p] = "pending" /\ t.identity[p] = db.identity[p]
        /\ t.roles[p] = db.roles[p] /\ t.panel = db.panel
    BY <1>1, <2>1 DEF TablesHold
  <2>4. PersonHolds(t, p)
    BY <1>6, <2>3 DEF PersonHolds
  <2>5. TablesHold(t)
    BY <1>1, <2>1, <2>2, <2>4, OneChanges DEF TablesHold
  <2>6. \A q \in People : db.user[q] # "none" => t.user[q] # "none"
    BY <1>1, <2>1 DEF TablesHold
  <2> QED
    BY <1>2, <1>4, <2>5, <2>6, StatementsStay
<1>8. CASE t # db /\ ChangeStatus(s)
  <2>1. /\ DOMAIN t = DbFields
        /\ t.user = [db.user EXCEPT ![p] = s.arg]
        /\ t.invitation = db.invitation
        /\ t.identity = db.identity /\ t.roles = db.roles /\ t.panel = db.panel
    BY <1>1, <1>2, <1>3, <1>8, StatusWrites
  <2>2. s.arg \in {"active", "suspended"} /\ db.user[p] # "none"
    BY <1>1, <1>3, <1>8 DEF StatementHolds, ChangeStatus
  <2>3. ColumnsHold(t)
    BY <1>1, <2>1, <2>2 DEF ColumnsHold, TablesHold
  <2>4. t.user[p] # "none"
    BY <1>1, <2>1, <2>2 DEF TablesHold
  <2>5. PersonHolds(t, p)
    BY <1>6, <2>1, <2>2, <2>4 DEF PersonHolds
  <2>6. TablesHold(t)
    BY <1>1, <2>1, <2>3, <2>5, OneChanges DEF TablesHold
  <2>7. \A q \in People : db.user[q] # "none" => t.user[q] # "none"
    BY <1>1, <2>1, <2>4 DEF TablesHold
  <2> QED
    BY <1>2, <1>4, <2>6, <2>7, StatementsStay
<1>9. CASE t # db /\ ChangeRole(s)
  <2>a. PICK roles :
          /\ DOMAIN db' = DbFields /\ db'.roles = [db.roles EXCEPT ![s.who] = roles]
          /\ db'.panel = IF roles = db.roles[s.who] THEN db.panel ELSE PanelOf(db.panel, s.who, roles)
          /\ db'.user = db.user /\ db'.invitation = db.invitation /\ db'.rows = db.rows
          /\ db'.identity = db.identity /\ db'.policy = db.policy /\ db'.away = db.away
    <3>1. ChangeRole(s)
      BY <1>9
    <3> QED
      BY <1>1, <3>1, RoleWrites
  <2>1. /\ DOMAIN t = DbFields /\ t.roles = [db.roles EXCEPT ![p] = roles]
        /\ t.panel = IF roles = db.roles[p] THEN db.panel ELSE PanelOf(db.panel, p, roles)
        /\ t.user = db.user /\ t.invitation = db.invitation /\ t.identity = db.identity
    BY <1>2, <1>3, <2>a
  <2>2. ColumnsHold(t)
    BY <1>1, <2>1 DEF ColumnsHold, TablesHold
  <2>3. t.roles[p] = roles
    BY <1>1, <2>1 DEF TablesHold
  <2>4. p \in t.panel <=> roles \cap SystemsAdmins # {}
    BY <1>6, <2>1 DEF PersonHolds, PanelOf
  <2>5. PersonHolds(t, p)
    BY <1>6, <2>1, <2>3, <2>4 DEF PersonHolds
  <2>6. \A q \in People \ {p} : t.roles[q] = db.roles[q] /\ (q \in t.panel <=> q \in db.panel)
    BY <1>1, <2>1 DEF TablesHold, PanelOf
  <2>7. TablesHold(t)
    BY <1>1, <2>1, <2>2, <2>5, <2>6, OneChanges
  <2> QED
    BY <1>2, <1>4, <2>1, <2>7, StatementsStay
<1>10. CASE t # db /\ (ChangeAccess(s) \/ ChangePolicy(s) \/ Register(s))
  <2>1. /\ DOMAIN t = DbFields /\ t.user = db.user /\ t.invitation = db.invitation
        /\ t.identity = db.identity /\ t.roles = db.roles /\ t.panel = db.panel
    BY <1>1, <1>2, <1>10, AccessWrites, PolicyWrites, RegisterWrites
  <2>2. TablesHold(t)
    BY <1>1, <2>1 DEF TablesHold
  <2> QED
    BY <1>2, <1>4, <2>1, <2>2, StatementsStay
<1> QED
  BY <1>5, <1>7, <1>8, <1>9, <1>10

LEMMA ComingsKeep ==
  ASSUME AccessInv, (\E p \in People : SignIn(p) \/ Lapse(p)) \/ CutOver
  PROVE  AccessInv'
<1>1. TablesHold(db)
  BY DEF AccessInv
<1>2. PICK t : t = db'
  OBVIOUS
<1>3. ASSUME NEW p \in People, SignIn(p) PROVE AccessInv'
  <2>1. /\ DOMAIN t = DbFields /\ running' = running
        /\ t.identity = [db.identity EXCEPT ![p] = "current"]
        /\ \/ /\ db.invitation[p] = "pending" /\ t.invitation = [db.invitation EXCEPT ![p] = "accepted"]
              /\ t.user = db.user /\ t.roles = db.roles /\ t.panel = db.panel
           \/ /\ db.invitation[p] # "pending" /\ \A q \in People : db.user[q] = "none"
              /\ t.user = [db.user EXCEPT ![p] = "active"] /\ t.roles = [db.roles EXCEPT ![p] = {"super_admin"}]
              /\ t.panel = db.panel \cup {p} /\ t.invitation = db.invitation
           \/ /\ db.identity[p] = "retired" /\ db.user[p] = "active"
              /\ t.user = db.user /\ t.roles = db.roles /\ t.panel = db.panel /\ t.invitation = db.invitation
    BY <1>1, <1>2, <1>3, SignInWrites
  <2>2. ColumnsHold(t)
    BY <1>1, <2>1 DEF ColumnsHold, TablesHold
  <2>3. t.identity[p] = "current"
    BY <1>1, <2>1 DEF TablesHold
  <2>4. PersonHolds(db, p)
    BY <1>1 DEF TablesHold, PersonHolds
  <2>5. PersonHolds(t, p) /\ \A q \in People : db.user[q] # "none" => t.user[q] # "none"
    <3>1. CASE db.invitation[p] = "pending" /\ t.user = db.user /\ t.roles = db.roles /\ t.panel = db.panel
      BY <2>3, <2>4, <3>1 DEF PersonHolds
    <3>2. CASE /\ \A q \in People : db.user[q] = "none"
               /\ t.user = [db.user EXCEPT ![p] = "active"] /\ t.roles = [db.roles EXCEPT ![p] = {"super_admin"}]
               /\ t.panel = db.panel \cup {p} /\ t.invitation = db.invitation
      <4>1. t.user[p] = "active" /\ t.roles[p] = {"super_admin"} /\ p \in t.panel
        BY <1>1, <3>2 DEF TablesHold
      <4>2. t.roles[p] \cap SystemsAdmins # {}
        BY <4>1 DEF SystemsAdmins
      <4> QED
        BY <2>3, <3>2, <4>1, <4>2 DEF PersonHolds
    <3>3. CASE t.user = db.user /\ t.roles = db.roles /\ t.panel = db.panel /\ t.invitation = db.invitation
      BY <2>3, <2>4, <3>3 DEF PersonHolds
    <3> QED
      BY <2>1, <3>1, <3>2, <3>3
  <2>6. TablesHold(t)
    <3>1. \A q \in People \ {p} :
           /\ t.user[q] = db.user[q] /\ t.identity[q] = db.identity[q] /\ t.invitation[q] = db.invitation[q]
           /\ t.roles[q] = db.roles[q] /\ (q \in t.panel <=> q \in db.panel)
      BY <1>1, <2>1 DEF TablesHold
    <3> QED
      BY <1>1, <2>2, <2>5, <3>1, OneChanges
  <2> QED
    BY <1>2, <2>1, <2>5, <2>6, StatementsStay
<1>4. ASSUME NEW p \in People, Lapse(p) PROVE AccessInv'
  <2>1. /\ DOMAIN t = DbFields /\ running' = running
        /\ db.invitation[p] = "pending" /\ t.invitation = [db.invitation EXCEPT ![p] = "lapsed"]
        /\ t.user = db.user /\ t.identity = db.identity /\ t.roles = db.roles /\ t.panel = db.panel
    BY <1>1, <1>2, <1>4, LapseWrites
  <2>2. ColumnsHold(t)
    BY <1>1, <2>1 DEF ColumnsHold, TablesHold
  <2>3. PersonHolds(db, p) /\ t.invitation[p] = "lapsed"
    BY <1>1, <2>1 DEF TablesHold, PersonHolds
  <2>4. PersonHolds(t, p)
    BY <2>1, <2>3 DEF PersonHolds
  <2>5. TablesHold(t)
    BY <1>1, <2>1, <2>2, <2>4, OneChanges DEF TablesHold
  <2> QED
    BY <1>2, <2>1, <2>5, StatementsStay
<1>5. CASE CutOver
  <2>1. /\ DOMAIN t = DbFields /\ running' = {} /\ running = {}
        /\ t.identity = [p \in People |-> IF db.identity[p] = "current" THEN "retired" ELSE db.identity[p]]
        /\ t.user = db.user /\ t.invitation = db.invitation /\ t.roles = db.roles /\ t.panel = db.panel
    BY <1>1, <1>2, <1>5, CutOverWrites
  <2>2. t.identity \in [People -> {"none", "current", "retired"}]
    BY <1>1, <2>1 DEF TablesHold
  <2>3. \A p \in People : t.identity[p] = "none" => db.identity[p] = "none"
    BY <2>1
  <2>4. TablesHold(t)
    BY <1>1, <2>1, <2>2, <2>3 DEF TablesHold
  <2> QED
    BY <1>2, <2>1, <2>4, StatementsStay
<1> QED
  BY <1>3, <1>4, <1>5

LEMMA AccessStart == AccessInit => AccessInv
<1> SUFFICES ASSUME AccessInit PROVE AccessInv
  OBVIOUS
<1>1. TablesHold(db)
  BY DEF AccessInit, TablesHold, DbFields
<1> QED
  BY <1>1 DEF AccessInit, AccessInv

LEMMA AccessStep == AccessInv /\ [AccessNext]_accessVars => AccessInv'
<1> SUFFICES ASSUME AccessInv, [AccessNext]_accessVars PROVE AccessInv'
  OBVIOUS
<1>1. ASSUME NEW p \in People, NEW actor \in People, BeginInvite(p, actor) PROVE AccessInv'
  BY <1>1, BeginKeeps DEF BeginInvite
<1>2. ASSUME NEW p \in People, NEW actor \in People, NEW status \in {"active", "suspended"}, BeginStatus(p, status, actor)
      PROVE AccessInv'
  BY <1>2, BeginKeeps DEF BeginStatus
<1>3. ASSUME NEW p \in People, NEW actor \in People, NEW role \in Roles, NEW on \in BOOLEAN, BeginRole(p, role, on, actor)
      PROVE AccessInv'
  BY <1>3, BeginKeeps DEF BeginRole
<1>4. ASSUME NEW p \in People, NEW actor \in People, NEW level \in Levels \cup {"none"}, BeginAccess(p, level, actor)
      PROVE AccessInv'
  BY <1>4, BeginKeeps DEF BeginAccess
<1>5. ASSUME NEW p \in People, NEW actor \in People, NEW to \in {"selected", "all"}, BeginRegister(p, to, actor)
      PROVE AccessInv'
  BY <1>5, BeginKeeps DEF BeginRegister
<1>6. ASSUME NEW actor \in People, NEW to \in {"selected", "all"}, BeginPolicy(to, actor)
      PROVE AccessInv'
  BY <1>6, BeginKeeps, AccessAssumption DEF BeginPolicy
<1>7. CASE UNCHANGED accessVars
  BY <1>7 DEF accessVars, AccessInv, StatementHolds, TablesHold
<1> QED
  BY <1>1, <1>2, <1>3, <1>4, <1>5, <1>6, <1>7, CommitKeeps, ComingsKeep DEF AccessNext

(* The page *)

\* Somebody's row of the directory.
RowOf(t, p) == [who |-> p, user |-> t.user[p], bound |-> t.identity[p] # "none", invitation |-> t.invitation[p]]

\* Everyone in the directory has one row, and no row is of anybody else.
LEMMA OneRowEach ==
  ASSUME NEW t
  PROVE  /\ \A row \in Rows(t) : \E p \in People : t.user[p] # "none" /\ row = RowOf(t, p)
         /\ {row.who : row \in Rows(t)} = {p \in People : t.user[p] # "none"}
         /\ \A p \in People : t.user[p] # "none" =>
              RowOf(t, p) \in Rows(t) /\ (CHOOSE row \in Rows(t) : row.who = p) = RowOf(t, p)
<1>1. Rows(t) = {RowOf(t, p) : p \in {q \in People : t.user[q] # "none"}}
  BY DEF Rows, RowOf
<1>2. \A p : RowOf(t, p).who = p
  BY DEF RowOf
<1>3. \A row \in Rows(t) : \E p \in People : t.user[p] # "none" /\ row = RowOf(t, p)
  BY <1>1
<1>4. ASSUME NEW p \in People, t.user[p] # "none"
      PROVE  RowOf(t, p) \in Rows(t) /\ (CHOOSE row \in Rows(t) : row.who = p) = RowOf(t, p)
  <2>1. RowOf(t, p) \in Rows(t)
    BY <1>1, <1>4
  <2>2. \A row \in Rows(t) : row.who = p => row = RowOf(t, p)
    BY <1>2, <1>3
  <2> QED
    BY <1>2, <2>1, <2>2
<1>5. {row.who : row \in Rows(t)} = {p \in People : t.user[p] # "none"}
  BY <1>2, <1>3, <1>4
<1> QED
  BY <1>3, <1>4, <1>5

LEMMA PageTells == AccessInv => PanelFollowsRole /\ PageAgrees
<1> SUFFICES ASSUME AccessInv PROVE PanelFollowsRole /\ PageAgrees
  OBVIOUS
<1>1. TablesHold(db)
  BY DEF AccessInv
<1>2. PanelFollowsRole
  BY <1>1 DEF TablesHold, PanelFollowsRole
<1>3. ASSUME NEW p \in People, db.user[p] # "none"
      PROVE  /\ Approved(db, p) <=> DirectoryStatus(RowOf(db, p)) \in {"active", "invited"}
             /\ ~Waiting(RowOf(db, p)) => Believable(RowOf(db, p))
  <2>1. PICK row : row = RowOf(db, p)
    OBVIOUS
  <2>2. /\ row.user = db.user[p] /\ row.invitation = db.invitation[p]
        /\ row.bound <=> db.identity[p] # "none"
    BY <2>1 DEF RowOf
  <2>3. db.user[p] \in {"active", "suspended"}
    BY <1>1, <1>3 DEF TablesHold
  <2>4. db.identity[p] = "none" => db.invitation[p] \in {"pending", "lapsed"}
    BY <1>1, <1>3 DEF TablesHold
  <2>5. CASE db.user[p] = "suspended"
    BY <2>1, <2>2, <2>4, <2>5 DEF Approved, DirectoryStatus, Believable, Waiting
  <2>6. CASE db.user[p] = "active" /\ db.identity[p] # "none"
    BY <2>1, <2>2, <2>6 DEF Approved, DirectoryStatus, Believable, Waiting
  <2>7. CASE db.user[p] = "active" /\ db.identity[p] = "none" /\ db.invitation[p] = "pending"
    BY <2>1, <2>2, <2>7 DEF Approved, DirectoryStatus, Believable, Waiting
  <2>8. CASE db.user[p] = "active" /\ db.identity[p] = "none" /\ db.invitation[p] = "lapsed"
    BY <2>1, <2>2, <2>8 DEF Approved, DirectoryStatus, Believable, Waiting
  <2> QED
    BY <2>3, <2>4, <2>5, <2>6, <2>7, <2>8
<1>4. CASE \A row \in Rows(db) : Believable(row)
  <2>1. PICK pp : pp = [p \in {row.who : row \in Rows(db)} |-> DirectoryStatus(CHOOSE row \in Rows(db) : row.who = p)]
    OBVIOUS
  <2>2. Directory(db) = [source |-> "postgres", people |-> pp]
    BY <1>4, <2>1 DEF Directory
  <2>3. DOMAIN pp = {p \in People : db.user[p] # "none"}
    BY <2>1, OneRowEach
  <2>4. \A p \in People : db.user[p] # "none" => pp[p] = DirectoryStatus(RowOf(db, p))
    BY <2>1, <2>3, OneRowEach
  <2>5. \A p \in People : Approved(db, p) <=> p \in DOMAIN pp /\ pp[p] \in {"active", "invited"}
    BY <1>3, <2>3, <2>4 DEF Approved
  <2> QED
    BY <1>2, <2>2, <2>5 DEF PageAgrees
<1>5. CASE ~\A row \in Rows(db) : Believable(row)
  <2>1. Directory(db).source = "unavailable"
    BY <1>5 DEF Directory
  <2>2. \E row \in Rows(db) : Waiting(row)
    BY <1>3, <1>5, OneRowEach
  <2> QED
    BY <1>2, <2>1, <2>2 DEF PageAgrees
<1> QED
  BY <1>4, <1>5

\* Whatever statements overlap, the panel is open to exactly those whose roles make them
\* systems operators, and the access page shows as active or invited exactly those whom
\* the database approves; only somebody invited again after signing in takes it away.
THEOREM PageFollowsTables == AccessSpec => [](PanelFollowsRole /\ PageAgrees)
<1>1. AccessSpec => []AccessInv
  BY AccessStart, AccessStep, PTL DEF AccessSpec
<1> QED
  BY <1>1, PageTells, PTL

(* The all policy covers everybody *)

\* What leaves the entitlements and makes nobody eligible leaves the cover.
LEMMA FewerEligible ==
  ASSUME CoverInv, NEW t, t = db', t.rows = db.rows, t.policy = db.policy, t.away = db.away,
         running' \subseteq running, used'.crossed = used.crossed, "crossed" \in DOMAIN used',
         \A p \in People : db.user[p] # "none" => t.user[p] # "none",
         \A p \in People : Eligible(t, p) => Eligible(db, p)
  PROVE  CoverInv'
<1>1. running' # {} \/ t.policy # "absent" => \E p \in People : t.user[p] # "none"
  BY DEF CoverInv
<1>2. t.policy = "all" =>
        \A p \in People \ (t.away \cup used'.crossed) : Eligible(t, p) => HeldOf(t, p) # {}
  BY DEF CoverInv, HeldOf
<1>3. \A s \in running' : ReadStands(s, t, used'.crossed)
  BY DEF CoverInv, ReadStands
<1>4. \A s \in running' : ReadStands(s, db, used.crossed)'
  BY <1>3 DEF ReadStands, Eligible, HeldOf
<1>5. \A r, s \in running' : Crosses(r, s)' => r.who \in used'.crossed
  BY DEF CoverInv, Crosses
<1> QED
  BY <1>1, <1>2, <1>4, <1>5 DEF CoverInv, Eligible, HeldOf, Crosses

\* What a statement that writes entitlements or the policy has to leave: the cover, and what
\* the statements beside it have read.
LEMMA CoverStands ==
  ASSUME CoverInv, NEW s \in running, NEW t, t = db', running' = running \ {s}, UNCHANGED used,
         \A p \in People : db.user[p] # "none" => t.user[p] # "none",
         t.policy = "all" =>
           \A p \in People \ (t.away \cup used.crossed) : Eligible(t, p) => HeldOf(t, p) # {},
         \A r \in running' : ReadStands(r, t, used.crossed)
  PROVE  CoverInv'
<1>1. \E p \in People : t.user[p] # "none"
  BY DEF CoverInv
<1>2. \A r \in running' : ReadStands(r, db, used.crossed)'
  BY DEF ReadStands, Eligible, HeldOf
<1>3. \A q, r \in running' : Crosses(q, r)' => q.who \in used'.crossed
  BY DEF CoverInv, Crosses
<1>4. "crossed" \in DOMAIN used'
  BY DEF CoverInv
<1> QED
  BY <1>1, <1>2, <1>3, <1>4 DEF CoverInv, Eligible, HeldOf, Crosses

LEMMA InviteCovers ==
  ASSUME AccessInv, CoverInv, NEW s \in running, Invite(s)
  PROVE  CoverInv'
<1>1. TablesHold(db) /\ s.who \in People
  BY DEF AccessInv, StatementHolds
<1>2. running' = running \ {s} /\ s.kind = "invite" /\ UNCHANGED used
  BY DEF Invite, Commits
<1>3. s.who \notin used.crossed =>
        s.read.policy = db.policy /\ (db.policy = "all" => HeldOf(s.read, s.who) \subseteq db.rows)
  BY <1>2 DEF CoverInv, ReadStands
<1>4. PICK t : t = db'
  OBVIOUS
<1>5. PICK p \in People : p = s.who
  BY <1>1
<1>6. CASE t = db
  BY <1>2, <1>4, <1>6, FewerEligible DEF CoverInv
<1>7. CASE t # db
  <2>1. /\ t.user = [db.user EXCEPT ![p] = IF @ = "none" THEN "active" ELSE @]
        /\ t.invitation = [db.invitation EXCEPT ![p] = "pending"]
        /\ t.rows = db.rows \cup (IF s.read.policy = "all" THEN Evergreen(s.read, {p}) ELSE {})
        /\ t.identity = db.identity /\ t.policy = db.policy /\ t.away = db.away
    BY <1>1, <1>4, <1>5, <1>7, InviteWrites
  <2>2. \A q \in People : db.user[q] # "none" => t.user[q] # "none"
    BY <1>1, <2>1 DEF TablesHold
  <2>3. ASSUME t.policy = "all", NEW q \in People \ (t.away \cup used.crossed), Eligible(t, q)
        PROVE  HeldOf(t, q) # {}
    <3>1. db.policy = "all" /\ db.rows \subseteq t.rows
      BY <2>1, <2>3
    <3>2. CASE q = p
      <4>0. s.read.policy = "all" /\ HeldOf(s.read, p) \subseteq t.rows
        BY <1>3, <1>5, <3>1, <3>2
      <4>1. CASE HeldOf(s.read, p) # {}
        BY <3>2, <4>0, <4>1 DEF HeldOf
      <4>2. CASE HeldOf(s.read, p) = {}
        <5>1. PICK row : row = NewRow(p, "user")
          OBVIOUS
        <5>2. row \in t.rows /\ row.who = q
          BY <2>1, <3>2, <4>0, <4>2, <5>1 DEF Evergreen, NewRow
        <5> QED
          BY <5>2 DEF HeldOf
      <4> QED
        BY <4>1, <4>2
    <3>3. CASE q # p
      <4>1. Eligible(db, q)
        BY <1>1, <2>1, <2>3, <3>3 DEF Eligible, TablesHold
      <4>2. HeldOf(db, q) # {}
        BY <2>1, <3>1, <4>1 DEF CoverInv
      <4> QED
        BY <3>1, <4>2 DEF HeldOf
    <3> QED
      BY <3>2, <3>3
  <2>4. ASSUME NEW r \in running' PROVE ReadStands(r, t, used.crossed)
    <3>1. ReadStands(r, db, used.crossed) /\ db.rows \subseteq t.rows
      BY <1>2, <2>1 DEF CoverInv
    <3>2. CASE r.kind = "policy"
      <4>1. Crosses(s, r)
        BY <1>2, <3>2 DEF Crosses
      <4>2. p \in used.crossed
        BY <1>2, <1>5, <4>1 DEF CoverInv
      <4>3. \A q \in People \ {p} : Eligible(t, q) => Eligible(db, q)
        BY <1>1, <2>1 DEF Eligible, TablesHold
      <4>4. \A q \in People \ used.crossed :
              HeldOf(r.read, q) \subseteq t.rows /\ (Eligible(t, q) => Eligible(r.read, q))
        <5>1. \A q \in People \ used.crossed :
                HeldOf(r.read, q) \subseteq db.rows /\ (Eligible(db, q) => Eligible(r.read, q))
          BY <3>1, <3>2 DEF ReadStands
        <5> QED
          BY <3>1, <4>2, <4>3, <5>1
      <4>5. t.policy # "absent" /\ r.read.user \in [People -> {"none", "active", "suspended"}]
        BY <2>1, <3>1, <3>2 DEF ReadStands
      <4> QED
        BY <3>2, <4>4, <4>5 DEF ReadStands
    <3>3. CASE r.kind # "policy"
      BY <2>1, <3>1, <3>3 DEF ReadStands
    <3> QED
      BY <3>2, <3>3
  <2> QED
    BY <1>2, <1>4, <2>2, <2>3, <2>4, CoverStands
<1> QED
  BY <1>6, <1>7

LEMMA StatusCovers ==
  ASSUME AccessInv, CoverInv, NEW s \in running, ChangeStatus(s)
  PROVE  CoverInv'
<1>1. TablesHold(db) /\ s.who \in People /\ s.arg \in {"active", "suspended"} /\ db.user[s.who] # "none"
  BY DEF AccessInv, StatementHolds, ChangeStatus
<1>2. running' \subseteq running /\ used'.crossed = used.crossed /\ "crossed" \in DOMAIN used'
  BY DEF ChangeStatus, Commits, CoverInv
<1>3. PICK t : t = db'
  OBVIOUS
<1>4. CASE t = db
  BY <1>2, <1>3, <1>4, FewerEligible
<1>5. CASE t # db
  <2>1. /\ t.user = [db.user EXCEPT ![s.who] = s.arg] /\ t.invitation = db.invitation
        /\ t.rows = db.rows /\ t.identity = db.identity /\ t.policy = db.policy /\ t.away = db.away
    BY <1>1, <1>3, <1>5, StatusWrites
  <2>2. \A p \in People : db.user[p] # "none" => t.user[p] # "none"
    BY <1>1, <2>1 DEF TablesHold
  <2>3. \A p \in People : Eligible(t, p) => Eligible(db, p)
    BY <1>1, <2>1 DEF Eligible, TablesHold
  <2> QED
    BY <1>2, <1>3, <2>1, <2>2, <2>3, FewerEligible
<1> QED
  BY <1>4, <1>5

LEMMA RoleCovers ==
  ASSUME AccessInv, CoverInv, NEW s \in running, ChangeRole(s)
  PROVE  CoverInv'
<1>1. TablesHold(db)
  BY DEF AccessInv
<1>2. PICK t : t = db'
  OBVIOUS
<1>3. db'.user = db.user /\ db'.invitation = db.invitation /\ db'.rows = db.rows
      /\ db'.identity = db.identity /\ db'.policy = db.policy /\ db'.away = db.away
  BY <1>1, RoleWrites
<1>4. running' \subseteq running /\ used'.crossed = used.crossed /\ "crossed" \in DOMAIN used'
  BY DEF ChangeRole, Commits, CoverInv
<1>5. \A p \in People : Eligible(t, p) => Eligible(db, p)
  BY <1>2, <1>3 DEF Eligible
<1> QED
  BY <1>2, <1>3, <1>4, <1>5, FewerEligible

\* A change of a level that writes was begun under the selected policy; it crossed every
\* statement beside it that sets the policy.
LEMMA AccessCovers ==
  ASSUME AccessInv, CoverInv, NEW s \in running, ChangeAccess(s)
  PROVE  CoverInv'
<1>1. TablesHold(db) /\ s.who \in People
  BY DEF AccessInv, StatementHolds
<1>2. running' = running \ {s} /\ s.kind = "access" /\ UNCHANGED used
  BY DEF ChangeAccess, Commits
<1>3. s.who \notin used.crossed => (s.read.policy = "selected" => db.policy = "selected")
  BY <1>2 DEF CoverInv, ReadStands
<1>4. PICK t : t = db'
  OBVIOUS
<1>5. PICK p \in People : p = s.who
  BY <1>1
<1>6. CASE t = db
  BY <1>2, <1>4, <1>6, FewerEligible DEF CoverInv
<1>7. CASE t # db
  <2>1. /\ s.read.policy = "selected" /\ t.user = db.user /\ t.policy = db.policy /\ t.away = db.away
        /\ t.invitation = db.invitation /\ t.identity = db.identity
    BY <1>1, <1>4, <1>7, AccessWrites
  <2>2. \A q \in People \ {p} : HeldOf(db, q) \subseteq t.rows
    <3>1. t.rows = (db.rows \ HeldOf(s.read, p)) \cup
                     (IF s.arg = "none" THEN {} ELSE {[who |-> p, level |-> s.arg, by |-> s.nr]})
      BY <1>1, <1>4, <1>5, <1>7 DEF ChangeAccess, TablesHold, DbFields
    <3> QED
      BY <3>1 DEF HeldOf
  <2>3. ASSUME t.policy = "all", NEW q \in People \ (t.away \cup used.crossed), Eligible(t, q)
        PROVE  HeldOf(t, q) # {}
    <3>1. p \in used.crossed
      BY <1>3, <1>5, <2>1, <2>3
    <3>2. Eligible(db, q) /\ HeldOf(db, q) \subseteq t.rows
      BY <2>1, <2>2, <2>3, <3>1 DEF Eligible
    <3>3. HeldOf(db, q) # {}
      BY <2>1, <2>3, <3>2 DEF CoverInv
    <3> QED
      BY <3>2, <3>3 DEF HeldOf
  <2>4. ASSUME NEW r \in running' PROVE ReadStands(r, t, used.crossed)
    <3>1. ReadStands(r, db, used.crossed)
      BY <1>2 DEF CoverInv
    <3>2. CASE r.kind = "policy"
      <4>1. Crosses(s, r)
        BY <1>2, <3>2 DEF Crosses
      <4>2. p \in used.crossed
        BY <1>2, <1>5, <4>1 DEF CoverInv
      <4>3. ASSUME NEW q \in People \ used.crossed
            PROVE  HeldOf(r.read, q) \subseteq t.rows /\ (Eligible(t, q) => Eligible(r.read, q))
        <5>1. HeldOf(r.read, q) \subseteq db.rows /\ (Eligible(db, q) => Eligible(r.read, q))
          BY <3>1, <3>2 DEF ReadStands
        <5>2. HeldOf(r.read, q) \subseteq HeldOf(db, q) /\ Eligible(t, q) = Eligible(db, q)
          BY <2>1, <5>1 DEF HeldOf, Eligible
        <5> QED
          BY <2>2, <4>2, <5>1, <5>2
      <4> QED
        BY <2>1, <3>1, <3>2, <4>3 DEF ReadStands
    <3>3. CASE r.kind = "invite"
      <4>1. t.policy = "all" => p \in used.crossed
        BY <1>3, <1>5, <2>1
      <4>2. r.who \in People
        BY <1>2 DEF AccessInv, StatementHolds
      <4>3. ASSUME r.who \notin used.crossed, t.policy = "all" PROVE HeldOf(r.read, r.who) \subseteq t.rows
        <5>1. HeldOf(r.read, r.who) \subseteq db.rows
          BY <2>1, <3>1, <3>3, <4>3 DEF ReadStands
        <5>2. HeldOf(r.read, r.who) \subseteq HeldOf(db, r.who)
          BY <5>1 DEF HeldOf
        <5> QED
          BY <2>2, <4>1, <4>2, <4>3, <5>2
      <4> QED
        BY <2>1, <3>1, <3>3, <4>3 DEF ReadStands
    <3>4. CASE r.kind \notin {"policy", "invite"}
      BY <2>1, <3>1, <3>4 DEF ReadStands
    <3> QED
      BY <3>2, <3>3, <3>4
  <2>5. \A q \in People : db.user[q] # "none" => t.user[q] # "none"
    BY <2>1
  <2> QED
    BY <1>2, <1>4, <2>3, <2>4, <2>5, CoverStands
<1> QED
  BY <1>6, <1>7

LEMMA PolicyCovers ==
  ASSUME AccessInv, CoverInv, NEW s \in running, ChangePolicy(s)
  PROVE  CoverInv'
<1>1. TablesHold(db) /\ s.arg \in {"selected", "all"}
  BY DEF AccessInv, StatementHolds, ChangePolicy
<1>2. running' = running \ {s} /\ s.kind = "policy" /\ UNCHANGED used
  BY DEF ChangePolicy, Commits
<1>3. /\ s.read.user \in [People -> {"none", "active", "suspended"}]
      /\ \A p \in People \ used.crossed :
           HeldOf(s.read, p) \subseteq db.rows /\ (Eligible(db, p) => Eligible(s.read, p))
  BY <1>2 DEF CoverInv, ReadStands
<1>4. PICK t : t = db'
  OBVIOUS
<1>5. /\ t.policy = s.arg /\ t.away = {p \in People : s.read.user[p] = "suspended"}
      /\ t.rows = db.rows \cup (IF s.arg = "all" THEN Evergreen(s.read, {p \in People : Approved(s.read, p)}) ELSE {})
      /\ t.user = db.user /\ t.invitation = db.invitation /\ t.identity = db.identity
  BY <1>1, <1>4, PolicyWrites
<1>6. \A p \in People : Eligible(t, p) => Eligible(db, p)
  BY <1>5 DEF Eligible
<1>7. ASSUME t.policy = "all", NEW p \in People \ (t.away \cup used.crossed), Eligible(t, p)
      PROVE  HeldOf(t, p) # {}
  <2>1. Eligible(s.read, p) /\ HeldOf(s.read, p) \subseteq db.rows
    BY <1>3, <1>6, <1>7
  <2>2. s.read.user[p] = "active"
    BY <1>3, <1>5, <1>7, <2>1 DEF Eligible
  <2>3. Approved(s.read, p)
    BY <2>1, <2>2 DEF Eligible, Approved
  <2>4. CASE HeldOf(s.read, p) # {}
    BY <1>5, <2>1, <2>4 DEF HeldOf
  <2>5. CASE HeldOf(s.read, p) = {}
    <3>1. PICK row : row = NewRow(p, "user")
      OBVIOUS
    <3>2. row \in t.rows /\ row.who = p
      BY <1>5, <1>7, <2>3, <2>5, <3>1 DEF Evergreen, NewRow
    <3> QED
      BY <3>2 DEF HeldOf
  <2> QED
    BY <2>4, <2>5
<1>8. ASSUME NEW r \in running' PROVE ReadStands(r, t, used.crossed)
  <2>1. r \in running /\ ReadStands(r, db, used.crossed)
    BY <1>2 DEF CoverInv
  <2>2. CASE r.kind \in {"invite", "access"}
    <3>1. Crosses(r, s)
      BY <1>2, <2>2 DEF Crosses
    <3>2. r.who \in used.crossed
      BY <2>1, <3>1 DEF CoverInv
    <3> QED
      BY <2>2, <3>2 DEF ReadStands
  <2>3. CASE r.kind \notin {"invite", "access"}
    <3>1. db.rows \subseteq t.rows /\ t.policy # "absent"
      BY <1>1, <1>5
    <3> QED
      BY <1>6, <2>1, <2>3, <3>1 DEF ReadStands
  <2> QED
    BY <2>2, <2>3
<1>9. \A q \in People : db.user[q] # "none" => t.user[q] # "none"
  BY <1>5
<1> QED
  BY <1>2, <1>4, <1>7, <1>8, <1>9, CoverStands

LEMMA RegisterCovers ==
  ASSUME AccessInv, CoverInv, NEW s \in running, Register(s)
  PROVE  CoverInv'
<1>1. TablesHold(db) /\ s.arg \in {"selected", "all"}
  BY DEF AccessInv, StatementHolds, Register
<1>2. running' = running \ {s} /\ s.kind = "register" /\ UNCHANGED used
  BY DEF Register, Commits
<1>3. PICK t : t = db'
  OBVIOUS
<1>4. CASE t = db
  BY <1>2, <1>3, <1>4, FewerEligible DEF CoverInv
<1>5. CASE t # db
  <2>1. /\ t.policy = s.arg /\ t.away = {p \in People : db.user[p] = "suspended"}
        /\ s.arg = "all" => \A p \in People : Approved(db, p) => HeldOf(t, p) # {}
        /\ t.user = db.user /\ t.invitation = db.invitation /\ t.identity = db.identity
    BY <1>1, <1>3, <1>5, RegisterWrites
  <2>2. db.policy = "absent"
    BY <1>3, <1>5 DEF Register
  <2>3. ASSUME t.policy = "all", NEW p \in People \ (t.away \cup used.crossed), Eligible(t, p)
        PROVE  HeldOf(t, p) # {}
    <3>1. Approved(db, p)
      BY <1>1, <2>1, <2>3 DEF Eligible, Approved, TablesHold
    <3> QED
      BY <2>1, <2>3, <3>1
  <2>4. ASSUME NEW r \in running' PROVE ReadStands(r, t, used.crossed)
    <3>1. r \in running /\ ReadStands(r, db, used.crossed)
      BY <1>2 DEF CoverInv
    <3>2. CASE r.kind = "invite"
      <4>1. Crosses(r, s)
        BY <1>2, <3>2 DEF Crosses
      <4>2. r.who \in used.crossed
        BY <3>1, <4>1 DEF CoverInv
      <4> QED
        BY <3>2, <4>2 DEF ReadStands
    <3>3. CASE r.kind # "invite"
      BY <2>2, <3>1, <3>3 DEF ReadStands
    <3> QED
      BY <3>2, <3>3
  <2>5. \A q \in People : db.user[q] # "none" => t.user[q] # "none"
    BY <2>1
  <2> QED
    BY <1>2, <1>3, <2>3, <2>4, <2>5, CoverStands
<1> QED
  BY <1>4, <1>5

LEMMA ComingsCover ==
  ASSUME AccessInv, CoverInv, (\E p \in People : SignIn(p) \/ Lapse(p)) \/ CutOver
  PROVE  CoverInv'
<1>1. TablesHold(db)
  BY DEF AccessInv
<1>2. PICK t : t = db'
  OBVIOUS
<1>0. used'.crossed = used.crossed /\ "crossed" \in DOMAIN used'
  <2>1. "crossed" \in DOMAIN used
    BY DEF CoverInv
  <2>2. UNCHANGED used \/ \E n : used' = [used EXCEPT !.lapses = n]
    BY DEF SignIn, Lapse, CutOver
  <2>3. CASE UNCHANGED used
    BY <2>1, <2>3
  <2>4. ASSUME NEW n, used' = [used EXCEPT !.lapses = n] PROVE used'.crossed = used.crossed /\ "crossed" \in DOMAIN used'
    BY <2>1, <2>4
  <2> QED
    BY <2>2, <2>3, <2>4
<1>3. ASSUME NEW p \in People, SignIn(p) PROVE CoverInv'
  <2>1. /\ running' = running /\ t.identity = [db.identity EXCEPT ![p] = "current"]
        /\ t.rows = db.rows /\ t.policy = db.policy /\ t.away = db.away
        /\ \/ /\ db.invitation[p] = "pending" /\ t.invitation = [db.invitation EXCEPT ![p] = "accepted"]
              /\ t.user = db.user
           \/ /\ \A q \in People : db.user[q] = "none"
              /\ t.user = [db.user EXCEPT ![p] = "active"] /\ t.invitation = db.invitation
           \/ /\ db.identity[p] = "retired" /\ db.user[p] = "active"
              /\ t.user = db.user /\ t.invitation = db.invitation
    BY <1>1, <1>2, <1>3, SignInWrites
  <2>2. CASE db.invitation[p] = "pending" /\ t.invitation = [db.invitation EXCEPT ![p] = "accepted"] /\ t.user = db.user
    <3>1. \A q \in People : Eligible(t, q) => Eligible(db, q)
      BY <1>1, <2>1, <2>2 DEF TablesHold, Eligible
    <3> QED
      BY <1>0, <1>2, <2>1, <2>2, <3>1, FewerEligible
  <2>3. CASE db.identity[p] = "retired" /\ t.user = db.user /\ t.invitation = db.invitation
    <3>1. \A q \in People : Eligible(t, q) => Eligible(db, q)
      BY <1>1, <2>1, <2>3 DEF TablesHold, Eligible
    <3> QED
      BY <1>0, <1>2, <2>1, <2>3, <3>1, FewerEligible
  <2>4. CASE (\A q \in People : db.user[q] = "none") /\ t.user = [db.user EXCEPT ![p] = "active"]
    <3>1. running' = {} /\ t.policy = "absent"
      BY <2>1, <2>4 DEF CoverInv
    <3> QED
      BY <1>0, <1>2, <3>1 DEF CoverInv
  <2> QED
    BY <2>1, <2>2, <2>3, <2>4
<1>4. ASSUME NEW p \in People, Lapse(p) PROVE CoverInv'
  <2>1. /\ running' = running /\ t.invitation = [db.invitation EXCEPT ![p] = "lapsed"]
        /\ t.user = db.user /\ t.identity = db.identity /\ t.rows = db.rows /\ t.policy = db.policy /\ t.away = db.away
    BY <1>1, <1>2, <1>4, LapseWrites
  <2>2. \A q \in People : Eligible(t, q) => Eligible(db, q)
    BY <1>1, <2>1 DEF TablesHold, Eligible
  <2> QED
    BY <1>0, <1>2, <2>1, <2>2, FewerEligible
<1>5. CASE CutOver
  <2>1. /\ running' = {} /\ running = {}
        /\ t.identity = [p \in People |-> IF db.identity[p] = "current" THEN "retired" ELSE db.identity[p]]
        /\ t.user = db.user /\ t.invitation = db.invitation /\ t.rows = db.rows /\ t.policy = db.policy /\ t.away = db.away
    BY <1>1, <1>2, <1>5, CutOverWrites
  <2>2. \A q \in People : Eligible(t, q) => Eligible(db, q)
    BY <1>1, <2>1 DEF TablesHold, Eligible
  <2> QED
    BY <1>0, <1>2, <2>1, <2>2, FewerEligible
<1> QED
  BY <1>3, <1>4, <1>5

\* A statement that begins has read the tables as they are; whom it crosses is noted.
LEMMA BeginCovers ==
  ASSUME AccessInv, CoverInv, NEW kind, NEW who \in People, NEW arg, NEW actor \in People,
         NEW roles, Administers(db, actor, roles), Begin(kind, who, arg, actor),
         kind = "policy" => db.policy # "absent"
  PROVE  CoverInv'
<1>1. PICK s : s = [kind |-> kind, who |-> who, arg |-> arg, read |-> db, nr |-> used.changes]
  OBVIOUS
<1>2. running' = running \cup {s} /\ db' = db
  BY <1>1 DEF Begin
<1>3. s.kind = kind /\ s.read = db /\ s.who = who
  BY <1>1
<1>4. \E p \in People : db.user[p] # "none"
  BY DEF Administers
<1>5. "crossed" \in DOMAIN used' /\ used'.crossed = used.crossed \cup Crossed(running')
  BY DEF Begin, CoverInv
<1>6. ReadStands(s, db, used'.crossed)
  BY <1>3 DEF ReadStands, AccessInv, TablesHold, HeldOf
<1>7. \A r \in running' : ReadStands(r, db, used.crossed)'
  <2>1. \A r \in running : ReadStands(r, db, used'.crossed)
    BY <1>5 DEF CoverInv, ReadStands
  <2> QED
    BY <1>2, <1>6, <2>1 DEF ReadStands, Eligible, HeldOf
<1>8. \A r, q \in running' : Crosses(r, q)' => r.who \in used'.crossed
  <2> SUFFICES ASSUME NEW r \in running', NEW q \in running', Crosses(r, q) PROVE r.who \in used'.crossed
    BY DEF Crosses
  <2>1. r.who \in People
    BY <1>2, <1>3 DEF AccessInv, StatementHolds
  <2>2. r.who \in Crossed(running')
    BY <2>1 DEF Crossed
  <2> QED
    BY <1>5, <2>2
<1>9. db.policy = "all" =>
        \A p \in People \ (db.away \cup used'.crossed) : Eligible(db, p) => HeldOf(db, p) # {}
  BY <1>5 DEF CoverInv
<1> QED
  BY <1>2, <1>4, <1>5, <1>7, <1>8, <1>9 DEF CoverInv, Eligible, HeldOf, Crosses

LEMMA CoverStep == AccessInv /\ CoverInv /\ [AccessNext]_accessVars => CoverInv'
<1> SUFFICES ASSUME AccessInv, CoverInv, [AccessNext]_accessVars PROVE CoverInv'
  OBVIOUS
<1>1. ASSUME NEW p \in People, NEW actor \in People,
             \/ BeginInvite(p, actor)
             \/ \E status \in {"active", "suspended"} : BeginStatus(p, status, actor)
             \/ \E role \in Roles, on \in BOOLEAN : BeginRole(p, role, on, actor)
             \/ \E level \in Levels \cup {"none"} : BeginAccess(p, level, actor)
             \/ \E to \in {"selected", "all"} : BeginRegister(p, to, actor)
      PROVE  CoverInv'
  BY <1>1, BeginCovers DEF BeginInvite, BeginStatus, BeginRole, BeginAccess, BeginRegister
<1>2. ASSUME NEW actor \in People, NEW to \in {"selected", "all"}, BeginPolicy(to, actor) PROVE CoverInv'
  BY <1>2, BeginCovers, AccessAssumption DEF BeginPolicy
<1>3. ASSUME NEW s \in running,
             Invite(s) \/ ChangeStatus(s) \/ ChangeRole(s) \/ ChangeAccess(s) \/ ChangePolicy(s) \/ Register(s)
      PROVE  CoverInv'
  BY <1>3, InviteCovers, StatusCovers, RoleCovers, AccessCovers, PolicyCovers, RegisterCovers
<1>4. CASE UNCHANGED accessVars
  <2>1. "crossed" \in DOMAIN used' /\ used'.crossed = used.crossed
    BY <1>4 DEF accessVars, CoverInv
  <2> QED
    BY <1>4, <2>1, FewerEligible DEF accessVars
<1> QED
  BY <1>1, <1>2, <1>3, <1>4, ComingsCover DEF AccessNext

LEMMA CoverStart == AccessInit => CoverInv
BY DEF AccessInit, CoverInv

\* Whatever statements overlap, what administrators decide one by one and for everybody stays
\* together: the panel with the roles, the page with the database, and under the all policy,
\* once nothing runs, an entitlement with everyone approved, but who was suspended when the
\* policy was set, and whose invitation or level was being written while somebody set it.
THEOREM DecisionsStand == AccessSpec => []DecisionsHold
<1>1. AccessInit => AccessInv /\ CoverInv
  BY AccessStart, CoverStart
<1>2. AccessInv /\ CoverInv /\ [AccessNext]_accessVars => (AccessInv /\ CoverInv)'
  BY AccessStep, CoverStep
<1>3. CoverInv => CoverHolds
  BY DEF CoverInv, CoverHolds, Covered, Eligible, Approved
<1>4. AccessInv /\ CoverInv => DecisionsHold
  BY <1>3, PageTells DEF DecisionsHold
<1>5. AccessSpec => [](AccessInv /\ CoverInv)
  BY <1>1, <1>2, PTL DEF AccessSpec
<1> QED
  BY <1>4, <1>5, PTL
-----------------------------------------------------------------------------
(* What reviewers of money see *)

RowFields == {"kind", "store", "status", "note", "at", "document", "sound"}

\* A record has been given its time by the database's clock.
RecordHolds(r, now) ==
  r # Unsent => DOMAIN r = RowFields /\ r.kind \in MoneyKinds /\ r.at \in Nat /\ r.at <= now

\* What a page shows of a record was the record at a time that, as the page gives it, is
\* not after the record's; whose time it gives exactly is the record as it is.
ShownHolds(q, r) ==
  q # Unsent =>
    /\ r # Unsent
    /\ q.at \in Nat /\ q.at * Unit <= r.at
    /\ r.at = q.at * Unit => q = ShownMoney(r)

\* A review on its way to the UPDATE chose a status that is allowed for what its page shows.
ReviewHolds(r, shown) ==
  r.step = "write" =>
    /\ r.of \in Submissions /\ shown[r.of] # Unsent
    /\ MoneyAllowed(shown[r.of].kind, shown[r.of].status, r.status)

MoneyInv ==
  /\ clock \in Nat
  /\ DOMAIN submission = Submissions /\ DOMAIN queue = Reviewers /\ DOMAIN review = Reviewers
  /\ \A s \in Submissions : RecordHolds(submission[s], clock)
  /\ \A v \in Reviewers :
       /\ DOMAIN queue[v] = Submissions
       /\ \A s \in Submissions : ShownHolds(queue[v][s], submission[s])
       /\ ReviewHolds(review[v], queue[v])

\* A time as the page gives it, in the database's units, is not after it.
LEMMA DivDown ==
  ASSUME NEW n \in Nat, NEW k \in Nat \ {0}
  PROVE  n \div k \in Nat /\ (n \div k) * k <= n
OBVIOUS

\* A page that has just been loaded shows the record as it is.
LEMMA ShownNow ==
  ASSUME NEW r, NEW now \in Nat, RecordHolds(r, now), r # Unsent
  PROVE  ShownHolds(ShownMoney(r), r) /\ ShownMoney(r) # Unsent
                /\ ShownMoney(r).kind = r.kind /\ ShownMoney(r).status = r.status
<1>1. DOMAIN r = RowFields /\ r.kind \in MoneyKinds /\ r.at \in Nat
  BY DEF RecordHolds
<1>2. PICK q : q = ShownMoney(r)
  OBVIOUS
<1>3. q.at = r.at \div Unit /\ q.kind = r.kind /\ q.status = r.status
  BY <1>1, <1>2 DEF ShownMoney, RowFields
<1>4. q.at \in Nat /\ q.at * Unit <= r.at
  BY <1>1, <1>3, DivDown, MoneyAssumption
<1>5. q # Unsent
  BY <1>1, <1>3 DEF Unsent, MoneyKinds
<1> QED
  BY <1>2, <1>3, <1>4, <1>5 DEF ShownHolds

\* A record whose time has moved on is not the one a page showed before.
LEMMA ShownBefore ==
  ASSUME NEW q, NEW old, NEW new, NEW now \in Nat, RecordHolds(old, now), ShownHolds(q, old),
         new # Unsent, new.at \in Nat, new.at > now
  PROVE  ShownHolds(q, new)
<1> SUFFICES ASSUME q # Unsent PROVE ShownHolds(q, new)
  BY DEF ShownHolds
<1>1. q.at \in Nat /\ q.at * Unit <= old.at /\ old.at \in Nat /\ old.at <= now
  BY DEF ShownHolds, RecordHolds
<1>2. q.at * Unit \in Nat
  BY <1>1, MoneyAssumption
<1>3. q.at * Unit < new.at
  BY <1>1, <1>2
<1> QED
  BY <1>1, <1>2, <1>3 DEF ShownHolds

\* Every change of a database record was decided on the record as it is.
SeenWhenChanged ==
  \A s \in Submissions :
    submission[s] # Unsent /\ submission[s].store = "database" /\ submission'[s] # submission[s] =>
      \E v \in Reviewers :
        /\ review[v].step = "write" /\ review[v].of = s
        /\ ShownMoney(submission[s]) = queue[v][s]
        /\ MoneyAllowed(submission[s].kind, submission[s].status, submission'[s].status)

LEMMA SubmitKeeps ==
  ASSUME MoneyInv, NEW s \in Submissions, NEW kind \in MoneyKinds, NEW store, NEW document, NEW sound,
         SubmitMoney(s, kind, store, document, sound)
  PROVE  MoneyInv' /\ SeenWhenChanged
<1>1. PICK t \in (clock + 1)..MaxTime :
        /\ clock' = t
        /\ submission' = [submission EXCEPT ![s] =
             [kind |-> kind, store |-> store, status |-> "submitted", note |-> "", at |-> t,
              document |-> document, sound |-> sound]]
  BY DEF SubmitMoney
<1>2. PICK r : r = [kind |-> kind, store |-> store, status |-> "submitted", note |-> "", at |-> t,
                    document |-> document, sound |-> sound]
  OBVIOUS
<1>a. clock \in Nat
  BY DEF MoneyInv
<1>b. MaxTime \in Nat
  BY MoneyAssumption
<1>3. clock \in Nat /\ t \in Nat /\ clock < t
  <2>1. t \in (clock + 1)..MaxTime
    OBVIOUS
  <2> QED
    BY <1>a, <1>b, <2>1
<1>4. /\ submission' = [submission EXCEPT ![s] = r] /\ submission[s] = Unsent
      /\ queue' = queue /\ review' = review
  BY <1>1, <1>2 DEF SubmitMoney
<1>5. \A x \in Submissions : submission'[x] = IF x = s THEN r ELSE submission[x]
  BY <1>4 DEF MoneyInv
<1>6. RecordHolds(r, t)
  <2>1. DOMAIN r = RowFields /\ r.kind = kind /\ r.at = t
    BY <1>2 DEF RowFields
  <2> QED
    BY <1>3, <2>1 DEF RecordHolds
<1>7. \A x \in Submissions : RecordHolds(submission'[x], t)
  BY <1>3, <1>5, <1>6 DEF MoneyInv, RecordHolds
<1>8. \A v \in Reviewers, x \in Submissions : ShownHolds(queue[v][x], submission'[x])
  BY <1>4, <1>5 DEF MoneyInv, ShownHolds
<1>9. MoneyInv'
  <2>1. DOMAIN submission' = Submissions /\ clock' = t
    BY <1>1, <1>4 DEF MoneyInv
  <2> QED
    BY <1>3, <1>4, <1>7, <1>8, <2>1 DEF MoneyInv, ShownHolds, RecordHolds, ReviewHolds
<1>10. SeenWhenChanged
  BY <1>4, <1>5 DEF SeenWhenChanged
<1> QED
  BY <1>9, <1>10

LEMMA OpenKeeps ==
  ASSUME MoneyInv, NEW v \in Reviewers, NEW readable, OpenQueue(v, readable)
  PROVE  MoneyInv' /\ SeenWhenChanged
<1>1. PICK page : page = [s \in Submissions |->
          IF /\ submission[s] # Unsent
             /\ submission[s].store = "airtable" => ReadFromAirtable(submission[s], readable)
          THEN ShownMoney(submission[s]) ELSE Unsent]
  OBVIOUS
<1>2. queue' = [queue EXCEPT ![v] = page]
  BY <1>1 DEF OpenQueue
<1>3. clock' = clock /\ submission' = submission /\ review' = review /\ review[v] = NoReview
  BY DEF OpenQueue
<1>4. ASSUME NEW s \in Submissions PROVE ShownHolds(page[s], submission[s])
  <2>1. CASE page[s] = Unsent
    BY <2>1 DEF ShownHolds
  <2>2. CASE page[s] # Unsent
    <3>1. submission[s] # Unsent /\ page[s] = ShownMoney(submission[s])
      BY <1>1, <2>2
    <3>2. RecordHolds(submission[s], clock) /\ clock \in Nat
      BY DEF MoneyInv
    <3> QED
      BY <3>1, <3>2, ShownNow
  <2> QED
    BY <2>1, <2>2
<1>5. \A w \in Reviewers : queue'[w] = IF w = v THEN page ELSE queue[w]
  BY <1>2 DEF MoneyInv
<1>6. review[v].step # "write"
  BY <1>3 DEF NoReview
<1>7. DOMAIN page = Submissions /\ DOMAIN queue' = Reviewers
  BY <1>1, <1>2 DEF MoneyInv
<1>8. ASSUME NEW w \in Reviewers
      PROVE  /\ DOMAIN queue'[w] = Submissions
             /\ \A s \in Submissions : ShownHolds(queue'[w][s], submission[s])
             /\ ReviewHolds(review[w], queue'[w])
  <2>1. CASE w = v
    BY <1>4, <1>5, <1>6, <1>7, <2>1 DEF ReviewHolds
  <2>2. CASE w # v
    BY <1>5, <2>2 DEF MoneyInv
  <2> QED
    BY <2>1, <2>2
<1>9. MoneyInv'
  BY <1>3, <1>7, <1>8 DEF MoneyInv, ShownHolds, RecordHolds, ReviewHolds
<1> QED
  BY <1>3, <1>9 DEF SeenWhenChanged

LEMMA SaveReviewKeeps ==
  ASSUME MoneyInv, NEW v \in Reviewers, NEW s \in Submissions, NEW status, NEW note, SaveReview(v, s, status, note)
  PROVE  MoneyInv' /\ SeenWhenChanged
<1>1. PICK r : review' = [review EXCEPT ![v] = r]
               /\ r \in {[step |-> "write", of |-> s, status |-> status, note |-> note], RefusedReview(s)}
  BY DEF SaveReview
<1>2. MayReview(queue[v][s], status) /\ clock' = clock /\ submission' = submission /\ queue' = queue
  BY DEF SaveReview
<1>3. ReviewHolds(r, queue[v])
  <2>1. CASE r = RefusedReview(s)
    BY <2>1 DEF ReviewHolds, RefusedReview
  <2>2. CASE r = [step |-> "write", of |-> s, status |-> status, note |-> note]
    <3>1. r.of = s /\ r.status = status
      BY <2>2
    <3> QED
      BY <1>2, <3>1 DEF ReviewHolds, MayReview
  <2> QED
    BY <1>1, <2>1, <2>2
<1>4. DOMAIN review' = Reviewers /\ \A w \in Reviewers : ReviewHolds(review'[w], queue[w])
  BY <1>1, <1>3 DEF MoneyInv
<1>5. MoneyInv'
  BY <1>2, <1>4 DEF MoneyInv, ShownHolds, RecordHolds, ReviewHolds
<1> QED
  BY <1>2, <1>5 DEF SeenWhenChanged

LEMMA WriteReviewKeeps ==
  ASSUME MoneyInv, NEW v \in Reviewers, WriteReview(v)
  PROVE  MoneyInv' /\ SeenWhenChanged
<1>1. PICK r : r = review[v]
  OBVIOUS
<1>2. r.step = "write" /\ ReviewHolds(r, queue[v]) /\ r.of \in Submissions
  BY <1>1 DEF WriteReview, MoneyInv, ReviewHolds
<1>3. PICK s \in Submissions : s = r.of
  BY <1>2
<1>4. PICK old : old = submission[s]
  OBVIOUS
<1>5. /\ queue[v][s] # Unsent /\ old # Unsent /\ ShownHolds(queue[v][s], old) /\ RecordHolds(old, clock)
      /\ MoneyAllowed(queue[v][s].kind, queue[v][s].status, r.status)
  BY <1>2, <1>3, <1>4 DEF MoneyInv, ReviewHolds, ShownHolds
<1>6. clock \in Nat
  BY DEF MoneyInv
<1>7. CASE /\ review' = [review EXCEPT ![v] = RefusedReview(r.of)]
           /\ UNCHANGED <<clock, submission, queue>>
  <2>1. DOMAIN review' = Reviewers /\ \A w \in Reviewers : ReviewHolds(review'[w], queue[w])
    BY <1>7 DEF MoneyInv, ReviewHolds, RefusedReview
  <2>2. MoneyInv'
    BY <1>7, <2>1 DEF MoneyInv, ShownHolds, RecordHolds, ReviewHolds
  <2> QED
    BY <1>7, <2>2 DEF SeenWhenChanged
<1>8. ASSUME old.store = "airtable" \/ StillAsShown(old, queue[v][s]),
             NEW t \in (clock + 1)..MaxTime, NEW row, row = [old EXCEPT !.status = r.status, !.note = r.note, !.at = t],
             clock' = t, submission' = [submission EXCEPT ![s] = row],
             queue' = [queue EXCEPT ![v][s] = ShownMoney(row)], review' = [review EXCEPT ![v] = NoReview]
      PROVE  MoneyInv' /\ SeenWhenChanged
  <2>1. t \in Nat /\ t > clock
    BY <1>6, <1>8, MoneyAssumption
  <2>2. DOMAIN row = RowFields /\ row.kind = old.kind /\ row.at = t /\ row.status = r.status
    BY <1>5, <1>8 DEF RecordHolds, RowFields
  <2>3. row # Unsent /\ RecordHolds(row, t)
    BY <1>5, <2>1, <2>2 DEF RecordHolds, Unsent, MoneyKinds
  <2>4. \A x \in Submissions : submission'[x] = IF x = s THEN row ELSE submission[x]
    BY <1>8 DEF MoneyInv
  <2>5. \A x \in Submissions : RecordHolds(submission'[x], t)
    BY <1>6, <2>1, <2>3, <2>4 DEF MoneyInv, RecordHolds
  <2>6. \A w \in Reviewers : /\ DOMAIN queue'[w] = Submissions
                             /\ \A x \in Submissions : queue'[w][x] = IF w = v /\ x = s THEN ShownMoney(row) ELSE queue[w][x]
    BY <1>8 DEF MoneyInv
  <2>7. ASSUME NEW w \in Reviewers, NEW x \in Submissions PROVE ShownHolds(queue'[w][x], submission'[x])
    <3>1. CASE x # s
      BY <2>4, <2>6, <3>1 DEF MoneyInv
    <3>2. CASE x = s /\ w = v
      BY <2>1, <2>3, <2>4, <2>6, <3>2, ShownNow
    <3>3. CASE x = s /\ w # v
      <4>1. ShownHolds(queue[w][s], old)
        BY <1>4 DEF MoneyInv
      <4>2. ShownHolds(queue[w][s], row)
        BY <1>5, <1>6, <2>1, <2>2, <2>3, <4>1, ShownBefore
      <4> QED
        BY <2>4, <2>6, <3>3, <4>2
    <3> QED
      BY <3>1, <3>2, <3>3
  <2>8. DOMAIN review' = Reviewers /\ \A w \in Reviewers : ReviewHolds(review'[w], queue'[w])
    <3>1. ASSUME NEW w \in Reviewers PROVE ReviewHolds(review'[w], queue'[w])
      <4>1. CASE w = v
        BY <1>8, <4>1 DEF MoneyInv, NoReview, ReviewHolds
      <4>2. CASE w # v
        BY <1>8, <4>2 DEF MoneyInv
      <4> QED
        BY <4>1, <4>2
    <3> QED
      BY <1>8, <3>1 DEF MoneyInv
  <2>9. DOMAIN submission' = Submissions /\ DOMAIN queue' = Reviewers
    BY <1>8 DEF MoneyInv
  <2>10. MoneyInv'
    BY <1>8, <2>1, <2>5, <2>6, <2>7, <2>8, <2>9 DEF MoneyInv
  <2>11. old.store = "database" => queue[v][s] = ShownMoney(old)
    BY <1>5, <1>8 DEF StillAsShown, ShownHolds
  <2>12. old.store = "database" => MoneyAllowed(old.kind, old.status, row.status)
    <3>1. ShownMoney(old).kind = old.kind /\ ShownMoney(old).status = old.status
      BY <1>5, <1>6, ShownNow
    <3> QED
      BY <1>5, <2>2, <2>11, <3>1
  <2>13. SeenWhenChanged
    BY <1>1, <1>2, <1>3, <1>4, <2>4, <2>11, <2>12 DEF SeenWhenChanged
  <2> QED
    BY <2>10, <2>13
<1> QED
  BY <1>1, <1>3, <1>4, <1>7, <1>8 DEF WriteReview

LEMMA MoneyStep ==
  MoneyInv /\ [MoneyNext]_moneyVars => MoneyInv' /\ [SeenWhenChanged]_moneyVars
<1> SUFFICES ASSUME MoneyInv, [MoneyNext]_moneyVars PROVE MoneyInv' /\ [SeenWhenChanged]_moneyVars
  OBVIOUS
<1>1. ASSUME NEW v \in Reviewers, ReadRefusal(v) PROVE MoneyInv' /\ SeenWhenChanged
  <2>1. DOMAIN review' = Reviewers /\ \A w \in Reviewers : ReviewHolds(review'[w], queue[w])
    BY <1>1 DEF MoneyInv, ReviewHolds, ReadRefusal, NoReview
  <2> QED
    BY <1>1, <2>1 DEF ReadRefusal, MoneyInv, ShownHolds, RecordHolds, ReviewHolds, SeenWhenChanged
<1>2. CASE UNCHANGED moneyVars
  BY <1>2 DEF moneyVars, MoneyInv, ShownHolds, RecordHolds, ReviewHolds
<1> QED
  BY <1>1, <1>2, SubmitKeeps, OpenKeeps, SaveReviewKeeps, WriteReviewKeeps DEF MoneyNext

\* A decision in Cove's database is made on what the reviewer saw: however reviews cross,
\* and however the page's coarser times fall together, the record that is changed is what
\* the reviewer's page shows, its note included, and the change is one the table allows.
THEOREM DecisionsWereSeen == MoneySpec => DecisionsAreSeen
<1>1. MoneyInit => MoneyInv
  BY DEF MoneyInit, MoneyInv, RecordHolds, ShownHolds, ReviewHolds, Unsent, NoReview
<1>2. MoneyInv /\ [MoneyNext]_moneyVars => MoneyInv' /\ [SeenWhenChanged]_moneyVars
  BY MoneyStep
<1> QED
  BY <1>1, <1>2, PTL DEF MoneySpec, DecisionsAreSeen, SeenWhenChanged
-----------------------------------------------------------------------------
(* The administrators' pages *)

PersonFields == {"known", "bound", "invitation", "status", "admin", "systems", "level"}
DeskFields == {"seen", "selected", "stage", "who", "field", "value", "wrote", "left"}

\* A click on its way sets one column of somebody, or is an invitation, of somebody who has
\* an account once it is written; what was written stands in the directory's history.
DeskHolds(d, rev, known) ==
  /\ DOMAIN d = DeskFields
  /\ d.stage \in {"find", "create", "refind", "write"} =>
       /\ d.who \in Persons
       /\ d.field \in {"invite", "status", "admin", "systems", "level"}
       /\ d.field = "invite" => d.value = ""
  /\ d.stage = "write" /\ d.field = "invite" => d.who \in known
  /\ d.stage = "read" => d.left = d.value /\ d.wrote \in Nat /\ d.wrote <= rev

\* Whoever is invited has an account.
DirectoryHolds(dir, known) ==
  /\ DOMAIN dir = {"people", "rev"} /\ dir.rev \in Nat
  /\ DOMAIN dir.people = Persons
  /\ \A p \in Persons : /\ DOMAIN dir.people[p] = PersonFields
                        /\ dir.people[p].invitation # "none" => p \in known

PickerHolds(form) == DOMAIN form = {"owner", "members", "open"} /\ form.owner \notin form.members

AdminInv ==
  /\ DirectoryHolds(directory, clerk)
  /\ DOMAIN desk = Admins /\ \A a \in Admins : DeskHolds(desk[a], directory.rev, clerk)
  /\ PickerHolds(picker)

\* An answer "saved" shows what the button said, and a directory as new as that.
AnswersAreTrue ==
  \A a \in Admins :
    desk[a].stage = "read" /\ desk'[a].stage = "idle" =>
      desk[a].left = desk[a].value /\ desk'[a].seen.rev >= desk[a].wrote

\* A click holds while accounts and changes only become more.
LEMMA DeskGoesOn ==
  ASSUME NEW e, NEW n \in Nat, NEW m \in Nat, n <= m, NEW k, NEW l, k \subseteq l, DeskHolds(e, n, k)
  PROVE  DeskHolds(e, m, l)
<1>1. e.stage = "read" => e.wrote \in Nat /\ e.wrote <= m
  BY DEF DeskHolds
<1> QED
  BY <1>1 DEF DeskHolds

\* One page turns while accounts and changes only become more.
LEMMA DeskTurns ==
  ASSUME AdminInv, NEW a \in Admins, NEW d, NEW rev \in Nat, NEW known,
         desk' = [desk EXCEPT ![a] = d], directory.rev <= rev, clerk \subseteq known,
         DeskHolds(d, rev, known), desk[a].stage = "read" => d.stage # "idle"
  PROVE  /\ DOMAIN desk' = Admins /\ \A b \in Admins : DeskHolds(desk'[b], rev, known)
         /\ AnswersAreTrue
<1>1. DOMAIN desk = Admins /\ \A b \in Admins : DeskHolds(desk[b], directory.rev, clerk)
  BY DEF AdminInv
<1>2. directory.rev \in Nat
  BY DEF AdminInv, DirectoryHolds
<1>3. \A b \in Admins : desk'[b] = IF b = a THEN d ELSE desk[b]
  BY <1>1
<1>4. ASSUME NEW b \in Admins PROVE DeskHolds(desk'[b], rev, known)
  <2>1. CASE b = a
    BY <1>3, <2>1
  <2>2. CASE b # a
    <3>1. DeskHolds(desk[b], directory.rev, clerk)
      BY <1>1
    <3>2. DeskHolds(desk[b], rev, known)
      BY <1>2, <3>1, DeskGoesOn
    <3> QED
      BY <1>3, <2>2, <3>2
  <2> QED
    BY <2>1, <2>2
<1>5. AnswersAreTrue
  BY <1>3 DEF AnswersAreTrue
<1> QED
  BY <1>1, <1>4, <1>5

\* The page of an administrator that is clicked on.
LEMMA ClickKeeps ==
  ASSUME AdminInv, NEW a \in Admins, Select(a) \/ Click(a) \/ AskInvite(a)
  PROVE  AdminInv' /\ AnswersAreTrue
<1>1. DOMAIN desk = Admins /\ DeskHolds(desk[a], directory.rev, clerk) /\ directory.rev \in Nat
  BY DEF AdminInv, DirectoryHolds
<1>2. directory' = directory /\ clerk' = clerk /\ picker' = picker
  BY DEF Select, Click, AskInvite
<1>3. PICK old : old = desk[a]
  OBVIOUS
<1>4. PICK d : desk' = [desk EXCEPT ![a] = d] /\ DeskHolds(d, directory.rev, clerk) /\ (old.stage = "read" => d.stage # "idle")
  <2>1. CASE Select(a)
    <3>1. PICK p : desk' = [desk EXCEPT ![a].selected = p]
      BY <2>1 DEF Select
    <3>2. PICK d : d = [old EXCEPT !.selected = p]
      OBVIOUS
    <3>3. DOMAIN d = DeskFields /\ d.stage = old.stage /\ d.who = old.who /\ d.field = old.field
          /\ d.value = old.value /\ d.wrote = old.wrote /\ d.left = old.left
      BY <1>1, <1>3, <3>2 DEF DeskHolds, DeskFields
    <3>4. DeskHolds(d, directory.rev, clerk)
      BY <1>1, <1>3, <3>3 DEF DeskHolds
    <3> QED
      BY <1>3, <3>1, <3>2, <3>3, <3>4
  <2>2. CASE Click(a)
    <3>1. PICK p \in Listed(a) : \E o \in Offers(desk[a].seen.people[p], p) :
            desk' = [desk EXCEPT ![a].stage = "write", ![a].who = p, ![a].selected = p,
                                 ![a].field = o[1], ![a].value = o[2]]
      BY <2>2 DEF Click
    <3>2. PICK o \in Offers(desk[a].seen.people[p], p) :
            desk' = [desk EXCEPT ![a].stage = "write", ![a].who = p, ![a].selected = p,
                                 ![a].field = o[1], ![a].value = o[2]]
      BY <3>1
    <3>3. o[1] \in {"status", "admin", "systems", "level"} /\ p \in Persons
      BY DEF Offers, Listed
    <3>4. PICK d : d = [old EXCEPT !.stage = "write", !.who = p, !.selected = p, !.field = o[1], !.value = o[2]]
      OBVIOUS
    <3>5. desk' = [desk EXCEPT ![a] = d]
      BY <1>3, <3>2, <3>4
    <3>6. DOMAIN d = DeskFields /\ d.stage = "write" /\ d.who = p /\ d.field = o[1]
      BY <1>1, <1>3, <3>4 DEF DeskHolds, DeskFields
    <3>7. DeskHolds(d, directory.rev, clerk)
      BY <3>3, <3>6 DEF DeskHolds
    <3> QED
      BY <3>5, <3>6, <3>7
  <2>3. CASE AskInvite(a)
    <3>1. PICK p \in (Persons \ Listed(a)) \cup
               {q \in Listed(a) : Status(desk[a].seen.people[q]) = "invitation_expired"} :
            desk' = [desk EXCEPT ![a].stage = "find", ![a].who = p, ![a].field = "invite", ![a].value = ""]
      BY <2>3 DEF AskInvite
    <3>2. p \in Persons
      BY DEF Listed
    <3>3. PICK d : d = [old EXCEPT !.stage = "find", !.who = p, !.field = "invite", !.value = ""]
      OBVIOUS
    <3>4. desk' = [desk EXCEPT ![a] = d]
      BY <1>3, <3>1, <3>3
    <3>5. DOMAIN d = DeskFields /\ d.stage = "find" /\ d.who = p /\ d.field = "invite" /\ d.value = ""
      BY <1>1, <1>3, <3>3 DEF DeskHolds, DeskFields
    <3>6. DeskHolds(d, directory.rev, clerk)
      BY <3>2, <3>5 DEF DeskHolds
    <3> QED
      BY <3>4, <3>5, <3>6
  <2> QED
    BY <2>1, <2>2, <2>3
<1>5. DOMAIN desk' = Admins /\ (\A b \in Admins : DeskHolds(desk'[b], directory.rev, clerk)) /\ AnswersAreTrue
  <2>1. directory.rev <= directory.rev
    BY <1>1
  <2> QED
    BY <1>1, <1>3, <1>4, <2>1, DeskTurns
<1> QED
  BY <1>2, <1>5 DEF AdminInv, DeskHolds, DirectoryHolds, PickerHolds

\* Whatever is looked for or created, an invitation is written for somebody with an account.
LEMMA ClerkKeeps ==
  ASSUME AdminInv, NEW a \in Admins, FindClerkUser(a) \/ CreateClerkUser(a)
  PROVE  AdminInv' /\ AnswersAreTrue
<1>1. DOMAIN desk = Admins /\ DeskHolds(desk[a], directory.rev, clerk) /\ directory.rev \in Nat
  BY DEF AdminInv, DirectoryHolds
<1>2. directory' = directory /\ picker' = picker
  BY DEF FindClerkUser, CreateClerkUser
<1>3. PICK old : old = desk[a]
  OBVIOUS
<1>4. old.stage \in {"find", "refind", "create"}
  BY <1>3 DEF FindClerkUser, CreateClerkUser
<1>5. PICK known : known = clerk'
  OBVIOUS
<1>6. clerk \subseteq known
  BY <1>5 DEF FindClerkUser, CreateClerkUser
<1>7. PICK d : desk' = [desk EXCEPT ![a] = d] /\ DeskHolds(d, directory.rev, known)
  <2>1. CASE Fails(a)
    <3>1. PICK d : d = Resting(old.seen, old.selected)
      OBVIOUS
    <3>2. desk' = [desk EXCEPT ![a] = d]
      BY <1>3, <2>1, <3>1 DEF Fails
    <3>3. DeskHolds(d, directory.rev, known)
      BY <3>1 DEF Resting, DeskHolds, DeskFields
    <3> QED
      BY <3>2, <3>3
  <2>2. ASSUME NEW stage \in {"write", "create", "refind"}, desk' = [desk EXCEPT ![a].stage = stage],
               stage = "write" => old.who \in known
        PROVE  \E d : desk' = [desk EXCEPT ![a] = d] /\ DeskHolds(d, directory.rev, known)
    <3>1. PICK d : d = [old EXCEPT !.stage = stage]
      OBVIOUS
    <3>2. desk' = [desk EXCEPT ![a] = d]
      BY <1>3, <2>2, <3>1
    <3>3. DOMAIN d = DeskFields /\ d.stage = stage /\ d.who = old.who /\ d.field = old.field /\ d.value = old.value
      BY <1>1, <1>3, <3>1 DEF DeskHolds, DeskFields
    <3>4. DeskHolds(d, directory.rev, known)
      BY <1>1, <1>3, <1>4, <2>2, <3>3 DEF DeskHolds
    <3> QED
      BY <3>2, <3>4
  <2>3. CASE FindClerkUser(a)
    <3>1. known = clerk
      BY <1>5, <2>3 DEF FindClerkUser
    <3>2. \/ Fails(a)
          \/ old.who \in clerk /\ desk' = [desk EXCEPT ![a].stage = "write"]
          \/ desk' = [desk EXCEPT ![a].stage = "create"]
      BY <1>3, <2>3 DEF FindClerkUser
    <3> QED
      BY <2>1, <2>2, <3>1, <3>2
  <2>4. CASE CreateClerkUser(a)
    <3>1. \/ old.who \in known /\ desk' = [desk EXCEPT ![a].stage = "write"]
          \/ desk' = [desk EXCEPT ![a].stage = "refind"]
      <4>1. ASSUME desk[a].who \notin clerk, clerk' = clerk \cup {desk[a].who}, NEW answered \in BOOLEAN,
                   desk' = [desk EXCEPT ![a].stage = IF answered THEN "write" ELSE "refind"]
            PROVE  \/ old.who \in known /\ desk' = [desk EXCEPT ![a].stage = "write"]
                   \/ desk' = [desk EXCEPT ![a].stage = "refind"]
        BY <1>3, <1>5, <4>1
      <4> QED
        BY <2>4, <4>1 DEF CreateClerkUser
    <3> QED
      BY <2>2, <3>1
  <2> QED
    BY <2>3, <2>4
<1>8. DOMAIN desk' = Admins /\ (\A b \in Admins : DeskHolds(desk'[b], directory.rev, known)) /\ AnswersAreTrue
  <2>1. directory.rev <= directory.rev /\ (desk[a].stage = "read" => d.stage # "idle")
    BY <1>1, <1>3, <1>4
  <2> QED
    BY <1>1, <1>6, <1>7, <2>1, DeskTurns
<1>9. DirectoryHolds(directory, known)
  BY <1>6 DEF AdminInv, DirectoryHolds
<1> QED
  BY <1>2, <1>5, <1>8, <1>9 DEF AdminInv, DeskHolds, DirectoryHolds, PickerHolds

LEMMA ClickCommits ==
  ASSUME AdminInv, NEW a \in Admins, Commit(a)
  PROVE  AdminInv' /\ AnswersAreTrue
<1>1. DOMAIN desk = Admins /\ DeskHolds(desk[a], directory.rev, clerk) /\ DirectoryHolds(directory, clerk)
  BY DEF AdminInv
<1>2. clerk' = clerk /\ picker' = picker
  BY DEF Commit
<1>3. PICK old : old = desk[a]
  OBVIOUS
<1>4. /\ old.stage = "write" /\ DOMAIN old = DeskFields /\ old.who \in Persons
      /\ old.field \in {"invite", "status", "admin", "systems", "level"}
      /\ old.field = "invite" => old.value = "" /\ old.who \in clerk
  BY <1>1, <1>3 DEF Commit, DeskHolds
<1>5. directory.rev \in Nat /\ DOMAIN directory = {"people", "rev"} /\ DOMAIN directory.people = Persons
  BY <1>1 DEF DirectoryHolds
<1>6. CASE Fails(a) /\ UNCHANGED directory
  <2>1. PICK d : d = Resting(old.seen, old.selected)
    OBVIOUS
  <2>2. desk' = [desk EXCEPT ![a] = d]
    BY <1>3, <1>6, <2>1 DEF Fails
  <2>3. DeskHolds(d, directory.rev, clerk)
    BY <2>1 DEF Resting, DeskHolds, DeskFields
  <2>4. DOMAIN desk' = Admins /\ (\A b \in Admins : DeskHolds(desk'[b], directory.rev, clerk)) /\ AnswersAreTrue
    <3>1. directory.rev <= directory.rev
      BY <1>5
    <3>2. desk[a].stage # "read"
      BY <1>3, <1>4
    <3> QED
      BY <1>5, <2>2, <2>3, <3>1, <3>2, DeskTurns
  <2> QED
    BY <1>2, <1>6, <2>4 DEF AdminInv, DeskHolds, DirectoryHolds, PickerHolds
<1>7. PICK row : row = Written(directory.people[old.who], old)
  OBVIOUS
<1>8. PICK left : left = IF old.field = "invite" THEN "" ELSE row[old.field]
  OBVIOUS
<1>9. CASE /\ directory' = [people |-> [directory.people EXCEPT ![old.who] = row], rev |-> directory.rev + 1]
           /\ desk' = [desk EXCEPT ![a].stage = "read", ![a].wrote = directory.rev + 1, ![a].left = left]
  <2>1. PICK p0 : p0 = directory.people[old.who]
    OBVIOUS
  <2>2. DOMAIN p0 = PersonFields /\ (p0.invitation # "none" => old.who \in clerk)
    BY <1>1, <1>4, <2>1 DEF DirectoryHolds
  <2>3. /\ DOMAIN row = PersonFields /\ (row.invitation # "none" => old.who \in clerk)
        /\ left = old.value
    <3>1. CASE old.field = "invite"
      <4>1. row = p0 \/ row = [p0 EXCEPT !.known = TRUE, !.invitation = "pending"]
        BY <1>7, <2>1, <3>1 DEF Written, Invited
      <4> QED
        BY <1>4, <1>8, <2>2, <3>1, <4>1 DEF PersonFields
    <3>2. CASE old.field # "invite"
      <4>1. row = [p0 EXCEPT ![old.field] = old.value]
        BY <1>7, <2>1, <3>2 DEF Written
      <4>2. old.field \in PersonFields \ {"invitation"}
        BY <1>4, <3>2 DEF PersonFields
      <4> QED
        BY <1>8, <2>2, <3>2, <4>1, <4>2
    <3> QED
      BY <3>1, <3>2
  <2>4. PICK d : d = [old EXCEPT !.stage = "read", !.wrote = directory.rev + 1, !.left = left]
    OBVIOUS
  <2>5. desk' = [desk EXCEPT ![a] = d]
    BY <1>3, <1>9, <2>4
  <2>6. DOMAIN d = DeskFields /\ d.stage = "read" /\ d.wrote = directory.rev + 1 /\ d.left = left /\ d.value = old.value
    BY <1>4, <2>4 DEF DeskFields
  <2>7. DeskHolds(d, directory.rev + 1, clerk)
    BY <1>5, <2>3, <2>6 DEF DeskHolds
  <2>8. directory.rev + 1 \in Nat /\ directory.rev <= directory.rev + 1
    BY <1>5
  <2>9. DOMAIN desk' = Admins /\ (\A b \in Admins : DeskHolds(desk'[b], directory.rev + 1, clerk)) /\ AnswersAreTrue
    BY <1>3, <1>4, <2>5, <2>6, <2>7, <2>8, DeskTurns
  <2>10. PICK dir : dir = directory'
    OBVIOUS
  <2>11. DirectoryHolds(dir, clerk) /\ dir.rev = directory.rev + 1
    <3>1. DOMAIN dir = {"people", "rev"} /\ dir.rev = directory.rev + 1 /\ dir.people = [directory.people EXCEPT ![old.who] = row]
      BY <1>9, <2>10
    <3>2. \A p \in Persons : dir.people[p] = IF p = old.who THEN row ELSE directory.people[p]
      BY <1>5, <3>1
    <3> QED
      BY <1>1, <1>5, <2>3, <2>8, <3>1, <3>2 DEF DirectoryHolds
  <2>12. directory'.rev = directory.rev + 1 /\ DirectoryHolds(directory, clerk)'
    BY <1>2, <2>10, <2>11 DEF DirectoryHolds
  <2>13. \A b \in Admins : DeskHolds(desk'[b], directory'.rev, clerk')
    BY <1>2, <2>9, <2>12
  <2>14. PickerHolds(picker)'
    BY <1>2 DEF AdminInv, PickerHolds
  <2> QED
    BY <2>9, <2>12, <2>13, <2>14 DEF AdminInv, DeskHolds
<1> QED
  BY <1>3, <1>6, <1>7, <1>8, <1>9 DEF Commit

LEMMA ReadBackKeeps ==
  ASSUME AdminInv, NEW a \in Admins, ReadBack(a)
  PROVE  AdminInv' /\ AnswersAreTrue
<1>1. DOMAIN desk = Admins /\ (\A b \in Admins : DeskHolds(desk[b], directory.rev, clerk)) /\ directory.rev \in Nat
  BY DEF AdminInv, DirectoryHolds
<1>2. directory' = directory /\ clerk' = clerk /\ picker' = picker
  BY DEF ReadBack
<1>3. PICK d : d = Resting(directory, IF desk[a].field = "invite" THEN desk[a].who ELSE desk[a].selected)
  OBVIOUS
<1>4. desk' = [desk EXCEPT ![a] = d]
  BY <1>3 DEF ReadBack
<1>5. DeskHolds(d, directory.rev, clerk) /\ d.seen = directory
  BY <1>3 DEF Resting, DeskHolds, DeskFields
<1>6. \A b \in Admins : desk'[b] = IF b = a THEN d ELSE desk[b]
  BY <1>1, <1>4
<1>7. AnswersAreTrue
  BY <1>1, <1>5, <1>6 DEF AnswersAreTrue, DeskHolds, ReadBack
<1>8. DOMAIN desk' = Admins /\ \A b \in Admins : DeskHolds(desk'[b], directory.rev, clerk)
  BY <1>1, <1>4, <1>5, <1>6
<1> QED
  BY <1>2, <1>7, <1>8 DEF AdminInv, DeskHolds, DirectoryHolds, PickerHolds

\* Somebody arrives, or an invitation runs out: of those who were invited.
LEMMA PeopleKeep ==
  ASSUME AdminInv, NEW p \in Persons, Arrive(p) \/ RunOut(p)
  PROVE  AdminInv' /\ AnswersAreTrue
<1>1. DOMAIN desk = Admins /\ (\A b \in Admins : DeskHolds(desk[b], directory.rev, clerk)) /\ DirectoryHolds(directory, clerk)
  BY DEF AdminInv
<1>2. desk' = desk /\ clerk' = clerk /\ picker' = picker /\ directory.people[p].invitation = "pending"
  BY DEF Arrive, RunOut
<1>3. PICK p0, dir : p0 = directory.people[p] /\ dir = directory'
  OBVIOUS
<1>4. PICK row : /\ dir = [people |-> [directory.people EXCEPT ![p] = row], rev |-> directory.rev + 1]
                 /\ DOMAIN row = PersonFields
  <2>1. CASE Arrive(p)
    <3>1. PICK row : row = [p0 EXCEPT !.bound = TRUE, !.invitation = "accepted"]
      OBVIOUS
    <3>2. dir = [people |-> [directory.people EXCEPT ![p] = row], rev |-> directory.rev + 1]
      BY <1>3, <2>1, <3>1 DEF Arrive
    <3>3. DOMAIN row = PersonFields
      BY <1>1, <1>3, <3>1 DEF DirectoryHolds
    <3> QED
      BY <3>2, <3>3
  <2>2. CASE RunOut(p)
    <3>1. PICK row : row = [p0 EXCEPT !.invitation = "expired"]
      OBVIOUS
    <3>2. dir = [people |-> [directory.people EXCEPT ![p] = row], rev |-> directory.rev + 1]
      BY <1>3, <2>2, <3>1 DEF RunOut
    <3>3. DOMAIN row = PersonFields
      BY <1>1, <1>3, <3>1 DEF DirectoryHolds
    <3> QED
      BY <3>2, <3>3
  <2> QED
    BY <2>1, <2>2
<1>5. p \in clerk /\ directory.rev \in Nat /\ DOMAIN directory.people = Persons
  BY <1>1, <1>2 DEF DirectoryHolds
<1>6. DOMAIN dir = {"people", "rev"} /\ dir.rev = directory.rev + 1 /\ dir.people = [directory.people EXCEPT ![p] = row]
  BY <1>4
<1>7. \A q \in Persons : dir.people[q] = IF q = p THEN row ELSE directory.people[q]
  BY <1>5, <1>6
<1>8. DirectoryHolds(dir, clerk)
  BY <1>1, <1>4, <1>5, <1>6, <1>7 DEF DirectoryHolds
<1>9. \A b \in Admins : DeskHolds(desk[b], dir.rev, clerk)
  <2>1. dir.rev \in Nat /\ directory.rev <= dir.rev
    BY <1>5, <1>6
  <2> QED
    BY <1>1, <1>5, <2>1, DeskGoesOn
<1>10. AnswersAreTrue
  BY <1>2 DEF AnswersAreTrue
<1> QED
  BY <1>1, <1>2, <1>3, <1>8, <1>9, <1>10 DEF AdminInv, DeskHolds, DirectoryHolds, PickerHolds

\* Whoever is chosen as the owner is none of the members.
LEMMA PickerKeeps ==
  ASSUME AdminInv, OpenDialog \/ ChooseOwner \/ ToggleMember
  PROVE  AdminInv' /\ AnswersAreTrue
<1>1. directory' = directory /\ clerk' = clerk /\ desk' = desk
  BY DEF OpenDialog, ChooseOwner, ToggleMember
<1>2. PickerHolds(picker')
  <2>1. CASE OpenDialog
    <3>1. PICK owner \in Persons \cup {Nobody} :
            \E team \in (IF owner = Nobody THEN {{}} ELSE {{}} \cup {{p} : p \in Persons \ {owner}}) :
              picker' = [owner |-> owner, members |-> team, open |-> TRUE]
      BY <2>1 DEF OpenDialog
    <3>2. PICK team \in (IF owner = Nobody THEN {{}} ELSE {{}} \cup {{p} : p \in Persons \ {owner}}) :
            picker' = [owner |-> owner, members |-> team, open |-> TRUE]
      BY <3>1
    <3>3. owner \notin team
      OBVIOUS
    <3> QED
      BY <3>2, <3>3 DEF PickerHolds
  <2>2. CASE ChooseOwner
    BY <2>2 DEF ChooseOwner, PickerHolds, AdminInv
  <2>3. CASE ToggleMember
    BY <2>3 DEF ToggleMember, PickerHolds, AdminInv
  <2> QED
    BY <2>1, <2>2, <2>3
<1>3. AnswersAreTrue
  BY <1>1 DEF AnswersAreTrue
<1> QED
  BY <1>1, <1>2, <1>3 DEF AdminInv, DeskHolds, DirectoryHolds, PickerHolds

LEMMA AdminStep ==
  AdminInv /\ [AdminNext]_adminVars => AdminInv' /\ [AnswersAreTrue]_adminVars
<1> SUFFICES ASSUME AdminInv, [AdminNext]_adminVars PROVE AdminInv' /\ [AnswersAreTrue]_adminVars
  OBVIOUS
<1>1. CASE UNCHANGED adminVars
  BY <1>1 DEF adminVars, AdminInv, DeskHolds, DirectoryHolds, PickerHolds
<1> QED
  BY <1>1, ClickKeeps, ClerkKeeps, ClickCommits, ReadBackKeeps, PeopleKeep, PickerKeeps DEF AdminNext

\* An administrator's page may be as old as it likes: whoever was shown got what the button
\* said, the answer shows a directory at least as new as that, whoever is invited can sign
\* in, and no dialog posts an owner as a member.
THEOREM ClicksAreDone == AdminSpec => ClicksDoWhatTheySay
<1>1. AdminInit => AdminInv
  <2> SUFFICES ASSUME AdminInit PROVE AdminInv
    OBVIOUS
  <2>1. DirectoryHolds(directory, clerk)
    <3>1. PICK people : people = [p \in Persons |->
             IF p \in Admins THEN [Stranger EXCEPT !.known = TRUE, !.bound = TRUE, !.admin = "yes"] ELSE Stranger]
      OBVIOUS
    <3>2. directory = [people |-> people, rev |-> 0]
      BY <3>1 DEF AdminInit, Beginning
    <3>3. \A p \in Persons : DOMAIN people[p] = PersonFields /\ people[p].invitation = "none"
      BY <3>1 DEF Stranger, PersonFields
    <3> QED
      BY <3>1, <3>2, <3>3 DEF DirectoryHolds
  <2>2. \A a \in Admins : DeskHolds(desk[a], directory.rev, clerk)
    BY DEF AdminInit, Resting, DeskHolds, DeskFields
  <2> QED
    BY <2>1, <2>2 DEF AdminInit, AdminInv, PickerHolds
<1>2. AdminInv /\ [AdminNext]_adminVars => AdminInv' /\ [AnswersAreTrue]_adminVars
  BY AdminStep
<1>3. AdminInv' => /\ \A p \in Persons : directory'.people[p].invitation # "none" => p \in clerk'
                   /\ picker'.owner \notin picker'.members
  BY DEF AdminInv, DirectoryHolds, PickerHolds
<1>4. AdminInv /\ [AdminNext]_adminVars =>
        [/\ AnswersAreTrue
         /\ \A p \in Persons : directory'.people[p].invitation # "none" => p \in clerk'
         /\ picker'.owner \notin picker'.members]_adminVars
  BY <1>2, <1>3
<1> QED
  BY <1>1, <1>2, <1>4, PTL DEF AdminSpec, ClicksDoWhatTheySay, AnswersAreTrue
-----------------------------------------------------------------------------
(* What employees save of themselves *)

ReportFields == {"there", "link", "name", "date", "place"}
FormFields   == {"id", "place", "date"}
SheetFields  == {"stage", "list", "form", "wrote"}
DetailFields == {"stage", "state", "read", "entries", "posted", "row"}

RegisterHolds(row) == row = Absent \/ (DOMAIN row = ReportFields /\ row.there = TRUE)

FormHolds(form) == DOMAIN form = FormFields /\ form.id \in ReportIds \cup {"new"}

\* A form on its way names a report of the register, or a new one; a saved one has its id.
SheetHolds(d) ==
  /\ DOMAIN d = SheetFields /\ FormHolds(d.form)
  /\ d.stage = "answer" => d.form.id \in ReportIds
  /\ DOMAIN d.list = {"items", "issues"}
  /\ \A r \in d.list.items : FormHolds(r) /\ r.id \in ReportIds

\* What is posted of My Details may be edited and was shown; the row exists.
DetailsHold(d, table) ==
  /\ DOMAIN d = DetailFields
  /\ d.state = "matched" => DOMAIN d.entries \subseteq {l \in Labels : Readable(d.read[l])}
  /\ d.stage \in {"find", "write"} => DOMAIN d.posted \subseteq {l \in Editable : Readable(d.read[l])}
  /\ d.stage = "write" => d.row \in DOMAIN table

RecordsInv ==
  /\ DOMAIN register = ReportIds /\ \A id \in ReportIds : RegisterHolds(register[id])
  /\ DOMAIN sheet = Injured /\ \A e \in Injured : SheetHolds(sheet[e])
  /\ \A i \in DOMAIN members : DOMAIN members[i] = {"status", "fields"}
  /\ DetailsHold(profile, members)

\* A save of a report leaves alone whose it is, and is part of the managers' register.
ReportsStay ==
  \A e \in Injured :
    sheet[e].stage = "write" /\ sheet'[e].wrote /\ ~sheet[e].wrote =>
      LET id == sheet'[e].form.id IN
      /\ sheet'[e].form \in RegisterShown'.items \/ register'[id].date = "nonsense"
      /\ register[id].there =>
           register'[id].link = register[id].link /\ register'[id].name = register[id].name

\* A report is written to after it was the employee's.
EditsAreOwn ==
  \A e \in Injured :
    sheet[e].stage = "load" /\ sheet'[e].stage = "write" =>
      e \in {register[sheet[e].form.id].link, register[sheet[e].form.id].name}

\* A save of My Details changes what it may edit and what was shown.
DetailsStay ==
  profile.stage = "write" /\ members' # members /\ profile'.stage = "idle" =>
    \A l \in Labels :
      members'[profile.row].fields[l] # members[profile.row].fields[l] =>
        l \in Editable /\ Readable(profile.read[l])

SavedWithin == ReportsStay /\ EditsAreOwn /\ DetailsStay

\* A step of one employee's page that saves nothing and looks nothing up.
LEMMA SheetTurns ==
  ASSUME RecordsInv, NEW e \in Injured, NEW d, sheet' = [sheet EXCEPT ![e] = d], SheetHolds(d),
         register' = register, members' = members, profile' = profile,
         d.wrote = sheet[e].wrote \/ sheet[e].stage # "write",
         sheet[e].stage = "load" /\ d.stage = "write" => MayEdit(register[sheet[e].form.id], e)
  PROVE  RecordsInv' /\ SavedWithin
<1>1. \A x \in Injured : sheet'[x] = IF x = e THEN d ELSE sheet[x]
  BY DEF RecordsInv
<1>2. DOMAIN sheet' = Injured /\ \A x \in Injured : SheetHolds(sheet'[x])
  BY <1>1 DEF RecordsInv
<1>3. RecordsInv'
  BY <1>2 DEF RecordsInv, SheetHolds, FormHolds, RegisterHolds, DetailsHold
<1>4. ReportsStay
  <2> SUFFICES ASSUME NEW x \in Injured, sheet[x].stage = "write", sheet'[x].wrote, ~sheet[x].wrote
               PROVE  FALSE
    BY DEF ReportsStay
  <2>1. sheet'[x].wrote = sheet[x].wrote
    BY <1>1
  <2> QED
    BY <2>1
<1>5. EditsAreOwn
  <2> SUFFICES ASSUME NEW x \in Injured, sheet[x].stage = "load", sheet'[x].stage = "write"
               PROVE  x \in {register[sheet[x].form.id].link, register[sheet[x].form.id].name}
    BY DEF EditsAreOwn
  <2>1. x = e /\ d.stage = "write"
    BY <1>1
  <2> QED
    BY <2>1 DEF MayEdit, Belongs
<1> QED
  BY <1>3, <1>4, <1>5 DEF SavedWithin, DetailsStay

\* What the pages list of the register are its reports.
LEMMA ListingHolds ==
  ASSUME NEW e
  PROVE  /\ DOMAIN Listing(e) = {"items", "issues"}
         /\ \A r \in Listing(e).items : FormHolds(r) /\ r.id \in ReportIds
<1>1. Listing(e).items = {Report(id, register[id]) : id \in {i \in Mine(e) : Verifiable(register[i])}}
  BY DEF Listing
<1>2. \A id \in ReportIds : FormHolds(Report(id, register[id])) /\ Report(id, register[id]).id \in ReportIds
  BY DEF Report, FormHolds, FormFields
<1>3. \A id \in Mine(e) : id \in ReportIds
  BY DEF Mine
<1> QED
  BY <1>1, <1>2, <1>3 DEF Listing

LEMMA SheetKeeps ==
  ASSUME RecordsInv, NEW e \in Injured,
         OpenRegister(e) \/ SendReport(e) \/ ReportFails(e) \/ FindEmployee(e) \/ LoadReport(e) \/ ShowReport(e)
  PROVE  RecordsInv' /\ SavedWithin
<1>1. register' = register /\ members' = members /\ profile' = profile
  BY DEF OpenRegister, SendReport, ReportFails, FindEmployee, LoadReport, ShowReport
<1>2. PICK old : old = sheet[e]
  OBVIOUS
<1>3. SheetHolds(old) /\ DOMAIN sheet = Injured
  BY <1>2 DEF RecordsInv
<1>4. CASE OpenRegister(e)
  <2>1. PICK d : d = SheetRests(Listing(e))
    OBVIOUS
  <2>2. sheet' = [sheet EXCEPT ![e] = d] /\ old.stage = "idle"
    BY <1>2, <1>4, <2>1 DEF OpenRegister
  <2>3. DOMAIN d = SheetFields /\ d.stage = "idle" /\ d.form = NoForm /\ d.list = Listing(e)
    BY <2>1 DEF SheetRests, SheetFields
  <2>4. FormHolds(d.form)
    BY <2>3 DEF FormHolds, NoForm, FormFields
  <2>5. SheetHolds(d)
    BY <2>3, <2>4, ListingHolds DEF SheetHolds
  <2> QED
    BY <1>1, <1>2, <2>2, <2>5, SheetTurns
<1>5. CASE SendReport(e)
  <2>1. PICK form \in {NoForm} \cup old.list.items, place \in 0..1 :
          sheet' = [sheet EXCEPT ![e].stage = "find", ![e].form = [form EXCEPT !.place = place], ![e].wrote = FALSE]
    BY <1>2, <1>5 DEF SendReport
  <2>2. FormHolds(form)
    BY <1>3 DEF SheetHolds, FormHolds, NoForm, FormFields
  <2>3. PICK f : f = [form EXCEPT !.place = place]
    OBVIOUS
  <2>4. FormHolds(f)
    BY <2>2, <2>3 DEF FormHolds, FormFields
  <2>5. PICK d : d = [old EXCEPT !.stage = "find", !.form = f, !.wrote = FALSE]
    OBVIOUS
  <2>6. sheet' = [sheet EXCEPT ![e] = d]
    BY <1>2, <2>1, <2>3, <2>5
  <2>7. DOMAIN d = SheetFields /\ d.stage = "find" /\ d.form = f /\ d.list = old.list
    BY <1>3, <2>5 DEF SheetHolds, SheetFields
  <2>8. SheetHolds(d)
    BY <1>3, <2>4, <2>7 DEF SheetHolds
  <2>9. old.stage = "idle"
    BY <1>2, <1>5 DEF SendReport
  <2> QED
    BY <1>1, <1>2, <2>6, <2>8, <2>9, SheetTurns
<1>6. ASSUME NEW stage, stage # "answer", sheet' = [sheet EXCEPT ![e].stage = stage],
             old.stage = "load" /\ stage = "write" => MayEdit(register[old.form.id], e)
      PROVE  RecordsInv' /\ SavedWithin
  <2>1. PICK d : d = [old EXCEPT !.stage = stage]
    OBVIOUS
  <2>2. sheet' = [sheet EXCEPT ![e] = d]
    BY <1>2, <1>6, <2>1
  <2>3. DOMAIN d = SheetFields /\ d.stage = stage /\ d.form = old.form /\ d.list = old.list /\ d.wrote = old.wrote
    BY <1>3, <2>1 DEF SheetHolds, SheetFields
  <2>4. SheetHolds(d)
    BY <1>3, <1>6, <2>3 DEF SheetHolds
  <2> QED
    BY <1>1, <1>2, <1>6, <2>2, <2>3, <2>4, SheetTurns
<1>7. CASE ReportFails(e) \/ FindEmployee(e) \/ LoadReport(e)
  <2>1. CASE ReportFails(e)
    BY <1>6, <2>1 DEF ReportFails
  <2>2. CASE FindEmployee(e)
    BY <1>2, <1>6, <2>2 DEF FindEmployee
  <2>3. CASE LoadReport(e)
    BY <1>2, <1>6, <2>3 DEF LoadReport
  <2> QED
    BY <1>7, <2>1, <2>2, <2>3
<1>8. CASE ShowReport(e)
  <2>1. PICK items : items = {r \in old.list.items : r.id # old.form.id} \cup {old.form}
    OBVIOUS
  <2>2. sheet' = [sheet EXCEPT ![e].stage = "idle", ![e].list.items = items] /\ old.stage = "answer"
    BY <1>2, <1>8, <2>1 DEF ShowReport
  <2>3. PICK list : list = [old.list EXCEPT !.items = items]
    OBVIOUS
  <2>4. PICK d : d = [old EXCEPT !.stage = "idle", !.list = list]
    OBVIOUS
  <2>5. sheet' = [sheet EXCEPT ![e] = d]
    BY <1>2, <2>2, <2>3, <2>4
  <2>6. DOMAIN d = SheetFields /\ d.stage = "idle" /\ d.form = old.form /\ d.list = list
    BY <1>3, <2>4 DEF SheetHolds, SheetFields
  <2>7. DOMAIN list = {"items", "issues"} /\ list.items = items
    BY <1>3, <2>3 DEF SheetHolds
  <2>8. \A r \in items : FormHolds(r) /\ r.id \in ReportIds
    BY <1>3, <2>1, <2>2 DEF SheetHolds
  <2>9. SheetHolds(d)
    BY <1>3, <2>6, <2>7, <2>8 DEF SheetHolds
  <2> QED
    BY <1>1, <1>2, <2>2, <2>5, <2>9, SheetTurns
<1> QED
  BY <1>4, <1>5, <1>7, <1>8

\* The write reaches a report that is there, or makes one, and keeps whose it is.
LEMMA WriteReportKeeps ==
  ASSUME RecordsInv, NEW e \in Injured, WriteReport(e)
  PROVE  RecordsInv' /\ SavedWithin
<1>1. members' = members /\ profile' = profile
  BY DEF WriteReport
<1>2. PICK old : old = sheet[e]
  OBVIOUS
<1>3. SheetHolds(old) /\ DOMAIN sheet = Injured /\ old.stage = "write"
  BY <1>2 DEF RecordsInv, WriteReport
<1>4. PICK id : /\ id \in IF old.form.id = "new" THEN {i \in ReportIds : ~register[i].there} ELSE {old.form.id}
                /\ old.form.id = "new" \/ register[id].there
                /\ register' = [register EXCEPT ![id] =
                     IF old.form.id = "new" THEN Row(e, e, "given", old.form.place) ELSE Fielded(@, old.form)]
                /\ \E lost \in BOOLEAN :
                     sheet' = [sheet EXCEPT ![e].stage = IF lost THEN "idle" ELSE "answer",
                                            ![e].form = Report(id, register'[id]), ![e].wrote = TRUE]
  BY <1>2 DEF WriteReport
<1>5. id \in ReportIds
  BY <1>3, <1>4 DEF SheetHolds, FormHolds
<1>6. DOMAIN register = ReportIds /\ RegisterHolds(register[id])
  BY <1>5 DEF RecordsInv
<1>7. PICK row : row = IF old.form.id = "new" THEN Row(e, e, "given", old.form.place) ELSE Fielded(register[id], old.form)
  OBVIOUS
<1>8. register' = [register EXCEPT ![id] = row]
  BY <1>4, <1>7
<1>9. /\ DOMAIN row = ReportFields /\ row.there = TRUE
      /\ register[id].there => row.link = register[id].link /\ row.name = register[id].name
  <2>1. CASE old.form.id = "new"
    BY <1>4, <1>7, <2>1 DEF Row, ReportFields
  <2>2. CASE old.form.id # "new"
    <3>1. DOMAIN register[id] = ReportFields /\ register[id].there = TRUE
      BY <1>4, <1>6, <2>2 DEF RegisterHolds, Absent
    <3>2. row = [register[id] EXCEPT !.date = IF old.form.date = "nonsense" THEN @ ELSE "given", !.place = old.form.place]
      BY <1>7, <2>2 DEF Fielded
    <3> QED
      BY <3>1, <3>2 DEF ReportFields
  <2> QED
    BY <2>1, <2>2
<1>10. \A i \in ReportIds : register'[i] = IF i = id THEN row ELSE register[i]
  BY <1>6, <1>8
<1>11. PICK form : form = Report(id, row)
  OBVIOUS
<1>12. PICK stage \in {"idle", "answer"} : sheet' = [sheet EXCEPT ![e].stage = stage, ![e].form = form, ![e].wrote = TRUE]
  <2>1. PICK lost \in BOOLEAN :
          sheet' = [sheet EXCEPT ![e].stage = IF lost THEN "idle" ELSE "answer",
                                 ![e].form = Report(id, register'[id]), ![e].wrote = TRUE]
    BY <1>4
  <2>2. Report(id, register'[id]) = form
    BY <1>5, <1>10, <1>11
  <2> QED
    BY <2>1, <2>2
<1>13. PICK d : d = [old EXCEPT !.stage = stage, !.form = form, !.wrote = TRUE]
  OBVIOUS
<1>14. sheet' = [sheet EXCEPT ![e] = d]
  BY <1>2, <1>12, <1>13
<1>15. DOMAIN d = SheetFields /\ d.stage = stage /\ d.form = form /\ d.list = old.list
  BY <1>3, <1>13 DEF SheetHolds, SheetFields
<1>16. DOMAIN form = FormFields /\ form.id = id
  BY <1>11 DEF Report, FormFields
<1>17. SheetHolds(d)
  BY <1>3, <1>5, <1>15, <1>16 DEF SheetHolds, FormHolds
<1>18. \A x \in Injured : sheet'[x] = IF x = e THEN d ELSE sheet[x]
  BY <1>3, <1>14
<1>19. RecordsInv'
  <2>1. DOMAIN sheet' = Injured /\ \A x \in Injured : SheetHolds(sheet'[x])
    BY <1>3, <1>14, <1>17, <1>18 DEF RecordsInv
  <2>2. DOMAIN register' = ReportIds /\ \A i \in ReportIds : RegisterHolds(register'[i])
    BY <1>6, <1>8, <1>9, <1>10 DEF RecordsInv, RegisterHolds
  <2> QED
    BY <1>1, <2>1, <2>2 DEF RecordsInv, SheetHolds, FormHolds, RegisterHolds, DetailsHold
<1>20. form \in RegisterShown'.items \/ register'[id].date = "nonsense"
  <2> SUFFICES ASSUME row.date # "nonsense" PROVE form \in RegisterShown'.items
    BY <1>5, <1>10
  <2>1. register'[id] = row /\ id \in ReportIds /\ register'[id].there /\ Verifiable(register'[id])
    BY <1>5, <1>9, <1>10 DEF Verifiable
  <2>2. form = Report(id, register'[id])
    BY <1>11, <2>1
  <2> QED
    BY <2>1, <2>2 DEF RegisterShown, Verifiable, Report
<1>21. ReportsStay
  <2> SUFFICES ASSUME NEW x \in Injured, sheet[x].stage = "write", sheet'[x].wrote, ~sheet[x].wrote
               PROVE  /\ sheet'[x].form \in RegisterShown'.items \/ register'[sheet'[x].form.id].date = "nonsense"
                      /\ register[sheet'[x].form.id].there =>
                           /\ register'[sheet'[x].form.id].link = register[sheet'[x].form.id].link
                           /\ register'[sheet'[x].form.id].name = register[sheet'[x].form.id].name
    BY DEF ReportsStay
  <2>1. CASE x # e
    BY <1>18, <2>1
  <2>2. CASE x = e
    <3>1. sheet'[x].form = form /\ sheet'[x].form.id = id
      BY <1>15, <1>16, <1>18, <2>2
    <3>2. register'[id] = row
      BY <1>5, <1>10
    <3> QED
      BY <1>9, <1>20, <3>1, <3>2
  <2> QED
    BY <2>1, <2>2
<1>22. EditsAreOwn
  BY <1>2, <1>3, <1>18 DEF EditsAreOwn
<1> QED
  BY <1>1, <1>19, <1>21, <1>22 DEF SavedWithin, DetailsStay

\* People & Operations write rows of their own; the pages stay.
LEMMA KeepsRegister ==
  ASSUME RecordsInv, NEW id \in ReportIds, KeepRegister(id)
  PROVE  RecordsInv' /\ SavedWithin
<1>1. sheet' = sheet /\ members' = members /\ profile' = profile
  BY DEF KeepRegister
<1>2. \A row \in Corrections : RegisterHolds(row)
  <2>1. RegisterHolds(Absent)
    BY DEF RegisterHolds
  <2>2. \A l \in Injured, n \in Injured, d \in Dates : RegisterHolds(Row(l, n, d, 0))
    BY DEF RegisterHolds, Row, ReportFields
  <2> QED
    BY <2>1, <2>2 DEF Corrections
<1>3. PICK row : RegisterHolds(row) /\ register' = [register EXCEPT ![id] = row]
  BY <1>2 DEF KeepRegister
<1>4. DOMAIN register' = ReportIds /\ \A i \in ReportIds : RegisterHolds(register'[i])
  BY <1>2, <1>3 DEF RecordsInv
<1>5. RecordsInv'
  BY <1>1, <1>4 DEF RecordsInv, SheetHolds, FormHolds, RegisterHolds, DetailsHold
<1>6. ReportsStay /\ EditsAreOwn
  BY <1>1 DEF ReportsStay, EditsAreOwn
<1> QED
  BY <1>1, <1>5, <1>6 DEF SavedWithin, DetailsStay

(* My Details *)

\* A step of My Details and of the rows it reads leaves the register and its pages.
LEMMA DetailsTurn ==
  ASSUME RecordsInv, register' = register, sheet' = sheet,
         NEW d, NEW table, d = profile', table = members',
         \A i \in DOMAIN table : DOMAIN table[i] = {"status", "fields"},
         DetailsHold(d, table), DetailsStay
  PROVE  RecordsInv' /\ SavedWithin
<1>1. ReportsStay /\ EditsAreOwn
  BY DEF ReportsStay, EditsAreOwn
<1>2. RecordsInv'
  BY DEF RecordsInv, SheetHolds, FormHolds, RegisterHolds, DetailsHold
<1> QED
  BY <1>1, <1>2 DEF SavedWithin

\* A row that is one of two was found in the table.
LEMMA MatchIsARow ==
  ASSUME NEW p \in Pages2, Cardinality(Matches(p)) = 1
  PROVE  (CHOOSE i \in Matches(p) : TRUE) \in DOMAIN members
<1>1. Matches(p) # {}
  BY FS_EmptySet
<1>2. Matches(p) \subseteq p /\ p \subseteq DOMAIN members
  BY DEF Matches, Pages2
<1> QED
  BY <1>1, <1>2

LEMMA DetailsKeep ==
  ASSUME RecordsInv, LoadDetails \/ SendDetails \/ MatchDetails \/ DetailsFail
  PROVE  RecordsInv' /\ SavedWithin
<1>1. register' = register /\ sheet' = sheet /\ members' = members
  BY DEF LoadDetails, SendDetails, MatchDetails, DetailsFail
<1>2. PICK old : old = profile
  OBVIOUS
<1>3. DetailsHold(old, members)
  BY <1>2 DEF RecordsInv
<1>4. DetailsStay
  BY <1>1 DEF DetailsStay
<1>5. ASSUME NEW d, profile' = d, DetailsHold(d, members) PROVE RecordsInv' /\ SavedWithin
  BY <1>1, <1>4, <1>5, DetailsTurn DEF RecordsInv
<1>6. CASE LoadDetails
  <2>1. PICK p \in Pages2 :
       profile' = [ProfileRests EXCEPT
         !.state = IF Cardinality(Matches(p)) = 1 THEN "matched"
                   ELSE IF Matches(p) = {} THEN "not_found" ELSE "ambiguous",
         !.read = IF Cardinality(Matches(p)) = 1
                  THEN members[CHOOSE i \in Matches(p) : TRUE].fields ELSE <<>>,
         !.entries = IF Cardinality(Matches(p)) = 1
                     THEN Entries(members[CHOOSE i \in Matches(p) : TRUE].fields) ELSE <<>>]
    BY <1>6 DEF LoadDetails
  <2>a. PICK state : state = IF Cardinality(Matches(p)) = 1 THEN "matched"
                            ELSE IF Matches(p) = {} THEN "not_found" ELSE "ambiguous"
    OBVIOUS
  <2>i. PICK i : i = CHOOSE j \in Matches(p) : TRUE
    OBVIOUS
  <2>b. PICK read : read = IF Cardinality(Matches(p)) = 1 THEN members[i].fields ELSE <<>>
    OBVIOUS
  <2>c. PICK entries : entries = IF Cardinality(Matches(p)) = 1 THEN Entries(members[i].fields) ELSE <<>>
    OBVIOUS
  <2>2. state = "matched" => Cardinality(Matches(p)) = 1
    BY <2>a
  <2>3. profile' = [ProfileRests EXCEPT !.state = state, !.read = read, !.entries = entries]
    BY <2>1, <2>a, <2>i, <2>b, <2>c
  <2>4. PICK d : d = [ProfileRests EXCEPT !.state = state, !.read = read, !.entries = entries]
    OBVIOUS
  <2>5. DOMAIN d = DetailFields /\ d.stage = "idle" /\ d.state = state /\ d.read = read /\ d.entries = entries
    BY <2>4 DEF ProfileRests, DetailFields
  <2>6. state = "matched" => DOMAIN entries \subseteq {l \in Labels : Readable(read[l])}
    <3> SUFFICES ASSUME state = "matched" PROVE DOMAIN entries \subseteq {l \in Labels : Readable(read[l])}
      OBVIOUS
    <3>1. entries = Entries(read)
      BY <2>2, <2>b, <2>c
    <3> QED
      BY <3>1 DEF Entries
  <2>7. DetailsHold(d, members)
    BY <2>5, <2>6 DEF DetailsHold
  <2> QED
    BY <1>5, <2>3, <2>4, <2>7
<1>7. CASE SendDetails
  <2>1. PICK labels : labels = Editable \cap DOMAIN old.entries
    OBVIOUS
  <2>2. PICK posted : DOMAIN posted = labels /\ profile' = [old EXCEPT !.stage = "find", !.posted = posted]
    BY <1>2, <1>7, <2>1 DEF SendDetails
  <2>4. PICK d : d = [old EXCEPT !.stage = "find", !.posted = posted]
    OBVIOUS
  <2>5. profile' = d
    BY <2>2, <2>4
  <2>6. DOMAIN d = DetailFields /\ d.stage = "find" /\ d.state = old.state /\ d.read = old.read
        /\ d.entries = old.entries /\ d.posted = posted
    BY <1>3, <2>4 DEF DetailsHold, DetailFields
  <2>7. old.state = "matched" /\ DOMAIN posted = labels
    BY <1>2, <1>7, <2>2 DEF SendDetails
  <2>8. DetailsHold(d, members)
    BY <1>3, <2>1, <2>6, <2>7 DEF DetailsHold
  <2> QED
    BY <1>5, <2>5, <2>8
<1>8. CASE MatchDetails
  <2>1. PICK p \in Pages2 :
          profile' = IF Cardinality(Matches(p)) = 1
                     THEN [profile EXCEPT !.stage = "write", !.row = CHOOSE i \in Matches(p) : TRUE]
                     ELSE [profile EXCEPT !.stage = "idle"]
    BY <1>8 DEF MatchDetails
  <2>2. old.stage = "find"
    BY <1>2, <1>8 DEF MatchDetails
  <2>3. CASE Cardinality(Matches(p)) = 1
    <3>1. PICK i : i = CHOOSE j \in Matches(p) : TRUE
      OBVIOUS
    <3>2. i \in DOMAIN members
      BY <2>3, <3>1, MatchIsARow
    <3>3. PICK d : d = [old EXCEPT !.stage = "write", !.row = i]
      OBVIOUS
    <3>4. profile' = d
      BY <1>2, <2>1, <2>3, <3>1, <3>3
    <3>5. DOMAIN d = DetailFields /\ d.stage = "write" /\ d.state = old.state /\ d.read = old.read
          /\ d.entries = old.entries /\ d.posted = old.posted /\ d.row = i
      BY <1>3, <3>3 DEF DetailsHold, DetailFields
    <3>6. DetailsHold(d, members)
      BY <1>3, <2>2, <3>2, <3>5 DEF DetailsHold
    <3> QED
      BY <1>5, <3>4, <3>6
  <2>4. CASE Cardinality(Matches(p)) # 1
    <3>1. PICK d : d = [old EXCEPT !.stage = "idle"]
      OBVIOUS
    <3>2. profile' = d
      BY <1>2, <2>1, <2>4, <3>1
    <3>3. DOMAIN d = DetailFields /\ d.stage = "idle" /\ d.state = old.state /\ d.read = old.read /\ d.entries = old.entries
      BY <1>3, <3>1 DEF DetailsHold, DetailFields
    <3>4. DetailsHold(d, members)
      BY <1>3, <3>3 DEF DetailsHold
    <3> QED
      BY <1>5, <3>2, <3>4
  <2> QED
    BY <2>3, <2>4
<1>9. CASE DetailsFail
  <2>1. PICK d : d = [old EXCEPT !.stage = "idle"]
    OBVIOUS
  <2>2. profile' = d
    BY <1>2, <1>9, <2>1 DEF DetailsFail
  <2>3. DOMAIN d = DetailFields /\ d.stage = "idle" /\ d.state = old.state /\ d.read = old.read /\ d.entries = old.entries
    BY <1>3, <2>1 DEF DetailsHold, DetailFields
  <2>4. DetailsHold(d, members)
    BY <1>3, <2>3 DEF DetailsHold
  <2> QED
    BY <1>5, <2>2, <2>4
<1> QED
  BY <1>6, <1>7, <1>8, <1>9

\* The PATCH changes what was posted: what may be edited and was shown.
LEMMA DetailsWrite ==
  ASSUME RecordsInv, WriteDetails
  PROVE  RecordsInv' /\ SavedWithin
<1>1. register' = register /\ sheet' = sheet
  BY DEF WriteDetails
<1>2. PICK old : old = profile
  OBVIOUS
<1>3. DetailsHold(old, members) /\ old.stage = "write"
  BY <1>2 DEF RecordsInv, WriteDetails
<1>4. PICK i \in DOMAIN members : i = old.row
  BY <1>3 DEF DetailsHold
<1>5. PICK was : was = members[i].fields
  OBVIOUS
<1>6. PICK fields : fields = [l \in Labels |-> IF l \in DOMAIN old.posted THEN old.posted[l] ELSE was[l]]
  OBVIOUS
<1>7. members' = [members EXCEPT ![i].fields = fields]
  BY <1>2, <1>4, <1>5, <1>6 DEF WriteDetails
<1>8. PICK d : d = [old EXCEPT !.stage = "idle", !.row = 0]
  OBVIOUS
<1>9. profile' = d
  BY <1>2, <1>8 DEF WriteDetails
<1>10. DOMAIN d = DetailFields /\ d.stage = "idle" /\ d.state = old.state /\ d.read = old.read /\ d.entries = old.entries
  BY <1>3, <1>8 DEF DetailsHold, DetailFields
<1>11. DetailsHold(d, members')
  BY <1>3, <1>10 DEF DetailsHold
<1>12. DOMAIN members[i] = {"status", "fields"}
  BY DEF RecordsInv
<1>13. members'[i].fields = fields /\ \A j \in DOMAIN members' : DOMAIN members'[j] = {"status", "fields"}
  BY <1>7, <1>12 DEF RecordsInv
<1>14. DetailsStay
  <2> SUFFICES ASSUME NEW l \in Labels, members'[i].fields[l] # was[l]
               PROVE  l \in Editable /\ Readable(old.read[l])
    BY <1>2, <1>4, <1>5 DEF DetailsStay
  <2>1. l \in DOMAIN old.posted
    BY <1>6, <1>13
  <2> QED
    BY <1>3, <2>1 DEF DetailsHold
<1> QED
  BY <1>1, <1>9, <1>11, <1>13, <1>14, DetailsTurn

\* People & Operations fill and change the table.
LEMMA TableKeeps ==
  ASSUME RecordsInv, FillMembers \/ KeepMembers
  PROVE  RecordsInv' /\ SavedWithin
<1>1. register' = register /\ sheet' = sheet /\ profile' = profile
  BY DEF FillMembers, KeepMembers
<1>2. DetailsStay
  BY <1>1 DEF DetailsStay
<1>3. DetailsHold(profile, members)
  BY DEF RecordsInv
<1>4. ASSUME NEW table, members' = table, DOMAIN members \subseteq DOMAIN table,
             \A i \in DOMAIN table : DOMAIN table[i] = {"status", "fields"}
      PROVE  RecordsInv' /\ SavedWithin
  <2>1. DetailsHold(profile, table)
    BY <1>3, <1>4 DEF DetailsHold
  <2> QED
    BY <1>1, <1>2, <1>4, <2>1, DetailsTurn
<1>5. CASE FillMembers
  <2>1. PICK n \in 1..3 :
          \E status \in [1..n -> {"Current", "Past"}], fields \in [Labels -> Holdings] :
            members' = [i \in 1..n |-> [status |-> status[i], fields |-> fields]]
    BY <1>5 DEF FillMembers
  <2>2. PICK status \in [1..n -> {"Current", "Past"}], fields \in [Labels -> Holdings] :
          members' = [i \in 1..n |-> [status |-> status[i], fields |-> fields]]
    BY <2>1
  <2>3. DOMAIN members = {}
    BY <1>5 DEF FillMembers
  <2> QED
    BY <1>4, <2>2, <2>3
<1>6. CASE KeepMembers
  <2>1. PICK i \in DOMAIN members :
          \/ \E l \in Labels, v \in Holdings : members' = [members EXCEPT ![i].fields[l] = v]
          \/ \E s \in {"Current", "Past"} : members' = [members EXCEPT ![i].status = s]
    BY <1>6 DEF KeepMembers
  <2>2. DOMAIN members[i] = {"status", "fields"} /\ \A j \in DOMAIN members : DOMAIN members[j] = {"status", "fields"}
    BY DEF RecordsInv
  <2>3. DOMAIN members' = DOMAIN members /\ \A j \in DOMAIN members : DOMAIN members'[j] = {"status", "fields"}
    BY <2>1, <2>2
  <2> QED
    BY <1>4, <2>3
<1> QED
  BY <1>5, <1>6

LEMMA RecordsStep ==
  RecordsInv /\ [RecordsNext]_recordVars => RecordsInv' /\ [SavedWithin]_recordVars
<1> SUFFICES ASSUME RecordsInv, [RecordsNext]_recordVars PROVE RecordsInv' /\ [SavedWithin]_recordVars
  OBVIOUS
<1>1. CASE UNCHANGED recordVars
  BY <1>1 DEF recordVars, RecordsInv, SheetHolds, FormHolds, RegisterHolds, DetailsHold
<1> QED
  BY <1>1, SheetKeeps, WriteReportKeeps, KeepsRegister, DetailsKeep, DetailsWrite, TableKeeps DEF RecordsNext

\* However People & Operations change the rows meanwhile: an employee's save reaches a report
\* only if it was theirs after the click, leaves alone whose report it is and is part of the
\* managers' register; a save of My Details leaves alone every value the page could not show
\* and every field it may not edit.
THEOREM SavesReachTheirOwn == RecordsSpec => SavesStayWithin
<1>1. RecordsInit => RecordsInv
  <2> SUFFICES ASSUME RecordsInit PROVE RecordsInv
    OBVIOUS
  <2>1. \A e \in Injured : SheetHolds(sheet[e])
    BY DEF RecordsInit, SheetRests, SheetHolds, SheetFields, FormHolds, NoForm, FormFields
  <2>2. DetailsHold(profile, members)
    BY DEF RecordsInit, ProfileRests, DetailsHold, DetailFields
  <2>3. \A id \in ReportIds : RegisterHolds(register[id])
    BY DEF RecordsInit, RegisterHolds
  <2> QED
    BY <2>1, <2>2, <2>3 DEF RecordsInit, RecordsInv
<1>2. RecordsInv /\ [RecordsNext]_recordVars => RecordsInv' /\ [SavedWithin]_recordVars
  BY RecordsStep
<1> QED
  BY <1>1, <1>2, PTL DEF RecordsSpec, SavesStayWithin, SavedWithin, ReportsStay, EditsAreOwn, DetailsStay

(* The recruitment board *)

CardFields == DOMAIN Blank \cup {"Flag"}

\* A sequence, of whatever it is.
IsList(q) == \E S : q \in Seq(S)

\* A board's cards, and one on which every card stands where its applicant has stood.
CardsShaped(v) ==
  DOMAIN v = {"nr", "of"} /\ DOMAIN v.of = Applicants /\ \A a \in Applicants : DOMAIN v.of[a] = CardFields
Stood(v, stages) == CardsShaped(v) /\ \A a \in Applicants : v.of[a].Status \in stages[a]

\* A move goes back to where the applicant has stood, and, once it is written, to where
\* the applicant stands.
CallHolds(c, stages) ==
  /\ DOMAIN c = {"kind", "who", "patch", "at", "mine", "back"}
  /\ c.kind \in {"move", "form", "flags"} /\ c.who \in Applicants
  /\ Stood(c.mine, stages)
  /\ c.at = "saved" => c.kind = "flags"
  /\ c.kind = "move" =>
       /\ "Status" \in DOMAIN c.patch
       /\ c.back.Status \in stages[c.who]
       /\ c.at = "written" => c.patch.Status \in stages[c.who]

Moves(c, a) == c.kind = "move" /\ c.who = a

\* One move of an applicant is under way, while the card may stand where it leads to.
BoardHolds(p, stages) ==
  /\ DOMAIN p = {"props", "local", "saving", "calls"}
  /\ Stood(p.props, stages) /\ CardsShaped(p.local)
  /\ IsList(p.calls)
  /\ \A i \in DOMAIN p.calls : CallHolds(p.calls[i], stages)
  /\ \A i \in DOMAIN p.calls : p.calls[i].kind = "move" => p.calls[i].who \in p.saving
  /\ \A i, j \in DOMAIN p.calls :
       p.calls[i].kind = "move" /\ Moves(p.calls[j], p.calls[i].who) => i = j
  /\ \A a \in Applicants :
       \/ p.local.of[a].Status \in stages[a]
       \/ \E i \in DOMAIN p.calls : Moves(p.calls[i], a) /\ p.calls[i].patch.Status = p.local.of[a].Status

Naming(a, f) == {i \in DOMAIN outbox : outbox[i].who = a /\ f \in DOMAIN outbox[i].patch}

\* Before the lake is the source nothing is in its outbox or about to be.
OutboxHolds ==
  /\ IsList(outbox)
  /\ \A a \in Applicants, f \in DOMAIN Blank :
       Naming(a, f) # {} => \E i \in Naming(a, f) : \A j \in Naming(a, f) : j <= i
  /\ ~lake => outbox = <<>> /\ \A r \in Recruiters : \A i \in DOMAIN board[r].calls : board[r].calls[i].at # "locked"
  /\ OutboxCarriesAll

SourceHolds ==
  /\ DOMAIN hiring = Applicants /\ DOMAIN snapshot = Applicants /\ DOMAIN imported = Applicants
  /\ DOMAIN held = Applicants
  /\ \A a \in Applicants :
       /\ DOMAIN hiring[a] = DOMAIN Blank /\ hiring[a] = [f \in DOMAIN Blank |-> hiring[a][f]]
       /\ DOMAIN imported[a] = DOMAIN Blank
       /\ hiring[a].Status \in held[a] /\ snapshot[a].Status \in held[a]

HiringInv ==
  /\ SourceHolds /\ OutboxHolds
  /\ DOMAIN board = Recruiters /\ \A r \in Recruiters : BoardHolds(board[r], held)
-----------------------------------------------------------------------------
LEMMA BlankFields == DOMAIN Blank = {"Status", "Notes", "Interview", "Potential"}
BY DEF Blank

LEMMA PatchedFields ==
  ASSUME NEW fields, NEW patch
  PROVE  /\ DOMAIN Patched(fields, patch) = DOMAIN fields
         /\ \A f \in DOMAIN fields : Patched(fields, patch)[f] = IF f \in DOMAIN patch THEN patch[f] ELSE fields[f]
BY DEF Patched

\* A sequence with one element more, and without its first.
LEMMA OneMore ==
  ASSUME NEW q, IsList(q), NEW c
  PROVE  /\ IsList(Append(q, c))
         /\ DOMAIN q = 1..Len(q) /\ Len(q) \in Nat
         /\ DOMAIN Append(q, c) = 1..(Len(q) + 1)
         /\ \A i \in DOMAIN q : Append(q, c)[i] = q[i]
         /\ Append(q, c)[Len(q) + 1] = c
<1>1. PICK S : q \in Seq(S)
  BY DEF IsList
<1>2. q \in Seq(S \cup {c}) /\ c \in S \cup {c}
  BY <1>1
<1>3. Append(q, c) \in Seq(S \cup {c}) /\ Len(Append(q, c)) = Len(q) + 1
  BY <1>2
<1> QED BY <1>2, <1>3 DEF IsList

LEMMA OneLess ==
  ASSUME NEW q, IsList(q), q # <<>>
  PROVE  /\ IsList(Tail(q))
         /\ DOMAIN q = 1..Len(q) /\ Len(q) \in Nat \ {0} /\ 1 \in DOMAIN q
         /\ Head(q) = q[1]
         /\ DOMAIN Tail(q) = 1..(Len(q) - 1)
         /\ \A i \in DOMAIN Tail(q) : Tail(q)[i] = q[i + 1] /\ i + 1 \in DOMAIN q
<1>1. PICK S : q \in Seq(S)
  BY DEF IsList
<1>2. Tail(q) \in Seq(S) /\ Len(Tail(q)) = Len(q) - 1 /\ \A i \in 1..Len(Tail(q)) : Tail(q)[i] = q[i + 1]
  BY <1>1, HeadTailProperties
<1>3. DOMAIN q = 1..Len(q) /\ Len(q) \in Nat \ {0}
  BY <1>1
<1> QED BY <1>1, <1>2, <1>3 DEF IsList

\* A board as its page shows it.
LEMMA ShownStands ==
  ASSUME SourceHolds, NEW nr
  PROVE  Stood(Shown(nr), held)
<1>1. "Status" \in DOMAIN Blank
  BY BlankFields
<1> QED BY <1>1 DEF Shown, Stood, CardsShaped, CardFields, SourceHolds

\* Where applicants have stood is never forgotten.
LEMMA StoodMore ==
  ASSUME NEW v, NEW old, NEW new, Stood(v, old), \A a \in Applicants : old[a] \subseteq new[a]
  PROVE  Stood(v, new)
BY DEF Stood

LEMMA CallMore ==
  ASSUME NEW c, NEW old, NEW new, CallHolds(c, old), \A a \in Applicants : old[a] \subseteq new[a]
  PROVE  CallHolds(c, new)
BY StoodMore DEF CallHolds

LEMMA BoardMore ==
  ASSUME NEW p, NEW old, NEW new, BoardHolds(p, old), \A a \in Applicants : old[a] \subseteq new[a]
  PROVE  BoardHolds(p, new)
<1>1. Stood(p.props, new) /\ \A i \in DOMAIN p.calls : CallHolds(p.calls[i], new)
  BY StoodMore, CallMore DEF BoardHolds
<1> QED BY <1>1 DEF BoardHolds

\* What a page shows of a card nobody moves.
LEMMA VisibleStands ==
  ASSUME NEW r \in Recruiters, BoardHolds(board[r], held)
  PROVE  /\ CardsShaped(Visible(r))
         /\ \A a \in Applicants : a \notin board[r].saving => Visible(r).of[a].Status \in held[a]
<1>1. CardsShaped(board[r].local) /\ CardsShaped(board[r].props)
  BY DEF BoardHolds, Stood
<1>2. ASSUME NEW a \in Applicants, a \notin board[r].saving
      PROVE  board[r].local.of[a].Status \in held[a] /\ board[r].props.of[a].Status \in held[a]
  <2>1. ~\E i \in DOMAIN board[r].calls : Moves(board[r].calls[i], a)
    BY <1>2 DEF BoardHolds, Moves
  <2> QED BY <2>1 DEF BoardHolds, Stood
<1> QED BY <1>1, <1>2 DEF Visible

\* A card that is changed on a board.
LEMMA LocalHolds ==
  ASSUME NEW r \in Recruiters, NEW mine, NEW a \in Applicants, NEW change,
         CardsShaped(board[r].local), CardsShaped(mine),
         NEW now, now = IF board[r].local.nr = mine.nr THEN board[r].local ELSE mine,
         NEW v, v = Local(r, mine, a, change)
  PROVE  /\ CardsShaped(v)
         /\ \A b \in Applicants : b # a => v.of[b] = now.of[b]
         /\ v.of[a].Status = IF "Status" \in DOMAIN change THEN change.Status ELSE now.of[a].Status
<1>2. CardsShaped(now)
  OBVIOUS
<1>3. v = [now EXCEPT !.of[a] = Patched(@, change)]
  BY DEF Local
<1>5. DOMAIN v = {"nr", "of"} /\ v.of = [now.of EXCEPT ![a] = Patched(now.of[a], change)]
  BY <1>2, <1>3 DEF CardsShaped
<1>6. v.of[a] = Patched(now.of[a], change) /\ DOMAIN v.of = Applicants /\ \A b \in Applicants : b # a => v.of[b] = now.of[b]
  BY <1>2, <1>5 DEF CardsShaped
<1>7. "Status" \in DOMAIN now.of[a] /\ DOMAIN now.of[a] = CardFields
  BY <1>2, BlankFields DEF CardsShaped, CardFields
<1>8. DOMAIN v.of[a] = CardFields
      /\ v.of[a].Status = IF "Status" \in DOMAIN change THEN change.Status ELSE now.of[a].Status
  BY <1>6, <1>7, PatchedFields
<1>9. CardsShaped(v)
  BY <1>2, <1>5, <1>6, <1>8 DEF CardsShaped
<1> QED BY <1>6, <1>8, <1>9

\* A page changes, and nothing behind it.
LEMMA OneBoard ==
  ASSUME HiringInv, NEW r \in Recruiters, NEW p, Page(r, p), BoardHolds(p, held), SourceRests,
         ~lake => \A i \in DOMAIN p.calls : p.calls[i].at # "locked"
  PROVE  HiringInv'
<1>1. /\ DOMAIN board' = Recruiters /\ board'[r] = p
      /\ \A q \in Recruiters : q # r => board'[q] = board[q]
  BY DEF HiringInv, Page
<1>2. UNCHANGED <<hiring, lake, imported, outbox, snapshot, held>>
  BY DEF SourceRests
<1>3. SourceHolds'
  BY <1>2 DEF HiringInv, SourceHolds
<1>4. \A a, f : Naming(a, f)' = Naming(a, f) /\ WorkedOff(a, f)' = WorkedOff(a, f)
  BY <1>2 DEF Naming, WorkedOff
<1>5. OutboxCarriesAll'
  BY <1>2, <1>4 DEF HiringInv, OutboxHolds, OutboxCarriesAll
<1>6. ~lake' => outbox' = <<>> /\ \A q \in Recruiters : \A i \in DOMAIN board'[q].calls : board'[q].calls[i].at # "locked"
  BY <1>1, <1>2 DEF HiringInv, OutboxHolds
<1>7. OutboxHolds'
  BY <1>2, <1>4, <1>5, <1>6 DEF HiringInv, OutboxHolds
<1>8. \A q \in Recruiters : BoardHolds(board'[q], held')
  BY <1>1, <1>2 DEF HiringInv
<1> QED BY <1>1, <1>3, <1>7, <1>8 DEF HiringInv

\* A change is shown and sent: of a card nobody moves, or of none's place.
LEMMA SendsHolds ==
  ASSUME HiringInv, NEW r \in Recruiters, NEW a \in Applicants, NEW kind, NEW change, NEW patch, NEW saving,
         Sends(r, kind, a, change, patch, saving),
         \/ /\ kind = "move" /\ saving = {a} /\ a \notin board[r].saving
            /\ "Status" \in DOMAIN patch
            /\ "Status" \in DOMAIN change /\ change.Status = patch.Status
         \/ /\ kind \in {"form", "flags"} /\ saving = {}
            /\ change = <<>> \/ "Status" \notin DOMAIN change
  PROVE  HiringInv'
<1>1. PICK b : b = board[r]
  OBVIOUS
<1>2. BoardHolds(b, held) /\ SourceHolds
  BY <1>1 DEF HiringInv
<1>3. PICK c : c = [kind |-> kind, who |-> a, patch |-> patch, at |-> "sent", mine |-> b.props, back |-> Visible(r).of[a]]
  OBVIOUS
<1>4. PICK l : l = IF change = <<>> THEN b.local ELSE Local(r, b.props, a, change)
  OBVIOUS
<1>5. PICK p : p = [b EXCEPT !.local = l, !.saving = @ \cup saving, !.calls = Append(@, c)]
  OBVIOUS
<1>6. Page(r, p) /\ SourceRests
  BY <1>1, <1>3, <1>4, <1>5 DEF Sends
<1>7. /\ DOMAIN p = {"props", "local", "saving", "calls"}
      /\ p.props = b.props /\ p.local = l /\ p.saving = b.saving \cup saving /\ p.calls = Append(b.calls, c)
  BY <1>2, <1>5 DEF BoardHolds
<1>8. PICK n : n = Len(b.calls)
  OBVIOUS
<1>9. /\ IsList(p.calls)
      /\ DOMAIN b.calls = 1..n /\ n \in Nat /\ DOMAIN p.calls = 1..(n + 1)
      /\ \A i \in 1..n : p.calls[i] = b.calls[i]
      /\ p.calls[n + 1] = c
  <2>1. IsList(b.calls)
    BY <1>2 DEF BoardHolds
  <2>2. PICK q : q = b.calls
    OBVIOUS
  <2>3. IsList(q)
    BY <2>1, <2>2
  <2>4. /\ IsList(Append(q, c))
        /\ DOMAIN q = 1..Len(q) /\ Len(q) \in Nat
        /\ DOMAIN Append(q, c) = 1..(Len(q) + 1)
        /\ \A i \in DOMAIN q : Append(q, c)[i] = q[i]
        /\ Append(q, c)[Len(q) + 1] = c
    BY <2>3, OneMore
  <2> QED BY <2>2, <2>4, <1>7, <1>8
<1>10. /\ DOMAIN c = {"kind", "who", "patch", "at", "mine", "back"}
       /\ c.kind = kind /\ c.who = a /\ c.patch = patch /\ c.at = "sent" /\ c.mine = b.props
       /\ c.back = Visible(r).of[a]
  BY <1>3
<1>11. CallHolds(c, held)
  <2>1. Stood(c.mine, held)
    BY <1>2, <1>10 DEF BoardHolds
  <2>2. kind = "move" => c.back.Status \in held[a]
    BY <1>1, <1>2, <1>10, VisibleStands
  <2> QED BY <1>10, <2>1, <2>2 DEF CallHolds
<1>12. \A i \in DOMAIN p.calls : CallHolds(p.calls[i], held)
  BY <1>2, <1>9, <1>11 DEF BoardHolds
<1>13. \A i \in 1..n : b.calls[i].kind = "move" => b.calls[i].who \in b.saving
  BY <1>2, <1>9 DEF BoardHolds
<1>14. \A i \in DOMAIN p.calls : p.calls[i].kind = "move" => p.calls[i].who \in p.saving
  BY <1>7, <1>9, <1>10, <1>13
<1>15. \A i \in 1..n : c.kind = "move" => ~Moves(p.calls[i], a)
  BY <1>1, <1>9, <1>10, <1>13 DEF Moves
<1>16. \A i, j \in DOMAIN p.calls : p.calls[i].kind = "move" /\ Moves(p.calls[j], p.calls[i].who) => i = j
  <2> SUFFICES ASSUME NEW i \in 1..(n + 1), NEW j \in 1..(n + 1),
                      p.calls[i].kind = "move", Moves(p.calls[j], p.calls[i].who)
               PROVE  i = j
    BY <1>9
  <2>1. CASE i = n + 1
    BY <2>1, <1>9, <1>10, <1>15 DEF Moves
  <2>2. CASE j = n + 1
    BY <2>2, <1>9, <1>10, <1>15 DEF Moves
  <2>3. CASE i # n + 1 /\ j # n + 1
    <3>1. i \in 1..n /\ j \in 1..n
      BY <2>3, <1>9
    <3> QED BY <3>1, <1>2, <1>9 DEF BoardHolds
  <2> QED BY <2>1, <2>2, <2>3
<1>17. CardsShaped(b.local) /\ CardsShaped(b.props) /\ Stood(b.props, held)
  BY <1>2 DEF BoardHolds, Stood
<1>18. PICK now : now = IF b.local.nr = b.props.nr THEN b.local ELSE b.props
  OBVIOUS
<1>19. change # <<>> =>
         /\ CardsShaped(l)
         /\ \A d \in Applicants : d # a => l.of[d] = now.of[d]
         /\ l.of[a].Status = IF "Status" \in DOMAIN change THEN change.Status ELSE now.of[a].Status
  <2>1. CardsShaped(board[r].local)
    BY <1>1, <1>17
  <2>2. PICK v : v = Local(r, b.props, a, change)
    OBVIOUS
  <2>3. PICK m : m = IF board[r].local.nr = b.props.nr THEN board[r].local ELSE b.props
    OBVIOUS
  <2>4. /\ CardsShaped(v)
        /\ \A d \in Applicants : d # a => v.of[d] = m.of[d]
        /\ v.of[a].Status = IF "Status" \in DOMAIN change THEN change.Status ELSE m.of[a].Status
    BY <1>17, <2>1, <2>2, <2>3, LocalHolds
  <2>5. m = now
    BY <1>1, <1>18, <2>3
  <2>6. change # <<>> => v = l
    BY <1>4, <2>2
  <2> QED BY <2>4, <2>5, <2>6
<1>20. CardsShaped(l)
  BY <1>4, <1>17, <1>19
<1>21. \A d \in Applicants : \A w :
         \/ w = b.local.of[d].Status
         \/ w = b.props.of[d].Status
         \/ kind = "move" /\ d = a /\ w = patch.Status
         => w \in held[d] \/ \E i \in DOMAIN p.calls : Moves(p.calls[i], d) /\ p.calls[i].patch.Status = w
  <2> SUFFICES ASSUME NEW d \in Applicants, NEW w,
                      \/ w = b.local.of[d].Status
                      \/ w = b.props.of[d].Status
                      \/ kind = "move" /\ d = a /\ w = patch.Status
               PROVE  w \in held[d] \/ \E i \in DOMAIN p.calls : Moves(p.calls[i], d) /\ p.calls[i].patch.Status = w
    OBVIOUS
  <2>1. CASE w = b.props.of[d].Status
    BY <2>1, <1>17 DEF Stood
  <2>2. CASE kind = "move" /\ d = a /\ w = patch.Status
    BY <2>2, <1>9, <1>10 DEF Moves
  <2>3. CASE w = b.local.of[d].Status
    <3>1. w \in held[d] \/ \E i \in DOMAIN b.calls : Moves(b.calls[i], d) /\ b.calls[i].patch.Status = w
      BY <2>3, <1>2 DEF BoardHolds
    <3> QED BY <3>1, <1>9
  <2> QED BY <2>1, <2>2, <2>3
<1>22. \A d \in Applicants :
         \/ l.of[d].Status = b.local.of[d].Status
         \/ l.of[d].Status = b.props.of[d].Status
         \/ kind = "move" /\ d = a /\ l.of[d].Status = patch.Status
  BY <1>4, <1>18, <1>19
<1>23. BoardHolds(p, held)
  <2>1. \A d \in Applicants :
          \/ p.local.of[d].Status \in held[d]
          \/ \E i \in DOMAIN p.calls : Moves(p.calls[i], d) /\ p.calls[i].patch.Status = p.local.of[d].Status
    <3> TAKE d \in Applicants
    <3>1. PICK w : w = l.of[d].Status
      OBVIOUS
    <3>2. \/ w = b.local.of[d].Status
          \/ w = b.props.of[d].Status
          \/ kind = "move" /\ d = a /\ w = patch.Status
      BY <1>22, <3>1
    <3>3. w \in held[d] \/ \E i \in DOMAIN p.calls : Moves(p.calls[i], d) /\ p.calls[i].patch.Status = w
      BY <1>21, <3>2
    <3> QED BY <1>7, <3>1, <3>3
  <2>2. Stood(p.props, held) /\ CardsShaped(p.local) /\ IsList(p.calls)
    BY <1>7, <1>9, <1>17, <1>20
  <2> QED BY <1>7, <1>12, <1>14, <1>16, <2>1, <2>2 DEF BoardHolds
<1>24. ~lake => \A i \in DOMAIN p.calls : p.calls[i].at # "locked"
  BY <1>1, <1>9, <1>10 DEF HiringInv, OutboxHolds
<1> QED BY <1>6, <1>23, <1>24, OneBoard

\* A page whose first call is further on.
Further(p, b, at) ==
  /\ DOMAIN p = DOMAIN b /\ p.props = b.props /\ p.local = b.local /\ p.saving = b.saving
  /\ IsList(p.calls) /\ DOMAIN p.calls = DOMAIN b.calls
  /\ \A i \in DOMAIN b.calls : i # 1 => p.calls[i] = b.calls[i]
  /\ DOMAIN p.calls[1] = DOMAIN b.calls[1] /\ p.calls[1].at = at
  /\ p.calls[1].kind = b.calls[1].kind /\ p.calls[1].who = b.calls[1].who
  /\ p.calls[1].patch = b.calls[1].patch
  /\ p.calls[1].mine = b.calls[1].mine /\ p.calls[1].back = b.calls[1].back

LEMMA ReachedCalls ==
  ASSUME HiringInv, NEW r \in Recruiters, NEW at, board[r].calls # <<>>,
         NEW p, p = [board[r] EXCEPT !.calls[1].at = at]
  PROVE  /\ 1 \in DOMAIN board[r].calls
         /\ First(r) = board[r].calls[1] /\ First(r) = Head(board[r].calls)
         /\ Further(p, board[r], at)
<1>1. PICK b : b = board[r]
  OBVIOUS
<1>2. BoardHolds(b, held)
  BY <1>1 DEF HiringInv
<1>3. PICK S : b.calls \in Seq(S)
  BY <1>2 DEF BoardHolds, IsList
<1>4. 1 \in DOMAIN b.calls /\ DOMAIN b.calls = 1..Len(b.calls) /\ Head(b.calls) = b.calls[1] /\ Len(b.calls) \in Nat
  BY <1>1, <1>3
<1>5. PICK c : c = [b.calls[1] EXCEPT !.at = at]
  OBVIOUS
<1>6. PICK q : q = [b.calls EXCEPT ![1] = c]
  OBVIOUS
<1>7. DOMAIN b.calls[1] = {"kind", "who", "patch", "at", "mine", "back"}
  BY <1>2, <1>4 DEF BoardHolds, CallHolds
<1>8. /\ DOMAIN c = DOMAIN b.calls[1] /\ c.at = at
      /\ c.kind = b.calls[1].kind /\ c.who = b.calls[1].who /\ c.patch = b.calls[1].patch
      /\ c.mine = b.calls[1].mine /\ c.back = b.calls[1].back
  BY <1>5, <1>7
<1>9. q \in Seq(S \cup {c})
  BY <1>3, <1>4, <1>6
<1>10. DOMAIN q = DOMAIN b.calls /\ q[1] = c /\ \A i \in DOMAIN b.calls : i # 1 => q[i] = b.calls[i]
  BY <1>4, <1>6
<1>11. p = [b EXCEPT !.calls = q]
  BY <1>1, <1>5, <1>6
<1>12. DOMAIN p = DOMAIN b /\ p.props = b.props /\ p.local = b.local /\ p.saving = b.saving /\ p.calls = q
  BY <1>2, <1>11 DEF BoardHolds
<1>13. IsList(q)
  BY <1>9 DEF IsList
<1> QED BY <1>1, <1>4, <1>8, <1>10, <1>11, <1>12, <1>13 DEF First, Further

\* ... on a board that otherwise stays: what was written stands.
LEMMA ReachesHolds ==
  ASSUME HiringInv, NEW r \in Recruiters, NEW at, NEW stages, board[r].calls # <<>>, Reaches(r, at),
         \A a \in Applicants : held[a] \subseteq stages[a],
         at = "saved" => First(r).kind = "flags",
         at = "written" /\ First(r).kind = "move" => First(r).patch.Status \in stages[First(r).who]
  PROVE  /\ DOMAIN board' = Recruiters /\ \A q \in Recruiters : q # r => board'[q] = board[q]
         /\ \A q \in Recruiters : BoardHolds(board'[q], stages)
         /\ DOMAIN board'[r].calls = DOMAIN board[r].calls
         /\ \A i \in DOMAIN board[r].calls : board'[r].calls[i].at \in {at, board[r].calls[i].at}
<1>1. PICK p : p = [board[r] EXCEPT !.calls[1].at = at]
  OBVIOUS
<1>2. PICK old : old = board[r].calls
  OBVIOUS
<1>3. /\ DOMAIN p = DOMAIN board[r] /\ p.props = board[r].props /\ p.local = board[r].local
      /\ p.saving = board[r].saving /\ IsList(p.calls)
      /\ DOMAIN p.calls = DOMAIN old /\ 1 \in DOMAIN old /\ First(r) = old[1]
      /\ \A i \in DOMAIN old : i # 1 => p.calls[i] = old[i]
      /\ DOMAIN p.calls[1] = DOMAIN old[1] /\ p.calls[1].at = at
      /\ p.calls[1].kind = old[1].kind /\ p.calls[1].who = old[1].who /\ p.calls[1].patch = old[1].patch
      /\ p.calls[1].mine = old[1].mine /\ p.calls[1].back = old[1].back
  <2>1. 1 \in DOMAIN board[r].calls /\ First(r) = board[r].calls[1] /\ Further(p, board[r], at)
    BY <1>1, ReachedCalls
  <2> QED BY <1>2, <2>1 DEF Further
<1>4. DOMAIN board' = Recruiters /\ board'[r] = p /\ \A q \in Recruiters : q # r => board'[q] = board[q]
  BY <1>1 DEF Reaches, Page, HiringInv
<1>5. \A q \in Recruiters : BoardHolds(board[q], stages)
  BY BoardMore DEF HiringInv
<1>6. BoardHolds(board[r], stages)
  BY <1>5
<1>7. CallHolds(old[1], stages) /\ \A i \in DOMAIN old : CallHolds(old[i], stages)
  BY <1>2, <1>3, <1>6 DEF BoardHolds
<1>8. CallHolds(p.calls[1], stages)
  BY <1>3, <1>7 DEF CallHolds
<1>9. \A i \in DOMAIN p.calls : /\ p.calls[i].kind = old[i].kind /\ p.calls[i].who = old[i].who
                                /\ p.calls[i].patch = old[i].patch /\ CallHolds(p.calls[i], stages)
                                /\ p.calls[i].at \in {at, old[i].at}
  BY <1>3, <1>7, <1>8
<1>10. \A i \in DOMAIN p.calls : \A a : Moves(p.calls[i], a) <=> Moves(old[i], a)
  BY <1>9 DEF Moves
<1>11. BoardHolds(p, stages)
  <2>1. \A i, j \in DOMAIN p.calls : p.calls[i].kind = "move" /\ Moves(p.calls[j], p.calls[i].who) => i = j
    <3>1. \A i, j \in DOMAIN old : old[i].kind = "move" /\ Moves(old[j], old[i].who) => i = j
      BY <1>2, <1>6 DEF BoardHolds
    <3> SUFFICES ASSUME NEW i \in DOMAIN old, NEW j \in DOMAIN old,
                        p.calls[i].kind = "move", Moves(p.calls[j], p.calls[i].who)
                 PROVE  i = j
      BY <1>3
    <3>2. old[i].kind = "move" /\ Moves(old[j], old[i].who)
      BY <1>3, <1>9, <1>10
    <3> QED BY <3>1, <3>2
  <2>2. \A i \in DOMAIN p.calls : p.calls[i].kind = "move" => p.calls[i].who \in p.saving
    <3>1. \A i \in DOMAIN old : old[i].kind = "move" => old[i].who \in board[r].saving
      BY <1>2, <1>6 DEF BoardHolds
    <3> QED BY <1>3, <1>9, <3>1
  <2>3. \A a \in Applicants :
          \/ p.local.of[a].Status \in stages[a]
          \/ \E i \in DOMAIN p.calls : Moves(p.calls[i], a) /\ p.calls[i].patch.Status = p.local.of[a].Status
    <3> TAKE a \in Applicants
    <3>1. CASE board[r].local.of[a].Status \in stages[a]
      BY <3>1, <1>3
    <3>2. CASE \E i \in DOMAIN old : Moves(old[i], a) /\ old[i].patch.Status = board[r].local.of[a].Status
      <4>1. PICK i \in DOMAIN old : Moves(old[i], a) /\ old[i].patch.Status = board[r].local.of[a].Status
        BY <3>2
      <4>2. Moves(p.calls[i], a) /\ p.calls[i].patch.Status = p.local.of[a].Status /\ i \in DOMAIN p.calls
        BY <4>1, <1>3, <1>9, <1>10
      <4> QED BY <4>2
    <3> QED BY <3>1, <3>2, <1>2, <1>6 DEF BoardHolds
  <2> QED BY <1>3, <1>6, <1>9, <2>1, <2>2, <2>3 DEF BoardHolds
<1> QED BY <1>2, <1>3, <1>4, <1>5, <1>9, <1>11

\* What a write changes: one record, whose stage its applicant has now had.
LEMMA WriteHolds ==
  ASSUME HiringInv, NEW r \in Recruiters, board[r].calls # <<>>, Write(r), snapshot' = snapshot, imported' = imported
  PROVE  /\ SourceHolds' /\ First(r).who \in Applicants
         /\ \A a \in Applicants : held[a] \subseteq held'[a]
         /\ \A a \in Applicants \ {First(r).who} : hiring'[a] = hiring[a]
         /\ hiring'[First(r).who] = Patched(hiring[First(r).who], Fields(r))
         /\ First(r).kind = "move" => First(r).patch.Status \in held'[First(r).who]
<1>1. PICK w : w = First(r).who
  OBVIOUS
<1>2. First(r) = board[r].calls[1] /\ 1 \in DOMAIN board[r].calls
  BY OneLess DEF HiringInv, BoardHolds, First
<1>3. CallHolds(First(r), held)
  BY <1>2 DEF HiringInv, BoardHolds
<1>4. w \in Applicants
  BY <1>1, <1>3 DEF CallHolds
<1>5. PICK n : n = Patched(hiring[w], Fields(r))
  OBVIOUS
<1>6. hiring' = [hiring EXCEPT ![w] = n] /\ held' = [held EXCEPT ![w] = @ \cup {hiring'[w].Status}]
  BY <1>1, <1>5 DEF Write
<1>7. /\ DOMAIN hiring' = Applicants /\ DOMAIN held' = Applicants
      /\ hiring'[w] = n /\ \A a \in Applicants \ {w} : hiring'[a] = hiring[a] /\ held'[a] = held[a]
      /\ held'[w] = held[w] \cup {n.Status}
  BY <1>4, <1>6 DEF HiringInv, SourceHolds
<1>8. DOMAIN hiring[w] = DOMAIN Blank /\ "Status" \in DOMAIN Blank
  BY <1>4, BlankFields DEF HiringInv, SourceHolds
<1>9. DOMAIN n = DOMAIN Blank /\ n.Status = IF "Status" \in DOMAIN Fields(r) THEN Fields(r).Status ELSE hiring[w].Status
  BY <1>5, <1>8, PatchedFields
<1>10. \A a \in Applicants : held[a] \subseteq held'[a]
  BY <1>7
<1>11. SourceHolds'
  <2>1. \A a \in Applicants : DOMAIN hiring'[a] = DOMAIN Blank /\ hiring'[a].Status \in held'[a]
    <3> SUFFICES ASSUME NEW a \in Applicants PROVE DOMAIN hiring'[a] = DOMAIN Blank /\ hiring'[a].Status \in held'[a]
      OBVIOUS
    <3>1. CASE a = w
      BY <3>1, <1>7, <1>9
    <3>2. CASE a # w
      BY <3>2, <1>7 DEF HiringInv, SourceHolds
    <3> QED BY <3>1, <3>2
  <2>2. \A a \in Applicants : DOMAIN imported'[a] = DOMAIN Blank /\ snapshot'[a].Status \in held'[a]
    BY <1>10 DEF HiringInv, SourceHolds
  <2>3. DOMAIN snapshot' = Applicants /\ DOMAIN imported' = Applicants
    BY DEF HiringInv, SourceHolds
  <2>4. \A a \in Applicants : hiring'[a] = [f \in DOMAIN Blank |-> hiring'[a][f]]
    <3> SUFFICES ASSUME NEW a \in Applicants PROVE hiring'[a] = [f \in DOMAIN Blank |-> hiring'[a][f]]
      OBVIOUS
    <3>1. CASE a = w
      <4>1. n = [f \in DOMAIN Blank |-> n[f]]
        BY <1>5, <1>8 DEF Patched
      <4> QED BY <3>1, <4>1, <1>7
    <3>2. CASE a # w
      BY <3>2, <1>7 DEF HiringInv, SourceHolds
    <3> QED BY <3>1, <3>2
  <2> QED BY <1>7, <2>1, <2>2, <2>3, <2>4 DEF SourceHolds
<1>12. ASSUME First(r).kind = "move" PROVE First(r).patch.Status \in held'[w]
  <2>1. "Status" \in DOMAIN First(r).patch
    BY <1>3, <1>12 DEF CallHolds
  <2>2. PICK p : p = First(r).patch
    OBVIOUS
  <2>3. Fields(r) = [f \in DOMAIN p \ {"Flag"} |-> p[f]]
    BY <2>2 DEF Fields
  <2>4. "Status" \in DOMAIN Fields(r) /\ Fields(r).Status = p.Status
    BY <2>1, <2>2, <2>3
  <2> QED BY <1>7, <1>9, <2>2, <2>4
<1> QED BY <1>1, <1>4, <1>5, <1>7, <1>10, <1>11, <1>12

\* Airtable is written before there is a lake.
LEMMA AirtableStep ==
  ASSUME HiringInv, NEW r \in Recruiters, PatchAirtable(r)
  PROVE  HiringInv'
<1>1. board[r].calls # <<>> /\ Write(r) /\ Reaches(r, "written") /\ ~lake
      /\ UNCHANGED <<lake, imported, outbox, snapshot>>
  BY DEF PatchAirtable, IsAt
<1>2. /\ SourceHolds' /\ \A a \in Applicants : held[a] \subseteq held'[a]
      /\ First(r).kind = "move" => First(r).patch.Status \in held'[First(r).who]
  BY <1>1, WriteHolds
<1>3. PICK stages : stages = held'
  OBVIOUS
<1>4. /\ DOMAIN board' = Recruiters /\ \A q \in Recruiters : q # r => board'[q] = board[q]
      /\ \A q \in Recruiters : BoardHolds(board'[q], stages)
      /\ DOMAIN board'[r].calls = DOMAIN board[r].calls
      /\ \A i \in DOMAIN board[r].calls : board'[r].calls[i].at \in {"written", board[r].calls[i].at}
  BY <1>1, <1>2, <1>3, ReachesHolds
<1>5. \A q \in Recruiters : \A i \in DOMAIN board'[q].calls : board'[q].calls[i].at # "locked"
  BY <1>1, <1>4 DEF HiringInv, OutboxHolds
<1>6. \A a, f : Naming(a, f)' = Naming(a, f)
  BY <1>1 DEF Naming
<1>7. OutboxHolds'
  BY <1>1, <1>5, <1>6 DEF HiringInv, OutboxHolds, OutboxCarriesAll
<1> QED BY <1>2, <1>3, <1>4, <1>7 DEF HiringInv

\* The steps of a call that write nothing of the source.
LEMMA QuietCalls ==
  ASSUME HiringInv, NEW r \in Recruiters, NEW at, board[r].calls # <<>>, Reaches(r, at),
         UNCHANGED <<hiring, lake, imported, outbox, snapshot, held>>,
         at = "locked" => lake, at # "written", at = "saved" => First(r).kind = "flags"
  PROVE  HiringInv'
<1>1. /\ DOMAIN board' = Recruiters /\ \A q \in Recruiters : q # r => board'[q] = board[q]
      /\ \A q \in Recruiters : BoardHolds(board'[q], held)
      /\ DOMAIN board'[r].calls = DOMAIN board[r].calls
      /\ \A i \in DOMAIN board[r].calls : board'[r].calls[i].at \in {at, board[r].calls[i].at}
  BY ReachesHolds
<1>2. \A a, f : Naming(a, f)' = Naming(a, f) /\ WorkedOff(a, f)' = WorkedOff(a, f)
  BY DEF Naming, WorkedOff
<1>3. OutboxCarriesAll'
  BY <1>2 DEF HiringInv, OutboxHolds, OutboxCarriesAll
<1>4. ~lake' => outbox' = <<>> /\ \A q \in Recruiters : \A i \in DOMAIN board'[q].calls : board'[q].calls[i].at # "locked"
  BY <1>1 DEF HiringInv, OutboxHolds
<1>5. OutboxHolds'
  BY <1>2, <1>3, <1>4 DEF HiringInv, OutboxHolds
<1>6. SourceHolds'
  BY DEF HiringInv, SourceHolds
<1> QED BY <1>1, <1>5, <1>6 DEF HiringInv

\* The row and its entry in the outbox are one step: the entry's fields are worked off
\* last, the others as before.
LEMMA CommitStep ==
  ASSUME HiringInv, NEW r \in Recruiters, CommitLake(r)
  PROVE  HiringInv'
<1>1. board[r].calls # <<>> /\ Write(r) /\ Reaches(r, "written")
      /\ UNCHANGED <<lake, imported, snapshot>>
  BY DEF CommitLake, IsAt
<1>2. /\ SourceHolds' /\ First(r).who \in Applicants
      /\ \A a \in Applicants : held[a] \subseteq held'[a]
      /\ \A a \in Applicants \ {First(r).who} : hiring'[a] = hiring[a]
      /\ hiring'[First(r).who] = Patched(hiring[First(r).who], Fields(r))
      /\ First(r).kind = "move" => First(r).patch.Status \in held'[First(r).who]
  BY <1>1, WriteHolds
<1>3. PICK stages : stages = held'
  OBVIOUS
<1>4. /\ DOMAIN board' = Recruiters /\ \A q \in Recruiters : q # r => board'[q] = board[q]
      /\ \A q \in Recruiters : BoardHolds(board'[q], stages)
  BY <1>1, <1>2, <1>3, ReachesHolds
<1>5. lake
  <2>1. 1 \in DOMAIN board[r].calls /\ First(r) = board[r].calls[1]
    BY <1>1, OneLess DEF HiringInv, BoardHolds, First
  <2> QED BY <2>1 DEF HiringInv, OutboxHolds, CommitLake, IsAt
<1>6. PICK w, P : w = First(r).who /\ P = Fields(r)
  OBVIOUS
<1>7. PICK e : e = [who |-> w, patch |-> P]
  OBVIOUS
<1>8. e.who = w /\ e.patch = P /\ outbox' = Append(outbox, e)
  BY <1>6, <1>7 DEF CommitLake
<1>9. PICK n : n = Len(outbox)
  OBVIOUS
<1>10. /\ IsList(outbox') /\ DOMAIN outbox = 1..n /\ n \in Nat /\ DOMAIN outbox' = 1..(n + 1)
       /\ \A i \in 1..n : outbox'[i] = outbox[i]
       /\ outbox'[n + 1] = e
  BY <1>8, <1>9, OneMore DEF HiringInv, OutboxHolds
<1>11. ASSUME NEW a \in Applicants, NEW f \in DOMAIN Blank, a = w /\ f \in DOMAIN P
       PROVE  /\ \E i \in Naming(a, f)' : \A j \in Naming(a, f)' : j <= i
              /\ WorkedOff(a, f)' = P[f]
  <2>1. n + 1 \in Naming(a, f)' /\ \A j \in Naming(a, f)' : j \in Int /\ j <= n + 1
    BY <1>8, <1>10, <1>11 DEF Naming
  <2>2. \A i \in Naming(a, f)' : (\A j \in Naming(a, f)' : j <= i) => i = n + 1
    BY <2>1, <1>10
  <2>3. (CHOOSE i \in Naming(a, f)' : \A j \in Naming(a, f)' : j <= i) = n + 1
    BY <2>1, <2>2
  <2>4. WorkedOff(a, f)' = outbox'[CHOOSE i \in Naming(a, f)' : \A j \in Naming(a, f)' : j <= i].patch[f]
    BY <2>1 DEF WorkedOff, Naming
  <2> QED BY <1>8, <1>10, <2>1, <2>3, <2>4
<1>12. ASSUME NEW a \in Applicants, NEW f \in DOMAIN Blank, ~(a = w /\ f \in DOMAIN P)
       PROVE  /\ Naming(a, f)' # {} => \E i \in Naming(a, f)' : \A j \in Naming(a, f)' : j <= i
              /\ WorkedOff(a, f)' = WorkedOff(a, f)
  <2>1. Naming(a, f)' = Naming(a, f) /\ Naming(a, f) \subseteq 1..n
    BY <1>8, <1>10, <1>12 DEF Naming
  <2>2. Naming(a, f) # {} => \E i \in Naming(a, f) : \A j \in Naming(a, f) : j <= i
    BY DEF HiringInv, OutboxHolds
  <2>3. PICK N : N = Naming(a, f)
    OBVIOUS
  <2>4. WorkedOff(a, f) = IF N = {} THEN imported[a][f] ELSE outbox[CHOOSE i \in N : \A j \in N : j <= i].patch[f]
    BY <2>3 DEF WorkedOff, Naming
  <2>5. WorkedOff(a, f)' = IF N = {} THEN imported'[a][f] ELSE outbox'[CHOOSE i \in N : \A j \in N : j <= i].patch[f]
    <3>1. WorkedOff(a, f)' = IF Naming(a, f)' = {} THEN imported'[a][f]
                             ELSE outbox'[CHOOSE i \in Naming(a, f)' : \A j \in Naming(a, f)' : j <= i].patch[f]
      BY DEF WorkedOff, Naming
    <3>2. Naming(a, f)' = N
      BY <2>1, <2>3
    <3> QED BY <3>1, <3>2, Zenon
  <2>6. N # {} => (CHOOSE i \in N : \A j \in N : j <= i) \in 1..n
    BY <2>1, <2>2, <2>3
  <2> QED BY <1>1, <1>10, <2>1, <2>2, <2>4, <2>5, <2>6
<1>13. \A a \in Applicants, f \in DOMAIN Blank :
          /\ Naming(a, f)' # {} => \E i \in Naming(a, f)' : \A j \in Naming(a, f)' : j <= i
          /\ WorkedOff(a, f)' = IF a = w /\ f \in DOMAIN P THEN P[f] ELSE WorkedOff(a, f)
  BY <1>11, <1>12
<1>14. \A a \in Applicants : hiring[a] = [f \in DOMAIN Blank |-> WorkedOff(a, f)]
  BY <1>5 DEF HiringInv, OutboxHolds, OutboxCarriesAll
<1>15. ASSUME NEW a \in Applicants
       PROVE  hiring'[a] = [f \in DOMAIN Blank |-> WorkedOff(a, f)']
  <2>1. CASE a # w
    <3>1. hiring'[a] = hiring[a]
      BY <2>1, <1>2, <1>6
    <3>2. \A f \in DOMAIN Blank : WorkedOff(a, f)' = WorkedOff(a, f)
      BY <2>1, <1>13
    <3> QED BY <3>1, <3>2, <1>14
  <2>2. CASE a = w
    <3>1. hiring'[w] = Patched(hiring[w], P)
      BY <1>2, <1>6
    <3>2. DOMAIN hiring[w] = DOMAIN Blank /\ \A f \in DOMAIN Blank : hiring[w][f] = WorkedOff(w, f)
      BY <1>2, <1>6, <1>14
    <3>3. hiring'[w] = [f \in DOMAIN Blank |-> IF f \in DOMAIN P THEN P[f] ELSE hiring[w][f]]
      BY <3>1, <3>2 DEF Patched
    <3>4. \A f \in DOMAIN Blank : WorkedOff(w, f)' = IF f \in DOMAIN P THEN P[f] ELSE hiring[w][f]
      BY <2>2, <3>2, <1>13
    <3> QED BY <2>2, <3>3, <3>4
  <2> QED BY <2>1, <2>2
<1>16. OutboxCarriesAll'
  BY <1>15 DEF OutboxCarriesAll
<1>17. OutboxHolds'
  BY <1>1, <1>5, <1>10, <1>13, <1>16 DEF OutboxHolds
<1> QED BY <1>2, <1>3, <1>4, <1>17 DEF HiringInv

\* The answer takes the first call away; a move that was refused goes back, one that
\* was written stays where it led.
LEMMA AnsweredStep ==
  ASSUME HiringInv, NEW r \in Recruiters, Answered(r)
  PROVE  HiringInv'
<1>1. PICK b, c : b = board[r] /\ c = First(r)
  OBVIOUS
<1>2. BoardHolds(b, held) /\ SourceHolds
  BY <1>1 DEF HiringInv
<1>3. PICK be : be = CASE c.kind = "move"  -> [Status |-> c.back.Status]
                       [] c.kind = "flags" -> [Potential |-> c.back.Potential, Flag |-> c.back.Flag]
                       [] OTHER            -> <<>>
  OBVIOUS
<1>4. PICK l : l = IF c.at = "failed" /\ be # <<>> THEN Local(r, c.mine, c.who, be) ELSE b.local
  OBVIOUS
<1>5. PICK s : s = IF c.kind = "move" THEN b.saving \ {c.who} ELSE b.saving
  OBVIOUS
<1>6. PICK p : p = [b EXCEPT !.local = l, !.saving = s, !.calls = Tail(@)]
  OBVIOUS
<1>7. /\ Page(r, p) /\ SourceRests /\ b.calls # <<>>
      /\ c.at = "failed" \/ c.at = "saved" \/ (c.at = "written" /\ c.kind # "flags")
  <2>1. Page(r, [board[r] EXCEPT
       !.local = IF c.at = "failed" /\ be # <<>> THEN Local(r, c.mine, c.who, be) ELSE @,
       !.saving = IF c.kind = "move" THEN @ \ {c.who} ELSE @,
       !.calls = Tail(@)])
    BY <1>1, <1>3 DEF Answered
  <2>2. p = [board[r] EXCEPT
       !.local = IF c.at = "failed" /\ be # <<>> THEN Local(r, c.mine, c.who, be) ELSE @,
       !.saving = IF c.kind = "move" THEN @ \ {c.who} ELSE @,
       !.calls = Tail(@)]
    BY <1>1, <1>4, <1>5, <1>6
  <2>3. Page(r, p)
    BY <2>1, <2>2, Zenon
  <2> QED BY <2>3, <1>1 DEF Answered, IsAt, ServerRests
<1>8. /\ DOMAIN p = {"props", "local", "saving", "calls"}
      /\ p.props = b.props /\ p.local = l /\ p.saving = s /\ p.calls = Tail(b.calls)
  BY <1>2, <1>6 DEF BoardHolds
<1>9. PICK n : n = Len(b.calls)
  OBVIOUS
<1>10. /\ IsList(p.calls)
       /\ DOMAIN b.calls = 1..n /\ n \in Nat \ {0} /\ 1 \in 1..n /\ DOMAIN p.calls = 1..(n - 1)
       /\ c = b.calls[1]
       /\ \A i \in 1..(n - 1) : p.calls[i] = b.calls[i + 1] /\ i + 1 \in 1..n
  <2>1. IsList(b.calls)
    BY <1>2 DEF BoardHolds
  <2>2. PICK q : q = b.calls
    OBVIOUS
  <2>3. IsList(q) /\ q # <<>>
    BY <2>1, <2>2, <1>7
  <2>4. /\ IsList(Tail(q))
        /\ DOMAIN q = 1..Len(q) /\ Len(q) \in Nat \ {0} /\ 1 \in DOMAIN q
        /\ Head(q) = q[1]
        /\ DOMAIN Tail(q) = 1..(Len(q) - 1)
        /\ \A i \in DOMAIN Tail(q) : Tail(q)[i] = q[i + 1] /\ i + 1 \in DOMAIN q
    BY <2>3, OneLess
  <2>5. c = Head(q)
    BY <1>1, <2>2 DEF First
  <2> QED BY <2>2, <2>4, <2>5, <1>8, <1>9
<1>11. CallHolds(c, held) /\ \A i \in 1..n : CallHolds(b.calls[i], held)
  BY <1>2, <1>10 DEF BoardHolds
<1>12. \A i, j \in 1..n : b.calls[i].kind = "move" /\ Moves(b.calls[j], b.calls[i].who) => i = j
  BY <1>2, <1>10 DEF BoardHolds
<1>13. \A i \in DOMAIN p.calls : CallHolds(p.calls[i], held)
  BY <1>10, <1>11
<1>14. \A i \in DOMAIN p.calls : p.calls[i].kind = "move" => p.calls[i].who \in p.saving
  <2> SUFFICES ASSUME NEW i \in 1..(n - 1), p.calls[i].kind = "move" PROVE p.calls[i].who \in p.saving
    BY <1>10
  <2>1. PICK k : k = i + 1
    OBVIOUS
  <2>2. k \in 1..n /\ k # 1 /\ p.calls[i] = b.calls[k]
    BY <2>1, <1>10
  <2>3. b.calls[k].who \in b.saving
    BY <2>2, <1>2, <1>10 DEF BoardHolds
  <2>4. c.kind = "move" => b.calls[k].who # c.who
    BY <2>2, <1>10, <1>12 DEF Moves
  <2> QED BY <2>2, <2>3, <2>4, <1>5, <1>8
<1>15. \A i, j \in DOMAIN p.calls : p.calls[i].kind = "move" /\ Moves(p.calls[j], p.calls[i].who) => i = j
  <2> SUFFICES ASSUME NEW i \in 1..(n - 1), NEW j \in 1..(n - 1),
                      p.calls[i].kind = "move", Moves(p.calls[j], p.calls[i].who)
               PROVE  i = j
    BY <1>10
  <2>1. i + 1 = j + 1
    BY <1>10, <1>12
  <2> QED BY <2>1
<1>16. CardsShaped(b.local) /\ CardsShaped(c.mine) /\ Stood(c.mine, held) /\ c.who \in Applicants
  BY <1>2, <1>11 DEF BoardHolds, CallHolds, Stood
<1>17. PICK now : now = IF b.local.nr = c.mine.nr THEN b.local ELSE c.mine
  OBVIOUS
<1>18. PICK v : v = Local(r, c.mine, c.who, be)
  OBVIOUS
<1>19. /\ CardsShaped(v)
       /\ \A d \in Applicants : d # c.who => v.of[d] = now.of[d]
       /\ v.of[c.who].Status = IF "Status" \in DOMAIN be THEN be.Status ELSE now.of[c.who].Status
  <2>1. CardsShaped(board[r].local) /\ now = IF board[r].local.nr = c.mine.nr THEN board[r].local ELSE c.mine
    BY <1>1, <1>16, <1>17
  <2> QED BY <2>1, <1>16, <1>18, LocalHolds
<1>20. CardsShaped(l)
  BY <1>4, <1>16, <1>18, <1>19
<1>21. /\ c.kind = "move" => "Status" \in DOMAIN be /\ be.Status = c.back.Status /\ be # <<>>
       /\ c.kind # "move" => "Status" \notin DOMAIN be
  <2>1. CASE c.kind = "move"
    <3>1. be = [Status |-> c.back.Status]
      BY <2>1, <1>3
    <3>2. DOMAIN be = {"Status"} /\ be.Status = c.back.Status
      BY <3>1
    <3> QED BY <2>1, <3>2
  <2>2. CASE c.kind = "flags"
    <3>1. be = [Potential |-> c.back.Potential, Flag |-> c.back.Flag]
      BY <2>2, <1>3
    <3> QED BY <2>2, <3>1
  <2>3. CASE c.kind = "form"
    <3>1. be = <<>>
      BY <2>3, <1>3
    <3> QED BY <2>3, <3>1
  <2> QED BY <2>1, <2>2, <2>3, <1>11 DEF CallHolds
<1>22. \A d \in Applicants : \A w : w = b.local.of[d].Status \/ w = c.mine.of[d].Status =>
         \/ w \in held[d]
         \/ \E i \in DOMAIN p.calls : Moves(p.calls[i], d) /\ p.calls[i].patch.Status = w
         \/ Moves(c, d) /\ c.patch.Status = w /\ w = b.local.of[d].Status
  <2> SUFFICES ASSUME NEW d \in Applicants, NEW w, w = b.local.of[d].Status \/ w = c.mine.of[d].Status
               PROVE  \/ w \in held[d]
                      \/ \E i \in DOMAIN p.calls : Moves(p.calls[i], d) /\ p.calls[i].patch.Status = w
                      \/ Moves(c, d) /\ c.patch.Status = w /\ w = b.local.of[d].Status
    OBVIOUS
  <2>1. CASE w = c.mine.of[d].Status
    BY <2>1, <1>16 DEF Stood
  <2>2. CASE w = b.local.of[d].Status /\ w \notin held[d]
    <3>1. PICK k \in 1..n : Moves(b.calls[k], d) /\ b.calls[k].patch.Status = w
      BY <2>2, <1>2, <1>10 DEF BoardHolds
    <3>2. CASE k = 1
      BY <3>1, <3>2, <2>2, <1>10
    <3>3. CASE k # 1
      <4>1. PICK i : i = k - 1
        OBVIOUS
      <4>2. i \in 1..(n - 1) /\ i + 1 = k
        BY <4>1, <3>3, <1>10
      <4>3. p.calls[i] = b.calls[k] /\ i \in DOMAIN p.calls
        BY <4>2, <1>10
      <4> QED BY <3>1, <4>3
    <3> QED BY <3>2, <3>3
  <2> QED BY <2>1, <2>2
<1>23. ASSUME NEW d \in Applicants
       PROVE  \/ l.of[d].Status \in held[d]
              \/ \E i \in DOMAIN p.calls : Moves(p.calls[i], d) /\ p.calls[i].patch.Status = l.of[d].Status
  <2>1. CASE ~Moves(c, d)
    <3>1. v.of[d].Status = b.local.of[d].Status \/ v.of[d].Status = c.mine.of[d].Status
      BY <2>1, <1>11, <1>17, <1>19, <1>21 DEF Moves
    <3>2. l.of[d].Status = b.local.of[d].Status \/ l.of[d].Status = c.mine.of[d].Status
      BY <3>1, <1>4, <1>18
    <3> QED BY <2>1, <3>2, <1>22
  <2>2. CASE Moves(c, d) /\ c.at = "failed"
    <3>1. l.of[d].Status = c.back.Status /\ c.back.Status \in held[d]
      BY <2>2, <1>4, <1>11, <1>18, <1>19, <1>21 DEF Moves, CallHolds
    <3> QED BY <3>1
  <2>3. CASE Moves(c, d) /\ c.at # "failed"
    <3>1. c.at = "written" /\ c.patch.Status \in held[d]
      BY <2>3, <1>7, <1>11 DEF Moves, CallHolds
    <3>2. l = b.local
      BY <2>3, <1>4
    <3> QED BY <3>1, <3>2, <1>22
  <2> QED BY <2>1, <2>2, <2>3
<1>24. BoardHolds(p, held)
  BY <1>2, <1>8, <1>10, <1>13, <1>14, <1>15, <1>20, <1>23 DEF BoardHolds
<1>25. ~lake => \A i \in DOMAIN p.calls : p.calls[i].at # "locked"
  BY <1>1, <1>10 DEF HiringInv, OutboxHolds
<1> QED BY <1>7, <1>24, <1>25, OneBoard

LEMMA LoadStep ==
  ASSUME HiringInv, NEW r \in Recruiters, LoadBoard(r)
  PROVE  HiringInv'
<1>1. PICK b, v : b = board[r] /\ v = Shown(b.props.nr + 1)
  OBVIOUS
<1>2. PICK p : p = [b EXCEPT !.props = v]
  OBVIOUS
<1>3. Page(r, p) /\ SourceRests
  BY <1>1, <1>2 DEF LoadBoard, ServerRests
<1>4. BoardHolds(b, held) /\ Stood(v, held)
  BY <1>1, ShownStands DEF HiringInv
<1>5. /\ DOMAIN p = {"props", "local", "saving", "calls"}
      /\ p.props = v /\ p.local = b.local /\ p.saving = b.saving /\ p.calls = b.calls
  BY <1>2, <1>4 DEF BoardHolds
<1>6. BoardHolds(p, held)
  BY <1>4, <1>5 DEF BoardHolds
<1>7. ~lake => \A i \in DOMAIN p.calls : p.calls[i].at # "locked"
  BY <1>1, <1>5 DEF HiringInv, OutboxHolds
<1> QED BY <1>3, <1>6, <1>7, OneBoard

\* The lake starts from what the source has, with nothing in its outbox.
LEMMA LakeStep ==
  ASSUME HiringInv, TurnToLake
  PROVE  HiringInv'
<1>1. lake' /\ imported' = hiring /\ outbox = <<>> /\ UNCHANGED <<hiring, outbox, snapshot, board, held>>
  BY DEF TurnToLake, HiringInv, OutboxHolds
<1>2. DOMAIN outbox' = {}
  BY <1>1
<1>3. \A a, f : Naming(a, f)' = {} /\ WorkedOff(a, f)' = hiring[a][f]
  BY <1>1, <1>2 DEF Naming, WorkedOff
<1>4. OutboxCarriesAll'
  <2>1. \A a \in Applicants : hiring[a] = [f \in DOMAIN Blank |-> hiring[a][f]]
    BY DEF HiringInv, SourceHolds
  <2>2. \A a \in Applicants : hiring'[a] = [f \in DOMAIN Blank |-> WorkedOff(a, f)']
    BY <1>1, <1>3, <2>1
  <2> QED BY <2>2 DEF OutboxCarriesAll
<1>5. OutboxHolds'
  BY <1>1, <1>3, <1>4 DEF HiringInv, OutboxHolds
<1>6. SourceHolds'
  BY <1>1 DEF HiringInv, SourceHolds
<1> QED BY <1>1, <1>5, <1>6 DEF HiringInv

LEMMA SnapshotStep ==
  ASSUME HiringInv, Revalidate
  PROVE  HiringInv'
<1>1. snapshot' = hiring /\ UNCHANGED <<hiring, lake, imported, outbox, board, held>>
  BY DEF Revalidate
<1>2. \A a, f : Naming(a, f)' = Naming(a, f) /\ WorkedOff(a, f)' = WorkedOff(a, f)
  BY <1>1 DEF Naming, WorkedOff
<1>3. OutboxCarriesAll'
  BY <1>1, <1>2 DEF HiringInv, OutboxHolds, OutboxCarriesAll
<1>4. OutboxHolds'
  BY <1>1, <1>2, <1>3 DEF HiringInv, OutboxHolds
<1>5. SourceHolds'
  BY <1>1 DEF HiringInv, SourceHolds
<1> QED BY <1>1, <1>4, <1>5 DEF HiringInv

LEMMA HiringStarts ==
  ASSUME HiringInit
  PROVE  HiringInv
<1>1. \A a \in Applicants : hiring[a] = Blank /\ snapshot[a] = Blank /\ imported[a] = Blank /\ held[a] = {Unset}
  BY DEF HiringInit
<1>2. DOMAIN hiring = Applicants /\ DOMAIN snapshot = Applicants /\ DOMAIN imported = Applicants /\ DOMAIN held = Applicants
  BY DEF HiringInit
<1>3. Blank = [f \in DOMAIN Blank |-> Blank[f]] /\ Blank.Status = Unset
  BY DEF Blank
<1>4. SourceHolds
  BY <1>1, <1>2, <1>3 DEF SourceHolds
<1>5. Stood(Shown(0), held)
  BY <1>4, ShownStands
<1>6. PICK v : v = Shown(0)
  OBVIOUS
<1>7. /\ DOMAIN board = Recruiters /\ outbox = <<>> /\ ~lake
      /\ \A r \in Recruiters : board[r] = [props |-> v, local |-> v, saving |-> {}, calls |-> <<>>]
  BY <1>6 DEF HiringInit
<1>8. \A r \in Recruiters :
        /\ DOMAIN board[r] = {"props", "local", "saving", "calls"}
        /\ board[r].props = v /\ board[r].local = v /\ board[r].calls = <<>>
  <2>1. PICK p : p = [props |-> v, local |-> v, saving |-> {}, calls |-> <<>>]
    OBVIOUS
  <2>2. DOMAIN p = {"props", "local", "saving", "calls"} /\ p.props = v /\ p.local = v /\ p.calls = <<>>
    BY <2>1
  <2>3. \A r \in Recruiters : board[r] = p
    BY <1>7, <2>1
  <2> QED BY <2>2, <2>3
<1>9. IsList(<<>>) /\ DOMAIN <<>> = {}
  BY DEF IsList
<1>10. \A r \in Recruiters : BoardHolds(board[r], held)
  BY <1>5, <1>6, <1>8, <1>9 DEF BoardHolds, Stood
<1>11. \A a, f : Naming(a, f) = {}
  BY <1>7, <1>9 DEF Naming
<1>12. OutboxHolds
  BY <1>7, <1>8, <1>9, <1>11 DEF OutboxHolds, OutboxCarriesAll
<1> QED BY <1>4, <1>7, <1>10, <1>12 DEF HiringInv

LEMMA HiringKept ==
  ASSUME HiringInv, [HiringNext]_hiringVars
  PROVE  HiringInv'
<1>1. ASSUME NEW r \in Recruiters, NEW a \in Applicants, MoveCandidate(r, a)
      PROVE  HiringInv'
  <2>1. PICK stage \in (Stages \cup {Unset}) :
          Sends(r, "move", a, [Status |-> stage], [Status |-> stage, Notes |-> Visible(r).of[a].Notes], {a})
    BY <1>1 DEF MoveCandidate
  <2>2. PICK ch, pa : ch = [Status |-> stage] /\ pa = [Status |-> stage, Notes |-> Visible(r).of[a].Notes]
    OBVIOUS
  <2>3. "Status" \in DOMAIN pa /\ "Status" \in DOMAIN ch /\ ch.Status = pa.Status
    BY <2>2
  <2>4. Sends(r, "move", a, ch, pa, {a}) /\ a \notin board[r].saving
    BY <1>1, <2>1, <2>2 DEF MoveCandidate
  <2> QED BY <2>3, <2>4, SendsHolds
<1>2. ASSUME NEW r \in Recruiters, NEW a \in Applicants, SubmitUpdate(r, a)
      PROVE  HiringInv'
  <2>1. PICK pa : Sends(r, "form", a, <<>>, pa, {})
    BY <1>2 DEF SubmitUpdate
  <2> QED BY <2>1, SendsHolds
<1>3. ASSUME NEW r \in Recruiters, NEW a \in Applicants, SubmitInterview(r, a)
      PROVE  HiringInv'
  <2>1. PICK pa : Sends(r, "form", a, <<>>, pa, {})
    BY <1>3 DEF SubmitInterview
  <2> QED BY <2>1, SendsHolds
<1>4. ASSUME NEW r \in Recruiters, NEW a \in Applicants, ToggleFlag(r, a)
      PROVE  HiringInv'
  <2>1. PICK now : now = Visible(r).of[a]
    OBVIOUS
  <2>2. PICK f \in {"Potential", "Flag"} :
          LET flags == [g \in {"Potential", "Flag"} |->
                          IF g # f THEN now[g] ELSE IF now[g] = Yes THEN Unset ELSE Yes]
          IN  Sends(r, "flags", a, flags, flags, {})
    BY <1>4, <2>1 DEF ToggleFlag
  <2>3. PICK flags : flags = [g \in {"Potential", "Flag"} |->
                                IF g # f THEN now[g] ELSE IF now[g] = Yes THEN Unset ELSE Yes]
    OBVIOUS
  <2>4. Sends(r, "flags", a, flags, flags, {})
    BY <2>2, <2>3
  <2>5. "Status" \notin DOMAIN flags
    BY <2>3
  <2> QED BY <2>4, <2>5, SendsHolds
<1>5. ASSUME NEW r \in Recruiters, UpdateLake(r)
      PROVE  HiringInv'
  BY <1>5, QuietCalls DEF UpdateLake, IsAt, ServerRests, SourceRests
<1>6. ASSUME NEW r \in Recruiters, ReplaceFlags(r)
      PROVE  HiringInv'
  BY <1>6, QuietCalls DEF ReplaceFlags, IsAt
<1>7. ASSUME NEW r \in Recruiters, CallFails(r)
      PROVE  HiringInv'
  BY <1>7, QuietCalls DEF CallFails, ServerRests, SourceRests
<1>8. ASSUME UNCHANGED hiringVars
      PROVE  HiringInv'
  <2>1. UNCHANGED <<hiring, lake, imported, outbox, snapshot, board, held>>
    BY <1>8 DEF hiringVars
  <2>2. \A a, f : Naming(a, f)' = Naming(a, f) /\ WorkedOff(a, f)' = WorkedOff(a, f)
    BY <2>1 DEF Naming, WorkedOff
  <2> QED BY <2>1, <2>2 DEF HiringInv, OutboxHolds, OutboxCarriesAll, SourceHolds
<1> QED BY <1>1, <1>2, <1>3, <1>4, <1>5, <1>6, <1>7, <1>8, AirtableStep, CommitStep, AnsweredStep, LoadStep,
           LakeStep, SnapshotStep DEF HiringNext

\* Once the lake's outbox has been worked off Airtable has what the lake has, and a card
\* at rest stands where its applicant has stood: however recruiters' saves interleave,
\* fail between the row and the outbox, are answered late or reloaded in between.
THEOREM SavesReachEverybody == HiringSpec => []SavesAreShared
<1>1. HiringInv => SavesAreShared
  BY VisibleStands DEF HiringInv, OutboxHolds, SavesAreShared, CardsStandWhereTheyStood
<1> QED BY <1>1, HiringStarts, HiringKept, PTL DEF HiringSpec
=============================================================================
