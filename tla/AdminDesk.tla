------------------------------ MODULE AdminDesk ------------------------------
(***************************************************************************)
(* The administrators' pages: each shows a copy of the directory, says on  *)
(* its buttons what a click will do to the person shown, and is given a    *)
(* new copy with the answer.  Between, other administrators change the     *)
(* same people.  Also the team picker of the Systems dialogs.              *)
(***************************************************************************)
EXTENDS Naturals, FiniteSets

CONSTANTS
  Admins,      \* administrators with the page open
  Members,     \* people who may be invited and managed
  Root,        \* the super administrator among the administrators
  Nobody,      \* nobody
  Ranks,       \* bound: the choices of the access picker, of none, user and admin
  MaxActs      \* bound: clicks, sign-ins and invitations that run out

Persons == Admins \cup Members

VARIABLES
  directory,   \* the people in the database, and how often they were changed
  clerk,       \* the emails Clerk has an account for
  desk,        \* each administrator's page and its server action
  picker,      \* the form of a Systems dialog
  acts         \* bounded events so far

adminVars == <<directory, clerk, desk, picker, acts>>

Stranger == [known |-> FALSE, bound |-> FALSE, invitation |-> "none",
             status |-> "active", admin |-> "no", systems |-> "no", level |-> "none"]

Beginning ==
  [people |-> [p \in Persons |->
     IF p \in Admins THEN [Stranger EXCEPT !.known = TRUE, !.bound = TRUE, !.admin = "yes"]
     ELSE Stranger],
   rev |-> 0]

\* A page between clicks.
Resting(seen, selected) ==
  [seen |-> seen, selected |-> selected, stage |-> "idle", who |-> Nobody,
   field |-> "none", value |-> "", wrote |-> 0, left |-> ""]

AdminInit ==
  /\ directory = Beginning
  /\ clerk = Admins
  /\ desk = [a \in Admins |-> Resting(Beginning, Nobody)]
  /\ picker = [owner |-> Nobody, members |-> {}, open |-> FALSE]
  /\ acts = 0

\* directoryStatus
Status(row) ==
  IF row.status = "suspended" THEN "suspended"
  ELSE IF row.bound THEN "active"
  ELSE IF row.invitation = "pending" THEN "invited" ELSE "invitation_expired"

Acts == acts < MaxActs /\ acts' = acts + 1
Unhurried(a) == desk[a].stage = "idle"
Listed(a) == {p \in Persons : desk[a].seen.people[p].known}

-----------------------------------------------------------------------------
(* The page *)

\* A row is clicked or the details are closed while an action is pending.
Select(a) ==
  /\ ~Unhurried(a)
  /\ \E p \in (Listed(a) \cup {Nobody}) \ {desk[a].selected} : desk' = [desk EXCEPT ![a].selected = p]
  /\ UNCHANGED <<directory, clerk, picker, acts>>

Other(answer) == IF answer = "yes" THEN "no" ELSE "yes"

\* What the buttons of the person shown offer.
Offers(row, p) ==
  (IF p = Root /\ row.status # "suspended" THEN {}
   ELSE {<<"status", IF row.status = "suspended" THEN "active" ELSE "suspended">>})
  \cup (IF p = Root THEN {} ELSE {<<f, Other(row[f])>> : f \in {"admin", "systems"}})
  \cup {<<"level", l>> : l \in Ranks}

\* toggleStatus, toggleAdministrator, toggleSystemsTeam, setAppAccess: somebody
\* is shown, and the click sends the value the button offered.
Click(a) ==
  /\ Unhurried(a) /\ Acts
  /\ \E p \in Listed(a) : \E o \in Offers(desk[a].seen.people[p], p) :
       desk' = [desk EXCEPT ![a].stage = "write", ![a].who = p, ![a].selected = p,
                            ![a].field = o[1], ![a].value = o[2]]
  /\ UNCHANGED <<directory, clerk, picker>>

\* inviteUser for an email that is not in the copy of the directory, and
\* renewInvitation for the person shown when the invitation ran out.
AskInvite(a) ==
  /\ Unhurried(a) /\ Acts
  /\ \E p \in (Persons \ Listed(a)) \cup
       {q \in Listed(a) : Status(desk[a].seen.people[q]) = "invitation_expired"} :
       desk' = [desk EXCEPT ![a].stage = "find", ![a].who = p, ![a].field = "invite",
                            ![a].value = ""]
  /\ UNCHANGED <<directory, clerk, picker>>

-----------------------------------------------------------------------------
(* The server actions *)

\* accessActor, and the actor of the statements.
MayAct(a) == a = Root \/ (directory.people[a].admin = "yes" /\ directory.people[a].status = "active")

Fails(a) == desk' = [desk EXCEPT ![a] = Resting(@.seen, @.selected)]

\* ensureClerkTeamUser: is there an account for the email?
FindClerkUser(a) ==
  /\ desk[a].stage \in {"find", "refind"}
  /\ IF ~MayAct(a) /\ desk[a].stage = "find" THEN Fails(a)
     ELSE IF desk[a].who \in clerk THEN desk' = [desk EXCEPT ![a].stage = "write"]
     ELSE IF desk[a].stage = "find" THEN desk' = [desk EXCEPT ![a].stage = "create"]
     ELSE Fails(a)
  /\ UNCHANGED <<directory, clerk, picker, acts>>

\* ... it is created; whatever goes wrong, the account is looked for once more.
CreateClerkUser(a) ==
  /\ desk[a].stage = "create"
  /\ \/ /\ desk[a].who \notin clerk
        /\ clerk' = clerk \cup {desk[a].who}
        /\ \E answered \in BOOLEAN :
             desk' = [desk EXCEPT ![a].stage = IF answered THEN "write" ELSE "refind"]
     \/ /\ desk' = [desk EXCEPT ![a].stage = "refind"]
        /\ UNCHANGED clerk
  /\ UNCHANGED <<directory, picker, acts>>

\* invitePostgresUser: a new person, or a new invitation for one not bound yet.
Invited(row) == IF row.bound THEN row ELSE [row EXCEPT !.known = TRUE, !.invitation = "pending"]

\* Mutant: the action changes what it finds instead of setting what was asked.
Toggled(row, d) ==
  IF d.field = "invite" THEN Invited(row)
  ELSE IF d.field \in {"admin", "systems"} THEN [row EXCEPT ![d.field] = Other(@)]
  ELSE [row EXCEPT ![d.field] = d.value]

\* What the statement makes of the row.
Written(row, d) ==
  IF d.field = "invite" THEN Invited(row)
  ELSE [row EXCEPT ![d.field] = d.value]

\* changeAccessUserStatus, changePlatformAdmin: not against oneself; the super
\* administrator is neither suspended nor given roles.
Forbidden(a, d) ==
  \/ /\ d.who = a
     /\ <<d.field, d.value>> \in {<<"status", "suspended">>, <<"admin", "no">>}
  \/ /\ d.who = Root
     /\ (d.field \in {"admin", "systems"} \/ <<d.field, d.value>> = <<"status", "suspended">>)

\* The check of the actor and the statement.
Commit(a) ==
  LET d == desk[a]
      row == Written(directory.people[d.who], d) IN
  /\ d.stage = "write"
  /\ IF ~MayAct(a) \/ Forbidden(a, d)
     THEN Fails(a) /\ UNCHANGED directory
     ELSE /\ directory' = [people |-> [directory.people EXCEPT ![d.who] = row],
                           rev |-> directory.rev + 1]
          /\ desk' = [desk EXCEPT ![a].stage = "read", ![a].wrote = directory.rev + 1,
                                  ![a].left = IF d.field = "invite" THEN "" ELSE row[d.field]]
  /\ UNCHANGED <<clerk, picker, acts>>

\* success: the directory is read again for the answer, after others may have
\* changed it; applyResult shows it, and after an invitation the person invited.
ReadBack(a) ==
  /\ desk[a].stage = "read"
  /\ desk' = [desk EXCEPT ![a] = Resting(directory, IF @.field = "invite" THEN @.who ELSE @.selected)]
  /\ UNCHANGED <<directory, clerk, picker, acts>>

-----------------------------------------------------------------------------
(* The people themselves *)

\* An invited person with an account signs in.
Arrive(p) ==
  /\ directory.people[p].invitation = "pending" /\ ~directory.people[p].bound
  /\ directory.people[p].status = "active" /\ p \in clerk /\ Acts
  /\ directory' = [people |-> [directory.people EXCEPT ![p].bound = TRUE, ![p].invitation = "accepted"],
                   rev |-> directory.rev + 1]
  /\ UNCHANGED <<clerk, desk, picker>>

\* Fourteen days pass.
RunOut(p) ==
  /\ directory.people[p].invitation = "pending" /\ Acts
  /\ directory' = [people |-> [directory.people EXCEPT ![p].invitation = "expired"], rev |-> directory.rev + 1]
  /\ UNCHANGED <<clerk, desk, picker>>

-----------------------------------------------------------------------------
(* The team picker of RegistrationDialog and AssetEditDialog *)

\* The dialog opens empty, or with a registered team (bound: on a page nothing
\* else happens on).
OpenDialog ==
  /\ ~picker.open /\ acts = 0 /\ acts' = MaxActs
  /\ \E owner \in Persons \cup {Nobody} :
       \E members \in (IF owner = Nobody THEN {{}} ELSE {{}} \cup {{p} : p \in Persons \ {owner}}) :
         picker' = [owner |-> owner, members |-> members, open |-> TRUE]
  /\ UNCHANGED <<directory, clerk, desk>>

\* Whoever becomes the owner is no member any more.
ChooseOwner ==
  /\ picker.open
  /\ \E p \in Persons : picker' = [picker EXCEPT !.owner = p, !.members = @ \ {p}]
  /\ UNCHANGED <<directory, clerk, desk, acts>>

\* The owner's box is disabled.
ToggleMember ==
  /\ picker.open
  /\ \E p \in Persons \ {picker.owner} :
       picker' = [picker EXCEPT !.members = IF p \in @ THEN @ \ {p} ELSE @ \cup {p}]
  /\ UNCHANGED <<directory, clerk, desk, acts>>

AdminNext ==
  \/ \E a \in Admins :
       \/ Select(a) \/ Click(a) \/ AskInvite(a)
       \/ FindClerkUser(a) \/ CreateClerkUser(a) \/ Commit(a) \/ ReadBack(a)
  \/ \E p \in Persons : Arrive(p) \/ RunOut(p)
  \/ OpenDialog \/ ChooseOwner \/ ToggleMember

AdminSpec == AdminInit /\ [][AdminNext]_adminVars
-----------------------------------------------------------------------------
\* However old the page was and whatever colleagues did meanwhile, an answer
\* "saved" means that the person who was shown got what the button said, the page
\* then shows a directory at least as new as that, whoever is invited can sign
\* in, and no dialog can post an owner the server would refuse as a member.
ClicksDoWhatTheySay ==
  [][/\ \A a \in Admins :
          desk[a].stage = "read" /\ desk'[a].stage = "idle" =>
            desk[a].left = desk[a].value /\ desk'[a].seen.rev >= desk[a].wrote
     /\ \A p \in Persons : directory'.people[p].invitation # "none" => p \in clerk'
     /\ picker'.owner \notin picker'.members]_adminVars
=============================================================================
