------------------------------ MODULE Integrity ------------------------------
(***************************************************************************)
(* What Cove believes of its own database.  The access policy is read by   *)
(* nine statements of one transaction, which is READ COMMITTED, so that    *)
(* invitations and registrations may commit between them; a parser refuses *)
(* the whole policy when a reference leads nowhere.  The audit trail is    *)
(* guarded by CHECK constraints where it is written and by a parser where  *)
(* it is shown, which refuses the whole feed when one event is wrong: the  *)
(* constraints say what its metadata may hold, and nothing of the length   *)
(* or the characters of its texts, which only the parser looks at.         *)
(***************************************************************************)
EXTENDS Naturals, Sequences, FiniteSets

CONSTANTS
  Newcomers,    \* people who may be invited
  NewApps,      \* applications that may be registered
  FirstUser,    \* the administrator the database begins with
  FirstApp,     \* the application it begins with
  FeedLimit,    \* events the feed shows
  MaxEvents,    \* bound: events recorded
  MaxReads      \* bound: readings of the policy

ASSUME FeedAssumption == FeedLimit \in Nat \ {0}

VARIABLES
  policy,     \* the rows of the access tables
  reader,     \* one reading of the policy, for a request or for the probe
  trail,      \* audit_events in the order they were written
  console,    \* the operator's page of invitation codes
  reads       \* readings so far

integrityVars == <<policy, reader, trail, console, reads>>

-----------------------------------------------------------------------------
(* The access policy *)

\* The statements of the transaction in their order; partner organisations,
\* teams and memberships, which no code of the repository writes, are left out.
Catalogue == <<"references", "users", "platform", "applications", "roles", "entitlements">>

\* A row, the application it belongs to, and the rows it points to.
Record(table, key, app, refs) == [table |-> table, key |-> key, app |-> app, refs |-> refs]
Person(u) == Record("references", u, "none", {})
Bound(u) == Record("users", u, "none", {<<"references", u>>})
Officer(u, by) == Record("platform", u, "none", {<<"references", u>>, <<"references", by>>})
AppRows(a) == {Record("applications", a, a, {}), Record("roles", a, a, {<<"applications", a>>})}
Grant(u, a, by) ==
  Record("entitlements", <<u, a>>, a,
         {<<"references", u>>, <<"references", by>>, <<"applications", a>>, <<"roles", a>>})

\* bootstrapFirstAdmin
Founded ==
  {Person(FirstUser), Bound(FirstUser), Officer(FirstUser, FirstUser),
   Grant(FirstUser, FirstApp, FirstUser)} \cup AppRows(FirstApp)

Of(rows, table) == {r \in rows : r.table = table}
Known(rows, ref) == \E r \in Of(rows, ref[1]) : r.key = ref[2]
ReaderRests == [next |-> 0, seen |-> {}, joined |-> FALSE, result |-> "none"]

\* Every write commits at once, whatever is being read; joined: one brought a
\* person or an application in after the reading's first statement.
Joins(rows) == \E r \in rows : r.table \in {"references", "applications"}
Wrote(rows) ==
  /\ policy' = policy \cup rows
  /\ reader' = [reader EXCEPT !.joined = @ \/ Joins(rows)]
  /\ UNCHANGED <<trail, console, reads>>

Present(u) == Person(u) \in policy
Opened(a) == AppRows(a) \subseteq policy
Reading == reader.next # 0   \* bound: writes while nobody reads change no result

\* invitePostgresUser: the person and the evergreen grants in one statement.
InvitePerson(u) ==
  /\ ~Present(u) /\ Reading
  /\ Wrote({Person(u), Grant(u, FirstApp, FirstUser)})

\* bindInvitedIdentity
BindPerson(u) == Present(u) /\ Bound(u) \notin policy /\ Reading /\ Wrote({Bound(u)})

\* changePlatformRole
Promote(u) ==
  /\ Bound(u) \in policy /\ Officer(u, FirstUser) \notin policy /\ Reading
  /\ Wrote({Officer(u, FirstUser)})

\* A registration: the application, its roles and the creator's grant.
Provision(a) ==
  /\ ~Opened(a) /\ Reading
  /\ Wrote(AppRows(a) \cup {Grant(FirstUser, a, FirstUser)})

\* getPostgresAccessSnapshot: one statement after the other.
ReadTable ==
  /\ reader.next < Len(Catalogue) /\ (reader.next = 0 => reads < MaxReads)
  /\ reads' = IF reader.next = 0 THEN reads + 1 ELSE reads
  /\ reader' = [next |-> reader.next + 1,
                seen |-> Of(policy, Catalogue[reader.next + 1]) \cup
                           (IF reader.next = 0 THEN {} ELSE reader.seen),
                joined |-> reader.next # 0 /\ reader.joined,
                result |-> "none"]
  /\ UNCHANGED <<policy, trail, console>>

\* Mutant: people are looked up among those with an identity, as the second
\* statement returns them, and not among all.
CheckedByIdentity(rows) ==
  \A r \in rows : \A ref \in r.refs :
    Known(rows, IF ref[1] = "references" THEN <<"users", ref[2]>> ELSE ref)

\* parseAccessPolicyRows: every reference of every row.
Checked(rows) ==
  \A r \in rows : \A ref \in r.refs :
    /\ Known(rows, ref)
    /\ ref[1] = "roles" => \E role \in Of(rows, "roles") : role.key = ref[2] /\ role.app = r.app

\* The policy is used, or live access is unavailable.
ParsePolicy ==
  /\ reader.next = Len(Catalogue)
  /\ reader' = [reader EXCEPT !.next = 0,
                              !.result = IF Checked(reader.seen) THEN "used" ELSE "unavailable"]
  /\ UNCHANGED <<policy, trail, console, reads>>

-----------------------------------------------------------------------------
(* The audit trail *)

TargetTypes == {"none", "user", "team", "application", "entitlement", "session"}

\* A field of the metadata: what its key says, and what it holds.
FieldKeys == {"plain", "secret", "delegates", "delegate_count"}
FieldValues == {"text", "long_text", "blank", "number", "null", "list"}

\* The texts of an event's columns, of its actor's and its application's name:
\* within text(), or blank, too long or with a control character in them.
TextKinds == {"fit", "unfit"}

\* The one event from before the constraint.
Legacy == [target |-> "application", legacy |-> TRUE, text |-> "fit",
           fields |-> {<<"plain", "text">>, <<"delegates", "list">>}]

\* What statements and migrations may try to record; a name comes from a form that
\* only trims it, an identity's subject from the token.
Attempts ==
  [target : {"user", "builder_code"}, legacy : {FALSE}, text : TextKinds,
   fields : {{f} : f \in FieldKeys \X FieldValues}]

\* audit_metadata_is_feed_safe
FeedSafe(fields) ==
  \A f \in fields : f[1] # "secret" /\ f[2] \in {"text", "number", "null"}

\* The CHECK constraints of audit_events; none is about a text.
Permitted(e) == e.target \in TargetTypes /\ FeedSafe(e.fields)

\* Mutant: the known event is shown like every other.
NotRedacted(e) == e.fields

\* redactKnownLegacyMetadata: a list of names becomes its length.
Redacted(e) ==
  IF e.legacy /\ <<"delegates", "list">> \in e.fields
  THEN (e.fields \ {<<"delegates", "list">>}) \cup {<<"delegate_count", "number">>}
  ELSE e.fields

\* parseAuditRows, of one row.
Showable(e) ==
  /\ e.text = "fit" /\ e.target \in TargetTypes
  /\ \A f \in Redacted(e) : f[1] # "secret" /\ f[2] \in {"text", "number", "null"}

\* getPostgresAuditFeed: the newest events, newest first.
Newest(s) == [i \in 1..(IF Len(s) < FeedLimit THEN Len(s) ELSE FeedLimit) |-> s[Len(s) + 1 - i]]

\* parseAuditRows and getAccessAuditFeed: all of them or none.
Feed(s) ==
  IF \A i \in DOMAIN Newest(s) : Showable(Newest(s)[i])
  THEN [source |-> "postgres",
        events |-> [i \in DOMAIN Newest(s) |-> [Newest(s)[i] EXCEPT !.fields = Redacted(Newest(s)[i])]]]
  ELSE [source |-> "unavailable", events |-> <<>>]

\* A statement records its event, or the database refuses all of it.
RecordEvent ==
  /\ Len(trail) < MaxEvents
  /\ \E e \in Attempts : Permitted(e) /\ trail' = Append(trail, e)
  /\ UNCHANGED <<policy, reader, console, reads>>

-----------------------------------------------------------------------------
(* Invitation codes for builders *)

CodeEvent ==
  [target |-> "builder_code", legacy |-> FALSE, text |-> "fit",
   fields |-> {<<"plain", "text">>, <<"plain", "number">>}]

\* onGenerate
AskCode ==
  /\ console.stage = "idle" /\ Len(trail) < MaxEvents
  /\ console' = [console EXCEPT !.stage = "asked"]
  /\ UNCHANGED <<policy, reader, trail, reads>>

\* generateBuilderCode and its statement: the operator may have lost the role
\* since the page was opened; code and event are one statement.
GenerateCode ==
  /\ console.stage = "asked"
  /\ \E authorised \in BOOLEAN :
       LET given == authorised /\ Permitted(CodeEvent) IN
       /\ console' = [console EXCEPT !.stage = "answered", !.authorised = authorised,
                                     !.codes = IF given THEN @ + 1 ELSE @, !.given = given]
       /\ trail' = IF given THEN Append(trail, CodeEvent) ELSE trail
  /\ UNCHANGED <<policy, reader, reads>>

IntegrityInit ==
  /\ policy = Founded
  /\ reader = ReaderRests
  /\ trail = <<Legacy>>
  /\ console = [stage |-> "idle", authorised |-> FALSE, given |-> FALSE, codes |-> 0]
  /\ reads = 0

IntegrityNext ==
  \/ \E u \in Newcomers : InvitePerson(u) \/ BindPerson(u) \/ Promote(u)
  \/ \E a \in NewApps : Provision(a)
  \/ ReadTable \/ ParsePolicy
  \/ RecordEvent \/ AskCode \/ GenerateCode

IntegritySpec == IntegrityInit /\ [][IntegrityNext]_integrityVars
-----------------------------------------------------------------------------
\* What refuses Cove its own tables.  A reading of the policy is refused only when a
\* person or an application came in between its statements: identities bound, roles
\* given and whatever committed before its first statement refuse nothing.  The feed
\* is refused only for a text in one of its newest events: nothing the constraints let
\* into the metadata, and not the event older than they are, keeps it from being shown.
TablesAreBelieved ==
  /\ reader.result = "unavailable" => reader.joined
  /\ Feed(trail).source = "unavailable" =>
       \E i \in DOMAIN Newest(trail) : Newest(trail)[i].text = "unfit"

\* Not kept: a reading that an invitation or a registration overtakes finds a
\* grant of somebody its first statement did not see, and is refused.
PolicyIsAlwaysRead == reader.result # "unavailable"

\* Not kept: an invited person's name may hold a control character, which the form,
\* the policy and the directory accept; the first event they are the actor of
\* refuses the feed, and the readiness probe, until FeedLimit newer events hide it.
FeedIsAlwaysShown == Feed(trail).source = "postgres"

\* The page: "No invitation codes yet. Generate the first one above."
CodesAreGiven == console.stage = "answered" /\ console.authorised => console.given
=============================================================================
