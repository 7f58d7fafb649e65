------------------------------ MODULE Handoff ------------------------------
(***************************************************************************)
(* How Cove opens other applications to a person: the launcher's tickets,  *)
(* which the application has verified, and the check by which an           *)
(* application with the cove-auth kit asks Cove before every protected     *)
(* operation.  Administrators change what the person may open at any time, *)
(* between two statements of one reading too; the instances of Cove need   *)
(* not agree on the time.                                                  *)
(***************************************************************************)
EXTENDS Integers, Sequences

CONSTANTS
  Launches,    \* bound: uses of the launcher
  Apps,        \* applications in the registry
  Secrets,     \* values COVE_HANDOFF_SECRET has, if it has one
  Life,        \* COVE_HANDOFF_TTL_SECONDS
  Ahead,       \* COVE_HANDOFF_CLOCK_WINDOW_SECONDS
  Skew,        \* how far an instance's clock is off
  LastHour,    \* bound: the clock
  MaxCalls,    \* bound: requests of applications, which share nothing: one after the other
  MaxTurns     \* bound: changes of what the person may open, and of the secret

ASSUME HandoffAssumption ==
  {Life, Ahead, Skew, LastHour, MaxCalls, MaxTurns} \subseteq Nat /\ "none" \notin Secrets

VARIABLES
  hour,      \* the time
  standing,  \* what the person may open; suspended: not an active Cove user
  stood,     \* history: what the person's standing was, and when
  browser,   \* the browser has a session at Clerk
  secret,    \* COVE_HANDOFF_SECRET
  launch,    \* the requests of GET /api/cove/launch
  tickets,   \* tickets in the hands of applications
  proven,    \* history: tickets that were verified
  call,      \* the request of an application under way
  answers,   \* history: how the last request was answered
  during,    \* history: the person's standings since that request was made, in order
  requests,  \* bound: requests so far
  turns      \* bound: changes so far

handoffVars == <<hour, standing, stood, browser, secret, launch, tickets, proven, call, during, requests, answers, turns>>

Idle == [at |-> "idle"]

HandoffInit ==
  /\ hour = 0
  /\ standing = [active |-> TRUE, level |-> [a \in Apps |-> "none"]]
  /\ stood = {[when |-> 0, what |-> standing]}
  /\ browser = TRUE /\ secret = "none"
  /\ launch = [l \in Launches |-> Idle] /\ tickets = {} /\ proven = {}
  /\ call = Idle /\ during = <<>> /\ requests = 0 /\ answers = {}
  /\ turns = 0
-----------------------------------------------------------------------------
\* evaluateEntitlement, of one snapshot: may the person open the application ...
Opens(s, a) == s.active /\ s.level[a] # "none"

\* ... and is it enough: grantSatisfiesRequiredRole, roleSatisfies.
Satisfies(level, required) == level = "admin" \/ required = "user"

\* getPostgresAccessSnapshot reads the users with one statement and the entitlements
\* with a later one, each the tables as they are then (READ COMMITTED).
AsRead(active, levels) == [active |-> active, level |-> levels]

LaunchRests == UNCHANGED <<secret, launch, tickets, proven>>
CallsRest   == UNCHANGED <<call, during, requests, answers>>
PersonRests == UNCHANGED <<hour, standing, stood, browser, turns>>

(* The launcher.  Bound: the launcher and the applications' requests share the *)
(* person and nothing else, so a behaviour is about one or the other (and the  *)
(* launcher's needs the time).                                                  *)

\* Without a secret there is no handoff; the session and the Cove user come first.
BeginLaunch(l, a) ==
  /\ launch[l] = Idle /\ secret # "none" /\ browser /\ standing.active
  /\ requests = 0
  /\ launch' = [launch EXCEPT ![l] = [at |-> "known", app |-> a, secret |-> secret, since |-> hour]]
  /\ UNCHANGED <<secret, tickets, proven>> /\ CallsRest /\ PersonRests

\* requireApplicationAccess reads the tables again, the users first.
ReadLaunchUser(l) ==
  /\ launch[l].at = "known"
  /\ launch' = [launch EXCEPT ![l] =
       [at |-> "placed", app |-> @.app, secret |-> @.secret, since |-> @.since, active |-> standing.active]]
  /\ UNCHANGED <<secret, tickets, proven>> /\ CallsRest /\ PersonRests

\* Then the entitlements; the ticket is signed with the secret and the time of this
\* instance and goes to the application's address.
SignTicket(l) ==
  LET started == launch[l] IN
  /\ started.at = "placed" /\ launch' = [launch EXCEPT ![l] = [at |-> "done"]]
  /\ \E off \in -Skew..Skew :
       tickets' = tickets \cup
         (IF Opens(AsRead(started.active, standing.level), started.app)
          THEN {[app |-> started.app, secret |-> started.secret, exp |-> hour + off + Life, since |-> started.since]}
          ELSE {})
  /\ UNCHANGED <<secret, proven>> /\ CallsRest /\ PersonRests

\* The tables cannot be reached, or what was read of them contradicts itself.
LaunchFails(l) ==
  /\ launch[l].at \in {"known", "placed"} /\ launch' = [launch EXCEPT ![l] = [at |-> "done"]]
  /\ UNCHANGED <<secret, tickets, proven>> /\ CallsRest /\ PersonRests

\* verifyCoveHandoffTicket, of a ticket Cove has signed: nothing is remembered,
\* so a ticket verifies as often as it is shown.
Verifies(ticket, a, now) ==
  /\ ticket.secret = secret
  /\ ticket.app = a
  /\ ticket.exp \in now..(now + Ahead)

\* POST /api/cove/verify-handoff
VerifyHandoff(a) ==
  /\ \E ticket \in tickets, off \in -Skew..Skew :
       /\ Verifies(ticket, a, hour + off)
       /\ proven' = proven \cup {[app |-> a, at |-> hour, since |-> ticket.since]}
  /\ UNCHANGED <<secret, launch, tickets>> /\ CallsRest /\ PersonRests
-----------------------------------------------------------------------------
(* The kit's check *)

AnswerCall(how) ==
  /\ call' = Idle
  /\ answers' = {[want |-> call.want, during |-> during, how |-> how]}
  /\ LaunchRests /\ PersonRests /\ UNCHANGED <<during, requests>>

CallRests == LaunchRests /\ PersonRests /\ UNCHANGED <<during, requests, answers>>

AccessDenied == [says |-> "access_denied", open |-> {}]

\* What a request is for: a protected operation, or the list of applications.
Wants == [kind : {"operate"}, app : Apps, required : {"user", "admin"}] \cup [kind : {"list"}]

\* The application's middleware and requireCoveAccess pass on the session's token.
Ask(want) ==
  /\ call = Idle /\ browser /\ secret = "none"
  /\ requests < MaxCalls /\ requests' = requests + 1
  /\ call' = [at |-> "asked", want |-> want] /\ during' = <<standing>>
  /\ LaunchRests /\ PersonRests /\ UNCHANGED answers

\* ... or the person is sent to sign in.
SignedOut ==
  /\ call.at = "asked" /\ ~browser
  /\ AnswerCall([AccessDenied EXCEPT !.says = "signed_out"])

Pays(payload) == call' = [at |-> "answered", want |-> call.want, payload |-> payload]

\* requireCoveUser, on a snapshot of its own.
Recognise ==
  /\ call.at = "asked"
  /\ IF standing.active THEN call' = [call EXCEPT !.at = "known"] ELSE Pays(AccessDenied)
  /\ CallRests

\* The second snapshot, the users of it.
ReadCallUser ==
  /\ call.at = "known"
  /\ call' = [at |-> "placed", want |-> call.want, active |-> standing.active]
  /\ CallRests

\* The decision on a snapshot: the applications listed, the level, or a denial.
Decision(s, want) ==
  IF ~s.active THEN AccessDenied
  ELSE IF want.kind = "list" THEN [says |-> "listed", open |-> {a \in Apps : Opens(s, a)}]
  ELSE IF ~Opens(s, want.app) THEN AccessDenied
  ELSE IF ~Satisfies(s.level[want.app], want.required) THEN [AccessDenied EXCEPT !.says = "role_required"]
  ELSE [says |-> s.level[want.app], open |-> {want.app}]

Decided(answer) == answer.how.says \notin {"unavailable", "signed_out"}

\* Mutant: an answer once given to this application is taken from a cache.
DecideOrRecall ==
  /\ call.at = "placed"
  /\ \E payload \in {Decision(AsRead(call.active, standing.level), call.want)}
                      \cup {a.how : a \in {b \in answers : b.want = call.want /\ Decided(b)}} :
       Pays(payload)
  /\ CallRests

\* POST /api/cove/access and GET /api/cove/apps: the entitlements of that snapshot,
\* and the decision; no answer is stored on its way.
Decide ==
  /\ call.at = "placed"
  /\ Pays(Decision(AsRead(call.active, standing.level), call.want))
  /\ CallRests

\* The payload is parsed and held against the role asked for: the handler runs,
\* or the denial becomes the kit's error.
Deliver ==
  /\ call.at = "answered"
  /\ AnswerCall(call.payload)

\* Cove cannot be reached, is too slow, has no tables or tables that contradict
\* themselves, or answers with a status that contradicts the payload or a payload
\* nobody can read.
NoDecision ==
  /\ call.at \in {"asked", "known", "placed", "answered"}
  /\ AnswerCall([AccessDenied EXCEPT !.says = "unavailable"])
-----------------------------------------------------------------------------
\* Administrators change what the person may open, or suspend the person.
Turn(next) ==
  /\ turns < MaxTurns /\ turns' = turns + 1
  /\ next # standing /\ standing' = next
  /\ stood' = stood \cup {[when |-> hour, what |-> next]}
  /\ during' = IF call = Idle THEN <<>> ELSE Append(during, next)
  /\ UNCHANGED <<hour, browser, call, requests, answers>> /\ LaunchRests

ChangeLevel == \E a \in Apps, l \in {"none", "user", "admin"} : Turn([standing EXCEPT !.level[a] = l])
Suspend     == \E active \in BOOLEAN : Turn([standing EXCEPT !.active = active])

ChangeSecret ==
  /\ requests = 0
  /\ IF secret = "none" THEN UNCHANGED turns ELSE turns < MaxTurns /\ turns' = turns + 1
  /\ \E s \in Secrets \ {secret} : secret' = s
  /\ UNCHANGED <<hour, standing, stood, browser, launch, tickets, proven>> /\ CallsRest

SignInOrOut ==
  /\ turns < MaxTurns /\ turns' = turns + 1
  /\ browser' = ~browser
  /\ UNCHANGED <<hour, standing, stood>> /\ LaunchRests /\ CallsRest

HourPasses ==
  /\ hour < LastHour /\ hour' = hour + 1 /\ secret # "none"
  /\ stood' = stood \cup {[when |-> hour', what |-> standing]}
  /\ UNCHANGED <<standing, browser, turns>> /\ LaunchRests /\ CallsRest

HandoffNext ==
  \/ \E l \in Launches : \/ ReadLaunchUser(l) \/ SignTicket(l) \/ LaunchFails(l)
                         \/ \E a \in Apps : BeginLaunch(l, a)
  \/ \E a \in Apps : VerifyHandoff(a)
  \/ \E want \in Wants : Ask(want)
  \/ SignedOut \/ Recognise \/ ReadCallUser \/ Decide \/ Deliver \/ NoDecision
  \/ ChangeLevel \/ Suspend \/ ChangeSecret \/ SignInOrOut \/ HourPasses

HandoffSpec == HandoffInit /\ [][HandoffNext]_handoffVars
-----------------------------------------------------------------------------
\* "Cove evaluates on every call" and "never performs the protected handler on
\* failure": whatever an administrator does meanwhile, what the person was let
\* do, refused or shown rests on a status and on levels that Cove's tables held
\* during that very request, the levels no earlier than the status.
AnswersAreOfTheirTime ==
  \A a \in answers : Decided(a) =>
    \E i \in DOMAIN a.during : \E j \in i..Len(a.during) :
      a.how = Decision(AsRead(a.during[i].active, a.during[j].level), a.want)

\* Not kept: the tables said all of it at one moment.  A person who is suspended
\* and then granted an application, between the two statements, is let in.
AnswersAreOfOneMoment ==
  \A a \in answers : Decided(a) => \E i \in DOMAIN a.during : a.how = Decision(a.during[i], a.want)

\* A ticket that verifies tells the application the truth: the person it was made
\* for could open that application when it was made, no longer ago than a ticket's
\* life and the two clocks' error, and was an active user since the launch began.
TicketsProveAccess ==
  \A p \in proven : \E u, s \in stood :
    /\ s.when \in (p.at - Life - 2 * Skew)..p.at /\ u.when \in p.since..s.when
    /\ Opens(AsRead(u.what.active, s.what.level), p.app)

\* Neither Cove's answers nor its tickets let anybody in later than Cove would.
AccessIsCurrent == AnswersAreOfTheirTime /\ TicketsProveAccess
=============================================================================
