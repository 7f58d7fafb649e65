----------------------------- MODULE CoveProofs -----------------------------
(***************************************************************************)
(* The parts of Cove around the booking application, for every value of    *)
(* their constants: the delegate's polls, the launcher's tickets and the   *)
(* kit's answers, the guest's booking page, the two readings of an         *)
(* entitlement, everything that writes into an application's repository,   *)
(* the policy and the audit trail as they are read, and the weeks of the   *)
(* guest's picker.  The parts share no state, and each section has the     *)
(* inductive invariant of one.                                             *)
(***************************************************************************)
EXTENDS Evaluator, BookingPage, Handoff, Kit, Delegate, Integrity,
        Repository, Weeks, SequenceTheorems, WellFoundedInduction, TLAPS

(* The delegate's polls *)

\* A poll asks for what comes after the last answer read, and every answer up to that one was
\* read, or committed since.
DelegateInv ==
  /\ drawn \in Nat /\ outbound \subseteq 1..drawn
  /\ DOMAIN collected = {"token", "read", "upTo", "late", "again"}
  /\ collected.upTo \in Nat /\ (collected.upTo = 0 \/ collected.upTo \in outbound)
  /\ PollsMissNothing
  /\ polling.at = "found" => polling.after = collected.upTo

LEMMA AnewIsEmpty ==
  ASSUME NEW token
  PROVE  /\ DOMAIN Anew(token) = {"token", "read", "upTo", "late", "again"} /\ Anew(token).upTo = 0
         /\ ~Anew(token).again
BY DEF Anew

\* An answer is committed: when a later one was read already, it is late.
LEMMA AnswerIsCommitted == ASSUME DelegateInv, CodexCommits PROVE DelegateInv'
<1>1. PICK i \in (1..drawn) \ outbound :
        /\ outbound' = outbound \cup {i}
        /\ collected' = [collected EXCEPT !.late = IF i < collected.upTo THEN @ \cup {i} ELSE @]
  BY DEF CodexCommits
<1>2. /\ DOMAIN collected' = {"token", "read", "upTo", "late", "again"}
      /\ collected'.upTo = collected.upTo /\ collected'.read = collected.read /\ collected'.again = collected.again
      /\ collected'.late = IF i < collected.upTo THEN collected.late \cup {i} ELSE collected.late
  BY <1>1 DEF DelegateInv
<1>3. i < collected.upTo \/ ~(i <= collected.upTo)
  <2>1. i \in Nat /\ collected.upTo \in Nat /\ i # collected.upTo
    BY <1>1 DEF DelegateInv
  <2> QED
    BY <2>1
<1>4. drawn' = drawn /\ polling' = polling
  BY DEF CodexCommits
<1>5. PollsMissNothing'
  BY <1>1, <1>2, <1>3 DEF DelegateInv, PollsMissNothing
<1> QED
  BY <1>1, <1>2, <1>4, <1>5 DEF DelegateInv

\* A page begins after what was read and passes over nothing before its last answer.
LEMMA PageFollows == ASSUME DelegateInv, ListAnswers PROVE DelegateInv'
<1>1. /\ polling.after = collected.upTo /\ polling'.at # "found"
      /\ drawn' = drawn /\ outbound' = outbound
  BY DEF ListAnswers, DelegateInv, Quiet
<1>2. CASE UNCHANGED collected
  BY <1>1, <1>2 DEF DelegateInv, PollsMissNothing
<1>3. CASE \E batch \in Pages(polling.after) : ReadOn(batch)
  <2>1. PICK batch \in Pages(collected.upTo) : ReadOn(batch)
    BY <1>1, <1>3
  <2>2. CASE UNCHANGED collected
    BY <1>2, <2>2
  <2>3. CASE ~UNCHANGED collected
    <3>1. PICK last \in batch :
            /\ \A i \in batch : i <= last
            /\ collected' = [collected EXCEPT !.read = @ \cup batch, !.upTo = last,
                                              !.again = \E i \in batch : i <= collected.upTo]
      BY <2>1, <2>3 DEF ReadOn
    <3>2. /\ batch \subseteq NotRead(collected.upTo)
          /\ \A i \in batch, j \in NotRead(collected.upTo) \ batch : i < j
      BY <2>1 DEF Pages
    <3>3. \A i \in batch : i \in 1..drawn /\ i > collected.upTo
      BY <3>2 DEF NotRead, DelegateInv
    <3>4. ~(\E i \in batch : i <= collected.upTo)
      BY <3>3 DEF DelegateInv
    <3>5. /\ DOMAIN collected' = {"token", "read", "upTo", "late", "again"}
          /\ collected'.read = collected.read \cup batch /\ collected'.upTo = last
          /\ collected'.late = collected.late /\ ~collected'.again
      BY <3>1, <3>4 DEF DelegateInv
    <3>6. last \in Nat
      BY <3>3
    <3>7. ASSUME NEW i \in outbound, i <= last PROVE i \in collected.read \cup batch \cup collected.late
      <4>1. i \in Nat /\ collected.upTo \in Nat
        BY DEF DelegateInv
      <4>2. CASE i <= collected.upTo
        BY <4>2 DEF DelegateInv, PollsMissNothing
      <4>3. CASE i > collected.upTo
        <5>1. i \in NotRead(collected.upTo) /\ ~(last < i)
          BY <3>6, <3>7, <4>1, <4>3 DEF NotRead
        <5> QED
          BY <3>2, <5>1
      <4> QED
        BY <4>1, <4>2, <4>3
    <3>8. PollsMissNothing'
      BY <1>1, <3>5, <3>7 DEF PollsMissNothing
    <3>9. last \in outbound'
      BY <1>1, <3>2 DEF NotRead
    <3> QED
      BY <1>1, <3>5, <3>6, <3>8, <3>9 DEF DelegateInv
  <2> QED
    BY <2>2, <2>3
<1> QED
  BY <1>2, <1>3 DEF ListAnswers

LEMMA DelegateStep == DelegateInv /\ [DelegateNext]_delegateVars => DelegateInv'
<1> SUFFICES ASSUME DelegateInv, [DelegateNext]_delegateVars PROVE DelegateInv'
  OBVIOUS
<1>1. CASE UNCHANGED <<drawn, outbound, collected, polling>>
  BY <1>1 DEF DelegateInv, PollsMissNothing
<1>2. CASE TakeUp
  <2>1. collected' = Anew(session.token) /\ polling' = Quiet /\ outbound' = outbound /\ drawn' = drawn
    BY <1>2 DEF TakeUp
  <2>2. \A i \in outbound : ~(i <= 0)
    BY DEF DelegateInv
  <2> QED
    BY <2>1, <2>2, AnewIsEmpty DEF DelegateInv, PollsMissNothing, Quiet
<1>3. CASE CodexDraws
  <2>1. drawn' = drawn + 1 /\ UNCHANGED <<outbound, collected, polling>>
    BY <1>3 DEF CodexDraws
  <2>2. drawn' \in Nat /\ outbound \subseteq 1..drawn'
    BY <2>1 DEF DelegateInv
  <2> QED
    BY <2>1, <2>2 DEF DelegateInv, PollsMissNothing
<1>4. CASE BeginPoll
  <2>1. polling'.after = collected.upTo /\ UNCHANGED <<drawn, outbound, collected>>
    BY <1>4 DEF BeginPoll
  <2> QED
    BY <2>1 DEF DelegateInv, PollsMissNothing
<1>5. CASE Activate \/ Say \/ MomentPasses \/ \E token \in 1..MaxTokens : BeginSay(token)
  BY <1>1, <1>5 DEF Activate, Say, MomentPasses, BeginSay
<1>6. CASE UNCHANGED delegateVars
  BY <1>1, <1>6 DEF delegateVars
<1> QED
  BY <1>2, <1>3, <1>4, <1>5, <1>6, AnswerIsCommitted, PageFollows DEF DelegateNext

\* The program reads nothing twice, and passes over no answer but one committed when a later
\* one was read: full pages, lost polls, sessions that end and new tokens included.
THEOREM EveryAnswerOnce == DelegateSpec => []PollsMissNothing
<1>1. DelegateInit => DelegateInv
  BY AnewIsEmpty DEF DelegateInit, DelegateInv, PollsMissNothing, Quiet
<1>2. DelegateInv => PollsMissNothing
  BY DEF DelegateInv
<1> QED
  BY <1>1, <1>2, DelegateStep, PTL DEF DelegateSpec

(* The launcher's tickets and the kit's answers *)

Standings == [active : BOOLEAN, level : [Apps -> {"none", "user", "admin"}]]

\* A launch under way knows when it began; the status it has read was so at some time since.
LaunchHolds(g, past, now) ==
  /\ g.at \in {"known", "placed"} => g.since \in Int /\ g.since <= now
  /\ g.at = "placed" => \E u \in past : u.when \in g.since..now /\ u.what.active = g.active

\* A ticket carries the hour of the levels that let the person open its application, as far
\* as the clock of the instance that signed it was right, and a status since its launch began.
TicketHolds(t, past, now) ==
  \E u, s \in past, off \in -Skew..Skew :
    /\ s.when \in Int /\ s.when <= now /\ u.when \in t.since..s.when
    /\ Opens(AsRead(u.what.active, s.what.level), t.app)
    /\ t.exp = s.when + off + Life

\* What a request was answered, or will be, rests on what the tables said since it was made.
AnswerHolds(payload, want, standings) ==
  payload.says \notin {"unavailable", "signed_out"} =>
    \E i \in DOMAIN standings : \E j \in i..Len(standings) :
      payload = Decision(AsRead(standings[i].active, standings[j].level), want)

\* The request under way has seen the person's standing; the status it has read is one of
\* those it has seen.
CallHolds ==
  /\ call.at \in {"idle", "asked", "known", "placed", "answered"} /\ (call.at = "idle" => call = Idle)
  /\ call # Idle => Len(during) >= 1 /\ during[Len(during)] = standing
  /\ call.at \in {"asked", "known"} => DOMAIN call = {"at", "want"}
  /\ call.at = "placed" => \E i \in DOMAIN during : during[i].active = call.active
  /\ call.at = "answered" => AnswerHolds(call.payload, call.want, during)

\* The person's standing is on record, with the hour; what is in an application's hands,
\* ticket or answer, can be traced to the record.
HandoffInv ==
  /\ hour \in Nat /\ standing \in Standings /\ during \in Seq(Standings)
  /\ [when |-> hour, what |-> standing] \in stood
  /\ DOMAIN launch = Launches /\ \A l \in Launches : LaunchHolds(launch[l], stood, hour)
  /\ \A t \in tickets : TicketHolds(t, stood, hour)
  /\ CallHolds
  /\ AnswersAreOfTheirTime
  /\ TicketsProveAccess

\* An answer is recorded as it was given, with the standings of its request's time.
LEMMA AnswerIsKept ==
  ASSUME HandoffInv, NEW how, AnswerCall(how), AnswerHolds(how, call.want, during)
  PROVE  HandoffInv'
<1>1. /\ call' = Idle /\ answers' = {[want |-> call.want, during |-> during, how |-> how]}
      /\ UNCHANGED <<hour, standing, stood, launch, tickets, proven, during>>
  BY DEF AnswerCall, LaunchRests, PersonRests
<1>2. AnswersAreOfTheirTime'
  <2> SUFFICES ASSUME NEW a \in answers', Decided(a)
               PROVE  \E i \in DOMAIN a.during : \E j \in i..Len(a.during) :
                        a.how = Decision(AsRead(a.during[i].active, a.during[j].level), a.want)
    BY DEF AnswersAreOfTheirTime, Decided, Decision, AsRead, Opens, Satisfies, AccessDenied
  <2>1. a.want = call.want /\ a.during = during /\ a.how = how
    BY <1>1
  <2> QED
    BY <2>1 DEF AnswerHolds, Decided
<1>3. CallHolds'
  BY <1>1 DEF CallHolds, Idle
<1>4. TicketsProveAccess' /\ \A t \in tickets' : TicketHolds(t, stood', hour')
  BY <1>1 DEF TicketsProveAccess, HandoffInv
<1>5. \A l \in Launches : LaunchHolds(launch'[l], stood', hour')
  BY <1>1 DEF HandoffInv
<1> QED
  BY <1>1, <1>2, <1>3, <1>4, <1>5 DEF HandoffInv

\* A request goes on, and the launcher and the person rest.
LEMMA CallGoesOn ==
  ASSUME HandoffInv, UNCHANGED <<hour, standing, stood, launch, tickets, proven, answers>>,
         during' \in Seq(Standings), CallHolds'
  PROVE  HandoffInv'
<1>1. AnswersAreOfTheirTime' /\ TicketsProveAccess' /\ \A t \in tickets' : TicketHolds(t, stood', hour')
  BY DEF AnswersAreOfTheirTime, TicketsProveAccess, HandoffInv
<1>2. \A l \in Launches : LaunchHolds(launch'[l], stood', hour')
  BY DEF HandoffInv
<1> QED
  BY <1>1, <1>2 DEF HandoffInv

\* An answer goes on its way as the tables gave it.
LEMMA AnswerIsPaid ==
  ASSUME HandoffInv, NEW payload, Pays(payload), CallRests, call.at \in {"asked", "known", "placed"},
         AnswerHolds(payload, call.want, during)
  PROVE  HandoffInv'
<1>1. UNCHANGED <<hour, standing, stood, launch, tickets, proven, answers, during>>
  BY DEF CallRests, LaunchRests, PersonRests
<1>2. call'.at = "answered" /\ call'.want = call.want /\ call'.payload = payload
  BY DEF Pays
<1>3. AnswerHolds(call'.payload, call'.want, during')
  BY <1>1, <1>2
<1>4. Len(during') >= 1 /\ during'[Len(during')] = standing'
  BY <1>1 DEF HandoffInv, CallHolds, Idle
<1>5. CallHolds'
  BY <1>2, <1>3, <1>4 DEF CallHolds
<1> QED
  BY <1>1, <1>5, CallGoesOn DEF HandoffInv

\* Time passes and standings are added: what was traced to one still is.
LEMMA PastIsKept ==
  ASSUME HandoffInv, hour' \in Nat, hour' >= hour, stood \subseteq stood',
         UNCHANGED <<launch, tickets, proven>>
  PROVE  /\ \A t \in tickets' : TicketHolds(t, stood', hour')
         /\ \A l \in Launches : LaunchHolds(launch'[l], stood', hour')
         /\ TicketsProveAccess'
<1>1. \A t \in tickets : TicketHolds(t, stood', hour')
  <2> SUFFICES ASSUME NEW t \in tickets PROVE TicketHolds(t, stood', hour')
    OBVIOUS
  <2>1. PICK u, s \in stood, off \in -Skew..Skew :
          /\ s.when \in Int /\ s.when <= hour /\ u.when \in t.since..s.when
          /\ Opens(AsRead(u.what.active, s.what.level), t.app)
          /\ t.exp = s.when + off + Life
    BY DEF TicketHolds, HandoffInv
  <2>2. s.when <= hour' /\ s \in stood' /\ u \in stood'
    BY <2>1 DEF HandoffInv
  <2> QED
    BY <2>1, <2>2 DEF TicketHolds
<1>2. ASSUME NEW l \in Launches PROVE LaunchHolds(launch[l], stood', hour')
  <2>1. LaunchHolds(launch[l], stood, hour)
    BY DEF HandoffInv
  <2>2. CASE launch[l].at = "placed"
    <3>1. PICK u \in stood : u.when \in launch[l].since..hour /\ u.what.active = launch[l].active
      BY <2>1, <2>2 DEF LaunchHolds
    <3>2. launch[l].since \in Int /\ launch[l].since <= hour
      BY <2>1, <2>2 DEF LaunchHolds
    <3>3. u.when \in launch[l].since..hour'
      BY <3>1, <3>2 DEF HandoffInv
    <3> QED
      BY <2>2, <3>1, <3>2, <3>3 DEF LaunchHolds, HandoffInv
  <2>3. CASE launch[l].at # "placed"
    BY <2>1, <2>3 DEF LaunchHolds, HandoffInv
  <2> QED
    BY <2>2, <2>3
<1>3. TicketsProveAccess'
  BY DEF TicketsProveAccess, HandoffInv
<1> QED
  BY <1>1, <1>2, <1>3

\* One launch goes on: nothing else is touched.
LEMMA LaunchGoesOn ==
  ASSUME HandoffInv, NEW l \in Launches, NEW g, launch' = [launch EXCEPT ![l] = g], LaunchHolds(g, stood, hour),
         UNCHANGED <<hour, standing, stood, proven, call, during, answers>>,
         \A t \in tickets' : TicketHolds(t, stood, hour)
  PROVE  HandoffInv'
<1>1. \A x \in Launches : LaunchHolds(launch'[x], stood', hour')
  BY DEF HandoffInv
<1>2. AnswersAreOfTheirTime' /\ TicketsProveAccess' /\ CallHolds'
  BY DEF AnswersAreOfTheirTime, TicketsProveAccess, CallHolds, HandoffInv
<1> QED
  BY <1>1, <1>2 DEF HandoffInv

LEMMA TicketIsSigned ==
  ASSUME HandoffInv, NEW l \in Launches, SignTicket(l)
  PROVE  HandoffInv'
<1> USE HandoffAssumption
<1>1. PICK started : started = launch[l]
  OBVIOUS
<1>2. /\ started.at = "placed" /\ launch' = [launch EXCEPT ![l] = [at |-> "done"]]
      /\ UNCHANGED <<hour, standing, stood, proven, call, during, answers>>
  BY <1>1 DEF SignTicket, CallsRest, PersonRests
<1>3. PICK off \in -Skew..Skew :
        tickets' = tickets \cup
          (IF Opens(AsRead(started.active, standing.level), started.app)
           THEN {[app |-> started.app, secret |-> started.secret, exp |-> hour + off + Life, since |-> started.since]}
           ELSE {})
  BY <1>1 DEF SignTicket
<1>4. ASSUME NEW t \in tickets' PROVE TicketHolds(t, stood, hour)
  <2>1. CASE t \in tickets
    BY <2>1 DEF HandoffInv
  <2>2. CASE t \notin tickets
    <3>1. /\ Opens(AsRead(started.active, standing.level), started.app)
          /\ t = [app |-> started.app, secret |-> started.secret, exp |-> hour + off + Life, since |-> started.since]
      BY <1>3, <2>2
    <3>2. t.app = started.app /\ t.exp = hour + off + Life /\ t.since = started.since
      BY <3>1
    <3>3. PICK u \in stood : u.when \in started.since..hour /\ u.what.active = started.active
      BY <1>1, <1>2 DEF LaunchHolds, HandoffInv
    <3>4. PICK s : s = [when |-> hour, what |-> standing]
      OBVIOUS
    <3>5. s \in stood /\ s.when = hour /\ s.what = standing
      BY <3>4 DEF HandoffInv
    <3>6. Opens(AsRead(u.what.active, s.what.level), t.app)
      BY <3>1, <3>2, <3>3, <3>5
    <3>7. s.when \in Int /\ s.when <= hour /\ u.when \in t.since..s.when /\ t.exp = s.when + off + Life
      BY <3>2, <3>3, <3>5 DEF HandoffInv
    <3> QED
      BY <3>3, <3>5, <3>6, <3>7 DEF TicketHolds
  <2> QED
    BY <2>1, <2>2
<1>5. PICK g : g = [at |-> "done"]
  OBVIOUS
<1>6. LaunchHolds(g, stood, hour)
  BY <1>5 DEF LaunchHolds
<1> QED
  BY <1>2, <1>4, <1>5, <1>6, LaunchGoesOn

LEMMA TicketIsVerified ==
  ASSUME HandoffInv, NEW a \in Apps, VerifyHandoff(a)
  PROVE  HandoffInv'
<1> USE HandoffAssumption
<1>1. UNCHANGED <<hour, standing, stood, launch, tickets, call, during, answers>>
  BY DEF VerifyHandoff, CallsRest, PersonRests
<1>2. PICK ticket \in tickets, off \in -Skew..Skew :
        Verifies(ticket, a, hour + off) /\ proven' = proven \cup {[app |-> a, at |-> hour, since |-> ticket.since]}
  BY DEF VerifyHandoff
<1>3. PICK u, s \in stood, by \in -Skew..Skew :
        /\ s.when \in Int /\ s.when <= hour /\ u.when \in ticket.since..s.when
        /\ Opens(AsRead(u.what.active, s.what.level), ticket.app)
        /\ ticket.exp = s.when + by + Life
  BY DEF HandoffInv, TicketHolds
<1>4. s.when \in (hour - Life - 2 * Skew)..hour /\ Opens(AsRead(u.what.active, s.what.level), a)
  <2>1. ticket.app = a /\ ticket.exp \in (hour + off)..(hour + off + Ahead)
    BY <1>2 DEF Verifies
  <2>2. PICK w : w = s.when
    OBVIOUS
  <2>3. w \in Int /\ w <= hour /\ hour \in Nat /\ w + by + Life \in (hour + off)..(hour + off + Ahead)
    BY <1>3, <2>1, <2>2 DEF HandoffInv
  <2>4. w >= hour - Life - 2 * Skew
    BY <2>3
  <2> QED
    BY <1>3, <2>1, <2>2, <2>3, <2>4
<1>5. TicketsProveAccess'
  <2> SUFFICES ASSUME NEW p \in proven'
               PROVE  \E x, y \in stood : /\ y.when \in (p.at - Life - 2 * Skew)..p.at
                                          /\ x.when \in p.since..y.when
                                          /\ Opens(AsRead(x.what.active, y.what.level), p.app)
    BY <1>1 DEF TicketsProveAccess
  <2>1. CASE p \in proven
    BY <2>1 DEF TicketsProveAccess, HandoffInv
  <2>2. CASE p \notin proven
    <3>1. p.at = hour /\ p.app = a /\ p.since = ticket.since
      BY <1>2, <2>2
    <3>2. s.when \in (p.at - Life - 2 * Skew)..p.at
      BY <1>4, <3>1
    <3>3. u.when \in p.since..s.when /\ Opens(AsRead(u.what.active, s.what.level), p.app)
      BY <1>3, <1>4, <3>1
    <3> QED
      BY <3>2, <3>3
  <2> QED
    BY <2>1, <2>2
<1>6. AnswersAreOfTheirTime' /\ CallHolds' /\ \A t \in tickets' : TicketHolds(t, stood', hour')
  BY <1>1 DEF AnswersAreOfTheirTime, CallHolds, HandoffInv
<1>7. \A l \in Launches : LaunchHolds(launch'[l], stood', hour')
  BY <1>1 DEF HandoffInv
<1> QED
  BY <1>1, <1>5, <1>6, <1>7 DEF HandoffInv

LEMMA LaunchesStep ==
  ASSUME HandoffInv, NEW l \in Launches,
         ReadLaunchUser(l) \/ LaunchFails(l) \/ \E a \in Apps : BeginLaunch(l, a)
  PROVE  HandoffInv'
<1>1. UNCHANGED <<hour, standing, stood, tickets, proven, call, during, answers>>
  BY DEF ReadLaunchUser, LaunchFails, BeginLaunch, CallsRest, PersonRests
<1>2. \A t \in tickets' : TicketHolds(t, stood, hour)
  BY <1>1 DEF HandoffInv
<1>3. ASSUME NEW a \in Apps, BeginLaunch(l, a) PROVE HandoffInv'
  <2>1. PICK g : g = [at |-> "known", app |-> a, secret |-> secret, since |-> hour]
    OBVIOUS
  <2>2. LaunchHolds(g, stood, hour) /\ launch' = [launch EXCEPT ![l] = g]
    BY <1>3, <2>1 DEF LaunchHolds, HandoffInv, BeginLaunch
  <2> QED
    BY <1>1, <1>2, <2>2, LaunchGoesOn
<1>4. CASE ReadLaunchUser(l)
  <2>1. PICK was : was = launch[l]
    OBVIOUS
  <2>2. PICK g : g = [at |-> "placed", app |-> was.app, secret |-> was.secret, since |-> was.since, active |-> standing.active]
    OBVIOUS
  <2>3. was.at = "known" /\ launch' = [launch EXCEPT ![l] = g]
    BY <1>4, <2>1, <2>2 DEF ReadLaunchUser, HandoffInv
  <2>4. was.since \in Int /\ was.since <= hour
    BY <2>1, <2>3 DEF LaunchHolds, HandoffInv
  <2>5. PICK u : u = [when |-> hour, what |-> standing]
    OBVIOUS
  <2>6. u \in stood /\ u.when \in g.since..hour /\ u.what.active = g.active
    BY <2>2, <2>4, <2>5 DEF HandoffInv
  <2>7. LaunchHolds(g, stood, hour)
    BY <2>2, <2>4, <2>6 DEF LaunchHolds
  <2> QED
    BY <1>1, <1>2, <2>3, <2>7, LaunchGoesOn
<1>5. CASE LaunchFails(l)
  <2>1. PICK g : g = [at |-> "done"]
    OBVIOUS
  <2>2. LaunchHolds(g, stood, hour) /\ launch' = [launch EXCEPT ![l] = g]
    BY <1>5, <2>1 DEF LaunchHolds, LaunchFails
  <2> QED
    BY <1>1, <1>2, <2>2, LaunchGoesOn
<1> QED
  BY <1>3, <1>4, <1>5

LEMMA RequestStep ==
  ASSUME HandoffInv,
         (\E want \in Wants : Ask(want)) \/ SignedOut \/ Recognise \/ ReadCallUser \/ Decide \/ Deliver \/ NoDecision
  PROVE  HandoffInv'
<1>0. call # Idle => Len(during) \in Nat /\ Len(during) \in DOMAIN during /\ during[Len(during)] = standing
  BY LenProperties DEF HandoffInv, CallHolds
<1>1. ASSUME NEW want \in Wants, Ask(want) PROVE HandoffInv'
  <2>1. /\ call' = [at |-> "asked", want |-> want] /\ during' = <<standing>>
        /\ UNCHANGED <<hour, standing, stood, launch, tickets, proven, answers>>
    BY <1>1 DEF Ask, LaunchRests, PersonRests
  <2>2. during' \in Seq(Standings) /\ Len(during') = 1 /\ during'[1] = standing
    BY <2>1 DEF HandoffInv
  <2>3. CallHolds'
    BY <2>1, <2>2 DEF CallHolds
  <2> QED
    BY <2>1, <2>2, <2>3, CallGoesOn
<1>2. CASE SignedOut
  <2>1. AnswerHolds([AccessDenied EXCEPT !.says = "signed_out"], call.want, during)
    BY DEF AnswerHolds, AccessDenied
  <2> QED
    BY <1>2, <2>1, AnswerIsKept DEF SignedOut
<1>3. CASE NoDecision
  <2>1. AnswerHolds([AccessDenied EXCEPT !.says = "unavailable"], call.want, during)
    BY DEF AnswerHolds, AccessDenied
  <2> QED
    BY <1>3, <2>1, AnswerIsKept DEF NoDecision
<1>4. CASE Deliver
  BY <1>4, AnswerIsKept DEF Deliver, HandoffInv, CallHolds
<1>5. CASE Recognise
  <2>0. call.at = "asked" /\ call # Idle
    BY <1>5 DEF Recognise, Idle
  <2>1. CASE standing.active
    <3>1. /\ call' = [call EXCEPT !.at = "known"]
          /\ UNCHANGED <<hour, standing, stood, launch, tickets, proven, during, answers>>
      BY <1>5, <2>1 DEF Recognise, CallRests, LaunchRests, PersonRests
    <3>2. call'.at = "known" /\ DOMAIN call' = {"at", "want"}
      BY <2>0, <3>1 DEF HandoffInv, CallHolds
    <3>3. CallHolds'
      BY <2>0, <3>1, <3>2 DEF HandoffInv, CallHolds
    <3> QED
      BY <3>1, <3>3, CallGoesOn DEF HandoffInv
  <2>2. CASE ~standing.active
    <3>1. AccessDenied = Decision(AsRead(standing.active, standing.level), call.want)
      BY <2>2 DEF Decision, AsRead
    <3>2. AnswerHolds(AccessDenied, call.want, during)
      BY <1>0, <2>0, <3>1 DEF AnswerHolds
    <3> QED
      BY <1>5, <2>0, <2>2, <3>2, AnswerIsPaid DEF Recognise
  <2> QED
    BY <2>1, <2>2
<1>6. CASE ReadCallUser
  <2>1. /\ call.at = "known" /\ call' = [at |-> "placed", want |-> call.want, active |-> standing.active]
        /\ UNCHANGED <<hour, standing, stood, launch, tickets, proven, during, answers>>
    BY <1>6 DEF ReadCallUser, CallRests, LaunchRests, PersonRests
  <2>2. call'.at = "placed" /\ call'.active = standing.active /\ call # Idle
    BY <2>1 DEF Idle
  <2>3. \E i \in DOMAIN during' : during'[i].active = call'.active
    BY <1>0, <2>1, <2>2
  <2>4. CallHolds'
    BY <2>1, <2>2, <2>3 DEF HandoffInv, CallHolds
  <2> QED
    BY <2>1, <2>4, CallGoesOn DEF HandoffInv
<1>7. CASE Decide
  <2>1. call.at = "placed" /\ call # Idle
    BY <1>7 DEF Decide, Idle
  <2>2. PICK i \in DOMAIN during : during[i].active = call.active
    BY <2>1 DEF HandoffInv, CallHolds
  <2>3. Len(during) \in i..Len(during)
    BY <1>0, <2>1, <2>2, LenProperties DEF HandoffInv
  <2>4. AnswerHolds(Decision(AsRead(call.active, standing.level), call.want), call.want, during)
    BY <1>0, <2>1, <2>2, <2>3 DEF AnswerHolds
  <2> QED
    BY <1>7, <2>1, <2>4, AnswerIsPaid DEF Decide
<1> QED
  BY <1>1, <1>2, <1>3, <1>4, <1>5, <1>6, <1>7

LEMMA TurnStep ==
  ASSUME HandoffInv, NEW next \in Standings, Turn(next)
  PROVE  HandoffInv'
<1>1. /\ standing' = next /\ stood' = stood \cup {[when |-> hour, what |-> next]}
      /\ during' = IF call = Idle THEN <<>> ELSE Append(during, next)
      /\ UNCHANGED <<hour, launch, tickets, proven, call, answers>>
  BY DEF Turn, LaunchRests
<1>2. hour' \in Nat /\ hour' >= hour /\ stood \subseteq stood' /\ UNCHANGED <<launch, tickets, proven>>
  BY <1>1 DEF HandoffInv
<1>3. AnswersAreOfTheirTime'
  BY <1>1 DEF AnswersAreOfTheirTime, HandoffInv
<1>4. during' \in Seq(Standings) /\ CallHolds'
  <2>1. CASE call = Idle
    <3>1. during' = <<>>
      BY <1>1, <2>1
    <3> QED
      BY <1>1, <2>1, <3>1 DEF CallHolds, Idle
  <2>2. CASE call # Idle
    <3>1. during \in Seq(Standings) /\ during' = Append(during, next) /\ Len(during) \in Nat
      BY <1>1, <2>2, LenProperties DEF HandoffInv
    <3>2. /\ during' \in Seq(Standings) /\ Len(during') = Len(during) + 1
          /\ during'[Len(during')] = next /\ \A i \in 1..Len(during) : during'[i] = during[i]
      BY <3>1, AppendProperties
    <3>3. DOMAIN during = 1..Len(during) /\ DOMAIN during' = 1..(Len(during) + 1)
      BY <3>1, <3>2, LenProperties
    <3>4. call.at = "placed" => \E i \in DOMAIN during' : during'[i].active = call.active
      <4> SUFFICES ASSUME call.at = "placed" PROVE \E i \in DOMAIN during' : during'[i].active = call.active
        OBVIOUS
      <4>1. PICK i \in DOMAIN during : during[i].active = call.active
        BY DEF HandoffInv, CallHolds
      <4> QED
        BY <3>1, <3>2, <3>3, <4>1
    <3>5. call.at = "answered" => AnswerHolds(call.payload, call.want, during')
      <4> SUFFICES ASSUME call.at = "answered", call.payload.says \notin {"unavailable", "signed_out"}
                   PROVE  \E i \in DOMAIN during' : \E j \in i..Len(during') :
                            call.payload = Decision(AsRead(during'[i].active, during'[j].level), call.want)
        BY DEF AnswerHolds
      <4>1. PICK i \in DOMAIN during : \E j \in i..Len(during) :
              call.payload = Decision(AsRead(during[i].active, during[j].level), call.want)
        BY DEF HandoffInv, CallHolds, AnswerHolds
      <4>2. PICK j \in i..Len(during) :
              call.payload = Decision(AsRead(during[i].active, during[j].level), call.want)
        BY <4>1
      <4>3. i \in 1..Len(during) /\ j \in 1..Len(during) /\ j \in i..Len(during') /\ i \in DOMAIN during'
        BY <3>1, <3>2, <3>3, <4>2
      <4>4. during'[i] = during[i] /\ during'[j] = during[j]
        BY <3>2, <4>3
      <4> QED
        BY <4>2, <4>3, <4>4
    <3>6. Len(during') >= 1 /\ during'[Len(during')] = standing' /\ call' = call
      BY <1>1, <3>1, <3>2
    <3>7. CallHolds'
      BY <3>4, <3>5, <3>6 DEF HandoffInv, CallHolds
    <3> QED
      BY <3>2, <3>7
  <2> QED
    BY <2>1, <2>2
<1>5. [when |-> hour', what |-> standing'] \in stood' /\ standing' \in Standings /\ DOMAIN launch' = Launches
  BY <1>1 DEF HandoffInv
<1> QED
  BY <1>2, <1>3, <1>4, <1>5, PastIsKept DEF HandoffInv

LEMMA HandoffStep == HandoffInv /\ [HandoffNext]_handoffVars => HandoffInv'
<1> SUFFICES ASSUME HandoffInv, [HandoffNext]_handoffVars PROVE HandoffInv'
  OBVIOUS
<1>1. CASE UNCHANGED <<hour, standing, stood, launch, tickets, proven, call, during, answers>>
  <2>1. CallHolds'
    BY <1>1 DEF HandoffInv, CallHolds
  <2> QED
    BY <1>1, <2>1, CallGoesOn DEF HandoffInv
<1>2. CASE UNCHANGED handoffVars \/ ChangeSecret \/ SignInOrOut
  BY <1>1, <1>2 DEF handoffVars, ChangeSecret, SignInOrOut, CallsRest, LaunchRests
<1>3. CASE ChangeLevel
  <2>1. PICK a \in Apps, l \in {"none", "user", "admin"} : Turn([standing EXCEPT !.level[a] = l])
    BY <1>3 DEF ChangeLevel
  <2>2. [standing EXCEPT !.level[a] = l] \in Standings
    BY DEF HandoffInv, Standings
  <2> QED
    BY <2>1, <2>2, TurnStep
<1>4. CASE Suspend
  <2>1. PICK active \in BOOLEAN : Turn([standing EXCEPT !.active = active])
    BY <1>4 DEF Suspend
  <2>2. [standing EXCEPT !.active = active] \in Standings
    BY DEF HandoffInv, Standings
  <2> QED
    BY <2>1, <2>2, TurnStep
<1>5. CASE HourPasses
  <2>1. /\ hour' = hour + 1 /\ stood' = stood \cup {[when |-> hour', what |-> standing]}
        /\ UNCHANGED <<standing, launch, tickets, proven, call, during, answers>>
    BY <1>5 DEF HourPasses, LaunchRests, CallsRest
  <2>2. hour' \in Nat /\ hour' >= hour /\ stood \subseteq stood' /\ UNCHANGED <<launch, tickets, proven>>
    BY <2>1 DEF HandoffInv
  <2>3. AnswersAreOfTheirTime' /\ CallHolds'
    BY <2>1 DEF AnswersAreOfTheirTime, CallHolds, HandoffInv
  <2> QED
    BY <2>1, <2>2, <2>3, PastIsKept DEF HandoffInv
<1> QED
  BY <1>2, <1>3, <1>4, <1>5, LaunchesStep, TicketIsSigned, TicketIsVerified, RequestStep DEF HandoffNext

\* "Cove evaluates on every call", by statements that may see different tables: what an
\* application let the person do, or refused, rests on a status and on levels that the tables
\* held during that very request, the levels no earlier than the status; and a ticket that
\* verifies proves levels no older than a ticket's life and the clocks' error, and a status no
\* older than its launch.
THEOREM NothingOpensLater == HandoffSpec => []AccessIsCurrent
<1>1. HandoffInit => HandoffInv
  <2> SUFFICES ASSUME HandoffInit PROVE HandoffInv
    OBVIOUS
  <2>1. \A l \in Launches : LaunchHolds(launch[l], stood, hour)
    BY DEF HandoffInit, LaunchHolds, Idle
  <2>2. CallHolds
    BY DEF HandoffInit, CallHolds, Idle
  <2>3. standing \in Standings /\ during \in Seq(Standings)
    BY DEF HandoffInit, Standings
  <2> QED
    BY <2>1, <2>2, <2>3 DEF HandoffInit, HandoffInv, AnswersAreOfTheirTime, TicketsProveAccess
<1>2. HandoffInv => AccessIsCurrent
  BY DEF HandoffInv, AccessIsCurrent
<1> QED
  BY <1>1, <1>2, HandoffStep, PTL DEF HandoffSpec

(* The guest's booking page *)

PageFields ==
  {"trip", "screen", "mode", "primary", "of", "kind", "active", "via", "times", "team", "nonce",
   "backups", "selected", "form", "submitting", "booked", "changes"}

\* What the page knows was offered: the times it keeps, for what it asked about, and the
\* time that is selected, for the manager and type it would be booked with.
PageHolds(p) ==
  /\ DOMAIN p = PageFields
  /\ \A r \in p.times : \A t \in r[2] : <<r[1][1], r[1][2], t>> \in told
  /\ \/ p.selected = NoOne
     \/ p.active = NoOne
     \/ <<p.active, p.kind, p.selected>> \in told

PageInv == PageHolds(page) /\ "posts" \in DOMAIN asked /\ PostsWhatWasOffered

\* A page that knows only what was offered is shown.
LEMMA PageShows ==
  ASSUME NEW p, NEW resolve, NEW posts, Renders(p, resolve, posts), UNCHANGED told,
         PageHolds(p), \A post \in posts : <<post.who, post.kind, post.time>> \in told
  PROVE  PageInv'
<1>1. page' = p /\ "posts" \in DOMAIN asked' /\ asked'.posts = posts
  BY DEF Renders
<1> QED
  BY <1>1 DEF PageInv, PageHolds, PostsWhatWasOffered

\* What a page without a selection, or with the old one, or without a manager, holds.
LEMMA SamePage ==
  ASSUME PageHolds(page), NEW p, DOMAIN p = PageFields, p.times = page.times,
         \/ p.selected = NoOne
         \/ p.active = NoOne
         \/ p.selected = page.selected /\ p.active = page.active /\ p.kind = page.kind
  PROVE  PageHolds(p)
BY DEF PageHolds

LEMMA PageStep == PageInv /\ [PageNext]_pageVars => PageInv'
<1> SUFFICES ASSUME PageInv, [PageNext]_pageVars PROVE PageInv'
  OBVIOUS
<1>0. /\ PageHolds(page) /\ DOMAIN page = PageFields
      /\ \A post \in asked.posts : <<post.who, post.kind, post.time>> \in told
  BY DEF PageInv, PageHolds, PostsWhatWasOffered
<1>1. CASE UNCHANGED pageVars
  BY <1>1 DEF pageVars, PageInv, PageHolds, PostsWhatWasOffered
<1>2. ASSUME NEW p, NEW resolve, NEW posts, Renders(p, resolve, posts), UNCHANGED told, posts \subseteq asked.posts,
             DOMAIN p = PageFields, p.times = page.times,
             \/ p.selected = NoOne
             \/ p.active = NoOne
             \/ p.selected = page.selected /\ p.active = page.active /\ p.kind = page.kind
      PROVE  PageInv'
  <2>1. PageHolds(p)
    BY <1>0, <1>2, SamePage
  <2> QED
    BY <1>0, <1>2, <2>1, PageShows
<1>3. CASE TripResolved
  <2>1. ASSUME NEW mode, NEW who, Renders(Applied(mode, who), {}, asked.posts), UNCHANGED told PROVE PageInv'
    <3>1. PICK p : p = Applied(mode, who)
      OBVIOUS
    <3>2. DOMAIN p = PageFields /\ p.times = page.times /\ p.selected = NoOne
      BY <1>0, <3>1 DEF Applied, PageFields
    <3> QED
      BY <1>2, <2>1, <3>1, <3>2
  <2>2. ASSUME NEW screen, Renders([page EXCEPT !.screen = screen], {}, asked.posts), UNCHANGED told PROVE PageInv'
    <3>1. PICK p : p = [page EXCEPT !.screen = screen]
      OBVIOUS
    <3>2. /\ DOMAIN p = PageFields /\ p.times = page.times
          /\ p.selected = page.selected /\ p.active = page.active /\ p.kind = page.kind
      BY <1>0, <3>1 DEF PageFields
    <3> QED
      BY <1>2, <2>2, <3>1, <3>2
  <2> QED
    BY <1>3, <2>1, <2>2 DEF TripResolved
<1>4. CASE PickBrand
  <2>1. PICK p : p = [page EXCEPT !.mode = "pool", !.active = NoOne]
    OBVIOUS
  <2>2. DOMAIN p = PageFields /\ p.times = page.times /\ p.active = NoOne
    BY <1>0, <2>1 DEF PageFields
  <2> QED
    BY <1>2, <1>4, <2>1, <2>2 DEF PickBrand, Shows
<1>5. CASE TimesAnswer
  <2>1. PICK key \in asked.times, free \in SUBSET Times :
          /\ page' = [page EXCEPT !.times = {<<key, free>>}]
          /\ asked' = [asked EXCEPT !.times = Nothing]
          /\ told' = told \cup {<<key[1], key[2], t>> : t \in free}
    BY <1>5 DEF TimesAnswer
  <2>2. /\ DOMAIN page' = PageFields /\ page'.times = {<<key, free>>}
        /\ page'.selected = page.selected /\ page'.active = page.active /\ page'.kind = page.kind
    BY <1>0, <2>1 DEF PageFields
  <2>3. told \subseteq told' /\ \A t \in free : <<key[1], key[2], t>> \in told'
    BY <2>1
  <2>4. PageHolds(page)'
    BY <1>0, <2>2, <2>3 DEF PageHolds
  <2>5. "posts" \in DOMAIN asked' /\ asked'.posts = asked.posts
    BY <2>1 DEF PageInv
  <2> QED
    BY <1>0, <2>3, <2>4, <2>5 DEF PageInv, PostsWhatWasOffered
<1>6. CASE TeamAnswer
  <2>1. PICK team : page' = [page EXCEPT !.team = team] /\ asked' = [asked EXCEPT !.team = Nothing] /\ UNCHANGED told
    BY <1>6 DEF TeamAnswer
  <2>2. /\ DOMAIN page' = PageFields /\ page'.times = page.times
        /\ page'.selected = page.selected /\ page'.active = page.active /\ page'.kind = page.kind
    BY <1>0, <2>1 DEF PageFields
  <2>3. PageHolds(page)'
    BY <1>0, <2>1, <2>2 DEF PageHolds
  <2>4. "posts" \in DOMAIN asked' /\ asked'.posts = asked.posts
    BY <2>1 DEF PageInv
  <2> QED
    BY <1>0, <2>1, <2>3, <2>4 DEF PageInv, PostsWhatWasOffered
<1>7. ASSUME NEW k \in Kinds, PickType(k) PROVE PageInv'
  <2>1. PICK p : p = [page EXCEPT !.kind = k, !.selected = NoOne, !.backups = FALSE, !.changes = @ + 1]
    OBVIOUS
  <2>2. DOMAIN p = PageFields /\ p.times = page.times /\ p.selected = NoOne
    BY <1>0, <2>1 DEF PageFields
  <2> QED
    BY <1>2, <1>7, <2>1, <2>2 DEF PickType, Shows
<1>8. ASSUME NEW t \in Times, PickSlot(t) PROVE PageInv'
  <2>1. PICK p : p = [page EXCEPT !.selected = t, !.form = @ + 1, !.submitting = FALSE]
    OBVIOUS
  <2>2. /\ DOMAIN p = PageFields /\ p.times = page.times
        /\ p.selected = t /\ p.active = page.active /\ p.kind = page.kind
    BY <1>0, <2>1 DEF PageFields
  <2>3. PICK r \in page.times : {r[1]} = TimesKey(page) /\ t \in r[2]
    BY <1>8 DEF PickSlot, ShownTimes
  <2>4. r[1] = <<page.active, page.kind, page.nonce>>
    BY <2>3 DEF TimesKey, Nothing
  <2>5. <<page.active, page.kind, t>> \in told
    BY <1>0, <2>3, <2>4 DEF PageHolds
  <2>6. PageHolds(p)
    BY <1>0, <2>2, <2>5 DEF PageHolds
  <2> QED
    BY <1>0, <1>8, <2>1, <2>6, PageShows DEF PickSlot, Shows
<1>9. CASE OpenBackups
  <2>1. PICK p : p = [page EXCEPT !.backups = TRUE, !.changes = @ + 1]
    OBVIOUS
  <2>2. /\ DOMAIN p = PageFields /\ p.times = page.times
        /\ p.selected = page.selected /\ p.active = page.active /\ p.kind = page.kind
    BY <1>0, <2>1 DEF PageFields
  <2> QED
    BY <1>2, <1>9, <2>1, <2>2 DEF OpenBackups, Shows
<1>10. ASSUME NEW m \in Managers, ChooseTeamMember(m) PROVE PageInv'
  <2>1. PICK p : p = [page EXCEPT !.active = m, !.via = IF page.primary # NoOne THEN "backup" ELSE "pool",
                        !.backups = FALSE, !.selected = NoOne, !.submitting = FALSE, !.changes = @ + 1]
    OBVIOUS
  <2>2. DOMAIN p = PageFields /\ p.times = page.times /\ p.selected = NoOne
    BY <1>0, <2>1 DEF PageFields
  <2> QED
    BY <1>2, <1>10, <2>1, <2>2 DEF ChooseTeamMember, Shows
<1>11. CASE BackToPrimary
  <2>1. CASE page.primary = NoOne
    <3>1. PICK p : p = [page EXCEPT !.active = NoOne]
      OBVIOUS
    <3>2. DOMAIN p = PageFields /\ p.times = page.times /\ p.active = NoOne
      BY <1>0, <3>1 DEF PageFields
    <3> QED
      BY <1>2, <1>11, <2>1, <3>1, <3>2 DEF BackToPrimary, Shows
  <2>2. CASE page.primary # NoOne
    <3>1. PICK p : p = [page EXCEPT !.active = page.primary, !.via = "primary", !.selected = NoOne,
                             !.submitting = FALSE, !.backups = FALSE]
      OBVIOUS
    <3>2. DOMAIN p = PageFields /\ p.times = page.times /\ p.selected = NoOne
      BY <1>0, <3>1 DEF PageFields
    <3> QED
      BY <1>2, <1>11, <2>2, <3>1, <3>2 DEF BackToPrimary, Shows
  <2> QED
    BY <2>1, <2>2
<1>12. ASSUME NEW trip \in Trips, ChangeTrip(trip) PROVE PageInv'
  <2>1. PICK p : p = [page EXCEPT !.screen = "loading", !.trip = trip, !.selected = NoOne, !.backups = FALSE,
                          !.changes = @ + 1]
    OBVIOUS
  <2>2. DOMAIN p = PageFields /\ p.times = page.times /\ p.selected = NoOne
    BY <1>0, <2>1 DEF PageFields
  <2> QED
    BY <1>2, <1>12, <2>1, <2>2 DEF ChangeTrip
<1>13. CASE PickAnother
  <2>1. PICK p : p = [page EXCEPT !.selected = NoOne]
    OBVIOUS
  <2>2. DOMAIN p = PageFields /\ p.times = page.times /\ p.selected = NoOne
    BY <1>0, <2>1 DEF PageFields
  <2> QED
    BY <1>2, <1>13, <2>1, <2>2 DEF PickAnother, Shows
<1>14. CASE SubmitForm
  <2>1. PICK p : p = [page EXCEPT !.submitting = TRUE]
    OBVIOUS
  <2>2. /\ DOMAIN p = PageFields /\ p.times = page.times
        /\ p.selected = page.selected /\ p.active = page.active /\ p.kind = page.kind
    BY <1>0, <2>1 DEF PageFields
  <2>3. PageHolds(p)
    BY <1>0, <2>2, SamePage
  <2>4. PICK post : post = [key |-> page.form, who |-> page.active, kind |-> page.kind, time |-> page.selected,
                            via |-> page.via, trip |-> page.trip]
    OBVIOUS
  <2>5. <<post.who, post.kind, post.time>> \in told
    BY <1>0, <1>14, <2>4 DEF SubmitForm, Form, PageHolds
  <2>6. Renders(p, asked.resolve, asked.posts \cup {post}) /\ UNCHANGED told
    BY <1>14, <2>1, <2>4 DEF SubmitForm
  <2> QED
    BY <1>0, <2>3, <2>5, <2>6, PageShows
<1>15. CASE PostAnswer
  <2>0. PICK post \in asked.posts :
          LET quiet == [page EXCEPT !.submitting = IF page.form = post.key THEN FALSE ELSE @] IN
          /\ \/ Renders([quiet EXCEPT !.booked = {post}], asked.resolve, asked.posts \ {post})
             \/ Renders([quiet EXCEPT !.selected = NoOne, !.nonce = @ + 1], asked.resolve, asked.posts \ {post})
             \/ Renders(quiet, asked.resolve, asked.posts \ {post})
          /\ UNCHANGED told
    BY <1>15 DEF PostAnswer
  <2>1. PICK quiet : quiet = [page EXCEPT !.submitting = IF page.form = post.key THEN FALSE ELSE @]
    OBVIOUS
  <2>2. /\ DOMAIN quiet = PageFields /\ quiet.times = page.times
        /\ quiet.selected = page.selected /\ quiet.active = page.active /\ quiet.kind = page.kind
    BY <1>0, <2>1 DEF PageFields
  <2>3. CASE Renders([quiet EXCEPT !.booked = {post}], asked.resolve, asked.posts \ {post})
    <3>1. PICK p : p = [quiet EXCEPT !.booked = {post}]
      OBVIOUS
    <3>2. /\ DOMAIN p = PageFields /\ p.times = page.times
          /\ p.selected = page.selected /\ p.active = page.active /\ p.kind = page.kind
      BY <2>2, <3>1 DEF PageFields
    <3> QED
      BY <1>2, <2>0, <2>3, <3>1, <3>2
  <2>4. CASE Renders([quiet EXCEPT !.selected = NoOne, !.nonce = @ + 1], asked.resolve, asked.posts \ {post})
    <3>1. PICK p : p = [quiet EXCEPT !.selected = NoOne, !.nonce = @ + 1]
      OBVIOUS
    <3>2. DOMAIN p = PageFields /\ p.times = page.times /\ p.selected = NoOne
      BY <2>2, <3>1 DEF PageFields
    <3> QED
      BY <1>2, <2>0, <2>4, <3>1, <3>2
  <2>5. CASE Renders(quiet, asked.resolve, asked.posts \ {post})
    BY <1>2, <2>0, <2>2, <2>5
  <2> QED
    BY <2>0, <2>1, <2>3, <2>4, <2>5
<1> QED
  BY <1>1, <1>3, <1>4, <1>5, <1>6, <1>7, <1>8, <1>9, <1>10, <1>11, <1>12, <1>13, <1>14, <1>15 DEF PageNext

\* Whatever answers came late or not at all, a booking is only posted for a time the
\* server offered with that manager for that type of call.
THEOREM OnlyOffersArePosted == PageSpec => []PostsWhatWasOffered
<1>1. PageInit => PageInv
  BY DEF PageInit, PageInv, PageHolds, PageFields, StartTrip, PostsWhatWasOffered, Nothing
<1>2. PageInv => PostsWhatWasOffered
  BY DEF PageInv
<1> QED
  BY <1>1, <1>2, PageStep, PTL DEF PageSpec

(* The kit's three readings of its environment *)

\* A deployment whose health is "ready" asks Cove before every protected operation, and its
\* proxy has somewhere to send the signed-out: the three readings agree on every
\* environment there is.
THEOREM ReadyIsGuarded == KitInit /\ [][Deploy]_deployed => []ReadyMeansGuarded
<1>1. ASSUME NEW e \in Environments, Health(e) = "ready"
      PROVE  AsksCove(e) /\ ProxyStands(e) /\ IsHttp(SendsToSignIn(e))
  <2>1. Failing(e) = {}
    BY <1>1 DEF Health
  <2>2. e.reference = "good"
    BY <2>1 DEF Failing
  <2>3. IsHttp(Primary(e))
    BY <2>1 DEF Failing
  <2>4. IsHttp(SignInPage(e))
    BY <2>1 DEF Failing
  <2>5. AccessApi(e) = "good"
    BY <2>1 DEF Failing
  <2> QED
    BY <2>2, <2>3, <2>4, <2>5 DEF AsksCove, ProxyStands, SendsToSignIn
<1>2. KitInit => deployed \subseteq Environments
  BY DEF KitInit
<1>3. deployed \subseteq Environments /\ [Deploy]_deployed => (deployed \subseteq Environments)'
  BY DEF Deploy
<1>4. deployed \subseteq Environments => ReadyMeansGuarded
  BY <1>1 DEF ReadyMeansGuarded
<1> QED
  BY <1>2, <1>3, <1>4, PTL

(* The decision, the access service and the access summary *)

\* A question over any set of entitlements, of two or of more.
IsQuestion(q) == q.population \in {Employee, Partner} /\ q.entitlements \subseteq Entitlements

\* A decision that allows rests on entitlements that count.
LEMMA AllowedRests ==
  ASSUME NEW q, NEW permission, Evaluate(q, permission).allowed
  PROVE  /\ Counting(q, permission) # {} /\ q.flaw # "suspended"
         /\ Evaluate(q, permission).roles = {e.role : e \in Counting(q, permission)}
         /\ Evaluate(q, permission).scope = Merged(q, Counting(q, permission))
<1>1. PICK grants : grants = Counting(q, permission)
  OBVIOUS
<1>2. PICK permits : permits = UNION {RoleOf(e.role).permits : e \in grants}
  OBVIOUS
<1>3. PICK roles : roles = {e.role : e \in grants}
  OBVIOUS
<1>4. PICK scope : scope = Merged(q, grants)
  OBVIOUS
<1>5. ~Denied("identity_unverified").allowed /\ ~Denied("identity_mismatch").allowed /\ ~Denied("user_inactive").allowed
      /\ ~Denied("application_inactive").allowed /\ ~Denied("partner_organisation_inactive").allowed
      /\ ~Denied("no_entitlement_counts").allowed
  BY DEF Denied
<1>6. /\ grants # {} /\ q.flaw # "suspended"
      /\ Evaluate(q, permission) = [allowed |-> TRUE, roles |-> roles, permissions |-> permits, scope |-> scope]
  BY <1>1, <1>2, <1>3, <1>4, <1>5 DEF Evaluate
<1> QED
  BY <1>1, <1>3, <1>4, <1>6

\* Every role opens the application, and an employee is not held to a scope: what counts
\* towards opening it is what the summary lists the employee for.
LEMMA SameEntitlements ==
  ASSUME NEW q, IsQuestion(q), q.population = Employee
  PROVE  Counting(q, "open") = {e \in q.entitlements : Employee \in RoleOf(e.role).to /\ Applies(q, e)}
<1>1. \A e \in q.entitlements : "open" \in RoleOf(e.role).permits
  BY DEF IsQuestion, Entitlements, RoleKeys, RoleOf
<1>2. \A scope : ScopeAllows(q, scope)
  BY DEF ScopeAllows
<1> QED
  BY <1>1, <1>2 DEF Counting

\* Who the access service lets in is listed with that level ...
LEMMA LetInIsListed ==
  ASSUME NEW q, IsQuestion(q), q.population = Employee, NEW required \in {"user", "admin"},
         Service(q, required) \in {"user", "admin"}
  PROVE  Service(q, required) = Summary(q)
<1>1. PICK roles : roles = {e.role : e \in Counting(q, "open")}
  OBVIOUS
<1>2. Evaluate(q, "open").allowed
  BY DEF Service
<1>3. Counting(q, "open") # {} /\ q.flaw # "suspended" /\ Evaluate(q, "open").roles = roles
  BY <1>1, <1>2, AllowedRests
<1>4. Service(q, required) = Level(roles)
  BY <1>2, <1>3 DEF Service
<1>5. roles # {}
  BY <1>1, <1>3
<1>6. Summary(q) = IF \E r \in roles : RoleOf(r).level = "admin" THEN "admin" ELSE "user"
  BY <1>1, <1>3, <1>5, SameEntitlements DEF Summary
<1> QED
  BY <1>4, <1>6 DEF Level

\* ... and who is listed is let in with the level listed, once verified.
LEMMA ListedIsLetIn ==
  ASSUME NEW q, IsQuestion(q), Summary(q) # "not_listed", q.flaw \in {"none", "home_suspended"}
  PROVE  Service(q, Summary(q)) = Summary(q)
<1>1. PICK roles : roles = {e.role : e \in Counting(q, "open")}
  OBVIOUS
<1>2. q.population = Employee
  BY DEF Summary
<1>3. roles # {} /\ Summary(q) = IF \E r \in roles : RoleOf(r).level = "admin" THEN "admin" ELSE "user"
  BY <1>1, <1>2, SameEntitlements DEF Summary
<1>4. Counting(q, "open") # {}
  BY <1>1, <1>3
<1>5. Evaluate(q, "open").allowed
  <2>1. PICK permits, scope :
          /\ permits = UNION {RoleOf(e.role).permits : e \in Counting(q, "open")}
          /\ scope = Merged(q, Counting(q, "open"))
    OBVIOUS
  <2>2. Evaluate(q, "open") = [allowed |-> TRUE, roles |-> roles, permissions |-> permits, scope |-> scope]
    BY <1>1, <1>2, <1>4, <2>1 DEF Evaluate, Employee, Partner
  <2> QED
    BY <2>2
<1>6. Evaluate(q, "open").roles = roles
  BY <1>1, <1>5, AllowedRests
<1> QED
  BY <1>3, <1>5, <1>6 DEF Service, Level

\* What counts towards a permission carries it, over each organisation of the decision,
\* and a partner's own organisation is all a partner's entitlements name.
LEMMA ScopeIsCarried ==
  ASSUME NEW q, IsQuestion(q), NEW permission \in Permissions, Evaluate(q, permission).allowed
  PROVE  /\ \A o \in Evaluate(q, permission).scope :
              \E e \in q.entitlements :
                Applies(q, e) /\ permission \in RoleOf(e.role).permits /\ o \in e.scope
         /\ q.population = Partner => Evaluate(q, permission).scope = {Home}
<1>1. PICK grants : grants = Counting(q, permission)
  OBVIOUS
<1>2. PICK scopes : scopes = {e.scope : e \in grants}
  OBVIOUS
<1>3. /\ grants # {}
      /\ Evaluate(q, permission).scope = IF q.population = Employee /\ {All} \in scopes THEN {All} ELSE (UNION scopes) \ {All}
  BY <1>1, <1>2, AllowedRests DEF Merged
<1>4. permission # ""
  BY DEF Permissions
<1>5. \A e \in grants : e \in q.entitlements /\ Applies(q, e) /\ permission \in RoleOf(e.role).permits
                        /\ ScopeAllows(q, e.scope)
  BY <1>1, <1>4 DEF Counting
<1>6. \A o \in Evaluate(q, permission).scope : \E e \in grants : o \in e.scope
  BY <1>2, <1>3
<1>7. ASSUME q.population = Partner PROVE Evaluate(q, permission).scope = {Home}
  <2>1. q.population # Employee
    BY <1>7 DEF Employee, Partner
  <2>2. \A e \in grants : e.scope = {Home}
    BY <1>5, <2>1 DEF ScopeAllows
  <2>3. UNION scopes = {Home}
    BY <1>2, <1>3, <2>2
  <2>4. Home # All
    BY EvaluatorAssumption DEF All
  <2> QED
    BY <1>3, <2>1, <2>3, <2>4
<1> QED
  BY <1>5, <1>6, <1>7

\* Whoever another application lets in is listed with that level and whoever is listed is
\* let in; no permission reaches an organisation whose entitlement does not carry it.
THEOREM ReadingsAreOne == EvaluatorInit /\ [][DecideOne]_decided => []ReadingsAgree
<1>1. \A q \in Questions : IsQuestion(q)
  BY DEF Questions, IsQuestion
<1>2. ASSUME decided \subseteq Questions PROVE ReadingsAgree
  <2>1. SummaryAgrees
    <3> SUFFICES ASSUME NEW question \in decided
        PROVE /\ \A required \in {"user", "admin"} :
                   question.population = Employee /\ Service(question, required) \in {"user", "admin"}
                     => Service(question, required) = Summary(question)
              /\ Summary(question) # "not_listed" /\ question.flaw \in {"none", "home_suspended"}
                     => Service(question, Summary(question)) = Summary(question)
      BY DEF SummaryAgrees
    <3>1. IsQuestion(question)
      BY <1>1, <1>2
    <3> QED
      BY <3>1, LetInIsListed, ListedIsLetIn
  <2>2. PermissionInScope
    BY <1>1, <1>2, ScopeIsCarried DEF PermissionInScope
  <2> QED
    BY <2>1, <2>2 DEF ReadingsAgree
<1>3. EvaluatorInit => decided \subseteq Questions
  BY DEF EvaluatorInit
<1>4. decided \subseteq Questions /\ [DecideOne]_decided => (decided \subseteq Questions)'
  BY DEF DecideOne
<1> QED
  BY <1>2, <1>3, <1>4, PTL

(* Everything of Cove that writes into an application's repository *)

\* What the merged branches undid in a file, and whether a request was published in it.
Undone(f) == UNION {branch[b].stale[f] : b \in {c \in Branches : branch[c].state = "merged"}}
Paths == {f \in Files : branch["request"].head[f] # branch["request"].base[f]}
Published(f) == branch["request"].state = "merged" /\ f \in Paths

\* What is read of a file somebody meant to be there, unless it was undone; a request that
\* is read was published.
IsMeant(content, f) == content \subseteq intended[f] \cup Undone(f) \cup {"request"}
Sound(content, f) == "request" \in content => Published(f)

JobFields == {"at", "read", "files", "base", "manual"}
PullFields == {"state", "base", "tip", "head", "stale"}

\* The files of a job are what was read, with what its branch adds.
JobHolds(w, job) ==
  /\ DOMAIN job = JobFields /\ DOMAIN job.files \subseteq Files
  /\ \A f \in DOMAIN job.files :
       /\ job.read[f] \subseteq job.files[f] /\ job.files[f] \subseteq job.read[f] \cup Adds(BranchOf(w))
       /\ w = "builder" => "request" \in job.files[f]
       /\ IsMeant(job.read[f], f) /\ Sound(job.read[f], f)
  /\ \A f \in Files : IsMeant(job.base[f], f) /\ Sound(job.base[f], f)

\* A reversal's are the files of the merged request as its pull request found them, on
\* top of the files as they were merged.
ReverserHolds(job) ==
  /\ DOMAIN job = JobFields /\ job.at \in {"idle", "commit", "pull"}
  /\ job.at = "commit" =>
       /\ branch["request"].state = "merged" /\ DOMAIN job.files = Paths
       /\ \A f \in Paths : /\ job.files[f] = branch["request"].tip[f]
                           /\ job.base[f] = branch["request"].head[f] /\ job.read[f] = job.base[f]

\* A branch removes nothing but what is stale, and adds that and what it is for.
Carries(pull, f, adds) ==
  pull.head[f] \subseteq pull.base[f] \cup pull.stale[f] \cup adds /\ pull.base[f] \subseteq pull.head[f] \cup pull.stale[f]

KitHolds(pull) ==
  pull.state \in {"pushed", "open"} =>
    \A f \in Files : Carries(pull, f, {"cove"}) /\ Sound(pull.head[f], f)

RequestHolds(pull) ==
  \A f \in Files :
    /\ pull.state \in {"pushed", "open"} =>
         Carries(pull, f, {"request"}) /\ IsMeant(pull.head[f], f) /\ "request" \notin pull.base[f]
    /\ pull.state \in {"pushed", "open", "merged"} => pull.head[f] = pull.base[f] \/ "request" \in pull.head[f]
    /\ pull.state \in {"open", "merged"} =>
         /\ "request" \notin pull.tip[f] /\ IsMeant(pull.tip[f], f)
         /\ pull.head[f] \subseteq pull.tip[f] \cup Undone(f) \cup {"request"}

ReversalHolds(pull) ==
  pull.state \in {"pushed", "open"} =>
    /\ branch["request"].state = "merged"
    /\ \A f \in Files : IF f \in Paths
                        THEN pull.base[f] = branch["request"].head[f] /\ pull.head[f] = branch["request"].tip[f]
                        ELSE pull.head[f] = pull.base[f]

MainHolds ==
  \A f \in Files : Difference(intended[f], main[f]) \subseteq Undone(f) /\ Sound(main[f], f)

RepoShape ==
  /\ DOMAIN main = Files /\ DOMAIN intended = Files
  /\ DOMAIN writer = Writers /\ DOMAIN branch = Branches
  /\ \A b \in Branches : /\ DOMAIN branch[b] = PullFields
                         /\ DOMAIN branch[b].head = Files /\ DOMAIN branch[b].stale = Files

RepoInv ==
  /\ RepoShape /\ MainHolds
  /\ \A w \in Writers \ {"reverser"} : JobHolds(w, writer[w])
  /\ ReverserHolds(writer["reverser"])
  /\ KitHolds(branch["kit"]) /\ RequestHolds(branch["request"]) /\ ReversalHolds(branch["reversal"])

\* Nobody stops meaning what was meant, but for a request; a merged branch stays as it is.
PastGoesOn ==
  /\ \A f \in Files : intended[f] \subseteq intended'[f] \cup {"request"}
  /\ \A b \in Branches : branch[b].state = "merged" => branch'[b] = branch[b]

\* What was undone stays undone, and what was known or published stays so.
LEMMA PastIsKnown ==
  ASSUME PastGoesOn, NEW f \in Files
  PROVE  /\ Undone(f) \subseteq Undone(f)'
         /\ Published(f) => Published(f)'
         /\ \A content : IsMeant(content, f) => IsMeant(content, f)'
         /\ \A content : Sound(content, f) => Sound(content, f)'
<1>1. Undone(f) \subseteq Undone(f)'
  <2> SUFFICES ASSUME NEW x \in Undone(f) PROVE x \in Undone(f)'
    OBVIOUS
  <2>1. PICK b \in Branches : branch[b].state = "merged" /\ x \in branch[b].stale[f]
    BY DEF Undone
  <2>2. branch'[b].state = "merged" /\ x \in branch'[b].stale[f]
    BY <2>1 DEF PastGoesOn
  <2> QED
    BY <2>2 DEF Undone
<1>2. Published(f) => Published(f)'
  BY DEF PastGoesOn, Published, Paths, Branches
<1>3. ASSUME NEW content, IsMeant(content, f) PROVE IsMeant(content, f)'
  BY <1>1, <1>3 DEF IsMeant, PastGoesOn
<1>4. ASSUME NEW content, Sound(content, f) PROVE Sound(content, f)'
  BY <1>2, <1>4 DEF Sound
<1> QED
  BY <1>1, <1>2, <1>3, <1>4

\* What holds of a job or a branch that is left alone goes on holding.
LEMMA JobsStay ==
  ASSUME PastGoesOn
  PROVE  /\ \A w, job : JobHolds(w, job) => JobHolds(w, job)'
         /\ \A job : ReverserHolds(job) => ReverserHolds(job)'
<1>1. ASSUME NEW w, NEW job, JobHolds(w, job) PROVE JobHolds(w, job)'
  <2>1. DOMAIN job = JobFields /\ DOMAIN job.files \subseteq Files
    BY <1>1 DEF JobHolds
  <2>2. \A f \in DOMAIN job.files : f \in Files /\ IsMeant(job.read[f], f)' /\ Sound(job.read[f], f)'
    BY <1>1, <2>1, PastIsKnown DEF JobHolds
  <2>3. \A f \in Files : IsMeant(job.base[f], f)' /\ Sound(job.base[f], f)'
    BY <1>1, PastIsKnown DEF JobHolds
  <2> QED
    BY <1>1, <2>1, <2>2, <2>3 DEF JobHolds
<1>2. ASSUME NEW job, ReverserHolds(job) PROVE ReverserHolds(job)'
  <2>1. job.at = "commit" => branch'["request"] = branch["request"]
    BY <1>2 DEF ReverserHolds, PastGoesOn, Branches
  <2> QED
    BY <1>2, <2>1 DEF ReverserHolds, Paths
<1> QED
  BY <1>1, <1>2

LEMMA PullsStay ==
  ASSUME PastGoesOn, NEW pull
  PROVE  /\ KitHolds(pull) => KitHolds(pull)'
         /\ RequestHolds(pull) => RequestHolds(pull)'
         /\ ReversalHolds(pull) => ReversalHolds(pull)'
<1>1. ASSUME KitHolds(pull) PROVE KitHolds(pull)'
  BY <1>1, PastIsKnown DEF KitHolds, Carries
<1>2. ASSUME RequestHolds(pull) PROVE RequestHolds(pull)'
  <2> SUFFICES ASSUME NEW f \in Files
      PROVE /\ pull.state \in {"pushed", "open"} =>
                 Carries(pull, f, {"request"}) /\ IsMeant(pull.head[f], f)' /\ "request" \notin pull.base[f]
            /\ pull.state \in {"pushed", "open", "merged"} => pull.head[f] = pull.base[f] \/ "request" \in pull.head[f]
            /\ pull.state \in {"open", "merged"} =>
                 /\ "request" \notin pull.tip[f] /\ IsMeant(pull.tip[f], f)'
                 /\ pull.head[f] \subseteq pull.tip[f] \cup Undone(f)' \cup {"request"}
    BY DEF RequestHolds, Carries
  <2>1. Undone(f) \subseteq Undone(f)' /\ \A content : IsMeant(content, f) => IsMeant(content, f)'
    BY PastIsKnown
  <2> QED
    BY <1>2, <2>1 DEF RequestHolds
<1>3. ASSUME ReversalHolds(pull) PROVE ReversalHolds(pull)'
  <2>1. CASE pull.state \notin {"pushed", "open"}
    BY <2>1 DEF ReversalHolds
  <2>2. CASE pull.state \in {"pushed", "open"}
    <3>1. branch["request"].state = "merged"
      BY <1>3, <2>2 DEF ReversalHolds
    <3>2. branch'["request"] = branch["request"]
      BY <3>1 DEF PastGoesOn, Branches
    <3> QED
      BY <1>3, <2>2, <3>1, <3>2 DEF ReversalHolds, Paths
  <2> QED
    BY <2>1, <2>2
<1> QED
  BY <1>1, <1>2, <1>3

\* A step whose jobs and branches hold before it, and whose default branch holds after it.
LEMMA RepoKept ==
  ASSUME PastGoesOn, RepoShape', MainHolds',
         NEW jobs, jobs = writer', NEW pulls, pulls = branch',
         \A w \in Writers \ {"reverser"} : JobHolds(w, jobs[w]), ReverserHolds(jobs["reverser"]),
         KitHolds(pulls["kit"]), RequestHolds(pulls["request"]), ReversalHolds(pulls["reversal"])
  PROVE  RepoInv'
<1>1. ASSUME NEW w \in Writers \ {"reverser"} PROVE JobHolds(w, writer[w])'
  <2>1. PICK job : job = jobs[w]
    OBVIOUS
  <2>2. JobHolds(w, job)
    BY <2>1
  <2>3. JobHolds(w, job)' /\ job = writer'[w]
    BY <2>1, <2>2, JobsStay
  <2> QED
    BY <2>3 DEF JobHolds
<1>2. ReverserHolds(writer["reverser"])'
  <2>1. PICK job : job = jobs["reverser"]
    OBVIOUS
  <2>2. ReverserHolds(job)' /\ job = writer'["reverser"]
    BY <2>1, JobsStay
  <2> QED
    BY <2>2 DEF ReverserHolds
<1>3. KitHolds(branch["kit"])'
  <2>1. PICK pull : pull = pulls["kit"]
    OBVIOUS
  <2>2. KitHolds(pull)' /\ pull = branch'["kit"]
    BY <2>1, PullsStay
  <2> QED
    BY <2>2 DEF KitHolds, Carries
<1>4. RequestHolds(branch["request"])'
  <2>1. PICK pull : pull = pulls["request"]
    OBVIOUS
  <2>2. RequestHolds(pull)' /\ pull = branch'["request"]
    BY <2>1, PullsStay
  <2> QED
    BY <2>2 DEF RequestHolds, Carries
<1>5. ReversalHolds(branch["reversal"])'
  <2>1. PICK pull : pull = pulls["reversal"]
    OBVIOUS
  <2>2. ReversalHolds(pull)' /\ pull = branch'["reversal"]
    BY <2>1, PullsStay
  <2> QED
    BY <2>2 DEF ReversalHolds
<1> QED
  BY <1>1, <1>2, <1>3, <1>4, <1>5 DEF RepoInv

LEMMA BranchesOfWriters ==
  /\ BranchOf("builder") = "request" /\ BranchOf("reverser") = "reversal"
  /\ \A w \in Preparers : BranchOf(w) = "kit" /\ w # "builder" /\ w # "reverser"
  /\ \A w \in Writers : BranchOf(w) \in Branches
  /\ \A w \in Writers : w \in Preparers \/ w = "builder" \/ w = "reverser"
<1>1. \A w \in Preparers : w # "builder" /\ w # "reverser"
  BY RepositoryAssumption
<1> QED
  BY <1>1 DEF BranchOf, Writers, Branches

\* The default branch is known, and so is what it lost.
LEMMA MainIsKnown ==
  ASSUME MainHolds, NEW f \in Files
  PROVE  /\ IsMeant(main[f], f) /\ Sound(main[f], f)
         /\ intended[f] \subseteq main[f] \cup Undone(f) /\ main[f] \subseteq intended[f] \cup Undone(f)
BY DEF MainHolds, IsMeant, Difference

\* A default branch that rests holds what it held.
LEMMA MainRests ==
  ASSUME MainHolds, PastGoesOn, UNCHANGED <<main, intended>>
  PROVE  MainHolds'
<1> SUFFICES ASSUME NEW f \in Files
    PROVE Difference(intended[f], main[f]) \subseteq Undone(f)' /\ Sound(main[f], f)'
  BY DEF MainHolds, Sound, Difference
<1>1. Difference(intended[f], main[f]) \subseteq Undone(f) /\ Sound(main[f], f)
  BY DEF MainHolds
<1> QED
  BY <1>1, PastIsKnown

\* One writer goes on.
LEMMA WriterGoes ==
  ASSUME RepoInv, NEW w \in Writers, NEW job, writer' = [writer EXCEPT ![w] = job],
         UNCHANGED <<main, intended, branch>>,
         IF w = "reverser" THEN ReverserHolds(job) ELSE JobHolds(w, job)
  PROVE  RepoInv'
<1>1. PastGoesOn
  BY DEF PastGoesOn
<1>2. MainHolds'
  BY <1>1, MainRests DEF RepoInv
<1>3. RepoShape'
  BY DEF RepoInv, RepoShape
<1>4. PICK jobs, pulls : jobs = writer' /\ pulls = branch'
  OBVIOUS
<1>5. pulls = branch /\ jobs = [writer EXCEPT ![w] = job] /\ DOMAIN writer = Writers
  BY <1>4 DEF RepoInv, RepoShape
<1>6. ASSUME NEW v \in Writers \ {"reverser"} PROVE JobHolds(v, jobs[v])
  <2>1. CASE v = w
    BY <1>5, <2>1
  <2>2. CASE v # w
    <3>1. jobs[v] = writer[v]
      BY <1>5, <2>2
    <3> QED
      BY <3>1 DEF RepoInv
  <2> QED
    BY <2>1, <2>2
<1>7. ReverserHolds(jobs["reverser"])
  <2>1. CASE "reverser" = w
    BY <1>5, <2>1
  <2>2. CASE "reverser" # w
    <3>1. jobs["reverser"] = writer["reverser"]
      BY <1>5, <2>2 DEF Writers
    <3> QED
      BY <3>1 DEF RepoInv
  <2> QED
    BY <2>1, <2>2
<1>8. KitHolds(pulls["kit"]) /\ RequestHolds(pulls["request"]) /\ ReversalHolds(pulls["reversal"])
  BY <1>5 DEF RepoInv
<1> QED
  BY <1>1, <1>2, <1>3, <1>4, <1>6, <1>7, <1>8, RepoKept

PullShape(pull) == DOMAIN pull = PullFields /\ DOMAIN pull.head = Files /\ DOMAIN pull.stale = Files

\* One branch changes that is not merged, and every writer rests or holds what its job does.
LEMMA BranchGoes ==
  ASSUME RepoInv, NEW b \in Branches, NEW pull, branch' = [branch EXCEPT ![b] = pull],
         UNCHANGED <<main, intended>>, branch[b].state # "merged", PullShape(pull),
         \/ b = "kit" /\ KitHolds(pull)
         \/ b = "request" /\ RequestHolds(pull)
         \/ b = "reversal" /\ ReversalHolds(pull),
         NEW jobs, jobs = writer', DOMAIN jobs = Writers,
         \A v \in Writers :
           jobs[v] = writer[v] \/ IF v = "reverser" THEN ReverserHolds(jobs[v]) ELSE JobHolds(v, jobs[v])
  PROVE  RepoInv'
<1>1. PastGoesOn
  BY DEF PastGoesOn, RepoInv, RepoShape
<1>2. MainHolds'
  BY <1>1, MainRests DEF RepoInv
<1>3. RepoShape'
  BY DEF RepoInv, RepoShape, PullShape
<1>4. PICK pulls : pulls = branch'
  OBVIOUS
<1>5. pulls = [branch EXCEPT ![b] = pull] /\ DOMAIN branch = Branches
  BY <1>4 DEF RepoInv, RepoShape
<1>6. ASSUME NEW v \in Writers \ {"reverser"} PROVE JobHolds(v, jobs[v])
  BY DEF RepoInv
<1>7. ReverserHolds(jobs["reverser"])
  BY DEF RepoInv, Writers
<1>8. KitHolds(pulls["kit"])
  <2>1. CASE b = "kit"
    BY <1>5, <2>1
  <2>2. CASE b # "kit"
    <3>1. pulls["kit"] = branch["kit"]
      BY <1>5, <2>2 DEF Branches
    <3> QED
      BY <3>1 DEF RepoInv
  <2> QED
    BY <2>1, <2>2
<1>9. RequestHolds(pulls["request"])
  <2>1. CASE b = "request"
    BY <1>5, <2>1
  <2>2. CASE b # "request"
    <3>1. pulls["request"] = branch["request"]
      BY <1>5, <2>2 DEF Branches
    <3> QED
      BY <3>1 DEF RepoInv
  <2> QED
    BY <2>1, <2>2
<1>10. ReversalHolds(pulls["reversal"])
  <2>1. CASE b = "reversal"
    BY <1>5, <2>1
  <2>2. CASE b # "reversal"
    <3>1. pulls["reversal"] = branch["reversal"]
      BY <1>5, <2>2 DEF Branches
    <3> QED
      BY <3>1 DEF RepoInv
  <2> QED
    BY <2>1, <2>2
<1> QED
  BY <1>1, <1>2, <1>3, <1>4, <1>6, <1>7, <1>8, <1>9, <1>10, RepoKept

\* A writer that gives up holds nothing ...
LEMMA WriterRests ==
  ASSUME RepoInv, NEW w \in Writers
  PROVE  IF w = "reverser" THEN ReverserHolds(Asleep) ELSE JobHolds(w, Asleep)
BY DEF Asleep, ReverserHolds, JobHolds, JobFields, NoFiles, NoContents, IsMeant, Sound

\* ... and one that goes on holds what it has.
LEMMA JobGoesOn ==
  ASSUME RepoInv, NEW w \in Writers \ {"reverser"}, NEW stage
  PROVE  JobHolds(w, [writer[w] EXCEPT !.at = stage])
<1>1. PICK old, job : old = writer[w] /\ job = [old EXCEPT !.at = stage]
  OBVIOUS
<1>2. JobHolds(w, old)
  BY <1>1 DEF RepoInv
<1>3. DOMAIN old = JobFields
  BY <1>2 DEF JobHolds
<1>4. DOMAIN job = JobFields /\ job.read = old.read /\ job.files = old.files /\ job.base = old.base
  BY <1>1, <1>3 DEF JobFields
<1>5. JobHolds(w, job)
  BY <1>2, <1>4 DEF JobHolds
<1> QED
  BY <1>1, <1>5

\* Prepare reads the default branch and plans its change set.
LEMMA InspectsStep == ASSUME RepoInv, NEW w \in Preparers, Inspects(w) PROVE RepoInv'
<1>1. PICK old, job :
        /\ old = writer[w]
        /\ job = [old EXCEPT !.at = "branch", !.read = main, !.files = ChangeSet(main), !.manual = NeedsReview(main)]
  OBVIOUS
<1>2. w \in Writers /\ w # "reverser" /\ w # "builder" /\ BranchOf(w) = "kit"
  BY BranchesOfWriters DEF Writers
<1>3. JobHolds(w, old) /\ DOMAIN old = JobFields
  BY <1>1, <1>2 DEF RepoInv, JobHolds
<1>4. DOMAIN job = JobFields /\ job.read = main /\ job.files = ChangeSet(main) /\ job.base = old.base
  BY <1>1, <1>3 DEF JobFields
<1>5. DOMAIN job.files \subseteq Files
  BY <1>4 DEF ChangeSet
<1>6. ASSUME NEW f \in DOMAIN job.files
      PROVE /\ job.read[f] \subseteq job.files[f] /\ job.files[f] \subseteq job.read[f] \cup Adds(BranchOf(w))
            /\ IsMeant(job.read[f], f) /\ Sound(job.read[f], f)
  <2>1. job.files[f] = IF f = "proxy" /\ main[f] # {} THEN main[f] ELSE main[f] \cup {"cove"}
    BY <1>4, <1>6 DEF ChangeSet, WithCove
  <2>2. Adds(BranchOf(w)) = {"cove"}
    BY <1>2 DEF Adds
  <2>3. IsMeant(main[f], f) /\ Sound(main[f], f)
    BY <1>5, MainIsKnown DEF RepoInv
  <2> QED
    BY <1>4, <2>1, <2>2, <2>3
<1>7. JobHolds(w, job)
  BY <1>2, <1>3, <1>4, <1>5, <1>6 DEF JobHolds
<1>8. writer' = [writer EXCEPT ![w] = job] /\ UNCHANGED <<main, intended, branch>>
  BY <1>1 DEF Inspects
<1> QED
  BY <1>2, <1>7, <1>8, WriterGoes

\* The agent stages its version of a file it read.
LEMMA StagesStep == ASSUME RepoInv, NEW f \in Files, AgentStages(f) PROVE RepoInv'
<1>1. PICK old, job :
        /\ old = writer["builder"]
        /\ job = [old EXCEPT !.at = "branch", !.read = [g \in {f} |-> main[f]],
                             !.files = [g \in {f} |-> main[f] \cup {"request"}]]
  OBVIOUS
<1>2. "builder" \in Writers \ {"reverser"} /\ BranchOf("builder") = "request"
  BY BranchesOfWriters DEF Writers
<1>3. JobHolds("builder", old) /\ DOMAIN old = JobFields
  BY <1>1, <1>2 DEF RepoInv, JobHolds
<1>4. /\ DOMAIN job = JobFields /\ job.read = [g \in {f} |-> main[f]] /\ job.base = old.base
      /\ job.files = [g \in {f} |-> main[f] \cup {"request"}]
  BY <1>1, <1>3 DEF JobFields
<1>5. IsMeant(main[f], f) /\ Sound(main[f], f)
  BY MainIsKnown DEF RepoInv
<1>6. JobHolds("builder", job)
  BY <1>2, <1>3, <1>4, <1>5 DEF JobHolds, Adds
<1>7. writer' = [writer EXCEPT !["builder"] = job] /\ UNCHANGED <<main, intended, branch>>
  BY <1>1 DEF AgentStages
<1> QED
  BY <1>2, <1>6, <1>7, WriterGoes

\* The base of the commit is the default branch as it is now.
LEMMA ReadsBaseStep == ASSUME RepoInv, NEW w \in Writers, ReadsBase(w) PROVE RepoInv'
<1>1. PICK old, job : old = writer[w] /\ job = [old EXCEPT !.at = "commit", !.base = main]
  OBVIOUS
<1>2. w # "reverser"
  BY DEF ReadsBase, At, RepoInv, ReverserHolds
<1>3. JobHolds(w, old) /\ DOMAIN old = JobFields
  BY <1>1, <1>2 DEF RepoInv, JobHolds
<1>4. DOMAIN job = JobFields /\ job.read = old.read /\ job.files = old.files /\ job.base = main
  BY <1>1, <1>3 DEF JobFields
<1>5. \A f \in Files : IsMeant(main[f], f) /\ Sound(main[f], f)
  BY MainIsKnown DEF RepoInv
<1>6. JobHolds(w, job)
  BY <1>3, <1>4, <1>5 DEF JobHolds
<1>7. writer' = [writer EXCEPT ![w] = job] /\ UNCHANGED <<main, intended, branch>>
  BY <1>1 DEF ReadsBase
<1> QED
  BY <1>2, <1>6, <1>7, WriterGoes

LEMMA RestsStep ==
  ASSUME RepoInv, NEW w \in Writers, Rests(w), UNCHANGED <<main, intended, branch>> PROVE RepoInv'
<1>1. PICK job : job = Asleep
  OBVIOUS
<1>2. writer' = [writer EXCEPT ![w] = job] /\ (IF w = "reverser" THEN ReverserHolds(job) ELSE JobHolds(w, job))
  BY <1>1, WriterRests DEF Rests
<1> QED
  BY <1>2, WriterGoes

LEMMA LooksStep == ASSUME RepoInv, NEW w \in Writers, LooksForBranch(w) PROVE RepoInv'
<1>1. w # "reverser"
  BY DEF LooksForBranch, At, RepoInv, ReverserHolds
<1>2. UNCHANGED <<main, intended, branch>> /\ (Goes(w, "base") \/ Rests(w))
  BY DEF LooksForBranch
<1>3. CASE Goes(w, "base")
  <2>1. PICK job : job = [writer[w] EXCEPT !.at = "base"]
    OBVIOUS
  <2>2. JobHolds(w, job)
    BY <1>1, <2>1, JobGoesOn
  <2>3. writer' = [writer EXCEPT ![w] = job]
    BY <1>3, <2>1 DEF Goes
  <2> QED
    BY <1>1, <1>2, <2>2, <2>3, WriterGoes
<1> QED
  BY <1>2, <1>3, RestsStep

\* The files of a reversal are those of the request that was merged.
LEMMA ReversesStep == ASSUME RepoInv, Reverses PROVE RepoInv'
<1>1. PICK old, job, paths :
        /\ old = writer["reverser"] /\ paths = Paths
        /\ job = [old EXCEPT !.at = "commit", !.base = main, !.read = [f \in paths |-> main[f]],
                             !.files = [f \in paths |-> branch["request"].tip[f]]]
  OBVIOUS
<1>2. DOMAIN old = JobFields
  BY <1>1 DEF RepoInv, ReverserHolds
<1>3. /\ DOMAIN job = JobFields /\ job.at = "commit" /\ job.base = main /\ job.read = [f \in paths |-> main[f]]
      /\ job.files = [f \in paths |-> branch["request"].tip[f]]
  BY <1>1, <1>2 DEF JobFields
<1>4. branch["request"].state = "merged" /\ \A f \in paths : main[f] = branch["request"].head[f]
  BY <1>1 DEF Reverses, StillAsMerged, Paths
<1>5. ReverserHolds(job)
  BY <1>1, <1>3, <1>4 DEF ReverserHolds
<1>6. writer' = [writer EXCEPT !["reverser"] = job] /\ UNCHANGED <<main, intended, branch>>
  BY <1>1 DEF Reverses, Paths
<1>7. "reverser" \in Writers
  BY DEF Writers
<1> QED
  BY <1>5, <1>6, <1>7, WriterGoes

\* One writer goes on, and one branch with it.
LEMMA PullAndWriterGo ==
  ASSUME RepoInv, NEW b \in Branches, NEW pull, branch' = [branch EXCEPT ![b] = pull],
         UNCHANGED <<main, intended>>, branch[b].state # "merged", PullShape(pull),
         \/ b = "kit" /\ KitHolds(pull)
         \/ b = "request" /\ RequestHolds(pull)
         \/ b = "reversal" /\ ReversalHolds(pull),
         NEW w \in Writers, NEW job, writer' = [writer EXCEPT ![w] = job],
         IF w = "reverser" THEN ReverserHolds(job) ELSE JobHolds(w, job)
  PROVE  RepoInv'
<1>1. PICK jobs : jobs = writer'
  OBVIOUS
<1>2. DOMAIN jobs = Writers /\ jobs[w] = job /\ \A v \in Writers \ {w} : jobs[v] = writer[v]
  BY <1>1 DEF RepoInv, RepoShape
<1>3. ASSUME NEW v \in Writers
      PROVE jobs[v] = writer[v] \/ IF v = "reverser" THEN ReverserHolds(jobs[v]) ELSE JobHolds(v, jobs[v])
  BY <1>2
<1> QED
  BY <1>1, <1>2, <1>3, BranchGoes

\* The writer's branch changes, and the writer goes on to its pull request.
LEMMA PulledStep ==
  ASSUME RepoInv, NEW w \in Writers, Goes(w, "pull"), UNCHANGED <<main, intended>>,
         NEW b \in Branches, NEW pull, branch' = [branch EXCEPT ![b] = pull],
         branch[b].state # "merged", PullShape(pull),
         \/ b = "kit" /\ KitHolds(pull)
         \/ b = "request" /\ RequestHolds(pull)
         \/ b = "reversal" /\ ReversalHolds(pull)
  PROVE  RepoInv'
<1>1. PICK old, job : old = writer[w] /\ job = [old EXCEPT !.at = "pull"]
  OBVIOUS
<1>2. writer' = [writer EXCEPT ![w] = job]
  BY <1>1 DEF Goes
<1>3. IF w = "reverser" THEN ReverserHolds(job) ELSE JobHolds(w, job)
  <2>1. CASE w # "reverser"
    BY <1>1, <2>1, JobGoesOn
  <2>2. CASE w = "reverser"
    <3>1. DOMAIN old = JobFields
      BY <1>1, <2>2 DEF RepoInv, ReverserHolds
    <3>2. DOMAIN job = JobFields /\ job.at = "pull"
      BY <1>1, <3>1 DEF JobFields
    <3> QED
      BY <2>2, <3>2 DEF ReverserHolds
  <2> QED
    BY <2>1, <2>2
<1> QED
  BY <1>2, <1>3, PullAndWriterGo

\* The branch of a job holds what the job does.
LEMMA PushesStep == ASSUME RepoInv, NEW w \in Writers, PushesBranch(w) PROVE RepoInv'
<1>1. PICK b, job, old : b = BranchOf(w) /\ job = writer[w] /\ old = branch[b]
  OBVIOUS
<1>2. b \in Branches /\ UNCHANGED <<main, intended>> /\ job.at = "commit"
  BY <1>1, BranchesOfWriters DEF PushesBranch, At
<1>3. CASE old.state # "none"
  BY <1>1, <1>3, RestsStep DEF PushesBranch
<1>4. CASE old.state = "none"
  <2>1. PICK head, stale :
          /\ head = [f \in Files |-> IF f \in DOMAIN job.files THEN job.files[f] ELSE job.base[f]]
          /\ stale = [f \in Files |-> IF f \in DOMAIN job.files THEN Difference(job.base[f], job.read[f]) ELSE {}]
    OBVIOUS
  <2>2. PICK pull : pull = [old EXCEPT !.state = "pushed", !.base = job.base, !.head = head, !.stale = stale]
    OBVIOUS
  <2>3. branch' = [branch EXCEPT ![b] = pull] /\ Goes(w, "pull")
    BY <1>1, <1>4, <2>1, <2>2 DEF PushesBranch
  <2>4. DOMAIN old = PullFields
    BY <1>1, <1>2 DEF RepoInv, RepoShape
  <2>5. /\ DOMAIN pull = PullFields /\ pull.state = "pushed" /\ pull.base = job.base
        /\ pull.head = head /\ pull.stale = stale
    BY <2>2, <2>4 DEF PullFields
  <2>6. PullShape(pull)
    BY <2>1, <2>5 DEF PullShape
  <2>7. ASSUME w # "reverser", NEW f \in Files
        PROVE  /\ Carries(pull, f, Adds(b))
               /\ b = "kit" => Sound(head[f], f)
               /\ b = "request" => IsMeant(head[f], f) /\ (head[f] = job.base[f] \/ "request" \in head[f])
               /\ Sound(job.base[f], f)
    <3>1. JobHolds(w, job)
      BY <1>1, <2>7 DEF RepoInv
    <3>2. CASE f \in DOMAIN job.files
      <4>1. head[f] = job.files[f] /\ stale[f] = (job.base[f] \ job.read[f]) \cup (job.read[f] \ job.base[f])
        BY <2>1, <3>2 DEF Difference
      <4>2. /\ job.read[f] \subseteq head[f] /\ head[f] \subseteq job.read[f] \cup Adds(b)
            /\ w = "builder" => "request" \in head[f]
            /\ IsMeant(job.read[f], f) /\ Sound(job.read[f], f) /\ Sound(job.base[f], f)
        BY <1>1, <3>1, <3>2, <4>1 DEF JobHolds
      <4>3. Carries(pull, f, Adds(b))
        BY <2>5, <4>1, <4>2 DEF Carries
      <4>4. \/ Adds(b) = {"cove"} /\ b = "kit"
            \/ Adds(b) = {"request"} /\ b = "request" /\ w = "builder"
        BY <1>1, <2>7, BranchesOfWriters DEF Adds
      <4>5. b = "kit" => Sound(head[f], f)
        BY <4>2, <4>4 DEF Sound
      <4>6. b = "request" => IsMeant(head[f], f) /\ "request" \in head[f]
        BY <4>2, <4>4 DEF IsMeant
      <4> QED
        BY <4>2, <4>3, <4>5, <4>6
    <3>3. CASE f \notin DOMAIN job.files
      <4>1. head[f] = job.base[f] /\ stale[f] = {}
        BY <2>1, <3>3
      <4>2. IsMeant(job.base[f], f) /\ Sound(job.base[f], f)
        BY <3>1 DEF JobHolds
      <4> QED
        BY <2>5, <4>1, <4>2 DEF Carries
    <3> QED
      BY <3>2, <3>3
  <2>8. CASE w \in Preparers
    <3>1. b = "kit" /\ w # "reverser" /\ Adds(b) = {"cove"}
      BY <1>1, <2>8, BranchesOfWriters DEF Adds
    <3>2. KitHolds(pull)
      BY <2>5, <2>7, <3>1 DEF KitHolds
    <3> QED
      BY <1>1, <1>2, <1>4, <2>3, <2>6, <3>1, <3>2, PulledStep
  <2>9. CASE w = "builder"
    <3>1. b = "request" /\ w # "reverser" /\ Adds(b) = {"request"}
      BY <1>1, <2>9, BranchesOfWriters DEF Adds
    <3>2. \A f \in Files : ~Published(f)
      BY <1>1, <1>4, <3>1 DEF Published
    <3>3. \A f \in Files : "request" \notin pull.base[f]
      BY <2>5, <2>7, <3>1, <3>2 DEF Sound
    <3>4. RequestHolds(pull)
      BY <2>5, <2>7, <3>1, <3>3 DEF RequestHolds
    <3> QED
      BY <1>1, <1>2, <1>4, <2>3, <2>6, <3>1, <3>4, PulledStep
  <2>10. CASE w = "reverser"
    <3>1. b = "reversal" /\ ReverserHolds(job)
      BY <1>1, <2>10, BranchesOfWriters DEF RepoInv
    <3>2. ReversalHolds(pull)
      BY <1>2, <2>1, <2>5, <3>1 DEF ReverserHolds, ReversalHolds
    <3> QED
      BY <1>1, <1>2, <1>4, <2>3, <2>6, <3>1, <3>2, PulledStep
  <2> QED
    BY <2>8, <2>9, <2>10, BranchesOfWriters
<1> QED
  BY <1>3, <1>4

\* A pull request that is opened remembers the default branch.
LEMMA OpensStep == ASSUME RepoInv, NEW w \in Writers, OpensPull(w) PROVE RepoInv'
<1>1. PICK b, old : b = BranchOf(w) /\ old = branch[b]
  OBVIOUS
<1>2. b \in Branches /\ Rests(w) /\ UNCHANGED <<main, intended>> /\ DOMAIN branch = Branches
  BY <1>1, BranchesOfWriters DEF OpensPull, RepoInv, RepoShape
<1>3. CASE old.state # "pushed"
  <2>2. branch' = branch
    BY <1>1, <1>3 DEF OpensPull
  <2> QED
    BY <1>2, <2>2, RestsStep
<1>4. CASE old.state = "pushed"
  <2>1. PICK tip : tip = IF w = "builder" THEN main ELSE NoContents
    OBVIOUS
  <2>2. PICK pull : pull = [old EXCEPT !.state = "open", !.tip = tip]
    OBVIOUS
  <2>3. branch' = [branch EXCEPT ![b] = pull]
    BY <1>1, <1>4, <2>1, <2>2 DEF OpensPull
  <2>4. DOMAIN old = PullFields /\ DOMAIN old.head = Files /\ DOMAIN old.stale = Files
    BY <1>1, <1>2 DEF RepoInv, RepoShape
  <2>5. /\ DOMAIN pull = PullFields /\ pull.state = "open" /\ pull.tip = tip
        /\ pull.base = old.base /\ pull.head = old.head /\ pull.stale = old.stale
    BY <2>2, <2>4 DEF PullFields
  <2>6. PullShape(pull)
    BY <2>4, <2>5 DEF PullShape
  <2>7. \/ b = "kit" /\ KitHolds(pull)
        \/ b = "request" /\ RequestHolds(pull)
        \/ b = "reversal" /\ ReversalHolds(pull)
    <3>1. CASE w \in Preparers
      <4>1. b = "kit" /\ KitHolds(old)
        BY <1>1, <3>1, BranchesOfWriters DEF RepoInv
      <4> QED
        BY <1>4, <2>5, <4>1 DEF KitHolds, Carries
    <3>2. CASE w = "builder"
      <4>1. b = "request" /\ RequestHolds(old) /\ tip = main
        BY <1>1, <2>1, <3>2, BranchesOfWriters DEF RepoInv
      <4>2. ASSUME NEW f \in Files
            PROVE  /\ "request" \notin main[f] /\ IsMeant(main[f], f)
                   /\ old.head[f] \subseteq main[f] \cup Undone(f) \cup {"request"}
        <5>1. ~Published(f)
          BY <1>1, <1>4, <4>1 DEF Published
        <5>2. IsMeant(main[f], f) /\ Sound(main[f], f) /\ intended[f] \subseteq main[f] \cup Undone(f)
          BY MainIsKnown DEF RepoInv
        <5>3. IsMeant(old.head[f], f)
          BY <1>4, <4>1 DEF RequestHolds
        <5> QED
          BY <5>1, <5>2, <5>3 DEF IsMeant, Sound
      <4>3. RequestHolds(pull)
        BY <1>4, <2>5, <4>1, <4>2 DEF RequestHolds, Carries
      <4> QED
        BY <4>1, <4>3
    <3>3. CASE w = "reverser"
      <4>1. b = "reversal" /\ ReversalHolds(old)
        BY <1>1, <3>3, BranchesOfWriters DEF RepoInv
      <4> QED
        BY <1>4, <2>5, <4>1 DEF ReversalHolds
    <3> QED
      BY <3>1, <3>2, <3>3, BranchesOfWriters
  <2>8. PICK job : job = Asleep
    OBVIOUS
  <2>9. writer' = [writer EXCEPT ![w] = job] /\ (IF w = "reverser" THEN ReverserHolds(job) ELSE JobHolds(w, job))
    BY <1>2, <2>8, WriterRests DEF Rests
  <2> QED
    BY <1>1, <1>2, <1>4, <2>3, <2>6, <2>7, <2>9, PullAndWriterGo
<1> QED
  BY <1>3, <1>4

\* A branch changes and no writer does.
LEMMA PullGoes ==
  ASSUME RepoInv, NEW b \in Branches, NEW pull, branch' = [branch EXCEPT ![b] = pull],
         UNCHANGED <<main, intended, writer>>, branch[b].state # "merged", PullShape(pull),
         \/ b = "kit" /\ KitHolds(pull)
         \/ b = "request" /\ RequestHolds(pull)
         \/ b = "reversal" /\ ReversalHolds(pull)
  PROVE  RepoInv'
<1>1. PICK jobs : jobs = writer'
  OBVIOUS
<1>2. DOMAIN jobs = Writers /\ \A v \in Writers : jobs[v] = writer[v]
  BY <1>1 DEF RepoInv, RepoShape
<1> QED
  BY <1>1, <1>2, BranchGoes

\* A branch that is removed, or closed, holds nothing.
LEMMA RemovesStep ==
  ASSUME RepoInv, NEW b \in Branches, NEW state \in {"none", "closed"},
         branch' = [branch EXCEPT ![b] = [NoBranch EXCEPT !.state = state]],
         branch[b].state # "merged", UNCHANGED <<main, intended, writer>>
  PROVE  RepoInv'
<1>1. PICK pull : pull = [NoBranch EXCEPT !.state = state]
  OBVIOUS
<1>2. PullShape(pull) /\ pull.state = state
  BY <1>1 DEF PullShape, NoBranch, NoContents, PullFields
<1>3. KitHolds(pull) /\ RequestHolds(pull) /\ ReversalHolds(pull)
  BY <1>2 DEF KitHolds, RequestHolds, ReversalHolds
<1> QED
  BY <1>1, <1>2, <1>3, PullGoes DEF Branches

\* A repair reads its file from the default branch as it is now.
LEMMA RepairsStep == ASSUME RepoInv, NEW f \in Files, Repairs(f) PROVE RepoInv'
<1>1. PICK old : old = branch["request"]
  OBVIOUS
<1>2. PICK head, stale :
        /\ head = [old.head EXCEPT ![f] = main[f] \cup {"request"}]
        /\ stale = [old.stale EXCEPT ![f] = @ \cup Difference(old.base[f], main[f])]
  OBVIOUS
<1>3. PICK pull : pull = [branch["request"] EXCEPT
                             !.head[f] = main[f] \cup {"request"}, !.tip = main,
                             !.stale[f] = @ \cup Difference(branch["request"].base[f], main[f])]
  OBVIOUS
<1>4. /\ DOMAIN old = PullFields /\ DOMAIN old.head = Files /\ DOMAIN old.stale = Files
      /\ RequestHolds(old) /\ old.state = "open"
  BY <1>1 DEF RepoInv, RepoShape, Branches, Repairs
<1>5. /\ DOMAIN pull = PullFields /\ pull.state = "open" /\ pull.tip = main
      /\ pull.base = old.base /\ pull.head = head /\ pull.stale = stale
  BY <1>1, <1>2, <1>3, <1>4 DEF PullFields
<1>6. PullShape(pull)
  BY <1>2, <1>4, <1>5 DEF PullShape
<1>7. ASSUME NEW g \in Files
      PROVE  /\ Carries(pull, g, {"request"}) /\ IsMeant(head[g], g) /\ "request" \notin pull.base[g]
             /\ head[g] = pull.base[g] \/ "request" \in head[g]
             /\ "request" \notin main[g] /\ IsMeant(main[g], g)
             /\ head[g] \subseteq main[g] \cup Undone(g) \cup {"request"}
  <2>1. ~Published(g)
    BY <1>1, <1>4 DEF Published
  <2>2. IsMeant(main[g], g) /\ Sound(main[g], g) /\ intended[g] \subseteq main[g] \cup Undone(g)
    BY MainIsKnown DEF RepoInv
  <2>3. /\ Carries(old, g, {"request"}) /\ IsMeant(old.head[g], g) /\ "request" \notin old.base[g]
        /\ old.head[g] = old.base[g] \/ "request" \in old.head[g]
    BY <1>4 DEF RequestHolds
  <2>4. CASE g = f
    <3>1. /\ head[g] = main[g] \cup {"request"}
          /\ stale[g] = old.stale[g] \cup (old.base[g] \ main[g]) \cup (main[g] \ old.base[g])
      BY <1>2, <1>4, <2>4 DEF Difference
    <3> QED
      BY <1>5, <2>1, <2>2, <2>3, <3>1 DEF Carries, IsMeant, Sound
  <2>5. CASE g # f
    <3>1. head[g] = old.head[g] /\ stale[g] = old.stale[g]
      BY <1>2, <1>4, <2>5
    <3> QED
      BY <1>5, <2>1, <2>2, <2>3, <3>1 DEF Carries, IsMeant, Sound
  <2> QED
    BY <2>4, <2>5
<1>8. RequestHolds(pull)
  BY <1>5, <1>7 DEF RequestHolds
<1>9. branch' = [branch EXCEPT !["request"] = pull] /\ UNCHANGED <<main, intended, writer>>
  BY <1>1, <1>3 DEF Repairs
<1> QED
  BY <1>1, <1>4, <1>6, <1>8, <1>9, PullGoes DEF Branches

\* What a merge makes of a file: nothing is gone or there again but what was stale, what
\* the branch is for, and what a reversal takes away.
LEMMA KitMerges ==
  ASSUME RepoInv, NEW f \in Files, branch["kit"].state = "open", NEW x
  PROVE  LET pull == branch["kit"]
             now == (main[f] \cap pull.head[f]) \cup (main[f] \ pull.base[f]) \cup (pull.head[f] \ pull.base[f])
             meant == (intended[f] \cup ((pull.head[f] \ pull.base[f]) \cap {"cove"})) \ {} IN
         /\ (x \in now /\ x \notin meant) \/ (x \in meant /\ x \notin now) => x \in Undone(f) \cup pull.stale[f]
         /\ x = "request" /\ x \in now => Published(f)
<1>1. PICK pull : pull = branch["kit"]
  OBVIOUS
<1>2. Carries(pull, f, {"cove"}) /\ Sound(pull.head[f], f)
  BY <1>1 DEF RepoInv, KitHolds
<1>3. /\ Sound(main[f], f)
      /\ intended[f] \subseteq main[f] \cup Undone(f) /\ main[f] \subseteq intended[f] \cup Undone(f)
  BY MainIsKnown DEF RepoInv
<1> QED
  BY <1>1, <1>2, <1>3 DEF Carries, Sound

LEMMA RequestMerges ==
  ASSUME RepoInv, NEW f \in Files, branch["request"].state = "open", NEW x
  PROVE  LET pull == branch["request"]
             now == (main[f] \cap pull.head[f]) \cup (main[f] \ pull.base[f]) \cup (pull.head[f] \ pull.base[f])
             meant == (intended[f] \cup ((pull.head[f] \ pull.base[f]) \cap {"request"})) \ {} IN
         /\ (x \in now /\ x \notin meant) \/ (x \in meant /\ x \notin now) => x \in Undone(f) \cup pull.stale[f]
         /\ x = "request" /\ x \in now => f \in Paths
<1>1. PICK pull : pull = branch["request"]
  OBVIOUS
<1>2. Carries(pull, f, {"request"}) /\ "request" \notin pull.base[f]
  BY <1>1 DEF RepoInv, RequestHolds
<1>3. /\ Sound(main[f], f)
      /\ intended[f] \subseteq main[f] \cup Undone(f) /\ main[f] \subseteq intended[f] \cup Undone(f)
  BY MainIsKnown DEF RepoInv
<1>4. "request" \notin main[f]
  BY <1>3 DEF Sound, Published
<1>5. "request" \in pull.head[f] => f \in Paths
  BY <1>1, <1>2 DEF Paths
<1> QED
  BY <1>1, <1>2, <1>3, <1>4, <1>5 DEF Carries

LEMMA ReversalMerges ==
  ASSUME RepoInv, NEW f \in Files, branch["reversal"].state = "open", NEW x
  PROVE  LET pull == branch["reversal"]
             now == (main[f] \cap pull.head[f]) \cup (main[f] \ pull.base[f]) \cup (pull.head[f] \ pull.base[f])
             meant == (intended[f] \cup ((pull.head[f] \ pull.base[f]) \cap {})) \ {"request"} IN
         /\ (x \in now /\ x \notin meant) \/ (x \in meant /\ x \notin now) => x \in Undone(f) \cup pull.stale[f]
         /\ x = "request" => x \notin now
<1>1. PICK pull, request : pull = branch["reversal"] /\ request = branch["request"]
  OBVIOUS
<1>2. /\ request.state = "merged"
      /\ IF f \in Paths THEN pull.base[f] = request.head[f] /\ pull.head[f] = request.tip[f]
                        ELSE pull.head[f] = pull.base[f]
  BY <1>1 DEF RepoInv, ReversalHolds
<1>3. /\ request.head[f] = request.base[f] \/ "request" \in request.head[f]
      /\ "request" \notin request.tip[f] /\ IsMeant(request.tip[f], f)
      /\ request.head[f] \subseteq request.tip[f] \cup Undone(f) \cup {"request"}
  BY <1>1, <1>2 DEF RepoInv, RequestHolds
<1>4. /\ Sound(main[f], f)
      /\ intended[f] \subseteq main[f] \cup Undone(f) /\ main[f] \subseteq intended[f] \cup Undone(f)
  BY MainIsKnown DEF RepoInv
<1>5. CASE f \in Paths
  <2>1. "request" \in pull.base[f] /\ "request" \notin pull.head[f]
    BY <1>1, <1>2, <1>3, <1>5 DEF Paths
  <2>2. pull.head[f] \subseteq intended[f] \cup Undone(f)
    BY <1>2, <1>3, <1>5, <2>1 DEF IsMeant
  <2>3. pull.base[f] \subseteq pull.head[f] \cup Undone(f) \cup {"request"}
    BY <1>2, <1>3, <1>5
  <2> QED
    BY <1>1, <1>4, <2>1, <2>2, <2>3
<1>6. CASE f \notin Paths
  <2>1. "request" \notin main[f]
    BY <1>4, <1>6 DEF Sound, Published
  <2> QED
    BY <1>1, <1>2, <1>4, <1>6, <2>1
<1> QED
  BY <1>5, <1>6

LEMMA MergesStep == ASSUME RepoInv, NEW b \in Branches, Merges(b) PROVE RepoInv'
<1>1. PICK old, pull :
        /\ old = branch[b]
        /\ pull = IF b = "request" THEN [old EXCEPT !.state = "merged"]
                  ELSE [NoBranch EXCEPT !.state = "merged", !.stale = old.stale]
  OBVIOUS
<1>2. branch' = [branch EXCEPT ![b] = pull] /\ writer' = writer /\ old.state = "open"
  BY <1>1 DEF Merges
<1>3. DOMAIN old = PullFields /\ DOMAIN old.head = Files /\ DOMAIN old.stale = Files /\ DOMAIN branch = Branches
  BY <1>1 DEF RepoInv, RepoShape
<1>4. /\ PullShape(pull) /\ pull.state = "merged" /\ pull.stale = old.stale
      /\ b = "request" => pull.base = old.base /\ pull.head = old.head /\ pull.tip = old.tip
  <2>1. CASE b = "request"
    <3>1. pull = [old EXCEPT !.state = "merged"]
      BY <1>1, <2>1
    <3> QED
      BY <1>3, <3>1 DEF PullShape, PullFields
  <2>2. CASE b # "request"
    <3>1. pull = [NoBranch EXCEPT !.state = "merged", !.stale = old.stale]
      BY <1>1, <2>2
    <3> QED
      BY <1>3, <2>2, <3>1 DEF PullShape, PullFields, NoBranch, NoContents
  <2> QED
    BY <2>1, <2>2
<1>5. branch'[b] = pull /\ \A c \in Branches \ {b} : branch'[c] = branch[c]
  BY <1>2, <1>3
<1>6. /\ DOMAIN main' = Files /\ DOMAIN intended' = Files
      /\ \A f \in Files :
           /\ main'[f] = (main[f] \cap old.head[f]) \cup (main[f] \ old.base[f]) \cup (old.head[f] \ old.base[f])
           /\ intended'[f] = (intended[f] \cup ((old.head[f] \ old.base[f]) \cap Adds(b))) \ TakesAway(b)
  BY <1>1 DEF Merges, Squashed
<1>7. PastGoesOn
  <2>1. \A c \in Branches : branch[c].state = "merged" => branch'[c] = branch[c]
    BY <1>1, <1>2, <1>5
  <2>2. \A f \in Files : intended[f] \subseteq intended'[f] \cup {"request"}
    BY <1>6 DEF TakesAway
  <2> QED
    BY <2>1, <2>2 DEF PastGoesOn
<1>8. ASSUME NEW f \in Files PROVE Undone(f) \cup old.stale[f] \subseteq Undone(f)'
  <2>1. old.stale[f] \subseteq Undone(f)'
    <3>1. branch'[b].state = "merged" /\ branch'[b].stale[f] = old.stale[f]
      BY <1>4, <1>5
    <3> QED
      BY <3>1 DEF Undone
  <2> QED
    BY <1>7, <2>1, PastIsKnown
<1>9. ASSUME NEW f \in Files, NEW x
      PROVE  /\ ((x \in main'[f] /\ x \notin intended'[f]) \/ (x \in intended'[f] /\ x \notin main'[f]))
                  => x \in Undone(f) \cup old.stale[f]
             /\ x = "request" /\ x \in main'[f] => Published(f)'
  <2>1. /\ main'[f] = (main[f] \cap old.head[f]) \cup (main[f] \ old.base[f]) \cup (old.head[f] \ old.base[f])
        /\ intended'[f] = (intended[f] \cup ((old.head[f] \ old.base[f]) \cap Adds(b))) \ TakesAway(b)
    BY <1>6
  <2>2. CASE b = "kit"
    <3>1. Adds(b) = {"cove"} /\ TakesAway(b) = {}
      BY <2>2 DEF Adds, TakesAway
    <3>2. Published(f) => Published(f)'
      BY <1>7, PastIsKnown
    <3> QED
      BY <1>1, <1>2, <2>1, <2>2, <3>1, <3>2, KitMerges
  <2>3. CASE b = "request"
    <3>1. Adds(b) = {"request"} /\ TakesAway(b) = {}
      BY <2>3 DEF Adds, TakesAway
    <3>2. f \in Paths => Published(f)'
      <4>1. branch'["request"].state = "merged" /\ branch'["request"].head = old.head /\ branch'["request"].base = old.base
        BY <1>4, <1>5, <2>3
      <4> QED
        BY <1>1, <2>3, <4>1 DEF Published, Paths
    <3> QED
      BY <1>1, <1>2, <2>1, <2>3, <3>1, <3>2, RequestMerges
  <2>4. CASE b = "reversal"
    <3>1. Adds(b) = {} /\ TakesAway(b) = {"request"}
      BY <2>4 DEF Adds, TakesAway
    <3> QED
      BY <1>1, <1>2, <2>1, <2>4, <3>1, ReversalMerges
  <2> QED
    BY <2>2, <2>3, <2>4 DEF Branches
<1>10. MainHolds'
  <2> SUFFICES ASSUME NEW f \in Files
      PROVE Difference(intended'[f], main'[f]) \subseteq Undone(f)' /\ ("request" \in main'[f] => Published(f)')
    BY DEF MainHolds, Sound, Difference
  <2>1. Difference(intended'[f], main'[f]) \subseteq Undone(f) \cup old.stale[f]
    BY <1>9 DEF Difference
  <2> QED
    BY <1>8, <1>9, <2>1
<1>11. RepoShape'
  BY <1>4, <1>5, <1>6, <1>2 DEF RepoInv, RepoShape, PullShape
<1>12. PICK jobs, pulls : jobs = writer' /\ pulls = branch'
  OBVIOUS
<1>13. (\A w \in Writers \ {"reverser"} : JobHolds(w, jobs[w])) /\ ReverserHolds(jobs["reverser"])
  BY <1>2, <1>12 DEF RepoInv
<1>14. pulls[b] = pull /\ \A c \in Branches \ {b} : pulls[c] = branch[c]
  BY <1>5, <1>12
<1>15. KitHolds(pulls["kit"])
  <2>1. CASE b = "kit"
    BY <1>4, <1>14, <2>1 DEF KitHolds
  <2>2. CASE b # "kit"
    BY <1>14, <2>2 DEF RepoInv, Branches
  <2> QED
    BY <2>1, <2>2
<1>16. RequestHolds(pulls["request"])
  <2>1. CASE b = "request"
    <3>1. RequestHolds(old)
      BY <1>1, <2>1 DEF RepoInv
    <3>2. RequestHolds(pull)
      BY <1>2, <1>4, <2>1, <3>1 DEF RequestHolds
    <3> QED
      BY <1>14, <2>1, <3>2
  <2>2. CASE b # "request"
    BY <1>14, <2>2 DEF RepoInv, Branches
  <2> QED
    BY <2>1, <2>2
<1>17. ReversalHolds(pulls["reversal"])
  <2>1. CASE b = "reversal"
    BY <1>4, <1>14, <2>1 DEF ReversalHolds
  <2>2. CASE b # "reversal"
    BY <1>14, <2>2 DEF RepoInv, Branches
  <2> QED
    BY <2>1, <2>2
<1> QED
  BY <1>7, <1>10, <1>11, <1>12, <1>13, <1>15, <1>16, <1>17, RepoKept

\* What a developer pushes is meant, and is there.
LEMMA PushStep == ASSUME RepoInv, unpushed \subseteq Edits, NEW f \in Files, Push(f) PROVE RepoInv'
<1>1. PICK e \in Edits, cove \in SUBSET {"cove"} :
        /\ main' = [main EXCEPT ![f] = @ \cup {e} \cup cove]
        /\ intended' = [intended EXCEPT ![f] = @ \cup {e} \cup cove]
        /\ UNCHANGED <<branch, writer>>
  BY DEF Push
<1>2. "request" \notin {e} \cup cove
  BY <1>1, RepositoryAssumption
<1>3. /\ DOMAIN main' = Files /\ DOMAIN intended' = Files
      /\ main'[f] = main[f] \cup {e} \cup cove /\ intended'[f] = intended[f] \cup {e} \cup cove
      /\ \A g \in Files \ {f} : main'[g] = main[g] /\ intended'[g] = intended[g]
  BY <1>1 DEF RepoInv, RepoShape
<1>4. PastGoesOn
  BY <1>1, <1>3 DEF PastGoesOn
<1>5. MainHolds'
  <2> SUFFICES ASSUME NEW g \in Files
      PROVE Difference(intended'[g], main'[g]) \subseteq Undone(g)' /\ ("request" \in main'[g] => Published(g)')
    BY DEF MainHolds, Sound, Difference
  <2>1. Undone(g) \subseteq Undone(g)' /\ (Published(g) => Published(g)')
    BY <1>4, PastIsKnown
  <2>2. /\ intended[g] \subseteq main[g] \cup Undone(g) /\ main[g] \subseteq intended[g] \cup Undone(g)
        /\ "request" \in main[g] => Published(g)
    BY MainIsKnown DEF RepoInv, Sound
  <2>3. CASE g = f
    BY <1>2, <1>3, <2>1, <2>2, <2>3 DEF Difference
  <2>4. CASE g # f
    BY <1>3, <2>1, <2>2, <2>4 DEF Difference
  <2> QED
    BY <2>3, <2>4
<1>6. RepoShape'
  BY <1>1, <1>3 DEF RepoInv, RepoShape
<1>7. PICK jobs, pulls : jobs = writer' /\ pulls = branch'
  OBVIOUS
<1>8. jobs = writer /\ pulls = branch
  BY <1>1, <1>7
<1> QED
  BY <1>4, <1>5, <1>6, <1>7, <1>8, RepoKept DEF RepoInv

LEMMA RepositoryStep ==
  RepoInv /\ unpushed \subseteq Edits /\ [RepositoryNext]_repoVars => RepoInv' /\ (unpushed \subseteq Edits)'
<1> SUFFICES ASSUME RepoInv, unpushed \subseteq Edits, [RepositoryNext]_repoVars
    PROVE RepoInv' /\ unpushed' \subseteq Edits
  OBVIOUS
<1>1. CASE UNCHANGED repoVars
  <2>1. UNCHANGED <<main, intended, branch, writer, unpushed>>
    BY <1>1 DEF repoVars
  <2>2. PICK jobs, pulls : jobs = writer' /\ pulls = branch'
    OBVIOUS
  <2>3. PastGoesOn
    BY <2>1 DEF PastGoesOn
  <2>4. MainHolds' /\ RepoShape'
    BY <2>1, <2>3, MainRests DEF RepoInv, RepoShape
  <2>5. RepoInv'
    BY <2>1, <2>2, <2>3, <2>4, RepoKept DEF RepoInv
  <2> QED
    BY <2>1, <2>5
<1>2. ASSUME NEW w \in Preparers, Inspects(w) PROVE RepoInv' /\ unpushed' = unpushed
  BY <1>2, InspectsStep DEF Inspects
<1>3. ASSUME NEW f \in Files, AgentStages(f) PROVE RepoInv' /\ unpushed' = unpushed
  BY <1>3, StagesStep DEF AgentStages
<1>4. ASSUME NEW f \in Files, Repairs(f) PROVE RepoInv' /\ unpushed' = unpushed
  BY <1>4, RepairsStep DEF Repairs
<1>5. ASSUME NEW f \in Files, Push(f) PROVE RepoInv' /\ unpushed' \subseteq Edits
  BY <1>5, PushStep DEF Push
<1>6. ASSUME NEW w \in Writers, LooksForBranch(w) PROVE RepoInv' /\ unpushed' = unpushed
  BY <1>6, LooksStep DEF LooksForBranch
<1>7. ASSUME NEW w \in Writers, ReadsBase(w) PROVE RepoInv' /\ unpushed' = unpushed
  BY <1>7, ReadsBaseStep DEF ReadsBase
<1>8. ASSUME NEW w \in Writers, PushesBranch(w) PROVE RepoInv' /\ unpushed' = unpushed
  BY <1>8, PushesStep DEF PushesBranch
<1>9. ASSUME NEW w \in Writers, OpensPull(w) PROVE RepoInv' /\ unpushed' = unpushed
  BY <1>9, OpensStep DEF OpensPull
<1>10. ASSUME NEW w \in Writers, Refused(w) PROVE RepoInv' /\ unpushed' = unpushed
  BY <1>10, RestsStep DEF Refused
<1>11. ASSUME NEW b \in Branches, Merges(b) PROVE RepoInv' /\ unpushed' = unpushed
  BY <1>11, MergesStep DEF Merges
<1>12. ASSUME NEW b \in Branches, RemovesBranch(b) PROVE RepoInv' /\ unpushed' = unpushed
  <2>1. branch' = [branch EXCEPT ![b] = NoBranch] /\ branch[b].state = "pushed"
        /\ UNCHANGED <<main, intended, writer, unpushed>>
    BY <1>12 DEF RemovesBranch
  <2>2. NoBranch = [NoBranch EXCEPT !.state = "none"]
    BY DEF NoBranch
  <2> QED
    BY <2>1, <2>2, RemovesStep
<1>13. CASE Closes
  BY <1>13, RemovesStep DEF Closes, Branches
<1>14. CASE Reverses
  BY <1>14, ReversesStep DEF Reverses
<1> QED
  BY <1>1, <1>2, <1>3, <1>4, <1>5, <1>6, <1>7, <1>8, <1>9, <1>10, <1>11, <1>12, <1>13, <1>14 DEF RepositoryNext

\* Whatever Cove prepares, repairs, merges and reverses and developers push meanwhile, the
\* default branch holds what everybody meant it to hold, but for what changed in a file
\* between its reading by Cove and the base of Cove's commit.
THEOREM NothingElseIsUndone == RepositorySpec => []OnlyStaleReadsUndo
<1>1. RepositoryInit => RepoInv /\ unpushed \subseteq Edits
  <2> SUFFICES ASSUME RepositoryInit PROVE RepoInv /\ unpushed \subseteq Edits
    OBVIOUS
  <2> USE DEF RepositoryInit
  <2>1. RepoShape
    BY DEF RepoShape, Files, NoBranch, NoContents, PullFields
  <2>2. MainHolds
    BY DEF MainHolds, Difference, Sound, Files
  <2>3. \A w \in Writers : IF w = "reverser" THEN ReverserHolds(Asleep) ELSE JobHolds(w, Asleep)
    BY DEF Asleep, ReverserHolds, JobHolds, JobFields, NoFiles, NoContents, IsMeant, Sound
  <2>4. \A w \in Writers : writer[w] = Asleep
    OBVIOUS
  <2>5. KitHolds(NoBranch) /\ RequestHolds(NoBranch) /\ ReversalHolds(NoBranch)
    BY DEF KitHolds, RequestHolds, ReversalHolds, NoBranch
  <2>6. "reverser" \in Writers
    BY DEF Writers
  <2>7. branch["kit"] = NoBranch /\ branch["request"] = NoBranch /\ branch["reversal"] = NoBranch
    BY DEF Branches
  <2> QED
    BY <2>1, <2>2, <2>3, <2>4, <2>5, <2>6, <2>7 DEF RepoInv
<1>2. RepoInv => OnlyStaleReadsUndo
  BY DEF RepoInv, MainHolds, OnlyStaleReadsUndo, Undone
<1> QED
  BY <1>1, <1>2, RepositoryStep, PTL DEF RepositorySpec

(* The access policy and the audit trail as they are read *)

\* The rows there can be: of somebody who was invited or was there at first, and of an
\* application that was registered or was there at first.
IsRow(r) ==
  \E u \in Newcomers \cup {FirstUser}, a \in NewApps \cup {FirstApp} :
    r \in {Person(u), Bound(u), Officer(u, FirstUser), Grant(u, a, FirstUser)} \cup AppRows(a)

\* The references of one row lead somewhere among the rows.
Leads(rows, r) ==
  \A ref \in r.refs :
    /\ Known(rows, ref)
    /\ ref[1] = "roles" => \E role \in Of(rows, "roles") : role.key = ref[2] /\ role.app = r.app

\* The tables that rows point to.
Targets == {"references", "applications", "roles"}

\* The tables keep their references.  What was read is still in them, and unless somebody or
\* something joined, a table that rows point to was read as it is.
ReaderInv ==
  /\ Founded \subseteq policy /\ Checked(policy) /\ \A r \in policy : IsRow(r)
  /\ DOMAIN reader = {"next", "seen", "joined", "result"}
  /\ reader.next \in 0..6 /\ reader.seen \subseteq policy
  /\ reader.next # 0 /\ ~reader.joined =>
       \A i \in 1..reader.next : Catalogue[i] \in Targets => Of(reader.seen, Catalogue[i]) = Of(policy, Catalogue[i])
  /\ reader.result # "none" => reader.next = 0
  /\ reader.result = "unavailable" => reader.joined

\* Every event in the trail can be shown but for its texts.
Clean(e) == e.text = "fit" => Showable(e)
CleanEvents == {e \in {Legacy, CodeEvent} \cup Attempts : Clean(e)}
TrailInv == trail \in Seq(CleanEvents)

LEMMA RowsPointToTargets ==
  ASSUME NEW r, IsRow(r)
  PROVE  \A ref \in r.refs : ref[1] \in Targets
<1>1. PICK u \in Newcomers \cup {FirstUser}, a \in NewApps \cup {FirstApp} :
        r \in {Person(u), Bound(u), Officer(u, FirstUser), Grant(u, a, FirstUser)} \cup AppRows(a)
  BY DEF IsRow
<1>2. CASE r = Person(u)
  BY <1>2 DEF Person, Record
<1>3. CASE r = Bound(u)
  BY <1>3 DEF Bound, Record, Targets
<1>4. CASE r = Officer(u, FirstUser)
  BY <1>4 DEF Officer, Record, Targets
<1>5. CASE r = Grant(u, a, FirstUser)
  <2>1. r.refs = {<<"references", u>>, <<"references", FirstUser>>, <<"applications", a>>, <<"roles", a>>}
    BY <1>5 DEF Grant, Record
  <2> QED
    BY <2>1 DEF Targets
<1>6. CASE r \in AppRows(a)
  BY <1>6 DEF AppRows, Record, Targets
<1> QED
  BY <1>1, <1>2, <1>3, <1>4, <1>5, <1>6

\* More rows lead wherever fewer did.
LEMMA LeadsFurther ==
  ASSUME NEW rows, NEW more, rows \subseteq more, NEW r, Leads(rows, r)
  PROVE  Leads(more, r)
BY DEF Leads, Known, Of

\* A statement whose own rows lead somewhere leaves the references whole; unless somebody or
\* something joins by it, it adds nothing that rows point to.
LEMMA WroteStep ==
  ASSUME ReaderInv, NEW rows, Wrote(rows),
         \A r \in rows : IsRow(r) /\ Leads(policy \cup rows, r),
         Joins(rows) \/ \A r \in rows : r.table \notin Targets
  PROVE  ReaderInv'
<1>1. policy' = policy \cup rows /\ reader' = [reader EXCEPT !.joined = @ \/ Joins(rows)]
  BY DEF Wrote
<1>2. \A r \in policy : Leads(policy, r)
  BY DEF ReaderInv, Checked, Leads
<1>3. \A r \in policy \cup rows : Leads(policy \cup rows, r)
  BY <1>2, LeadsFurther
<1>4. Checked(policy')
  BY <1>1, <1>3 DEF Checked, Leads
<1>5. /\ DOMAIN reader' = {"next", "seen", "joined", "result"} /\ reader'.joined = (reader.joined \/ Joins(rows))
      /\ reader'.next = reader.next /\ reader'.seen = reader.seen /\ reader'.result = reader.result
  BY <1>1 DEF ReaderInv
<1>6. ASSUME ~Joins(rows), NEW table \in Targets PROVE Of(policy', table) = Of(policy, table)
  BY <1>1, <1>6 DEF Of
<1>7. reader'.next # 0 /\ ~reader'.joined =>
        \A i \in 1..reader'.next : Catalogue[i] \in Targets => Of(reader'.seen, Catalogue[i]) = Of(policy', Catalogue[i])
  BY <1>5, <1>6 DEF ReaderInv
<1>8. Founded \subseteq policy' /\ \A r \in policy' : IsRow(r)
  BY <1>1 DEF ReaderInv
<1>9. /\ reader'.next \in 0..6 /\ reader'.seen \subseteq policy'
      /\ reader'.result # "none" => reader'.next = 0
      /\ reader'.result = "unavailable" => reader'.joined
  BY <1>1, <1>5 DEF ReaderInv
<1>10. Checked(policy)'
  BY <1>4 DEF Checked, Known, Of
<1> QED
  BY <1>5, <1>7, <1>8, <1>9, <1>10 DEF ReaderInv, Founded

\* Who is in the tables, and which application, is referred to.
LEMMA FoundedLeads ==
  ASSUME ReaderInv, NEW more
  PROVE  /\ Known(policy \cup more, <<"references", FirstUser>>)
         /\ Known(policy \cup more, <<"applications", FirstApp>>)
         /\ \E role \in Of(policy \cup more, "roles") : role.key = FirstApp /\ role.app = FirstApp
<1>1. /\ Person(FirstUser) \in policy /\ Record("applications", FirstApp, FirstApp, {}) \in policy
      /\ Record("roles", FirstApp, FirstApp, {<<"applications", FirstApp>>}) \in policy
  BY DEF ReaderInv, Founded, AppRows
<1>2. PICK person, app, role :
        /\ person = Person(FirstUser) /\ app = Record("applications", FirstApp, FirstApp, {})
        /\ role = Record("roles", FirstApp, FirstApp, {<<"applications", FirstApp>>})
  OBVIOUS
<1>3. /\ person.table = "references" /\ person.key = FirstUser /\ app.table = "applications" /\ app.key = FirstApp
      /\ role.table = "roles" /\ role.key = FirstApp /\ role.app = FirstApp
  BY <1>2 DEF Person, Record
<1> QED
  BY <1>1, <1>2, <1>3 DEF Known, Of

LEMMA GrantLeads ==
  ASSUME NEW rows, NEW u, NEW a, Known(rows, <<"references", u>>), Known(rows, <<"references", FirstUser>>),
         Known(rows, <<"applications", a>>), \E role \in Of(rows, "roles") : role.key = a /\ role.app = a
  PROVE  Leads(rows, Grant(u, a, FirstUser))
<1>1. PICK g : g = Grant(u, a, FirstUser)
  OBVIOUS
<1>2. /\ g.app = a
      /\ g.refs = {<<"references", u>>, <<"references", FirstUser>>, <<"applications", a>>, <<"roles", a>>}
  BY <1>1 DEF Grant, Record
<1>3. Known(rows, <<"roles", a>>)
  BY DEF Known
<1>4. Leads(rows, g)
  BY <1>2, <1>3 DEF Leads
<1> QED
  BY <1>1, <1>4

LEMMA InvitesPerson == ASSUME ReaderInv, NEW u \in Newcomers, InvitePerson(u) PROVE ReaderInv'
<1>1. PICK rows : rows = {Person(u), Grant(u, FirstApp, FirstUser)}
  OBVIOUS
<1>2. Wrote(rows)
  BY <1>1 DEF InvitePerson
<1>3. Known(policy \cup rows, <<"references", u>>)
  <2>1. PICK person : person = Person(u)
    OBVIOUS
  <2>2. person \in policy \cup rows /\ person.table = "references" /\ person.key = u
    BY <1>1, <2>1 DEF Person, Record
  <2> QED
    BY <2>2 DEF Known, Of
<1>4. Leads(policy \cup rows, Grant(u, FirstApp, FirstUser))
  BY <1>3, FoundedLeads, GrantLeads
<1>5. Leads(policy \cup rows, Person(u))
  BY DEF Leads, Person, Record
<1>6. IsRow(Person(u)) /\ IsRow(Grant(u, FirstApp, FirstUser))
  BY DEF IsRow
<1>7. Joins(rows)
  <2>1. PICK person : person = Person(u)
    OBVIOUS
  <2>2. person \in rows /\ person.table = "references"
    BY <1>1, <2>1 DEF Person, Record
  <2> QED
    BY <2>2 DEF Joins
<1> QED
  BY <1>1, <1>2, <1>4, <1>5, <1>6, <1>7, WroteStep

LEMMA BindsPerson == ASSUME ReaderInv, NEW u \in Newcomers, BindPerson(u) PROVE ReaderInv'
<1>1. PICK rows, person, bound : rows = {Bound(u)} /\ person = Person(u) /\ bound = Bound(u)
  OBVIOUS
<1>2. Wrote(rows) /\ person \in policy
  BY <1>1 DEF BindPerson, Present
<1>3. /\ person.table = "references" /\ person.key = u /\ bound.refs = {<<"references", u>>}
      /\ bound.table \notin Targets
  BY <1>1 DEF Person, Bound, Record, Targets
<1>4. Leads(policy \cup rows, bound)
  BY <1>2, <1>3 DEF Leads, Known, Of
<1>5. IsRow(bound)
  BY <1>1 DEF IsRow
<1> QED
  BY <1>1, <1>2, <1>3, <1>4, <1>5, WroteStep

LEMMA Promotes == ASSUME ReaderInv, NEW u \in Newcomers, Promote(u) PROVE ReaderInv'
<1>1. PICK rows, bound, officer : rows = {Officer(u, FirstUser)} /\ bound = Bound(u) /\ officer = Officer(u, FirstUser)
  OBVIOUS
<1>2. Wrote(rows) /\ bound \in policy
  BY <1>1 DEF Promote
<1>3. /\ bound.refs = {<<"references", u>>}
      /\ officer.refs = {<<"references", u>>, <<"references", FirstUser>>} /\ officer.table \notin Targets
  BY <1>1 DEF Bound, Officer, Record, Targets
<1>4. Known(policy, <<"references", u>>)
  BY <1>2, <1>3 DEF ReaderInv, Checked
<1>5. Known(policy \cup rows, <<"references", u>>)
  BY <1>4 DEF Known, Of
<1>6. Leads(policy \cup rows, officer)
  <2>1. Known(policy \cup rows, <<"references", FirstUser>>)
    BY FoundedLeads
  <2> QED
    BY <1>3, <1>5, <2>1 DEF Leads
<1>7. IsRow(officer)
  BY <1>1 DEF IsRow
<1> QED
  BY <1>1, <1>2, <1>3, <1>6, <1>7, WroteStep

LEMMA Provisions == ASSUME ReaderInv, NEW a \in NewApps, Provision(a) PROVE ReaderInv'
<1>1. PICK rows, app, role :
        /\ rows = AppRows(a) \cup {Grant(FirstUser, a, FirstUser)}
        /\ app = Record("applications", a, a, {}) /\ role = Record("roles", a, a, {<<"applications", a>>})
  OBVIOUS
<1>2. Wrote(rows) /\ rows = {app, role, Grant(FirstUser, a, FirstUser)}
  BY <1>1 DEF Provision, AppRows
<1>3. /\ app.table = "applications" /\ app.key = a /\ app.refs = {}
      /\ role.table = "roles" /\ role.key = a /\ role.app = a /\ role.refs = {<<"applications", a>>}
  BY <1>1 DEF Record
<1>4. /\ Known(policy \cup rows, <<"applications", a>>)
      /\ \E r \in Of(policy \cup rows, "roles") : r.key = a /\ r.app = a
  BY <1>2, <1>3 DEF Known, Of
<1>5. Leads(policy \cup rows, Grant(FirstUser, a, FirstUser))
  BY <1>4, FoundedLeads, GrantLeads
<1>6. Leads(policy \cup rows, app) /\ Leads(policy \cup rows, role)
  BY <1>3, <1>4 DEF Leads
<1>7. IsRow(app) /\ IsRow(role) /\ IsRow(Grant(FirstUser, a, FirstUser))
  BY <1>1 DEF IsRow, AppRows
<1>8. Joins(rows)
  BY <1>2, <1>3 DEF Joins
<1> QED
  BY <1>2, <1>5, <1>6, <1>7, <1>8, WroteStep

\* One statement reads its table as it is now, after those before it.
LEMMA ReadsTable == ASSUME ReaderInv, ReadTable PROVE ReaderInv'
<1>1. PICK n, seen :
        /\ n = reader.next + 1
        /\ seen = Of(policy, Catalogue[n]) \cup (IF reader.next = 0 THEN {} ELSE reader.seen)
  OBVIOUS
<1>2. Len(Catalogue) = 6
  BY DEF Catalogue
<1>3. /\ DOMAIN reader' = {"next", "seen", "joined", "result"}
      /\ reader'.next = n /\ reader'.seen = seen /\ reader'.result = "none"
      /\ reader'.joined = (reader.next # 0 /\ reader.joined)
      /\ policy' = policy /\ n \in 1..6
  BY <1>1, <1>2 DEF ReadTable, ReaderInv
<1>4. seen \subseteq policy
  BY <1>1 DEF ReaderInv, Of
<1>5. ASSUME ~reader'.joined, NEW i \in 1..n, Catalogue[i] \in Targets
      PROVE  Of(seen, Catalogue[i]) = Of(policy, Catalogue[i])
  <2>1. CASE i = n
    <3>1. Of(policy, Catalogue[n]) \subseteq seen
      BY <1>1
    <3>2. Of(seen, Catalogue[n]) = Of(policy, Catalogue[n])
      BY <1>4, <3>1 DEF Of
    <3> QED
      BY <2>1, <3>2
  <2>2. CASE i # n
    <3>0. PICK k \in 0..6 : k = reader.next
      BY DEF ReaderInv
    <3>1. reader.next # 0 /\ ~reader.joined /\ i \in 1..reader.next
      <4>1. k # 0 /\ i \in 1..k
        BY <1>1, <2>2, <3>0
      <4> QED
        BY <1>3, <1>5, <3>0, <4>1
    <3>2. Of(reader.seen, Catalogue[i]) = Of(policy, Catalogue[i]) /\ reader.seen \subseteq seen
      BY <1>1, <1>5, <3>1 DEF ReaderInv
    <3> QED
      BY <1>4, <3>2 DEF Of
  <2> QED
    BY <2>1, <2>2
<1>6. Founded \subseteq policy' /\ Checked(policy)' /\ \A r \in policy' : IsRow(r)
  BY <1>3 DEF ReaderInv, Checked, Known, Of
<1>7. ~reader'.joined =>
        \A i \in 1..reader'.next : Catalogue[i] \in Targets => Of(reader'.seen, Catalogue[i]) = Of(policy', Catalogue[i])
  BY <1>3, <1>5
<1> QED
  BY <1>3, <1>4, <1>6, <1>7 DEF ReaderInv

\* When nobody and nothing joined, what was read leads wherever the tables lead.
LEMMA ParsesPolicy == ASSUME ReaderInv, ParsePolicy PROVE ReaderInv'
<1>1. reader.next = 6 /\ policy' = policy
  BY DEF ParsePolicy, Catalogue
<1>2. /\ DOMAIN reader' = {"next", "seen", "joined", "result"} /\ reader'.next = 0 /\ reader'.seen = reader.seen
      /\ reader'.joined = reader.joined
      /\ reader'.result = IF Checked(reader.seen) THEN "used" ELSE "unavailable"
  BY DEF ParsePolicy, ReaderInv
<1>3. ASSUME ~reader.joined PROVE Checked(reader.seen)
  <2>1. Catalogue[1] = "references" /\ Catalogue[4] = "applications" /\ Catalogue[5] = "roles"
    BY DEF Catalogue
  <2>2. 1 \in 1..6 /\ 4 \in 1..6 /\ 5 \in 1..6
    OBVIOUS
  <2>3. \A i \in 1..6 : Catalogue[i] \in Targets => Of(reader.seen, Catalogue[i]) = Of(policy, Catalogue[i])
    BY <1>1, <1>3 DEF ReaderInv
  <2>4. \A table \in Targets : Of(reader.seen, table) = Of(policy, table)
    BY <2>1, <2>2, <2>3 DEF Targets
  <2> SUFFICES ASSUME NEW r \in reader.seen, NEW ref \in r.refs
               PROVE  /\ Known(reader.seen, ref)
                      /\ ref[1] = "roles" => \E role \in Of(reader.seen, "roles") : role.key = ref[2] /\ role.app = r.app
    BY DEF Checked
  <2>5. r \in policy /\ IsRow(r)
    BY DEF ReaderInv
  <2>6. ref[1] \in Targets
    BY <2>5, RowsPointToTargets
  <2>7. Known(policy, ref) /\ (ref[1] = "roles" => \E role \in Of(policy, "roles") : role.key = ref[2] /\ role.app = r.app)
    BY <2>5 DEF ReaderInv, Checked
  <2>8. "roles" \in Targets
    BY DEF Targets
  <2> QED
    BY <2>4, <2>6, <2>7, <2>8 DEF Known
<1>4. Founded \subseteq policy' /\ Checked(policy)' /\ \A r \in policy' : IsRow(r)
  BY <1>1 DEF ReaderInv, Checked, Known, Of
<1>5. reader'.seen \subseteq policy'
  BY <1>1, <1>2 DEF ReaderInv
<1> QED
  BY <1>2, <1>3, <1>4, <1>5 DEF ReaderInv

LEMMA ReaderStep == ReaderInv /\ [IntegrityNext]_integrityVars => ReaderInv'
<1> SUFFICES ASSUME ReaderInv, [IntegrityNext]_integrityVars PROVE ReaderInv'
  OBVIOUS
<1>1. CASE UNCHANGED <<policy, reader>>
  BY <1>1 DEF ReaderInv, Checked, Known, Of
<1>2. CASE \E u \in Newcomers : InvitePerson(u) \/ BindPerson(u) \/ Promote(u)
  BY <1>2, InvitesPerson, BindsPerson, Promotes
<1>3. CASE \E a \in NewApps : Provision(a)
  BY <1>3, Provisions
<1>4. CASE RecordEvent \/ AskCode \/ GenerateCode \/ UNCHANGED integrityVars
  BY <1>1, <1>4 DEF RecordEvent, AskCode, GenerateCode, integrityVars
<1> QED
  BY <1>2, <1>3, <1>4, ReadsTable, ParsesPolicy DEF IntegrityNext

\* The constraints let nothing into the trail that the feed refuses but for a text.
LEMMA PermittedIsClean ==
  ASSUME NEW e \in {CodeEvent} \cup Attempts, Permitted(e)
  PROVE  e \in CleanEvents
<1>1. ~e.legacy
  <2>1. CASE e = CodeEvent
    BY <2>1 DEF CodeEvent
  <2>2. CASE e \in Attempts
    <3>1. e.legacy \in {FALSE}
      BY <2>2 DEF Attempts
    <3> QED
      BY <3>1
  <2> QED
    BY <2>1, <2>2
<1>2. Redacted(e) = e.fields
  BY <1>1 DEF Redacted
<1>3. e.target \in TargetTypes /\ \A f \in e.fields : f[1] # "secret" /\ f[2] \in {"text", "number", "null"}
  BY DEF Permitted, FeedSafe
<1> QED
  BY <1>2, <1>3 DEF Showable, Clean, CleanEvents

LEMMA TrailStep == TrailInv /\ [IntegrityNext]_integrityVars => TrailInv'
<1> SUFFICES ASSUME TrailInv, [IntegrityNext]_integrityVars PROVE TrailInv'
  OBVIOUS
<1>1. CASE UNCHANGED trail
  BY <1>1 DEF TrailInv
<1>2. CASE RecordEvent
  <2>1. PICK e \in Attempts : Permitted(e) /\ trail' = Append(trail, e)
    BY <1>2 DEF RecordEvent
  <2>2. e \in CleanEvents
    BY <2>1, PermittedIsClean
  <2> QED
    BY <2>1, <2>2, AppendProperties DEF TrailInv
<1>3. CASE GenerateCode
  <2>1. CASE trail' = trail
    BY <1>1, <2>1
  <2>2. CASE Permitted(CodeEvent) /\ trail' = Append(trail, CodeEvent)
    <3>1. CodeEvent \in CleanEvents
      BY <2>2, PermittedIsClean
    <3> QED
      BY <2>2, <3>1, AppendProperties DEF TrailInv
  <2> QED
    BY <1>3, <2>1, <2>2 DEF GenerateCode
<1>4. CASE AskCode \/ ReadTable \/ ParsePolicy \/ UNCHANGED integrityVars
  BY <1>1, <1>4 DEF AskCode, ReadTable, ParsePolicy, integrityVars
<1>5. CASE \E u \in Newcomers : InvitePerson(u) \/ BindPerson(u) \/ Promote(u)
  BY <1>1, <1>5 DEF InvitePerson, BindPerson, Promote, Wrote
<1>6. CASE \E a \in NewApps : Provision(a)
  BY <1>1, <1>6 DEF Provision, Wrote
<1> QED
  BY <1>2, <1>3, <1>4, <1>5, <1>6 DEF IntegrityNext

\* What refuses the feed is a text of one of the newest events.
LEMMA FeedIsRefusedForText ==
  ASSUME TrailInv, Feed(trail).source = "unavailable"
  PROVE  \E i \in DOMAIN Newest(trail) : Newest(trail)[i].text = "unfit"
<1>1. PICK n : n = IF Len(trail) < FeedLimit THEN Len(trail) ELSE FeedLimit
  OBVIOUS
<1>2. Len(trail) \in Nat /\ n \in Nat /\ n <= Len(trail)
  BY <1>1, LenProperties, FeedAssumption DEF TrailInv
<1>3. PICK newest : newest = Newest(trail)
  OBVIOUS
<1>4. newest = [i \in 1..n |-> trail[Len(trail) + 1 - i]]
  BY <1>1, <1>3 DEF Newest
<1>5. PICK i \in DOMAIN newest : ~Showable(newest[i])
  BY <1>3 DEF Feed
<1>6. newest[i] \in CleanEvents
  <2>1. i \in 1..n /\ Len(trail) + 1 - i \in 1..Len(trail)
    BY <1>2, <1>4
  <2> QED
    BY <1>4, <2>1, ElementOfSeq DEF TrailInv
<1>7. newest[i].text # "fit" /\ newest[i] \in {Legacy, CodeEvent} \cup Attempts
  BY <1>5, <1>6 DEF CleanEvents, Clean
<1>8. newest[i].text \in TextKinds
  <2>1. CASE newest[i] \in {Legacy, CodeEvent}
    BY <2>1 DEF Legacy, CodeEvent, TextKinds
  <2>2. CASE newest[i] \in Attempts
    BY <2>2 DEF Attempts
  <2> QED
    BY <1>7, <2>1, <2>2
<1> QED
  BY <1>3, <1>7, <1>8 DEF TextKinds

\* A reading of the policy is refused only when a person or an application came in between its
\* statements, and the feed only for a text of one of its newest events.
THEOREM RefusalsHaveTheirCause == IntegritySpec => []TablesAreBelieved
<1>1. IntegrityInit => ReaderInv /\ TrailInv
  <2> SUFFICES ASSUME IntegrityInit PROVE ReaderInv /\ TrailInv
    OBVIOUS
  <2>1. \A r \in Founded : IsRow(r)
    BY DEF Founded, IsRow
  <2>2. PICK person, app, role :
          /\ person = Person(FirstUser) /\ app = Record("applications", FirstApp, FirstApp, {})
          /\ role = Record("roles", FirstApp, FirstApp, {<<"applications", FirstApp>>})
    OBVIOUS
  <2>3. /\ person.table = "references" /\ person.key = FirstUser /\ app.table = "applications" /\ app.key = FirstApp
        /\ role.table = "roles" /\ role.key = FirstApp /\ role.app = FirstApp
        /\ person.refs = {} /\ app.refs = {} /\ role.refs = {<<"applications", FirstApp>>}
    BY <2>2 DEF Person, Record
  <2>4. Founded = {person, Bound(FirstUser), Officer(FirstUser, FirstUser), Grant(FirstUser, FirstApp, FirstUser), app, role}
    BY <2>2 DEF Founded, AppRows
  <2>5. /\ Known(Founded, <<"references", FirstUser>>) /\ Known(Founded, <<"applications", FirstApp>>)
        /\ \E r \in Of(Founded, "roles") : r.key = FirstApp /\ r.app = FirstApp
    BY <2>3, <2>4 DEF Known, Of
  <2>6. Leads(Founded, person) /\ Leads(Founded, app) /\ Leads(Founded, role)
    BY <2>3, <2>5 DEF Leads
  <2>7. Bound(FirstUser).refs = {<<"references", FirstUser>>} /\ Officer(FirstUser, FirstUser).refs = {<<"references", FirstUser>>}
    BY DEF Bound, Officer, Record
  <2>8. Leads(Founded, Bound(FirstUser)) /\ Leads(Founded, Officer(FirstUser, FirstUser))
    BY <2>5, <2>7 DEF Leads
  <2>9. Leads(Founded, Grant(FirstUser, FirstApp, FirstUser))
    BY <2>5, GrantLeads
  <2>10. Checked(Founded)
    <3>1. \A r \in Founded : Leads(Founded, r)
      BY <2>4, <2>6, <2>8, <2>9
    <3> QED
      BY <3>1 DEF Checked, Leads
  <2>11. ReaderInv
    BY <2>1, <2>10 DEF IntegrityInit, ReaderInv, ReaderRests
  <2>12. Legacy \in CleanEvents
    BY DEF Legacy, CleanEvents, Clean, Showable, Redacted, TargetTypes
  <2>13. TrailInv
    BY <2>12 DEF IntegrityInit, TrailInv
  <2> QED
    BY <2>11, <2>13
<1>2. ReaderInv /\ TrailInv => TablesAreBelieved
  BY FeedIsRefusedForText DEF ReaderInv, TablesAreBelieved
<1> QED
  BY <1>1, <1>2, ReaderStep, TrailStep, PTL DEF IntegritySpec

(* The picker's weeks *)

\* The day of an instant that is r hours into the q-th ordinary day: the odd day makes the
\* first hour after it still its own, or its last hour the next one's.
KeyAt(q, r) ==
  IF q < OddDay - 1 THEN q + 1
  ELSE IF zone = 1 /\ r = 0 /\ q >= OddDay THEN q
  ELSE IF zone = -1 /\ r = Hours - 1 THEN q + 2 ELSE q + 1

\* The days of a page that was turned to at t.
Nth(t, k) == DayKey(t + k * Hours)
KeysFrom(t, nr) == {Nth(t, nr * PageDays + i) : i \in 0..(PageDays - 1)}

Picker == {"slots", "page", "days", "since", "turns"}

WeeksInv ==
  /\ zone \in {-1, 0, 1} /\ instant \in Nat
  /\ DOMAIN weekPicker = Picker
  /\ weekPicker.page \in Nat /\ weekPicker.turns \in Nat
  /\ weekPicker.since \in Nat /\ weekPicker.since <= instant
  /\ weekPicker.turns = 0 => weekPicker.slots = {}
  /\ weekPicker.turns > 0 => weekPicker.days = KeysFrom(weekPicker.since, weekPicker.page)

LEMMA TimesMono ==
  ASSUME NEW m \in Int, NEW n \in Int, NEW c \in Nat, m <= n
  PROVE  m * c \in Int /\ n * c \in Int /\ m * c <= n * c
<1>1. PICK d \in Nat : n = m + d
  <2>1. n - m \in Nat /\ n = m + (n - m)
    OBVIOUS
  <2> QED BY <2>1
<1>2. n * c = m * c + d * c /\ d * c >= 0 /\ m * c \in Int /\ d * c \in Int
  BY <1>1
<1> QED BY <1>2

LEMMA Quotient ==
  ASSUME NEW x \in Int, NEW n \in Nat \ {0}
  PROVE  /\ x \div n \in Int /\ x % n \in 0..(n - 1)
         /\ x = (x \div n) * n + (x % n)
OBVIOUS

LEMMA QuotientIs ==
  ASSUME NEW x \in Int, NEW n \in Nat \ {0}, NEW q \in Int, NEW r \in 0..(n - 1), x = q * n + r
  PROVE  x \div n = q /\ x % n = r
<1>1. PICK p \in Int, s \in 0..(n - 1) : p = x \div n /\ s = x % n /\ x = p * n + s
  BY Quotient
<1>2. p * n \in Int /\ q * n \in Int
  OBVIOUS
<1>3. ~(p < q)
  <2> SUFFICES ASSUME p < q PROVE FALSE
    OBVIOUS
  <2>1. (p + 1) * n <= q * n /\ (p + 1) * n = p * n + n
    BY TimesMono
  <2> QED BY <1>1, <1>2, <2>1
<1>4. ~(q < p)
  <2> SUFFICES ASSUME q < p PROVE FALSE
    OBVIOUS
  <2>1. (q + 1) * n <= p * n /\ (q + 1) * n = q * n + n
    BY TimesMono
  <2> QED BY <1>1, <1>2, <2>1
<1>5. p = q
  BY <1>3, <1>4
<1> QED BY <1>1, <1>2, <1>5

\* dayKey, hour by hour.
LEMMA KeyOf ==
  ASSUME zone \in {-1, 0, 1}, NEW q \in Nat, NEW r \in 0..(Hours - 1), NEW t, t = q * Hours + r
  PROVE  DayKey(t) = KeyAt(q, r) /\ t \in Nat
<1>1. Hours \in Nat \ {0} /\ Hours > 2
  BY WeeksAssumption
<1>2. t \in Nat /\ q * Hours \in Nat
  BY <1>1
<1>3. DayStarts(OddDay) = 2 * Hours /\ DayStarts(OddDay + 1) = 3 * Hours + zone
  BY <1>1 DEF DayStarts, OddDay
<1>7. DayKey(t) = IF t < 2 * Hours THEN (t \div Hours) + 1 ELSE IF t < 3 * Hours + zone THEN 3 ELSE ((t - zone) \div Hours) + 1
  BY <1>3, Zenon DEF DayKey, OddDay
<1>8. KeyAt(q, r) = IF q < 2 THEN q + 1 ELSE IF zone = 1 /\ r = 0 /\ q >= 3 THEN q
                    ELSE IF zone = -1 /\ r = Hours - 1 THEN q + 2 ELSE q + 1
  BY DEF KeyAt, OddDay
<1>4. CASE q < 2
  <2>1. (q + 1) * Hours <= 2 * Hours /\ (q + 1) * Hours = q * Hours + Hours
    BY <1>1, <1>4, TimesMono
  <2>2. t < 2 * Hours
    BY <1>1, <1>2, <2>1
  <2>3. t \div Hours = q
    BY <1>1, <1>2, QuotientIs
  <2> QED BY <1>1, <1>7, <1>8, <1>3, <1>4, <2>2, <2>3
<1>5. CASE q = 2
  <2>1. ~(t < 2 * Hours)
    BY <1>1, <1>5
  <2>2. CASE zone = -1 /\ r = Hours - 1
    <3>1. t - zone = 3 * Hours + 0 /\ ~(t < 3 * Hours + zone)
      BY <1>1, <1>5, <2>2
    <3>2. (t - zone) \div Hours = 3
      BY <1>1, <3>1, QuotientIs
    <3> QED BY <1>1, <1>7, <1>8, <1>2, <1>3, <1>5, <2>1, <2>2, <3>1, <3>2
  <2>3. CASE ~(zone = -1 /\ r = Hours - 1)
    <3>1. t < 3 * Hours + zone
      BY <1>1, <1>5, <2>3
    <3> QED BY <1>1, <1>7, <1>8, <1>2, <1>3, <1>5, <2>1, <2>3, <3>1
  <2> QED BY <2>2, <2>3
<1>6. CASE q > 2
  <2>1. 3 * Hours <= q * Hours
    BY <1>1, <1>6, TimesMono
  <2>2. ~(t < 2 * Hours)
    BY <1>1, <1>2, <2>1
  <2>3. CASE zone = 1 /\ r = 0 /\ t < 3 * Hours + 1
    <3>1. q = 3
      <4>1. ~(4 <= q)
        <5> SUFFICES ASSUME 4 <= q PROVE FALSE
          OBVIOUS
        <5>1. 4 * Hours <= q * Hours
          BY <1>1, TimesMono
        <5> QED BY <1>1, <1>2, <2>3, <5>1
      <4> QED BY <1>6, <4>1
    <3> QED BY <1>1, <1>7, <1>8, <1>3, <2>2, <2>3, <3>1
  <2>4. CASE zone = 1 /\ r = 0 /\ ~(t < 3 * Hours + 1)
    <3>1. t - zone = (q - 1) * Hours + (Hours - 1)
      BY <1>1, <1>2, <2>4
    <3>2. (t - zone) \div Hours = q - 1
      BY <1>1, <1>2, <1>6, <3>1, QuotientIs
    <3> QED BY <1>1, <1>7, <1>8, <1>3, <1>6, <2>2, <2>4, <3>2
  <2>5. CASE zone = -1 /\ r = Hours - 1
    <3>1. t - zone = (q + 1) * Hours + 0 /\ ~(t < 3 * Hours + zone)
      BY <1>1, <1>2, <2>1, <2>5
    <3>2. (t - zone) \div Hours = q + 1
      BY <1>1, <1>2, <3>1, QuotientIs
    <3> QED BY <1>1, <1>7, <1>8, <1>3, <1>6, <2>2, <2>5, <3>1, <3>2
  <2>6. CASE ~(zone = 1 /\ r = 0) /\ ~(zone = -1 /\ r = Hours - 1)
    <3>1. r - zone \in 0..(Hours - 1) /\ t - zone = q * Hours + (r - zone) /\ ~(t < 3 * Hours + zone)
      BY <1>1, <1>2, <2>1, <2>6
    <3>2. (t - zone) \div Hours = q
      BY <1>1, <1>2, <3>1, QuotientIs
    <3> QED BY <1>1, <1>7, <1>8, <1>3, <1>6, <2>2, <2>6, <3>1, <3>2
  <2> QED BY <2>3, <2>4, <2>5, <2>6
<1> QED BY <1>2, <1>4, <1>5, <1>6

\* An instant's day and hour, in ordinary days.
LEMMA HoursOf ==
  ASSUME NEW t \in Nat
  PROVE  \E a \in Nat : \E b \in 0..(Hours - 1) : a = t \div Hours /\ b = t % Hours /\ t = a * Hours + b
<1>1. Hours \in Nat \ {0}
  BY WeeksAssumption
<1>2. PICK n \in Nat \ {0} : n = Hours
  BY <1>1
<1>3. PICK a \in Int, b \in 0..(n - 1) : a = t \div n /\ b = t % n /\ t = a * n + b
  BY Quotient
<1>4. a \in Nat
  <2> SUFFICES ASSUME a < 0 PROVE FALSE
    BY <1>3
  <2>1. (a + 1) * n <= 0 * n /\ (a + 1) * n = a * n + n /\ a * n \in Int
    BY TimesMono
  <2> QED BY <1>3, <2>1
<1> QED BY <1>2, <1>3, <1>4

LEMMA NthIs ==
  ASSUME zone \in {-1, 0, 1}, NEW t \in Nat
  PROVE  /\ t \div Hours \in Nat /\ t % Hours \in 0..(Hours - 1)
         /\ \A k \in Nat : Nth(t, k) = KeyAt(t \div Hours + k, t % Hours)
<1>1. Hours \in Nat \ {0}
  BY WeeksAssumption
<1>2. PICK a \in Nat : \E b \in 0..(Hours - 1) : a = t \div Hours /\ b = t % Hours /\ t = a * Hours + b
  BY HoursOf
<1>3. PICK b \in 0..(Hours - 1) : a = t \div Hours /\ b = t % Hours /\ t = a * Hours + b
  BY <1>2
<1>4. ASSUME NEW k \in Nat
      PROVE  Nth(t, k) = KeyAt(a + k, b)
  <2>1. t + k * Hours = (a + k) * Hours + b
    BY <1>1, <1>3
  <2> QED BY <2>1, KeyOf DEF Nth
<1> QED BY <1>3, <1>4

\* Later instants are not of earlier days.
LEMMA KeysGrow ==
  ASSUME zone \in {-1, 0, 1}, NEW p \in Nat, NEW q \in Nat, NEW r \in 0..(Hours - 1), NEW s \in 0..(Hours - 1),
         p < q \/ (p = q /\ r <= s)
  PROVE  KeyAt(p, r) <= KeyAt(q, s) /\ KeyAt(p, r) \in Nat
<1>1. Hours \in Nat /\ Hours > 2
  BY WeeksAssumption
<1> QED BY <1>1 DEF KeyAt, OddDay

LEMMA DaysGrow ==
  ASSUME zone \in {-1, 0, 1}, NEW x \in Nat, NEW y \in Nat, x <= y
  PROVE  DayKey(x) <= DayKey(y) /\ DayKey(x) \in Nat /\ DayKey(y) \in Nat
<1>1. Hours \in Nat \ {0}
  BY WeeksAssumption
<1>2. PICK p \in Nat : \E r \in 0..(Hours - 1) : x = p * Hours + r
  BY HoursOf
<1>7. PICK r \in 0..(Hours - 1) : x = p * Hours + r
  BY <1>2
<1>3. PICK q \in Nat : \E s \in 0..(Hours - 1) : y = q * Hours + s
  BY HoursOf
<1>8. PICK s \in 0..(Hours - 1) : y = q * Hours + s
  BY <1>3
<1>4. p < q \/ (p = q /\ r <= s)
  <2>1. ~(q < p)
    <3> SUFFICES ASSUME q < p PROVE FALSE
      OBVIOUS
    <3>1. (q + 1) * Hours <= p * Hours /\ (q + 1) * Hours = q * Hours + Hours
      BY <1>1, TimesMono
    <3>2. q * Hours \in Nat /\ p * Hours \in Nat
      BY <1>1
    <3> QED BY <1>1, <1>7, <1>8, <3>1, <3>2
  <2>2. p = q => r <= s
    <3>1. p * Hours \in Nat
      BY <1>1
    <3> QED BY <1>1, <1>7, <1>8, <3>1
  <2> QED BY <2>1, <2>2
<1>5. DayKey(x) = KeyAt(p, r) /\ DayKey(y) = KeyAt(q, s)
  BY <1>7, <1>8, KeyOf
<1>6. KeyAt(p, r) <= KeyAt(q, s) /\ KeyAt(p, r) \in Nat /\ KeyAt(q, s) \in Nat
  BY <1>4, KeysGrow
<1> QED BY <1>5, <1>6

LEMMA NthGrows ==
  ASSUME zone \in {-1, 0, 1}, NEW t \in Nat, NEW j \in Nat, NEW k \in Nat, j <= k
  PROVE  Nth(t, j) <= Nth(t, k) /\ Nth(t, j) \in Nat /\ Nth(t, k) \in Nat
<1>1. Hours \in Nat
  BY WeeksAssumption
<1>2. j * Hours <= k * Hours /\ j * Hours \in Nat /\ k * Hours \in Nat
  BY <1>1, TimesMono
<1> QED BY <1>2, DaysGrow DEF Nth

\* The last day of a page is its latest.
LEMMA LastIsMax ==
  ASSUME zone \in {-1, 0, 1}, NEW t \in Nat, NEW nr \in Nat
  PROVE  Max(KeysFrom(t, nr)) = Nth(t, nr * PageDays + (PageDays - 1))
<1>1. PageDays \in Nat \ {0}
  BY WeeksAssumption
<1>2. PICK f \in Nat : f = nr * PageDays
  BY <1>1
<1>3. PICK m : m = Nth(t, f + (PageDays - 1))
  OBVIOUS
<1>4. KeysFrom(t, nr) = {Nth(t, f + i) : i \in 0..(PageDays - 1)}
  BY <1>2 DEF KeysFrom
<1>5. PageDays - 1 \in 0..(PageDays - 1)
  BY <1>1
<1>6. m \in KeysFrom(t, nr)
  BY <1>3, <1>4, <1>5
<1>7. \A i \in 0..(PageDays - 1) : Nth(t, f + i) <= m /\ Nth(t, f + i) \in Nat /\ m \in Nat
  <2> TAKE i \in 0..(PageDays - 1)
  <2>1. f + i \in Nat /\ f + (PageDays - 1) \in Nat /\ f + i <= f + (PageDays - 1)
    BY <1>1, <1>2
  <2> QED BY <1>3, <2>1, NthGrows
<1>8. \A x \in KeysFrom(t, nr) : m >= x /\ x \in Nat /\ m \in Nat
  BY <1>4, <1>7
<1>9. \A x \in KeysFrom(t, nr) : (\A y \in KeysFrom(t, nr) : x >= y) => x = m
  BY <1>6, <1>8
<1> QED BY <1>2, <1>3, <1>6, <1>8, <1>9 DEF Max

\* Every day from t on has a first place among the days counted from t, unless it is the
\* day an hour short and t in the last hour of a day before it.
LEMMA DayIsFound ==
  ASSUME zone \in {-1, 0, 1}, NEW t \in Nat, NEW d \in Nat, Nth(t, 0) <= d,
         ~(zone = -1 /\ d = OddDay /\ EndsADay(t))
  PROVE  \E k \in Nat : /\ Nth(t, k) = d /\ k <= d
                        /\ \A j \in Nat : j < k => Nth(t, j) < d
<1>1. Hours \in Nat /\ Hours > 2
  BY WeeksAssumption
<1>9. PICK a \in Nat : \E b \in 0..(Hours - 1) : a = t \div Hours /\ b = t % Hours /\ t = a * Hours + b
  BY HoursOf
<1>10. PICK b \in 0..(Hours - 1) : a = t \div Hours /\ b = t % Hours /\ t = a * Hours + b
  BY <1>9
<1>2. t = a * Hours + b /\ \A k \in Nat : Nth(t, k) = KeyAt(a + k, b)
  BY <1>10, NthIs
<1>3. KeyAt(a, b) <= d
  <2>1. Nth(t, 0) = KeyAt(a + 0, b) /\ a + 0 = a
    BY <1>2
  <2> QED BY <2>1
<1>4. a < 2 /\ b = Hours - 1 => EndsADay(t)
  <2> SUFFICES ASSUME a < 2, b = Hours - 1 PROVE EndsADay(t)
    OBVIOUS
  <2>1. t + 1 = (a + 1) * Hours + 0 /\ a * Hours \in Nat
    BY <1>1, <1>2
  <2>2. (t + 1) % Hours = 0
    BY <1>1, <2>1, QuotientIs
  <2>3. (a + 1) * Hours <= 2 * Hours
    BY <1>1, TimesMono
  <2>4. DayStarts(OddDay) = 2 * Hours
    BY <1>1 DEF DayStarts, OddDay
  <2> QED BY <1>1, <1>2, <2>1, <2>2, <2>3, <2>4 DEF EndsADay
<1>5. ASSUME NEW q \in Nat, a <= q, KeyAt(q, b) = d, \A p \in Nat : a <= p /\ p < q => KeyAt(p, b) < d, q - a <= d
      PROVE  \E k \in Nat : Nth(t, k) = d /\ k <= d /\ \A j \in Nat : j < k => Nth(t, j) < d
  <2>1. PICK k \in Nat : k = q - a
    BY <1>5
  <2>2. Nth(t, k) = d /\ k <= d
    <3>1. a + k = q
      BY <2>1
    <3> QED BY <1>2, <1>5, <2>1, <3>1
  <2>3. ASSUME NEW j \in Nat, j < k PROVE Nth(t, j) < d
    <3>1. PICK p \in Nat : p = a + j
      OBVIOUS
    <3>2. a <= p /\ p < q
      BY <2>1, <2>3, <3>1
    <3>3. Nth(t, j) = KeyAt(p, b)
      BY <1>2, <3>1
    <3> QED BY <1>5, <3>2, <3>3
  <2> QED BY <2>2, <2>3
<1>6. CASE zone = 1 /\ b = 0
  <2>1. CASE a >= 3 /\ d = 3
    BY <1>1, <1>3, <1>5, <1>6, <2>1 DEF KeyAt, OddDay
  <2>2. CASE d <= 3 /\ ~(a >= 3 /\ d = 3)
    <3>1. d - 1 \in Nat /\ a <= d - 1 /\ KeyAt(d - 1, b) = d
      BY <1>1, <1>3, <1>6, <2>2 DEF KeyAt, OddDay
    <3>2. \A p \in Nat : a <= p /\ p < d - 1 => KeyAt(p, b) < d
      BY <1>1, <1>6, <2>2 DEF KeyAt, OddDay
    <3> QED BY <1>5, <3>1, <3>2
  <2>3. CASE d > 3
    <3>1. a <= d /\ KeyAt(d, b) = d
      BY <1>1, <1>3, <1>6, <2>3 DEF KeyAt, OddDay
    <3>2. \A p \in Nat : a <= p /\ p < d => KeyAt(p, b) < d
      BY <1>1, <1>6, <2>3 DEF KeyAt, OddDay
    <3> QED BY <1>5, <3>1, <3>2
  <2> QED BY <2>1, <2>2, <2>3
<1>7. CASE zone = -1 /\ b = Hours - 1
  <2>1. d # 3 /\ d >= 1
    BY <1>1, <1>3, <1>4, <1>7 DEF KeyAt, OddDay
  <2>2. CASE d < 3
    <3>1. d - 1 \in Nat /\ a <= d - 1 /\ KeyAt(d - 1, b) = d
      BY <1>1, <1>3, <1>7, <2>1, <2>2 DEF KeyAt, OddDay
    <3>2. \A p \in Nat : a <= p /\ p < d - 1 => KeyAt(p, b) < d
      BY <1>1, <1>7, <2>2 DEF KeyAt, OddDay
    <3> QED BY <1>5, <3>1, <3>2
  <2>3. CASE d > 3
    <3>1. d - 2 \in Nat /\ a <= d - 2 /\ KeyAt(d - 2, b) = d
      BY <1>1, <1>3, <1>7, <2>3 DEF KeyAt, OddDay
    <3>2. \A p \in Nat : a <= p /\ p < d - 2 => KeyAt(p, b) < d
      BY <1>1, <1>7, <2>3 DEF KeyAt, OddDay
    <3> QED BY <1>5, <3>1, <3>2
  <2> QED BY <2>1, <2>2, <2>3
<1>8. CASE ~(zone = 1 /\ b = 0) /\ ~(zone = -1 /\ b = Hours - 1)
  <2>1. d - 1 \in Nat /\ a <= d - 1 /\ KeyAt(d - 1, b) = d
    BY <1>1, <1>3, <1>8 DEF KeyAt, OddDay
  <2>2. \A p \in Nat : a <= p /\ p < d - 1 => KeyAt(p, b) < d
    BY <1>1, <1>8 DEF KeyAt, OddDay
  <2> QED BY <1>5, <2>1, <2>2
<1> QED BY <1>6, <1>7, <1>8

LEMMA WeekIsKeys == \A nr : WeekDayKeys(nr) = KeysFrom(instant, nr)
BY DEF WeekDayKeys, KeysFrom, Nth

LEMMA FirstPageIsOne ==
  ASSUME NEW slots
  PROVE  FirstPageWithSlot(slots) \in Nat
<1>1. LastPage \in Int
  <2>1. PICK x \in Int, n \in Nat \ {0} : x = Days /\ n = PageDays
    BY WeeksAssumption
  <2>2. x \div n \in Int
    BY Quotient
  <2> QED BY <2>1, <2>2 DEF LastPage
<1>2. PICK good : good = {p \in 0..LastPage : Max(WeekDayKeys(p)) >= DayKey(Min(slots))}
  OBVIOUS
<1>3. good \subseteq Nat
  BY <1>1, <1>2
<1>4. ASSUME good # {} PROVE Min(good) \in Nat
  <2>1. PICK x \in good : \A y \in good : <<y, x>> \notin OpToRel(<, Nat)
    BY <1>3, <1>4, NatLessThanWellFounded, WFMin
  <2>2. x \in Nat
    BY <1>3, <2>1
  <2>3. ASSUME NEW y \in good PROVE x <= y
    <3>1. y \in Nat /\ <<y, x>> \in Nat \X Nat
      BY <1>3, <2>2
    <3>2. ~(y < x)
      BY <2>1, <3>1 DEF OpToRel
    <3> QED BY <2>2, <3>1, <3>2
  <2> QED BY <1>3, <2>1, <2>3 DEF Min
<1> QED BY <1>2, <1>4 DEF FirstPageWithSlot

\* A page is turned: its days are those counted from now.
LEMMA PageTurns ==
  ASSUME WeeksInv, NEW nr \in Nat, UNCHANGED <<zone, instant>>,
         \/ weekPicker' = Turned(nr)
         \/ \E slots : weekPicker' = [Turned(nr) EXCEPT !.slots = slots]
  PROVE  WeeksInv'
<1>1. PICK slots : weekPicker' = [Turned(nr) EXCEPT !.slots = slots]
  <2>1. CASE weekPicker' = Turned(nr)
    <3>1. Turned(nr) = [Turned(nr) EXCEPT !.slots = weekPicker.slots]
      BY DEF Turned, WeeksInv, Picker
    <3> QED BY <2>1, <3>1
  <2> QED BY <2>1
<1>2. /\ DOMAIN weekPicker' = Picker
      /\ weekPicker'.page = nr /\ weekPicker'.days = WeekDayKeys(nr) /\ weekPicker'.since = instant
      /\ weekPicker'.turns = weekPicker.turns + 1
  BY <1>1 DEF Turned, WeeksInv, Picker
<1>3. KeysFrom(instant, nr)' = KeysFrom(instant, nr)
  BY DEF KeysFrom, Nth, DayKey, DayStarts
<1>4. weekPicker'.days = KeysFrom(instant, nr)'
  BY <1>2, <1>3, WeekIsKeys
<1>6. KeysFrom(weekPicker.since, weekPicker.page)' = KeysFrom(instant, nr)
  BY <1>2 DEF KeysFrom, Nth, DayKey, DayStarts
<1> QED BY <1>2, <1>4, <1>3, <1>6 DEF WeeksInv

LEMMA WeeksKept ==
  ASSUME WeeksInv, [WeeksNext]_weekVars
  PROVE  WeeksInv'
<1>1. CASE GuestTimeZone
  BY <1>1 DEF WeeksInv, GuestTimeZone
<1>2. CASE SlotsLoad
  <2>1. PICK slots : weekPicker' = [Turned(FirstPageWithSlot(slots)) EXCEPT !.slots = slots]
    BY <1>2 DEF SlotsLoad
  <2>2. UNCHANGED <<zone, instant>>
    BY <1>2 DEF SlotsLoad
  <2> QED BY <2>1, <2>2, FirstPageIsOne, PageTurns
<1>3. CASE Later
  <2>1. weekPicker.page + 1 \in Nat
    BY DEF WeeksInv
  <2> QED BY <1>3, <2>1, PageTurns DEF Later
<1>4. CASE Earlier
  <2>1. weekPicker.page - 1 \in Nat
    BY <1>4 DEF WeeksInv, Earlier
  <2> QED BY <1>4, <2>1, PageTurns DEF Earlier
<1>5. CASE HourGoes \/ UNCHANGED weekVars
  <2>1. UNCHANGED <<zone, weekPicker>> /\ instant' \in Nat /\ instant' >= instant
    BY <1>5 DEF HourGoes, weekVars, WeeksInv
  <2>2. KeysFrom(weekPicker.since, weekPicker.page)' = KeysFrom(weekPicker.since, weekPicker.page)
    BY <2>1 DEF KeysFrom, Nth, DayKey, DayStarts
  <2> QED BY <2>1, <2>2 DEF WeeksInv
<1> QED BY <1>1, <1>2, <1>3, <1>4, <1>5 DEF WeeksNext

\* The times on offer are the last of a day.
LEMMA OffersEndDays ==
  ASSUME zone \in {-1, 0, 1}, NEW d \in Nat \ {0}
  PROVE  DayStarts(d + 1) - 1 \in Nat /\ DayKey(DayStarts(d + 1) - 1) = d
<1>1. Hours \in Nat \ {0} /\ Hours > 2
  BY WeeksAssumption
<1>2. DayStarts(d + 1) = d * Hours + (IF d + 1 > OddDay THEN zone ELSE 0)
  BY DEF DayStarts
<1>3. d * Hours = (d - 1) * Hours + Hours /\ (d - 1) * Hours \in Nat
  BY <1>1
<1>4. PICK t : t = DayStarts(d + 1) - 1
  OBVIOUS
<1>5. CASE d < 3 \/ zone = 0
  <2>1. t = (d - 1) * Hours + (Hours - 1)
    BY <1>1, <1>2, <1>3, <1>4, <1>5 DEF OddDay
  <2>2. DayKey(t) = KeyAt(d - 1, Hours - 1) /\ t \in Nat
    BY <1>1, <2>1, KeyOf
  <2> QED BY <1>1, <1>4, <1>5, <2>2 DEF KeyAt, OddDay
<1>6. CASE d >= 3 /\ zone = 1
  <2>1. t = d * Hours + 0
    BY <1>1, <1>2, <1>3, <1>4, <1>6 DEF OddDay
  <2>2. DayKey(t) = KeyAt(d, 0) /\ t \in Nat
    BY <1>1, <2>1, KeyOf
  <2> QED BY <1>1, <1>4, <1>6, <2>2 DEF KeyAt, OddDay
<1>7. CASE d >= 3 /\ zone = -1
  <2>1. t = (d - 1) * Hours + (Hours - 2)
    BY <1>1, <1>2, <1>3, <1>4, <1>7 DEF OddDay
  <2>2. DayKey(t) = KeyAt(d - 1, Hours - 2) /\ t \in Nat
    BY <1>1, <2>1, KeyOf
  <2> QED BY <1>1, <1>4, <1>7, <2>2 DEF KeyAt, OddDay
<1> QED BY <1>5, <1>6, <1>7

\* The pages in front of the first that has the day let the guest turn on.
LEMMA DayIsTurnedTo ==
  ASSUME WeeksInv, weekPicker.turns > 0, NEW s \in weekPicker.slots \cap StillAhead,
         ~(zone = -1 /\ DayKey(s) = OddDay /\ (EndsADay(instant) \/ EndsADay(weekPicker.since)))
  PROVE  OnAPage(s)
<1>1. zone \in {-1, 0, 1} /\ instant \in Nat /\ weekPicker.page \in Nat
      /\ weekPicker.since \in Nat /\ weekPicker.since <= instant
      /\ weekPicker.days = KeysFrom(weekPicker.since, weekPicker.page)
  BY DEF WeeksInv
<1>2. PageDays \in Nat \ {0} /\ Days \in Nat
  BY WeeksAssumption
<1>3. PICK d \in 1..Days : s = DayStarts(d + 1) - 1 /\ s > instant
  BY DEF StillAhead
<1>4. d \in Nat \ {0} /\ DayKey(s) = d /\ s \in Nat
  BY <1>1, <1>2, <1>3, OffersEndDays
<1>5. Nth(instant, 0) <= d /\ Nth(weekPicker.since, 0) <= d
  <2>1. \A t \in Nat : Nth(t, 0) = DayKey(t)
    BY WeeksAssumption DEF Nth
  <2>2. DayKey(instant) <= d /\ DayKey(weekPicker.since) <= d
    BY <1>1, <1>3, <1>4, DaysGrow
  <2> QED BY <1>1, <2>1, <2>2
<1>6. PICK k \in Nat : Nth(instant, k) = d /\ k <= d /\ \A j \in Nat : j < k => Nth(instant, j) < d
  BY <1>1, <1>4, <1>5, DayIsFound
<1>7. PICK p \in Nat : \E i \in 0..(PageDays - 1) : p = k \div PageDays /\ k = p * PageDays + i
  <2>1. k \div PageDays \in Int /\ k % PageDays \in 0..(PageDays - 1) /\ k = (k \div PageDays) * PageDays + (k % PageDays)
    BY <1>2, Quotient
  <2>2. PICK q \in Int : q = k \div PageDays
    BY <2>1
  <2>3. PICK i \in 0..(PageDays - 1) : i = k % PageDays /\ k = q * PageDays + i
    BY <2>1, <2>2
  <2>4. ~(q < 0)
    <3> SUFFICES ASSUME q < 0 PROVE FALSE
      OBVIOUS
    <3>1. (q + 1) * PageDays <= 0 * PageDays /\ (q + 1) * PageDays = q * PageDays + PageDays /\ q * PageDays \in Int
      BY <1>2, <2>2, TimesMono
    <3> QED BY <1>2, <2>3, <3>1
  <2> QED BY <2>2, <2>3, <2>4
<1>8. PICK i \in 0..(PageDays - 1) : k = p * PageDays + i
  BY <1>7
<1>9. d \in WeekDayKeys(p)
  <2>1. d = Nth(instant, p * PageDays + i)
    BY <1>6, <1>8
  <2> QED BY <2>1, WeekIsKeys DEF KeysFrom
<1>10. p \in 0..(LastPage + 1)
  <2>4. PICK x \in Int, n \in Nat \ {0} : x = Days /\ n = PageDays
    BY <1>2
  <2>5. x \div n \in Int /\ x % n \in 0..(n - 1) /\ x = (x \div n) * n + (x % n)
    BY Quotient
  <2>1. PICK l \in Int : l = Days \div PageDays
    BY <2>4, <2>5
  <2>2. PICK m \in 0..(PageDays - 1) : Days = l * PageDays + m
    BY <2>1, <2>4, <2>5
  <2>3. ~(l + 1 < p)
    <3> SUFFICES ASSUME l + 1 < p PROVE FALSE
      OBVIOUS
    <3>1. (l + 1) * PageDays <= p * PageDays /\ (l + 1) * PageDays = l * PageDays + PageDays
          /\ l * PageDays \in Int /\ p * PageDays \in Nat
      BY <1>2, TimesMono
    <3>2. k <= Days
      BY <1>2, <1>3, <1>6
    <3> QED BY <1>2, <1>8, <2>2, <3>1, <3>2
  <2> QED BY <2>1, <2>3 DEF LastPage
<1>11. \A q \in 0..(p - 1) : HasNext(weekPicker.slots, WeekDayKeys(q))
  <2> SUFFICES ASSUME NEW q \in 0..(p - 1) PROVE HasNext(weekPicker.slots, WeekDayKeys(q))
    OBVIOUS
  <2>1. q \in Nat /\ (q + 1) * PageDays <= p * PageDays /\ (q + 1) * PageDays = q * PageDays + PageDays
        /\ q * PageDays \in Nat /\ p * PageDays \in Nat
    BY <1>2, TimesMono
  <2>2. PICK j \in Nat : j = q * PageDays + (PageDays - 1)
    BY <1>2, <2>1
  <2>3. j < k
    BY <1>2, <1>8, <2>1, <2>2
  <2>4. Max(WeekDayKeys(q)) = Nth(instant, j)
    BY <1>1, <2>1, <2>2, LastIsMax, WeekIsKeys
  <2>5. Nth(instant, j) < d /\ Nth(instant, j) \in Nat
    BY <1>1, <1>6, <2>2, <2>3, NthGrows
  <2> QED BY <1>4, <2>4, <2>5 DEF HasNext
<1>12. CASE p < weekPicker.page \/ weekPicker.page > 0 \/ HasNext(weekPicker.slots, weekPicker.days)
  <2>1. p \in Turnable
    BY <1>10, <1>11, <1>12 DEF Turnable
  <2> QED BY <1>4, <1>9, <2>1 DEF OnAPage
<1>13. CASE weekPicker.page = 0 /\ ~HasNext(weekPicker.slots, weekPicker.days)
  <2>1. PICK w \in Nat : w = weekPicker.since
    BY <1>1
  <2>2. PICK n \in Nat : /\ Nth(w, n) = d /\ n <= d
                         /\ \A j \in Nat : j < n => Nth(w, j) < d
    BY <1>1, <1>4, <1>5, <2>1, DayIsFound
  <2>3. Max(weekPicker.days) = Nth(w, 0 * PageDays + (PageDays - 1)) /\ 0 * PageDays + (PageDays - 1) = PageDays - 1
    BY <1>1, <1>2, <1>13, <2>1, LastIsMax
  <2>4. PageDays - 1 \in Nat /\ Nth(w, PageDays - 1) \in Nat
    <3>1. PICK j \in Nat : j = PageDays - 1
      BY <1>2
    <3>2. Nth(w, j) \in Nat
      <4>1. j <= j
        OBVIOUS
      <4> QED BY <1>1, <4>1, NthGrows
    <3> QED BY <3>1, <3>2
  <2>5. ~(d > Max(weekPicker.days))
    BY <1>4, <1>13 DEF HasNext
  <2>6. n <= PageDays - 1
    <3> SUFFICES ASSUME PageDays - 1 < n PROVE FALSE
      BY <2>4
    <3>1. Nth(w, PageDays - 1) < d
      BY <2>2, <2>4
    <3> QED BY <2>3, <2>4, <2>5, <3>1
  <2>7. n \in 0..(PageDays - 1) /\ 0 * PageDays + n = n
    BY <1>2, <2>4, <2>6
  <2>8. d \in KeysFrom(w, 0)
    BY <2>2, <2>7 DEF KeysFrom
  <2> QED BY <1>1, <1>4, <1>13, <2>1, <2>8 DEF OnAPage
<1> QED BY <1>1, <1>12, <1>13

\* Every time on offer can be seen on the open page or by turning pages, however long a day
\* or a page is, how many days there are and how long the page stays open, but for the day
\* an hour short on pages of a day's last hour.
THEOREM PagesReachEveryTime == WeeksSpec => []EveryTimeHasAPage
<1>1. WeeksInit => WeeksInv
  BY DEF WeeksInit, WeeksInv, Picker
<1>2. WeeksInv => EveryTimeHasAPage
  <2> SUFFICES ASSUME WeeksInv PROVE EveryTimeHasAPage
    OBVIOUS
  <2>1. CASE weekPicker.turns > 0
    BY <2>1, DayIsTurnedTo DEF EveryTimeHasAPage
  <2>2. CASE weekPicker.slots = {}
    BY <2>2 DEF EveryTimeHasAPage
  <2> QED BY <2>1, <2>2 DEF WeeksInv
<1> QED BY <1>1, <1>2, WeeksKept, PTL DEF WeeksSpec
=============================================================================
