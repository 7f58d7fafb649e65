------------------------------ MODULE Traffic ------------------------------
(***************************************************************************)
(* What one guest's requests cost: the fixed-window rate limit in front of *)
(* the public routes, the 120-second slot holds, and the access token a    *)
(* warm instance keeps for a manager's calendar.  Time passes while a      *)
(* request is under way, until the platform ends it.                       *)
(***************************************************************************)
EXTENDS Integers, FiniteSets

CONSTANTS
  Guests,      \* open requests of one address, on one warm instance
  Limit,       \* requests of one kind per window
  WindowTime,  \* windowSeconds
  HoldTime,    \* HOLD_SECONDS
  TokenLife,   \* expires_in
  Margin,      \* how long before its expiry a token is given up
  MaxStay,     \* the longest a request takes (backoff included: some 4 s, and Google)
  Retries,     \* calendarFetch's retries
  MaxRequests, \* bound: requests
  LastTime     \* bound: the clock

ASSUME TrafficAssumption ==
  /\ {Limit, WindowTime, HoldTime, TokenLife, Margin, MaxStay, Retries, MaxRequests, LastTime} \subseteq Nat
  /\ WindowTime > 0 /\ 2 * MaxStay <= Margin /\ MaxStay < TokenLife
  /\ IsFiniteSet(Guests)

VARIABLES
  time,
  limiter,   \* the booking.rate_limit row of each kind
  hits,      \* history: every request that was counted
  holding,   \* booking.slot_hold
  token,     \* tokenCache: when it is given up, and when Google ends it
  request    \* the requests under way

trafficVars == <<time, limiter, hits, holding, token, request>>

RouteKinds == {"hold", "calendar"}
NoRequest == [at |-> "idle", since |-> 0, ends |-> 0, tries |-> 0]

TrafficInit ==
  /\ time = 0
  /\ limiter = [k \in RouteKinds |-> [start |-> 0, count |-> 0]]
  /\ hits = {} /\ holding = {}
  /\ token = [until |-> 0, ends |-> 0]
  /\ request = [g \in Guests |-> NoRequest]
-----------------------------------------------------------------------------
Sits(g, at) == request[g].at = at
Goes(g, next) == request' = [request EXCEPT ![g] = next]
ToStage(g, at) == Goes(g, [request[g] EXCEPT !.at = at])
Ends(g) == Goes(g, NoRequest)

\* Mutant: the window's start is left as it was.
CountedKeepsStart(counter) ==
  IF counter.start < time - WindowTime THEN [counter EXCEPT !.count = 1]
  ELSE [counter EXCEPT !.count = @ + 1]

\* The upsert: a window that lies back is begun anew.
Counted(counter) ==
  IF counter.start < time - WindowTime THEN [start |-> time, count |-> 1]
  ELSE [counter EXCEPT !.count = @ + 1]

\* A route is asked; over the limit the answer is 429.
AskRoute(g, kind) ==
  LET counter == Counted(limiter[kind])
      open == counter.count <= Limit IN
  /\ Sits(g, "idle") /\ Cardinality(hits) < MaxRequests
  /\ limiter' = [limiter EXCEPT ![kind] = counter]
  /\ hits' = hits \cup {[nr |-> Cardinality(hits), at |-> time, kind |-> kind, open |-> open]}
  /\ IF open THEN Goes(g, [NoRequest EXCEPT !.at = kind, !.since = time]) ELSE UNCHANGED request
  /\ UNCHANGED <<time, holding, token>>

\* The request is not valid, or names nobody who serves this brand.
TurnedAway(g) ==
  /\ request[g].at \in RouteKinds
  /\ Ends(g)
  /\ UNCHANGED <<time, limiter, hits, holding, token>>

LiveHolds == {h \in holding : h.until > time}

\* createHold: what has expired is swept, and the slot held.
CreateHold(g) ==
  /\ Sits(g, "hold")
  /\ holding' = LiveHolds \cup {[until |-> time + HoldTime, by |-> g, at |-> time]}
  /\ Ends(g)
  /\ UNCHANGED <<time, limiter, hits, token>>

\* The reminder cron sweeps too.
SweepHolds ==
  /\ holding # LiveHolds /\ holding' = LiveHolds
  /\ UNCHANGED <<time, limiter, hits, token, request>>

\* accessTokenFor: a token is used until shortly before it is given up ...
FreshToken == token.until > time + Margin

TakeToken(g) ==
  /\ Sits(g, "calendar")
  /\ IF FreshToken THEN Goes(g, [request[g] EXCEPT !.at = "call", !.ends = token.ends])
                   ELSE ToStage(g, "exchange")
  /\ UNCHANGED <<time, limiter, hits, holding, token>>

\* ... else Google is asked for another, whose life begins before it arrives;
\* delegation may be rejected, and then nothing is offered.
GoogleIssues(g) ==
  /\ Sits(g, "exchange")
  /\ Goes(g, [request[g] EXCEPT !.at = "issued", !.ends = time + TokenLife]) \/ Ends(g)
  /\ UNCHANGED <<time, limiter, hits, holding, token>>

KeepToken(g) ==
  /\ Sits(g, "issued")
  /\ token' = [until |-> time + TokenLife, ends |-> request[g].ends]
  /\ ToStage(g, "call")
  /\ UNCHANGED <<time, limiter, hits, holding>>

\* calendarFetch under that one token: answered or failed, or told to come back later.
CallCalendar(g) ==
  /\ Sits(g, "call")
  /\ \/ Ends(g)
     \/ /\ request[g].tries < Retries
        /\ Goes(g, [request[g] EXCEPT !.tries = @ + 1])
  /\ UNCHANGED <<time, limiter, hits, holding, token>>

\* Time passes; a request that has lasted too long has been ended.
TimePasses ==
  /\ time < LastTime /\ time' = time + 1
  /\ request' = [g \in Guests |->
       IF request[g].at # "idle" /\ time + 1 - request[g].since > MaxStay THEN NoRequest ELSE request[g]]
  /\ UNCHANGED <<limiter, hits, holding, token>>

TrafficNext ==
  \/ \E g \in Guests :
       \/ \E kind \in RouteKinds : AskRoute(g, kind)
       \/ TurnedAway(g) \/ CreateHold(g)
       \/ TakeToken(g) \/ GoogleIssues(g) \/ KeepToken(g) \/ CallCalendar(g)
  \/ SweepHolds \/ TimePasses

TrafficSpec == TrafficInit /\ [][TrafficNext]_trafficVars
-----------------------------------------------------------------------------
\* The fixed window does what a limit is for, at its edges too: no stretch as
\* long as a window lets in more than twice the limit, nobody is refused who has
\* not used up the limit within a window's time, and so one guest hides three
\* windows' worth of a calendar behind holds (120 s over 60 s), or four where a
\* request takes longer than some seconds, and never more.
FloodsAreBounded ==
  /\ \A k \in RouteKinds, t \in 0..time :
       Cardinality({h \in hits : h.kind = k /\ h.open /\ h.at \in t..(t + WindowTime)}) <= 2 * Limit
  /\ \A h \in hits : ~h.open =>
       Cardinality({i \in hits : i.kind = h.kind /\ i.nr < h.nr /\ i.at >= h.at - WindowTime}) >= Limit
  /\ Cardinality(LiveHolds) <= (2 + (HoldTime + MaxStay - 2) \div (WindowTime + 1)) * Limit

\* Google is never shown a token that has ended: neither the time the exchange
\* took nor the waits between retries use up the margin.
TokensLive == \A g \in Guests : Sits(g, "call") => request[g].ends > time

\* The limits of time hold at their edges: those of the windows and the holds,
\* and that of Google's token.
TimesAreKept == FloodsAreBounded /\ TokensLive
=============================================================================
