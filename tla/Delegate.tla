------------------------------ MODULE Delegate ------------------------------
(***************************************************************************)
(* The delegate handoff: a bearer of the bootstrap token activates the one *)
(* session of a delegate, whose new token ends the earlier one's; with it  *)
(* the delegate's program sends messages and polls for the answers, which  *)
(* another program writes into the table.  An answer's id is drawn from    *)
(* the table's identity column before the answer is committed, so that     *)
(* answers may be committed in another order than that of their ids.       *)
(***************************************************************************)
EXTENDS Integers, Sequences, FiniteSets

CONSTANTS
  SessionLife, \* 24 hours
  PageSize,   \* limit 50
  MaxTokens, MaxSaid, LastMoment   \* bounds: activations, messages of each side, the clock

ASSUME DelegateAssumption == {SessionLife, PageSize, MaxTokens, MaxSaid, LastMoment} \subseteq Nat /\ PageSize > 0

VARIABLES
  moment,
  session,    \* delegate_agent_sessions
  inbound,    \* the delegate's messages
  drawn,      \* ids drawn for answers, committed or not
  outbound,   \* the answers committed: their ids
  saying,     \* POST message under way, of any holder of a token
  polling,    \* the program's poll under way
  collected   \* the program's token, what it has read with it and up to which id; what
              \* was committed below that id since, and whether its last page began below it

delegateVars == <<moment, session, inbound, drawn, outbound, saying, polling, collected>>

Quiet == [at |-> "idle"]
Anew(token) == [token |-> token, read |-> {}, upTo |-> 0, late |-> {}, again |-> FALSE]

DelegateInit ==
  /\ moment = 0
  /\ session = [token |-> 0, until |-> 0, state |-> "none"]
  /\ inbound = {} /\ drawn = 0 /\ outbound = {}
  /\ saying = Quiet /\ polling = Quiet
  /\ collected = Anew(0)

\* findDelegateSessionByTokenHash
Finds(token) == token # 0 /\ session.token = token /\ session.until > moment

\* activateDelegateSession: one statement; the row stays, and its messages.
Activate ==
  /\ session.token < MaxTokens
  /\ session' = [token |-> session.token + 1, until |-> moment + SessionLife, state |-> "awaiting_codex"]
  /\ inbound' = inbound \cup {[token |-> session'.token, text |-> "active"]}
  /\ UNCHANGED <<moment, drawn, outbound, saying, polling, collected>>

\* The program is given the token of the last activation, or starts anew with it.
TakeUp ==
  /\ polling = Quiet /\ session.token # collected.token
  /\ collected' = Anew(session.token)
  /\ UNCHANGED <<moment, session, inbound, drawn, outbound, saying, polling>>

BeginSay(token) ==
  /\ saying = Quiet /\ Cardinality(inbound) < MaxSaid /\ Finds(token)
  /\ saying' = [at |-> "found", token |-> token]
  /\ UNCHANGED <<moment, session, inbound, drawn, outbound, polling, collected>>

\* addDelegateInboundMessage: the session is asked for again, by its id.
Say ==
  /\ saying.at = "found" /\ saying' = Quiet
  /\ IF session.until > moment
     THEN /\ session' = [session EXCEPT !.state = "awaiting_codex"]
          /\ inbound' = inbound \cup {[token |-> saying.token, text |-> "said"]}
     ELSE UNCHANGED <<session, inbound>>
  /\ UNCHANGED <<moment, drawn, outbound, polling, collected>>

\* The other program begins an answer, which may never be committed.
CodexDraws ==
  /\ session.token # 0 /\ drawn < MaxSaid
  /\ drawn' = drawn + 1
  /\ UNCHANGED <<moment, session, inbound, outbound, saying, polling, collected>>

\* It commits one of those it began, and says where the delegate stands.
CodexCommits ==
  /\ \E i \in (1..drawn) \ outbound :
       /\ outbound' = outbound \cup {i}
       /\ collected' = [collected EXCEPT !.late = IF i < collected.upTo THEN @ \cup {i} ELSE @]
  /\ \E state \in {"awaiting_delegate", "access_ready", "blocked"} :
       session' = [session EXCEPT !.state = state]
  /\ UNCHANGED <<moment, inbound, drawn, saying, polling>>

\* The program polls on, after what it has read, while it is told to.
BeginPoll ==
  /\ polling = Quiet /\ Finds(collected.token)
  /\ polling' = [at |-> "found", after |-> collected.upTo]
  /\ UNCHANGED <<moment, session, inbound, drawn, outbound, saying, collected>>

NotRead(after) == {i \in outbound : i > after}
Full(page, after) == page = NotRead(after) \/ Cardinality(page) = PageSize

\* Mutant: the limit without the order.
AnyPage(after) ==
  {page \in SUBSET NotRead(after) : Cardinality(page) <= PageSize /\ Full(page, after)}

\* listDelegateOutboundMessages: the first of them, by id.
Pages(after) ==
  {page \in SUBSET NotRead(after) :
     /\ Cardinality(page) <= PageSize /\ Full(page, after)
     /\ \A i \in page, j \in NotRead(after) \ page : i < j}

ReadOn(page) ==
  \/ page = {} /\ UNCHANGED collected
  \/ \E last \in page :
       /\ \A i \in page : i <= last
       /\ collected' = [collected EXCEPT !.read = @ \cup page, !.upTo = last,
                                         !.again = \E i \in page : i <= collected.upTo]

ListAnswers ==
  /\ polling.at = "found" /\ polling' = Quiet
  /\ \/ \E page \in Pages(polling.after) : ReadOn(page)
     \/ UNCHANGED collected   \* the answer fails, or is lost
  /\ UNCHANGED <<moment, session, inbound, drawn, outbound, saying>>

MomentPasses ==
  /\ moment < LastMoment /\ moment' = moment + 1
  /\ UNCHANGED <<session, inbound, drawn, outbound, saying, polling, collected>>

DelegateNext ==
  \/ Activate \/ TakeUp \/ Say \/ CodexDraws \/ CodexCommits \/ BeginPoll \/ ListAnswers \/ MomentPasses
  \/ \E token \in 1..MaxTokens : BeginSay(token)

DelegateSpec == DelegateInit /\ [][DelegateNext]_delegateVars
-----------------------------------------------------------------------------
\* The program reads nothing twice or out of order, and the only answers it passed
\* over are those committed when it had already read one with a higher id: none is
\* lost to a full page, a poll that is lost, a session that ends, one begun anew or
\* an id whose answer was never committed.
PollsMissNothing ==
  /\ ~collected.again
  /\ \A i \in outbound : i <= collected.upTo => i \in collected.read \cup collected.late

\* Not kept: an answer committed after one with a higher id was read is not read,
\* until a new session begins.
EveryAnswerIsRead == \A i \in outbound : i <= collected.upTo => i \in collected.read
=============================================================================
