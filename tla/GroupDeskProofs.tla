-------------------------- MODULE GroupDeskProofs ---------------------------
(***************************************************************************)
(* GroupDesk for every value of its constants: however many guests claim,  *)
(* cancel and move seats while sessions are published and called off,      *)
(* counter, status and seats of a session agree.  A claim counts its seat  *)
(* in one statement and makes it in another, so the invariant counts the   *)
(* claims in between (Seatless) next to the confirmed seats; the rest of   *)
(* IInv ties every seat to the one claim that made it.  Two sections of    *)
(* their own are about what is outside the table: the session's event in   *)
(* the manager's calendar, and what the guests of seats were mailed.       *)
(***************************************************************************)
EXTENDS GroupDesk, FiniteSetTheorems, TLAPS

RowsShaped == \A b \in DOMAIN row : {"status", "group"} \subseteq DOMAIN row[b]

SessionsTyped ==
  /\ DOMAIN session \subseteq Sessions
  /\ session \in [DOMAIN session -> Session]
  /\ \A s \in DOMAIN session : session[s].cap > 0
  /\ DOMAIN publish \subseteq DOMAIN session

ClaimsTyped ==
  /\ DOMAIN claim \subseteq Claims /\ IsFiniteSet(DOMAIN claim)
  /\ claim \in [DOMAIN claim -> Claim]
  /\ \A c \in DOMAIN claim : claim[c].session \in DOMAIN session

ClosingsRefer == \A x \in DOMAIN closing :
  {"pc", "session"} \subseteq DOMAIN closing[x] /\ closing[x].session \in DOMAIN session

\* A row of a session was inserted by the claim whose identity it has, which is past
\* its INSERT; no other handler makes one.
SeatRows == \A b \in DOMAIN row :
  IF row[b].group = NoSession THEN b \notin Claims
  ELSE /\ b \in DOMAIN claim /\ claim[b].session = row[b].group
       /\ claim[b].pc \notin {"key", "seat", "recheck", "insert"}
       /\ ~AnswersLost => claim[b].pc # "release"

IInv == RowsShaped /\ SessionsTyped /\ ClaimsTyped /\ ClosingsRefer /\ SeatRows /\ SeatsAgree
-----------------------------------------------------------------------------
LEMMA InitIInv == Init => IInv
<1> SUFFICES ASSUME Init PROVE IInv
  OBVIOUS
<1>1. DOMAIN row = {} /\ DOMAIN session = {} /\ DOMAIN publish = {} /\ DOMAIN claim = {} /\ DOMAIN closing = {}
  BY DEF Init, LedgerInit, GroupsInit
<1>2. IsFiniteSet(DOMAIN claim)
  BY <1>1, FS_EmptySet
<1>3. session \in [DOMAIN session -> Session] /\ claim \in [DOMAIN claim -> Claim]
  BY DEF Init, GroupsInit
<1> QED
  BY <1>1, <1>2, <1>3 DEF IInv, RowsShaped, SessionsTyped, ClaimsTyped, ClosingsRefer, SeatRows,
     SeatsAgree, SeatsCovered, StatusMatchesSeats
-----------------------------------------------------------------------------
\* What every statement but a seat's INSERT does to the rows: none is made for a
\* session, none leaves its session, none is confirmed again.
RowsFollow ==
  \A b \in DOMAIN row' :
    /\ {"status", "group"} \subseteq DOMAIN row'[b]
    /\ \/ /\ b \in DOMAIN row /\ row'[b].group = row[b].group
          /\ row'[b].status = "confirmed" => row[b].status = "confirmed"
       \/ b \in Requests /\ row'[b].group = NoSession

LEMMA SameRows ==
  ASSUME RowsShaped, UNCHANGED row
  PROVE  RowsFollow
  BY DEF RowsShaped, RowsFollow

LEMMA CreateRows ==
  ASSUME RowsShaped, CreateNext
  PROVE  RowsFollow
<1>1. ASSUME NEW r \in Requests, InsertRow(r) PROVE RowsFollow
  <2>1. row' = Put(row, r, NewRow(req[r].slot, req[r].key, NoSession))
    BY <1>1 DEF InsertRow
  <2>2. DOMAIN row' = DOMAIN row \cup {r} /\ row'[r] = NewRow(req[r].slot, req[r].key, NoSession)
        /\ \A b \in DOMAIN row \ {r} : row'[b] = row[b]
    BY <2>1 DEF Put
  <2>3. {"status", "group"} \subseteq DOMAIN row'[r] /\ row'[r].group = NoSession
    BY <2>2 DEF NewRow
  <2> QED BY <2>2, <2>3 DEF RowsFollow, RowsShaped
<1>2. ASSUME NEW r \in Requests, Rollback(r) PROVE RowsFollow
  BY <1>2 DEF Rollback, RowsFollow, RowsShaped
<1>3. ASSUME NEW r \in Requests, LinkEvent(r) PROVE RowsFollow
  BY <1>3 DEF LinkEvent, RowsFollow, RowsShaped
<1>4. UNCHANGED row \/ \E r \in Requests : InsertRow(r) \/ Rollback(r) \/ LinkEvent(r)
  BY DEF CreateNext, CreateStep, Submit, StartPassed, ReadCalendar, CalendarUnreachable,
     CheckSlot, InsertFindsKey, InsertRefused, InsertEvent, InsertEventFails, Notify, Crash, ledgerVars
<1> QED BY <1>1, <1>2, <1>3, <1>4, SameRows

LEMMA ManageRows ==
  ASSUME RowsShaped, ManageNext
  PROVE  RowsFollow
<1>1. ASSUME NEW m \in Ops, CancelRow(m) PROVE RowsFollow
  BY <1>1 DEF CancelRow, RowsFollow, RowsShaped
<1>2. ASSUME NEW m \in Ops, MoveRow(m) PROVE RowsFollow
  BY <1>2 DEF MoveRow, RowsFollow, RowsShaped
<1>3. UNCHANGED row \/ \E m \in Ops : CancelRow(m) \/ MoveRow(m)
  BY DEF ManageNext, ManageStep, OpenCancel, OpenReschedule, ReadAndCheckMove, MoveTooLate,
     MoveUnverified, UpdateFindsNothing, MoveRefused, DeleteEvent, PatchEvent, GoogleFails, SendMail,
     CrashOp, ledgerVars
<1> QED BY <1>1, <1>2, <1>3, SameRows

LEMMA ClosingRows ==
  ASSUME RowsShaped, NEW x \in Closings, CloseStep(x) \/ CloseCrash(x)
  PROVE  RowsFollow
<1>1. CASE CancelSeats(x)
  BY <1>1 DEF CancelSeats, RowsFollow, RowsShaped
<1>2. CASE ~CancelSeats(x)
  <2>1. UNCHANGED row
    BY <1>2 DEF CloseStep, CloseRefused, CloseSession, DeleteSessionEvent, DeleteSessionEventFails,
       CloseAnswer, MailSeat, CloseCrash, ledgerVars
  <2> QED BY <2>1, SameRows
<1> QED BY <1>1, <1>2
-----------------------------------------------------------------------------
\* How one step of a claim moves it: only TakeSeat brings it to the INSERT, and only a
\* failed INSERT to the release.
LEMMA ClaimMoves ==
  ASSUME SessionsTyped, ClaimsTyped, NEW c \in Claims, ClaimStep(c) \/ ClaimCrash(c)
  PROVE  /\ c \in DOMAIN claim /\ DOMAIN claim' = DOMAIN claim
         /\ \A d \in DOMAIN claim \ {c} : claim'[d] = claim[d]
         /\ claim'[c] \in Claim /\ claim'[c].session = claim[c].session
         /\ \/ TakeSeat(c) /\ claim[c].pc = "seat" /\ claim'[c].pc = "insert"
            \/ InsertSeat(c) /\ claim[c].pc = "insert" /\ claim'[c].pc = "notify"
            \/ InsertSeatFails(c) /\ claim[c].pc = "insert" /\ claim'[c].pc = "release"
            \/ Release(c) /\ claim[c].pc = "release" /\ claim'[c].pc = "done"
            \/ /\ UNCHANGED <<row, session>>
               /\ claim[c].pc \in {"key", "seat", "recheck"}
               /\ claim'[c].pc \in {"seat", "recheck", "done"}
            \/ UNCHANGED <<row, session>> /\ claim[c].pc = "notify" /\ claim'[c].pc = "done"
            \/ UNCHANGED <<row, session>> /\ claim'[c].pc = "crashed"
<1> USE DEF ClaimsTyped, ledgerVars
<1>0. c \in DOMAIN claim /\ claim[c] \in Claim
  BY DEF ClaimStep, ClaimCrash, ReadKey, TakeSeat, SeatRefused, Recheck, InsertSeat, InsertSeatFails,
     Release, NotifySeat, Claiming
<1>1. CASE ReadKey(c)
  BY <1>0, <1>1 DEF ReadKey, Claiming, ClaimGoto, ClaimAnswer, Claim
<1>2. CASE TakeSeat(c)
  BY <1>0, <1>2 DEF TakeSeat, Claiming, ClaimGoto, Claim
<1>3. CASE SeatRefused(c)
  BY <1>0, <1>3 DEF SeatRefused, Claiming, Claim
<1>4. CASE Recheck(c)
  BY <1>0, <1>4 DEF Recheck, Claiming, ClaimAnswer, Claim
<1>5. CASE InsertSeat(c)
  BY <1>0, <1>5 DEF InsertSeat, Claiming, ClaimGoto, Claim
<1>6. CASE InsertSeatFails(c)
  BY <1>0, <1>6 DEF InsertSeatFails, Claiming, ClaimGoto, Claim
<1>7. CASE Release(c)
  BY <1>0, <1>7 DEF Release, Claiming, ClaimAnswer, Claim
<1>8. CASE NotifySeat(c)
  BY <1>0, <1>8 DEF NotifySeat, Claiming, ClaimAnswer, Claim
<1>9. CASE ClaimCrash(c)
  BY <1>0, <1>9 DEF ClaimCrash, ClaimGoto, Claim
<1> QED BY <1>1, <1>2, <1>3, <1>4, <1>5, <1>6, <1>7, <1>8, <1>9 DEF ClaimStep

\* A claim that is opened is at its first step.
LEMMA ClaimOpens ==
  ASSUME SessionsTyped, ClaimsTyped, NEW c \in Claims, NEW s \in Sessions, NEW k \in Keys, OpenClaim(c, s, k)
  PROVE  /\ c \notin DOMAIN claim /\ DOMAIN claim' = DOMAIN claim \cup {c}
         /\ \A d \in DOMAIN claim : claim'[d] = claim[d]
         /\ claim'[c] \in Claim /\ claim'[c].session = s /\ s \in DOMAIN session
         /\ claim'[c].pc = "key" /\ UNCHANGED <<row, session>>
<1>1. claim' = Put(claim, c, [pc |-> "key", session |-> s, key |-> k, slot |-> session[s].slot,
                              wasFull |-> FALSE, result |-> "none"])
      /\ c \notin DOMAIN claim /\ s \in DOMAIN session /\ UNCHANGED <<row, session>>
  BY DEF OpenClaim, ledgerVars
<1>2. session[s].slot \in Interval
  BY <1>1 DEF SessionsTyped, Session
<1>3. claim'[c] = [pc |-> "key", session |-> s, key |-> k, slot |-> session[s].slot,
                   wasFull |-> FALSE, result |-> "none"]
      /\ DOMAIN claim' = DOMAIN claim \cup {c} /\ \A d \in DOMAIN claim : claim'[d] = claim[d]
  BY <1>1 DEF Put
<1>4. claim'[c] \in Claim /\ claim'[c].session = s /\ claim'[c].pc = "key"
  BY <1>2, <1>3 DEF Claim
<1> QED BY <1>1, <1>3, <1>4

\* Which handler writes which table of the sessions.
LEMMA Writers ==
  ASSUME [Next]_vars
  PROVE  /\ \/ UNCHANGED claim
            \/ \E c \in Claims, s \in Sessions, k \in Keys : OpenClaim(c, s, k)
            \/ \E c \in Claims : ClaimStep(c) \/ ClaimCrash(c)
         /\ \/ UNCHANGED session
            \/ \E s \in Sessions, i \in Interval, cap \in Capacities : OpenPublish(s, i, cap)
            \/ \E s \in Sessions : LinkSession(s) \/ RollbackSession(s)
            \/ \E c \in Claims : TakeSeat(c) \/ Release(c)
            \/ \E x \in Closings : CloseSession(x)
<1>1. CASE GroupsNext
  BY <1>1 DEF GroupsNext, PublishStep, PublishCrash, PublishEvent, PublishEventFails, LinkSession,
     LinkSessionFails, RollbackSession, OpenPublish, OpenClaim, ClaimStep, ClaimCrash, ReadKey, SeatRefused,
     Recheck, InsertSeat, InsertSeatFails, NotifySeat, OpenClosing, CloseStep, CloseCrash, CloseRefused,
     CloseSession, DeleteSessionEvent, DeleteSessionEventFails, CancelSeats, MailSeat, CloseAnswer
<1>2. CASE UNCHANGED groupVars
  BY <1>2 DEF groupVars
<1> QED BY <1>1, <1>2 DEF Next, vars, groupVars
-----------------------------------------------------------------------------
LEMMA StepSessions == IInv /\ [Next]_vars => SessionsTyped' /\ DOMAIN session \subseteq DOMAIN session'
<1> SUFFICES ASSUME IInv, [Next]_vars PROVE SessionsTyped' /\ DOMAIN session \subseteq DOMAIN session'
  OBVIOUS
<1> DEFINE Kept == /\ DOMAIN session \subseteq DOMAIN session' /\ DOMAIN session' \subseteq Sessions
                   /\ session' \in [DOMAIN session' -> Session]
                   /\ \A s \in DOMAIN session' : session'[s].cap > 0
<1> USE DEF IInv, SessionsTyped
<1>1. ASSUME NEW s \in Sessions, NEW i \in Interval, NEW cap \in Capacities, OpenPublish(s, i, cap) PROVE Kept
  <2>1. cap \in Nat /\ cap > 0
    BY GroupsAssumption
  <2>2. [status |-> "open", slot |-> i, cap |-> cap, seats |-> 0, linked |-> FALSE] \in Session
    BY <2>1 DEF Session
  <2>3. session' = Put(session, s, [status |-> "open", slot |-> i, cap |-> cap, seats |-> 0, linked |-> FALSE])
    BY <1>1 DEF OpenPublish
  <2> QED BY <2>1, <2>2, <2>3 DEF Put
<1>2. ASSUME NEW s \in Sessions, LinkSession(s) \/ RollbackSession(s) PROVE Kept
  <2>1. s \in DOMAIN session /\ session[s] \in Session
    BY <1>2 DEF LinkSession, RollbackSession, Publishing
  <2>2. [session[s] EXCEPT !.linked = TRUE] \in Session /\ [session[s] EXCEPT !.status = "cancelled"] \in Session
    BY <2>1 DEF Session
  <2>3. [session[s] EXCEPT !.linked = TRUE].cap = session[s].cap
        /\ [session[s] EXCEPT !.status = "cancelled"].cap = session[s].cap
    BY <2>1 DEF Session
  <2>4. \/ session' = [session EXCEPT ![s] = [session[s] EXCEPT !.linked = TRUE]]
        \/ session' = [session EXCEPT ![s] = [session[s] EXCEPT !.status = "cancelled"]]
    BY <1>2 DEF LinkSession, RollbackSession
  <2> QED BY <2>1, <2>2, <2>3, <2>4
<1>3. ASSUME NEW c \in Claims, TakeSeat(c) PROVE Kept
  <2>1. claim[c].session \in DOMAIN session
    BY <1>3 DEF TakeSeat, Claiming, ClaimsTyped
  <2> QED BY <1>3, <2>1 DEF TakeSeat, StatusAfterSeat, Session
<1>4. ASSUME NEW c \in Claims, Release(c) PROVE Kept
  <2>1. claim[c].session \in DOMAIN session
    BY <1>4 DEF Release, Claiming, ClaimsTyped
  <2> QED BY <1>4, <2>1 DEF Release, StatusAfterRelease, Session
<1>5. ASSUME NEW x \in Closings, CloseSession(x) PROVE Kept
  <2>1. PICK s : session' = [session EXCEPT ![s] = [session[s] EXCEPT !.status = "cancelled"]]
    BY <1>5 DEF CloseSession
  <2>2. \A v \in Session : LET u == [v EXCEPT !.status = "cancelled"] IN u \in Session /\ u.cap = v.cap
    BY DEF Session
  <2>3. \A t \in DOMAIN session : session[t] \in Session
    OBVIOUS
  <2> QED BY <2>1, <2>2, <2>3
<1>6. Kept
  BY <1>1, <1>2, <1>3, <1>4, <1>5, Writers
<1>7. DOMAIN publish' \subseteq DOMAIN session'
  <2>1. ASSUME NEW s \in Sessions, NEW i \in Interval, NEW cap \in Capacities, OpenPublish(s, i, cap)
        PROVE  DOMAIN publish' \subseteq DOMAIN session'
    BY <2>1 DEF OpenPublish, Put
  <2>2. \/ DOMAIN publish' = DOMAIN publish
        \/ \E s \in Sessions, i \in Interval, cap \in Capacities : OpenPublish(s, i, cap)
    <3>1. CASE GroupsNext
      BY <3>1 DEF GroupsNext, PublishStep, PublishCrash, PublishEvent, PublishEventFails, LinkSession,
         LinkSessionFails, RollbackSession, OpenClaim, ClaimStep, ClaimCrash, ReadKey, TakeSeat, SeatRefused,
         Recheck, InsertSeat, InsertSeatFails, Release, NotifySeat, OpenClosing, CloseStep, CloseCrash,
         CloseRefused, CloseSession, DeleteSessionEvent, DeleteSessionEventFails, CancelSeats, MailSeat,
         CloseAnswer
    <3>2. CASE UNCHANGED groupVars
      BY <3>2 DEF groupVars
    <3> QED BY <3>1, <3>2 DEF Next, vars, groupVars
  <2> QED BY <1>6, <2>1, <2>2
<1> QED BY <1>6, <1>7

LEMMA StepClaims == IInv /\ [Next]_vars => ClaimsTyped'
<1> SUFFICES ASSUME IInv, [Next]_vars PROVE ClaimsTyped'
  OBVIOUS
<1>0. DOMAIN session \subseteq DOMAIN session' /\ ClaimsTyped /\ SessionsTyped
  BY StepSessions DEF IInv
<1>1. CASE UNCHANGED claim
  BY <1>0, <1>1 DEF ClaimsTyped
<1>2. ASSUME NEW c \in Claims, NEW s \in Sessions, NEW k \in Keys, OpenClaim(c, s, k) PROVE ClaimsTyped'
  <2>1. IsFiniteSet(DOMAIN claim \cup {c})
    BY <1>0, FS_AddElement DEF ClaimsTyped
  <2>2. /\ DOMAIN claim' = DOMAIN claim \cup {c}
        /\ \A d \in DOMAIN claim : claim'[d] = claim[d]
        /\ claim'[c] \in Claim /\ claim'[c].session \in DOMAIN session
    BY <1>0, <1>2, ClaimOpens
  <2>3. claim' = [d \in DOMAIN claim' |-> claim'[d]]
    BY <1>2 DEF OpenClaim, Put
  <2> QED BY <1>0, <2>1, <2>2, <2>3 DEF ClaimsTyped
<1>3. ASSUME NEW c \in Claims, ClaimStep(c) \/ ClaimCrash(c) PROVE ClaimsTyped'
  <2>1. /\ c \in DOMAIN claim /\ DOMAIN claim' = DOMAIN claim
        /\ \A d \in DOMAIN claim \ {c} : claim'[d] = claim[d]
        /\ claim'[c] \in Claim /\ claim'[c].session = claim[c].session
    BY <1>0, <1>3, ClaimMoves
  <2>2. claim' = [d \in DOMAIN claim' |-> claim'[d]]
    BY <1>0, <1>3 DEF ClaimStep, ClaimCrash, ReadKey, TakeSeat, SeatRefused, Recheck, InsertSeat, InsertSeatFails,
       Release, NotifySeat, ClaimGoto, ClaimAnswer, ClaimsTyped
  <2> QED BY <1>0, <2>1, <2>2 DEF ClaimsTyped
<1> QED BY <1>1, <1>2, <1>3, Writers

LEMMA StepClosings == IInv /\ [Next]_vars => ClosingsRefer'
<1> SUFFICES ASSUME IInv, [Next]_vars PROVE ClosingsRefer'
  OBVIOUS
<1>0. DOMAIN session \subseteq DOMAIN session' /\ ClosingsRefer
  BY StepSessions DEF IInv
<1> USE DEF ClosingsRefer
<1>1. ASSUME NEW x \in Closings, NEW s \in Sessions, OpenClosing(x, s) PROVE ClosingsRefer'
  BY <1>0, <1>1 DEF OpenClosing, Put
<1>2. ASSUME NEW x \in Closings, CloseStep(x) \/ CloseCrash(x) PROVE ClosingsRefer'
  <2>1. CASE CloseRefused(x) \/ CloseSession(x) \/ DeleteSessionEvent(x) \/ DeleteSessionEventFails(x)
    BY <1>0, <2>1 DEF CloseRefused, CloseSession, DeleteSessionEvent, DeleteSessionEventFails, ClosingGoto
  <2>2. CASE CancelSeats(x)
    BY <1>0, <2>2 DEF CancelSeats
  <2>3. ASSUME NEW m, MailSeat(x, m) PROVE ClosingsRefer'
    BY <1>0, <2>3 DEF MailSeat
  <2>4. CASE CloseAnswer(x) \/ CloseCrash(x)
    BY <1>0, <2>4 DEF CloseAnswer, CloseCrash
  <2> QED BY <1>2, <2>1, <2>2, <2>3, <2>4 DEF CloseStep
<1>3. CASE UNCHANGED closing
  BY <1>0, <1>3
<1>4. \/ UNCHANGED closing
      \/ \E x \in Closings, s \in Sessions : OpenClosing(x, s)
      \/ \E x \in Closings : CloseStep(x) \/ CloseCrash(x)
  <2>1. CASE GroupsNext
    BY <2>1 DEF GroupsNext, PublishStep, PublishCrash, PublishEvent, PublishEventFails, LinkSession,
       LinkSessionFails, RollbackSession, OpenPublish, OpenClaim, ClaimStep, ClaimCrash, ReadKey, TakeSeat,
       SeatRefused, Recheck, InsertSeat, InsertSeatFails, Release, NotifySeat
  <2>2. CASE UNCHANGED groupVars
    BY <2>2 DEF groupVars
  <2> QED BY <2>1, <2>2 DEF Next, vars, groupVars
<1> QED BY <1>1, <1>2, <1>3, <1>4
-----------------------------------------------------------------------------
\* Every step but a seat's INSERT leaves the rows to RowsFollow.
LEMMA RowSteps ==
  ASSUME IInv, [Next]_vars
  PROVE  \/ RowsFollow
         \/ \E c \in Claims : /\ InsertSeat(c) \/ InsertSeatFails(c)
                              /\ row' = Put(row, c, NewRow(claim[c].slot, claim[c].key, claim[c].session))
                              /\ claim[c].pc = "insert"
                              /\ InsertSeatFails(c) => AnswersLost
<1>0. RowsShaped /\ SessionsTyped /\ ClaimsTyped
  BY DEF IInv
<1>1. CASE CreateNext
  BY <1>0, <1>1, CreateRows
<1>2. CASE ManageNext
  BY <1>0, <1>2, ManageRows
<1>3. ASSUME NEW x \in Closings, CloseStep(x) \/ CloseCrash(x) PROVE RowsFollow
  BY <1>0, <1>3, ClosingRows
<1>4. ASSUME NEW c \in Claims, ClaimStep(c) \/ ClaimCrash(c)
      PROVE  \/ UNCHANGED row
             \/ /\ InsertSeat(c) \/ InsertSeatFails(c)
                /\ row' = Put(row, c, NewRow(claim[c].slot, claim[c].key, claim[c].session))
                /\ claim[c].pc = "insert"
                /\ InsertSeatFails(c) => AnswersLost
  <2>1. CASE InsertSeat(c)
    BY <2>1 DEF InsertSeat, InsertSeatFails, Claiming, ClaimGoto, ClaimsTyped, Claim, Put
  <2>2. CASE InsertSeatFails(c)
    BY <2>2 DEF InsertSeatFails, Claiming
  <2>3. CASE TakeSeat(c) \/ Release(c)
    BY <2>3 DEF TakeSeat, Release, ledgerVars
  <2> QED BY <1>0, <1>4, <2>1, <2>2, <2>3, ClaimMoves
<1>5. CASE UNCHANGED row
  BY <1>0, <1>5, SameRows
<1>6. \/ CreateNext \/ ManageNext \/ UNCHANGED row
      \/ \E x \in Closings : CloseStep(x) \/ CloseCrash(x)
      \/ \E c \in Claims : ClaimStep(c) \/ ClaimCrash(c)
  BY DEF Next, Tick, vars, GroupsNext, OpenPublish, OpenClaim, OpenClosing, PublishStep, PublishCrash,
     PublishEvent, PublishEventFails, LinkSession, LinkSessionFails, RollbackSession, ledgerVars
<1> QED BY <1>1, <1>2, <1>3, <1>4, <1>5, <1>6

LEMMA StepShapes == IInv /\ [Next]_vars => RowsShaped'
<1> SUFFICES ASSUME IInv, [Next]_vars PROVE RowsShaped'
  OBVIOUS
<1>1. CASE RowsFollow
  BY <1>1 DEF RowsFollow, RowsShaped
<1>2. ASSUME NEW c \in Claims, row' = Put(row, c, NewRow(claim[c].slot, claim[c].key, claim[c].session))
      PROVE  RowsShaped'
  <2>1. \A b \in DOMAIN row' : IF b = c THEN row'[b] = NewRow(claim[c].slot, claim[c].key, claim[c].session)
                               ELSE b \in DOMAIN row /\ row'[b] = row[b]
    BY <1>2 DEF Put
  <2>2. {"status", "group"} \subseteq DOMAIN NewRow(claim[c].slot, claim[c].key, claim[c].session)
    BY DEF NewRow
  <2> QED BY <2>1, <2>2 DEF IInv, RowsShaped
<1> QED BY <1>1, <1>2, RowSteps

\* The invocations of a claim only move on, so a row that its claim has made stays
\* the row of that claim.
LEMMA MadeStaysMade ==
  ASSUME IInv, [Next]_vars, NEW b \in DOMAIN claim,
         claim[b].pc \notin {"key", "seat", "recheck", "insert"}, ~AnswersLost => claim[b].pc # "release"
  PROVE  /\ b \in DOMAIN claim' /\ claim'[b].session = claim[b].session
         /\ claim'[b].pc \notin {"key", "seat", "recheck", "insert"}
         /\ ~AnswersLost => claim'[b].pc # "release"
<1>0. SessionsTyped /\ ClaimsTyped
  BY DEF IInv
<1>1. ASSUME NEW c \in Claims, NEW s \in Sessions, NEW k \in Keys, OpenClaim(c, s, k)
      PROVE  b \in DOMAIN claim' /\ claim'[b] = claim[b]
  BY <1>0, <1>1, ClaimOpens
<1>2. ASSUME NEW c \in Claims, ClaimStep(c) \/ ClaimCrash(c)
      PROVE  /\ b \in DOMAIN claim' /\ claim'[b].session = claim[b].session
             /\ claim'[b].pc \notin {"key", "seat", "recheck", "insert"}
             /\ ~AnswersLost => claim'[b].pc # "release"
  <2>1. CASE b # c
    BY <1>0, <1>2, <2>1, ClaimMoves
  <2>2. CASE b = c
    BY <1>0, <1>2, <2>2, ClaimMoves
  <2> QED BY <2>1, <2>2
<1> QED BY <1>1, <1>2, Writers

LEMMA StepSeatRows == IInv /\ [Next]_vars => SeatRows'
<1> SUFFICES ASSUME IInv, [Next]_vars, NEW b \in DOMAIN row'
             PROVE  IF row'[b].group = NoSession THEN b \notin Claims
                    ELSE /\ b \in DOMAIN claim' /\ claim'[b].session = row'[b].group
                         /\ claim'[b].pc \notin {"key", "seat", "recheck", "insert"}
                         /\ ~AnswersLost => claim'[b].pc # "release"
  BY DEF SeatRows
<1> DEFINE Kept == IF row'[b].group = NoSession THEN b \notin Claims
                    ELSE /\ b \in DOMAIN claim' /\ claim'[b].session = row'[b].group
                         /\ claim'[b].pc \notin {"key", "seat", "recheck", "insert"}
                         /\ ~AnswersLost => claim'[b].pc # "release"
<1>0. SessionsTyped /\ ClaimsTyped /\ SeatRows
  BY DEF IInv
<1>1. ASSUME b \in DOMAIN row, row'[b].group = row[b].group PROVE Kept
  <2>1. CASE row[b].group = NoSession
    BY <1>0, <1>1, <2>1 DEF SeatRows
  <2>2. CASE row[b].group # NoSession
    <3>1. /\ b \in DOMAIN claim /\ claim[b].session = row[b].group
          /\ claim[b].pc \notin {"key", "seat", "recheck", "insert"}
          /\ ~AnswersLost => claim[b].pc # "release"
      BY <1>0, <1>1, <2>2 DEF SeatRows
    <3> QED BY <1>1, <2>2, <3>1, MadeStaysMade
  <2> QED BY <2>1, <2>2
<1>2. CASE RowsFollow
  <2>1. CASE b \in Requests /\ row'[b].group = NoSession
    BY <2>1, GroupDeskAssumption
  <2> QED BY <1>1, <1>2, <2>1 DEF RowsFollow
<1>3. ASSUME NEW c \in Claims, InsertSeat(c) \/ InsertSeatFails(c),
             row' = Put(row, c, NewRow(claim[c].slot, claim[c].key, claim[c].session)),
             InsertSeatFails(c) => AnswersLost
      PROVE  Kept
  <2>1. CASE b # c
    <3>1. b \in DOMAIN row /\ row'[b] = row[b]
      BY <1>3, <2>1 DEF Put
    <3> QED BY <1>1, <3>1
  <2>2. CASE b = c
    <3>1. row'[b].group = claim[c].session
      BY <1>3, <2>2 DEF Put, NewRow
    <3>2. c \in DOMAIN claim /\ claim[c].session \in Sessions
      BY <1>0, <1>3 DEF InsertSeat, InsertSeatFails, Claiming, ClaimsTyped, SessionsTyped
    <3>3. row'[b].group # NoSession
      BY <3>1, <3>2, LedgerAssumption
    <3>4. c \in DOMAIN claim' /\ claim'[c].session = claim[c].session
          /\ claim'[c].pc \in {"notify", "release"} /\ (~AnswersLost => claim'[c].pc # "release")
      <4>1. CASE InsertSeat(c)
        BY <1>0, <3>2, <4>1 DEF InsertSeat, ClaimGoto, ClaimsTyped, Claim
      <4>2. CASE InsertSeatFails(c)
        BY <1>0, <1>3, <3>2, <4>2 DEF InsertSeatFails, ClaimGoto, ClaimsTyped, Claim
      <4> QED BY <1>3, <4>1, <4>2
    <3> QED BY <2>2, <3>1, <3>3, <3>4
  <2> QED BY <2>1, <2>2
<1> QED BY <1>2, <1>3, RowSteps
-----------------------------------------------------------------------------
\* Seats and claims between the counting and the making are few: both belong to claims.
LEMMA SeatsFinite ==
  ASSUME ClaimsTyped, SeatRows, NEW s \in Sessions
  PROVE  /\ IsFiniteSet(Seats(s)) /\ IsFiniteSet(Seatless(s))
         /\ Cardinality(Seats(s)) \in Nat /\ Cardinality(Seatless(s)) \in Nat
<1>1. Seats(s) \in SUBSET DOMAIN claim
  BY LedgerAssumption DEF Seats, SeatRows, Confirmed
<1>2. Seatless(s) \in SUBSET DOMAIN claim
  BY DEF Seatless
<1>3. IsFiniteSet(Seats(s)) /\ IsFiniteSet(Seatless(s))
  BY <1>1, <1>2, FS_Subset DEF ClaimsTyped
<1> QED BY <1>3, FS_CardinalityType

\* Where no statement but a seat's INSERT ran, a session has no new seats.
LEMMA SeatsShrink ==
  ASSUME IInv, RowsFollow, NEW s \in Sessions
  PROVE  Seats(s)' \subseteq Seats(s)
  BY LedgerAssumption DEF RowsFollow, Seats, Confirmed

\* A step that takes no seat, makes none and gives none back.
LEMMA QuietSeats ==
  ASSUME IInv, NEW s \in DOMAIN session, s \in DOMAIN session',
         session'[s].seats = session[s].seats, session'[s].cap = session[s].cap,
         Seats(s)' \subseteq Seats(s), Seatless(s)' \subseteq Seatless(s), ~AnswersLost
  PROVE  /\ Cardinality(Seats(s)') + Cardinality(Seatless(s)') <= session'[s].seats
         /\ session'[s].seats <= session'[s].cap
<1>0. s \in Sessions /\ ClaimsTyped /\ SeatRows /\ session[s].seats \in Nat
  BY DEF IInv, SessionsTyped, Session
<1>1. /\ IsFiniteSet(Seats(s)) /\ IsFiniteSet(Seatless(s))
      /\ Cardinality(Seats(s)) \in Nat /\ Cardinality(Seatless(s)) \in Nat
  BY <1>0, SeatsFinite
<1>2. Cardinality(Seats(s)') <= Cardinality(Seats(s)) /\ Cardinality(Seats(s)') \in Nat
  BY <1>1, FS_Subset, FS_CardinalityType
<1>3. Cardinality(Seatless(s)') <= Cardinality(Seatless(s)) /\ Cardinality(Seatless(s)') \in Nat
  BY <1>1, FS_Subset, FS_CardinalityType
<1>4. /\ Cardinality(Seats(s)) + Cardinality(Seatless(s)) <= session[s].seats
      /\ session[s].seats <= session[s].cap
  BY DEF IInv, SeatsAgree, SeatsCovered
<1> QED BY <1>0, <1>1, <1>2, <1>3, <1>4

\* Only counting a seat adds a claim that has not made its own.
LEMMA SeatlessShrinks ==
  ASSUME IInv, [Next]_vars, NEW s \in Sessions,
         \A c \in Claims : TakeSeat(c) => claim[c].session # s
  PROVE  Seatless(s)' \subseteq Seatless(s)
<1> SUFFICES ASSUME NEW d \in Seatless(s)' PROVE d \in Seatless(s)
  OBVIOUS
<1>0. SessionsTyped /\ ClaimsTyped
  BY DEF IInv
<1>1. d \in DOMAIN claim' /\ claim'[d].session = s /\ claim'[d].pc \in {"insert", "release"}
  BY DEF Seatless
<1>2. ASSUME NEW c \in Claims, NEW t \in Sessions, NEW k \in Keys, OpenClaim(c, t, k)
      PROVE  d \in Seatless(s)
  <2>1. d # c /\ d \in DOMAIN claim /\ claim'[d] = claim[d]
    BY <1>0, <1>1, <1>2, ClaimOpens
  <2> QED BY <1>1, <2>1 DEF Seatless
<1>3. ASSUME NEW c \in Claims, ClaimStep(c) \/ ClaimCrash(c)
      PROVE  d \in Seatless(s)
  <2>1. CASE d # c
    <3>1. d \in DOMAIN claim /\ claim'[d] = claim[d]
      BY <1>0, <1>1, <1>3, <2>1, ClaimMoves
    <3> QED BY <1>1, <3>1 DEF Seatless
  <2>2. CASE d = c
    <3>1. c \in DOMAIN claim /\ claim[c].session = s /\ claim[c].pc = "insert"
      BY <1>0, <1>1, <1>3, <2>2, ClaimMoves
    <3> QED BY <2>2, <3>1 DEF Seatless
  <2> QED BY <2>1, <2>2
<1>4. CASE UNCHANGED claim
  BY <1>1, <1>4 DEF Seatless
<1> QED BY <1>2, <1>3, <1>4, Writers

\* The counting of a seat: one more taken, one more claim between.
LEMMA TakeSeatCovered ==
  ASSUME IInv, NEW c \in Claims, TakeSeat(c), ~AnswersLost, NEW s, s = claim[c].session
  PROVE  /\ Cardinality(Seats(s)') + Cardinality(Seatless(s)') <= session'[s].seats
         /\ session'[s].seats <= session'[s].cap
<1>0. SessionsTyped /\ ClaimsTyped /\ SeatRows
  BY DEF IInv
<1>1. c \in DOMAIN claim /\ claim[c].pc = "seat" /\ s \in DOMAIN session /\ s \in Sessions
      /\ session[s] \in Session
  BY <1>0 DEF TakeSeat, Claiming, ClaimsTyped, SessionsTyped
<1>2. session'[s].seats = session[s].seats + 1 /\ session'[s].cap = session[s].cap
      /\ session[s].seats < session[s].cap
  BY <1>0, <1>1 DEF TakeSeat, SeatFree, SessionsTyped, Session
<1>3. Seats(s)' = Seats(s)
  BY DEF TakeSeat, ledgerVars, Seats, Confirmed
<1>4. Seatless(s)' \subseteq Seatless(s) \cup {c} /\ c \notin Seatless(s)
  BY <1>0, <1>1 DEF TakeSeat, ClaimGoto, Seatless, ClaimsTyped, Claim
<1>5. /\ IsFiniteSet(Seatless(s))
      /\ Cardinality(Seats(s)) \in Nat /\ Cardinality(Seatless(s)) \in Nat
  BY <1>0, <1>1, SeatsFinite
<1>6. IsFiniteSet(Seatless(s) \cup {c}) /\ Cardinality(Seatless(s) \cup {c}) = Cardinality(Seatless(s)) + 1
  BY <1>4, <1>5, FS_AddElement
<1>7. Cardinality(Seatless(s)') <= Cardinality(Seatless(s)) + 1 /\ Cardinality(Seatless(s)') \in Nat
  BY <1>4, <1>6, FS_Subset, FS_CardinalityType
<1>8. Cardinality(Seats(s)) + Cardinality(Seatless(s)) <= session[s].seats
  BY <1>1 DEF IInv, SeatsAgree, SeatsCovered
<1> QED BY <1>1, <1>2, <1>3, <1>5, <1>7, <1>8 DEF Session

\* The making of a seat: the claim leaves the ones between for the seats.
LEMMA InsertSeatCovered ==
  ASSUME IInv, NEW c \in Claims, InsertSeat(c), ~AnswersLost, NEW s, s = claim[c].session
  PROVE  /\ Cardinality(Seats(s)') + Cardinality(Seatless(s)') <= session'[s].seats
         /\ session'[s].seats <= session'[s].cap
<1>0. SessionsTyped /\ ClaimsTyped /\ SeatRows
  BY DEF IInv
<1>1. c \in DOMAIN claim /\ claim[c].pc = "insert" /\ s \in DOMAIN session /\ s \in Sessions
      /\ session[s] \in Session
  BY <1>0 DEF InsertSeat, Claiming, ClaimsTyped, SessionsTyped
<1>2. session' = session
  BY DEF InsertSeat
<1>3. c \notin DOMAIN row
  BY <1>1 DEF IInv, SeatRows
<1>4. Seats(s)' \subseteq Seats(s) \cup {c}
  BY DEF InsertSeat, Put, Seats, Confirmed
<1>5. c \notin Seats(s) /\ c \in Seatless(s)
  BY <1>1, <1>3 DEF Seats, Confirmed, Seatless
<1>6. Seatless(s)' \subseteq Seatless(s) \ {c}
  BY <1>0, <1>1 DEF InsertSeat, ClaimGoto, Seatless, ClaimsTyped, Claim
<1>7. /\ IsFiniteSet(Seats(s)) /\ IsFiniteSet(Seatless(s))
      /\ Cardinality(Seats(s)) \in Nat /\ Cardinality(Seatless(s)) \in Nat
  BY <1>0, <1>1, SeatsFinite
<1>8. IsFiniteSet(Seats(s) \cup {c}) /\ Cardinality(Seats(s) \cup {c}) = Cardinality(Seats(s)) + 1
  BY <1>5, <1>7, FS_AddElement
<1>9. IsFiniteSet(Seatless(s) \ {c}) /\ Cardinality(Seatless(s) \ {c}) = Cardinality(Seatless(s)) - 1
  BY <1>5, <1>7, FS_RemoveElement
<1>10. Cardinality(Seats(s)') <= Cardinality(Seats(s)) + 1 /\ Cardinality(Seats(s)') \in Nat
  BY <1>4, <1>8, FS_Subset, FS_CardinalityType
<1>11. Cardinality(Seatless(s)') <= Cardinality(Seatless(s)) - 1 /\ Cardinality(Seatless(s)') \in Nat
  BY <1>6, <1>9, FS_Subset, FS_CardinalityType
<1>12. /\ Cardinality(Seats(s)) + Cardinality(Seatless(s)) <= session[s].seats
       /\ session[s].seats <= session[s].cap
  BY <1>1 DEF IInv, SeatsAgree, SeatsCovered
<1> QED BY <1>1, <1>2, <1>7, <1>10, <1>11, <1>12 DEF Session

\* The release: one claim between less, one seat less.
LEMMA ReleaseCovered ==
  ASSUME IInv, NEW c \in Claims, Release(c), ~AnswersLost, NEW s, s = claim[c].session
  PROVE  /\ Cardinality(Seats(s)') + Cardinality(Seatless(s)') <= session'[s].seats
         /\ session'[s].seats <= session'[s].cap
<1>0. SessionsTyped /\ ClaimsTyped /\ SeatRows
  BY DEF IInv
<1>1. c \in DOMAIN claim /\ claim[c].pc = "release" /\ s \in DOMAIN session /\ s \in Sessions
      /\ session[s] \in Session
  BY <1>0 DEF Release, Claiming, ClaimsTyped, SessionsTyped
<1>2. session'[s].seats = (IF session[s].seats > 0 THEN session[s].seats - 1 ELSE 0)
      /\ session'[s].cap = session[s].cap
  BY <1>0, <1>1 DEF Release, SessionsTyped, Session
<1>3. Seats(s)' = Seats(s)
  BY DEF Release, ledgerVars, Seats, Confirmed
<1>4. Seatless(s)' \subseteq Seatless(s) \ {c} /\ c \in Seatless(s)
  BY <1>0, <1>1 DEF Release, ClaimAnswer, Seatless, ClaimsTyped, Claim
<1>5. /\ IsFiniteSet(Seatless(s))
      /\ Cardinality(Seats(s)) \in Nat /\ Cardinality(Seatless(s)) \in Nat
  BY <1>0, <1>1, SeatsFinite
<1>6. IsFiniteSet(Seatless(s) \ {c}) /\ Cardinality(Seatless(s) \ {c}) = Cardinality(Seatless(s)) - 1
  BY <1>4, <1>5, FS_RemoveElement
<1>7. Cardinality(Seatless(s)') <= Cardinality(Seatless(s)) - 1 /\ Cardinality(Seatless(s)') \in Nat
  BY <1>4, <1>6, FS_Subset, FS_CardinalityType
<1>8. /\ Cardinality(Seats(s)) + Cardinality(Seatless(s)) <= session[s].seats
      /\ session[s].seats <= session[s].cap
  BY <1>1 DEF IInv, SeatsAgree, SeatsCovered
<1> QED BY <1>1, <1>2, <1>3, <1>5, <1>7, <1>8 DEF Session

LEMMA StepCovered == IInv /\ [Next]_vars => SeatsCovered'
<1> SUFFICES ASSUME IInv, [Next]_vars, ~AnswersLost, NEW s \in DOMAIN session'
             PROVE  /\ Cardinality(Seats(s)') + Cardinality(Seatless(s)') <= session'[s].seats
                    /\ session'[s].seats <= session'[s].cap
  BY DEF SeatsCovered
<1> DEFINE Covered == /\ Cardinality(Seats(s)') + Cardinality(Seatless(s)') <= session'[s].seats
                      /\ session'[s].seats <= session'[s].cap
<1>0. SessionsTyped /\ ClaimsTyped /\ SeatRows /\ s \in Sessions
  BY StepSessions DEF IInv, SessionsTyped
<1>1. CASE s \notin DOMAIN session
  <2>1. PICK i \in Interval, cap \in Capacities : OpenPublish(s, i, cap)
    <3>1. ~ \E c \in Claims : TakeSeat(c) \/ Release(c)
      BY <1>0, <1>1 DEF TakeSeat, Release, Claiming, ClaimsTyped
    <3>2. ASSUME NEW t \in Sessions, LinkSession(t) \/ RollbackSession(t) PROVE FALSE
      BY <1>1, <3>2 DEF LinkSession, RollbackSession
    <3>3. ASSUME NEW x \in Closings, CloseSession(x) PROVE FALSE
      BY <1>1, <3>3 DEF CloseSession
    <3>4. PICK t \in Sessions, i \in Interval, cap \in Capacities : OpenPublish(t, i, cap)
      BY <1>1, <3>1, <3>2, <3>3, Writers
    <3>5. t = s
      BY <1>1, <3>4 DEF OpenPublish, Put
    <3> QED BY <3>4, <3>5
  <2>2. session'[s].seats = 0 /\ session'[s].cap = cap /\ cap \in Nat
    BY <2>1, GroupsAssumption DEF OpenPublish, Put
  <2>3. Seats(s)' = {}
    BY <1>0, <1>1, <2>1, LedgerAssumption DEF OpenPublish, ledgerVars, Seats, Confirmed, SeatRows, ClaimsTyped
  <2>4. Seatless(s)' = {}
    BY <1>0, <1>1, <2>1 DEF OpenPublish, Seatless, ClaimsTyped
  <2> QED BY <2>2, <2>3, <2>4, FS_EmptySet
<1>2. CASE s \in DOMAIN session /\ \E c \in Claims : TakeSeat(c) /\ claim[c].session = s
  BY <1>2, TakeSeatCovered
<1>3. CASE s \in DOMAIN session /\ \E c \in Claims : InsertSeat(c) /\ claim[c].session = s
  BY <1>3, InsertSeatCovered
<1>4. CASE s \in DOMAIN session /\ \E c \in Claims : Release(c) /\ claim[c].session = s
  BY <1>4, ReleaseCovered
<1>5. CASE /\ s \in DOMAIN session
           /\ \A c \in Claims : claim[c].session = s => ~TakeSeat(c) /\ ~InsertSeat(c) /\ ~Release(c)
  <2>1. Seatless(s)' \subseteq Seatless(s)
    BY <1>0, <1>5, SeatlessShrinks
  <2>2. Seats(s)' \subseteq Seats(s)
    <3>1. CASE RowsFollow
      BY <1>0, <3>1, SeatsShrink
    <3>2. ASSUME NEW c \in Claims, InsertSeat(c) \/ InsertSeatFails(c), InsertSeatFails(c) => AnswersLost
          PROVE  Seats(s)' \subseteq Seats(s)
      <4>1. InsertSeat(c) /\ claim[c].session # s
        BY <1>5, <3>2
      <4> QED BY <4>1 DEF InsertSeat, Put, NewRow, Seats, Confirmed
    <3> QED BY <3>1, <3>2, RowSteps
  <2>3. session'[s].seats = session[s].seats /\ session'[s].cap = session[s].cap
    <3>1. ASSUME NEW t \in Sessions, NEW i \in Interval, NEW cap \in Capacities, OpenPublish(t, i, cap)
          PROVE  session'[s] = session[s]
      BY <1>5, <3>1 DEF OpenPublish, Put
    <3>2. ASSUME NEW t \in Sessions, LinkSession(t) \/ RollbackSession(t)
          PROVE  session'[s].seats = session[s].seats /\ session'[s].cap = session[s].cap
      BY <1>0, <1>5, <3>2 DEF LinkSession, RollbackSession, SessionsTyped, Session
    <3>3. ASSUME NEW c \in Claims, TakeSeat(c) \/ Release(c)
          PROVE  session'[s] = session[s]
      BY <1>5, <3>3 DEF TakeSeat, Release
    <3>4. ASSUME NEW x \in Closings, CloseSession(x)
          PROVE  session'[s].seats = session[s].seats /\ session'[s].cap = session[s].cap
      BY <1>0, <1>5, <3>4 DEF CloseSession, SessionsTyped, Session
    <3> QED BY <3>1, <3>2, <3>3, <3>4, Writers
  <2> QED BY <1>5, <2>1, <2>2, <2>3, QuietSeats
<1> QED BY <1>1, <1>2, <1>3, <1>4, <1>5

LEMMA StepStatus == IInv /\ [Next]_vars => StatusMatchesSeats'
<1> SUFFICES ASSUME IInv, [Next]_vars, NEW s \in DOMAIN session'
             PROVE  /\ session'[s].status = "open" => session'[s].seats < session'[s].cap
                    /\ session'[s].status = "full" => session'[s].seats = session'[s].cap
  BY DEF StatusMatchesSeats
<1> DEFINE Matches == /\ session'[s].status = "open" => session'[s].seats < session'[s].cap
                      /\ session'[s].status = "full" => session'[s].seats = session'[s].cap
<1>0. SessionsTyped /\ ClaimsTyped /\ StatusMatchesSeats
  BY DEF IInv, SeatsAgree
<1>1. ASSUME s \in DOMAIN session, session'[s] = session[s] PROVE Matches
  BY <1>0, <1>1 DEF StatusMatchesSeats
<1>2. ASSUME NEW t \in Sessions, NEW i \in Interval, NEW cap \in Capacities, OpenPublish(t, i, cap)
      PROVE  Matches
  <2>1. CASE s = t
    BY <1>2, <2>1, GroupsAssumption DEF OpenPublish, Put
  <2>2. CASE s # t
    BY <1>1, <1>2, <2>2 DEF OpenPublish, Put
  <2> QED BY <2>1, <2>2
<1>3. ASSUME NEW t \in Sessions, LinkSession(t) \/ RollbackSession(t) PROVE Matches
  BY <1>0, <1>3 DEF LinkSession, RollbackSession, StatusMatchesSeats, SessionsTyped, Session
<1>4. ASSUME NEW x \in Closings, CloseSession(x) PROVE Matches
  BY <1>0, <1>4 DEF CloseSession, StatusMatchesSeats, SessionsTyped, Session
<1>5. ASSUME NEW c \in Claims, TakeSeat(c) \/ Release(c) PROVE Matches
  <2>1. claim[c].session \in DOMAIN session /\ session[claim[c].session] \in Session
        /\ session[claim[c].session].cap > 0
    BY <1>0, <1>5 DEF TakeSeat, Release, Claiming, ClaimsTyped, SessionsTyped
  <2>2. CASE s # claim[c].session
    BY <1>1, <1>5, <2>2 DEF TakeSeat, Release
  <2>3. CASE s = claim[c].session /\ TakeSeat(c)
    <3>1. /\ session'[s].seats = session[s].seats + 1 /\ session'[s].cap = session[s].cap
          /\ session'[s].status = StatusAfterSeat(s)
      BY <1>0, <2>1, <2>3 DEF TakeSeat, Session, SessionsTyped
    <3>2. session[s].seats < session[s].cap
      BY <2>3 DEF TakeSeat, SeatFree
    <3> QED BY <2>1, <2>3, <3>1, <3>2 DEF StatusAfterSeat, Session
  <2>4. CASE s = claim[c].session /\ Release(c)
    <3>1. /\ session'[s].seats = (IF session[s].seats > 0 THEN session[s].seats - 1 ELSE 0)
          /\ session'[s].cap = session[s].cap /\ session'[s].status = StatusAfterRelease(s)
      BY <1>0, <2>1, <2>4 DEF Release, Session, SessionsTyped
    <3>2. /\ session[s].status = "open" => session[s].seats < session[s].cap
          /\ session[s].status = "full" => session[s].seats = session[s].cap
      BY <1>0, <2>1, <2>4 DEF StatusMatchesSeats
    <3> QED BY <2>1, <2>4, <3>1, <3>2 DEF StatusAfterRelease, Session
  <2> QED BY <1>5, <2>2, <2>3, <2>4
<1> QED BY <1>1, <1>2, <1>3, <1>4, <1>5, Writers
-----------------------------------------------------------------------------
\* The invariant behind every theorem of this module: what the statements of claims,
\* closings, publications and the guests' own handlers keep.
THEOREM Inductive == Spec => []IInv
<1>1. IInv /\ [Next]_vars => IInv'
  BY StepShapes, StepSessions, StepClaims, StepClosings, StepSeatRows, StepCovered, StepStatus
     DEF IInv, SeatsAgree
<1> QED BY InitIInv, <1>1, PTL DEF Spec

\* However many guests claim, retry, cancel and move seats of however many sessions,
\* with crashes, failed INSERTs and closings in between: seats_taken covers the seats
\* that are confirmed or being made, never exceeds the capacity, and status agrees
\* with it (claimSeat's two conditional UPDATEs of group_session).
THEOREM NeverOversold == Spec => []SeatsAgree
<1>1. IInv => SeatsAgree
  BY DEF IInv
<1> QED BY Inductive, <1>1, PTL

\* No claim, release, publication or rollback reopens a session that was called off.
THEOREM CallingOffFinal == Spec => CalledOffIsFinal
<1>1. ASSUME IInv, [Next]_vars
      PROVE  \A s \in DOMAIN session :
               session[s].status = "cancelled" => session'[s].status = "cancelled"
  <2> SUFFICES ASSUME NEW s \in DOMAIN session, session[s].status = "cancelled"
               PROVE  session'[s].status = "cancelled"
    OBVIOUS
  <2>0. SessionsTyped /\ ClaimsTyped
    BY <1>1 DEF IInv
  <2>1. ASSUME NEW t \in Sessions, NEW i \in Interval, NEW cap \in Capacities, OpenPublish(t, i, cap)
        PROVE  session'[s] = session[s]
    BY <2>1 DEF OpenPublish, Put
  <2>2. ASSUME NEW t \in Sessions, LinkSession(t) \/ RollbackSession(t)
        PROVE  session'[s].status = "cancelled"
    BY <1>1, <2>0, <2>2 DEF LinkSession, RollbackSession, SessionsTyped, Session
  <2>3. ASSUME NEW c \in Claims, TakeSeat(c) PROVE session'[s] = session[s]
    BY <1>1, <2>3 DEF TakeSeat, SeatFree
  <2>4. ASSUME NEW c \in Claims, Release(c) PROVE session'[s].status = "cancelled"
    BY <1>1, <2>0, <2>4 DEF Release, StatusAfterRelease, SessionsTyped, Session
  <2>5. ASSUME NEW x \in Closings, CloseSession(x) PROVE session'[s].status = "cancelled"
    BY <1>1, <2>0, <2>5 DEF CloseSession, SessionsTyped, Session
  <2> QED BY <1>1, <2>1, <2>2, <2>3, <2>4, <2>5, Writers
<1> QED BY Inductive, <1>1, PTL DEF Spec, CalledOffIsFinal
-----------------------------------------------------------------------------
(* The session's event in the manager's calendar.  It is made before the   *)
(* session is linked and deleted after the session is called off, and only *)
(* by a closing that read the session linked; so it can outlive a session  *)
(* that nobody was alerted of only when some closing did not know it.      *)

\* What every handler of a session reads of the others.
JobsKnown ==
  /\ DOMAIN publish = DOMAIN session
  /\ \A m \in DOMAIN op : "id" \in DOMAIN op[m] /\ op[m].id \in Ids
  /\ \A x \in DOMAIN closing :
       /\ "linked" \in DOMAIN closing[x]
       /\ closing[x].linked => session[closing[x].session].linked
       /\ closing[x].pc = "google" =>
            closing[x].linked /\ session[closing[x].session].status = "cancelled"

Unaware(s) == \E x \in DOMAIN closing : closing[x].session = s /\ ~closing[x].linked

Deleting(s) == \E x \in DOMAIN closing :
  closing[x].session = s /\ closing[x].pc \in {"google", "crashed"}

EventKnown(s) ==
  /\ publish[s] = "link" => s \in DOMAIN event
  /\ session[s].linked => publish[s] = "done"
  /\ publish[s] = "done" => session[s].linked \/ s \in alerted
  /\ session[s].linked /\ session[s].status # "cancelled" => s \in DOMAIN event
  /\ session[s].status = "cancelled" =>
       \/ s \in alerted \/ Unaware(s)
       \/ session[s].linked /\ (s \notin DOMAIN event \/ Deleting(s))

SessionInv == JobsKnown /\ (CalendarConfigured => \A s \in DOMAIN session : EventKnown(s))

LEMMA InitSession == Init => SessionInv
  BY DEF Init, LedgerInit, CreateInit, ManageInit, GroupsInit, SessionInv, JobsKnown

\* What the event of a session is compared with has not changed.
LEMMA StillKnown ==
  ASSUME NEW s, EventKnown(s), publish'[s] = publish[s], session'[s].linked = session[s].linked,
         session'[s].status = "cancelled" <=> session[s].status = "cancelled",
         s \in DOMAIN event' <=> s \in DOMAIN event, alerted \subseteq alerted',
         Unaware(s) => Unaware(s)', Deleting(s) => Deleting(s)'
  PROVE  EventKnown(s)'
  BY DEF EventKnown

\* The guests' handlers and the bookings of 1:1s leave the sessions' events alone.
LEMMA OthersEvents ==
  ASSUME JobsKnown, CreateNext \/ ManageNext \/ Tick \/ UNCHANGED ledgerVars
  PROVE  /\ \A s \in Sessions : s \in DOMAIN event' <=> s \in DOMAIN event
         /\ alerted \subseteq alerted'
<1>1. ASSUME NEW r \in Requests, InsertEvent(r) \/ InsertEventFails(r)
      PROVE  \A s \in Sessions : s \in DOMAIN event' <=> s \in DOMAIN event
  BY <1>1, CreateAssumption, LedgerAssumption DEF InsertEvent, InsertEventFails, Put
<1>2. ASSUME NEW m \in Ops, DeleteEvent(m) \/ PatchEvent(m) \/ GoogleFails(m)
      PROVE  \A s \in Sessions : s \in DOMAIN event' <=> s \in DOMAIN event
  <2>1. op[m].id \in Ids
    BY <1>2 DEF DeleteEvent, PatchEvent, GoogleFails, Pc, JobsKnown
  <2>2. event' = event \/ event' = Drop(event, op[m].id) \/ event' = [event EXCEPT ![op[m].id] = op[m].to]
    BY <1>2 DEF DeleteEvent, PatchEvent, GoogleFails
  <2> QED BY <2>1, <2>2, LedgerAssumption DEF Drop
<1>3. \/ UNCHANGED event
      \/ \E r \in Requests : InsertEvent(r) \/ InsertEventFails(r)
      \/ \E m \in Ops : DeleteEvent(m) \/ PatchEvent(m) \/ GoogleFails(m)
  BY DEF CreateNext, CreateStep, Submit, StartPassed, ReadCalendar, CalendarUnreachable, CheckSlot,
     InsertFindsKey, InsertRefused, InsertRow, Rollback, LinkEvent, Notify, Crash,
     ManageNext, ManageStep, OpenCancel, OpenReschedule, ReadAndCheckMove, MoveTooLate,
     MoveUnverified, UpdateFindsNothing, CancelRow, MoveRefused, MoveRow, SendMail, CrashOp, Tick, ledgerVars
<1>4. CASE CreateNext
  <2>1. alerted \subseteq alerted'
    BY <1>4 DEF CreateNext, CreateStep, Submit, StartPassed, ReadCalendar, CalendarUnreachable, CheckSlot,
       InsertFindsKey, InsertRefused, InsertRow, InsertEvent, InsertEventFails, Rollback, LinkEvent, Notify,
       Crash, ledgerVars
  <2> QED BY <1>1, <1>2, <1>3, <2>1
<1>5. CASE ManageNext
  <2>1. alerted \subseteq alerted'
    BY <1>5 DEF ManageNext, ManageStep, OpenCancel, OpenReschedule, ReadAndCheckMove, MoveTooLate,
       MoveUnverified, UpdateFindsNothing, CancelRow, MoveRefused, MoveRow, DeleteEvent, PatchEvent,
       GoogleFails, SendMail, CrashOp, ledgerVars
  <2> QED BY <1>1, <1>2, <1>3, <2>1
<1>6. CASE Tick \/ UNCHANGED ledgerVars
  <2>1. alerted \subseteq alerted'
    BY <1>6 DEF Tick, ledgerVars
  <2> QED BY <1>1, <1>2, <1>3, <2>1
<1> QED BY <1>4, <1>5, <1>6

\* The handlers of the guest's link carry the identity of a booking.
LEMMA OpsCarryIds ==
  ASSUME JobsKnown, ManageNext
  PROVE  \A m \in DOMAIN op' : "id" \in DOMAIN op'[m] /\ op'[m].id \in Ids
<1> USE DEF JobsKnown
<1>1. ASSUME NEW m \in Ops, NEW b \in Ids, OpenCancel(m, b) \/ \E s \in Starts : OpenReschedule(m, b, s)
      PROVE  \A n \in DOMAIN op' : "id" \in DOMAIN op'[n] /\ op'[n].id \in Ids
  BY <1>1 DEF OpenCancel, OpenReschedule, Put
<1>2. ASSUME NEW m \in Ops, ManageStep(m) \/ CrashOp(m)
      PROVE  \A n \in DOMAIN op' : "id" \in DOMAIN op'[n] /\ op'[n].id \in Ids
  <2>1. CASE ReadAndCheckMove(m) \/ MoveTooLate(m) \/ MoveUnverified(m) \/ UpdateFindsNothing(m)
             \/ MoveRefused(m) \/ SendMail(m)
    BY <2>1 DEF ReadAndCheckMove, CheckMove, MoveTooLate, MoveUnverified, UpdateFindsNothing, MoveRefused,
       SendMail, Finish
  <2>2. CASE CancelRow(m) \/ MoveRow(m)
    <3>1. PICK p, n : op' = [op EXCEPT ![m].pc = p, ![m].seq = n]
      BY <2>2 DEF CancelRow, MoveRow
    <3> QED BY <3>1
  <2>3. CASE DeleteEvent(m) \/ PatchEvent(m) \/ GoogleFails(m) \/ CrashOp(m)
    BY <2>3 DEF DeleteEvent, PatchEvent, GoogleFails, CrashOp
  <2> QED BY <1>2, <2>1, <2>2, <2>3 DEF ManageStep
<1> QED BY <1>1, <1>2 DEF ManageNext

LEMMA OthersSession ==
  ASSUME IInv, SessionInv, ManageNext \/ ((CreateNext \/ Tick) /\ UNCHANGED op), UNCHANGED groupVars
  PROVE  SessionInv'
<1>1. JobsKnown'
  <2>1. \A m \in DOMAIN op' : "id" \in DOMAIN op'[m] /\ op'[m].id \in Ids
    BY OpsCarryIds DEF SessionInv, JobsKnown
  <2> QED BY <2>1 DEF SessionInv, JobsKnown, groupVars
<1>2. ASSUME CalendarConfigured, NEW s \in DOMAIN session PROVE EventKnown(s)'
  <2>1. EventKnown(s) /\ s \in Sessions /\ JobsKnown
    BY <1>2 DEF SessionInv, IInv, SessionsTyped
  <2>2. (s \in DOMAIN event' <=> s \in DOMAIN event) /\ alerted \subseteq alerted'
    BY <2>1, OthersEvents
  <2>3. (Unaware(s) => Unaware(s)') /\ (Deleting(s) => Deleting(s)')
    BY DEF Unaware, Deleting, groupVars
  <2> QED BY <2>1, <2>2, <2>3, StillKnown DEF groupVars
<1> QED BY <1>1, <1>2 DEF SessionInv, groupVars

LEMMA PublicationSession ==
  ASSUME IInv, SessionInv, NEW s \in Sessions, UNCHANGED op,
         PublishStep(s) \/ PublishCrash(s) \/ \E i \in Interval, cap \in Capacities : OpenPublish(s, i, cap)
  PROVE  SessionInv'
<1>0. JobsKnown /\ SessionsTyped /\ ClosingsRefer
  BY DEF SessionInv, IInv
<1> USE DEF JobsKnown
<1>1. closing' = closing /\ alerted \subseteq alerted'
      /\ \A t \in Sessions \ {s} : t \in DOMAIN event' <=> t \in DOMAIN event
  BY DEF PublishStep, PublishCrash, PublishEvent, PublishEventFails, LinkSession, LinkSessionFails,
     RollbackSession, OpenPublish, ledgerVars, Put
<1>2. /\ DOMAIN publish' = DOMAIN session'
      /\ DOMAIN session' = DOMAIN session \cup {s}
      /\ \A t \in DOMAIN session \ {s} : session'[t] = session[t] /\ publish'[t] = publish[t]
  <2>1. CASE \E i \in Interval, cap \in Capacities : OpenPublish(s, i, cap)
    BY <1>0, <2>1 DEF OpenPublish, Put
  <2>2. CASE PublishStep(s) \/ PublishCrash(s)
    BY <1>0, <2>2, ZenonT(20) DEF PublishStep, PublishCrash, PublishEvent, PublishEventFails, LinkSession,
       LinkSessionFails, RollbackSession, Publishing
  <2> QED BY <2>1, <2>2
<1>3. s \in DOMAIN session => /\ session[s].linked => session'[s].linked
                              /\ session[s].status = "cancelled" => session'[s].status = "cancelled"
  <2>1. CASE \E i \in Interval, cap \in Capacities : OpenPublish(s, i, cap)
    BY <2>1 DEF OpenPublish
  <2>2. CASE LinkSession(s) \/ RollbackSession(s)
    BY <1>0, <2>2 DEF LinkSession, RollbackSession, SessionsTyped, Session
  <2>3. CASE UNCHANGED session
    BY <2>3
  <2> QED BY <2>1, <2>2, <2>3 DEF PublishStep, PublishCrash, PublishEvent, PublishEventFails, LinkSessionFails
<1>4. JobsKnown'
  BY <1>0, <1>1, <1>2, <1>3 DEF ClosingsRefer
<1>5. \A t : (Unaware(t) <=> Unaware(t)') /\ (Deleting(t) <=> Deleting(t)')
  BY <1>1 DEF Unaware, Deleting
<1>6. ASSUME CalendarConfigured, NEW t \in DOMAIN session', t # s PROVE EventKnown(t)'
  <2>1. t \in DOMAIN session /\ t \in Sessions /\ EventKnown(t)
    BY <1>0, <1>2, <1>6 DEF SessionInv, SessionsTyped
  <2> QED BY <1>1, <1>2, <1>5, <1>6, <2>1, StillKnown
<1>7. ASSUME CalendarConfigured PROVE EventKnown(s)'
  <2>1. CASE \E i \in Interval, cap \in Capacities : OpenPublish(s, i, cap)
    <3>1. publish'[s] = "google" /\ session'[s].status = "open" /\ ~session'[s].linked
      BY <1>7, <2>1 DEF OpenPublish, Put
    <3> QED BY <3>1 DEF EventKnown
  <2>2. ASSUME PublishStep(s) \/ PublishCrash(s)
        PROVE  EventKnown(s) /\ s \in DOMAIN session /\ session[s] \in Session
    BY <1>0, <1>7, <2>2 DEF SessionInv, SessionsTyped, PublishStep, PublishCrash, PublishEvent,
       PublishEventFails, LinkSession, LinkSessionFails, RollbackSession, Publishing
  <2>3. CASE PublishEvent(s) \/ PublishEventFails(s)
    <3>1. /\ publish[s] = "google" /\ session' = session /\ alerted' = alerted
          /\ publish'[s] \in {"link", "rollback"} /\ (publish'[s] = "link" => s \in DOMAIN event')
      BY <1>0, <2>2, <2>3 DEF PublishStep, PublishEvent, PublishEventFails, Publishing, Put
    <3> QED BY <1>5, <2>2, <2>3, <3>1 DEF EventKnown, PublishStep
  <2>4. CASE LinkSession(s)
    <3>1. /\ publish[s] = "link" /\ publish'[s] = "done" /\ event' = event /\ alerted' = alerted
          /\ session'[s].linked /\ session'[s].status = session[s].status
      BY <1>0, <2>2, <2>4 DEF PublishStep, LinkSession, Publishing, Session, ledgerVars
    <3> QED BY <1>5, <2>2, <2>4, <3>1 DEF EventKnown, PublishStep
  <2>5. CASE LinkSessionFails(s) \/ PublishCrash(s)
    <3>1. /\ publish[s] # "done" /\ publish'[s] \in {"rollback", "crashed"} /\ event' = event
          /\ session' = session /\ alerted' = alerted
      BY <1>0, <2>2, <2>5 DEF PublishStep, PublishCrash, LinkSessionFails, Publishing, ledgerVars
    <3> QED BY <1>5, <2>2, <2>5, <3>1 DEF EventKnown, PublishStep
  <2>6. CASE RollbackSession(s)
    <3>1. /\ publish[s] = "rollback" /\ publish'[s] = "done" /\ s \in alerted'
          /\ session'[s].status = "cancelled" /\ session'[s].linked = session[s].linked
      BY <1>0, <2>2, <2>6 DEF PublishStep, RollbackSession, Publishing, Session
    <3> QED BY <2>2, <2>6, <3>1 DEF EventKnown, PublishStep
  <2> QED BY <2>1, <2>3, <2>4, <2>5, <2>6 DEF PublishStep
<1> QED BY <1>2, <1>4, <1>6, <1>7 DEF SessionInv

LEMMA ClaimSession ==
  ASSUME IInv, SessionInv, UNCHANGED op, NEW c \in Claims,
         ClaimStep(c) \/ ClaimCrash(c) \/ \E s \in Sessions, k \in Keys : OpenClaim(c, s, k)
  PROVE  SessionInv'
<1>0. JobsKnown /\ SessionsTyped /\ ClaimsTyped /\ ClosingsRefer
  BY DEF SessionInv, IInv
<1>1. UNCHANGED <<publish, closing, event>> /\ alerted \subseteq alerted'
  BY DEF ClaimStep, ClaimCrash, OpenClaim, ReadKey, TakeSeat, SeatRefused, Recheck, InsertSeat,
     InsertSeatFails, Release, NotifySeat, ledgerVars
<1>2. /\ DOMAIN session' = DOMAIN session
      /\ \A s \in DOMAIN session :
           /\ session'[s].linked = session[s].linked
           /\ session'[s].status = "cancelled" <=> session[s].status = "cancelled"
  <2>1. CASE TakeSeat(c)
    <3>1. SeatFree(claim[c].session) /\ StatusAfterSeat(claim[c].session) # "cancelled"
      BY <2>1 DEF TakeSeat, StatusAfterSeat
    <3> QED BY <1>0, <2>1, <3>1 DEF TakeSeat, SeatFree, SessionsTyped, Session
  <2>2. CASE Release(c)
    <3>1. StatusAfterRelease(claim[c].session) = "cancelled" <=> session[claim[c].session].status = "cancelled"
      BY DEF StatusAfterRelease
    <3> QED BY <1>0, <2>2, <3>1 DEF Release, SessionsTyped, Session
  <2>3. CASE UNCHANGED session
    BY <2>3
  <2> QED BY <2>1, <2>2, <2>3 DEF ClaimStep, ClaimCrash, OpenClaim, ReadKey, SeatRefused, Recheck, InsertSeat,
     InsertSeatFails, NotifySeat
<1>3. JobsKnown'
  BY <1>0, <1>1, <1>2 DEF JobsKnown, ClosingsRefer
<1>4. ASSUME CalendarConfigured, NEW s \in DOMAIN session PROVE EventKnown(s)'
  <2>1. (Unaware(s) => Unaware(s)') /\ (Deleting(s) => Deleting(s)')
    BY <1>1 DEF Unaware, Deleting
  <2> QED BY <1>1, <1>2, <1>4, <2>1, StillKnown DEF SessionInv
<1> QED BY <1>2, <1>3, <1>4 DEF SessionInv

\* How one step of a closing moves it.
LEMMA ClosingMoves ==
  ASSUME IInv, JobsKnown, NEW x \in Closings, CloseStep(x) \/ CloseCrash(x)
  PROVE  /\ x \in DOMAIN closing /\ DOMAIN closing' = DOMAIN closing
         /\ \A y \in DOMAIN closing \ {x} : closing'[y] = closing[y]
         /\ closing'[x].session = closing[x].session /\ closing'[x].linked = closing[x].linked
         /\ {"pc", "session", "linked"} \subseteq DOMAIN closing'[x]
         /\ \/ CloseSession(x) /\ closing'[x].pc = AfterClose(x) /\ UNCHANGED event
            \/ DeleteSessionEvent(x) /\ closing[x].pc = "google" /\ closing'[x].pc = "seats"
            \/ DeleteSessionEventFails(x) /\ closing[x].pc = "google" /\ closing'[x].pc = "seats"
            \/ closing'[x].pc = "crashed" /\ UNCHANGED <<session, event, alerted>>
            \/ /\ UNCHANGED <<session, event>> /\ closing[x].pc # "google" /\ closing'[x].pc # "google"
               /\ closing[x].pc # "crashed" /\ alerted \subseteq alerted'
<1>0. x \in DOMAIN closing /\ {"pc", "session", "linked"} \subseteq DOMAIN closing[x]
  BY DEF CloseStep, CloseCrash, CloseRefused, CloseSession, DeleteSessionEvent, DeleteSessionEventFails,
     CancelSeats, MailSeat, CloseAnswer, IsClosing, IInv, ClosingsRefer, JobsKnown
<1> USE DEF ledgerVars
<1>1. CASE CloseRefused(x)
  BY <1>0, <1>1 DEF CloseRefused, ClosingGoto, IsClosing
<1>2. CASE CloseSession(x)
  BY <1>0, <1>2 DEF CloseSession, ClosingGoto
<1>3. CASE DeleteSessionEvent(x)
  BY <1>0, <1>3 DEF DeleteSessionEvent, ClosingGoto, IsClosing
<1>4. CASE DeleteSessionEventFails(x)
  BY <1>0, <1>4 DEF DeleteSessionEventFails, ClosingGoto, IsClosing
<1>5. CASE CancelSeats(x)
  BY <1>0, <1>5 DEF CancelSeats, IsClosing
<1>6. ASSUME NEW m, MailSeat(x, m)
      PROVE  /\ DOMAIN closing' = DOMAIN closing
             /\ \A y \in DOMAIN closing \ {x} : closing'[y] = closing[y]
             /\ closing'[x].session = closing[x].session /\ closing'[x].linked = closing[x].linked
             /\ {"pc", "session", "linked"} \subseteq DOMAIN closing'[x]
             /\ UNCHANGED <<session, event, alerted>> /\ closing[x].pc = "mails" /\ closing'[x].pc = "mails"
  BY <1>0, <1>6 DEF MailSeat, IsClosing
<1>7. CASE CloseAnswer(x)
  BY <1>0, <1>7 DEF CloseAnswer, IsClosing
<1>8. CASE CloseCrash(x)
  BY <1>0, <1>8 DEF CloseCrash
<1> QED BY <1>0, <1>1, <1>2, <1>3, <1>4, <1>5, <1>6, <1>7, <1>8 DEF CloseStep

LEMMA ClosingSession ==
  ASSUME IInv, SessionInv, UNCHANGED op, NEW x \in Closings, CloseStep(x) \/ CloseCrash(x)
  PROVE  SessionInv'
<1> PICK s : s = closing[x].session
  OBVIOUS
<1>0. JobsKnown /\ SessionsTyped /\ ClosingsRefer
  BY DEF SessionInv, IInv
<1>1. /\ x \in DOMAIN closing /\ DOMAIN closing' = DOMAIN closing
      /\ \A y \in DOMAIN closing \ {x} : closing'[y] = closing[y]
      /\ closing'[x].session = s /\ closing'[x].linked = closing[x].linked
      /\ {"pc", "session", "linked"} \subseteq DOMAIN closing'[x]
  BY <1>0, ClosingMoves
<1>2. s \in DOMAIN session /\ s \in Sessions /\ session[s] \in Session
      /\ (closing[x].linked => session[s].linked)
      /\ (closing[x].pc = "google" => closing[x].linked /\ session[s].status = "cancelled")
  BY <1>0, <1>1 DEF JobsKnown, ClosingsRefer, SessionsTyped
<1>3. UNCHANGED publish
  BY DEF CloseStep, CloseCrash, CloseRefused, CloseSession, DeleteSessionEvent, DeleteSessionEventFails,
     CancelSeats, MailSeat, CloseAnswer
<1>4. /\ DOMAIN session' = DOMAIN session /\ \A t \in DOMAIN session \ {s} : session'[t] = session[t]
      /\ session'[s].linked = session[s].linked
      /\ session[s].status = "cancelled" => session'[s].status = "cancelled"
      /\ CloseSession(x) => session'[s].status = "cancelled"
  <2>1. CASE CloseSession(x)
    BY <1>2, <2>1 DEF CloseSession, Session
  <2>2. CASE UNCHANGED session /\ ~CloseSession(x)
    BY <2>2
  <2> QED BY <1>0, <2>1, <2>2, ClosingMoves DEF DeleteSessionEvent, DeleteSessionEventFails
<1>5. closing'[x].pc = "google" => closing[x].linked /\ session'[s].status = "cancelled"
  <2>1. CASE CloseSession(x) /\ closing'[x].pc = AfterClose(x)
    BY <1>4, <2>1 DEF AfterClose
  <2>2. CASE DeleteSessionEvent(x) \/ DeleteSessionEventFails(x)
    BY <1>0, <2>2, ClosingMoves DEF CloseSession, DeleteSessionEvent, DeleteSessionEventFails, IsClosing
  <2> QED BY <1>0, <2>1, <2>2, ClosingMoves
<1>6. JobsKnown'
  BY <1>0, <1>1, <1>2, <1>3, <1>4, <1>5 DEF JobsKnown, ClosingsRefer
<1>7. \A t \in DOMAIN session : Unaware(t) <=> Unaware(t)'
  BY <1>1 DEF Unaware
<1>8. ASSUME CalendarConfigured, NEW t \in DOMAIN session, t # s PROVE EventKnown(t)'
  <2>1. t \in DOMAIN event' <=> t \in DOMAIN event
    BY <1>0, <1>8, ClosingMoves DEF DeleteSessionEvent, DeleteSessionEventFails, Drop
  <2>2. Deleting(t) => Deleting(t)'
    BY <1>1, <1>8 DEF Deleting
  <2>3. alerted \subseteq alerted'
    BY <1>0, ClosingMoves DEF DeleteSessionEvent, DeleteSessionEventFails, CloseSession, ledgerVars
  <2> QED BY <1>3, <1>4, <1>7, <1>8, <2>1, <2>2, <2>3, StillKnown DEF SessionInv
<1>9. ASSUME CalendarConfigured PROVE EventKnown(s)'
  <2>0. EventKnown(s)
    BY <1>2, <1>9 DEF SessionInv
  <2>1. CASE CloseSession(x) /\ closing'[x].pc = AfterClose(x)
    <3>1. UNCHANGED <<event, alerted>>
      BY <2>1 DEF CloseSession, ledgerVars
    <3>2. CASE closing[x].linked
      <4>1. closing'[x].pc = "google" /\ session'[s].linked
        BY <1>2, <1>4, <1>9, <2>1, <3>2 DEF AfterClose
      <4>2. Deleting(s)'
        BY <1>1, <4>1 DEF Deleting
      <4> QED BY <1>3, <1>4, <2>0, <2>1, <3>1, <4>1, <4>2 DEF EventKnown
    <3>3. CASE ~closing[x].linked
      <4>1. Unaware(s)'
        BY <1>1, <3>3 DEF Unaware
      <4> QED BY <1>3, <1>4, <2>0, <2>1, <3>1, <4>1 DEF EventKnown
    <3> QED BY <3>2, <3>3
  <2>2. CASE DeleteSessionEvent(x)
    <3>1. s \notin DOMAIN event' /\ session' = session /\ alerted' = alerted
      BY <2>2 DEF DeleteSessionEvent, Drop
    <3>2. session[s].linked /\ session[s].status = "cancelled" /\ publish[s] = "done"
      BY <1>2, <2>0, <2>2 DEF DeleteSessionEvent, IsClosing, EventKnown
    <3> QED BY <1>3, <3>1, <3>2 DEF EventKnown
  <2>3. CASE DeleteSessionEventFails(x)
    <3>1. s \in alerted' /\ session' = session
      BY <2>3 DEF DeleteSessionEventFails
    <3>2. session[s].linked /\ session[s].status = "cancelled" /\ publish[s] = "done"
      BY <1>2, <2>0, <2>3 DEF DeleteSessionEventFails, IsClosing, EventKnown
    <3> QED BY <1>3, <3>1, <3>2 DEF EventKnown
  <2>4. CASE closing'[x].pc = "crashed" /\ UNCHANGED <<session, event, alerted>>
    <3>1. Deleting(s) => Deleting(s)'
      BY <1>1, <2>4 DEF Deleting
    <3> QED BY <1>2, <1>3, <1>7, <2>0, <2>4, <3>1, StillKnown
  <2>5. CASE /\ UNCHANGED <<session, event>> /\ closing[x].pc # "google" /\ closing'[x].pc # "google"
             /\ closing[x].pc # "crashed" /\ alerted \subseteq alerted'
    <3>1. Deleting(s) => Deleting(s)'
      BY <1>1, <2>5 DEF Deleting
    <3> QED BY <1>2, <1>3, <1>7, <2>0, <2>5, <3>1, StillKnown
  <2> QED BY <1>0, <2>1, <2>2, <2>3, <2>4, <2>5, ClosingMoves
<1> QED BY <1>4, <1>6, <1>8, <1>9 DEF SessionInv

LEMMA OpenClosingSession ==
  ASSUME IInv, SessionInv, UNCHANGED op, NEW x \in Closings, NEW s \in Sessions, OpenClosing(x, s)
  PROVE  SessionInv'
<1>0. JobsKnown /\ SessionsTyped /\ ClosingsRefer
  BY DEF SessionInv, IInv
<1>1. /\ x \notin DOMAIN closing /\ DOMAIN closing' = DOMAIN closing \cup {x}
      /\ \A y \in DOMAIN closing : closing'[y] = closing[y]
      /\ "linked" \in DOMAIN closing'[x] /\ closing'[x].session = s
      /\ closing'[x].linked = session[s].linked /\ closing'[x].pc = "update"
      /\ UNCHANGED <<session, publish, event, alerted>>
  BY DEF OpenClosing, Put, ledgerVars
<1>2. JobsKnown'
  BY <1>0, <1>1 DEF JobsKnown
<1>3. ASSUME CalendarConfigured, NEW t \in DOMAIN session PROVE EventKnown(t)'
  <2>1. (Unaware(t) => Unaware(t)') /\ (Deleting(t) => Deleting(t)')
    BY <1>1 DEF Unaware, Deleting
  <2> QED BY <1>1, <1>3, <2>1, StillKnown DEF SessionInv
<1> QED BY <1>1, <1>2, <1>3 DEF SessionInv

LEMMA StepSession == IInv /\ SessionInv /\ [Next]_vars => SessionInv'
<1> SUFFICES ASSUME IInv, SessionInv, [Next]_vars PROVE SessionInv'
  OBVIOUS
<1>1. CASE GroupsNext /\ UNCHANGED op
  <2>1. CASE \E s \in Sessions : \/ PublishStep(s) \/ PublishCrash(s)
                                 \/ \E i \in Interval, cap \in Capacities : OpenPublish(s, i, cap)
    BY <1>1, <2>1, PublicationSession
  <2>2. CASE \E c \in Claims : \/ ClaimStep(c) \/ ClaimCrash(c)
                               \/ \E s \in Sessions, k \in Keys : OpenClaim(c, s, k)
    BY <1>1, <2>2, ClaimSession
  <2>3. CASE \E x \in Closings : CloseStep(x) \/ CloseCrash(x)
    BY <1>1, <2>3, ClosingSession
  <2>4. CASE \E x \in Closings, s \in Sessions : OpenClosing(x, s)
    BY <1>1, <2>4, OpenClosingSession
  <2> QED BY <1>1, <2>1, <2>2, <2>3, <2>4 DEF GroupsNext
<1>2. CASE (CreateNext \/ Tick) /\ UNCHANGED <<op, groupVars>>
  BY <1>2, OthersSession
<1>3. CASE ManageNext /\ UNCHANGED groupVars
  BY <1>3, OthersSession
<1>4. CASE UNCHANGED vars
  <2>1. JobsKnown'
    BY <1>4 DEF SessionInv, JobsKnown, vars
  <2>2. ASSUME CalendarConfigured, NEW t \in DOMAIN session PROVE EventKnown(t)'
    <3>1. (Unaware(t) => Unaware(t)') /\ (Deleting(t) => Deleting(t)')
      BY <1>4 DEF Unaware, Deleting, vars
    <3> QED BY <1>4, <2>2, <3>1, StillKnown DEF SessionInv, vars
  <2> QED BY <1>4, <2>1, <2>2 DEF SessionInv, vars
<1> QED BY <1>1, <1>2, <1>3, <1>4 DEF Next, groupVars

\* However publications, claims, releases and closings of sessions interleave and
\* crash: once those that know a session's event have run to their end and nobody was
\* alerted, it is on the calendar exactly when the session was not called off
\* (createGroupSession inserts the event before it links the session,
\* cancelGroupSession deletes it after its UPDATE).
THEOREM SessionEventFollows == Spec => []SessionCalendarFollows
<1>1. IInv /\ [Next]_vars => IInv'
  BY StepShapes, StepSessions, StepClaims, StepClosings, StepSeatRows, StepCovered, StepStatus
     DEF IInv, SeatsAgree
<1>2. ASSUME SessionInv, CalendarConfigured, NEW s \in DOMAIN session \ alerted, SessionSettled(s),
             \A x \in DOMAIN closing : closing[x].session = s => closing[x].linked
      PROVE  session[s].status # "cancelled" <=> s \in DOMAIN event
  <2>1. EventKnown(s) /\ publish[s] = "done"
    BY <1>2 DEF SessionInv, SessionSettled
  <2>2. ~Unaware(s) /\ ~Deleting(s)
    BY <1>2 DEF Unaware, Deleting, SessionSettled
  <2> QED BY <1>2, <2>1, <2>2 DEF EventKnown
<1>3. SessionInv => SessionCalendarFollows
  BY <1>2 DEF SessionCalendarFollows
<1> QED BY InitIInv, InitSession, <1>1, <1>3, StepSession, PTL DEF Spec
-----------------------------------------------------------------------------
\* Everything that guests are or will be told.
Notice(m) == [id |-> op[m].id, seq |-> op[m].seq, slot |-> op[m].to,
              method |-> IF op[m].kind = "cancel" THEN "CANCEL" ELSE "REQUEST"]

Said == mail \cup {Notice(m) : m \in {n \in DOMAIN op : op[n].pc \in {"google", "mail"}}}
             \cup UNION {closing[x].todo : x \in DOMAIN closing}

SaysTheRow(x) ==
  IF x.method = "CANCEL" THEN row[x.id].status = "cancelled"
  ELSE row[x.id].status = "confirmed" /\ x.slot = row[x.id].slot

Shaped ==
  /\ \A b \in DOMAIN row : {"slot", "seq"} \subseteq DOMAIN row[b] /\ row[b].seq \in Nat
  /\ \A r \in DOMAIN req : {"pc", "slot"} \subseteq DOMAIN req[r]
  /\ \A m \in DOMAIN op : {"pc", "kind", "id", "to", "seq"} \subseteq DOMAIN op[m]
  /\ \A x \in DOMAIN closing : "todo" \in DOMAIN closing[x]

\* The row of a 1:1 booking was inserted by the request whose identity it has.
RequestRows ==
  /\ DOMAIN req \subseteq Requests
  /\ \A b \in DOMAIN row : row[b].group = NoSession =>
       b \in DOMAIN req /\ req[b].pc \notin {"calendar", "rows", "insert"}

\* A guest with a manage link was answered.
LinkedWhenDone ==
  /\ \A b \in link : b \in DOMAIN row
  /\ \A b \in link : b \in Requests => b \in DOMAIN req /\ req[b].pc = "done"
  /\ \A b \in link : b \in Claims => b \in DOMAIN claim /\ claim[b].pc = "done"
  /\ \A m \in DOMAIN op : op[m].id \in link

\* Until then the row is as it was inserted: a request's in any case, a seat's until
\* its session is called off.
AsInserted ==
  /\ \A r \in DOMAIN req : req[r].pc \in {"google", "link", "rollback", "notify"} =>
       r \in DOMAIN row /\ row[r].seq = 0 /\ row[r].slot = req[r].slot /\ row[r].status = "confirmed"
  /\ \A c \in DOMAIN claim : claim[c].pc = "notify" =>
       /\ c \in DOMAIN row
       /\ row[c].seq = 0 => row[c].slot = claim[c].slot /\ row[c].status = "confirmed"

NeverAhead ==
  \A x \in Said : /\ x.id \in DOMAIN row /\ x.seq \in Nat /\ x.seq <= row[x.id].seq
                  /\ x.seq = row[x.id].seq => SaysTheRow(x)
                  /\ x.seq = 0 => x.id \in link
                  /\ x.id \in Requests => x.id \in link

OneMailPerNumber == \A x, y \in Said : x.id = y.id /\ x.seq = y.seq => x = y

MInv == IInv /\ Shaped /\ RequestRows /\ LinkedWhenDone /\ AsInserted /\ NeverAhead /\ OneMailPerNumber
-----------------------------------------------------------------------------
LEMMA InitMInv == Init => MInv
<1> SUFFICES ASSUME Init PROVE MInv
  OBVIOUS
<1>1. DOMAIN row = {} /\ DOMAIN req = {} /\ DOMAIN op = {} /\ DOMAIN claim = {} /\ DOMAIN closing = {}
      /\ link = {} /\ mail = {}
  BY DEF Init, LedgerInit, CreateInit, ManageInit, GroupsInit
<1>2. Said = {}
  BY <1>1 DEF Said
<1> QED
  BY <1>1, <1>2, InitIInv DEF MInv, Shaped, RequestRows, LinkedWhenDone, AsInserted, NeverAhead,
     OneMailPerNumber

\* How one step of createBooking moves its invocation.
LEMMA RequestMoves ==
  ASSUME Shaped, NEW r \in Requests, CreateStep(r) \/ Crash(r)
  PROVE  /\ r \in DOMAIN req /\ DOMAIN req' = DOMAIN req
         /\ \A q \in DOMAIN req \ {r} : req'[q] = req[q]
         /\ {"pc", "slot"} \subseteq DOMAIN req'[r] /\ req'[r].slot = req[r].slot /\ req[r].pc # "done"
         /\ \/ /\ InsertRow(r) /\ req[r].pc = "insert" /\ req'[r].pc \in {"google", "notify"}
               /\ UNCHANGED <<mail, link>>
            \/ /\ LinkEvent(r) /\ req[r].pc = "link" /\ req'[r].pc = "notify"
               /\ UNCHANGED <<mail, link>>
            \/ /\ Rollback(r) /\ req[r].pc = "rollback" /\ req'[r].pc = "done"
               /\ UNCHANGED <<mail, link>>
            \/ Notify(r) /\ req[r].pc = "notify" /\ req'[r].pc = "done" /\ UNCHANGED row
            \/ /\ UNCHANGED <<row, mail, link>>
               /\ \/ req'[r].pc \in {"done", "crashed", "calendar", "rows", "insert"}
                     /\ req[r].pc \in {"calendar", "rows", "insert"}
                  \/ req'[r].pc \in {"link", "rollback"} /\ req[r].pc = "google"
                  \/ req'[r].pc = "crashed"
<1> USE DEF ledgerVars
<1>0. r \in DOMAIN req /\ req[r].pc # "done" /\ {"pc", "slot"} \subseteq DOMAIN req[r]
  BY DEF CreateStep, StartPassed, ReadCalendar, CalendarUnreachable, CheckSlot, InsertFindsKey,
         InsertRefused, InsertRow, InsertEvent, InsertEventFails, Rollback, LinkEvent, Notify,
         Crash, At, Shaped
<1>1. CASE StartPassed(r) \/ CalendarUnreachable(r) \/ InsertRefused(r)
  BY <1>0, <1>1 DEF StartPassed, CalendarUnreachable, InsertRefused, Answer, At
<1>2. CASE ReadCalendar(r)
  BY <1>0, <1>2 DEF ReadCalendar, At
<1>3. CASE CheckSlot(r)
  BY <1>0, <1>3 DEF CheckSlot, At
<1>4. CASE InsertFindsKey(r)
  BY <1>0, <1>4 DEF InsertFindsKey, At
<1>5. CASE InsertRow(r)
  BY <1>0, <1>5 DEF InsertRow, Goto, At
<1>6. CASE InsertEvent(r)
  BY <1>0, <1>6 DEF InsertEvent, Goto, At
<1>7. CASE InsertEventFails(r)
  BY <1>0, <1>7 DEF InsertEventFails, Goto, At
<1>8. CASE Rollback(r)
  BY <1>0, <1>8 DEF Rollback, Answer, At
<1>9. CASE LinkEvent(r)
  BY <1>0, <1>9 DEF LinkEvent, Goto, At
<1>10. CASE Notify(r)
  BY <1>0, <1>10 DEF Notify, Answer, At
<1>11. CASE Crash(r)
  BY <1>0, <1>11 DEF Crash
<1> QED BY <1>1, <1>2, <1>3, <1>4, <1>5, <1>6, <1>7, <1>8, <1>9, <1>10, <1>11 DEF CreateStep

\* How one step of a cancel or a move does.
LEMMA OpMoves ==
  ASSUME Shaped, NEW m \in Ops, ManageStep(m) \/ CrashOp(m)
  PROVE  /\ m \in DOMAIN op /\ DOMAIN op' = DOMAIN op
         /\ \A n \in DOMAIN op \ {m} : op'[n] = op[n]
         /\ {"pc", "kind", "id", "to", "seq"} \subseteq DOMAIN op'[m]
         /\ op'[m].id = op[m].id /\ op'[m].to = op[m].to /\ op'[m].kind = op[m].kind
         /\ UNCHANGED link
         /\ \/ /\ CancelRow(m) \/ MoveRow(m)
               /\ op'[m].seq = NextSeq(op[m].id) /\ UNCHANGED mail
            \/ /\ UNCHANGED <<row, mail>> /\ op[m].pc = "google" /\ op'[m].seq = op[m].seq
            \/ /\ UNCHANGED row /\ op'[m].pc \in {"update", "done", "crashed"} /\ mail' \subseteq Said
<1> USE DEF ledgerVars
<1>0. m \in DOMAIN op /\ {"pc", "kind", "id", "to", "seq"} \subseteq DOMAIN op[m]
  BY DEF ManageStep, ReadAndCheckMove, MoveTooLate, MoveUnverified, UpdateFindsNothing, CancelRow,
         MoveRefused, MoveRow, DeleteEvent, PatchEvent, GoogleFails, SendMail, CrashOp, Pc, Shaped
<1>1. CASE ReadAndCheckMove(m)
  BY <1>0, <1>1 DEF ReadAndCheckMove, CheckMove, Finish, Said
<1>2. CASE MoveTooLate(m) \/ MoveUnverified(m) \/ UpdateFindsNothing(m) \/ MoveRefused(m)
  BY <1>0, <1>2 DEF MoveTooLate, MoveUnverified, UpdateFindsNothing, MoveRefused, Finish, Said
<1>3. CASE CancelRow(m)
  BY <1>0, <1>3 DEF CancelRow
<1>4. CASE MoveRow(m)
  BY <1>0, <1>4 DEF MoveRow
<1>5. CASE DeleteEvent(m) \/ PatchEvent(m) \/ GoogleFails(m)
  BY <1>0, <1>5 DEF DeleteEvent, PatchEvent, GoogleFails, Pc
<1>6. CASE SendMail(m)
  <2>1. Notice(m) \in Said
    BY <1>0, <1>6 DEF SendMail, Pc, Said
  <2>2. mail' \subseteq Said
    BY <1>6, <2>1 DEF SendMail, Notice, Said
  <2> QED BY <1>0, <1>6, <2>2 DEF SendMail, Finish
<1>7. CASE CrashOp(m)
  BY <1>0, <1>7 DEF CrashOp, Said
<1> QED BY <1>1, <1>2, <1>3, <1>4, <1>5, <1>6, <1>7 DEF ManageStep

\* Which step makes, changes or cancels a row.
LEMMA RowsChange ==
  ASSUME MInv, [Next]_vars
  PROVE  \/ /\ DOMAIN row' = DOMAIN row
            /\ \A b \in DOMAIN row : /\ {"slot", "seq"} \subseteq DOMAIN row'[b]
                                     /\ row'[b].seq = row[b].seq /\ row'[b].slot = row[b].slot
                                     /\ row'[b].status = row[b].status /\ row'[b].group = row[b].group
         \/ \E r \in Requests :
              /\ InsertRow(r) /\ r \notin DOMAIN row
              /\ row' = Put(row, r, NewRow(req[r].slot, req[r].key, NoSession))
         \/ \E c \in Claims :
              /\ InsertSeat(c) \/ InsertSeatFails(c)
              /\ c \notin DOMAIN row
              /\ row' = Put(row, c, NewRow(claim[c].slot, claim[c].key, claim[c].session))
         \/ \E r \in Requests : Rollback(r) /\ r \notin link
         \/ \E m \in Ops : (CancelRow(m) \/ MoveRow(m)) /\ m \in DOMAIN op /\ op[m].id \in link
         \/ \E x \in Closings : CancelSeats(x)
<1>0. IInv /\ Shaped /\ RequestRows /\ LinkedWhenDone /\ RowsShaped /\ SeatRows /\ ClaimsTyped
  BY DEF MInv, IInv
<1>1. ASSUME NEW r \in Requests, InsertRow(r)
      PROVE  r \notin DOMAIN row /\ row' = Put(row, r, NewRow(req[r].slot, req[r].key, NoSession))
  <2>1. ASSUME r \in DOMAIN row PROVE FALSE
    <3>1. r \notin Claims
      BY GroupDeskAssumption
    <3>2. row[r].group = NoSession
      BY <1>0, <2>1, <3>1 DEF SeatRows, ClaimsTyped
    <3> QED BY <1>0, <1>1, <2>1, <3>2 DEF RequestRows, InsertRow, At
  <2> QED BY <1>1, <2>1 DEF InsertRow
<1>2. ASSUME NEW r \in Requests, Rollback(r) PROVE r \notin link
  BY <1>0, <1>2 DEF Rollback, At, LinkedWhenDone
<1>3. ASSUME NEW r \in Requests, LinkEvent(r)
      PROVE  /\ DOMAIN row' = DOMAIN row
             /\ \A b \in DOMAIN row : /\ {"slot", "seq"} \subseteq DOMAIN row'[b]
                                      /\ row'[b].seq = row[b].seq /\ row'[b].slot = row[b].slot
                                      /\ row'[b].status = row[b].status /\ row'[b].group = row[b].group
  BY <1>0, <1>3 DEF LinkEvent, Shaped, RowsShaped
<1>4. ASSUME NEW m \in Ops, CancelRow(m) \/ MoveRow(m)
      PROVE  m \in DOMAIN op /\ op[m].id \in link
  BY <1>0, <1>4 DEF CancelRow, MoveRow, Pc, LinkedWhenDone
<1>5. ASSUME NEW c \in Claims, InsertSeat(c) \/ InsertSeatFails(c)
      PROVE  c \notin DOMAIN row
  <2>1. claim[c].pc = "insert"
    BY <1>5 DEF InsertSeat, InsertSeatFails, Claiming
  <2> QED BY <1>0, <2>1 DEF SeatRows
<1>6. CASE UNCHANGED row
  BY <1>0, <1>6 DEF Shaped
<1>7. ASSUME NEW c \in Claims, ClaimStep(c) \/ ClaimCrash(c)
      PROVE  \/ UNCHANGED row
             \/ /\ InsertSeat(c) \/ InsertSeatFails(c)
                /\ row' = Put(row, c, NewRow(claim[c].slot, claim[c].key, claim[c].session))
  BY <1>7 DEF ClaimStep, ClaimCrash, ReadKey, TakeSeat, SeatRefused, Recheck, InsertSeat, InsertSeatFails,
     Release, NotifySeat, ledgerVars
<1>8. \/ UNCHANGED row
      \/ \E r \in Requests : InsertRow(r) \/ Rollback(r) \/ LinkEvent(r)
      \/ \E m \in Ops : CancelRow(m) \/ MoveRow(m)
      \/ \E c \in Claims : ClaimStep(c) \/ ClaimCrash(c)
      \/ \E x \in Closings : CancelSeats(x)
  <2>1. CASE CreateNext
    BY <2>1 DEF CreateNext, CreateStep, Submit, StartPassed, ReadCalendar, CalendarUnreachable,
       CheckSlot, InsertFindsKey, InsertRefused, InsertEvent, InsertEventFails, Notify, Crash, ledgerVars
  <2>2. CASE ManageNext
    BY <2>2 DEF ManageNext, ManageStep, OpenCancel, OpenReschedule, ReadAndCheckMove, MoveTooLate,
       MoveUnverified, UpdateFindsNothing, MoveRefused, DeleteEvent, PatchEvent, GoogleFails, SendMail,
       CrashOp, ledgerVars
  <2>3. CASE GroupsNext
    BY <2>3 DEF GroupsNext, PublishStep, PublishCrash, PublishEvent, PublishEventFails, LinkSession,
       LinkSessionFails, RollbackSession, OpenPublish, OpenClaim, OpenClosing, CloseStep, CloseCrash,
       CloseRefused, CloseSession, DeleteSessionEvent, DeleteSessionEventFails, MailSeat, CloseAnswer,
       ledgerVars
  <2> QED BY <2>1, <2>2, <2>3 DEF Next, Tick, vars
<1> QED BY <1>1, <1>2, <1>3, <1>4, <1>5, <1>6, <1>7, <1>8

\* What one step of a closing still has to mail.
LEMMA ClosingMails ==
  ASSUME Shaped, IInv, NEW x \in Closings, CloseStep(x) \/ CloseCrash(x)
  PROVE  /\ x \in DOMAIN closing /\ DOMAIN closing' = DOMAIN closing
         /\ \A y \in DOMAIN closing \ {x} : closing'[y] = closing[y]
         /\ "todo" \in DOMAIN closing'[x]
         /\ \/ CancelSeats(x) /\ UNCHANGED mail
            \/ /\ UNCHANGED row /\ closing'[x].todo \subseteq closing[x].todo
               /\ mail' \subseteq mail \cup closing[x].todo
<1> USE DEF ledgerVars
<1>0. x \in DOMAIN closing /\ "todo" \in DOMAIN closing[x]
  BY DEF CloseStep, CloseCrash, CloseRefused, CloseSession, DeleteSessionEvent, DeleteSessionEventFails,
     CancelSeats, MailSeat, CloseAnswer, IsClosing, Shaped
<1>1. CASE CloseRefused(x) \/ CloseSession(x) \/ DeleteSessionEvent(x) \/ DeleteSessionEventFails(x)
  BY <1>0, <1>1 DEF CloseRefused, CloseSession, DeleteSessionEvent, DeleteSessionEventFails, ClosingGoto
<1>2. CASE CancelSeats(x)
  BY <1>0, <1>2 DEF CancelSeats
<1>3. ASSUME NEW m \in closing[x].todo, MailSeat(x, m)
      PROVE  /\ DOMAIN closing' = DOMAIN closing
             /\ \A y \in DOMAIN closing \ {x} : closing'[y] = closing[y]
             /\ "todo" \in DOMAIN closing'[x] /\ UNCHANGED row
             /\ closing'[x].todo \subseteq closing[x].todo /\ mail' \subseteq mail \cup closing[x].todo
  <2>1. PICK threw \in BOOLEAN :
          closing' = [closing EXCEPT ![x].todo = @ \ {m}, ![x].missed = @ \/ threw]
    BY <1>3 DEF MailSeat
  <2> QED BY <1>0, <1>3, <2>1 DEF MailSeat
<1>4. CASE CloseAnswer(x) \/ CloseCrash(x)
  BY <1>0, <1>4 DEF CloseAnswer, CloseCrash
<1> QED BY <1>0, <1>1, <1>2, <1>3, <1>4 DEF CloseStep

\* Whose step it is.
LEMMA Actors ==
  ASSUME [Next]_vars
  PROVE  \/ UNCHANGED <<row, req, op, claim, closing, mail, link>>
         \/ /\ UNCHANGED <<op, claim, closing>>
            /\ \/ \E r \in Requests, k \in Keys, i \in Interval : Submit(r, k, i) /\ UNCHANGED <<row, mail, link>>
               \/ \E r \in Requests : CreateStep(r) \/ Crash(r)
         \/ /\ UNCHANGED <<req, claim, closing>>
            /\ \/ \E m \in Ops, b \in Ids : /\ OpenCancel(m, b) \/ \E t \in Starts : OpenReschedule(m, b, t)
                                           /\ UNCHANGED <<row, mail, link>>
               \/ \E m \in Ops : ManageStep(m) \/ CrashOp(m)
         \/ /\ UNCHANGED <<req, op, closing>>
            /\ \/ \E c \in Claims, s \in Sessions, k \in Keys : OpenClaim(c, s, k) /\ UNCHANGED <<row, mail, link>>
               \/ \E c \in Claims : ClaimStep(c) \/ ClaimCrash(c)
         \/ /\ UNCHANGED <<req, op, claim, link>>
            /\ \/ \E x \in Closings, s \in Sessions : OpenClosing(x, s) /\ UNCHANGED <<row, mail>>
               \/ \E x \in Closings : CloseStep(x) \/ CloseCrash(x)
<1>1. CASE CreateNext /\ UNCHANGED <<op, groupVars>>
  BY <1>1 DEF CreateNext, groupVars, Submit, ledgerVars
<1>2. CASE ManageNext /\ UNCHANGED <<req, groupVars>>
  BY <1>2 DEF ManageNext, groupVars, OpenCancel, OpenReschedule, ledgerVars
<1>3. CASE GroupsNext /\ UNCHANGED <<req, op>>
  <2>1. CASE \E s \in Sessions : \/ PublishStep(s) \/ PublishCrash(s)
                                 \/ \E i \in Interval, cap \in Capacities : OpenPublish(s, i, cap)
    BY <1>3, <2>1 DEF PublishStep, PublishCrash, PublishEvent, PublishEventFails, LinkSession,
       LinkSessionFails, RollbackSession, OpenPublish, ledgerVars
  <2>2. CASE \E c \in Claims, s \in Sessions, k \in Keys : OpenClaim(c, s, k)
    BY <1>3, <2>2 DEF OpenClaim, ledgerVars
  <2>3. ASSUME NEW c \in Claims, ClaimStep(c) \/ ClaimCrash(c) PROVE UNCHANGED closing
    BY <2>3 DEF ClaimStep, ClaimCrash, ReadKey, TakeSeat, SeatRefused, Recheck, InsertSeat,
       InsertSeatFails, Release, NotifySeat
  <2>4. CASE \E x \in Closings, s \in Sessions : OpenClosing(x, s)
    BY <1>3, <2>4 DEF OpenClosing, ledgerVars
  <2>5. ASSUME NEW x \in Closings, CloseStep(x) \/ CloseCrash(x) PROVE UNCHANGED <<claim, link>>
    BY <2>5 DEF CloseStep, CloseCrash, CloseRefused, CloseSession, DeleteSessionEvent,
       DeleteSessionEventFails, CancelSeats, MailSeat, CloseAnswer, ledgerVars
  <2> QED BY <1>3, <2>1, <2>2, <2>3, <2>4, <2>5 DEF GroupsNext
<1>4. CASE Tick /\ UNCHANGED <<req, op, groupVars>>
  BY <1>4 DEF Tick, groupVars
<1> QED BY <1>1, <1>2, <1>3, <1>4 DEF Next, vars

LEMMA StepShaped == MInv /\ [Next]_vars => Shaped'
<1> SUFFICES ASSUME MInv, [Next]_vars PROVE Shaped'
  OBVIOUS
<1>0. IInv /\ Shaped /\ LinkedWhenDone /\ RowsShaped
  BY DEF MInv, IInv
<1>1. \A b \in DOMAIN row' : {"slot", "seq"} \subseteq DOMAIN row'[b] /\ row'[b].seq \in Nat
  <2> DEFINE Good == \A b \in DOMAIN row' : {"slot", "seq"} \subseteq DOMAIN row'[b] /\ row'[b].seq \in Nat
  <2>1. ASSUME NEW b, NEW i, NEW k, NEW g, row' = Put(row, b, NewRow(i, k, g)) PROVE Good
    BY <1>0, <2>1 DEF Put, NewRow, Shaped
  <2>2. ASSUME NEW r \in Requests, Rollback(r) PROVE Good
    BY <1>0, <2>2 DEF Rollback, Shaped
  <2>3. ASSUME NEW m \in Ops, CancelRow(m) \/ MoveRow(m), op[m].id \in link PROVE Good
    <3>1. op[m].id \in DOMAIN row /\ row[op[m].id].seq \in Nat
      BY <1>0, <2>3 DEF LinkedWhenDone, Shaped
    <3>2. CASE CancelRow(m)
      BY <1>0, <3>1, <3>2 DEF CancelRow, NextSeq, Shaped
    <3>3. CASE MoveRow(m)
      BY <1>0, <3>1, <3>3 DEF MoveRow, NextSeq, Shaped
    <3> QED BY <2>3, <3>2, <3>3
  <2>4. ASSUME NEW x \in Closings, CancelSeats(x) PROVE Good
    <3>1. /\ DOMAIN row' = DOMAIN row
          /\ \A b \in DOMAIN row : \/ row'[b] = row[b]
                                  \/ row'[b] = [row[b] EXCEPT !.status = "cancelled", !.by = "bm", !.seq = @ + 1]
      BY <2>4 DEF CancelSeats
    <3>2. ASSUME NEW b \in DOMAIN row
          PROVE  {"slot", "seq"} \subseteq DOMAIN row'[b] /\ row'[b].seq \in Nat
      <4>1. {"slot", "seq"} \subseteq DOMAIN row[b] /\ row[b].seq \in Nat
        BY <1>0, <3>2 DEF Shaped
      <4>2. CASE row'[b] = [row[b] EXCEPT !.status = "cancelled", !.by = "bm", !.seq = @ + 1]
        BY <4>1, <4>2
      <4> QED BY <3>1, <4>1, <4>2
    <3> QED BY <3>1, <3>2
  <2>5. ASSUME DOMAIN row' = DOMAIN row,
               \A b \in DOMAIN row : {"slot", "seq"} \subseteq DOMAIN row'[b] /\ row'[b].seq = row[b].seq
        PROVE  Good
    BY <1>0, <2>5 DEF Shaped
  <2> QED BY <2>1, <2>2, <2>3, <2>4, <2>5, RowsChange
<1>2. \A r \in DOMAIN req' : {"pc", "slot"} \subseteq DOMAIN req'[r]
  <2>1. ASSUME NEW r \in Requests, NEW k \in Keys, NEW i \in Interval, Submit(r, k, i)
        PROVE  \A q \in DOMAIN req' : {"pc", "slot"} \subseteq DOMAIN req'[q]
    BY <1>0, <2>1 DEF Submit, Put, Shaped
  <2>2. ASSUME NEW r \in Requests, CreateStep(r) \/ Crash(r)
        PROVE  \A q \in DOMAIN req' : {"pc", "slot"} \subseteq DOMAIN req'[q]
    BY <1>0, <2>2, RequestMoves DEF Shaped
  <2> QED BY <1>0, <2>1, <2>2, Actors DEF Shaped
<1>3. \A m \in DOMAIN op' : {"pc", "kind", "id", "to", "seq"} \subseteq DOMAIN op'[m]
  <2>1. ASSUME NEW m \in Ops, NEW b, OpenCancel(m, b) \/ \E t \in Starts : OpenReschedule(m, b, t)
        PROVE  \A n \in DOMAIN op' : {"pc", "kind", "id", "to", "seq"} \subseteq DOMAIN op'[n]
    BY <1>0, <2>1 DEF OpenCancel, OpenReschedule, Put, Shaped
  <2>2. ASSUME NEW m \in Ops, ManageStep(m) \/ CrashOp(m)
        PROVE  \A n \in DOMAIN op' : {"pc", "kind", "id", "to", "seq"} \subseteq DOMAIN op'[n]
    BY <1>0, <2>2, OpMoves DEF Shaped
  <2> QED BY <1>0, <2>1, <2>2, Actors DEF Shaped
<1>4. \A x \in DOMAIN closing' : "todo" \in DOMAIN closing'[x]
  <2>1. ASSUME NEW x \in Closings, NEW s \in Sessions, OpenClosing(x, s)
        PROVE  \A y \in DOMAIN closing' : "todo" \in DOMAIN closing'[y]
    BY <1>0, <2>1 DEF OpenClosing, Put, Shaped
  <2>2. ASSUME NEW x \in Closings, CloseStep(x) \/ CloseCrash(x)
        PROVE  \A y \in DOMAIN closing' : "todo" \in DOMAIN closing'[y]
    BY <1>0, <2>2, ClosingMails DEF Shaped
  <2> QED BY <1>0, <2>1, <2>2, Actors DEF Shaped
<1> QED BY <1>1, <1>2, <1>3, <1>4 DEF Shaped

\* No row goes away, and a row that no guest can touch yet is changed by the rollback
\* of its own request or, a seat, by the closing of its session alone.
LEMMA RowKept ==
  ASSUME MInv, [Next]_vars, NEW b \in DOMAIN row
  PROVE  /\ b \in DOMAIN row' /\ row'[b].group = row[b].group
         /\ b \notin link /\ ~(b \in Requests /\ Rollback(b)) /\ (b \in Requests \/ row'[b].seq = 0) =>
              /\ row'[b].seq = row[b].seq /\ row'[b].slot = row[b].slot /\ row'[b].status = row[b].status
<1> DEFINE Same == /\ row'[b].seq = row[b].seq /\ row'[b].slot = row[b].slot
                   /\ row'[b].status = row[b].status /\ row'[b].group = row[b].group
           Kept == /\ b \in DOMAIN row' /\ row'[b].group = row[b].group
                   /\ b \notin link /\ ~(b \in Requests /\ Rollback(b)) /\ (b \in Requests \/ row'[b].seq = 0) =>
                        /\ row'[b].seq = row[b].seq /\ row'[b].slot = row[b].slot
                        /\ row'[b].status = row[b].status
<1>0. /\ SeatRows /\ ClaimsTyped /\ SessionsTyped /\ ClosingsRefer
      /\ {"slot", "seq", "status", "group"} \subseteq DOMAIN row[b] /\ row[b].seq \in Nat
  BY DEF MInv, IInv, RowsShaped, Shaped
<1>1. ASSUME NEW r, r \notin DOMAIN row, NEW v, row' = Put(row, r, v) PROVE Kept
  BY <1>1 DEF Put
<1>2. ASSUME NEW r \in Requests, Rollback(r) PROVE Kept
  BY <1>0, <1>2 DEF Rollback
<1>3. ASSUME NEW m \in Ops, CancelRow(m) \/ MoveRow(m), op[m].id \in link PROVE Kept
  <2>1. PICK c : c = op[m].id
    OBVIOUS
  <2>2. PICK n : n = NextSeq(c)
    OBVIOUS
  <2>3. \/ row' = [row EXCEPT ![c].status = "cancelled", ![c].by = "guest", ![c].seq = n]
        \/ row' = [row EXCEPT ![c].slot = op[m].to, ![c].reminded = FALSE, ![c].seq = n]
    BY <1>3, <2>1, <2>2 DEF CancelRow, MoveRow
  <2>4. DOMAIN row' = DOMAIN row /\ (b # c => row'[b] = row[b])
    BY <2>3
  <2>5. row'[b].group = row[b].group
    BY <1>0, <2>3
  <2> QED BY <1>3, <2>1, <2>4, <2>5
<1>4. ASSUME NEW x \in Closings, CancelSeats(x) PROVE Kept
  <2>1. closing[x].session # NoSession
    BY <1>0, <1>4, LedgerAssumption DEF CancelSeats, IsClosing, ClosingsRefer, SessionsTyped
  <2>2. CASE b \in Seats(closing[x].session)
    <3>1. b \notin Requests
      BY <1>0, <2>1, <2>2, GroupDeskAssumption DEF Seats, SeatRows, ClaimsTyped
    <3>2. b \in DOMAIN row' /\ row'[b] = [row[b] EXCEPT !.status = "cancelled", !.by = "bm", !.seq = @ + 1]
      BY <1>4, <2>2 DEF CancelSeats
    <3>3. row'[b].seq # 0 /\ row'[b].group = row[b].group
      BY <1>0, <3>2
    <3> QED BY <3>1, <3>2, <3>3
  <2>3. CASE b \notin Seats(closing[x].session)
    BY <1>4, <2>3 DEF CancelSeats
  <2> QED BY <2>2, <2>3
<1>5. CASE b \in DOMAIN row' /\ Same
  BY <1>5
<1> QED BY <1>1, <1>2, <1>3, <1>4, <1>5, RowsChange

LEMMA StepRequestRows == MInv /\ [Next]_vars => RequestRows'
<1> SUFFICES ASSUME MInv, [Next]_vars PROVE RequestRows'
  OBVIOUS
<1> DEFINE Early == {"calendar", "rows", "insert"}
<1>0. IInv /\ Shaped /\ RequestRows /\ ClaimsTyped /\ SessionsTyped
  BY DEF MInv, IInv
<1>1. DOMAIN req' \subseteq Requests /\ \A q \in DOMAIN req : q \in DOMAIN req' /\ (req[q].pc \notin Early => req'[q].pc \notin Early)
  <2>1. ASSUME NEW r \in Requests, NEW k \in Keys, NEW i \in Interval, Submit(r, k, i)
        PROVE  DOMAIN req' \subseteq Requests /\ \A q \in DOMAIN req : q \in DOMAIN req' /\ req'[q] = req[q]
    BY <1>0, <2>1 DEF Submit, Put, RequestRows
  <2>2. ASSUME NEW r \in Requests, CreateStep(r) \/ Crash(r)
        PROVE  /\ DOMAIN req' \subseteq Requests
               /\ \A q \in DOMAIN req : q \in DOMAIN req' /\ (req[q].pc \notin Early => req'[q].pc \notin Early)
    BY <1>0, <2>2, RequestMoves DEF RequestRows
  <2>3. CASE UNCHANGED req
    BY <1>0, <2>3 DEF RequestRows
  <2> QED BY <2>1, <2>2, <2>3, Actors
<1>2. ASSUME NEW b \in DOMAIN row', row'[b].group = NoSession
      PROVE  b \in DOMAIN req' /\ req'[b].pc \notin Early
  <2>1. CASE b \in DOMAIN row
    <3>1. row[b].group = NoSession
      BY <1>2, <2>1, RowKept
    <3> QED BY <1>0, <1>1, <2>1, <3>1 DEF RequestRows
  <2>2. CASE b \notin DOMAIN row
    <3>1. ASSUME NEW r \in Requests, InsertRow(r), row' = Put(row, r, NewRow(req[r].slot, req[r].key, NoSession))
          PROVE  b \in DOMAIN req' /\ req'[b].pc \notin Early
      <4>1. b = r
        BY <2>2, <3>1 DEF Put
      <4>2. CreateStep(r)
        BY <3>1 DEF CreateStep
      <4>3. r \in DOMAIN req' /\ req'[r].pc \in {"google", "notify"}
        BY <1>0, <3>1, <4>2, RequestMoves DEF InsertRow, Goto, Shaped
      <4> QED BY <4>1, <4>3
    <3>2. ASSUME NEW c \in Claims, InsertSeat(c) \/ InsertSeatFails(c),
                 row' = Put(row, c, NewRow(claim[c].slot, claim[c].key, claim[c].session))
          PROVE  FALSE
      <4>1. b = c /\ row'[c].group = claim[c].session
        BY <2>2, <3>2 DEF Put, NewRow
      <4>2. claim[c].session \in Sessions
        BY <1>0, <3>2 DEF InsertSeat, InsertSeatFails, Claiming, ClaimsTyped, SessionsTyped
      <4> QED BY <1>2, <4>1, <4>2, LedgerAssumption
    <3>3. ASSUME \/ \E r \in Requests : Rollback(r)
                 \/ \E m \in Ops : CancelRow(m) \/ MoveRow(m)
                 \/ \E x \in Closings : CancelSeats(x)
                 \/ DOMAIN row' = DOMAIN row
          PROVE  FALSE
      BY <1>2, <2>2, <3>3 DEF Rollback, CancelRow, MoveRow, CancelSeats
    <3> QED BY <3>1, <3>2, <3>3, RowsChange
  <2> QED BY <2>1, <2>2
<1> QED BY <1>1, <1>2 DEF RequestRows

LEMMA StepLinked == MInv /\ [Next]_vars => LinkedWhenDone' /\ link \subseteq link'
<1> SUFFICES ASSUME MInv, [Next]_vars PROVE LinkedWhenDone' /\ link \subseteq link'
  OBVIOUS
<1>0. IInv /\ Shaped /\ LinkedWhenDone /\ AsInserted /\ ClaimsTyped /\ SessionsTyped
  BY DEF MInv, IInv
<1> USE DEF LinkedWhenDone
<1>1. \A b \in DOMAIN row : b \in DOMAIN row'
  BY RowKept
<1>2. ASSUME NEW r \in Requests, CreateStep(r) \/ Crash(r), UNCHANGED <<op, claim>>
      PROVE  LinkedWhenDone' /\ link \subseteq link'
  <2>1. /\ r \in DOMAIN req /\ DOMAIN req' = DOMAIN req /\ req[r].pc # "done"
        /\ \A q \in DOMAIN req \ {r} : req'[q] = req[q]
    BY <1>0, <1>2, RequestMoves
  <2>2. \/ link' = link
        \/ link' = link \cup {r} /\ req'[r].pc = "done" /\ r \in DOMAIN row /\ r \notin Claims
    <3>1. CASE Notify(r)
      <4>1. link' = link \cup {r}
        BY <3>1 DEF Notify
      <4>2. req[r].pc = "notify" /\ req'[r].pc = "done"
        BY <1>0, <2>1, <3>1 DEF Notify, Answer, At, Shaped
      <4>3. r \in DOMAIN row
        BY <1>0, <2>1, <4>2 DEF AsInserted
      <4> QED BY <4>1, <4>2, <4>3, GroupDeskAssumption
    <3>2. CASE ~Notify(r)
      BY <1>0, <1>2, <3>2, RequestMoves
    <3> QED BY <3>1, <3>2
  <2> QED BY <1>0, <1>1, <1>2, <2>1, <2>2
<1>3. ASSUME NEW c \in Claims, ClaimStep(c) \/ ClaimCrash(c), UNCHANGED <<req, op>>
      PROVE  LinkedWhenDone' /\ link \subseteq link'
  <2>1. /\ c \in DOMAIN claim /\ DOMAIN claim' = DOMAIN claim
        /\ \A d \in DOMAIN claim \ {c} : claim'[d] = claim[d]
    BY <1>0, <1>3, ClaimMoves
  <2>2. c \notin link
    BY <1>0, <1>3, <2>1 DEF ClaimStep, ClaimCrash, ReadKey, TakeSeat, SeatRefused, Recheck, InsertSeat,
       InsertSeatFails, Release, NotifySeat, Claiming
  <2>3. \/ link' = link
        \/ link' = link \cup {c} /\ claim'[c].pc = "done" /\ c \in DOMAIN row /\ c \notin Requests
    <3>1. CASE NotifySeat(c)
      <4>1. link' = link \cup {c}
        BY <3>1 DEF NotifySeat
      <4>2. claim[c].pc = "notify" /\ claim'[c].pc = "done"
        BY <1>0, <2>1, <3>1 DEF NotifySeat, ClaimAnswer, Claiming, ClaimsTyped, Claim
      <4>3. c \in DOMAIN row
        BY <1>0, <2>1, <4>2 DEF AsInserted
      <4> QED BY <4>1, <4>2, <4>3, GroupDeskAssumption
    <3>2. CASE ~NotifySeat(c)
      BY <1>3, <3>2 DEF ClaimStep, ClaimCrash, ReadKey, TakeSeat, SeatRefused, Recheck, InsertSeat,
         InsertSeatFails, Release, ledgerVars
    <3> QED BY <3>1, <3>2
  <2> QED BY <1>0, <1>1, <1>3, <2>1, <2>2, <2>3
<1>4. ASSUME NEW m \in Ops, NEW b \in Ids, OpenCancel(m, b) \/ \E t \in Starts : OpenReschedule(m, b, t),
             UNCHANGED <<req, claim, link>>
      PROVE  LinkedWhenDone' /\ link \subseteq link'
  BY <1>0, <1>1, <1>4 DEF OpenCancel, OpenReschedule, Put
<1>5. ASSUME NEW m \in Ops, ManageStep(m) \/ CrashOp(m), UNCHANGED <<req, claim>>
      PROVE  LinkedWhenDone' /\ link \subseteq link'
  BY <1>0, <1>1, <1>5, OpMoves
<1>6. ASSUME NEW r \in Requests, NEW k \in Keys, NEW i \in Interval, Submit(r, k, i), UNCHANGED <<op, claim, link>>
      PROVE  LinkedWhenDone' /\ link \subseteq link'
  BY <1>0, <1>1, <1>6 DEF Submit, Put
<1>7. ASSUME NEW c \in Claims, NEW s \in Sessions, NEW k \in Keys, OpenClaim(c, s, k), UNCHANGED <<req, op, link>>
      PROVE  LinkedWhenDone' /\ link \subseteq link'
  BY <1>0, <1>1, <1>7 DEF OpenClaim, Put
<1>8. CASE UNCHANGED <<req, op, claim, link>>
  BY <1>0, <1>1, <1>8
<1> QED BY <1>2, <1>3, <1>4, <1>5, <1>6, <1>7, <1>8, Actors

LEMMA StepInserted == MInv /\ [Next]_vars => AsInserted'
<1> SUFFICES ASSUME MInv, [Next]_vars PROVE AsInserted'
  OBVIOUS
<1>0. IInv /\ Shaped /\ RequestRows /\ LinkedWhenDone /\ AsInserted /\ ClaimsTyped /\ SessionsTyped
  BY DEF MInv, IInv
<1>1. ASSUME NEW q \in DOMAIN req', req'[q].pc \in {"google", "link", "rollback", "notify"}
      PROVE  /\ q \in DOMAIN row' /\ row'[q].seq = 0 /\ row'[q].slot = req'[q].slot
             /\ row'[q].status = "confirmed"
  <2> DEFINE Good == /\ q \in DOMAIN row' /\ row'[q].seq = 0 /\ row'[q].slot = req'[q].slot
                     /\ row'[q].status = "confirmed"
  <2>1. ASSUME q \in DOMAIN req, req[q].pc \in {"google", "link", "rollback", "notify"}, req'[q].slot = req[q].slot,
               q \in Requests => ~Rollback(q)
        PROVE  Good
    <3>1. /\ q \in DOMAIN row /\ row[q].seq = 0 /\ row[q].slot = req[q].slot /\ row[q].status = "confirmed"
          /\ q \in Requests /\ q \notin link
      BY <1>0, <2>1 DEF AsInserted, RequestRows, LinkedWhenDone
    <3> QED BY <2>1, <3>1, RowKept
  <2>2. ASSUME NEW r \in Requests, CreateStep(r) \/ Crash(r) PROVE Good
    <3>1. CASE q # r
      <4>1. q \in DOMAIN req /\ req'[q] = req[q]
        BY <1>0, <2>2, <3>1, RequestMoves
      <4>2. ~Rollback(q)
        BY <1>0, <1>1, <4>1 DEF Rollback, Answer, Shaped
      <4> QED BY <1>1, <2>1, <4>1, <4>2
    <3>2. CASE q = r /\ InsertRow(r)
      <4>1. row' = Put(row, r, NewRow(req[r].slot, req[r].key, NoSession)) /\ req'[r].slot = req[r].slot
        BY <1>0, <2>2, <3>2, RequestMoves DEF InsertRow
      <4> QED BY <3>2, <4>1 DEF Put, NewRow
    <3>3. CASE q = r /\ ~InsertRow(r)
      <4>1. /\ r \in DOMAIN req /\ req[r].pc \in {"google", "link", "rollback", "notify"}
            /\ req'[r].slot = req[r].slot /\ ~Rollback(r)
        BY <1>0, <1>1, <2>2, <3>3, RequestMoves DEF Rollback, Answer
      <4> QED BY <2>1, <3>3, <4>1
    <3> QED BY <3>1, <3>2, <3>3
  <2>3. ASSUME NEW r \in Requests, NEW k \in Keys, NEW i \in Interval, Submit(r, k, i), UNCHANGED row PROVE Good
    <3>1. q \in DOMAIN req /\ req'[q] = req[q]
      BY <1>1, <2>3 DEF Submit, Put
    <3>2. /\ q \in DOMAIN row /\ row[q].seq = 0 /\ row[q].slot = req[q].slot /\ row[q].status = "confirmed"
      BY <1>0, <1>1, <3>1 DEF AsInserted
    <3> QED BY <2>3, <3>1, <3>2
  <2>4. CASE UNCHANGED req
    <3>1. q \in Requests => ~Rollback(q)
      BY <1>1, <2>4, <1>0 DEF Rollback, Answer, At, Shaped
    <3> QED BY <1>1, <2>1, <2>4, <3>1
  <2> QED BY <2>2, <2>3, <2>4, Actors
<1>2. ASSUME NEW c \in DOMAIN claim', claim'[c].pc = "notify"
      PROVE  /\ c \in DOMAIN row'
             /\ row'[c].seq = 0 => row'[c].slot = claim'[c].slot /\ row'[c].status = "confirmed"
  <2> DEFINE Good == /\ c \in DOMAIN row'
                     /\ row'[c].seq = 0 => row'[c].slot = claim'[c].slot /\ row'[c].status = "confirmed"
  <2>1. ASSUME c \in DOMAIN claim, claim'[c] = claim[c] PROVE Good
    <3>1. /\ c \in DOMAIN row /\ c \in Claims /\ c \notin link /\ c \notin Requests
          /\ row[c].seq = 0 => row[c].slot = claim[c].slot /\ row[c].status = "confirmed"
      BY <1>0, <1>2, <2>1, GroupDeskAssumption DEF AsInserted, ClaimsTyped, LinkedWhenDone
    <3> QED BY <2>1, <3>1, RowKept
  <2>2. ASSUME NEW d \in Claims, ClaimStep(d) \/ ClaimCrash(d) PROVE Good
    <3>1. CASE c # d
      <4>1. c \in DOMAIN claim /\ claim'[c] = claim[c]
        BY <1>0, <2>2, <3>1, ClaimMoves
      <4> QED BY <2>1, <4>1
    <3>2. CASE c = d
      <4>1. InsertSeat(c)
        BY <1>0, <1>2, <2>2, <3>2, ClaimMoves
      <4>2. claim'[c].slot = claim[c].slot
        BY <1>0, <4>1 DEF InsertSeat, ClaimGoto, Claiming, ClaimsTyped, Claim
      <4>3. row' = Put(row, c, NewRow(claim[c].slot, claim[c].key, claim[c].session))
        BY <4>1 DEF InsertSeat
      <4> QED BY <4>2, <4>3 DEF Put, NewRow
    <3> QED BY <3>1, <3>2
  <2>3. ASSUME NEW d \in Claims, NEW s \in Sessions, NEW k \in Keys, OpenClaim(d, s, k) PROVE Good
    <3>1. c \in DOMAIN claim /\ claim'[c] = claim[c]
      BY <1>2, <2>3 DEF OpenClaim, Put
    <3> QED BY <2>1, <3>1
  <2>4. CASE UNCHANGED claim
    BY <1>2, <2>1, <2>4
  <2> QED BY <2>2, <2>3, <2>4, Actors
<1> QED BY <1>1, <1>2 DEF AsInserted
-----------------------------------------------------------------------------
\* Nothing new is said, and of the rows that something was said of nothing was
\* written that a mail tells.
LEMMA NothingNew ==
  ASSUME MInv, link \subseteq link', Said' \subseteq Said,
         \A b \in DOMAIN row : (\E x \in Said : x.id = b) =>
           /\ b \in DOMAIN row' /\ row'[b].seq = row[b].seq /\ row'[b].slot = row[b].slot
           /\ row'[b].status = row[b].status
  PROVE  NeverAhead' /\ OneMailPerNumber'
<1>1. OneMailPerNumber'
  BY DEF MInv, OneMailPerNumber
<1>2. NeverAhead'
  BY DEF MInv, NeverAhead, SaysTheRow
<1> QED BY <1>1, <1>2

\* A confirmation is the first that is said of its row under the number zero.
LEMMA ConfirmationSaid ==
  ASSUME MInv, NEW b \in DOMAIN row, NEW i, UNCHANGED row, b \notin link, link' = link \cup {b},
         row[b].seq = 0 => row[b].slot = i /\ row[b].status = "confirmed",
         Said' \subseteq Said \cup {Confirmation(b, i)}
  PROVE  NeverAhead' /\ OneMailPerNumber'
<1> DEFINE c == Confirmation(b, i)
<1>1. c.id = b /\ c.seq = 0 /\ c.method = "REQUEST" /\ c.slot = i
  BY DEF Confirmation
<1>2. NeverAhead /\ OneMailPerNumber /\ row[b].seq \in Nat
  BY DEF MInv, Shaped
<1>3. \A x \in Said : ~(x.id = b /\ x.seq = 0)
  BY <1>2 DEF NeverAhead
<1>4. OneMailPerNumber'
  BY <1>1, <1>2, <1>3 DEF OneMailPerNumber
<1>5. NeverAhead'
  <2> SUFFICES ASSUME NEW x \in Said'
               PROVE  /\ x.id \in DOMAIN row' /\ x.seq \in Nat /\ x.seq <= row'[x.id].seq
                      /\ x.seq = row'[x.id].seq => SaysTheRow(x)'
                      /\ x.seq = 0 => x.id \in link'
                      /\ x.id \in Requests => x.id \in link'
    BY DEF NeverAhead
  <2>1. CASE x = c
    BY <1>1, <1>2, <2>1 DEF SaysTheRow
  <2>2. CASE x \in Said
    BY <1>2, <2>2 DEF NeverAhead, SaysTheRow
  <2> QED BY <2>1, <2>2
<1> QED BY <1>4, <1>5

\* An UPDATE that gives rows their next number, and what will be said under it.
LEMMA NoticesSaid ==
  ASSUME MInv, NEW B \in SUBSET DOMAIN row, NEW N, Said' \subseteq Said \cup N, link' = link, DOMAIN row' = DOMAIN row,
         \A b \in B : row'[b].seq = row[b].seq + 1 /\ (b \in Requests => b \in link),
         \A b \in DOMAIN row \ B : row'[b].seq = row[b].seq /\ row'[b].slot = row[b].slot
                                    /\ row'[b].status = row[b].status,
         \A x \in N : x.id \in B /\ x.seq = row[x.id].seq + 1 /\ SaysTheRow(x)',
         \A x, y \in N : x.id = y.id => x = y
  PROVE  NeverAhead' /\ OneMailPerNumber'
<1>0. NeverAhead /\ OneMailPerNumber /\ \A b \in DOMAIN row : row[b].seq \in Nat
  BY DEF MInv, Shaped
<1>1. \A x \in Said : x.id \in DOMAIN row /\ x.seq \in Nat /\ x.seq <= row[x.id].seq
  BY <1>0 DEF NeverAhead
<1>2. OneMailPerNumber'
  <2> SUFFICES ASSUME NEW x \in Said', NEW y \in Said', x.id = y.id, x.seq = y.seq PROVE x = y
    BY DEF OneMailPerNumber
  <2>1. CASE x \in Said /\ y \in Said
    BY <1>0, <2>1 DEF OneMailPerNumber
  <2>2. CASE x \in N /\ y \in N
    BY <2>2
  <2>3. \A u \in Said, v \in N : u.id = v.id => u.seq # v.seq
    BY <1>0, <1>1
  <2> QED BY <2>1, <2>2, <2>3
<1>3. NeverAhead'
  <2> SUFFICES ASSUME NEW x \in Said'
               PROVE  /\ x.id \in DOMAIN row' /\ x.seq \in Nat /\ x.seq <= row'[x.id].seq
                      /\ x.seq = row'[x.id].seq => SaysTheRow(x)'
                      /\ x.seq = 0 => x.id \in link'
                      /\ x.id \in Requests => x.id \in link'
    BY DEF NeverAhead
  <2>1. CASE x \in N
    BY <1>0, <2>1
  <2>2. CASE x \in Said /\ x.id \in B
    BY <1>0, <1>1, <2>2 DEF NeverAhead
  <2>3. CASE x \in Said /\ x.id \notin B
    BY <1>0, <1>1, <2>3 DEF NeverAhead, SaysTheRow
  <2> QED BY <2>1, <2>2, <2>3
<1> QED BY <1>2, <1>3

LEMMA StepSaid == MInv /\ [Next]_vars => NeverAhead' /\ OneMailPerNumber'
<1> SUFFICES ASSUME MInv, [Next]_vars PROVE NeverAhead' /\ OneMailPerNumber'
  OBVIOUS
<1> DEFINE Goal == NeverAhead' /\ OneMailPerNumber'
<1>0. /\ IInv /\ Shaped /\ LinkedWhenDone /\ AsInserted /\ NeverAhead /\ RequestRows /\ RowsShaped /\ SeatRows
      /\ ClaimsTyped /\ SessionsTyped /\ ClosingsRefer /\ link \subseteq link'
  BY StepLinked DEF MInv, IInv
<1>1. ASSUME UNCHANGED row, Said' \subseteq Said PROVE Goal
  BY <1>0, <1>1, NothingNew
<1>2. ASSUME NEW r \in Requests, CreateStep(r) \/ Crash(r), UNCHANGED <<op, claim, closing>> PROVE Goal
  <2>1. CASE Notify(r)
    <3>1. r \in DOMAIN req /\ req[r].pc = "notify" /\ r \notin link
      BY <1>0, <2>1 DEF Notify, At, LinkedWhenDone
    <3>2. r \in DOMAIN row /\ row[r].slot = req[r].slot /\ row[r].status = "confirmed"
      BY <1>0, <3>1 DEF AsInserted
    <3>3. Said' \subseteq Said \cup {Confirmation(r, req[r].slot)}
      BY <1>2, <2>1 DEF Notify, Said, Notice
    <3>4. link' = link \cup {r} /\ UNCHANGED row
      BY <2>1 DEF Notify
    <3> QED BY <3>1, <3>2, <3>3, <3>4, ConfirmationSaid
  <2>2. CASE ~Notify(r)
    <3>1. UNCHANGED mail /\ r \in DOMAIN req /\ req[r].pc # "done"
      BY <1>0, <1>2, <2>2, RequestMoves
    <3>2. Said' \subseteq Said
      BY <1>2, <3>1 DEF Said, Notice
    <3>3. r \notin link
      BY <1>0, <3>1 DEF LinkedWhenDone
    <3>4. \A x \in Said : x.id # r \/ r \notin DOMAIN row
      BY <1>0, <3>3 DEF NeverAhead
    <3>5. ASSUME NEW b \in DOMAIN row, NEW x \in Said, x.id = b
          PROVE  /\ b \in DOMAIN row' /\ row'[b].seq = row[b].seq /\ row'[b].slot = row[b].slot
                 /\ row'[b].status = row[b].status
      <4>1. b # r
        BY <3>4, <3>5
      <4>2. UNCHANGED row \/ InsertRow(r) \/ LinkEvent(r) \/ Rollback(r)
        BY <1>0, <1>2, <2>2, RequestMoves
      <4> QED BY <3>5, <4>1, <4>2 DEF InsertRow, LinkEvent, Rollback, Put
    <3> QED BY <1>0, <3>2, <3>5, NothingNew
  <2> QED BY <2>1, <2>2
<1>3. ASSUME NEW m \in Ops, ManageStep(m) \/ CrashOp(m), UNCHANGED <<req, claim, closing>> PROVE Goal
  <2>0. /\ m \in DOMAIN op /\ DOMAIN op' = DOMAIN op
        /\ \A n \in DOMAIN op \ {m} : op'[n] = op[n]
        /\ op'[m].id = op[m].id /\ op'[m].to = op[m].to /\ op'[m].kind = op[m].kind /\ link' = link
    BY <1>0, <1>3, OpMoves
  <2>1. CASE CancelRow(m) \/ MoveRow(m)
    <3>1. PICK b : b = op[m].id
      OBVIOUS
    <3>2. PICK n : n = Notice(m)'
      OBVIOUS
    <3>3. /\ b \in link /\ b \in DOMAIN row /\ row[b].seq \in Nat
          /\ {"slot", "seq", "status"} \subseteq DOMAIN row[b]
          /\ {"pc", "kind", "id", "to", "seq"} \subseteq DOMAIN op[m]
      BY <1>0, <2>0, <3>1 DEF LinkedWhenDone, Shaped, RowsShaped
    <3>4. /\ DOMAIN row' = DOMAIN row /\ row'[b].seq = row[b].seq + 1
          /\ \A a \in DOMAIN row \ {b} : row'[a] = row[a]
          /\ IF op[m].kind = "cancel" THEN row'[b].status = "cancelled"
             ELSE row'[b].status = "confirmed" /\ row'[b].slot = op[m].to
          /\ op'[m].seq = row[b].seq + 1 /\ UNCHANGED mail
      <4>1. CASE CancelRow(m)
        BY <2>0, <3>1, <3>3, <4>1 DEF CancelRow, NextSeq
      <4>2. CASE MoveRow(m)
        BY <2>0, <3>1, <3>3, <4>2 DEF MoveRow, StillConfirmed, NextSeq
      <4> QED BY <2>1, <4>1, <4>2
    <3>5. /\ n.id = b /\ n.seq = row[b].seq + 1 /\ n.slot = op[m].to
          /\ n.method = IF op[m].kind = "cancel" THEN "CANCEL" ELSE "REQUEST"
      BY <2>0, <3>1, <3>2, <3>4 DEF Notice
    <3>6. Said' \subseteq Said \cup {n}
      BY <1>3, <2>0, <3>2, <3>4 DEF Said, Notice
    <3>7. SaysTheRow(n)'
      BY <3>4, <3>5 DEF SaysTheRow
    <3>8. {b} \in SUBSET DOMAIN row
      BY <3>3
    <3>9. PICK B : B = {b}
      OBVIOUS
    <3>10. PICK N : N = {n}
      OBVIOUS
    <3>11. B \in SUBSET DOMAIN row /\ Said' \subseteq Said \cup N /\ link' = link /\ DOMAIN row' = DOMAIN row
      BY <2>0, <3>4, <3>6, <3>8, <3>9, <3>10
    <3>12. \A a \in B : row'[a].seq = row[a].seq + 1 /\ (a \in Requests => a \in link)
      BY <3>3, <3>4, <3>9
    <3>13. \A a \in DOMAIN row \ B : row'[a].seq = row[a].seq /\ row'[a].slot = row[a].slot
                                      /\ row'[a].status = row[a].status
      BY <3>4, <3>9
    <3>14. \A z \in N : z.id \in B /\ z.seq = row[z.id].seq + 1 /\ SaysTheRow(z)'
      BY <3>5, <3>7, <3>9, <3>10
    <3>15. \A z, y \in N : z.id = y.id => z = y
      BY <3>10
    <3> QED BY <3>11, <3>12, <3>13, <3>14, <3>15, NoticesSaid
  <2>2. CASE ~(CancelRow(m) \/ MoveRow(m))
    <3>1. /\ UNCHANGED row
          /\ \/ UNCHANGED mail /\ op[m].pc = "google" /\ op'[m].seq = op[m].seq
             \/ op'[m].pc \in {"update", "done", "crashed"} /\ mail' \subseteq Said
      BY <1>0, <1>3, <2>2, OpMoves
    <3>2. Said' \subseteq Said
      BY <1>3, <2>0, <3>1 DEF Said, Notice
    <3> QED BY <1>1, <3>1, <3>2
  <2> QED BY <2>1, <2>2
<1>4. ASSUME NEW c \in Claims, ClaimStep(c) \/ ClaimCrash(c), UNCHANGED <<req, op, closing>> PROVE Goal
  <2>0. c \in DOMAIN claim
    BY <1>0, <1>4, ClaimMoves
  <2>1. CASE NotifySeat(c)
    <3>1. claim[c].pc = "notify" /\ c \notin link
      BY <1>0, <2>1 DEF NotifySeat, Claiming, LinkedWhenDone
    <3>2. c \in DOMAIN row /\ (row[c].seq = 0 => row[c].slot = claim[c].slot /\ row[c].status = "confirmed")
      BY <1>0, <2>0, <3>1 DEF AsInserted
    <3>3. Said' \subseteq Said \cup {Confirmation(c, claim[c].slot)}
      BY <1>4, <2>1 DEF NotifySeat, Said, Notice
    <3>4. link' = link \cup {c} /\ UNCHANGED row
      BY <2>1 DEF NotifySeat
    <3> QED BY <3>1, <3>2, <3>3, <3>4, ConfirmationSaid
  <2>2. CASE ~NotifySeat(c)
    <3>1. UNCHANGED mail
      BY <1>4, <2>2 DEF ClaimStep, ClaimCrash, ReadKey, TakeSeat, SeatRefused, Recheck, InsertSeat,
         InsertSeatFails, Release, ledgerVars
    <3>2. Said' \subseteq Said
      BY <1>4, <3>1 DEF Said, Notice
    <3>3. \/ UNCHANGED row
          \/ c \notin DOMAIN row /\ row' = Put(row, c, NewRow(claim[c].slot, claim[c].key, claim[c].session))
      BY <1>0, <1>4, <2>2 DEF ClaimStep, ClaimCrash, ReadKey, TakeSeat, SeatRefused, Recheck, InsertSeat,
         InsertSeatFails, Release, Claiming, SeatRows, ledgerVars
    <3>4. \A b \in DOMAIN row : b \in DOMAIN row' /\ row'[b] = row[b]
      BY <3>3 DEF Put
    <3> QED BY <1>0, <3>2, <3>4, NothingNew
  <2> QED BY <2>1, <2>2
<1>5. ASSUME NEW x \in Closings, CloseStep(x) \/ CloseCrash(x), UNCHANGED <<req, op, claim, link>> PROVE Goal
  <2>0. /\ x \in DOMAIN closing /\ DOMAIN closing' = DOMAIN closing
        /\ \A y \in DOMAIN closing \ {x} : closing'[y] = closing[y]
    BY <1>0, <1>5, ClosingMails
  <2>1. CASE CancelSeats(x)
    <3>1. PICK B : B = Seats(closing[x].session)
      OBVIOUS
    <3>2. PICK N : N = {[id |-> b, seq |-> row[b].seq + 1, method |-> "CANCEL", slot |-> row[b].slot] : b \in B}
      OBVIOUS
    <3>3. /\ DOMAIN row' = DOMAIN row /\ UNCHANGED mail
          /\ \A b \in DOMAIN row \ B : row'[b] = row[b]
          /\ \A b \in B : row'[b] = [row[b] EXCEPT !.status = "cancelled", !.by = "bm", !.seq = @ + 1]
      BY <2>1, <3>1 DEF CancelSeats, Seats, Confirmed
    <3>4. B \in SUBSET DOMAIN row /\ \A b \in B : b \notin Requests
      <4>1. closing[x].session # NoSession
        BY <1>0, <2>0, LedgerAssumption DEF ClosingsRefer, SessionsTyped
      <4> QED BY <1>0, <3>1, <4>1, GroupDeskAssumption DEF Seats, Confirmed, SeatRows, ClaimsTyped
    <3>5. \A b \in B : row'[b].seq = row[b].seq + 1 /\ row'[b].status = "cancelled"
      <4> SUFFICES ASSUME NEW b \in B PROVE row'[b].seq = row[b].seq + 1 /\ row'[b].status = "cancelled"
        OBVIOUS
      <4>1. {"slot", "seq", "status"} \subseteq DOMAIN row[b]
        BY <1>0, <3>4 DEF Shaped, RowsShaped
      <4> QED BY <3>3, <4>1
    <3>6. closing'[x].todo \subseteq N
      BY <1>0, <2>0, <2>1, <3>1, <3>2 DEF CancelSeats, Shaped
    <3>7. Said' \subseteq Said \cup N
      <4>1. \A y \in DOMAIN closing' : closing'[y].todo \subseteq N \/ (y \in DOMAIN closing /\ closing'[y].todo = closing[y].todo)
        BY <2>0, <3>6
      <4>2. SUFFICES ASSUME NEW z \in Said', z \notin N PROVE z \in Said
        OBVIOUS
      <4>3. CASE \E y \in DOMAIN closing' : z \in closing'[y].todo
        <5>1. PICK y \in DOMAIN closing' : z \in closing'[y].todo
          BY <4>3
        <5>2. y \in DOMAIN closing /\ z \in closing[y].todo
          BY <4>1, <4>2, <5>1
        <5> QED BY <5>2 DEF Said
      <4>4. CASE z \in mail' \cup {Notice(m) : m \in {n \in DOMAIN op : op[n].pc \in {"google", "mail"}}}'
        BY <1>5, <3>3, <4>4 DEF Said, Notice
      <4> QED BY <4>2, <4>3, <4>4 DEF Said
    <3>8. \A n \in N : n.id \in B /\ n.seq = row[n.id].seq + 1 /\ SaysTheRow(n)'
      BY <3>2, <3>5 DEF SaysTheRow
    <3>9. \A n, o \in N : n.id = o.id => n = o
      BY <3>2
    <3>10. \A b \in B : row'[b].seq = row[b].seq + 1 /\ (b \in Requests => b \in link)
      BY <3>4, <3>5
    <3>11. \A b \in DOMAIN row \ B : row'[b].seq = row[b].seq /\ row'[b].slot = row[b].slot
                                      /\ row'[b].status = row[b].status
      BY <3>3
    <3>12. link' = link /\ DOMAIN row' = DOMAIN row /\ B \in SUBSET DOMAIN row
      BY <1>5, <3>3, <3>4
    <3> QED BY <3>7, <3>8, <3>9, <3>10, <3>11, <3>12, NoticesSaid
  <2>2. CASE ~CancelSeats(x)
    <3>1. UNCHANGED row /\ closing'[x].todo \subseteq closing[x].todo /\ mail' \subseteq mail \cup closing[x].todo
      BY <1>0, <1>5, <2>2, ClosingMails
    <3>2. Said' \subseteq Said
      BY <1>5, <2>0, <3>1 DEF Said, Notice
    <3> QED BY <1>1, <3>1, <3>2
  <2> QED BY <2>1, <2>2
<1>6. ASSUME UNCHANGED <<row, mail, op, closing>> PROVE Goal
  <2>1. Said' \subseteq Said
    BY <1>6 DEF Said, Notice
  <2> QED BY <1>1, <1>6, <2>1
<1>7. ASSUME NEW m \in Ops, NEW b \in Ids, OpenCancel(m, b) \/ \E t \in Starts : OpenReschedule(m, b, t),
             UNCHANGED <<row, mail, closing>>
      PROVE  Goal
  <2>1. Said' \subseteq Said
    BY <1>7 DEF OpenCancel, OpenReschedule, Put, Said, Notice
  <2> QED BY <1>1, <1>7, <2>1
<1>8. ASSUME NEW x \in Closings, NEW s \in Sessions, OpenClosing(x, s), UNCHANGED <<row, mail, op>> PROVE Goal
  <2>1. DOMAIN closing' = DOMAIN closing \cup {x} /\ closing'[x].todo = {}
        /\ \A y \in DOMAIN closing : closing'[y] = closing[y]
    BY <1>8 DEF OpenClosing, Put
  <2>2. Said' \subseteq Said
    BY <1>8, <2>1 DEF Said, Notice
  <2> QED BY <1>1, <1>8, <2>2
<1> QED BY <1>2, <1>3, <1>4, <1>5, <1>6, <1>7, <1>8, Actors

\* However guests' cancellations and moves, the closings of sessions and the mails of
\* all of them interleave, a calendar program that keeps the highest SEQUENCE is never
\* ahead of the row and under the row's own number shows the row, for seats as for 1:1s
\* (claimSeat's confirmation, the guest's two UPDATEs and cancelGroupSession's one,
\* each returning ical_sequence).
THEOREM SeatGuestsAreTold == Spec => []GuestCalendarCurrent
<1>1. MInv /\ [Next]_vars => MInv'
  <2>1. IInv /\ [Next]_vars => IInv'
    BY StepShapes, StepSessions, StepClaims, StepClosings, StepSeatRows, StepCovered, StepStatus
       DEF IInv, SeatsAgree
  <2> QED BY <2>1, StepShaped, StepRequestRows, StepLinked, StepInserted, StepSaid DEF MInv
<1>2. MInv => GuestCalendarCurrent
  BY DEF MInv, NeverAhead, OneMailPerNumber, SaysTheRow, Said, GuestCalendarCurrent
<1> QED BY InitMInv, <1>1, <1>2, PTL DEF Spec
=============================================================================
