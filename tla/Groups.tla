------------------------------- MODULE Groups -------------------------------
(***************************************************************************)
(* Group sessions: a manager publishes one (createGroupSession), guests    *)
(* claim seats (claimSeat), the manager calls it off (cancelGroupSession). *)
(* A seat is a row of booking.booking with a group_session_id, which the   *)
(* exclusion constraint does not cover: the conditional UPDATE on          *)
(* seats_taken is all that bounds a session.                               *)
(***************************************************************************)
EXTENDS Ledger

CONSTANTS
  Claims,     \* invocations of claimSeat; the seat one inserts has its identity
  Closings,   \* invocations of cancelGroupSession
  Capacities, \* capacities a manager may enter
  AnswersLost \* may the answer to a committed INSERT get lost on the way?

ASSUME GroupsAssumption ==
  /\ Claims \subseteq Ids
  /\ Capacities \subseteq Nat \ {0}
  /\ AnswersLost \in BOOLEAN

VARIABLES
  session, \* booking.group_session: a partial function from Sessions to rows
  publish, \* where the createGroupSession of each session stands
  claim,   \* the invocations of claimSeat that have started
  closing  \* the invocations of cancelGroupSession that have started

groupVars == <<session, publish, claim, closing>>

Session == [status : {"open", "full", "cancelled"}, slot : Interval,
            cap : Nat, seats : Nat, linked : BOOLEAN]

PublishPc == {"google", "link", "rollback", "done", "crashed"}

Claim == [pc      : {"key", "seat", "recheck", "insert", "release", "notify", "done", "crashed"},
          session : Sessions,
          key     : Keys,
          slot    : Interval,                      \* startsAt, endsAt of the snapshot
          wasFull : BOOLEAN,                       \* history: what made the UPDATE find no row
          result  : {"none", "ok", "found", "error", "session_full", "session_closed"}]

ClosingJob == [pc      : {"update", "google", "seats", "mails", "done", "crashed"},
             session : Sessions,
             linked  : BOOLEAN,                    \* googleEventId of the snapshot
             todo    : SUBSET Mail,                \* the RETURNING rows not mailed yet
             missed  : BOOLEAN,                    \* a mail threw
             ok      : BOOLEAN]

GroupsInit == session = << >> /\ publish = << >> /\ claim = << >> /\ closing = << >>

GroupsTypeOK ==
  /\ DOMAIN session \subseteq Sessions /\ session \in [DOMAIN session -> Session]
  /\ DOMAIN publish = DOMAIN session /\ publish \in [DOMAIN publish -> PublishPc]
  /\ DOMAIN claim \subseteq Claims /\ claim \in [DOMAIN claim -> Claim]
  /\ DOMAIN closing \subseteq Closings /\ closing \in [DOMAIN closing -> ClosingJob]

\* The confirmed seats of a session.
Seats(s) == {b \in Confirmed : row[b].group = s}
-----------------------------------------------------------------------------
(* createGroupSession                                                      *)

\* The start lies ahead and the capacity is positive; neither the calendar nor
\* the bookings are consulted.  The row is open to claims at once.
OpenPublish(s, i, cap) ==
  /\ s \notin DOMAIN session
  /\ i.start > now
  /\ session' = Put(session, s, [status |-> "open", slot |-> i, cap |-> cap,
                                 seats |-> 0, linked |-> FALSE])
  /\ publish' = Put(publish, s, IF CalendarConfigured THEN "google" ELSE "done")
  /\ UNCHANGED <<ledgerVars, claim, closing>>

Publishing(s, pc) == s \in DOMAIN publish /\ publish[s] = pc

PublishEvent(s) ==
  /\ Publishing(s, "google")
  /\ event' = Put(event, s, session[s].slot)
  /\ publish' = [publish EXCEPT ![s] = "link"]
  /\ UNCHANGED <<now, row, meetings, mail, link, alerted, session, claim, closing>>

\* Google refused, or made the event and the answer was lost.
PublishEventFails(s) ==
  /\ Publishing(s, "google")
  /\ \/ UNCHANGED event
     \/ event' = Put(event, s, session[s].slot)
  /\ publish' = [publish EXCEPT ![s] = "rollback"]
  /\ UNCHANGED <<now, row, meetings, mail, link, alerted, session, claim, closing>>

LinkSession(s) ==
  /\ Publishing(s, "link")
  /\ session' = [session EXCEPT ![s].linked = TRUE]
  /\ publish' = [publish EXCEPT ![s] = "done"]
  /\ UNCHANGED <<ledgerVars, claim, closing>>

\* The UPDATE is inside the try block: when it throws the session is rolled
\* back as well, and its event stays.
LinkSessionFails(s) ==
  /\ Publishing(s, "link")
  /\ publish' = [publish EXCEPT ![s] = "rollback"]
  /\ UNCHANGED <<ledgerVars, session, claim, closing>>

\* The catch block: by id alone.  Seats claimed meanwhile are not looked at.
RollbackSession(s) ==
  /\ Publishing(s, "rollback")
  /\ session' = [session EXCEPT ![s].status = "cancelled"]
  /\ alerted' = alerted \cup {s}
  /\ publish' = [publish EXCEPT ![s] = "done"]
  /\ UNCHANGED <<now, row, event, meetings, mail, link, claim, closing>>

PublishCrash(s) ==
  /\ s \in DOMAIN publish /\ publish[s] \notin {"done", "crashed"}
  /\ publish' = [publish EXCEPT ![s] = "crashed"]
  /\ UNCHANGED <<ledgerVars, session, claim, closing>>
-----------------------------------------------------------------------------
(* claimSeat                                                               *)

\* claimSeatAction reads the session, whatever its status and its time.
OpenClaim(c, s, k) ==
  /\ c \notin DOMAIN claim /\ s \in DOMAIN session
  /\ claim' = Put(claim, c, [pc |-> "key", session |-> s, key |-> k, slot |-> session[s].slot,
                             wasFull |-> FALSE, result |-> "none"])
  /\ UNCHANGED <<ledgerVars, session, publish, closing>>

Claiming(c, pc) == c \in DOMAIN claim /\ claim[c].pc = pc

ClaimGoto(c, pc) == claim' = [claim EXCEPT ![c].pc = pc]

ClaimAnswer(c, result) == claim' = [claim EXCEPT ![c].pc = "done", ![c].result = result]

\* "Idempotent double-submit first."
ReadKey(c) ==
  /\ Claiming(c, "key")
  /\ IF RowsOf(claim[c].key) = {} THEN ClaimGoto(c, "seat") ELSE ClaimAnswer(c, "found")
  /\ UNCHANGED <<ledgerVars, session, publish, closing>>

SeatIfListed(s) == session[s].status # "cancelled" \* mutant: what the page checks

\* The condition of the UPDATE.
SeatFree(s) == session[s].seats < session[s].cap /\ session[s].status = "open"

StatusAfterSeat(s) == IF session[s].seats + 1 >= session[s].cap THEN "full" ELSE "open"

TakeSeat(c) ==
  LET s == claim[c].session IN
  /\ Claiming(c, "seat")
  /\ SeatFree(s)
  /\ session' = [session EXCEPT ![s].seats = @ + 1, ![s].status = StatusAfterSeat(s)]
  /\ ClaimGoto(c, "insert")
  /\ UNCHANGED <<ledgerVars, publish, closing>>

\* No row updated: the session is read again to name the reason.
SeatRefused(c) ==
  LET s == claim[c].session IN
  /\ Claiming(c, "seat")
  /\ ~SeatFree(s)
  /\ claim' = [claim EXCEPT ![c].pc = "recheck",
                            ![c].wasFull = session[s].status # "cancelled"]
  /\ UNCHANGED <<ledgerVars, session, publish, closing>>

Recheck(c) ==
  /\ Claiming(c, "recheck")
  /\ ClaimAnswer(c, IF session[claim[c].session].status = "open"
                    THEN "session_full" ELSE "session_closed")
  /\ UNCHANGED <<ledgerVars, session, publish, closing>>

\* The seat's time is the snapshot's.
InsertSeat(c) ==
  /\ Claiming(c, "insert")
  /\ RowsOf(claim[c].key) = {}
  /\ row' = Put(row, c, NewRow(claim[c].slot, claim[c].key, claim[c].session))
  /\ ClaimGoto(c, "notify")
  /\ UNCHANGED <<now, event, meetings, mail, link, alerted, session, publish, closing>>

\* The INSERT throws: the key came in meanwhile, or the database fails; with
\* AnswersLost it may have inserted the row first.
InsertSeatFails(c) ==
  /\ Claiming(c, "insert")
  /\ \/ UNCHANGED row
     \/ /\ AnswersLost /\ RowsOf(claim[c].key) = {}
        /\ row' = Put(row, c, NewRow(claim[c].slot, claim[c].key, claim[c].session))
  /\ ClaimGoto(c, "release")
  /\ UNCHANGED <<now, event, meetings, mail, link, alerted, session, publish, closing>>

StatusReopened(s) == "open" \* mutant: no "when status = 'full'"

StatusAfterRelease(s) == IF session[s].status = "full" THEN "open" ELSE session[s].status

\* The catch block gives the seat back and rethrows.
Release(c) ==
  LET s == claim[c].session IN
  /\ Claiming(c, "release")
  /\ session' = [session EXCEPT ![s].seats = IF @ > 0 THEN @ - 1 ELSE 0,
                                ![s].status = StatusAfterRelease(s)]
  /\ ClaimAnswer(c, "error")
  /\ UNCHANGED <<ledgerVars, publish, closing>>

\* The confirmation, then the answer.
NotifySeat(c) ==
  /\ Claiming(c, "notify")
  /\ mail' \in {mail, mail \cup {Confirmation(c, claim[c].slot)}}
  /\ alerted' \in {alerted, alerted \cup {c}}
  /\ link' = link \cup {c}
  /\ ClaimAnswer(c, "ok")
  /\ UNCHANGED <<now, row, event, meetings, session, publish, closing>>

ClaimCrash(c) ==
  /\ c \in DOMAIN claim /\ claim[c].pc \notin {"done", "crashed"}
  /\ ClaimGoto(c, "crashed")
  /\ UNCHANGED <<ledgerVars, session, publish, closing>>
-----------------------------------------------------------------------------
(* cancelGroupSession                                                      *)

\* cancelSessionAction reads the session, whatever its status.
OpenClosing(x, s) ==
  /\ x \notin DOMAIN closing /\ s \in DOMAIN session
  /\ closing' = Put(closing, x, [pc |-> "update", session |-> s, linked |-> session[s].linked,
                                 todo |-> {}, missed |-> FALSE, ok |-> FALSE])
  /\ UNCHANGED <<ledgerVars, session, publish, claim>>

IsClosing(x, pc) == x \in DOMAIN closing /\ closing[x].pc = pc

ClosingGoto(x, pc) == closing' = [closing EXCEPT ![x].pc = pc]

CloseRefused(x) ==
  /\ IsClosing(x, "update")
  /\ session[closing[x].session].status = "cancelled"
  /\ ClosingGoto(x, "done")
  /\ UNCHANGED <<ledgerVars, session, publish, claim>>

ToSeats(x) == "seats" \* mutant: Google is not told

\* After the UPDATE: Google only when the snapshot had an event id.
AfterClose(x) == IF closing[x].linked /\ CalendarConfigured THEN "google" ELSE "seats"

CloseSession(x) ==
  LET s == closing[x].session IN
  /\ IsClosing(x, "update")
  /\ session[s].status \in {"open", "full"}
  /\ session' = [session EXCEPT ![s].status = "cancelled"]
  /\ ClosingGoto(x, AfterClose(x))
  /\ UNCHANGED <<ledgerVars, publish, claim>>

DeleteSessionEvent(x) ==
  /\ IsClosing(x, "google")
  /\ event' = Drop(event, closing[x].session)
  /\ ClosingGoto(x, "seats")
  /\ UNCHANGED <<now, row, meetings, mail, link, alerted, session, publish, claim>>

\* The call throws, before or after Google did its part.
DeleteSessionEventFails(x) ==
  LET s == closing[x].session IN
  /\ IsClosing(x, "google")
  /\ event' \in {event, Drop(event, s)}
  /\ alerted' = alerted \cup {s}
  /\ ClosingGoto(x, "seats")
  /\ UNCHANGED <<now, row, meetings, mail, link, session, publish, claim>>

\* One UPDATE cancels every seat that is confirmed now and returns the rows.
CancelSeats(x) ==
  LET gone == Seats(closing[x].session) IN
  /\ IsClosing(x, "seats")
  /\ row' = [b \in DOMAIN row |->
               IF b \in gone
               THEN [row[b] EXCEPT !.status = "cancelled", !.by = "bm", !.seq = @ + 1]
               ELSE row[b]]
  /\ closing' = [closing EXCEPT ![x].pc = "mails",
       ![x].todo = {[id |-> b, seq |-> row[b].seq + 1, method |-> "CANCEL", slot |-> row[b].slot]
                      : b \in gone}]
  /\ UNCHANGED <<now, event, meetings, mail, link, alerted, session, publish, claim>>

\* One mail after the other.  A mail the provider refuses counts as notified.
MailSeat(x, m) ==
  /\ IsClosing(x, "mails") /\ m \in closing[x].todo
  /\ mail' \in {mail, mail \cup {m}}
  /\ \E threw \in BOOLEAN :
       closing' = [closing EXCEPT ![x].todo = @ \ {m}, ![x].missed = @ \/ threw]
  /\ UNCHANGED <<now, row, event, meetings, link, alerted, session, publish, claim>>

\* Mutant: the loop has no try block, a mail that throws ends the invocation.
AnswerIfAllSent(x) ==
  /\ IsClosing(x, "mails") /\ closing[x].todo = {} /\ ~closing[x].missed
  /\ closing' = [closing EXCEPT ![x].pc = "done", ![x].ok = TRUE]
  /\ UNCHANGED <<ledgerVars, session, publish, claim>>

\* One alert for the batch, then the answer.
CloseAnswer(x) ==
  /\ IsClosing(x, "mails") /\ closing[x].todo = {}
  /\ alerted' = IF closing[x].missed THEN alerted \cup {closing[x].session} ELSE alerted
  /\ closing' = [closing EXCEPT ![x].pc = "done", ![x].ok = TRUE]
  /\ UNCHANGED <<now, row, event, meetings, mail, link, session, publish, claim>>

CloseCrash(x) ==
  /\ x \in DOMAIN closing /\ closing[x].pc \notin {"done", "crashed"}
  /\ closing' = [closing EXCEPT ![x].pc = "crashed", ![x].todo = {}]
  /\ UNCHANGED <<ledgerVars, session, publish, claim>>
-----------------------------------------------------------------------------
PublishStep(s) ==
  \/ PublishEvent(s) \/ PublishEventFails(s) \/ LinkSession(s) \/ LinkSessionFails(s)
  \/ RollbackSession(s)

ClaimStep(c) ==
  \/ ReadKey(c) \/ TakeSeat(c) \/ SeatRefused(c) \/ Recheck(c)
  \/ InsertSeat(c) \/ InsertSeatFails(c) \/ Release(c) \/ NotifySeat(c)

CloseStep(x) ==
  \/ CloseRefused(x) \/ CloseSession(x) \/ DeleteSessionEvent(x) \/ DeleteSessionEventFails(x)
  \/ CancelSeats(x) \/ CloseAnswer(x)
  \/ x \in DOMAIN closing /\ \E m \in closing[x].todo : MailSeat(x, m)

GroupsNext ==
  \/ \E s \in Sessions, i \in Interval, cap \in Capacities : OpenPublish(s, i, cap)
  \/ \E s \in Sessions : PublishStep(s) \/ PublishCrash(s)
  \/ \E c \in Claims, s \in Sessions, k \in Keys : OpenClaim(c, s, k)
  \/ \E c \in Claims : ClaimStep(c) \/ ClaimCrash(c)
  \/ \E x \in Closings, s \in Sessions : OpenClosing(x, s)
  \/ \E x \in Closings : CloseStep(x) \/ CloseCrash(x)
=============================================================================
