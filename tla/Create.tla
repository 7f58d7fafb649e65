------------------------------- MODULE Create -------------------------------
(***************************************************************************)
(* createBooking: one serverless invocation per POST to                    *)
(* /api/booking/public/book (or per accepted invitation).  Every await is  *)
(* a point where other invocations run, or where this one dies, so the     *)
(* handler is a process with a program counter and its local variables.    *)
(***************************************************************************)
EXTENDS Ledger

CONSTANTS
  Requests \* invocations of createBooking; the row one inserts has its identity

VARIABLE req \* a partial function: the invocations that have started

ASSUME CreateAssumption == Requests \subseteq Ids

Request == [pc     : {"calendar", "rows", "insert", "google", "link", "rollback",
                      "notify", "done", "crashed"},
            key    : Keys,
            slot   : Interval,
            at     : Nat,              \* `now' of the invocation
            busy   : SUBSET Interval,  \* its free/busy answer, until it is used
            result : {"none", "ok", "slot_taken", "slot_invalid", "calendar_failed"},
            found  : BOOLEAN]          \* the answer came from the 23505 branch

CreateInit == req = << >>

CreateTypeOK ==
  /\ DOMAIN req \subseteq Requests
  /\ req \in [DOMAIN req -> Request]

At(r, pc) == r \in DOMAIN req /\ req[r].pc = pc

Goto(r, pc) == req' = [req EXCEPT ![r].pc = pc]

Answer(r, result) == req' = [req EXCEPT ![r].pc = "done", ![r].result = result]

-----------------------------------------------------------------------------
\* The guest's form posts.  A form has one slot and mints its key once, so all
\* the posts of one key carry one slot; a double tap, a retry after an error or
\* after a lost answer is another post of the same key.
Submit(r, k, i) ==
  /\ r \notin DOMAIN req
  /\ \A q \in DOMAIN req : req[q].key = k => req[q].slot = i
  /\ req' = Put(req, r, [pc |-> "calendar", key |-> k, slot |-> i, at |-> now,
                         busy |-> {}, result |-> "none", found |-> FALSE])
  /\ UNCHANGED ledgerVars

\* The start must lie ahead; then the fresh free/busy query.
StartPassed(r) ==
  /\ At(r, "calendar")
  /\ req[r].slot.start <= req[r].at
  /\ Answer(r, "slot_invalid")
  /\ UNCHANGED ledgerVars

ReadCalendar(r) ==
  /\ At(r, "calendar")
  /\ req[r].slot.start > req[r].at
  /\ req' = [req EXCEPT ![r].pc = "rows",
                        ![r].busy = IF CalendarConfigured THEN Busy ELSE {}]
  /\ UNCHANGED ledgerVars

\* The query throws, or Google reports the calendar as errored.
CalendarUnreachable(r) ==
  /\ At(r, "calendar")
  /\ req[r].slot.start > req[r].at
  /\ CalendarConfigured
  /\ Answer(r, "calendar_failed")
  /\ UNCHANGED ledgerVars

\* getConfirmed and computeSlots.  Slot holds are not consulted.
CheckSlot(r) ==
  LET q == req[r] IN
  /\ At(r, "rows")
  /\ IF Offered(q.slot, q.at, q.busy \cup ConfirmedTimes(q.at))
     THEN req' = [req EXCEPT ![r].pc = "insert", ![r].busy = {}]
     ELSE req' = [req EXCEPT ![r].pc = "done", ![r].busy = {},
                             ![r].result = IF Offered(q.slot, q.at, {})
                                           THEN "slot_taken" ELSE "slot_invalid"]
  /\ UNCHANGED ledgerVars

\* 23505: the key is there already.  The existing row is the answer.
InsertFindsKey(r) ==
  /\ At(r, "insert")
  /\ RowsOf(req[r].key) # {}
  /\ req' = [req EXCEPT ![r].pc = "done", ![r].result = "ok", ![r].found = TRUE]
  /\ UNCHANGED ledgerVars

\* 23P01: the exclusion constraint refuses the row.
InsertRefused(r) ==
  /\ At(r, "insert")
  /\ RowsOf(req[r].key) = {}
  /\ Refused(r, req[r].slot)
  /\ Answer(r, "slot_taken")
  /\ UNCHANGED ledgerVars

InsertRow(r) ==
  /\ At(r, "insert")
  /\ RowsOf(req[r].key) = {}
  /\ ~Refused(r, req[r].slot)
  /\ row' = Put(row, r, NewRow(req[r].slot, req[r].key, NoSession))
  /\ Goto(r, IF CalendarConfigured THEN "google" ELSE "notify")
  /\ UNCHANGED <<now, event, meetings, mail, link, alerted>>

-----------------------------------------------------------------------------
\* events.insert, outside any transaction.
InsertEvent(r) ==
  /\ At(r, "google")
  /\ event' = Put(event, r, req[r].slot)
  /\ Goto(r, "link")
  /\ UNCHANGED <<now, row, meetings, mail, link, alerted>>

\* It throws: Google refused, or it made the event and the answer was lost.
InsertEventFails(r) ==
  /\ At(r, "google")
  /\ \/ UNCHANGED event
     \/ event' = Put(event, r, req[r].slot)
  /\ Goto(r, "rollback")
  /\ UNCHANGED <<now, row, meetings, mail, link, alerted>>

\* Mutants: the catch block forgets its return; it alerts and undoes nothing;
\* it deletes the row.
RollbackFallsThrough(r) ==
  /\ At(r, "rollback")
  /\ row' = [row EXCEPT ![r].status = "cancelled", ![r].by = "system"]
  /\ alerted' = alerted \cup {r}
  /\ Goto(r, "notify")
  /\ UNCHANGED <<now, event, meetings, mail, link>>

RollbackOnlyAlerts(r) ==
  /\ At(r, "rollback")
  /\ alerted' = alerted \cup {r}
  /\ Answer(r, "calendar_failed")
  /\ UNCHANGED <<now, row, event, meetings, mail, link>>

RollbackDeletes(r) ==
  /\ At(r, "rollback")
  /\ row' = Drop(row, r)
  /\ alerted' = alerted \cup {r}
  /\ Answer(r, "calendar_failed")
  /\ UNCHANGED <<now, event, meetings, mail, link>>

\* The catch block: an UPDATE by id alone, then the alert.
Rollback(r) ==
  /\ At(r, "rollback")
  /\ row' = [row EXCEPT ![r].status = "cancelled", ![r].by = "system"]
  /\ alerted' = alerted \cup {r}
  /\ Answer(r, "calendar_failed")
  /\ UNCHANGED <<now, event, meetings, mail, link>>

\* google_event_id and meet_url: an UPDATE by id alone.
LinkEvent(r) ==
  /\ At(r, "link")
  /\ row' = [row EXCEPT ![r].linked = TRUE]
  /\ Goto(r, "notify")
  /\ UNCHANGED <<now, event, meetings, mail, link, alerted>>

\* The confirmation goes out, then the answer, which carries the manage link.
\* A mail the provider refuses comes back as {ok: false}, which nobody reads;
\* only an exception raises the alert, be the mail delivered or not.  Help Scout
\* and the audit row are left out: no handler's decision reads them.
Notify(r) ==
  /\ At(r, "notify")
  /\ mail' \in {mail, mail \cup {Confirmation(r, req[r].slot)}}
  /\ alerted' \in {alerted, alerted \cup {r}}
  /\ link' = link \cup {r}
  /\ Answer(r, "ok")
  /\ UNCHANGED <<now, row, event, meetings>>

\* The invocation dies (timeout, redeploy) or an await outside the try blocks
\* throws: the guest sees an error, nothing is undone, nobody resumes it.
Crash(r) ==
  /\ r \in DOMAIN req
  /\ req[r].pc \notin {"done", "crashed"}
  /\ req' = [req EXCEPT ![r].pc = "crashed", ![r].busy = {}]
  /\ UNCHANGED ledgerVars

\* What the invocation does next when it lives.
CreateStep(r) ==
  \/ StartPassed(r) \/ ReadCalendar(r) \/ CalendarUnreachable(r) \/ CheckSlot(r)
  \/ InsertFindsKey(r) \/ InsertRefused(r) \/ InsertRow(r)
  \/ InsertEvent(r) \/ InsertEventFails(r) \/ Rollback(r) \/ LinkEvent(r)
  \/ Notify(r)

CreateNext ==
  \/ \E r \in Requests, k \in Keys, i \in Interval : Submit(r, k, i)
  \/ \E r \in Requests : CreateStep(r) \/ Crash(r)
=============================================================================
