------------------------------- MODULE Ledger -------------------------------
(***************************************************************************)
(* The shared state of the booking application for ONE Booking Manager:    *)
(* the table booking.booking, the manager's Google calendar, the mail the  *)
(* guests have received and the clock, with the operators every handler    *)
(* uses on them.  Rows of different managers never meet (every query and   *)
(* the exclusion constraint are per staff_id), so one manager is enough.   *)
(* The handlers are in Create, Manage, Groups and Reminders.               *)
(***************************************************************************)
EXTENDS Integers, FiniteSets

CONSTANTS
  Ids,                \* identities a booking.booking row can have
  Sessions,           \* identities a booking.group_session row can have
  NoSession,          \* group_session_id is null
  Keys,               \* idempotency keys
  Starts,             \* instants of the slot grid inside working hours
  Durations,          \* event_type.duration_min
  Closing,            \* end of the working block
  Buffer,             \* staff.buffer_minutes
  MinNotice,          \* staff.min_notice_hours
  BookingWindow,      \* staff.booking_window_days
  CalendarConfigured, \* calendarConfigured(): a service-account key is set
  MaxTime,            \* bound: the clock stops here
  MaxMeetings         \* bound: meetings the manager accepts in Google

ASSUME LedgerAssumption ==
  /\ Starts \subseteq Nat
  /\ Durations \subseteq Nat \ {0}
  /\ Closing \in Nat /\ Buffer \in Nat /\ MinNotice \in Nat
  /\ BookingWindow \in Nat /\ MaxTime \in Nat /\ MaxMeetings \in Nat
  /\ CalendarConfigured \in BOOLEAN
  /\ NoSession \notin Sessions
  /\ Ids \cap Sessions = {}

VARIABLES
  now,      \* the clock
  row,      \* booking.booking: a partial function from Ids to rows
  event,    \* Google: a partial function from the owner of an event to its time
  meetings, \* Google: times of the manager's other meetings
  mail,     \* .ics mail delivered to guests
  link,     \* bookings whose guest holds a manage link
  alerted   \* bookings and sessions an operator alert was raised for

ledgerVars == <<now, row, event, meetings, mail, link, alerted>>
-----------------------------------------------------------------------------
Interval == [start : Starts, dur : Durations]

Row == [status   : {"confirmed", "cancelled"},
        slot     : Interval,
        key      : Keys,
        group    : Sessions \cup {NoSession},
        seq      : Nat,          \* ical_sequence
        linked   : BOOLEAN,      \* google_event_id is not null
        reminded : BOOLEAN,      \* reminder_..._sent_at is not null
        by       : {"nobody", "guest", "bm", "system"}]

Mail == [id : Ids, seq : Nat, method : {"REQUEST", "CANCEL"}, slot : Interval]

Confirmation(b, i) == [id |-> b, seq |-> 0, method |-> "REQUEST", slot |-> i]

End(i) == i.start + i.dur

\* Half-open intervals: touching endpoints do not overlap.
Overlap(i, j) == i.start < End(j) /\ j.start < End(i)

\* What computeSlots decides of one candidate: on the grid, after the minimum
\* notice, inside the working block and the booking window, and clear of every
\* blocked interval grown by the buffer on both sides.
Offered(i, at, blocked) ==
  /\ i.start \in Starts
  /\ i.start >= at /\ i.start >= at + MinNotice
  /\ End(i) <= Closing
  /\ End(i) <= at + BookingWindow
  /\ \A b \in blocked : End(i) <= b.start - Buffer \/ End(b) + Buffer <= i.start

\* freeBusy: what Google answers when it is asked now.
Busy == {event[e] : e \in DOMAIN event} \cup meetings

Confirmed == {b \in DOMAIN row : row[b].status = "confirmed"}

\* The rows the partial exclusion constraint booking_no_overlap looks at.
Exclusive == {b \in Confirmed : row[b].group = NoSession}

\* getConfirmed: confirmed bookings that touch the window, group seats included.
ConfirmedTimes(at) ==
  {row[b].slot : b \in {c \in Confirmed : /\ row[c].slot.start < at + BookingWindow
                                          /\ End(row[c].slot) > at}}

SameStart(b, i) == \E c \in Exclusive \ {b} : i.start = row[c].slot.start \* mutant

\* 23P01: the constraint would refuse row b at time i.
Refused(b, i) == \E c \in Exclusive \ {b} : Overlap(i, row[c].slot)

KeyNotUnique(k) == {} \* mutant

\* The rows of a key: idempotency_key is unique, so at most one.
RowsOf(k) == {b \in DOMAIN row : row[b].key = k}

Put(f, x, v) == [y \in DOMAIN f \cup {x} |-> IF y = x THEN v ELSE f[y]]
Drop(f, x)   == [y \in DOMAIN f \ {x} |-> f[y]]

NewRow(slot, key, group) ==
  [status |-> "confirmed", slot |-> slot, key |-> key, group |-> group, seq |-> 0,
   linked |-> FALSE, reminded |-> FALSE, by |-> "nobody"]

\* bookingManageable, of a row as it was read.
Manageable(r) == r.status = "confirmed" /\ r.slot.start > now
-----------------------------------------------------------------------------
LedgerInit ==
  /\ now = 0
  /\ row = << >>
  /\ event = << >>
  /\ meetings = {}
  /\ mail = {}
  /\ link = {}
  /\ alerted = {}

\* Time passes.
Tick ==
  /\ now < MaxTime
  /\ now' = now + 1
  /\ UNCHANGED <<row, event, meetings, mail, link, alerted>>

\* The manager accepts another meeting in Google.  Nothing there asks this
\* application: it may land on top of a booking.
AcceptMeeting(i) ==
  /\ Cardinality(meetings) < MaxMeetings
  /\ i \notin meetings
  /\ meetings' = meetings \cup {i}
  /\ UNCHANGED <<now, row, event, mail, link, alerted>>

LedgerTypeOK ==
  /\ now \in Nat
  /\ DOMAIN row \subseteq Ids /\ row \in [DOMAIN row -> Row]
  /\ DOMAIN event \subseteq Ids \cup Sessions /\ event \in [DOMAIN event -> Interval]
  /\ meetings \subseteq Interval
  /\ mail \subseteq Mail
  /\ link \subseteq Ids
  /\ alerted \subseteq Ids \cup Sessions
=============================================================================
