------------------------------ MODULE Invites ------------------------------
(***************************************************************************)
(* A manager's shortlist: an invitation the guest opens in one or more     *)
(* tabs, picks a time of, and confirms.  The page's every form carries a   *)
(* booking key of its own; createBooking (module Create) is one step here. *)
(***************************************************************************)

CONSTANTS
  Tabs,        \* forms the invitation's page renders, each with its own key
  Candidates,  \* the proposed times; nobody else's booking is modelled but as a time taken
  NoBooking

ASSUME InvitesAssumption == NoBooking \notin Tabs

VARIABLES
  invitation,  \* its row, and whether expires_at has passed
  calls,       \* the bookings: the key of each and its time; taken times are by others
  tab          \* what each tab's submission is doing

inviteVars == <<invitation, calls, tab>>

InviteInit ==
  /\ invitation = [status |-> "pending", booking |-> NoBooking, lapsed |-> FALSE]
  /\ calls = [booked |-> {}, taken |-> {}]
  /\ tab = [t \in Tabs |-> [step |-> "closed", time |-> NoBooking]]

\* expires_at passes.
ExpiryPasses ==
  /\ ~invitation.lapsed
  /\ invitation' = [invitation EXCEPT !.lapsed = TRUE]
  /\ UNCHANGED <<calls, tab>>

\* Somebody else takes a time of the manager's.
OthersBook(c) ==
  /\ c \notin calls.taken /\ \A b \in calls.booked : b.time # c
  /\ calls' = [calls EXCEPT !.taken = @ \cup {c}]
  /\ UNCHANGED <<invitation, tab>>

\* findInvitationByToken: a pending invitation that has lapsed is marked.
Looked(i) == IF i.status = "pending" /\ i.lapsed THEN [i EXCEPT !.status = "expired"] ELSE i

Turns(t, step, time) == tab' = [tab EXCEPT ![t] = [step |-> step, time |-> time]]

\* The page, opened or opened again with a time picked.
OpenInvite(t) ==
  /\ tab[t].step \in {"closed", "form"}
  /\ invitation' = Looked(invitation)
  /\ IF invitation'.status # "pending" THEN Turns(t, "told", NoBooking)
     ELSE \E c \in Candidates : Turns(t, "form", c)
  /\ UNCHANGED calls

\* acceptInvitationAction up to createBooking.
SubmitInvite(t) ==
  /\ tab[t].step = "form"
  /\ invitation' = Looked(invitation)
  /\ Turns(t, IF invitation'.status = "pending" THEN "found" ELSE "told", tab[t].time)
  /\ UNCHANGED calls

\* createBooking under the form's key: a booking if nobody has the time, else back
\* to the page; or the calendar fails.
BookInvite(t) ==
  LET c == tab[t].time IN
  /\ tab[t].step = "found"
  /\ \/ /\ c \notin calls.taken /\ \A b \in calls.booked : b.time # c
        /\ calls' = [calls EXCEPT !.booked = @ \cup {[key |-> t, time |-> c]}]
        /\ Turns(t, "booked", c)
     \/ (c \in calls.taken \/ \E b \in calls.booked : b.time = c) /\ Turns(t, "form", c) /\ UNCHANGED calls
     \/ Turns(t, "form", c) /\ UNCHANGED calls
  /\ UNCHANGED invitation

\* Mutant: the invitation is confirmed whatever became of it.
ConfirmAnyway(t) ==
  /\ tab[t].step = "booked"
  /\ invitation' = [invitation EXCEPT !.status = "confirmed", !.booking = t]
  /\ Turns(t, "told", tab[t].time)
  /\ UNCHANGED calls

\* acceptInvitation after createBooking.
ConfirmInvite(t) ==
  /\ tab[t].step = "booked"
  /\ invitation' = IF invitation.status = "pending"
                   THEN [invitation EXCEPT !.status = "confirmed", !.booking = t] ELSE invitation
  /\ Turns(t, "told", tab[t].time)
  /\ UNCHANGED calls

\* The invocation dies before the invitation is confirmed; opening the link again
\* is another form, with another key.
DieInvite(t) ==
  /\ tab[t].step \in {"found", "booked"}
  /\ Turns(t, "told", NoBooking)
  /\ UNCHANGED <<invitation, calls>>

InviteNext ==
  \/ ExpiryPasses
  \/ \E c \in Candidates : OthersBook(c)
  \/ \E t \in Tabs : OpenInvite(t) \/ SubmitInvite(t) \/ BookInvite(t) \/ ConfirmInvite(t) \/ DieInvite(t)

InviteSpec == InviteInit /\ [][InviteNext]_inviteVars

-----------------------------------------------------------------------------
\* An invitation that was answered stays answered: the booking it names was made
\* from it and is not replaced by a later tab's, and a lapsed one is not reopened.
FirstAnswerStands ==
  [][ /\ invitation.status # "pending" =>
          invitation'.status = invitation.status /\ invitation'.booking = invitation.booking
      /\ invitation'.booking # NoBooking => \E b \in calls'.booked : b.key = invitation'.booking]_inviteVars

\* The guest picks one of the times: one invitation makes one booking.
OneCallPerInvitation == \A a, b \in calls.booked : a = b
=============================================================================
