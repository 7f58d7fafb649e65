------------------------------- MODULE Diary --------------------------------
(***************************************************************************)
(* What the booking table promises the guests of one manager's 1:1 calls:  *)
(* a diary in which every booking holds instants nobody else holds, may    *)
(* move to free ones, and once given up is never heard of again.           *)
(***************************************************************************)
CONSTANTS
  Bookings, \* identities of bookings
  Spans     \* the sets of instants a booking may hold

VARIABLES
  held,    \* a partial function from Bookings to Spans
  released \* the bookings given up

diary == <<held, released>>

Free(b, span) == \A c \in DOMAIN held \ {b} : span \cap held[c] = {}

Init == held = [b \in {} |-> {}] /\ released = {}

Book(b, span) ==
  /\ b \notin DOMAIN held \cup released
  /\ Free(b, span)
  /\ held' = [c \in DOMAIN held \cup {b} |-> IF c = b THEN span ELSE held[c]]
  /\ UNCHANGED released

Move(b, span) ==
  /\ b \in DOMAIN held
  /\ Free(b, span)
  /\ held' = [held EXCEPT ![b] = span]
  /\ UNCHANGED released

GiveUp(b) ==
  /\ b \in DOMAIN held
  /\ held' = [c \in DOMAIN held \ {b} |-> held[c]]
  /\ released' = released \cup {b}

Next ==
  \E b \in Bookings : GiveUp(b) \/ \E span \in Spans : Book(b, span) \/ Move(b, span)

Spec == Init /\ [][Next]_diary
=============================================================================
