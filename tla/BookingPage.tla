---------------------------- MODULE BookingPage ----------------------------
(***************************************************************************)
(* The guest's booking page: one component whose requests (who is this     *)
(* trip's manager, which times are free, who else can help, book this      *)
(* time) answer in any order while the guest keeps clicking.  A change of  *)
(* what is asked aborts the request it replaces; a booking that was posted *)
(* is never aborted.                                                       *)
(***************************************************************************)
EXTENDS Naturals, FiniteSets

CONSTANTS
  Trips, Managers, Kinds, Times,   \* Kinds: event types
  NoOne,
  MaxForms,     \* bound: confirmation forms the guest opens
  MaxPicks,   \* bound: changes of trip, type and manager, and looks at the team
  MaxTaken      \* bound: times taken in the meantime

ASSUME BookingPageAssumption ==
  MaxForms \in Nat /\ MaxPicks \in Nat /\ MaxTaken \in Nat /\ NoOne \notin Managers \cup Times \cup Trips

VARIABLES
  page,    \* the component's state
  asked,   \* the requests under way
  told     \* the times the server has offered so far, per manager and type

pageVars == <<page, asked, told>>

Vias == {"primary", "backup", "pool"}
Nothing == {}      \* the absent value of the fields that hold at most one thing

StartTrip(trip) ==
  [trip |-> trip, screen |-> "loading", mode |-> NoOne, primary |-> NoOne, of |-> NoOne,
   kind |-> CHOOSE k \in Kinds : TRUE, active |-> NoOne, via |-> "primary",
   times |-> Nothing, team |-> Nothing, nonce |-> 0, backups |-> FALSE,
   selected |-> NoOne, form |-> 0, submitting |-> FALSE, booked |-> Nothing, changes |-> 0]

PageInit ==
  LET trip == CHOOSE t \in Trips : TRUE IN
    /\ page = StartTrip(trip)
    /\ asked = [resolve |-> {trip}, times |-> Nothing, team |-> Nothing, posts |-> {}]
    /\ told = {}

\* availKey and backupsKey: what the page's requests are about, none when there
\* is nothing to ask.
TimesKey(p) ==
  IF p.mode = NoOne \/ p.active = NoOne THEN Nothing ELSE {<<p.active, p.kind, p.nonce>>}
TeamKey(p) ==
  IF p.mode = NoOne THEN Nothing
  ELSE IF p.mode = "pool" /\ p.active = NoOne THEN {<<p.kind, NoOne>>}
  ELSE IF p.backups THEN {<<p.kind, p.active>>} ELSE Nothing

\* The page changes to p and its effects run: a key that changed aborts the
\* request under way for the old one and asks anew.
Renders(p, resolve, posts) ==
  /\ page' = p
  /\ asked' = [resolve |-> resolve, posts |-> posts,
               times |-> IF TimesKey(p) = TimesKey(page) THEN asked.times ELSE TimesKey(p),
               team  |-> IF TeamKey(p) = TeamKey(page) THEN asked.team ELSE TeamKey(p)]

Shows(p) == Renders(p, asked.resolve, asked.posts)

-----------------------------------------------------------------------------
\* applyResolved: a manager of the trip's own, or the brand's pool.
Applied(mode, who) ==
  [page EXCEPT !.screen = "ready", !.mode = mode, !.primary = who, !.active = who, !.of = page.trip,
               !.via = "primary", !.selected = NoOne, !.submitting = FALSE, !.backups = FALSE]

TripResolved ==
  /\ asked.resolve # {}
  /\ \/ \E who \in Managers : Renders(Applied("primary", who), {}, asked.posts)
     \/ Renders(Applied("pool", NoOne), {}, asked.posts)
     \/ Renders([page EXCEPT !.screen = "ready"], {}, asked.posts)   \* the brands to pick from
     \/ Renders([page EXCEPT !.screen = "error"], {}, asked.posts)
  /\ UNCHANGED told

\* pickBrand
PickBrand ==
  /\ page.screen = "ready" /\ page.mode = NoOne
  /\ Shows([page EXCEPT !.mode = "pool", !.active = NoOne])
  /\ UNCHANGED told

\* The availability effect's answer: some times, or none when it failed.
TimesAnswer ==
  \E key \in asked.times, free \in SUBSET Times :
    /\ page' = [page EXCEPT !.times = {<<key, free>>}]
    /\ asked' = [asked EXCEPT !.times = Nothing]
    /\ told' = told \cup {<<key[1], key[2], t>> : t \in free}

\* The team effect's answer: everybody with open times but the one excluded.
TeamAnswer ==
  \E key \in asked.team : \E who \in {{}, Managers \ {key[2]}} :
    /\ page' = [page EXCEPT !.team = {<<key, who>>}]
    /\ asked' = [asked EXCEPT !.team = Nothing]
    /\ UNCHANGED told

-----------------------------------------------------------------------------
\* What is on the screen: a result counts only for the key it answers.
Changeable == page.changes < MaxPicks
Flow == page.screen = "ready" /\ page.mode # NoOne /\ (page.booked = Nothing \/ page.active = NoOne)
Form == Flow /\ page.selected # NoOne /\ page.active # NoOne

\* Mutant: the last answer is shown whatever it was about.
ShownTimesLast == UNION {r[2] : r \in page.times}

ShownTimes == UNION {r[2] : r \in {r \in page.times : {r[1]} = TimesKey(page)}}
TimesThere == \E r \in page.times : {r[1]} = TimesKey(page)
ShownTeam  == UNION {r[2] : r \in {r \in page.team : {r[1]} = TeamKey(page)}}

PickType(k) ==
  /\ Flow /\ Changeable /\ page.selected = NoOne /\ k # page.kind
  /\ Shows([page EXCEPT !.kind = k, !.selected = NoOne, !.backups = FALSE, !.changes = @ + 1])
  /\ UNCHANGED told

\* pickSlot: the form mounts, and with it the key of its booking.
PickSlot(t) ==
  /\ Flow /\ ~Form /\ page.active # NoOne /\ t \in ShownTimes /\ page.form < MaxForms
  /\ Shows([page EXCEPT !.selected = t, !.form = @ + 1, !.submitting = FALSE])
  /\ UNCHANGED told

OpenBackups ==
  /\ Flow /\ Changeable /\ ~Form /\ page.active # NoOne /\ TimesThere /\ ~page.backups
  /\ ShownTimes = {} \/ page.via = "primary"
  /\ Shows([page EXCEPT !.backups = TRUE, !.changes = @ + 1])
  /\ UNCHANGED told

ChooseTeamMember(m) ==
  /\ Flow /\ Changeable /\ ~Form /\ m \in ShownTeam
  /\ Shows([page EXCEPT !.active = m, !.via = IF page.primary # NoOne THEN "backup" ELSE "pool",
                        !.backups = FALSE, !.selected = NoOne, !.submitting = FALSE,
                        !.changes = @ + 1])
  /\ UNCHANGED told

\* backToPrimary: the header's button, there while the form is open, and while
\* it is submitting.
BackToPrimary ==
  /\ Flow /\ page.active # NoOne /\ page.via # "primary"
  /\ Shows(IF page.primary = NoOne
           THEN [page EXCEPT !.active = NoOne]
           ELSE [page EXCEPT !.active = page.primary, !.via = "primary", !.selected = NoOne,
                             !.submitting = FALSE, !.backups = FALSE])
  /\ UNCHANGED told

ChangeTrip(trip) ==
  /\ Flow /\ Changeable /\ page.selected = NoOne /\ page.of # NoOne /\ trip # page.trip
  /\ Renders([page EXCEPT !.screen = "loading", !.trip = trip, !.selected = NoOne, !.backups = FALSE,
                          !.changes = @ + 1], {trip}, asked.posts)
  /\ UNCHANGED told

\* The form's "Pick a different time".
PickAnother ==
  /\ Form /\ ~page.submitting
  /\ Shows([page EXCEPT !.selected = NoOne])
  /\ UNCHANGED told

\* submit: what the page is about at that moment goes with it.
SubmitForm ==
  /\ Form /\ ~page.submitting
  /\ Renders([page EXCEPT !.submitting = TRUE], asked.resolve,
             asked.posts \cup {[key |-> page.form, who |-> page.active, kind |-> page.kind, time |-> page.selected,
                                via |-> page.via, trip |-> page.trip]})
  /\ UNCHANGED told

\* The booking's answer reaches the page whether or not its form is still there.
PostAnswer ==
  \E post \in asked.posts :
    LET mine == page.form = post.key
        quiet == [page EXCEPT !.submitting = IF mine THEN FALSE ELSE @]
        rest == asked.posts \ {post}
    IN /\ \/ Renders([quiet EXCEPT !.booked = {post}], asked.resolve, rest)        \* onSuccess
          \/ /\ page.nonce < MaxTaken                                              \* onSlotTaken
             /\ Renders([quiet EXCEPT !.selected = NoOne, !.nonce = @ + 1], asked.resolve, rest)
          \/ Renders(quiet, asked.resolve, rest)                                   \* an error; the form stays
       /\ UNCHANGED told

PageNext ==
  \/ TripResolved \/ PickBrand \/ TimesAnswer \/ TeamAnswer
  \/ (\E k \in Kinds : PickType(k)) \/ (\E t \in Times : PickSlot(t))
  \/ OpenBackups \/ (\E m \in Managers : ChooseTeamMember(m)) \/ BackToPrimary
  \/ (\E trip \in Trips : ChangeTrip(trip))
  \/ PickAnother \/ SubmitForm \/ PostAnswer

PageSpec == PageInit /\ [][PageNext]_pageVars

-----------------------------------------------------------------------------
\* Whatever is posted, the server said that this manager has this time for this
\* type of call: no answer to an older question is ever booked from.
PostsWhatWasOffered ==
  \A post \in asked.posts :
    <<post.who, post.kind, post.time>> \in told

\* The success screen says "You're booked with" the manager who was booked.
ScreenNamesTheManager ==
  \A post \in page.booked : page.active # NoOne => page.active = post.who

\* A booking recorded as made from a trip's link is with that trip's manager.
TripIsTheManagers ==
  \A post \in asked.posts : post.via = "primary" => page.of = page.trip
=============================================================================
