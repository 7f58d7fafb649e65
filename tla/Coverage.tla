------------------------------ MODULE Coverage ------------------------------
(***************************************************************************)
(* Who a guest of a trip's page is booked with, and what the coverage map  *)
(* says of that trip.  The router and the map are two programs reading the *)
(* same Airtable records; neither calls the other.  The state is the       *)
(* input.  A free text has a key, which slugKey extracts, and a spelling.  *)
(***************************************************************************)
EXTENDS Integers, FiniteSets, FiniteSetsExt, SequencesExt

CONSTANTS
  Hosts,      \* sites a tour page may live on
  Staff,      \* emails of managers
  None,       \* a field that is empty
  LastDay     \* leave is asked for in days 1..LastDay

ASSUME CoverageAssumption == LastDay \in Nat

VARIABLE surveyed   \* what is asked of the records, once something is

Text(spelt) == [key |-> "k", spelt |-> spelt]
TourPage(spelt) == {[host |-> h, slug |-> Text(spelt)] : h \in Hosts}

-----------------------------------------------------------------------------
(* Normalisation *)

\* brandIdsForNames: the text's key is that of the brand's key, name or aliases.
BrandForName(text) == text # None /\ text.key = "k"

\* brandForDeparture: the text itself is the brand's name or an alias.
BrandForDeparture(text) == text # None /\ text = [key |-> "k", spelt |-> "plain"]

\* isUpcomingDeparture, and the router's own filter: the date of a departure that
\* is past or not published counts as none.
Upcoming(w) == {d \in DOMAIN w.trips : w.trips[d].start # None}

\* normalizeBookingManagers joined on the record id: the coordinators' emails, each
\* at its coordinator's place; a coordinator without one has no place.
CoordinatorEmails(w, d) ==
  LET cs == w.trips[d].coordinators
  IN [k \in {k \in DOMAIN cs : cs[k] \in DOMAIN w.managers /\ w.managers[cs[k]] # None} |-> w.managers[cs[k]]]

-----------------------------------------------------------------------------
(* The router *)

\* The departures of the first tier that has any: exact, normalised, by name, and
\* without the host.
Matched(w, link) ==
  LET up == Upcoming(w)
      here(d) == link.host = None \/ w.trips[d].page = None \/ w.trips[d].page.host = link.host
      slug(d, p(_)) == w.trips[d].page # None /\ p(w.trips[d].page.slug)
      exact == {d \in up : slug(d, LAMBDA s : s = link.slug) /\ here(d)}
      loose == {d \in up : slug(d, LAMBDA s : s.key = link.slug.key) /\ here(d)}
      named == {d \in up : w.trips[d].name = link.slug.key}
      blind == {d \in up : slug(d, LAMBDA s : s.key = link.slug.key)}
  IN CASE exact # {} -> exact
       [] exact = {} /\ loose # {} -> loose
       [] loose = {} /\ named # {} -> named
       [] OTHER -> IF link.host = None THEN {} ELSE blind

\* By departure date; records of one date keep Airtable's order.
Sooner(w, d, e) == w.trips[d].start < w.trips[e].start \/ (w.trips[d].start = w.trips[e].start /\ d <= e)
Earliest(w, ds) == CHOOSE d \in ds : \A e \in ds : Sooner(w, d, e)

\* The places of a departure's coordinators that a guest can be given to.
Reachable(w, d) == {k \in DOMAIN CoordinatorEmails(w, d) : CoordinatorEmails(w, d)[k] \in w.active}

\* resolveByTrip.
Routed(w, link) ==
  LET matched == Matched(w, link)
      staffed == {d \in matched : Reachable(w, d) # {}}
  IN IF matched = {} \/ ~BrandForDeparture(w.trips[Earliest(w, matched)].brand)
     THEN [kind |-> "unresolved"]
     ELSE IF staffed = {} THEN [kind |-> "pool"]
     ELSE LET d == Earliest(w, staffed)
          IN [kind |-> "primary", staff |-> CoordinatorEmails(w, d)[Min(Reachable(w, d))], of |-> d]

-----------------------------------------------------------------------------
(* The coverage map *)

\* Mutant: whether the manager is active is not looked at.
LostRecord(w, c) == c \notin DOMAIN w.managers \/ w.managers[c] = None

\* A coordinator the router cannot give to a guest, as the map sees it.
Lost(w, c) == c \notin DOMAIN w.managers \/ w.managers[c] = None \/ w.managers[c] \notin w.active

\* computeCoverageIssues, the kinds about departures: kind and departure.
DepartureIssues(w) ==
  LET up == Upcoming(w)
  IN {<<"departure-no-coordinator", d>> : d \in {d \in up : w.trips[d].coordinators = <<>>}}
       \cup {<<"coordinator-unknown", d>> : d \in {d \in up : \E c \in ToSet(w.trips[d].coordinators) : Lost(w, c)}}
       \cup {<<"departure-bad-url", d>> : d \in {d \in up : w.trips[d].page = None}}
       \cup {<<"brand-unmapped", d>> : d \in {d \in up : ~BrandForName(w.trips[d].brand)}}

\* ... and about the brand's staff.
BrandIssues(w) ==
  LET coming == {d \in Upcoming(w) : BrandForName(w.trips[d].brand)}
      pool   == w.active \cap w.members
  IN IF coming = {} THEN {}
     ELSE IF pool = {} THEN {"brand-no-bm"}
     ELSE IF Cardinality(pool) = 1 THEN {"brand-single-bm"} ELSE {}

\* Approved leave that starts on a day and ends on these joins the last of what was
\* joined so far, if at most a day lies between.
Join(joined, day, ends) ==
  IF ends = {} THEN joined
  ELSE IF joined # <<>> /\ day <= joined[Len(joined)].to + 1
    THEN [joined EXCEPT ![Len(joined)].to = IF Max(ends) > @ THEN Max(ends) ELSE @]
    ELSE Append(joined, [from |-> day, to |-> Max(ends)])

JoinLeave(intervals) ==
  LET joined[day \in 0..LastDay] ==
        IF day = 0 THEN <<>>
        ELSE Join(joined[day - 1], day, {intervals[k].to : k \in {k \in DOMAIN intervals : intervals[k].from = day}})
  IN joined[LastDay]

\* The sweep's events: one more away on the first day, one fewer after the last.
LeaveEvents(joined, day) ==
  LET pieces == UNION {{<<m, k>> : k \in DOMAIN joined[m]} : m \in DOMAIN joined}
  IN Cardinality({p \in pieces : joined[p[1]][p[2]].from = day})
       - Cardinality({p \in pieces : joined[p[1]][p[2]].to + 1 = day})

\* One boundary of the sweep.
Sweep(s, day, today, change) ==
  LET next == s.count + change IN
  IF s.count < 2 /\ next >= 2 THEN [s EXCEPT !.count = next, !.start = day, !.most = next]
  ELSE IF s.count >= 2 /\ next >= 2 THEN [s EXCEPT !.count = next, !.most = IF next > @ THEN next ELSE @]
  ELSE IF s.count >= 2
    THEN [s EXCEPT !.count = next,
                   !.found = @ \cup IF day - 1 >= today
                                    THEN {[from |-> s.start, to |-> day - 1, most |-> s.most]} ELSE {}]
  ELSE [s EXCEPT !.count = next]

\* The leave-reduced-cover windows of one brand's pool.
ReducedCover(leave, today) ==
  LET joined == [m \in DOMAIN leave |-> JoinLeave(leave[m])]
      swept[day \in 0..(LastDay + 1)] ==
        IF day = 0 THEN [count |-> 0, start |-> 0, most |-> 0, found |-> {}]
        ELSE Sweep(swept[day - 1], day, today, LeaveEvents(joined, day))
  IN swept[LastDay + 1].found

-----------------------------------------------------------------------------
\* Inputs.  Bounds: two departures; a record each of two managers, the first of
\* which may be missing; three members of a brand, one with two leaves.
Trip(pages, names, brands, starts, coordinators) ==
  [page : pages, name : names, brand : brands, start : starts, coordinators : coordinators]

Worlds ==
  [trips : Trip({None} \cup TourPage("plain") \cup TourPage("other"), {"k", "l"},
                {None, Text("plain"), Text("other")}, {None, 1, 2}, {<<>>, <<"a">>, <<"a", "b">>})
             \X Trip(TourPage("plain"), {"k"}, {Text("plain"), Text("other")}, {1}, {<<>>, <<"b">>}),
   managers : {[c \in cs |-> IF c = "a" THEN e ELSE CHOOSE f \in Staff : f # e] :
                 cs \in {{"a", "b"}, {"b"}}, e \in {CHOOSE e \in Staff : TRUE}} \cup {[c \in {"a", "b"} |-> None]},
   active : SUBSET Staff, members : {Staff}]

Intervals == {i \in [from : 1..LastDay, to : 1..LastDay] : i.from <= i.to}

Links  == [host : {None, "elsewhere"} \cup Hosts, slug : {Text("plain")}]
Leaves == (Intervals \X Intervals) \X {<<k>> : k \in Intervals} \X ({<<>>} \cup {<<l>> : l \in Intervals})

CoverageQuestions ==
  [ask : {"route"}, world : Worlds, link : Links] \cup [ask : {"leave"}, today : {1, 3}, leave : Leaves]

CoverageInit == surveyed = {}
Survey == surveyed = {} /\ \E q \in CoverageQuestions : surveyed' = {q}

CoverageSpec == CoverageInit /\ [][Survey]_surveyed
-----------------------------------------------------------------------------
\* A missing manager never becomes a silent substitution: whoever the guest of a
\* trip is given is an active coordinator of one of its departures, and every
\* departure that had to be passed over on the way, all of them where the guest
\* is given the brand's pool, is on the coverage map with its coordinator.
NoSilentSubstitution ==
  \A question \in surveyed :
    question.ask = "route" =>
      LET w == question.world
          matched == Matched(w, question.link)
          answer == Routed(w, question.link)
          shown(d) == \E kind \in {"departure-no-coordinator", "coordinator-unknown"} :
                        <<kind, d>> \in DepartureIssues(w)
      IN /\ answer.kind = "pool" => \A d \in matched : shown(d)
         /\ answer.kind = "primary" =>
              /\ answer.of \in matched
              /\ \E k \in Reachable(w, answer.of) : answer.staff = CoordinatorEmails(w, answer.of)[k]
              /\ \A d \in matched \ {answer.of} : Sooner(w, d, answer.of) => shown(d)

\* A departure whose page and brand the coverage map finds nothing wrong with has
\* a page that resolves: "matching happens on all of them so upstream renames
\* never break routing".
MappedIsRouted ==
  \A question \in surveyed :
    question.ask = "route" =>
      LET w == question.world IN
      \A d \in Upcoming(w) :
        /\ w.trips[d].page # None
        /\ question.link = [host |-> w.trips[d].page.host, slug |-> w.trips[d].page.slug]
        /\ \A e \in DOMAIN w.trips : <<"brand-unmapped", e>> \notin DepartureIssues(w)
        => Routed(w, question.link).kind # "unresolved"

\* Cover is reported reduced on exactly the days, from today's window on, on which
\* two or more of the brand's managers are away, in windows that do not touch,
\* each with the largest number away at once.
ReducedCoverIsPointwise ==
  \A question \in surveyed :
    question.ask = "leave" =>
      LET away(day) == Cardinality({m \in DOMAIN question.leave :
                         \E k \in DOMAIN question.leave[m] :
                            question.leave[m][k].from <= day /\ day <= question.leave[m][k].to})
          low(a, b) == \A day \in a..b : away(day) >= 2
          windows == {i \in Intervals : low(i.from, i.to) /\ away(i.from - 1) < 2 /\ away(i.to + 1) < 2}
      IN ReducedCover(question.leave, question.today) =
           {[from |-> i.from, to |-> i.to, most |-> Max({away(day) : day \in i.from..i.to})] :
              i \in {i \in windows : i.to >= question.today}}

\* What the coverage map shows is what the guests meet: no departure is passed
\* over unseen, and no day with two managers away is left out.
CoverIsShown == NoSilentSubstitution /\ ReducedCoverIsPointwise
=============================================================================
