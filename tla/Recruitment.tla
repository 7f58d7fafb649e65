---------------------------- MODULE Recruitment ----------------------------
(***************************************************************************)
(* The recruitment board: recruiters' pages that show a change before it   *)
(* is saved and take it back when it is refused, the candidates' records   *)
(* in Airtable or in the lake that stands in for it, whose outbox carries  *)
(* every change to Airtable, and Cove's own profile flags.                 *)
(* A page's server actions run one after the other, as the router queues   *)
(* them; those of different pages run at the same time.                    *)
(***************************************************************************)
EXTENDS Integers, Sequences

CONSTANTS
  Recruiters, Applicants,
  Stages,     \* stages other than Unreviewed
  Texts,      \* notes
  Unset,      \* a field without value: the stage Unreviewed, the note ""
  Yes,        \* a ticked box
  MaxSent,    \* bound: changes sent
  MaxLoads    \* bound: loads per page

VARIABLES
  hiring,     \* each applicant's fields, in the source that is configured
  lake,       \* lakeConfigured: the lake's copy is the source
  imported,   \* what the lake started from
  outbox,     \* the lake's outbox
  snapshot,   \* unstable_cache
  flagged,    \* recruitment_candidate_tags
  board,      \* each recruiter's page
  sent,       \* bound: changes sent so far
  held        \* history: the stages each applicant has had

hiringVars == <<hiring, lake, imported, outbox, snapshot, flagged, board, sent, held>>

Blank == [Status |-> Unset, Notes |-> Unset, Interview |-> Unset, Potential |-> Unset]

\* fields || patch, nulls stripped: what the patch names is replaced, the rest stays.
Patched(fields, patch) ==
  [f \in DOMAIN fields |-> IF f \in DOMAIN patch THEN patch[f] ELSE fields[f]]

\* getRecruitmentWorkspace: the cached records, with the flags Cove keeps itself.
Shown(nr) ==
  [nr |-> nr, of |-> [a \in Applicants |->
     [f \in DOMAIN Blank \cup {"Flag"} |-> IF f = "Flag" THEN flagged[a] ELSE snapshot[a][f]]]]

HiringInit ==
  /\ hiring = [a \in Applicants |-> Blank]
  /\ lake = FALSE /\ imported = hiring /\ outbox = <<>>
  /\ snapshot = hiring
  /\ flagged = [a \in Applicants |-> Unset]
  /\ board = [r \in Recruiters |->
       [props |-> Shown(0), local |-> Shown(0), saving |-> {}, calls |-> <<>>]]
  /\ sent = 0 /\ held = [a \in Applicants |-> {Unset}]
-----------------------------------------------------------------------------
\* The page's own changes count while the props they were made on are shown.
Visible(r) == IF board[r].local.nr = board[r].props.nr THEN board[r].local ELSE board[r].props

\* updateLocalCandidates, called from a render that had the props "mine".
Local(r, mine, a, change) ==
  LET now == IF board[r].local.nr = mine.nr THEN board[r].local ELSE mine IN
  [now EXCEPT !.of[a] = Patched(@, change)]

Page(r, next) == board' = [board EXCEPT ![r] = next]
SourceRests == UNCHANGED <<hiring, lake, imported, outbox, snapshot, flagged, held>>
ServerRests == SourceRests /\ UNCHANGED sent

\* The change is shown, and an action of this kind is sent with the patch.
Sends(r, kind, a, change, patch, saving) ==
  /\ sent < MaxSent /\ sent' = sent + 1
  /\ Page(r, [board[r] EXCEPT
       !.local = IF change = <<>> THEN @ ELSE Local(r, board[r].props, a, change),
       !.saving = @ \cup saving,
       !.calls = Append(@, [kind |-> kind, who |-> a, patch |-> patch, at |-> "sent",
                            mine |-> board[r].props, back |-> Visible(r).of[a]])])
  /\ SourceRests

\* moveCandidate, by the mouse or in the quick panel: never while one is being
\* saved.  The notes the page knows are sent along.
MoveCandidate(r, a) ==
  /\ a \notin board[r].saving
  /\ \E stage \in (Stages \cup {Unset}) \ {Visible(r).of[a].Status} :
       Sends(r, "move", a, [Status |-> stage], [Status |-> stage, Notes |-> Visible(r).of[a].Notes], {a})

\* The record's forms, whose buttons wait for what is under way.
SubmitUpdate(r, a) ==
  /\ board[r].calls = <<>>
  /\ \E note \in Texts : Sends(r, "form", a, <<>>, [Status |-> Visible(r).of[a].Status, Notes |-> note], {})

SubmitInterview(r, a) ==
  /\ board[r].calls = <<>>
  /\ \E note \in Texts :
       Sends(r, "form", a, <<>>,
             [Status |-> Visible(r).of[a].Status, Notes |-> Visible(r).of[a].Notes, Interview |-> note], {})

\* toggleProfileFlag: Airtable's own flag and Cove's are saved together.
ToggleFlag(r, a) ==
  LET now == Visible(r).of[a] IN
  \E f \in {"Potential", "Flag"} :
    LET flags == [g \in {"Potential", "Flag"} |->
                    IF g # f THEN now[g] ELSE IF now[g] = Yes THEN Unset ELSE Yes] IN
    Sends(r, "flags", a, flags, flags, {})
-----------------------------------------------------------------------------
\* The server: one call of a page after the other.
First(r) == Head(board[r].calls)
IsAt(r, at) == board[r].calls # <<>> /\ First(r).at = at
Reaches(r, at) == Page(r, [board[r] EXCEPT !.calls[1].at = at])

\* What is written to the source; Cove's flag is none of its fields.
Fields(r) == [f \in DOMAIN First(r).patch \ {"Flag"} |-> First(r).patch[f]]

Write(r) ==
  LET a == First(r).who IN
  /\ hiring' = [hiring EXCEPT ![a] = Patched(@, Fields(r))]
  /\ held' = [held EXCEPT ![a] = @ \cup {hiring'[a].Status}]

PatchAirtable(r) ==
  /\ IsAt(r, "sent") /\ ~lake
  /\ Write(r) /\ Reaches(r, "written")
  /\ UNCHANGED <<lake, imported, outbox, snapshot, flagged, sent>>

\* Mutant: the row is updated in a transaction of its own.
UpdateAlone(r) ==
  /\ IsAt(r, "sent") /\ lake
  /\ Write(r) /\ Reaches(r, "locked")
  /\ UNCHANGED <<lake, imported, outbox, snapshot, flagged, sent>>

\* writeLakeUpdate: the row is locked by its update ...
UpdateLake(r) ==
  /\ IsAt(r, "sent") /\ lake
  /\ \A other \in Recruiters : IsAt(other, "locked") => First(other).who # First(r).who
  /\ Reaches(r, "locked") /\ ServerRests

\* ... and the same transaction adds the patch to the outbox.
CommitLake(r) ==
  /\ IsAt(r, "locked")
  /\ Write(r)
  /\ outbox' = Append(outbox, [who |-> First(r).who, patch |-> Fields(r)])
  /\ Reaches(r, "written")
  /\ UNCHANGED <<lake, imported, snapshot, flagged, sent>>

\* saveRecruitmentCandidateTags: Cove's flags are replaced after the source's.
ReplaceFlags(r) ==
  /\ IsAt(r, "written") /\ First(r).kind = "flags"
  /\ flagged' = [flagged EXCEPT ![First(r).who] = First(r).patch.Flag]
  /\ Reaches(r, "saved")
  /\ UNCHANGED <<hiring, lake, imported, outbox, snapshot, sent, held>>

\* Refused, rolled back, or saved without the answer arriving.
CallFails(r) ==
  /\ board[r].calls # <<>> /\ First(r).at # "failed"
  /\ Reaches(r, "failed") /\ ServerRests

\* The answer: what was shown and refused is shown as before.
Answered(r) ==
  LET call == First(r)
      before == CASE call.kind = "move"  -> [Status |-> call.back.Status]
                  [] call.kind = "flags" -> [Potential |-> call.back.Potential, Flag |-> call.back.Flag]
                  [] OTHER               -> <<>> IN
  /\ \/ IsAt(r, "failed") \/ IsAt(r, "saved")
     \/ IsAt(r, "written") /\ call.kind # "flags"
  /\ Page(r, [board[r] EXCEPT
       !.local = IF call.at = "failed" /\ before # <<>> THEN Local(r, call.mine, call.who, before) ELSE @,
       !.saving = IF call.kind = "move" THEN @ \ {call.who} ELSE @,
       !.calls = Tail(@)])
  /\ ServerRests
-----------------------------------------------------------------------------
\* A saved change marks the cache stale: it is filled anew behind a later read.
Revalidate ==
  /\ snapshot # hiring /\ snapshot' = hiring
  /\ UNCHANGED <<hiring, lake, imported, outbox, flagged, board, sent, held>>

\* The page is loaded, or brought up to date by an answer or a refresh.
LoadBoard(r) ==
  /\ board[r].props.nr < MaxLoads
  /\ Page(r, [board[r] EXCEPT !.props = Shown(@.nr + 1)])
  /\ ServerRests

\* The lake is filled from Airtable and configured as the source.
TurnToLake ==
  /\ ~lake /\ \A r \in Recruiters : board[r].calls = <<>>
  /\ lake' = TRUE /\ imported' = hiring
  /\ UNCHANGED <<hiring, outbox, snapshot, flagged, board, sent, held>>

HiringNext ==
  \/ \E r \in Recruiters :
       \/ \E a \in Applicants :
            MoveCandidate(r, a) \/ SubmitUpdate(r, a) \/ SubmitInterview(r, a) \/ ToggleFlag(r, a)
       \/ PatchAirtable(r) \/ UpdateLake(r) \/ CommitLake(r) \/ ReplaceFlags(r)
       \/ CallFails(r) \/ Answered(r) \/ LoadBoard(r)
  \/ Revalidate \/ TurnToLake

HiringSpec == HiringInit /\ [][HiringNext]_hiringVars
-----------------------------------------------------------------------------
\* A field as Airtable has it once the outbox has been worked off: as the last entry
\* that names it says, or else as it was imported.
WorkedOff(a, f) ==
  LET naming == {i \in DOMAIN outbox : outbox[i].who = a /\ f \in DOMAIN outbox[i].patch}
  IN IF naming = {} THEN imported[a][f]
     ELSE outbox[CHOOSE i \in naming : \A j \in naming : j <= i].patch[f]

\* Once the outbox has been worked off, Airtable has what the lake has: no order
\* of two recruiters' saves and no failure between row and outbox parts them.
OutboxCarriesAll ==
  lake => \A a \in Applicants : hiring[a] = [f \in DOMAIN Blank |-> WorkedOff(a, f)]

\* A card at rest stands where its applicant has stood: whatever was refused,
\* answered late or reloaded in between, no stage stays that was never saved.
CardsStandWhereTheyStood ==
  \A r \in Recruiters, a \in Applicants :
    a \notin board[r].saving => Visible(r).of[a].Status \in held[a]

\* What recruiters saved is what Airtable gets and what their boards show.
SavesAreShared == OutboxCarriesAll /\ CardsStandWhereTheyStood
=============================================================================
