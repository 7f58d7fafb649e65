----------------------------- MODULE Templates -----------------------------
(***************************************************************************)
(* Guest Communications, for one moment of the guest's journey: a stored   *)
(* template answers for a brand and a call type, for a brand, for a call   *)
(* type, or for everything.  Leads edit one scope at a time and copy what  *)
(* they wrote to other brands, from a list of what will be replaced that   *)
(* is as old as their page; a mail takes the most specific template.       *)
(***************************************************************************)
EXTENDS Integers, Sequences, SequencesExt

CONSTANTS
  Leads,      \* open editors
  Brands,
  CallTypes,  \* guest-facing event type keys
  Every,      \* null: all brands, or all call types
  MaxSaves    \* bound: how many saves and applications are sent

ASSUME TemplatesAssumption == Every \notin Brands \cup CallTypes /\ MaxSaves \in Nat

VARIABLES
  template,  \* booking.message_template: which save wrote the scope's row, 0 none
  saving,    \* the server actions, numbered in the order they were sent
  editor     \* the editor each lead has open

templateVars == <<template, saving, editor>>

TemplateScopes == [brand : Brands \cup {Every}, type : CallTypes \cup {Every}]
Saves == DOMAIN saving
AnsweredSaves == {n \in Saves : saving[n].at = "answered"}

\* The page of a scope, with the rows as they are: nothing picked or confirmed.
EditorPage(s, rows) == [scope |-> s, rows |-> rows, picked |-> <<>>, sure |-> FALSE, busy |-> 0]

TemplatesInit ==
  /\ template = [s \in TemplateScopes |-> 0]
  /\ saving = <<>>
  /\ editor = [l \in Leads |-> EditorPage([brand |-> Every, type |-> Every], template)]
-----------------------------------------------------------------------------
\* resolveTemplate: of the rows that apply, the brand's own first, of those the
\* call type's own.  Every stands for the built-in text.
ScopeRank(s) == (IF s.brand # Every THEN 2 ELSE 0) + (IF s.type # Every THEN 1 ELSE 0)

ResolvedScope(rows, b, t) ==
  LET found == {s \in TemplateScopes : rows[s] # 0 /\ s.brand \in {b, Every} /\ s.type \in {t, Every}} IN
  IF found = {} THEN Every ELSE CHOOSE s \in found : \A r \in found : ScopeRank(r) <= ScopeRank(s)

\* displaySource: the scope that the badge, the list and the panel name.
DisplayedScope(rows, b, t) ==
  LET there == {s \in TemplateScopes : rows[s] # 0} IN
  CASE b # Every /\ t # Every /\ [brand |-> b, type |-> t] \in there -> [brand |-> b, type |-> t]
    [] OTHER -> IF b # Every /\ [brand |-> b, type |-> Every] \in there THEN [brand |-> b, type |-> Every]
                ELSE IF [brand |-> Every, type |-> Every] \in there THEN [brand |-> Every, type |-> Every]
                ELSE Every

\* summarizeMoment: the moment's card on the list page.
MomentCard(rows) ==
  LET there == {s \in TemplateScopes : rows[s] # 0} IN
  [default   |-> [brand |-> Every, type |-> Every] \in there,
   overrides |-> {s \in there : s.brand # Every},
   edited    |-> there # {}]

\* computeApplyDiff: what the panel says will become of every brand picked.
ApplyDiff(e) ==
  [b \in ToSet(e.picked) |->
     IF e.rows[[brand |-> b, type |-> e.scope.type]] # 0 THEN "replace" ELSE "create"]
-----------------------------------------------------------------------------
\* Another scope is chosen: an editor of its own, from the rows of now.
ChooseScope(l, s) ==
  /\ editor[l].scope # s
  /\ editor' = [editor EXCEPT ![l] = EditorPage(s, template)]
  /\ UNCHANGED <<template, saving>>

\* A click that sends a server action, while the editor's last one is answered.
SendsAction(l, scopes, kind) ==
  /\ editor[l].busy = 0 /\ Len(saving) < MaxSaves
  /\ saving' = Append(saving, [at |-> "update", todo |-> scopes, to |-> ToSet(scopes),
                               kind |-> kind, after |-> AnsweredSaves])
  /\ editor' = [editor EXCEPT ![l].busy = Len(saving')]
  /\ UNCHANGED template

\* handleSave
SaveTemplate(l) == SendsAction(l, <<editor[l].scope>>, "save")

\* toggleBrand takes the confirmation back.
ToggleBrand(l, b) ==
  /\ b # editor[l].scope.brand
  /\ editor' = [editor EXCEPT ![l].sure = FALSE,
                 ![l].picked = IF b \in ToSet(@) THEN RemoveAt(@, CHOOSE i \in DOMAIN @ : @[i] = b) ELSE Append(@, b)]
  /\ UNCHANGED <<template, saving>>

ConfirmApply(l) ==
  /\ editor[l].picked # <<>> /\ ~editor[l].sure
  /\ editor' = [editor EXCEPT ![l].sure = TRUE]
  /\ UNCHANGED <<template, saving>>

\* handleApply
ApplyToMany(l) ==
  /\ editor[l].sure
  /\ SendsAction(l, [i \in DOMAIN editor[l].picked |->
                 [brand |-> editor[l].picked[i], type |-> editor[l].scope.type]], "apply")

-----------------------------------------------------------------------------
\* The editor that asked, if it is still open, is told and reads the rows anew.
EditorsAfter(n, rows) ==
  [l \in Leads |-> IF editor[l].busy # n THEN editor[l]
                   ELSE IF saving[n].kind = "apply" THEN EditorPage(editor[l].scope, rows)
                   ELSE [editor[l] EXCEPT !.busy = 0, !.rows = rows]]

\* One scope is written: on to the next, or the action is answered.
WritesScope(n) ==
  LET rows == [template EXCEPT ![Head(saving[n].todo)] = n]
      left == Tail(saving[n].todo) IN
  /\ template' = rows
  /\ saving' = [saving EXCEPT ![n].todo = left, ![n].at = IF left = <<>> THEN "answered" ELSE "update"]
  /\ editor' = IF left = <<>> THEN EditorsAfter(n, rows) ELSE editor

RowIsThere(n) == template[Head(saving[n].todo)] # 0
SaveTurns(n, step) == saving' = [saving EXCEPT ![n].at = step] /\ UNCHANGED <<template, editor>>

\* writeScope: an active row of the scope is updated ...
UpdateRow(n) ==
  /\ saving[n].at = "update"
  /\ IF RowIsThere(n) THEN WritesScope(n) ELSE SaveTurns(n, "insert")

\* Mutant: the conflict of two first saves is not tried again.
InsertOnce(n) ==
  /\ saving[n].at = "insert"
  /\ IF RowIsThere(n) THEN SaveTurns(n, "failed") ELSE WritesScope(n)

\* ... else one is inserted, which the unique index may refuse ...
InsertRow(n) ==
  /\ saving[n].at = "insert"
  /\ IF RowIsThere(n) THEN SaveTurns(n, "retry") ELSE WritesScope(n)

\* ... and then it is there to update.
RetryUpdate(n) ==
  /\ saving[n].at = "retry"
  /\ IF RowIsThere(n) THEN WritesScope(n) ELSE SaveTurns(n, "failed")

TemplatesNext ==
  \/ \E l \in Leads :
       \/ \E s \in TemplateScopes : ChooseScope(l, s)
       \/ \E b \in Brands : ToggleBrand(l, b)
       \/ SaveTemplate(l) \/ ConfirmApply(l) \/ ApplyToMany(l)
  \/ \E n \in Saves : UpdateRow(n) \/ InsertRow(n) \/ RetryUpdate(n)

TemplatesSpec == TemplatesInit /\ [][TemplatesNext]_templateVars
-----------------------------------------------------------------------------
\* However first saves of one scope cross, none is refused, and once a save is
\* answered its scopes hold its text, or that of a save that had not been
\* answered before it was sent: no answered save is undone by an older one.
SavesLand ==
  \A n \in Saves :
    /\ saving[n].at # "failed"
    /\ n \in AnsweredSaves => \A s \in saving[n].to : template[s] # 0 /\ template[s] \notin saving[n].after

\* displaySource mirrors "resolveTemplate's precedence": the badge names the
\* template a guest of the scope is sent.
DisplayMirrorsResolution ==
  \A b \in Brands, t \in CallTypes : DisplayedScope(template, b, t) = ResolvedScope(template, b, t)

\* "The explicit 'what will be overwritten' summary ... Never silent": nothing the
\* panel said would be created is replaced, nor another text than it spoke of.
AppliesWhatWasListed ==
  [][\A l \in Leads : \A b \in ToSet(editor[l].picked) :
       LET s == [brand |-> b, type |-> editor[l].scope.type] IN
       /\ editor[l].busy # 0 /\ saving[editor[l].busy].kind = "apply"
       /\ template'[s] = editor[l].busy /\ template[s] # template'[s]
       => /\ template[s] # 0 => ApplyDiff(editor[l])[b] = "replace"
          /\ template[s] = editor[l].rows[s]]_templateVars

\* "Every email a guest receives ... Edit the default once, or tailor a message for
\* a single brand or call type": the card names the template a guest is sent.
CardShowsEveryTemplate ==
  LET card == MomentCard(template) IN
  \A b \in Brands, t \in CallTypes :
    LET sent == ResolvedScope(template, b, t) IN
    IF sent = Every THEN ~card.default /\ \A s \in card.overrides : s.brand # b \/ s.type \notin {t, Every}
    ELSE sent \in card.overrides \/ (card.default /\ sent = [brand |-> Every, type |-> Every])
=============================================================================
