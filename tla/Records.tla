------------------------------- MODULE Records -------------------------------
(***************************************************************************)
(* What employees read and write of themselves in Airtable: the injury     *)
(* register and their Team Members record.  A page shows what was read,    *)
(* People & Operations edit the same rows in Airtable, and a save is a     *)
(* look-up followed by a PATCH of everything the form holds.  Names of     *)
(* employees are taken to be different from each other.                    *)
(***************************************************************************)
EXTENDS Naturals, Sequences, FiniteSets

CONSTANTS
  Injured,      \* employees with the register open
  ReportIds,    \* rows the register may have
  MaxSteps      \* bound: clicks of employees and edits of People & Operations

VARIABLES
  register,     \* the rows of the register by id
  sheet,        \* each employee's page and its server action
  members,      \* the Team Members rows with one employee's company email, in table order
  profile,      \* that employee's My Details page and its server action
  steps         \* bounded events so far

recordVars == <<register, sheet, members, profile, steps>>

Absent == [there |-> FALSE]
Steps == steps < MaxSteps /\ steps' = steps + 1

-----------------------------------------------------------------------------
(* The injury register *)

\* A row: the linked employee and the name that signed it, the date of injury
\* when one was given, and the place for every other field of the report.
Row(link, name, date, place) ==
  [there |-> TRUE, link |-> link, name |-> name, date |-> date, place |-> place]

\* recordBelongsToEmployee
Belongs(row, e) == row.there /\ (row.link = e \/ row.name = e)

\* Mutant: whatever the id names may be edited.
BelongsToAnybody(row, e) == row.there

\* updateEmployeeInjury: "You can only edit injury reports submitted under your
\* own work identity."
MayEdit(row, e) == Belongs(row, e)

\* recordFromAirtable: without a date of injury the day of submission stands for
\* it; a date that is none makes the report one that cannot be verified.
Dates == {"none", "given", "nonsense"}
Verifiable(row) == row.date # "nonsense"
Report(id, row) ==
  [id |-> id, place |-> row.place, date |-> IF row.date = "none" THEN "submission" ELSE row.date]

\* getEmployeeInjuries: the reports, and how many were left out.
Mine(e) == {id \in ReportIds : Belongs(register[id], e)}
Listing(e) ==
  [items |-> {Report(id, register[id]) : id \in {i \in Mine(e) : Verifiable(register[i])}},
   issues |-> Cardinality({i \in Mine(e) : ~Verifiable(register[i])})]

\* getAllInjuries
RegisterShown ==
  LET rows == {id \in ReportIds : register[id].there} IN
  [items |-> {Report(id, register[id]) : id \in {i \in rows : Verifiable(register[i])}},
   issues |-> Cardinality({i \in rows : ~Verifiable(register[i])})]

NoForm == [id |-> "new", date |-> "given", place |-> 0]
SheetRests(list) == [stage |-> "idle", list |-> list, form |-> NoForm, wrote |-> FALSE]

\* The page is opened, or loaded again.
OpenRegister(e) ==
  /\ sheet[e].stage = "idle" /\ Steps
  /\ sheet' = [sheet EXCEPT ![e] = SheetRests(Listing(e))]
  /\ UNCHANGED <<register, members, profile>>

\* ReportForm: empty, or filled from the report shown, and a place typed.
SendReport(e) ==
  /\ sheet[e].stage = "idle" /\ Steps
  /\ \E form \in {NoForm} \cup sheet[e].list.items, place \in 0..1 :
       sheet' = [sheet EXCEPT ![e].stage = "find", ![e].form = [form EXCEPT !.place = place],
                              ![e].wrote = FALSE]
  /\ UNCHANGED <<register, members, profile>>

\* An error is shown on the form, and the user may send it again.
ReportFails(e) ==
  /\ sheet[e].stage \in {"find", "load", "write"}
  /\ sheet' = [sheet EXCEPT ![e].stage = "idle"]
  /\ UNCHANGED <<register, members, profile, steps>>

\* findEmployee found the employee.
FindEmployee(e) ==
  /\ sheet[e].stage = "find"
  /\ sheet' = [sheet EXCEPT ![e].stage = IF sheet[e].form.id = "new" THEN "write" ELSE "load"]
  /\ UNCHANGED <<register, members, profile, steps>>

\* updateEmployeeInjury reads the row before it writes it.
LoadReport(e) ==
  /\ sheet[e].stage = "load"
  /\ MayEdit(register[sheet[e].form.id], e)
  /\ sheet' = [sheet EXCEPT ![e].stage = "write"]
  /\ UNCHANGED <<register, members, profile, steps>>

\* reportFields: a day of submission that was shown as the date of injury is
\* written as the date of injury.
Fielded(row, form) ==
  [row EXCEPT !.date = IF form.date = "nonsense" THEN @ ELSE "given", !.place = form.place]

\* The POST or PATCH reaches Airtable; the answer follows or is lost.
WriteReport(e) ==
  LET form == sheet[e].form IN
  /\ sheet[e].stage = "write"
  /\ \E id \in IF form.id = "new" THEN {i \in ReportIds : ~register[i].there} ELSE {form.id} :
       /\ form.id = "new" \/ register[id].there
       /\ register' = [register EXCEPT ![id] =
            IF form.id = "new" THEN Row(e, e, "given", form.place) ELSE Fielded(@, form)]
       /\ \E lost \in BOOLEAN :
            sheet' = [sheet EXCEPT ![e].stage = IF lost THEN "idle" ELSE "answer",
                                   ![e].form = Report(id, register'[id]), ![e].wrote = TRUE]
  /\ UNCHANGED <<members, profile, steps>>

\* saveRecord
ShowReport(e) ==
  /\ sheet[e].stage = "answer"
  /\ sheet' = [sheet EXCEPT ![e].stage = "idle",
       ![e].list.items = {r \in @ : r.id # sheet[e].form.id} \cup {sheet[e].form}]
  /\ UNCHANGED <<register, members, profile, steps>>

\* People & Operations add, correct, link or delete a report.
Corrections == {Absent} \cup {Row(l, n, d, 0) : l \in Injured, n \in Injured, d \in Dates}

KeepRegister(id) ==
  /\ Steps
  /\ \E row \in Corrections :
       /\ row # register[id]
       /\ register' = [register EXCEPT ![id] = row]
  /\ UNCHANGED <<sheet, members, profile>>

-----------------------------------------------------------------------------
(* The Team Members record *)

\* Three of the fields: one text, the date of birth, and one with a name that is
\* shown and never edited.  A value is empty, a text, a date, or an Airtable
\* record id, which is not shown.
Labels == {"mobile", "birth", "contract"}
Editable == {"mobile", "birth"}
Holdings == {"empty", "text", "date", "linked"}

\* detailValue, scalarValue
Readable(value) == value # "linked"

\* Mutant: a value that cannot be shown is shown as not recorded.
ShownAsEmpty(fields) ==
  [l \in Labels |-> IF Readable(fields[l]) THEN fields[l] ELSE "empty"]

\* buildPersonalDetailsProfile: what cannot be read is left out and counted.
Entries(fields) == [l \in {x \in Labels : Readable(fields[x])} |-> fields[l]]

Current(m) == m.status # "Past"

\* readTable with maxRecords 2: two of the rows with this email, in any order.
Pages2 == {p \in SUBSET DOMAIN members : Cardinality(p) = (IF Len(members) < 2 THEN Len(members) ELSE 2)}
Matches(p) == {i \in p : Current(members[i])}

ProfileRests ==
  [stage |-> "idle", state |-> "none", read |-> <<>>, entries |-> <<>>, posted |-> <<>>, row |-> 0]

\* The rows and what they hold, chosen when the page is first asked for (bound:
\* nothing else happens then).
FillMembers ==
  /\ members = <<>> /\ steps = 0 /\ steps' = IF MaxSteps < 2 THEN 0 ELSE MaxSteps - 2
  /\ \E n \in 1..3 :
       \E status \in [1..n -> {"Current", "Past"}], fields \in [Labels -> Holdings] :
         members' = [i \in 1..n |-> [status |-> status[i], fields |-> fields]]
  /\ UNCHANGED <<register, sheet, profile>>

\* getPersonalDetails and selectPersonalDetails
LoadDetails ==
  /\ members # <<>> /\ profile.stage = "idle" /\ Steps
  /\ \E p \in Pages2 :
       profile' = [ProfileRests EXCEPT
         !.state = IF Cardinality(Matches(p)) = 1 THEN "matched"
                   ELSE IF Matches(p) = {} THEN "not_found" ELSE "ambiguous",
         !.read = IF Cardinality(Matches(p)) = 1
                  THEN members[CHOOSE i \in Matches(p) : TRUE].fields ELSE <<>>,
         !.entries = IF Cardinality(Matches(p)) = 1
                     THEN Entries(members[CHOOSE i \in Matches(p) : TRUE].fields) ELSE <<>>]
  /\ UNCHANGED <<register, sheet, members>>

\* inputValue: the date field of the form holds dates only.
FormValue(l, value) == IF l = "birth" /\ value # "date" THEN "empty" ELSE value

\* PersonalDetailsEditor: every entry that may be edited is posted, one of them
\* perhaps changed.
SendDetails ==
  /\ profile.stage = "idle" /\ profile.state = "matched" /\ Steps
  /\ LET labels == Editable \cap DOMAIN profile.entries IN
     /\ labels # {}
     /\ \E typed \in labels, value \in {"empty", "text", "date"} :
          profile' = [profile EXCEPT !.stage = "find",
            !.posted = [l \in labels |-> FormValue(l, IF l = typed THEN value ELSE profile.entries[l])]]
  /\ UNCHANGED <<register, sheet, members>>

\* updatePersonalDetails: the rows with the email are looked up once more.
MatchDetails ==
  /\ profile.stage = "find"
  /\ \E p \in Pages2 :
       profile' = IF Cardinality(Matches(p)) = 1
                  THEN [profile EXCEPT !.stage = "write", !.row = CHOOSE i \in Matches(p) : TRUE]
                  ELSE [profile EXCEPT !.stage = "idle"]
  /\ UNCHANGED <<register, sheet, members, steps>>

\* The PATCH.
WriteDetails ==
  /\ profile.stage = "write"
  /\ members' = [members EXCEPT ![profile.row].fields =
       [l \in Labels |-> IF l \in DOMAIN profile.posted THEN profile.posted[l] ELSE @[l]]]
  /\ profile' = [profile EXCEPT !.stage = "idle", !.row = 0]
  /\ UNCHANGED <<register, sheet, steps>>

\* The call fails, before or after the PATCH.
DetailsFail ==
  /\ profile.stage \in {"find", "write"}
  /\ profile' = [profile EXCEPT !.stage = "idle"]
  /\ UNCHANGED <<register, sheet, members, steps>>

\* People & Operations change a field or the status of a row.
KeepMembers ==
  /\ Steps
  /\ \E i \in DOMAIN members :
       \/ \E l \in Labels, v \in Holdings : members' = [members EXCEPT ![i].fields[l] = v]
       \/ \E s \in {"Current", "Past"} : members' = [members EXCEPT ![i].status = s]
  /\ UNCHANGED <<register, sheet, profile>>

RecordsInit ==
  /\ register = [id \in ReportIds |-> Absent]
  /\ sheet = [e \in Injured |-> SheetRests([items |-> {}, issues |-> 0])]
  /\ members = <<>> /\ profile = ProfileRests
  /\ steps = 0

RecordsNext ==
  \/ /\ members = <<>>
     /\ \/ \E e \in Injured :
             \/ OpenRegister(e) \/ SendReport(e) \/ ReportFails(e) \/ FindEmployee(e)
             \/ LoadReport(e) \/ WriteReport(e) \/ ShowReport(e)
        \/ \E id \in ReportIds : KeepRegister(id)
        \/ FillMembers
  \/ LoadDetails \/ SendDetails \/ MatchDetails \/ WriteDetails \/ DetailsFail \/ KeepMembers

RecordsSpec == RecordsInit /\ [][RecordsNext]_recordVars
-----------------------------------------------------------------------------
\* However People & Operations change the rows meanwhile: an employee's save
\* reaches a report only if it was theirs after the click, it leaves alone whose
\* report it is, and what was saved is part of the managers' register; and a save
\* of My Details leaves alone every value the page could not show and every field
\* it may not edit.
SavesStayWithin ==
  [][/\ \A e \in Injured :
          sheet[e].stage = "write" /\ sheet'[e].wrote /\ ~sheet[e].wrote =>
            LET id == sheet'[e].form.id IN
            /\ sheet'[e].form \in RegisterShown'.items \/ register'[id].date = "nonsense"
            /\ register[id].there =>
                 register'[id].link = register[id].link /\ register'[id].name = register[id].name
     /\ \A e \in Injured :
          sheet[e].stage = "load" /\ sheet'[e].stage = "write" =>
            e \in {register[sheet[e].form.id].link, register[sheet[e].form.id].name}
     /\ profile.stage = "write" /\ members' # members /\ profile'.stage = "idle" =>
          \A l \in Labels :
            members'[profile.row].fields[l] # members[profile.row].fields[l] =>
              l \in Editable /\ Readable(profile.read[l])]_recordVars

\* Not kept: a save that changed only the place also turns the day of submission
\* into the date of injury where none was given.
EditsOnlyWhatChanged ==
  [][\A e \in Injured :
       sheet[e].stage = "write" /\ register' # register /\ sheet[e].form.id # "new" =>
         register'[sheet[e].form.id].date = register[sheet[e].form.id].date]_recordVars

\* Not kept: "Cove found one current record with your verified work email." The
\* look-up ends after two rows, of which one may be past and a third current.
MatchedIsTheOnlyOne ==
  [][profile.state # "matched" /\ profile'.state = "matched" =>
       Cardinality({i \in DOMAIN members : Current(members[i])}) = 1]_recordVars
=============================================================================
