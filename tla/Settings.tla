------------------------------ MODULE Settings ------------------------------
(***************************************************************************)
(* The scheduling settings of one manager, saved by the manager and by the *)
(* Pod Lead.  A save reads the row, decides, and writes every column back; *)
(* the week's hours are deleted and inserted one row at a time.            *)
(***************************************************************************)
EXTENDS Naturals

CONSTANTS
  Savers,      \* people with the settings page open
  PodLeads,    \* those who may manage
  Weekdays,    \* days of the week
  MaxSettingSaves     \* bound: saves

VARIABLES
  staff,       \* the manager's row: one column of the manager's own, one of the lead's
  hours,       \* working_hours: bag of days, as a count per day
  save,        \* what each saver's server action is doing
  saves,       \* saves begun
  ordained     \* history: the values a lead gave the lead's column

settingVars == <<staff, hours, save, saves, ordained>>

IdleSave == [step |-> "idle", row |-> [own |-> 0, lead |-> 0], left |-> {}]

SettingsInit ==
  /\ staff = [own |-> 0, lead |-> 0]
  /\ hours = [d \in Weekdays |-> 1]
  /\ save = [a \in Savers |-> IdleSave]
  /\ saves = 0
  /\ ordained = {0}

\* Mutant: what is not the manager's to change is looked for in the form only
\* when the page would show it.
NeverRefused(a, posted) == FALSE

\* saveSettings: "managed by your Pod Lead".
LeadRefuses(a, posted) == a \notin PodLeads /\ posted # staff.lead

\* saveSettings: the row is read and the form laid over it.  A disabled input is
\* not posted, and the column as read stands for it.
LoadSettings(a) ==
  /\ save[a].step = "idle" /\ saves < MaxSettingSaves
  /\ saves' = saves + 1
  /\ \E own, posted \in 0..1 :
       save' = [save EXCEPT ![a] =
         IF LeadRefuses(a, posted) \/ [own |-> own, lead |-> posted] = staff THEN IdleSave
         ELSE [step |-> "write", row |-> [own |-> own, lead |-> posted], left |-> {}]]
  /\ UNCHANGED <<staff, hours, ordained>>

\* ... and the whole row is written.
WriteSettings(a) ==
  /\ save[a].step = "write"
  /\ staff' = save[a].row
  /\ save' = [save EXCEPT ![a] = IdleSave]
  /\ ordained' = IF a \in PodLeads THEN ordained \cup {save[a].row.lead} ELSE ordained
  /\ UNCHANGED <<hours, saves>>

\* saveWorkingHours, for those who may manage: the week is deleted...
DeleteHours(a) ==
  /\ a \in PodLeads /\ save[a].step = "idle" /\ saves < MaxSettingSaves
  /\ saves' = saves + 1
  /\ hours' = [d \in Weekdays |-> 0]
  /\ \E week \in SUBSET Weekdays :
       save' = [save EXCEPT ![a] = [step |-> "insert", row |-> save[a].row, left |-> week]]
  /\ UNCHANGED <<staff, ordained>>

\* ... and its rows inserted one by one.
InsertHours(a) ==
  /\ save[a].step = "insert"
  /\ IF save[a].left = {}
     THEN save' = [save EXCEPT ![a] = IdleSave] /\ UNCHANGED hours
     ELSE \E d \in save[a].left :
            /\ hours' = [hours EXCEPT ![d] = @ + 1]
            /\ save' = [save EXCEPT ![a].left = @ \ {d}]
  /\ UNCHANGED <<staff, saves, ordained>>

SettingsNext ==
  \E a \in Savers :
    LoadSettings(a) \/ WriteSettings(a) \/ DeleteHours(a) \/ InsertHours(a)

SettingsSpec == SettingsInit /\ [][SettingsNext]_settingVars
-----------------------------------------------------------------------------
\* However the saves of managers and leads overlap, what stands in the lead's
\* column was put there by a lead, though perhaps not by the last one.
LeadValuesAreTheLeads == staff.lead \in ordained

\* Not kept: "a Booking Manager (no booking.manage) may change only their own
\* buffer, bio and guest-reminder toggle".  A manager's save that read the row
\* before a lead's writes the old value back.
LeadsColumnsAreTheLeads ==
  [][\A a \in Savers \ PodLeads :
       save[a].step = "write" /\ save'[a].step = "idle" => staff'.lead = staff.lead]_settingVars
=============================================================================
