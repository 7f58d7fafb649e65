------------------------------ MODULE MCBooking -------------------------------
(***************************************************************************)
(* The parts of the booking application around the booking handlers.  They *)
(* share no table and none calls another, so one run checks them next to   *)
(* each other: each behaviour is one part's, and the other parts rest in   *)
(* an initial state.                                                       *)
(***************************************************************************)
EXTENDS Slots, Invites, Coverage, Templates, Traffic, Settings, Reminders,
        ManagePage, TLC

VARIABLE part   \* the part the behaviour is about

partVars ==
  <<desks, inviteVars, surveyed, templateVars, trafficVars, settingVars, vars,
    manageVars, part>>

PartsInit ==
  /\ part \in {"slots", "invites", "coverage", "templates", "traffic",
               "settings", "reminders", "manage"}
  /\ SlotsInit
  /\ InviteInit
  /\ CoverageInit
  /\ TemplatesInit
  /\ TrafficInit
  /\ SettingsInit
  /\ Init
  /\ TabsInit

PartsNext ==
  /\ UNCHANGED part
  /\ IF part = "slots"     THEN AskDesk       ELSE UNCHANGED desks
  /\ IF part = "invites"   THEN InviteNext    ELSE UNCHANGED inviteVars
  /\ IF part = "coverage"  THEN Survey        ELSE UNCHANGED surveyed
  /\ IF part = "templates" THEN TemplatesNext ELSE UNCHANGED templateVars
  /\ IF part = "traffic"   THEN TrafficNext   ELSE UNCHANGED trafficVars
  /\ IF part = "settings"  THEN SettingsNext  ELSE UNCHANGED settingVars
  /\ IF part = "reminders" THEN Next          ELSE UNCHANGED vars
  /\ IF part = "manage"    THEN TabsNext      ELSE UNCHANGED manageVars

PartsSpec == PartsInit /\ [][PartsNext]_partVars

\* Of the part "reminders".
Symmetry == Permutations(Ids) \cup Permutations(Keys) \cup Permutations(Runs)
=============================================================================
