---------------------------- MODULE TestSchedule ----------------------------
(***************************************************************************)
(* autotest::runalltests: the test modules run one after the other, and     *)
(* their flags and outcomes decide when the virtual machine is saved as     *)
(* 'lastgood', when it is rolled back and when the rest is skipped.         *)
(*                                                                          *)
(* Three parties keep their own record of the consoles: the guest, where a  *)
(* user is logged in or not (and which a snapshot brings back); the         *)
(* backend, whose console objects are activated or not; and autotest, which *)
(* has to reconcile both after a rollback.                                  *)
(***************************************************************************)
EXTENDS Naturals

CONSTANTS
  LastModule,   \* the number of test modules
  Consoles,     \* names of the consoles of the distribution
  FlagSets,     \* the flags a module may have
  Settings,     \* the job settings that matter here
  MaxSteps      \* bound: console operations of one module

Modules == 1..LastModule
None == "none"           \* no console selected yet: the one of the backend's start
NoModule == 0
Fatal == {"unset", "off", "on"}
AllFlags == [fatal : Fatal, milestone : BOOLEAN, no_rollback : BOOLEAN,
             always_rollback : BOOLEAN, always_run : BOOLEAN]
\* snapshots: what backend_can_handle says. SKIPTO of a module is its number; a
\* name that no module has is the number behind the last one.
AllSettings == [snapshots : BOOLEAN, TESTDEBUG : BOOLEAN,
                MAKETESTSNAPSHOTS : BOOLEAN, SKIPTO : {NoModule} \cup 1..(LastModule + 1),
                FAIL_ON_ALWAYS_ROLLBACK_NOT_SUPPORTED : BOOLEAN]

ASSUME ModulesAssumption == LastModule \in Nat \ {0} /\ MaxSteps \in Nat
ASSUME FlagsAssumption == FlagSets \subseteq AllFlags
ASSUME SettingsAssumption == Settings \subseteq AllSettings
ASSUME ConsolesAssumption == None \notin Consoles

VARIABLES
  test_flags,        \* the flags of each module
  settings,          \* the settings of the job
  pc,                \* where runalltests is
  testindex,         \* the module of the current round
  steps,             \* console operations of the running module
  vmloaded, fatal_reason,
  results,           \* per module: its saved result
  vm,                \* what the guest has seen: [ran, logged_in], the logins those of this job
  snapshots,         \* name -> the guest at that moment, or NoVM
  activated,         \* backend: the consoles whose object is activated
  current_console,   \* backend: the selected console
  activated_consoles, selected_console,
  last_milestone, last_milestone_active_consoles, last_milestone_console

settingVars == <<test_flags, settings>>
roundVars == <<testindex, steps, vmloaded, fatal_reason, results>>
guestVars == <<vm, snapshots>>
backendVars == <<activated, current_console>>
consoleVars == <<activated_consoles, selected_console>>
milestoneVars == <<last_milestone, last_milestone_active_consoles,
                   last_milestone_console>>
vars == <<settingVars, pc, roundVars, guestVars, backendVars, consoleVars,
          milestoneVars>>

\* `believed` is not state of the program: the consoles the backend held for
\* activated at the time of the snapshot.
Guests == [ran : SUBSET Modules, logged_in : SUBSET Consoles]
NoVM == [ran |-> {}, logged_in |-> {}, believed |-> {}, made |-> FALSE]
Saved == [ran : SUBSET Modules, logged_in : SUBSET Consoles,
          believed : SUBSET Consoles, made : BOOLEAN]
LastGood == 0              \* the snapshot 'lastgood'; others are named by module
SnapshotNames == {LastGood} \cup Modules

\* runalltests is past the head of a round.
InModule == pc \in {"running", "passed", "rolled_back"}

TypeOK ==
  /\ test_flags \in [Modules -> FlagSets]
  /\ settings \in Settings
  /\ pc \in {"round", "running", "passed", "rolled_back", "completed",
             "stopped", "died"}
  /\ testindex \in 1..(LastModule + 1)
  /\ InModule => testindex \in Modules
  /\ steps \in Nat
  /\ vmloaded \in BOOLEAN
  /\ fatal_reason \in BOOLEAN
  /\ results \in [Modules -> {"none", "ok", "fail", "ignored", "skip"}]
  /\ vm \in Guests
  /\ snapshots \in [SnapshotNames -> Saved]
  /\ activated \in SUBSET Consoles
  /\ current_console \in Consoles \cup {None}
  /\ activated_consoles \in SUBSET Consoles
  /\ selected_console \in Consoles \cup {None}
  /\ last_milestone \in Modules \cup {NoModule}
  /\ last_milestone_active_consoles \in SUBSET Consoles
  /\ last_milestone_console \in Consoles \cup {None}

\* With SKIPTO the disk image holds the snapshots of an earlier run. Nothing of
\* this job knows of the logins in them.
OldSnapshots(skipto) ==
  [ name \in SnapshotNames |->
      IF skipto # NoModule
      THEN [ran |-> 1..(skipto - 1), logged_in |-> {}, believed |-> {},
            made |-> TRUE]
      ELSE NoVM ]

Init ==
  /\ test_flags \in [Modules -> FlagSets]
  /\ settings \in Settings
  /\ pc = "round"
  /\ testindex = 1
  /\ steps = 0
  /\ vmloaded = FALSE
  /\ fatal_reason = FALSE
  /\ results = [m \in Modules |-> "none"]
  /\ vm = [ran |-> {}, logged_in |-> {}]
  /\ snapshots = OldSnapshots(settings.SKIPTO)
  /\ activated = {}
  /\ current_console = None
  /\ activated_consoles = {}
  /\ selected_console = None
  /\ last_milestone = NoModule
  /\ last_milestone_active_consoles = {}
  /\ last_milestone_console = None
-----------------------------------------------------------------------------
t == testindex
flags == test_flags[t]
HasNext == t < LastModule
firsttest == IF settings.SKIPTO # NoModule THEN settings.SKIPTO ELSE 1

MakeSnapshot(name, guest) ==
  snapshots' = [snapshots EXCEPT ![name] =
                  [ran |-> guest.ran, logged_in |-> guest.logged_in,
                   believed |-> activated, made |-> TRUE]]

GuestOf(saved) == [ran |-> saved.ran, logged_in |-> saved.logged_in]

NextRound ==
  /\ testindex' = t + 1
  /\ pc' = "round"
-----------------------------------------------------------------------------
(* The head of a round                                                       *)

NotSupported ==
  /\ flags.always_rollback
  /\ ~settings.snapshots
  /\ settings.FAIL_ON_ALWAYS_ROLLBACK_NOT_SUPPORTED

Loads == ~vmloaded /\ t = firsttest

\* The guest the round works with: a jump to a module starts from a snapshot.
GuestOfRound ==
  IF Loads /\ settings.SKIPTO # NoModule
  THEN GuestOf(snapshots[IF settings.TESTDEBUG THEN LastGood ELSE firsttest])
  ELSE vm

\* 'always_rollback requested but snapshots are not supported by the backend'
DieUnsupported ==
  /\ pc = "round"
  /\ t <= LastModule
  /\ NotSupported
  /\ pc' = "died"
  /\ UNCHANGED <<settingVars, roundVars, guestVars, backendVars, consoleVars,
                 milestoneVars>>

Skipped == (~vmloaded /\ t # firsttest) \/ (fatal_reason /\ ~flags.always_run)

Skip ==
  /\ pc = "round"
  /\ t <= LastModule
  /\ ~NotSupported
  /\ Skipped
  /\ results' = [results EXCEPT ![t] = IF @ = "none" THEN "skip" ELSE @]
  /\ NextRound
  /\ UNCHANGED <<settingVars, steps, vmloaded, fatal_reason, guestVars,
                 backendVars, consoleVars, milestoneVars>>

\* From here on the module works on the guest.
Start ==
  /\ pc = "round"
  /\ t <= LastModule
  /\ ~NotSupported
  /\ ~Skipped
  /\ vmloaded' = TRUE
  /\ IF settings.snapshots /\ settings.MAKETESTSNAPSHOTS /\ settings.SKIPTO # t
     THEN MakeSnapshot(t, GuestOfRound)
     ELSE UNCHANGED snapshots
  /\ vm' = [GuestOfRound EXCEPT !.ran = @ \cup {t}]
  /\ steps' = 0
  /\ pc' = "running"
  /\ UNCHANGED <<settingVars, testindex, fatal_reason, results, backendVars,
                 consoleVars, milestoneVars>>
-----------------------------------------------------------------------------
(* What a module does with consoles (testapi)                                *)

Running == pc = "running" /\ steps < MaxSteps

\* select_console: the backend activates the console unless it believes it is
\* activated, and only then the distribution logs in.
SelectConsole(c) ==
  /\ Running
  /\ steps' = steps + 1
  /\ current_console' = c
  /\ selected_console' = c
  /\ activated' = activated \cup {c}
  /\ IF c \in activated
     THEN UNCHANGED <<vm, activated_consoles>>
     ELSE /\ activated_consoles' = activated_consoles \cup {c}
          /\ vm' = [vm EXCEPT !.logged_in = @ \cup {c}]
  /\ UNCHANGED <<settingVars, pc, testindex, vmloaded, fatal_reason, results,
                 snapshots, milestoneVars>>

\* A module that reboots the guest calls reset_consoles.
Reboot ==
  /\ Running
  /\ steps' = steps + 1
  /\ vm' = [vm EXCEPT !.logged_in = {}]
  /\ activated_consoles' = {}
  /\ activated' = {}
  /\ UNCHANGED <<settingVars, pc, testindex, vmloaded, fatal_reason, results,
                 snapshots, current_console, selected_console, milestoneVars>>
-----------------------------------------------------------------------------
(* The end of a module                                                       *)

ConsolesToReset == activated_consoles \ last_milestone_active_consoles

\* rollback_activated_consoles: reset what was activated since the milestone,
\* select the console of the milestone in the backend.
RollbackActivatedConsoles ==
  /\ activated_consoles' = {}
  /\ IF last_milestone_console = None
     THEN /\ activated' = activated \ ConsolesToReset
          /\ UNCHANGED current_console
     ELSE /\ activated' = (activated \ ConsolesToReset)
                             \cup {last_milestone_console}
          /\ current_console' = last_milestone_console
  /\ UNCHANGED selected_console

Rollback ==
  /\ vm' = GuestOf(snapshots[LastGood])
  /\ RollbackActivatedConsoles
  /\ UNCHANGED <<snapshots, milestoneVars>>

FatalError(fatal_failure) ==
  \/ fatal_failure
  \/ flags.fatal = "on"
  \/ flags.fatal = "unset" /\ ~settings.snapshots
  \/ settings.TESTDEBUG

\* A module fails; fatal_failure is what the module itself says of its error.
FailFatally(fatal_failure) ==
  /\ pc = "running"
  /\ FatalError(fatal_failure)
  /\ results' = [results EXCEPT ![t] = "fail"]
  /\ fatal_reason' = TRUE
  /\ NextRound
  /\ UNCHANGED <<settingVars, steps, vmloaded, guestVars, backendVars,
                 consoleVars, milestoneVars>>

\* Mutant: a module that fails after a fatal failure rolls back.
RollsBackFailure_bug ==
  HasNext /\ ~flags.no_rollback /\ last_milestone # NoModule

RollsBackFailure ==
  HasNext /\ ~flags.no_rollback /\ last_milestone # NoModule /\ ~fatal_reason

Fail ==
  /\ pc = "running"
  /\ ~FatalError(FALSE)
  /\ results' = [results EXCEPT ![t] = "fail"]
  /\ IF RollsBackFailure
     THEN Rollback
     ELSE UNCHANGED <<guestVars, backendVars, consoleVars, milestoneVars>>
  /\ NextRound
  /\ UNCHANGED <<settingVars, steps, vmloaded, fatal_reason>>

\* runtest returns: the module passed, or a developer chose to ignore its failure
Pass(result) ==
  /\ pc = "running"
  /\ results' = [results EXCEPT ![t] = result]
  /\ IF fatal_reason THEN NextRound
     ELSE pc' = "passed" /\ UNCHANGED testindex
  /\ UNCHANGED <<settingVars, steps, vmloaded, fatal_reason, guestVars,
                 backendVars, consoleVars, milestoneVars>>

\* Mutant: a module that is itself a milestone is not rolled back.
RollsBackSuccess_bug ==
  /\ HasNext
  /\ ~flags.no_rollback
  /\ last_milestone # NoModule
  /\ flags.always_rollback
  /\ ~flags.milestone

RollsBackSuccess ==
  /\ HasNext
  /\ ~flags.no_rollback
  /\ last_milestone # NoModule
  /\ flags.always_rollback

AlwaysRollback ==
  /\ pc = "passed"
  /\ pc' = "rolled_back"
  /\ IF RollsBackSuccess
     THEN Rollback
     ELSE UNCHANGED <<guestVars, backendVars, consoleVars, milestoneVars>>
  /\ UNCHANGED <<settingVars, roundVars>>

\* The select_console of a rollback fails: the whole run dies.
RollbackDies ==
  /\ \/ pc = "running" /\ ~FatalError(FALSE) /\ RollsBackFailure
     \/ pc = "passed" /\ RollsBackSuccess
  /\ last_milestone_console # None
  /\ vm' = GuestOf(snapshots[LastGood])
  /\ activated' = activated \ ConsolesToReset
  /\ activated_consoles' = {}
  /\ results' = [results EXCEPT ![t] = IF pc = "running" THEN "fail" ELSE @]
  /\ pc' = "died"
  /\ UNCHANGED <<settingVars, testindex, steps, vmloaded, fatal_reason,
                 snapshots, current_console, selected_console, milestoneVars>>

\* No snapshot before a fatal milestone: nothing would ever be rolled back to it.
IsMilestone ==
  /\ settings.snapshots
  /\ \/ settings.TESTDEBUG
     \/ /\ HasNext
        /\ flags.milestone
        /\ ~(test_flags[t + 1].milestone /\ test_flags[t + 1].fatal = "on")

\* Mutant: the consoles of the milestone before are forgotten.
ConsolesOfMilestone_bug == activated_consoles

\* Those of the milestones before stay: after a rollback autotest does not count
\* them among its activated consoles.
ConsolesOfMilestone == last_milestone_active_consoles \cup activated_consoles

Milestone ==
  /\ pc = "rolled_back"
  /\ IF IsMilestone
     THEN /\ MakeSnapshot(LastGood, vm)
          /\ last_milestone' = t
          /\ last_milestone_active_consoles' = ConsolesOfMilestone
          /\ last_milestone_console' = selected_console
     ELSE UNCHANGED <<snapshots, milestoneVars>>
  /\ NextRound
  /\ UNCHANGED <<settingVars, steps, vmloaded, fatal_reason, results, vm,
                 backendVars, consoleVars>>

\* Mutant: only the last result counts.
Finish_bug ==
  /\ pc = "round"
  /\ t > LastModule
  /\ pc' = IF results[LastModule] = "fail" THEN "stopped" ELSE "completed"
  /\ UNCHANGED <<settingVars, roundVars, guestVars, backendVars, consoleVars,
                 milestoneVars>>

Finish ==
  /\ pc = "round"
  /\ t > LastModule
  /\ pc' = IF fatal_reason THEN "stopped" ELSE "completed"
  /\ UNCHANGED <<settingVars, roundVars, guestVars, backendVars, consoleVars,
                 milestoneVars>>
-----------------------------------------------------------------------------
Next ==
  \/ DieUnsupported \/ Skip \/ Start
  \/ \E c \in Consoles : SelectConsole(c)
  \/ Reboot
  \/ \E fatal_failure \in BOOLEAN : FailFatally(fatal_failure)
  \/ Fail
  \/ \E result \in {"ok", "ignored"} : Pass(result)
  \/ AlwaysRollback \/ RollbackDies \/ Milestone \/ Finish

Spec == Init /\ [][Next]_vars
-----------------------------------------------------------------------------
\* A step that loads 'lastgood': the running module is in vm.ran but not in the
\* snapshot.
RollsBack == pc \in {"running", "passed"} /\ testindex \in vm.ran \ vm'.ran

\* Once there is a milestone, a module finds no trace of an earlier module that
\* failed or is always rolled back, apart from what the milestone contains and
\* from modules that refuse the rollback (no_rollback).
NoLeftovers ==
  pc = "running" /\ last_milestone # NoModule /\ ~fatal_reason =>
    \A m \in vm.ran \ (snapshots[LastGood].ran \cup {testindex}) :
      results[m] = "fail" \/ test_flags[m].always_rollback
        => test_flags[m].no_rollback

\* After a fatal failure only modules with always_run start, the guest is not
\* rolled back, and 'lastgood' stays as it is.
AfterFatal ==
  fatal_reason =>
    /\ pc = "round" /\ pc' = "running" => test_flags[testindex].always_run
    /\ ~RollsBack
    /\ snapshots'[LastGood] = snapshots[LastGood]

FatalStops == [][AfterFatal]_vars

\* Only a run in which every module from the first one on was run, and none
\* failed in a way that is fatal, counts as completed.
CompletedRanAll ==
  pc = "completed" =>
    \A m \in Modules :
      /\ results[m] = "skip" <=> m < firsttest
      /\ results[m] = "fail" =>
           test_flags[m].fatal # "on" /\ ~settings.TESTDEBUG

\* 'we should not reset consoles which where already activated in the last
\* milestone': a rollback resets no console where the snapshot has a user logged
\* in, however many milestones, rollbacks and reboots there were. Otherwise the
\* next select_console logs in where somebody is logged in.
KeepsLogins ==
  RollsBack => snapshots[LastGood].logged_in \cap activated \subseteq activated'

LoginsAreKept == [][KeepsLogins]_vars

\* 'All consoles activated in the test run lose their state' but those: a console
\* that the backend still holds for activated after a rollback was so in the
\* snapshot, or a user is logged in there. Otherwise the next select_console omits
\* the login. The console that a rollback selects is left to the next property, so
\* that this one is about the consoles that are kept.
Live(c) == c \in snapshots[LastGood].believed \cup snapshots[LastGood].logged_in

KeptConsolesAreLive ==
  [][RollsBack => \A c \in activated' \ {last_milestone_console} : Live(c)]_vars

\* The same for the console that a rollback selects: select_console logs in 'if
\* this the first time, a test selects this console' (testapi.pm:1705).
SelectedConsoleIsLive ==
  [][RollsBack => \A c \in activated' \cap {last_milestone_console} : Live(c)]_vars

\* current_console: 'Return the currently selected console' (testapi.pm:1781).
CurrentConsoleIsSelected ==
  selected_console # None => selected_console = current_console
=============================================================================
