--------------------------- MODULE ScheduleProofs ---------------------------
(***************************************************************************)
(* Proofs about TestSchedule.                                               *)
(***************************************************************************)
EXTENDS TestSchedule, TLAPS

USE ModulesAssumption, FlagsAssumption, SettingsAssumption, ConsolesAssumption

(* Types                                                                     *)

LEMMA NamesDistinct ==
  /\ LastGood \in SnapshotNames /\ LastGood \notin Modules
  /\ Modules \subseteq SnapshotNames
  /\ NoModule \notin Modules
  /\ \A m \in Modules : m \in Nat /\ m # LastGood
BY DEF LastGood, SnapshotNames, Modules, NoModule

LEMMA SettingsTyped ==
  ASSUME TypeOK
  PROVE  /\ settings.SKIPTO \in {NoModule} \cup 1..(LastModule + 1)
         /\ firsttest \in 1..(LastModule + 1)
         /\ Loads /\ t <= LastModule => firsttest \in Modules
         /\ settings.snapshots \in BOOLEAN
BY DEF TypeOK, AllSettings, firsttest, Modules, Loads, t

LEMMA GuestTyped ==
  ASSUME NEW saved \in Saved
  PROVE  GuestOf(saved) \in Guests
BY DEF Saved, Guests, GuestOf

LEMMA GuestOfRoundTyped ==
  ASSUME TypeOK, t <= LastModule
  PROVE  GuestOfRound \in Guests
<1>1. snapshots[LastGood] \in Saved /\ (Loads => snapshots[firsttest] \in Saved)
  BY SettingsTyped, NamesDistinct DEF TypeOK
<1> QED
  BY <1>1, GuestTyped DEF GuestOfRound, TypeOK

LEMMA SnapshotTyped ==
  ASSUME TypeOK, NEW name \in SnapshotNames, NEW guest \in Guests,
         MakeSnapshot(name, guest)
  PROVE  snapshots' \in [SnapshotNames -> Saved]
BY DEF MakeSnapshot, TypeOK, Guests, Saved

LEMMA RollbackTyped ==
  ASSUME TypeOK, Rollback
  PROVE  /\ vm' \in Guests
         /\ snapshots' = snapshots
         /\ activated' \in SUBSET Consoles
         /\ current_console' \in Consoles \cup {None}
         /\ activated_consoles' \in SUBSET Consoles
         /\ selected_console' \in Consoles \cup {None}
         /\ UNCHANGED milestoneVars
<1>1. snapshots[LastGood] \in Saved
  BY NamesDistinct DEF TypeOK
<1>2. vm' \in Guests
  BY <1>1, GuestTyped DEF Rollback
<1> QED
  BY <1>2 DEF Rollback, RollbackActivatedConsoles, TypeOK, milestoneVars

LEMMA TypeInit == Init => TypeOK
<1> SUFFICES ASSUME Init PROVE TypeOK
  OBVIOUS
<1>1. settings.SKIPTO \in {NoModule} \cup 1..(LastModule + 1)
  BY DEF Init, AllSettings
<1>2. OldSnapshots(settings.SKIPTO) \in [SnapshotNames -> Saved]
  BY <1>1 DEF OldSnapshots, Saved, NoVM, Modules, NoModule
<1>3. vm \in Guests
  BY DEF Init, Guests
<1>4. testindex \in 1..(LastModule + 1) /\ steps \in Nat
  BY DEF Init
<1> QED
  BY <1>2, <1>3, <1>4 DEF Init, TypeOK, InModule

LEMMA TypeNext == TypeOK /\ [Next]_vars => TypeOK'
<1> SUFFICES ASSUME TypeOK, [Next]_vars PROVE TypeOK'
  OBVIOUS
<1> USE DEF settingVars, roundVars, guestVars, backendVars, consoleVars,
            milestoneVars, t, InModule
<1>r. ASSUME testindex <= LastModule
      PROVE  testindex \in Modules
  BY <1>r DEF TypeOK, Modules
<1>n. ASSUME testindex \in Modules, NextRound
      PROVE  /\ testindex' \in 1..(LastModule + 1)
             /\ pc' = "round"
  BY <1>n DEF NextRound, Modules
<1>1. CASE DieUnsupported
  BY <1>1 DEF DieUnsupported, TypeOK
<1>2. CASE Skip
  <2>1. testindex' \in 1..(LastModule + 1) /\ pc' = "round"
    BY <1>2, <1>r, <1>n DEF Skip
  <2> QED
    BY <1>2, <2>1 DEF Skip, TypeOK
<1>3. CASE Start
  <2>1. GuestOfRound \in Guests /\ testindex \in Modules
    BY <1>3, <1>r, GuestOfRoundTyped DEF Start
  <2>2. vm' \in Guests
    BY <1>3, <2>1 DEF Start, Guests
  <2>3. snapshots' \in [SnapshotNames -> Saved]
    BY <1>3, <2>1, SnapshotTyped, NamesDistinct DEF Start, TypeOK
  <2> QED
    BY <1>3, <2>1, <2>2, <2>3 DEF Start, TypeOK
<1>4. ASSUME NEW c \in Consoles, SelectConsole(c) PROVE TypeOK'
  <2>1. vm' \in Guests
    BY <1>4 DEF SelectConsole, TypeOK, Guests
  <2>2. steps' \in Nat
    BY <1>4 DEF SelectConsole, TypeOK
  <2> QED
    BY <1>4, <2>1, <2>2 DEF SelectConsole, Running, TypeOK
<1>5. CASE Reboot
  <2>1. vm' \in Guests
    BY <1>5 DEF Reboot, TypeOK, Guests
  <2>2. steps' \in Nat
    BY <1>5 DEF Reboot, TypeOK
  <2> QED
    BY <1>5, <2>1, <2>2 DEF Reboot, Running, TypeOK
<1>6. ASSUME NEW fatal_failure \in BOOLEAN, FailFatally(fatal_failure)
      PROVE  TypeOK'
  <2>1. testindex' \in 1..(LastModule + 1) /\ pc' = "round"
    BY <1>6, <1>n DEF FailFatally, TypeOK
  <2> QED
    BY <1>6, <2>1 DEF FailFatally, TypeOK
<1>7. CASE Fail
  <2>1. testindex' \in 1..(LastModule + 1) /\ pc' = "round"
    BY <1>7, <1>n DEF Fail, TypeOK
  <2>2. CASE RollsBackFailure
    BY <1>7, <2>1, <2>2, RollbackTyped DEF Fail, TypeOK
  <2>3. CASE ~RollsBackFailure
    BY <1>7, <2>1, <2>3 DEF Fail, TypeOK
  <2> QED
    BY <2>2, <2>3
<1>8. ASSUME NEW result \in {"ok", "ignored"}, Pass(result) PROVE TypeOK'
  <2>1. fatal_reason => testindex' \in 1..(LastModule + 1) /\ pc' = "round"
    BY <1>8, <1>n DEF Pass, TypeOK
  <2> QED
    BY <1>8, <2>1 DEF Pass, TypeOK
<1>9. CASE AlwaysRollback
  <2>1. CASE RollsBackSuccess
    BY <1>9, <2>1, RollbackTyped DEF AlwaysRollback, TypeOK
  <2>2. CASE ~RollsBackSuccess
    BY <1>9, <2>2 DEF AlwaysRollback, TypeOK
  <2> QED
    BY <2>1, <2>2
<1>10. CASE RollbackDies
  <2>1. vm' \in Guests
    BY <1>10, NamesDistinct, GuestTyped DEF RollbackDies, TypeOK
  <2> QED
    BY <1>10, <2>1 DEF RollbackDies, ConsolesToReset, TypeOK
<1>11. CASE Milestone
  <2>1. testindex' \in 1..(LastModule + 1) /\ pc' = "round"
    BY <1>11, <1>n DEF Milestone, TypeOK
  <2>2. snapshots' \in [SnapshotNames -> Saved]
    BY <1>11, SnapshotTyped, NamesDistinct DEF Milestone, TypeOK
  <2> QED
    BY <1>11, <2>1, <2>2 DEF Milestone, ConsolesOfMilestone, TypeOK
<1>12. CASE Finish
  BY <1>12 DEF Finish, TypeOK
<1>13. CASE UNCHANGED vars
  BY <1>13 DEF vars, TypeOK
<1> QED
  BY <1>1, <1>2, <1>3, <1>4, <1>5, <1>6, <1>7, <1>8, <1>9, <1>10, <1>11,
     <1>12, <1>13 DEF Next

\* Every variable of the test schedule keeps its type, whatever the modules,
\* their flags, the consoles and the settings of the job are.
THEOREM TypeCorrect == Spec => []TypeOK
BY TypeInit, TypeNext, PTL DEF Spec
-----------------------------------------------------------------------------
(* Fatal failures                                                            *)

\* After a fatal failure a module never gets to its milestone.
FatalInv == fatal_reason => pc \notin {"passed", "rolled_back"}

LEMMA FatalInit == Init => FatalInv
BY DEF Init, FatalInv

LEMMA FatalNext == TypeOK /\ FatalInv /\ [Next]_vars => FatalInv'
<1> SUFFICES ASSUME TypeOK, FatalInv, [Next]_vars PROVE FatalInv'
  OBVIOUS
<1> USE DEF FatalInv, NextRound, roundVars
<1>1. CASE DieUnsupported \/ Skip \/ Start \/ Reboot
  BY <1>1 DEF DieUnsupported, Skip, Start, Reboot, Running
<1>2. ASSUME NEW c \in Consoles, SelectConsole(c) PROVE FatalInv'
  BY <1>2 DEF SelectConsole, Running
<1>3. ASSUME NEW fatal_failure \in BOOLEAN, FailFatally(fatal_failure)
      PROVE  FatalInv'
  BY <1>3 DEF FailFatally
<1>4. ASSUME NEW result \in {"ok", "ignored"}, Pass(result) PROVE FatalInv'
  BY <1>4 DEF Pass
<1>5. CASE Fail \/ AlwaysRollback \/ RollbackDies \/ Milestone \/ Finish
  BY <1>5 DEF Fail, AlwaysRollback, RollbackDies, Milestone, Finish
<1>6. CASE UNCHANGED vars
  BY <1>6 DEF vars
<1> QED
  BY <1>1, <1>2, <1>3, <1>4, <1>5, <1>6 DEF Next

\* The steps that load 'lastgood': no other step takes the running module out of
\* what the guest has seen.
LEMMA OnlyRollbacks ==
  ASSUME TypeOK, [Next]_vars, RollsBack
  PROVE  /\ RollsBackFailure \/ RollsBackSuccess
         /\ pc = "running" => RollsBackFailure
         /\ vm' = GuestOf(snapshots[LastGood])
         /\ snapshots' = snapshots
         /\ \/ Rollback
            \/ RollbackDies
<1> USE DEF RollsBack, guestVars
<1>1. CASE DieUnsupported \/ Skip \/ Start \/ Milestone \/ Finish
  BY <1>1 DEF DieUnsupported, Skip, Start, Milestone, Finish
<1>2. CASE Reboot
  BY <1>2 DEF Reboot, TypeOK, Guests
<1>3. ASSUME NEW c \in Consoles, SelectConsole(c) PROVE FALSE
  BY <1>3 DEF SelectConsole, TypeOK, Guests
<1>4. ASSUME NEW fatal_failure \in BOOLEAN, FailFatally(fatal_failure)
      PROVE  FALSE
  BY <1>4 DEF FailFatally
<1>5. ASSUME NEW result \in {"ok", "ignored"}, Pass(result) PROVE FALSE
  BY <1>5 DEF Pass
<1>6. CASE Fail \/ AlwaysRollback
  BY <1>6 DEF Fail, AlwaysRollback, Rollback
<1>7. CASE RollbackDies
  BY <1>7 DEF RollbackDies
<1>8. CASE UNCHANGED vars
  BY <1>8 DEF vars
<1> QED
  BY <1>1, <1>2, <1>3, <1>4, <1>5, <1>6, <1>7, <1>8 DEF Next

\* 'lastgood' is only written by a milestone.
LEMMA OnlyMilestones ==
  ASSUME TypeOK, [Next]_vars, snapshots'[LastGood] # snapshots[LastGood]
  PROVE  Milestone
<1> USE DEF guestVars
<1>1. CASE Start
  BY <1>1, NamesDistinct DEF Start, MakeSnapshot, TypeOK, t, Modules
<1>2. CASE DieUnsupported \/ Skip \/ Reboot \/ RollbackDies \/ Finish
  BY <1>2 DEF DieUnsupported, Skip, Reboot, RollbackDies, Finish
<1>3. ASSUME NEW c \in Consoles, SelectConsole(c) PROVE FALSE
  BY <1>3 DEF SelectConsole
<1>4. ASSUME NEW fatal_failure \in BOOLEAN, FailFatally(fatal_failure)
      PROVE  FALSE
  BY <1>4 DEF FailFatally
<1>5. ASSUME NEW result \in {"ok", "ignored"}, Pass(result) PROVE FALSE
  BY <1>5 DEF Pass
<1>6. CASE Fail \/ AlwaysRollback
  BY <1>6 DEF Fail, AlwaysRollback, Rollback
<1>7. CASE UNCHANGED vars
  BY <1>7 DEF vars
<1> QED
  BY <1>1, <1>2, <1>3, <1>4, <1>5, <1>6, <1>7 DEF Next

LEMMA FatalStep == TypeOK /\ FatalInv /\ [Next]_vars => [AfterFatal]_vars
<1> SUFFICES ASSUME TypeOK, FatalInv, [Next]_vars, fatal_reason
             PROVE  /\ pc = "round" /\ pc' = "running"
                         => test_flags[testindex].always_run
                    /\ ~RollsBack
                    /\ snapshots'[LastGood] = snapshots[LastGood]
  BY DEF AfterFatal
<1>1. ASSUME pc = "round", pc' = "running"
      PROVE  test_flags[testindex].always_run
  <2>1. Start
    <3>1. CASE DieUnsupported \/ Skip \/ Reboot \/ Fail \/ AlwaysRollback
                 \/ RollbackDies \/ Milestone \/ Finish
      BY <1>1, <3>1 DEF DieUnsupported, Skip, NextRound, Reboot, Running, Fail,
           AlwaysRollback, RollbackDies, Milestone, Finish
    <3>2. ASSUME NEW c \in Consoles, SelectConsole(c) PROVE FALSE
      BY <1>1, <3>2 DEF SelectConsole, Running
    <3>3. ASSUME NEW fatal_failure \in BOOLEAN, FailFatally(fatal_failure)
          PROVE  FALSE
      BY <1>1, <3>3 DEF FailFatally
    <3>4. ASSUME NEW result \in {"ok", "ignored"}, Pass(result) PROVE FALSE
      BY <1>1, <3>4 DEF Pass
    <3>5. CASE UNCHANGED vars
      BY <1>1, <3>5 DEF vars
    <3> QED
      BY <3>1, <3>2, <3>3, <3>4, <3>5 DEF Next
  <2> QED
    BY <2>1 DEF Start, Skipped, flags, t
<1>2. ~RollsBack
  <2>1. ASSUME RollsBack PROVE FALSE
    <3>1. pc = "running" /\ RollsBackFailure
      BY <2>1, OnlyRollbacks DEF RollsBack, FatalInv
    <3> QED
      BY <3>1 DEF RollsBackFailure
  <2> QED
    BY <2>1
<1>3. snapshots'[LastGood] = snapshots[LastGood]
  BY OnlyMilestones DEF Milestone, FatalInv
<1> QED
  BY <1>1, <1>2, <1>3

\* After a fatal failure only modules with always_run start, nothing is rolled
\* back and 'lastgood' is not written again.
THEOREM FatalIsFinal == Spec => FatalStops
<1>1. Spec => [](TypeOK /\ FatalInv)
  BY TypeInit, TypeNext, FatalInit, FatalNext, PTL DEF Spec
<1> QED
  BY <1>1, FatalStep, PTL DEF Spec, FatalStops
-----------------------------------------------------------------------------
(* Consoles                                                                  *)

\* Where a user is logged in, autotest counts the console among those it has
\* activated since the last rollback or among those of a milestone. The second
\* conjunct speaks of a job with SKIPTO before its first module.
LoginInv ==
  /\ ~vmloaded => ~InModule /\ last_milestone = NoModule
  /\ ~vmloaded => \A name \in SnapshotNames : snapshots[name].logged_in = {}
  /\ vm.logged_in \subseteq activated_consoles \cup last_milestone_active_consoles
  /\ last_milestone # NoModule =>
       snapshots[LastGood].logged_in \subseteq last_milestone_active_consoles

LEMMA LoginInit == Init => LoginInv
<1> SUFFICES ASSUME Init PROVE LoginInv
  OBVIOUS
<1>1. \A name \in SnapshotNames : snapshots[name].logged_in = {}
  BY DEF Init, OldSnapshots, NoVM
<1> QED
  BY <1>1 DEF Init, LoginInv, InModule

\* The guest and the consoles after a rollback to the last milestone
LEMMA LoginRollback ==
  ASSUME LoginInv, last_milestone # NoModule, vmloaded,
         vm' = GuestOf(snapshots[LastGood]), UNCHANGED <<snapshots, vmloaded, milestoneVars>>
  PROVE  LoginInv'
<1>1. vm'.logged_in = snapshots[LastGood].logged_in
  BY DEF GuestOf
<1> QED
  BY <1>1 DEF LoginInv, milestoneVars

LEMMA LoginNext ==
  ASSUME TypeOK, LoginInv, [Next]_vars
  PROVE  LoginInv'
<1> USE DEF settingVars, roundVars, guestVars, backendVars, consoleVars,
            milestoneVars, InModule, NextRound
<1>1. CASE DieUnsupported \/ Skip \/ Finish
  BY <1>1 DEF DieUnsupported, Skip, Finish, LoginInv
<1>2. CASE Start
  <2>1. testindex \in Modules /\ t <= LastModule
    BY <1>2 DEF Start, TypeOK, Modules, t
  <2>2. snapshots'[LastGood] = snapshots[LastGood]
    BY <1>2, <2>1, NamesDistinct DEF Start, MakeSnapshot, TypeOK, t
  <2>3. vm'.logged_in = GuestOfRound.logged_in
    BY <1>2, <2>1, GuestOfRoundTyped DEF Start, Guests
  <2>4. GuestOfRound.logged_in = vm.logged_in \/ GuestOfRound.logged_in = {}
    BY <2>1, SettingsTyped, NamesDistinct DEF GuestOfRound, GuestOf, Loads, LoginInv
  <2> QED
    BY <1>2, <2>2, <2>3, <2>4 DEF Start, LoginInv
<1>3. ASSUME NEW c \in Consoles, SelectConsole(c) PROVE LoginInv'
  <2>1. CASE c \in activated
    BY <1>3, <2>1 DEF SelectConsole, Running, LoginInv
  <2>2. CASE c \notin activated
    <3>1. vm'.logged_in = vm.logged_in \cup {c}
      BY <1>3, <2>2 DEF SelectConsole, TypeOK, Guests
    <3> QED
      BY <1>3, <2>2, <3>1 DEF SelectConsole, Running, LoginInv
  <2> QED
    BY <2>1, <2>2
<1>4. ASSUME NEW fatal_failure \in BOOLEAN, FailFatally(fatal_failure)
      PROVE  LoginInv'
  BY <1>4 DEF FailFatally, LoginInv
<1>5. CASE Fail
  <2>1. CASE RollsBackFailure
    BY <1>5, <2>1, LoginRollback DEF Fail, Rollback, RollsBackFailure, LoginInv
  <2>2. CASE ~RollsBackFailure
    BY <1>5, <2>2 DEF Fail, LoginInv
  <2> QED
    BY <2>1, <2>2
<1>6. ASSUME NEW result \in {"ok", "ignored"}, Pass(result) PROVE LoginInv'
  BY <1>6 DEF Pass, LoginInv
<1>7. CASE AlwaysRollback
  <2>1. CASE RollsBackSuccess
    BY <1>7, <2>1, LoginRollback DEF AlwaysRollback, Rollback, RollsBackSuccess, LoginInv
  <2>2. CASE ~RollsBackSuccess
    BY <1>7, <2>2 DEF AlwaysRollback, LoginInv
  <2> QED
    BY <2>1, <2>2
<1>8. CASE RollbackDies
  BY <1>8, LoginRollback DEF RollbackDies, RollsBackFailure, RollsBackSuccess, LoginInv
<1>9. CASE Milestone
  <2>1. CASE IsMilestone
    <3>1. snapshots'[LastGood].logged_in = vm.logged_in
      BY <1>9, <2>1, NamesDistinct DEF Milestone, MakeSnapshot, TypeOK
    <3>2. /\ last_milestone_active_consoles'
               = last_milestone_active_consoles \cup activated_consoles
          /\ vmloaded' /\ vm' = vm /\ activated_consoles' = activated_consoles
      BY <1>9, <2>1 DEF Milestone, ConsolesOfMilestone, LoginInv
    <3> QED
      BY <3>1, <3>2 DEF LoginInv
  <2>2. CASE ~IsMilestone
    BY <1>9, <2>2 DEF Milestone, LoginInv
  <2> QED
    BY <2>1, <2>2
<1>10. CASE Reboot
  <2>1. vm'.logged_in = {}
    BY <1>10 DEF Reboot, TypeOK, Guests
  <2> QED
    BY <1>10, <2>1 DEF Reboot, Running, LoginInv
<1>11. CASE UNCHANGED vars
  BY <1>11 DEF vars, LoginInv
<1> QED
  BY <1>1, <1>2, <1>3, <1>4, <1>5, <1>6, <1>7, <1>8, <1>9, <1>10, <1>11
  DEF Next

LEMMA LoginStep == TypeOK /\ LoginInv /\ [Next]_vars => [KeepsLogins]_vars
<1> SUFFICES ASSUME TypeOK, LoginInv, [Next]_vars, RollsBack
             PROVE  snapshots[LastGood].logged_in \cap activated \subseteq activated'
  BY DEF KeepsLogins
<1>1. last_milestone # NoModule /\ (Rollback \/ RollbackDies)
  BY OnlyRollbacks DEF RollsBackFailure, RollsBackSuccess
<1>2. activated \ ConsolesToReset \subseteq activated'
  BY <1>1 DEF Rollback, RollbackActivatedConsoles, RollbackDies
<1>3. snapshots[LastGood].logged_in \subseteq last_milestone_active_consoles
  BY <1>1 DEF LoginInv
<1> QED
  BY <1>2, <1>3 DEF ConsolesToReset

\* A rollback resets no console where the snapshot has a user logged in, whatever
\* the modules do: select consoles, reboot the guest, fail.
THEOREM LoginsKept == Spec => LoginsAreKept
<1>1. Spec => [](TypeOK /\ LoginInv)
  BY TypeInit, TypeNext, LoginInit, LoginNext, PTL DEF Spec
<1> QED
  BY <1>1, LoginStep, PTL DEF Spec, LoginsAreKept
-----------------------------------------------------------------------------
(* Leftovers                                                                 *)

Justified(m) ==
  results[m] = "fail" \/ test_flags[m].always_rollback
    => test_flags[m].no_rollback

\* What the guest has seen since the milestone. A module that has just finished
\* is only accounted for if another one follows.
LeftoverInv ==
  /\ ~vmloaded => ~InModule /\ last_milestone = NoModule
  /\ pc \in {"passed", "rolled_back"} => results[testindex] # "fail"
  /\ last_milestone # NoModule /\ ~fatal_reason =>
       LET Since == vm.ran \ snapshots[LastGood].ran
       IN  /\ pc = "round" /\ testindex <= LastModule
                => \A m \in Since : Justified(m)
           /\ pc \in {"running", "passed"}
                => \A m \in Since \ {testindex} : Justified(m)
           /\ pc = "rolled_back" /\ testindex < LastModule
                => \A m \in Since : Justified(m)

LEMMA LeftoverInit == Init => LeftoverInv
BY DEF Init, LeftoverInv, InModule

LEMMA LeftoverNext == TypeOK /\ LeftoverInv /\ [Next]_vars => LeftoverInv'
<1> SUFFICES ASSUME TypeOK, LeftoverInv, [Next]_vars PROVE LeftoverInv'
  OBVIOUS
<1> USE DEF settingVars, roundVars, guestVars, backendVars, consoleVars,
            milestoneVars, NextRound, InModule, t, flags, HasNext
<1>r. vm.ran \subseteq Modules /\ testindex \in Nat
  BY DEF TypeOK, Guests
<1>1. CASE DieUnsupported \/ Finish
  BY <1>1 DEF DieUnsupported, Finish, LeftoverInv
<1>2. CASE Skip
  BY <1>2 DEF Skip, Skipped, LeftoverInv
<1>3. CASE Start
  <2>1. testindex \in Modules
    BY <1>3 DEF Start, TypeOK, Modules
  <2>2. snapshots'[LastGood] = snapshots[LastGood]
    BY <1>3, <2>1, NamesDistinct DEF Start, MakeSnapshot, TypeOK
  <2>3. vmloaded => vm'.ran = vm.ran \cup {testindex}
    BY <1>3 DEF Start, GuestOfRound, Loads, TypeOK, Guests
  <2> QED
    BY <1>3, <2>2, <2>3 DEF Start, LeftoverInv, Justified
<1>4. ASSUME NEW c \in Consoles, SelectConsole(c) PROVE LeftoverInv'
  <2>1. vm'.ran = vm.ran
    BY <1>4 DEF SelectConsole, TypeOK, Guests
  <2> QED
    BY <1>4, <2>1 DEF SelectConsole, Running, LeftoverInv, Justified
<1>5. CASE Reboot
  <2>1. vm'.ran = vm.ran
    BY <1>5 DEF Reboot, TypeOK, Guests
  <2> QED
    BY <1>5, <2>1 DEF Reboot, Running, LeftoverInv, Justified
<1>6. ASSUME NEW fatal_failure \in BOOLEAN, FailFatally(fatal_failure)
      PROVE  LeftoverInv'
  BY <1>6 DEF FailFatally, LeftoverInv
<1>7. CASE Fail
  <2>1. CASE RollsBackFailure
    <3>1. vm'.ran = snapshots'[LastGood].ran
      BY <1>7, <2>1 DEF Fail, Rollback, GuestOf
    <3> QED
      BY <1>7, <2>1, <3>1 DEF Fail, LeftoverInv, RollsBackFailure, Rollback
  <2>2. CASE ~RollsBackFailure
    <3>1. UNCHANGED <<vm, snapshots, last_milestone, fatal_reason, vmloaded>>
          /\ pc' = "round" /\ testindex' = testindex + 1 /\ pc = "running"
          /\ UNCHANGED test_flags
      BY <1>7, <2>2 DEF Fail
    <3>2. \A m \in Modules \ {testindex} : results'[m] = results[m]
      BY <1>7 DEF Fail, TypeOK
    <3>3. last_milestone # NoModule /\ ~fatal_reason /\ testindex' <= LastModule
            => test_flags[testindex].no_rollback
      BY <2>2, <3>1, <1>r DEF RollsBackFailure, TypeOK
    <3> QED
      BY <3>1, <3>2, <3>3, <1>r DEF LeftoverInv, Justified
  <2> QED
    BY <2>1, <2>2
<1>8. ASSUME NEW result \in {"ok", "ignored"}, Pass(result) PROVE LeftoverInv'
  <2>1. CASE fatal_reason
    BY <1>8, <2>1 DEF Pass, LeftoverInv
  <2>2. CASE ~fatal_reason
    <3>1. \A m \in Modules \ {testindex} : results'[m] = results[m]
      BY <1>8 DEF Pass, TypeOK
    <3>2. testindex \in Modules /\ results'[testindex] = result
      BY <1>8 DEF Pass, TypeOK, InModule
    <3> QED
      BY <1>8, <2>2, <3>1, <3>2, <1>r DEF Pass, LeftoverInv, Justified
  <2> QED
    BY <2>1, <2>2
<1>9. CASE AlwaysRollback
  <2>1. CASE RollsBackSuccess
    <3>1. vm'.ran = snapshots'[LastGood].ran
      BY <1>9, <2>1 DEF AlwaysRollback, Rollback, GuestOf
    <3> QED
      BY <1>9, <2>1, <3>1
      DEF AlwaysRollback, LeftoverInv, RollsBackSuccess, Rollback
  <2>2. CASE ~RollsBackSuccess
    <3>1. /\ UNCHANGED <<vm, snapshots, last_milestone>> /\ UNCHANGED roundVars
          /\ UNCHANGED test_flags /\ pc = "passed" /\ pc' = "rolled_back"
      BY <1>9, <2>2 DEF AlwaysRollback
    <3>2. last_milestone # NoModule /\ testindex < LastModule
            => Justified(testindex)
      BY <2>2, <3>1 DEF RollsBackSuccess, Justified, LeftoverInv
    <3> QED
      BY <3>1, <3>2 DEF LeftoverInv, Justified
  <2> QED
    BY <2>1, <2>2
<1>10. CASE RollbackDies
  BY <1>10 DEF RollbackDies, LeftoverInv, RollsBackFailure, RollsBackSuccess
<1>11. CASE Milestone
  <2>1. CASE IsMilestone
    <3>1. snapshots'[LastGood].ran = vm'.ran
      BY <1>11, <2>1, NamesDistinct DEF Milestone, MakeSnapshot, TypeOK
    <3> QED
      BY <1>11, <2>1, <3>1 DEF Milestone, LeftoverInv
  <2>2. CASE ~IsMilestone
    BY <1>11, <2>2, <1>r DEF Milestone, LeftoverInv, Justified, TypeOK
  <2> QED
    BY <2>1, <2>2
<1>12. CASE UNCHANGED vars
  BY <1>12 DEF vars, LeftoverInv, Justified
<1> QED
  BY <1>1, <1>2, <1>3, <1>4, <1>5, <1>6, <1>7, <1>8, <1>9, <1>10, <1>11, <1>12
  DEF Next

\* Once there is a milestone, a module finds no trace of an earlier module that
\* failed or is always rolled back, apart from what the milestone contains and
\* from modules that refuse the rollback.
THEOREM NothingIsLeftOver == Spec => []NoLeftovers
<1>1. LeftoverInv => NoLeftovers
  BY DEF LeftoverInv, NoLeftovers, Justified
<1> QED
  BY <1>1, TypeInit, TypeNext, LeftoverInit, LeftoverNext, PTL DEF Spec
-----------------------------------------------------------------------------
(* Completion                                                                *)

Done(m) == m < testindex \/ (m = testindex /\ pc \in {"passed", "rolled_back"})

AcceptedResult(m) ==
  /\ results[m] = "skip" <=> m < firsttest
  /\ results[m] = "fail" => test_flags[m].fatal # "on" /\ ~settings.TESTDEBUG

CompletionInv ==
  pc # "died" =>
    /\ vmloaded <=> testindex > firsttest \/ InModule
    /\ InModule => testindex >= firsttest
    /\ fatal_reason => vmloaded
    /\ pc \in {"completed", "stopped"} => testindex > LastModule
    /\ pc = "completed" => ~fatal_reason
    /\ \A m \in Modules : results[m] = "none" <=> ~Done(m)
    /\ ~fatal_reason => \A m \in Modules : Done(m) => AcceptedResult(m)

LEMMA CompletionInit == Init => CompletionInv
<1> SUFFICES ASSUME Init PROVE CompletionInv
  OBVIOUS
<1>1. firsttest \in Nat /\ firsttest >= 1
  BY DEF Init, firsttest, AllSettings, Modules, NoModule
<1> QED
  BY <1>1 DEF Init, CompletionInv, InModule, Done, Modules

LEMMA FirsttestConstant ==
  ASSUME [Next]_vars
  PROVE  UNCHANGED <<test_flags, settings>> /\ firsttest' = firsttest
<1> USE DEF settingVars
<1>1. UNCHANGED <<test_flags, settings>>
  BY DEF Next, DieUnsupported, Skip, Start, SelectConsole, Reboot, FailFatally,
     Fail, Pass, AlwaysRollback, RollbackDies, Milestone, Finish, vars
<1> QED
  BY <1>1 DEF firsttest

\* A step that ends the round of a module with a result keeps the invariant.
LEMMA RoundEnds ==
  ASSUME TypeOK, CompletionInv, [Next]_vars, NextRound, vmloaded', testindex \in Modules,
         pc \in {"round", "running", "passed", "rolled_back"},
         firsttest <= testindex,
         NEW result \in {"ok", "fail", "ignored"},
         results' = [results EXCEPT ![testindex] = result],
         fatal_reason => fatal_reason',
         ~fatal_reason' /\ result = "fail"
           => test_flags[testindex].fatal # "on" /\ ~settings.TESTDEBUG
  PROVE  CompletionInv'
<1>1. UNCHANGED <<test_flags, settings>> /\ firsttest' = firsttest
      /\ firsttest \in Nat /\ testindex \in Nat
  BY FirsttestConstant, SettingsTyped DEF Modules
<1>2. testindex' = testindex + 1 /\ pc' = "round"
  BY DEF NextRound, t
<1>3. \A m \in Modules : results'[m] = IF m = testindex THEN result ELSE results[m]
  BY DEF TypeOK
<1>4. \A m \in Modules : Done(m)' <=> Done(m) \/ m = testindex
  BY <1>1, <1>2 DEF Done, Modules
<1>5. \A m \in Modules : results'[m] = "none" <=> ~Done(m)'
  BY <1>3, <1>4 DEF CompletionInv
<1>6. ASSUME ~fatal_reason', NEW m \in Modules, Done(m)'
      PROVE  AcceptedResult(m)'
  <2>1. CASE m = testindex
    BY <1>1, <1>3, <1>6, <2>1 DEF AcceptedResult, Modules
  <2>2. CASE m # testindex
    BY <1>1, <1>3, <1>4, <1>6, <2>2 DEF AcceptedResult, CompletionInv
  <2> QED
    BY <2>1, <2>2
<1> QED
  BY <1>1, <1>2, <1>5, <1>6 DEF CompletionInv, InModule

\* So does a step in the middle of a module.
LEMMA RoundGoesOn ==
  ASSUME TypeOK, CompletionInv, [Next]_vars, InModule, InModule',
         UNCHANGED <<testindex, vmloaded, fatal_reason, results>>,
         pc \in {"passed", "rolled_back"} <=> pc' \in {"passed", "rolled_back"}
  PROVE  CompletionInv'
<1>1. \A m \in Modules : Done(m)' <=> Done(m)
  BY DEF Done
<1>2. \A m \in Modules : AcceptedResult(m)' <=> AcceptedResult(m)
  BY FirsttestConstant DEF AcceptedResult
<1> QED
  BY <1>1, <1>2, FirsttestConstant DEF CompletionInv, InModule

LEMMA CompletionNext == TypeOK /\ CompletionInv /\ [Next]_vars => CompletionInv'
<1> SUFFICES ASSUME TypeOK, CompletionInv, [Next]_vars PROVE CompletionInv'
  OBVIOUS
<1> USE DEF roundVars, t
<1>f. /\ UNCHANGED <<test_flags, settings>> /\ firsttest' = firsttest
      /\ firsttest \in Nat /\ testindex \in Nat
  BY FirsttestConstant, SettingsTyped DEF TypeOK, Modules
<1>i. InModule => testindex \in Modules /\ (pc # "died" => vmloaded /\ firsttest <= testindex)
  BY <1>f DEF TypeOK, CompletionInv
<1>1. CASE DieUnsupported \/ RollbackDies
  BY <1>1 DEF DieUnsupported, RollbackDies, CompletionInv
<1>2. CASE Skip
  <2>1. testindex \in Modules
    BY <1>2 DEF Skip, TypeOK, Modules
  <2>2. testindex' = testindex + 1 /\ pc = "round" /\ pc' = "round"
        /\ vmloaded' = vmloaded /\ fatal_reason' = fatal_reason
    BY <1>2 DEF Skip, NextRound
  <2>3. results[testindex] = "none"
    BY <2>1, <2>2, <1>f DEF CompletionInv, Done
  <2>4. \A m \in Modules :
          results'[m] = IF m = testindex THEN "skip" ELSE results[m]
    BY <1>2, <2>3 DEF Skip, TypeOK
  <2>5. \A m \in Modules : Done(m)' <=> Done(m) \/ m = testindex
    BY <2>2, <1>f DEF Done, Modules
  <2>6. ~fatal_reason => ~vmloaded /\ testindex < firsttest
    BY <1>2, <2>2, <1>f DEF Skip, Skipped, CompletionInv
  <2>7. vmloaded' <=> testindex' > firsttest
    <3>1. CASE ~vmloaded
      BY <1>2, <2>2, <3>1, <1>f DEF Skip, Skipped, CompletionInv, InModule
    <3>2. CASE vmloaded
      BY <2>2, <3>2, <1>f DEF CompletionInv, InModule
    <3> QED
      BY <3>1, <3>2
  <2>8. ASSUME ~fatal_reason, NEW m \in Modules, Done(m)'
        PROVE  AcceptedResult(m)'
    BY <1>f, <2>1, <2>2, <2>4, <2>5, <2>6, <2>8 DEF AcceptedResult, CompletionInv
  <2>9. \A m \in Modules : results'[m] = "none" <=> ~Done(m)'
    BY <2>2, <2>4, <2>5 DEF CompletionInv
  <2> QED
    BY <1>f, <2>2, <2>7, <2>8, <2>9 DEF CompletionInv, InModule
<1>3. CASE Start
  <2>1. /\ pc = "round" /\ pc' = "running" /\ vmloaded'
        /\ UNCHANGED <<testindex, fatal_reason, results>>
    BY <1>3 DEF Start
  <2>2. testindex >= firsttest
    BY <1>3, <1>f DEF Start, Skipped, CompletionInv, InModule
  <2>3. \A m \in Modules : /\ Done(m)' <=> Done(m)
                           /\ AcceptedResult(m)' <=> AcceptedResult(m)
    BY <2>1, <1>f DEF Done, AcceptedResult
  <2> QED
    BY <2>1, <2>2, <2>3, <1>f DEF CompletionInv, InModule
<1>4. ASSUME NEW c \in Consoles, SelectConsole(c) PROVE CompletionInv'
  BY <1>4, RoundGoesOn DEF SelectConsole, Running, InModule
<1>5. CASE Reboot
  BY <1>5, RoundGoesOn DEF Reboot, Running, InModule
<1>6. ASSUME NEW fatal_failure \in BOOLEAN, FailFatally(fatal_failure)
      PROVE  CompletionInv'
  BY <1>6, <1>i, RoundEnds DEF FailFatally, InModule
<1>7. CASE Fail
  <2>1. ~fatal_reason => /\ test_flags[testindex].fatal # "on"
                         /\ ~settings.TESTDEBUG
    BY <1>7 DEF Fail, FatalError, flags
  <2> QED
    BY <1>7, <1>i, <2>1, RoundEnds DEF Fail, InModule
<1>8. ASSUME NEW result \in {"ok", "ignored"}, Pass(result)
      PROVE  CompletionInv'
  <2>1. CASE fatal_reason
    BY <1>8, <2>1, <1>i, RoundEnds DEF Pass, InModule
  <2>2. CASE ~fatal_reason
    <3>1. /\ pc = "running" /\ pc' = "passed"
          /\ UNCHANGED <<testindex, vmloaded, fatal_reason>>
      BY <1>8, <2>2 DEF Pass
    <3>2. \A m \in Modules :
            results'[m] = IF m = testindex THEN result ELSE results[m]
      BY <1>8 DEF Pass, TypeOK
    <3>3. \A m \in Modules : Done(m)' <=> Done(m) \/ m = testindex
      BY <3>1 DEF Done
    <3>4. ASSUME NEW m \in Modules, Done(m)'
          PROVE  AcceptedResult(m)'
      <4>1. CASE m = testindex
        BY <1>f, <1>i, <3>1, <3>2, <4>1 DEF AcceptedResult, InModule, Modules
      <4>2. CASE m # testindex
        BY <1>f, <2>2, <3>1, <3>2, <3>3, <3>4, <4>2
        DEF AcceptedResult, CompletionInv
      <4> QED
        BY <4>1, <4>2
    <3> QED
      BY <1>f, <3>1, <3>2, <3>3, <3>4 DEF CompletionInv, InModule
  <2> QED
    BY <2>1, <2>2
<1>9. CASE AlwaysRollback
  <2>1. /\ pc = "passed" /\ pc' = "rolled_back"
        /\ UNCHANGED <<testindex, vmloaded, fatal_reason, results>>
    BY <1>9 DEF AlwaysRollback
  <2> QED
    BY <2>1, RoundGoesOn DEF InModule
<1>10. CASE Milestone
  <2>1. /\ testindex' = testindex + 1 /\ pc = "rolled_back" /\ pc' = "round"
        /\ UNCHANGED <<vmloaded, fatal_reason, results>>
    BY <1>10 DEF Milestone, NextRound
  <2>2. \A m \in Modules : /\ Done(m)' <=> Done(m)
                           /\ AcceptedResult(m)' <=> AcceptedResult(m)
    BY <1>f, <2>1 DEF Done, AcceptedResult, Modules
  <2> QED
    BY <1>f, <2>1, <2>2 DEF CompletionInv, InModule
<1>11. CASE Finish
  <2>1. /\ pc = "round" /\ pc' \in {"completed", "stopped"}
        /\ pc' = "completed" => ~fatal_reason
        /\ testindex > LastModule
        /\ UNCHANGED <<testindex, vmloaded, fatal_reason, results>>
    BY <1>11 DEF Finish
  <2>2. \A m \in Modules : /\ Done(m)' <=> Done(m)
                           /\ AcceptedResult(m)' <=> AcceptedResult(m)
    BY <1>f, <2>1 DEF Done, AcceptedResult
  <2> QED
    BY <1>f, <2>1, <2>2 DEF CompletionInv, InModule
<1>12. CASE UNCHANGED vars
  BY <1>12 DEF vars, settingVars, CompletionInv, InModule, Done, AcceptedResult,
     firsttest
<1> QED
  BY <1>1, <1>2, <1>3, <1>4, <1>5, <1>6, <1>7, <1>8, <1>9, <1>10, <1>11, <1>12
  DEF Next

\* A run that counts as completed has run every module from the first one on,
\* and none of them failed in a way that is fatal.
THEOREM CompletionIsHonest == Spec => []CompletedRanAll
<1>1. TypeOK /\ CompletionInv => CompletedRanAll
  BY DEF TypeOK, CompletionInv, CompletedRanAll, Done, AcceptedResult, Modules
<1> QED
  BY <1>1, TypeInit, TypeNext, CompletionInit, CompletionNext, PTL DEF Spec
=============================================================================
