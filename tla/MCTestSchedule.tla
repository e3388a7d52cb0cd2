--------------------------- MODULE MCTestSchedule ---------------------------
(* Instances of TestSchedule for TLC                                         *)
EXTENDS TestSchedule, TLC

Symmetry == Permutations(Consoles)

F(fatal, names) ==
  [fatal |-> fatal, milestone |-> "milestone" \in names,
   no_rollback |-> "no_rollback" \in names,
   always_rollback |-> "always_rollback" \in names,
   always_run |-> "always_run" \in names]

\* One flag set per reason to roll back, to stop, to save or to go on
CommonFlags == { F("unset", {}), F("on", {"milestone"}),
                 F("unset", {"milestone", "always_rollback", "always_run"}),
                 F("off", {"no_rollback"}) }
MilestoneFlags == { F("off", {}), F("off", {"milestone"}) }

S(names, skipto) ==
  [snapshots |-> "snapshots" \in names, TESTDEBUG |-> "TESTDEBUG" \in names,
   MAKETESTSNAPSHOTS |-> "MAKETESTSNAPSHOTS" \in names, SKIPTO |-> skipto,
   FAIL_ON_ALWAYS_ROLLBACK_NOT_SUPPORTED |-> "FAIL_ON" \in names]

JobSettings == { S({"snapshots", "FAIL_ON"}, 0), S({"FAIL_ON"}, 0), S({}, 0),
                 S({"snapshots", "MAKETESTSNAPSHOTS", "FAIL_ON"}, 2),
                 S({"snapshots", "TESTDEBUG", "FAIL_ON"}, 2), S({"snapshots", "FAIL_ON"}, 5) }
WithSnapshots == { S({"snapshots", "FAIL_ON"}, 0) }
=============================================================================
