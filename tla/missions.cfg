\* Three drivers whose calls are recorded and replayed; two that count, check and escalate.
SPECIFICATION Spec
CONSTANTS
  shared1 = shared1  shared2 = shared2  alone = alone
  Drivers = {shared1, shared2, alone}
  Missions = {"m1", "m2"}
  MissionOf <- DriversMission
  Answers = {"edit", "macro", "diff", "wrong", "long", "garbage"}
  None = None
  MaxExecutes = 2
  Runners = {d1, d2}
  Metered = {m1, m2}
  PFSoftLimit = 1
  PFConsecutiveTurns = 2
  MaxRejects = 2
  MaxConflicts = 2
  MaxTestFailures = 2
  Plans <- OraclePlans
  MaxCalls = 6
SYMMETRY Symmetry
INVARIANTS RecordIsTrue ReplayIsTrue DetectsThrash PlansExecutable
CHECK_DEADLOCK FALSE
