SPECIFICATION Spec
CONSTANTS
  Order <- Walked
  Contents <- FileContents
  Defs <- Definitions
  Uses <- References
  Builders = {b1, b2}
  None = None
  MaxTime = 2
  MaxEdits = 2
  MaxBuilds = 3
INVARIANTS IndexFollows RefsTruthful
CHECK_DEADLOCK FALSE
