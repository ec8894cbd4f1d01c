\* Two goroutines, two prompts, a mission, failing writes and a crash.
SPECIFICATION Spec
CONSTANTS
  w1 = w1  w2 = w2  p1 = p1  p2 = p2  b1 = b1  b2 = b2  m1 = m1
  symdef = symdef  callers = callers  None = None
  Workers = {w1, w2}
  Blobs = {p1, p2, b1, b2}
  Prompts = {p1, p2}
  Sections <- MCSections
  MaxArtifacts = 2
  Missions = {m1}
  Keys = {symdef, callers}
  Answers <- MCAnswers
  Size <- MCSize
  MaxPFCalls = 2
  MaxShardBytes = 3
  DeltaWorkers = {w1}
  MaxRequests = 4
  MaxCrashes = 1
INVARIANTS StoredIsReadable DeltasRebuild MeterHolds WithheldWasServed
CHECK_DEADLOCK FALSE
