\* Three bash calls and two shells; two sessions, three calls and changes of one file.
SPECIFICATION Spec
CONSTANTS
  QueueCap = 1
  PipeRoom = 1
  MaxCalls = 3
  MaxShells = 2
  s1 = s1  s2 = s2
  Sessions = {s1, s2}
  Contents = {"empty", "x", "y"}
  Empty = "empty"
  Absent = "absent"
  Found = {"absent", "y"}
  ToolCalls <- Asked
  MaxEvents = 3
  MaxSeconds = 1
INVARIANTS ShellTellsTruth HistoryTold
PROPERTIES CallsReturn QuietChangesNoticed
CHECK_DEADLOCK FALSE
