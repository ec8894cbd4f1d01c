\* Two phased missions, with manifests that may leave a file out; any call may fail, any mission may die.
SPECIFICATION Spec
CONSTANTS
  m1 = m1  m2 = m2  f1 = f1  f2 = f2  x = x  y = y  fn = fn
  NoFile = NoFile  NoOne = NoOne
  Text = {x, y}
  Blank = x
  Symbols = {fn}
  Mentions <- MCMentions
  Missions = {m1, m2}
  Phased = {m1, m2}
  Paths = {f1, f2}
  Scopes = {f1, f2, fn}
  FileScope <- MCFileScope
  Planned <- MCPlanned
  Answers <- AllAnswers
  InitialFiles <- MCInitialFiles
  CallsFail = TRUE
INVARIANTS LeaseCoversWrites
PROPERTIES WritesWhatItSaw
CHECK_DEADLOCK FALSE
