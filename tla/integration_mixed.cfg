\* A phased mission next to one that skips the lease check: drift and rebase.
SPECIFICATION FairSpec
CONSTANTS
  m1 = m1  m2 = m2  f1 = f1  f2 = f2  x = x  y = y  fn = fn
  NoFile = NoFile  NoOne = NoOne
  Text = {x, y}
  Blank = x
  Symbols = {fn}
  Mentions <- MCMentions
  Missions = {m1, m2}
  Phased = {m1}
  Paths = {f1, f2}
  Scopes = {f1, f2, fn}
  FileScope <- MCFileScope
  Planned <- MCPlanned
  Answers <- HonestAnswers
  InitialFiles <- MCInitialFiles
  CallsFail = TRUE
INVARIANTS LoggedMeansDone
PROPERTIES MissionsEnd
CHECK_DEADLOCK FALSE
