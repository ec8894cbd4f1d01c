\* Two runs of one session with questions, denials, late keys and cancellations.
SPECIFICATION MCSpec
CONSTANTS
  r1 = r1  r2 = r2  s1 = s1  None = None
  Askers = {r1, r2}
  Sessions = {s1}
  SessionOf <- MCSessionOf
  AutoApproved = {}
  MaxPresses = 2
  MaxCalls <- MCCalls
  MaxTurns <- MCTurns
  MaxLive = 2
INVARIANTS SessionsInOrder ResultsTellTruth RunsWithConsent
PROPERTIES DeniedEndsRun OnlyLostQuestionsHang
CHECK_DEADLOCK FALSE
