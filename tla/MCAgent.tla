------------------------------ MODULE MCAgent ------------------------------
EXTENDS AgentProperties, TLC

CONSTANTS r1, r2, s1

\* Both runs are of one session.
MCSessionOf == (r1 :> s1) @@ (r2 :> s1)

\* The first run makes up to two calls, the second one; each gets one answer.
MCCalls == (r1 :> 2) @@ (r2 :> 1)
MCTurns == (r1 :> 1) @@ (r2 :> 1)

\* In a behaviour either the second run makes no call or neither makes two.
VARIABLE second

MCInit == Init /\ second \in BOOLEAN
MCNext ==
  /\ Next /\ UNCHANGED second
  /\ IF second THEN Calls(r1)' <= 1 ELSE Calls(r2)' = 0

MCSpec == MCInit /\ [][MCNext]_<<vars, second>> /\ Fairness
=============================================================================
