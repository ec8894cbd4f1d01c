----------------------------- MODULE MCMissions -----------------------------
(***************************************************************************)
(* Two parts of God that share no state: the calls of Angels with their    *)
(* record and replay, and the metrics with detector and oracle.  No step   *)
(* of one can be told by the other, so that the behaviours in which only   *)
(* one of them acts show all that either can do.                           *)
(***************************************************************************)
EXTENDS AngelCalls, MissionMeterProperties, TLC

CONSTANTS shared1, shared2, alone

VARIABLE part  \* the one that acts

vars == <<callVars, meterState, part>>

Init == CallsInit /\ MeterInit /\ part \in {"calls", "metrics"}
Next ==
  /\ UNCHANGED part
  /\ \/ part = "calls" /\ CallsNext /\ UNCHANGED meterState
     \/ part = "metrics" /\ MeterNext /\ UNCHANGED callVars

Spec == Init /\ [][Next]_vars

(* Two drivers of one mission, and a third one with a mission of its own. *)
Shared == "m1"
Own == "m2"
DriversMission == [d \in Drivers |-> IF d = alone THEN Own ELSE Shared]

\* No definition tells the two drivers apart, nor the runners.
Symmetry == Permutations({shared1, shared2}) \cup Permutations(Runners)

(* The oracle answers any plan of up to three missions that depend on each other, or two *)
(* missions with one id.                                                                 *)
Deps == {SetToSeq(S) : S \in SUBSET {"p", "q", "r"}}
Node(i, ds) == [id |-> i, deps |-> ds]
OraclePlans ==
  {<<>>, <<Node("p", <<"p">>), Node("p", <<>>)>>}
    \cup {<<Node("p", a), Node("q", b), Node("r", c)>> : a, b, c \in Deps}
=============================================================================
