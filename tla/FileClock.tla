----------------------------- MODULE FileClock ------------------------------
(***************************************************************************)
(* heaven/fileclock.go: one version counter per path, bumped in memory     *)
(* first and logged afterwards; the replay counts the logged increments.   *)
(***************************************************************************)
EXTENDS EventLog

VARIABLES clocks   \* path -> clock, 0 where the map has no entry

ClockTypeOK == clocks \in [Paths -> Nat]

ZeroClocks == clocks = [p \in Paths |-> 0]

Bumped(P) == [p \in Paths |-> IF p \in P THEN clocks[p] + 1 ELSE clocks[p]]

\* Increment under fc.mu, with the result of its append: the clocks stay
\* bumped when the append fails.
Increment(P)      == clocks' = Bumped(P) /\ Written(FileClockInc(P))
IncrementFails(P) == clocks' = Bumped(P) /\ WriteFails(FileClockInc(P))

\* Variant: a logged increment marks the path instead of counting.
ReplayMarksClock(e) ==
  clocks' = IF e.type = "file_clock_inc"
            THEN [p \in Paths |-> IF p \in e.paths THEN 1 ELSE clocks[p]]
            ELSE clocks

ReplayClockLine(e) ==
  clocks' = IF e.type = "file_clock_inc" THEN Bumped(e.paths) ELSE clocks
=============================================================================
