---------------------------- MODULE MCEditDrift ----------------------------
(* Instances of EditDrift for TLC: one line of two mentions the symbol. *)
EXTENDS EditDrift

CONSTANTS x, y, fn

MCMentions == [t \in Text |-> IF t = y THEN {fn} ELSE {}]

MCContents == {<<>>, <<x>>, <<y>>}
=============================================================================
