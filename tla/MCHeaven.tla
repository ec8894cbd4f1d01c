------------------------------ MODULE MCHeaven ------------------------------
(* Instances of HeavenServer for TLC: every client has an owner of its own. *)
EXTENDS HeavenInvariants, TLC

MCOwnerOf == [c \in Clients |-> c]

\* Lease ids are random: no definition tells one from another.
Symmetry == Permutations(LeaseIds)
=============================================================================
