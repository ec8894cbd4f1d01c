------------------------------ MODULE MCTools ------------------------------
(***************************************************************************)
(* Two parts of the CLI's tools that share no state: the shell of the bash *)
(* tool, and the tools that change files with their history.  In a         *)
(* behaviour one of them acts.                                             *)
(***************************************************************************)
EXTENDS PersistentShell, FileTools

CONSTANTS s1, s2

VARIABLES part,  \* the one that acts
          begun  \* whether s1 had a call to work at

vars == <<shellVars, fileVars, part, begun>>

Init ==
  /\ ShellInit /\ FilesInit
  /\ part \in {"shell", "files"}
  /\ part = "shell" => disk = Absent
  /\ begun = FALSE

\* Nothing tells the sessions apart: s1 is the one that is first.
Next ==
  /\ UNCHANGED part
  /\ \/ part = "shell" /\ ShellNext /\ UNCHANGED fileVars
     \/ part = "files" /\ FilesNext /\ UNCHANGED shellVars
  /\ begun' = (begun \/ job'[s1] # Idle) /\ (job'[s2] # Idle => begun)

Spec == Init /\ [][Next]_vars /\ ShellFairness

(* A view, writes and edits that find what another call or the user has left. *)
Call(tool, from, to) == [tool |-> tool, from |-> from, to |-> to]
Asked ==
  {Call("view", "empty", "empty"), Call("write", "empty", "x"), Call("create", "empty", "x"),
   Call("replace", "x", "y"), Call("delete", "y", "empty")}
=============================================================================
