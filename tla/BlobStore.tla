------------------------------ MODULE BlobStore ------------------------------
(***************************************************************************)
(* Heaven's content-addressed store (src/heaven/blob.go).  A blob is known *)
(* by the SHA-256 of its content, so a content stands for its id.  Put     *)
(* takes a file that exists for the blob; otherwise it creates the file,   *)
(* empty, and then writes it.  These are three steps: other requests, and  *)
(* a crash of the daemon, may come in between.                             *)
(***************************************************************************)
EXTENDS Naturals, Sequences, FiniteSets

CONSTANTS Blobs, Workers, None  \* contents, goroutines that serve requests

ASSUME BlobAssumption == None \notin Blobs

VARIABLES
  disk,     \* of a blob's file: "none", "part" (created, cut short), "whole"
  writing,  \* the blob a goroutine is writing, or None
  torn      \* ghost: files a failed write or a crash left cut short

blobVars == <<disk, writing, torn>>

BlobInit ==
  /\ disk = [b \in Blobs |-> "none"]
  /\ writing = [w \in Workers |-> None]
  /\ torn = {}

Exists(b) == disk[b] # "none"

\* os.WriteFile creates the file, or cuts short the one that is there, then writes it.
StartWrite(w, b) ==
  /\ disk' = [disk EXCEPT ![b] = "part"]
  /\ writing' = [writing EXCEPT ![w] = b]
  /\ UNCHANGED torn

EndWrite(w) ==
  /\ disk' = [disk EXCEPT ![writing[w]] = "whole"]
  /\ writing' = [writing EXCEPT ![w] = None]
  /\ torn' = torn \ {writing[w]}

FailWrite(w) ==
  /\ writing' = [writing EXCEPT ![w] = None]
  /\ torn' = torn \cup {writing[w]}
  /\ UNCHANGED disk

\* The daemon dies: writes that have begun are never finished.
LoseWrites ==
  /\ writing' = [w \in Workers |-> None]
  /\ torn' = torn \cup ({writing[w] : w \in Workers} \ {None})
  /\ UNCHANGED disk
=============================================================================
