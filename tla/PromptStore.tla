----------------------------- MODULE PromptStore -----------------------------
(***************************************************************************)
(* Heaven's prompts (src/heaven/prompt.go): Store, StoreDelta, Reconstruct *)
(* over the blob store.  The artifacts live in memory only; goroutines     *)
(* share them by pointer, and StoreDelta changes one outside of the lock.  *)
(***************************************************************************)
EXTENDS BlobStore, SequencesExt

CONSTANTS Prompts,       \* raw prompts, blobs themselves
          Sections,      \* the hashes of a prompt's sections, in order
          MaxArtifacts   \* bound: artifacts made between two crashes

ASSUME PromptAssumption ==
  /\ Prompts \subseteq Blobs
  /\ \A p \in Prompts : Sections[p] \in Seq(ToSet(Sections[p]))

VARIABLES
  heap,     \* the artifacts: prompt, parent and deltas; an artifact is its index
  prompts,  \* ps.prompts: the artifact of a prompt, 0 when there is none
  job       \* what the goroutine of a request does

promptVars == <<heap, prompts, job>>

Idle == [op |-> "idle", stage |-> "idle", prompt |-> None, parent |-> None, art |-> 0]

PromptInit ==
  /\ heap = <<>>
  /\ prompts = [p \in Prompts |-> 0]
  /\ job = [w \in Workers |-> Idle]

Ready(w) == job[w] = Idle
Doing(w, stage) == job[w].stage = stage
Goto(w, stage) == job' = [job EXCEPT ![w].stage = stage]
Finish(w) == job' = [job EXCEPT ![w] = Idle]

-----------------------------------------------------------------------------
(* computeDeltas *)

Delta(op, i, old, new) == [op |-> op, index |-> i, old |-> old, new |-> new]

\* Variant: the sections that only the longer prompt has are left out.
DeltaAtShorter(old, new, i) ==
  IF i > Len(old) \/ i > Len(new) \/ old[i] = new[i] THEN <<>>
  ELSE <<Delta("replace", i, old[i], new[i])>>
DeltaAt(old, new, i) ==
  IF i > Len(old) THEN <<Delta("add", i, None, new[i])>>
  ELSE IF i > Len(new) THEN <<Delta("remove", i, old[i], None)>>
  ELSE IF old[i] # new[i] THEN <<Delta("replace", i, old[i], new[i])>>
  ELSE <<>>

ComputeDeltas(old, new) ==
  LET maxLen == IF Len(new) > Len(old) THEN Len(new) ELSE Len(old)
      upTo[i \in 0 .. maxLen] == IF i = 0 THEN <<>> ELSE upTo[i - 1] \o DeltaAt(old, new, i)
  IN  upTo[maxLen]
-----------------------------------------------------------------------------
(* The requests. *)

\* Store's lookup under the read lock: a prompt that is known ends the call, or the part
\* of it that StoreDelta needs.
Lookup(w, op, p, q) ==
  job' = [job EXCEPT ![w] =
    IF prompts[p] # 0
      THEN IF op = "store" THEN Idle
           ELSE [op |-> op, stage |-> "parent", prompt |-> p, parent |-> q, art |-> prompts[p]]
      ELSE [op |-> op, stage |-> "put", prompt |-> p, parent |-> q, art |-> 0]]

Store(w, p) ==
  /\ Ready(w)
  /\ Lookup(w, "store", p, None)
  /\ UNCHANGED <<blobVars, heap, prompts>>

\* StoreDelta finds the parent first; its own prompt may be the parent.
StoreDelta(w, p, q) ==
  /\ Ready(w) /\ prompts[q] # 0
  /\ Lookup(w, "delta", p, q)
  /\ UNCHANGED <<blobVars, heap, prompts>>

\* Variant: the artifact is made before the raw prompt is stored.
PutRawLater(w) ==
  /\ Doing(w, "put")
  /\ Goto(w, "install") /\ UNCHANGED blobVars
  /\ UNCHANGED <<heap, prompts>>
\* blobs.Put of the raw prompt looks for the file.
PutRaw(w) ==
  /\ Doing(w, "put")
  /\ IF Exists(job[w].prompt)
       THEN Goto(w, "install") /\ UNCHANGED blobVars
       ELSE Goto(w, "create") /\ UNCHANGED blobVars
  /\ UNCHANGED <<heap, prompts>>

\* The file is created, or cut short if another goroutine has made it meanwhile.
CreateRaw(w) ==
  /\ Doing(w, "create")
  /\ StartWrite(w, job[w].prompt) /\ Goto(w, "raw")
  /\ UNCHANGED <<heap, prompts>>

RawWritten(w) ==
  /\ Doing(w, "raw")
  /\ \/ EndWrite(w) /\ Goto(w, "install")
     \/ FailWrite(w) /\ Finish(w)
  /\ UNCHANGED <<heap, prompts>>

\* A new artifact replaces the one another goroutine may have put there since the lookup.
Install(w) ==
  LET p == job[w].prompt IN
  /\ Doing(w, "install") /\ Len(heap) < MaxArtifacts
  /\ heap' = Append(heap, [prompt |-> p, parent |-> None, deltas |-> <<>>])
  /\ prompts' = [prompts EXCEPT ![p] = Len(heap')]
  /\ job' = [job EXCEPT ![w] = IF job[w].op = "store" THEN Idle
                               ELSE [job[w] EXCEPT !.stage = "parent", !.art = Len(heap')]]
  /\ UNCHANGED blobVars

\* The two assignments of StoreDelta to an artifact others may hold.
SetParent(w) ==
  /\ Doing(w, "parent")
  /\ heap' = [heap EXCEPT ![job[w].art].parent = job[w].parent]
  /\ Goto(w, "deltas")
  /\ UNCHANGED <<blobVars, prompts>>
SetDeltas(w) ==
  /\ Doing(w, "deltas")
  /\ heap' = [heap EXCEPT ![job[w].art].deltas =
                ComputeDeltas(Sections[job[w].parent], Sections[job[w].prompt])]
  /\ Goto(w, "reinstall")
  /\ UNCHANGED <<blobVars, prompts>>

Reinstall(w) ==
  /\ Doing(w, "reinstall")
  /\ prompts' = [prompts EXCEPT ![job[w].prompt] = job[w].art]
  /\ Finish(w)
  /\ UNCHANGED <<blobVars, heap>>

\* Reconstruct gives a prompt back only when what it read has the prompt's hash.
Reconstructs(p) == prompts[p] # 0 /\ disk[p] = "whole"

PromptStep(w) ==
  \/ \E p \in Prompts : Store(w, p) \/ \E q \in Prompts : StoreDelta(w, p, q)
  \/ PutRaw(w) \/ CreateRaw(w) \/ RawWritten(w) \/ Install(w) \/ SetParent(w) \/ SetDeltas(w) \/ Reinstall(w)

\* A crash forgets every artifact.
Forget ==
  /\ heap' = <<>> /\ prompts' = [p \in Prompts |-> 0]
  /\ job' = [w \in Workers |-> Idle]
=============================================================================
