------------------------- MODULE PageFaultProperties -------------------------
(***************************************************************************)
(* What the stores, the prompts and the page faults of Heaven promise.     *)
(***************************************************************************)
EXTENDS PageFaults

\* Types of all variables.
TypeOK ==
  /\ disk \in [Blobs -> {"none", "part", "whole"}]
  /\ writing \in [Workers -> Blobs \cup {None}] /\ torn \subseteq Blobs
  /\ \A a \in DOMAIN heap : heap[a].prompt \in Prompts /\ heap[a].parent \in Prompts \cup {None}
  /\ prompts \in [Prompts -> 0 .. Len(heap)]
  /\ \A w \in Workers : job[w].art \in 0 .. Len(heap)
  /\ pfCount \in [Missions -> Nat] /\ shardBytes \in [Missions -> Nat]
  /\ logged \in [Missions -> [calls : Nat, bytes : Nat]] /\ missed \subseteq Missions
  /\ versions \in [Missions -> [Keys -> Blobs \cup {None}]]
  /\ served \in [Missions -> SUBSET Blobs] /\ misled \subseteq Missions

\* A goroutine writes b, or a failing write or a crash cut it short.
Unsettled(b) == b \in torn \/ \E w \in Workers : writing[w] = b

\* A blob whose file is there can be read whole unless it is unsettled, also when two
\* goroutines found it missing and the second one cuts short what the first one wrote
\* (blob.go:34-41).
QuietIsWhole == \A b \in Blobs : disk[b] = "part" => Unsettled(b)

\* What the daemon knows by its id can be had: a prompt of the map is reconstructed and
\* the shards of a reply have their files, whatever else is stored at the same time
\* (prompt.go:50-91, 134-151, pf.go:175-185).
KnownIsStored ==
  /\ \A p \in Prompts : prompts[p] # 0 => Reconstructs(p) \/ Unsettled(p)
  /\ \A w \in Workers : \A i \in DOMAIN fault[w].shards : Exists(fault[w].shards[i])

\* What a blob's file says and what the daemon knows by an id can be read in full,
\* whatever is written, cut short and forgotten beside it (blob.go:34-41, prompt.go:50-91).
StoredIsReadable == TypeOK /\ QuietIsWhole /\ KnownIsStored

\* The sections of a prompt with the deltas applied.
ApplyDeltas(old, deltas) ==
  LET of(i) == {d \in ToSet(deltas) : d.index = i}
      ops(op) == Cardinality({d \in ToSet(deltas) : d.op = op})
  IN  [i \in 1 .. Len(old) + ops("add") - ops("remove") |->
         IF of(i) = {} THEN old[i] ELSE (CHOOSE d \in of(i) : TRUE).new]

\* The deltas of an artifact rebuild its sections from those of the parent it names, for
\* every pair of prompts, also when it had deltas from another parent before, as long as
\* one goroutine at a time stores deltas (prompt.go:154-214).
DeltasRebuild ==
  \A a \in DOMAIN heap :
    heap[a].parent # None /\ (\A w \in Workers : ~(Doing(w, "deltas") /\ job[w].art = a)) =>
      ApplyDeltas(Sections[heap[a].parent], heap[a].deltas) = Sections[heap[a].prompt]

\* A mission gets at most one call per other goroutine beyond its budget: the governor
\* checks before the router counts (pf_governor.go:37-54).
BudgetOvershoot ==
  \A m \in Missions : pfCount[m] <= MaxPFCalls + Cardinality(Workers) - 1

\* The meter and the log agree: what the log says a mission was served never exceeds what
\* was counted, and is all of it when no call is under way, failed or was not logged
\* (pf.go:87-172).
MeterMatchesLog ==
  \A m \in Missions :
    /\ logged[m].calls <= pfCount[m] /\ logged[m].bytes <= shardBytes[m]
    /\ m \notin missed /\ (\A w \in Workers : fault[w].mission # m) =>
         logged[m] = [calls |-> pfCount[m], bytes |-> shardBytes[m]]

\* What a mission is charged: its budget but for the calls that were checked with it, and
\* what the log says (pf_governor.go:37-54, pf.go:87-172).
MeterHolds == BudgetOvershoot /\ MeterMatchesLog

\* A mission is told that it has a blob only when it was served that blob in full, since
\* shards of different kinds share one key (pf_delta.go:32-85).
WithheldWasServed == misled = {}
-----------------------------------------------------------------------------
(* The inductive invariant. *)

Known == {"install", "parent", "deltas", "reinstall"}  \* stages past the raw prompt's Put

Jobs ==
  [op : {"idle", "store", "delta"}, stage : {"idle", "put", "create", "raw"} \cup Known,
   prompt : Prompts \cup {None}, parent : Prompts \cup {None}, art : Nat]
Faults ==
  [stage : {"idle", "enter", "put", "create", "write", "log", "reply"},
   mission : Missions \cup {None}, key : Keys \cup {None},
   todo : Seq(Blobs), shards : Seq(Blobs), counted : Nat, size : Nat]

\* An artifact is a record of three fields.
HeapIsList ==
  /\ Len(heap) \in Nat /\ DOMAIN heap = 1 .. Len(heap)
  /\ heap = [a \in 1 .. Len(heap) |-> [prompt |-> heap[a].prompt, parent |-> heap[a].parent,
                                       deltas |-> heap[a].deltas]]

\* What the stage of a request promises is there.
JobInOrder(j) ==
  /\ j.stage = "idle" => j = Idle
  /\ j.stage # "idle" => j.op # "idle" /\ j.prompt \in Prompts
  /\ j.op = "delta" => j.parent \in Prompts
  /\ j.stage \in Known => Exists(j.prompt)
  /\ j.stage \in {"parent", "deltas", "reinstall"} => j.op = "delta" /\ j.art \in DOMAIN heap

FaultInOrder(f) ==
  /\ f.stage = "idle" => f = NoFault
  /\ f.stage # "idle" => f.mission \in Missions /\ f.key \in Keys
  /\ f.stage \in {"create", "write"} => f.todo # <<>>
  /\ \A i \in DOMAIN f.shards : Exists(f.shards[i])

\* The blob a goroutine with this job and this fault writes.
Writes(j, f) ==
  IF j.stage = "raw" THEN j.prompt ELSE IF f.stage = "write" THEN Head(f.todo) ELSE None

\* A goroutine serves one request at a time.
WorkersInOrder ==
  /\ job \in [Workers -> Jobs] /\ fault \in [Workers -> Faults]
  /\ \A w \in Workers : /\ JobInOrder(job[w]) /\ FaultInOrder(fault[w])
                        /\ job[w] = Idle \/ fault[w] = NoFault
                        /\ writing[w] = Writes(job[w], fault[w])

StoreOrder ==
  /\ HeapIsList /\ WorkersInOrder
  /\ \A p \in Prompts : prompts[p] # 0 => Exists(p)

\* The version the tracker keeps of a key was served to the mission in full.
VersionsServed ==
  /\ misled = {}
  /\ \A m \in Missions, k \in Keys : versions[m][k] # None => versions[m][k] \in served[m]

Entering(m) == {w \in Workers : Faulting(w, "enter") /\ fault[w].mission = m}
Serving(m) == {w \in Workers : fault[w].stage \in {"put", "create", "write", "log"} /\ fault[w].mission = m}
\* One element for every byte that was counted and is not in the log yet.
Unlogged(m) ==
  UNION {{w} \X (1 .. fault[w].size) : w \in {x \in Serving(m) : Faulting(x, "log")}}

BudgetInv ==
  \A m \in Missions : pfCount[m] + Cardinality(Entering(m)) <= MaxPFCalls + Cardinality(Workers) - 1

\* What is counted and not logged is what calls under way will log, or a call that failed.
MeterInv ==
  \A m \in Missions :
    LET calls == logged[m].calls + Cardinality(Serving(m))
        bytes == logged[m].bytes + Cardinality(Unlogged(m))
    IN  /\ IsFiniteSet(Unlogged(m))
        /\ calls <= pfCount[m] /\ bytes <= shardBytes[m]
        /\ m \notin missed => calls = pfCount[m] /\ bytes = shardBytes[m]

StoreInv == TypeOK /\ QuietIsWhole /\ StoreOrder /\ VersionsServed /\ BudgetInv /\ MeterInv
=============================================================================
