----------------------------- MODULE StoreProofs -----------------------------
(***************************************************************************)
(* For every number of goroutines, prompts, blobs, missions and requests:  *)
(* what the daemon knows can be read, what a mission is charged is what it *)
(* was served, nothing is withheld that it does not have, and the deltas   *)
(* of a prompt rebuild its sections.                                       *)
(***************************************************************************)
EXTENDS PageFaultProperties, FiniteSetTheorems, SequenceTheorems, WellFoundedInduction, TLAPS

USE BlobAssumption, PromptAssumption, FaultAssumption

-----------------------------------------------------------------------------
(* The files of the blobs. *)

DiskTyped ==
  /\ disk \in [Blobs -> {"none", "part", "whole"}]
  /\ writing \in [Workers -> Blobs \cup {None}] /\ torn \subseteq Blobs

\* What was there stays there.
NothingVanishes == \A b \in Blobs : Exists(b) => Exists(b)'

\* A write begins or ends: who writes what, and what is there then.
LEMMA StartMove ==
  ASSUME DiskTyped, QuietIsWhole, NEW w \in Workers, NEW b \in Blobs, StartWrite(w, b),
         writing[w] = None
  PROVE  DiskTyped' /\ QuietIsWhole' /\ NothingVanishes /\ writing' = [writing EXCEPT ![w] = b]
<1>1. /\ disk' = [disk EXCEPT ![b] = "part"] /\ writing' = [writing EXCEPT ![w] = b] /\ torn' = torn
  BY DEF StartWrite
<1>2. DiskTyped'
  BY <1>1 DEF DiskTyped
<1>3. \A v \in Workers : v # w => writing'[v] = writing[v]
  BY <1>1 DEF DiskTyped
<1>4. writing'[w] = b
  BY <1>1 DEF DiskTyped
<1>5. \A c \in Blobs : c # b => disk'[c] = disk[c]
  BY <1>1 DEF DiskTyped
<1>6. disk'[b] = "part"
  BY <1>1 DEF DiskTyped
<1>7. QuietIsWhole'
  <2>1. SUFFICES ASSUME NEW c \in Blobs, disk'[c] = "part"
                 PROVE  c \in torn' \/ \E v \in Workers : writing'[v] = c
    BY DEF QuietIsWhole, Unsettled
  <2>2. CASE c = b
    BY <1>4, <2>2
  <2>3. CASE c # b
    <3>1. c \in torn \/ \E v \in Workers : writing[v] = c
      BY <1>5, <2>1, <2>3 DEF QuietIsWhole, Unsettled
    <3>2. \A v \in Workers : writing[v] = c => writing'[v] = c
      BY <1>3
    <3>3. QED
      BY <1>1, <3>1, <3>2
  <2>4. QED
    BY <2>2, <2>3
<1>8. NothingVanishes
  BY <1>5, <1>6 DEF NothingVanishes, Exists
<1>9. QED
  BY <1>1, <1>2, <1>7, <1>8

LEMMA EndMove ==
  ASSUME DiskTyped, QuietIsWhole, NEW w \in Workers, NEW b \in Blobs, writing[w] = b,
         EndWrite(w) \/ FailWrite(w)
  PROVE  /\ DiskTyped' /\ QuietIsWhole' /\ NothingVanishes /\ writing' = [writing EXCEPT ![w] = None]
         /\ EndWrite(w) => Exists(b)'
<1>1. writing' = [writing EXCEPT ![w] = None]
  BY DEF EndWrite, FailWrite
<1>2. \A v \in Workers : v # w => writing'[v] = writing[v]
  BY <1>1 DEF DiskTyped
<1>3. CASE EndWrite(w)
  <2>1. disk' = [disk EXCEPT ![b] = "whole"] /\ torn' = torn \ {b}
    BY <1>3 DEF EndWrite
  <2>2. DiskTyped'
    BY <1>1, <2>1 DEF DiskTyped
  <2>3. disk'[b] = "whole" /\ \A c \in Blobs : c # b => disk'[c] = disk[c]
    BY <2>1 DEF DiskTyped
  <2>4. QuietIsWhole'
    <3>1. SUFFICES ASSUME NEW c \in Blobs, disk'[c] = "part"
                   PROVE  c \in torn' \/ \E v \in Workers : writing'[v] = c
      BY DEF QuietIsWhole, Unsettled
    <3>2. c # b /\ disk[c] = "part"
      BY <2>3, <3>1
    <3>3. c \in torn \/ \E v \in Workers : writing[v] = c /\ v # w
      BY <3>2 DEF QuietIsWhole, Unsettled
    <3>4. QED
      BY <1>2, <2>1, <3>2, <3>3
  <2>5. NothingVanishes /\ Exists(b)'
    BY <2>3 DEF NothingVanishes, Exists
  <2>6. QED
    BY <1>1, <2>2, <2>4, <2>5
<1>4. CASE FailWrite(w)
  <2>1. disk' = disk /\ torn' = torn \cup {b}
    BY <1>4 DEF FailWrite
  <2>2. DiskTyped' /\ NothingVanishes
    BY <1>1, <2>1 DEF DiskTyped, NothingVanishes, Exists
  <2>3. QuietIsWhole'
    <3>1. SUFFICES ASSUME NEW c \in Blobs, disk'[c] = "part"
                   PROVE  c \in torn' \/ \E v \in Workers : writing'[v] = c
      BY DEF QuietIsWhole, Unsettled
    <3>2. c \in torn \/ \E v \in Workers : writing[v] = c
      BY <2>1, <3>1 DEF QuietIsWhole, Unsettled
    <3>3. QED
      BY <1>2, <2>1, <3>2
  <2>4. ~EndWrite(w) \/ Exists(b)'
    <3>1. EndWrite(w) => disk'[b] = "whole"
      BY DEF EndWrite, DiskTyped
    <3>2. QED
      BY <3>1 DEF Exists
  <2>5. QED
    BY <1>1, <2>2, <2>3, <2>4
<1>5. QED
  BY <1>3, <1>4

LEMMA SameFiles ==
  ASSUME DiskTyped, QuietIsWhole, UNCHANGED blobVars
  PROVE  DiskTyped' /\ QuietIsWhole' /\ NothingVanishes
BY DEF DiskTyped, QuietIsWhole, NothingVanishes, blobVars, Unsettled, Exists
-----------------------------------------------------------------------------
(* One goroutine moves. *)

HeapTyped ==
  /\ HeapIsList
  /\ \A a \in DOMAIN heap : heap[a].prompt \in Prompts /\ heap[a].parent \in Prompts \cup {None}
PromptsTyped ==
  /\ prompts \in [Prompts -> 0 .. Len(heap)] /\ \A p \in Prompts : prompts[p] # 0 => Exists(p)
CountersTyped ==
  /\ pfCount \in [Missions -> Nat] /\ shardBytes \in [Missions -> Nat]
  /\ logged \in [Missions -> [calls : Nat, bytes : Nat]] /\ missed \subseteq Missions
VersionsTyped ==
  /\ versions \in [Missions -> [Keys -> Blobs \cup {None}]]
  /\ served \in [Missions -> SUBSET Blobs] /\ misled \subseteq Missions

ArtsTyped == \A w \in Workers : job[w].art \in 0 .. Len(heap)

\* StoreInv by its parts.
Parts ==
  /\ DiskTyped /\ QuietIsWhole /\ HeapTyped /\ PromptsTyped /\ WorkersInOrder /\ ArtsTyped
  /\ CountersTyped /\ VersionsTyped /\ VersionsServed /\ BudgetInv /\ MeterInv
LEMMA StoreParts == (StoreInv <=> Parts) /\ (StoreInv' <=> Parts')
BY DEF StoreInv, TypeOK, DiskTyped, HeapTyped, PromptsTyped, ArtsTyped, CountersTyped,
       VersionsTyped, StoreOrder, Parts

\* The hypotheses of both moves: files stay, artifacts stay.
Grows == /\ NothingVanishes /\ HeapIsList /\ HeapIsList' /\ Len(heap) <= Len(heap')

LEMMA JobStays ==
  ASSUME Grows, NEW j \in Jobs, JobInOrder(j)
  PROVE  JobInOrder(j)'
<1>1. j.stage \in Known => j.prompt \in Blobs
  BY DEF JobInOrder, Known
<1>2. DOMAIN heap \subseteq DOMAIN heap'
  BY DEF Grows, HeapIsList
<1>3. j.stage \in Known => Exists(j.prompt)'
  BY <1>1 DEF JobInOrder, Grows, NothingVanishes
<1>4. QED
  BY <1>2, <1>3 DEF JobInOrder

LEMMA FaultStays ==
  ASSUME Grows, NEW f \in Faults, FaultInOrder(f)
  PROVE  FaultInOrder(f)'
<1>1. f.shards \in Seq(Blobs)
  BY DEF Faults
<1>2. \A i \in DOMAIN f.shards : f.shards[i] \in Blobs
  BY <1>1
<1>3. \A i \in DOMAIN f.shards : Exists(f.shards[i])'
  BY <1>2 DEF FaultInOrder, Grows, NothingVanishes
<1>4. QED
  BY <1>3 DEF FaultInOrder

\* A goroutine moves on with a prompt or with a page fault.
LEMMA WorkerMove ==
  ASSUME WorkersInOrder, Grows, NEW w \in Workers, NEW j \in Jobs, NEW f \in Faults,
         job' = [job EXCEPT ![w] = j], fault' = [fault EXCEPT ![w] = f],
         JobInOrder(j)', FaultInOrder(f)', j = Idle \/ f = NoFault,
         writing'[w] = Writes(j, f), \A v \in Workers \ {w} : writing'[v] = writing[v]
  PROVE  WorkersInOrder'
<1>1. job \in [Workers -> Jobs] /\ fault \in [Workers -> Faults]
  BY DEF WorkersInOrder
<1>2. /\ job' \in [Workers -> Jobs] /\ job'[w] = j
      /\ \A v \in Workers \ {w} : job'[v] = job[v]
  BY <1>1
<1>3. /\ fault' \in [Workers -> Faults] /\ fault'[w] = f
      /\ \A v \in Workers \ {w} : fault'[v] = fault[v]
  BY <1>1
<1>4. ASSUME NEW v \in Workers
      PROVE  /\ JobInOrder(job[v])' /\ FaultInOrder(fault[v])'
             /\ (job[v] = Idle \/ fault[v] = NoFault)'
             /\ writing'[v] = Writes(job'[v], fault'[v])
  <2>1. CASE v = w
    BY <1>2, <1>3, <2>1 DEF JobInOrder, FaultInOrder, Exists
  <2>2. CASE v # w
    <3>1. job'[v] = job[v] /\ fault'[v] = fault[v] /\ writing'[v] = writing[v]
      BY <1>2, <1>3, <2>2
    <3>2. PICK i \in Jobs : i = job[v]
      BY <1>1
    <3>3. PICK g \in Faults : g = fault[v]
      BY <1>1
    <3>4. JobInOrder(i)'
      BY <3>2, JobStays DEF WorkersInOrder
    <3>5. FaultInOrder(g)'
      BY <3>3, FaultStays DEF WorkersInOrder
    <3>6. JobInOrder(job[v])' /\ FaultInOrder(fault[v])'
      BY <3>1, <3>2, <3>3, <3>4, <3>5 DEF JobInOrder, FaultInOrder, Exists
    <3>7. QED
      BY <3>1, <3>6 DEF WorkersInOrder
  <2>3. QED
    BY <2>1, <2>2
<1>5. QED
  BY <1>2, <1>3, <1>4 DEF WorkersInOrder, Writes

\* A step that leaves the page faults, their counters and versions alone.
LEMMA SameFaults ==
  ASSUME CountersTyped, VersionsTyped, VersionsServed, BudgetInv, MeterInv, UNCHANGED faultVars
  PROVE  CountersTyped' /\ VersionsTyped' /\ VersionsServed' /\ BudgetInv' /\ MeterInv'
<1>1. \A m \in Missions : /\ Entering(m)' = Entering(m) /\ Serving(m)' = Serving(m)
                          /\ Unlogged(m)' = Unlogged(m)
  BY DEF faultVars, Entering, Serving, Unlogged, Faulting
<1>2. CountersTyped' /\ VersionsTyped' /\ VersionsServed'
  BY DEF faultVars, CountersTyped, VersionsTyped, VersionsServed
<1>3. BudgetInv' /\ MeterInv'
  BY <1>1 DEF faultVars, BudgetInv, MeterInv
<1>4. QED
  BY <1>2, <1>3

\* A step of a prompt's request.
LEMMA PromptMove ==
  ASSUME StoreInv, NEW w \in Workers, NEW j \in Jobs, fault[w] = NoFault,
         job' = [job EXCEPT ![w] = j], UNCHANGED faultVars,
         JobInOrder(j)', j.art \in 0 .. Len(heap'),
         DiskTyped', QuietIsWhole', NothingVanishes, HeapTyped', PromptsTyped',
         Len(heap) <= Len(heap'),
         writing'[w] = Writes(j, NoFault), \A v \in Workers \ {w} : writing'[v] = writing[v]
  PROVE  StoreInv'
<1>1. /\ WorkersInOrder /\ ArtsTyped /\ HeapTyped
      /\ CountersTyped /\ VersionsTyped /\ VersionsServed /\ BudgetInv /\ MeterInv
  BY StoreParts DEF Parts
<1>2. /\ Grows /\ Len(heap) \in Nat /\ Len(heap') \in Nat
  BY <1>1 DEF Grows, HeapTyped, HeapIsList
<1>3. job \in [Workers -> Jobs] /\ fault \in [Workers -> Faults]
  BY <1>1 DEF WorkersInOrder
<1>4. NoFault \in Faults /\ fault' = [fault EXCEPT ![w] = NoFault]
  BY <1>3 DEF faultVars
<1>5. FaultInOrder(NoFault)'
  BY DEF FaultInOrder, NoFault
<1>6. WorkersInOrder'
  BY <1>1, <1>2, <1>4, <1>5, WorkerMove
<1>7. ArtsTyped'
  <2>1. \A v \in Workers : job'[v].art = IF v = w THEN j.art ELSE job[v].art
    BY <1>3
  <2>2. QED
    BY <1>1, <1>2, <2>1 DEF ArtsTyped
<1>8. CountersTyped' /\ VersionsTyped' /\ VersionsServed' /\ BudgetInv' /\ MeterInv'
  BY <1>1, SameFaults
<1>9. QED
  BY <1>6, <1>7, <1>8, StoreParts DEF Parts
-----------------------------------------------------------------------------
(* The steps of a prompt's request. *)

LEMMA IdleJob == Idle \in Jobs /\ Idle.stage = "idle" /\ Idle.art = 0
BY DEF Idle, Jobs

\* What a job that stands still in the files and on the heap needs.
LEMMA NothingWritten ==
  ASSUME StoreInv, NEW w \in Workers, fault[w] = NoFault, job[w].stage # "raw"
  PROVE  writing[w] = None
BY StoreParts DEF Parts, WorkersInOrder, Writes, NoFault

LEMMA NoFaultWrites ==
  ASSUME NEW j \in Jobs, j.stage # "raw"
  PROVE  Writes(j, NoFault) = None
BY DEF Writes, NoFault

\* A step that only moves the job on.
LEMMA LocalMove ==
  ASSUME StoreInv, NEW w \in Workers, NEW j \in Jobs, fault[w] = NoFault,
         job' = [job EXCEPT ![w] = j], UNCHANGED <<blobVars, heap, prompts, faultVars>>,
         job[w].stage # "raw", j.stage # "raw", JobInOrder(j), j.art \in 0 .. Len(heap)
  PROVE  StoreInv'
<1>1. DiskTyped /\ QuietIsWhole /\ HeapTyped /\ PromptsTyped
  BY StoreParts DEF Parts
<1>2. DiskTyped' /\ QuietIsWhole' /\ NothingVanishes
  BY <1>1, SameFiles
<1>3. HeapTyped' /\ PromptsTyped' /\ Len(heap) <= Len(heap')
  BY <1>1 DEF HeapTyped, HeapIsList, PromptsTyped, Exists, blobVars
<1>4. writing'[w] = Writes(j, NoFault) /\ \A v \in Workers \ {w} : writing'[v] = writing[v]
  BY NothingWritten, NoFaultWrites DEF blobVars
<1>5. JobInOrder(j)'
  BY DEF JobInOrder, Exists, blobVars
<1>6. QED
  BY <1>2, <1>3, <1>4, <1>5, PromptMove

LEMMA LookupStep ==
  ASSUME StoreInv, NEW w \in Workers, fault[w] = NoFault, Ready(w),
         NEW op \in {"store", "delta"}, NEW p \in Prompts, NEW q \in Prompts \cup {None},
         op = "delta" => q \in Prompts, Lookup(w, op, p, q),
         UNCHANGED <<blobVars, heap, prompts, faultVars>>
  PROVE  StoreInv'
<1>1. PromptsTyped /\ HeapTyped /\ WorkersInOrder
  BY StoreParts DEF Parts
<1>2. /\ prompts[p] \in 0 .. Len(heap) /\ DOMAIN heap = 1 .. Len(heap) /\ Len(heap) \in Nat
      /\ prompts[p] # 0 => Exists(p)
  BY <1>1 DEF PromptsTyped, HeapTyped, HeapIsList
<1>3. job[w].stage = "idle"
  BY IdleJob DEF Ready
<1>4. PICK j : j = IF prompts[p] # 0
                     THEN IF op = "store" THEN Idle
                          ELSE [op |-> op, stage |-> "parent", prompt |-> p, parent |-> q,
                                art |-> prompts[p]]
                     ELSE [op |-> op, stage |-> "put", prompt |-> p, parent |-> q, art |-> 0]
  OBVIOUS
<1>5. job' = [job EXCEPT ![w] = j]
  BY <1>4 DEF Lookup
<1>6. j \in Jobs /\ JobInOrder(j) /\ j.stage # "raw" /\ j.art \in 0 .. Len(heap)
  <2>1. CASE prompts[p] # 0 /\ op = "store"
    BY <1>2, <1>4, <2>1, IdleJob DEF JobInOrder, Idle, Known
  <2>2. CASE prompts[p] # 0 /\ op = "delta"
    BY <1>2, <1>4, <2>2 DEF JobInOrder, Known, Jobs
  <2>3. CASE prompts[p] = 0
    BY <1>2, <1>4, <2>3 DEF JobInOrder, Known, Jobs
  <2>4. QED
    BY <2>1, <2>2, <2>3
<1>7. QED
  BY <1>3, <1>5, <1>6, LocalMove

LEMMA JobFacts ==
  ASSUME StoreInv, NEW w \in Workers
  PROVE  /\ job[w] \in Jobs /\ JobInOrder(job[w]) /\ job[w].art \in 0 .. Len(heap)
         /\ job[w].stage # "idle" => job[w].op # "idle" /\ job[w].prompt \in Prompts
BY StoreParts DEF Parts, WorkersInOrder, ArtsTyped, JobInOrder

\* A job moves on to another stage.
LEMMA NextStage ==
  ASSUME StoreInv, NEW w \in Workers,
         NEW s \in {"create", "raw", "install", "deltas", "reinstall"}, Goto(w, s)
  PROVE  \E j \in Jobs : /\ job' = [job EXCEPT ![w] = j] /\ j.stage = s
                         /\ j.op = job[w].op /\ j.prompt = job[w].prompt
                         /\ j.parent = job[w].parent /\ j.art = job[w].art
<1>1. job \in [Workers -> Jobs]
  BY StoreParts DEF Parts, WorkersInOrder
<1> DEFINE j == [job[w] EXCEPT !.stage = s]
<1>2. j \in Jobs /\ j.stage = s /\ j.op = job[w].op /\ j.prompt = job[w].prompt
      /\ j.parent = job[w].parent /\ j.art = job[w].art
  BY <1>1 DEF Jobs, Known
<1>3. job' = [job EXCEPT ![w] = j]
  BY <1>1 DEF Goto
<1>4. QED
  BY <1>2, <1>3

LEMMA PutRawStep ==
  ASSUME StoreInv, NEW w \in Workers, fault[w] = NoFault, PutRaw(w), UNCHANGED faultVars
  PROVE  StoreInv'
<1>1. UNCHANGED <<blobVars, heap, prompts, faultVars>> /\ job[w].stage = "put"
  BY DEF PutRaw, Doing
<1>2. /\ job[w].op # "idle" /\ job[w].prompt \in Prompts /\ JobInOrder(job[w])
      /\ job[w].art \in 0 .. Len(heap)
  BY <1>1, JobFacts
<1>3. PICK s \in {"create", "install"} : Goto(w, s) /\ (s = "install" => Exists(job[w].prompt))
  BY DEF PutRaw
<1>4. PICK j \in Jobs : /\ job' = [job EXCEPT ![w] = j] /\ j.stage = s
                        /\ j.op = job[w].op /\ j.prompt = job[w].prompt
                        /\ j.parent = job[w].parent /\ j.art = job[w].art
  BY <1>3, NextStage
<1>5. JobInOrder(j)
  BY <1>2, <1>3, <1>4 DEF JobInOrder, Known
<1>6. QED
  BY <1>1, <1>2, <1>3, <1>4, <1>5, LocalMove

LEMMA CreateRawStep ==
  ASSUME StoreInv, NEW w \in Workers, fault[w] = NoFault, CreateRaw(w), UNCHANGED faultVars
  PROVE  StoreInv'
<1>1. /\ job[w].stage = "create" /\ StartWrite(w, job[w].prompt) /\ Goto(w, "raw")
      /\ UNCHANGED <<heap, prompts>>
  BY DEF CreateRaw, Doing
<1>2. /\ job[w].op # "idle" /\ job[w].prompt \in Prompts /\ JobInOrder(job[w])
      /\ job[w].art \in 0 .. Len(heap)
  BY <1>1, JobFacts
<1>3. DiskTyped /\ QuietIsWhole /\ HeapTyped /\ PromptsTyped /\ writing[w] = None
  BY <1>1, NothingWritten, StoreParts DEF Parts
<1>4. PICK b \in Blobs : b = job[w].prompt
  BY <1>2
<1>5. DiskTyped' /\ QuietIsWhole' /\ NothingVanishes /\ writing' = [writing EXCEPT ![w] = b]
  BY <1>1, <1>3, <1>4, StartMove
<1>6. writing'[w] = b /\ \A v \in Workers \ {w} : writing'[v] = writing[v]
  BY <1>3, <1>5 DEF DiskTyped
<1>7. HeapTyped' /\ PromptsTyped' /\ Len(heap) <= Len(heap')
  BY <1>1, <1>3, <1>5 DEF HeapTyped, HeapIsList, PromptsTyped, NothingVanishes
<1>8. PICK j \in Jobs : /\ job' = [job EXCEPT ![w] = j] /\ j.stage = "raw"
                        /\ j.op = job[w].op /\ j.prompt = job[w].prompt
                        /\ j.parent = job[w].parent /\ j.art = job[w].art
  BY <1>1, NextStage
<1>9. JobInOrder(j)' /\ j.art \in 0 .. Len(heap') /\ Writes(j, NoFault) = b
  BY <1>1, <1>2, <1>4, <1>8 DEF JobInOrder, Known, Writes
<1>10. QED
  BY <1>5, <1>6, <1>7, <1>8, <1>9, PromptMove

LEMMA RawWrittenStep ==
  ASSUME StoreInv, NEW w \in Workers, fault[w] = NoFault, RawWritten(w), UNCHANGED faultVars
  PROVE  StoreInv'
<1>1. job[w].stage = "raw" /\ UNCHANGED <<heap, prompts>> /\ (EndWrite(w) \/ FailWrite(w))
  BY DEF RawWritten, Doing
<1>2. /\ job[w].op # "idle" /\ job[w].prompt \in Prompts /\ JobInOrder(job[w])
      /\ job[w].art \in 0 .. Len(heap)
  BY <1>1, JobFacts
<1>3. PICK b \in Blobs : b = job[w].prompt
  BY <1>2
<1>4. DiskTyped /\ QuietIsWhole /\ HeapTyped /\ PromptsTyped /\ writing[w] = b
  BY <1>1, <1>3, StoreParts DEF Parts, WorkersInOrder, Writes
<1>5. /\ DiskTyped' /\ QuietIsWhole' /\ NothingVanishes /\ writing' = [writing EXCEPT ![w] = None]
      /\ EndWrite(w) => Exists(b)'
  BY <1>1, <1>4, EndMove
<1>6. writing'[w] = None /\ \A v \in Workers \ {w} : writing'[v] = writing[v]
  BY <1>4, <1>5 DEF DiskTyped
<1>7. HeapTyped' /\ PromptsTyped' /\ Len(heap) <= Len(heap')
  BY <1>1, <1>4, <1>5 DEF HeapTyped, HeapIsList, PromptsTyped, NothingVanishes
<1>8. CASE EndWrite(w) /\ Goto(w, "install")
  <2>1. PICK j \in Jobs : /\ job' = [job EXCEPT ![w] = j] /\ j.stage = "install"
                          /\ j.op = job[w].op /\ j.prompt = job[w].prompt
                          /\ j.parent = job[w].parent /\ j.art = job[w].art
    BY <1>8, NextStage
  <2>2. JobInOrder(j)' /\ j.art \in 0 .. Len(heap') /\ Writes(j, NoFault) = None
    BY <1>1, <1>2, <1>3, <1>5, <1>8, <2>1, NoFaultWrites DEF JobInOrder, Known
  <2>3. QED
    BY <1>5, <1>6, <1>7, <2>1, <2>2, PromptMove
<1>9. CASE Finish(w)
  <2>1. job' = [job EXCEPT ![w] = Idle] /\ Len(heap) \in Nat
    BY <1>4, <1>9 DEF Finish, HeapTyped, HeapIsList
  <2>2. JobInOrder(Idle)' /\ Writes(Idle, NoFault) = None
    BY IdleJob, NoFaultWrites DEF JobInOrder, Idle, Known
  <2>3. Idle \in Jobs /\ Idle.art \in 0 .. Len(heap')
    BY <1>1, <2>1, IdleJob
  <2>4. QED
    BY <1>5, <1>6, <1>7, <2>1, <2>2, <2>3, PromptMove
<1>10. QED
  BY <1>8, <1>9 DEF RawWritten
-----------------------------------------------------------------------------
(* The artifacts. *)

LEMMA AsSequence ==
  ASSUME NEW S, NEW n \in Nat, NEW s \in [1 .. n -> S]
  PROVE  s \in Seq(S) /\ Len(s) = n
OBVIOUS

LEMMA AppendFacts ==
  ASSUME NEW S, NEW s \in Seq(S), NEW e \in S
  PROVE  /\ Append(s, e) \in [1 .. Len(s) + 1 -> S] /\ Len(Append(s, e)) = Len(s) + 1
         /\ Append(s, e)[Len(s) + 1] = e /\ \A i \in 1 .. Len(s) : Append(s, e)[i] = s[i]
<1>1. Append(s, e) \in Seq(S) /\ Len(Append(s, e)) = Len(s) + 1
  OBVIOUS
<1>2. \A t \in Seq(S) : t \in [1 .. Len(t) -> S]
  OBVIOUS
<1>3. Append(s, e)[Len(s) + 1] = e /\ \A i \in 1 .. Len(s) : Append(s, e)[i] = s[i]
  OBVIOUS
<1>4. Append(s, e) \in [1 .. Len(Append(s, e)) -> S]
  BY <1>1, <1>2
<1>5. QED
  BY <1>1, <1>3, <1>4

\* The heap is a sequence.
LEMMA HeapAsSequence ==
  ASSUME HeapIsList
  PROVE  heap \in Seq({heap[a] : a \in 1 .. Len(heap)})
<1> DEFINE S == {heap[a] : a \in 1 .. Len(heap)}
<1>1. heap \in [1 .. Len(heap) -> S] /\ Len(heap) \in Nat
  BY DEF HeapIsList
<1>2. QED
  BY <1>1, AsSequence

\* Another artifact.
LEMMA HeapGrows ==
  ASSUME HeapTyped, NEW p \in Prompts,
         heap' = Append(heap, [prompt |-> p, parent |-> None, deltas |-> <<>>])
  PROVE  HeapTyped' /\ Len(heap') = Len(heap) + 1
<1> DEFINE e == [prompt |-> p, parent |-> None, deltas |-> <<>>]
           S == {heap[a] : a \in 1 .. Len(heap)}
           T == S \cup {e}
           n == Len(heap)
<1>1. heap \in Seq(S) /\ n \in Nat
  BY HeapAsSequence DEF HeapTyped, HeapIsList
<1>2. /\ e.prompt = p /\ e.parent = None
      /\ e = [prompt |-> e.prompt, parent |-> e.parent, deltas |-> e.deltas]
  OBVIOUS
<1>3. /\ heap' = Append(heap, e) /\ e \in T /\ S \subseteq T
  OBVIOUS
<1> HIDE DEF e, S, T
<1>4. heap \in Seq(T)
  BY <1>1, <1>3
<1>5. /\ Len(heap') = n + 1 /\ heap'[n + 1] = e /\ \A a \in 1 .. n : heap'[a] = heap[a]
      /\ DOMAIN heap' = 1 .. n + 1 /\ heap' \in [1 .. n + 1 -> T]
  <2>1. e \in T
    BY <1>3
  <2>2. Append(heap, e) \in [1 .. n + 1 -> T] /\ Len(Append(heap, e)) = n + 1
        /\ Append(heap, e)[n + 1] = e /\ \A a \in 1 .. n : Append(heap, e)[a] = heap[a]
    BY <1>4, <2>1, AppendFacts
  <2>3. QED
    BY <1>3, <2>2
<1>6. \A a \in 1 .. n : heap[a] = [prompt |-> heap[a].prompt, parent |-> heap[a].parent,
                                   deltas |-> heap[a].deltas]
  BY DEF HeapTyped, HeapIsList
<1>7. \A a \in 1 .. n + 1 : heap'[a] = [prompt |-> heap'[a].prompt, parent |-> heap'[a].parent,
                                        deltas |-> heap'[a].deltas]
  <2>1. SUFFICES ASSUME NEW a \in 1 .. n + 1
                 PROVE  heap'[a] = [prompt |-> heap'[a].prompt, parent |-> heap'[a].parent,
                                    deltas |-> heap'[a].deltas]
    OBVIOUS
  <2>2. CASE a = n + 1
    BY <1>2, <1>5, <2>2
  <2>3. CASE a # n + 1
    <3>1. a \in 1 .. n
      BY <1>1, <2>1, <2>3
    <3>2. QED
      BY <1>5, <1>6, <3>1
  <2>4. QED
    BY <2>2, <2>3
<1>8. HeapIsList'
  BY <1>1, <1>5, <1>7 DEF HeapIsList
<1>9. \A a \in 1 .. n + 1 : heap'[a].prompt \in Prompts /\ heap'[a].parent \in Prompts \cup {None}
  <2>1. SUFFICES ASSUME NEW a \in 1 .. n + 1
                 PROVE  heap'[a].prompt \in Prompts /\ heap'[a].parent \in Prompts \cup {None}
    OBVIOUS
  <2>2. CASE a = n + 1
    BY <1>2, <1>5, <2>2
  <2>3. CASE a # n + 1
    <3>1. a \in 1 .. n
      BY <1>1, <2>1, <2>3
    <3>2. QED
      BY <1>5, <3>1 DEF HeapTyped, HeapIsList
  <2>4. QED
    BY <2>2, <2>3
<1>10. QED
  BY <1>5, <1>8, <1>9 DEF HeapTyped

\* An artifact changes.
LEMMA HeapChanges ==
  ASSUME HeapTyped, NEW a \in DOMAIN heap, NEW p \in Prompts, NEW q \in Prompts \cup {None}, NEW d,
         heap' = [heap EXCEPT ![a] = [prompt |-> p, parent |-> q, deltas |-> d]]
  PROVE  HeapTyped' /\ Len(heap') = Len(heap)
<1> DEFINE e == [prompt |-> p, parent |-> q, deltas |-> d]
           T == {heap[b] : b \in 1 .. Len(heap)} \cup {e}
           n == Len(heap)
<1>1. n \in Nat /\ DOMAIN heap = 1 .. n /\ heap \in [1 .. n -> T]
  BY DEF HeapTyped, HeapIsList
<1>2. e.prompt = p /\ e.parent = q /\ e = [prompt |-> e.prompt, parent |-> e.parent, deltas |-> e.deltas]
  OBVIOUS
<1>3. heap' = [heap EXCEPT ![a] = e] /\ e \in T
  OBVIOUS
<1> HIDE DEF e, T
<1>4. heap' \in [1 .. n -> T] /\ \A b \in 1 .. n : heap'[b] = IF b = a THEN e ELSE heap[b]
  BY <1>1, <1>3
<1>5. Len(heap') = n /\ DOMAIN heap' = 1 .. n /\ heap' = [b \in 1 .. n |-> heap'[b]]
  <2>1. heap' \in Seq(T) /\ Len(heap') = n
    BY <1>1, <1>4, AsSequence
  <2>2. QED
    BY <1>4, <2>1
<1>6. \A b \in 1 .. n : heap[b] = [prompt |-> heap[b].prompt, parent |-> heap[b].parent,
                                   deltas |-> heap[b].deltas]
  BY DEF HeapTyped, HeapIsList
<1>7. \A b \in 1 .. n : heap'[b] = [prompt |-> heap'[b].prompt, parent |-> heap'[b].parent,
                                    deltas |-> heap'[b].deltas]
  BY <1>2, <1>4, <1>6
<1>8. \A b \in 1 .. n : heap'[b].prompt \in Prompts /\ heap'[b].parent \in Prompts \cup {None}
  BY <1>1, <1>2, <1>4 DEF HeapTyped
<1>9. HeapIsList'
  BY <1>1, <1>5, <1>7 DEF HeapIsList
<1>10. QED
  BY <1>5, <1>8, <1>9 DEF HeapTyped

LEMMA ArtifactFields ==
  ASSUME HeapTyped, NEW a \in DOMAIN heap
  PROVE  /\ heap[a] = [prompt |-> heap[a].prompt, parent |-> heap[a].parent, deltas |-> heap[a].deltas]
         /\ heap[a].prompt \in Prompts /\ heap[a].parent \in Prompts \cup {None}
BY DEF HeapTyped, HeapIsList

\* A step that moves the job on and leaves the files alone, while artifacts change.
LEMMA ArtifactMove ==
  ASSUME StoreInv, NEW w \in Workers, NEW j \in Jobs, fault[w] = NoFault,
         job' = [job EXCEPT ![w] = j], UNCHANGED blobVars, UNCHANGED faultVars,
         job[w].stage # "raw", j.stage # "raw", JobInOrder(j)', j.art \in 0 .. Len(heap'),
         HeapTyped', PromptsTyped', Len(heap) <= Len(heap')
  PROVE  StoreInv'
<1>1. DiskTyped' /\ QuietIsWhole' /\ NothingVanishes
  BY SameFiles, StoreParts DEF Parts
<1>2. writing'[w] = Writes(j, NoFault) /\ \A v \in Workers \ {w} : writing'[v] = writing[v]
  BY NothingWritten, NoFaultWrites DEF blobVars
<1>3. QED
  BY <1>1, <1>2, PromptMove

LEMMA InstallStep ==
  ASSUME StoreInv, NEW w \in Workers, fault[w] = NoFault, Install(w), UNCHANGED faultVars
  PROVE  StoreInv'
<1>1. HeapTyped /\ PromptsTyped /\ job \in [Workers -> Jobs]
  BY StoreParts DEF Parts, WorkersInOrder
<1>2. /\ job[w].stage = "install" /\ UNCHANGED blobVars
      /\ heap' = Append(heap, [prompt |-> job[w].prompt, parent |-> None, deltas |-> <<>>])
      /\ prompts' = [prompts EXCEPT ![job[w].prompt] = Len(heap')]
  BY DEF Install, Doing
<1>3. PICK i \in Jobs : i = job[w]
  BY <1>1
<1>4. /\ i.prompt \in Prompts /\ i.op \in {"store", "delta"} /\ Exists(i.prompt)
      /\ i.op = "delta" => i.parent \in Prompts
  BY <1>2, <1>3, JobFacts DEF JobInOrder, Jobs, Known
<1>5. HeapTyped' /\ Len(heap') = Len(heap) + 1 /\ Len(heap) \in Nat /\ DOMAIN heap' = 1 .. Len(heap')
  BY <1>1, <1>2, <1>3, <1>4, HeapGrows DEF HeapTyped, HeapIsList
<1>6. PICK n \in Nat : n = Len(heap')
  BY <1>5
<1>7. PICK j : j = IF i.op = "store" THEN Idle ELSE [i EXCEPT !.stage = "parent", !.art = n]
  OBVIOUS
<1>8. job' = [job EXCEPT ![w] = j]
  BY <1>3, <1>6, <1>7 DEF Install
<1>9. \A b \in Blobs : Exists(b)' <=> Exists(b)
  BY <1>2 DEF blobVars, Exists
<1>10. PromptsTyped'
  <2>1. prompts' \in [Prompts -> 0 .. Len(heap')]
    BY <1>1, <1>2, <1>3, <1>4, <1>5 DEF PromptsTyped
  <2>2. \A p \in Prompts : p # i.prompt => prompts'[p] = prompts[p]
    BY <1>1, <1>2, <1>3 DEF PromptsTyped
  <2>3. QED
    BY <1>1, <1>4, <1>9, <2>1, <2>2 DEF PromptsTyped
<1>11. j \in Jobs /\ j.stage # "raw" /\ JobInOrder(j)' /\ j.art \in 0 .. Len(heap')
  <2>1. CASE i.op = "store"
    BY <1>5, <1>7, <2>1, IdleJob DEF JobInOrder, Idle, Known
  <2>2. CASE i.op = "delta"
    <3>1. /\ j \in Jobs /\ j.stage = "parent" /\ j.art = n /\ j.op = "delta"
          /\ j.prompt = i.prompt /\ j.parent = i.parent
      BY <1>7, <2>2 DEF Jobs, Known
    <3>2. Exists(j.prompt)' /\ n \in DOMAIN heap' /\ n \in 0 .. Len(heap')
      BY <1>4, <1>5, <1>6, <1>9, <3>1
    <3>3. QED
      BY <1>4, <2>2, <3>1, <3>2 DEF JobInOrder
  <2>3. QED
    BY <1>4, <2>1, <2>2
<1>12. UNCHANGED blobVars /\ job[w].stage # "raw" /\ Len(heap) <= Len(heap')
  BY <1>2, <1>5
<1>13. QED
  BY <1>5, <1>8, <1>10, <1>11, <1>12, ArtifactMove

LEMMA SetParentStep ==
  ASSUME StoreInv, NEW w \in Workers, fault[w] = NoFault, SetParent(w), UNCHANGED faultVars
  PROVE  StoreInv'
<1>1. HeapTyped /\ PromptsTyped /\ job \in [Workers -> Jobs]
  BY StoreParts DEF Parts, WorkersInOrder
<1>2. /\ job[w].stage = "parent" /\ UNCHANGED <<blobVars, prompts>> /\ Goto(w, "deltas")
      /\ heap' = [heap EXCEPT ![job[w].art].parent = job[w].parent]
  BY DEF SetParent, Doing
<1>3. /\ job[w].art \in DOMAIN heap /\ job[w].op = "delta" /\ job[w].parent \in Prompts
      /\ job[w].prompt \in Prompts /\ Exists(job[w].prompt) /\ job[w].art \in 0 .. Len(heap)
  BY <1>2, JobFacts DEF JobInOrder, Known
<1>4. PICK a \in DOMAIN heap, q \in Prompts : a = job[w].art /\ q = job[w].parent
  BY <1>3
<1>5. heap' = [heap EXCEPT ![a] = [prompt |-> heap[a].prompt, parent |-> q, deltas |-> heap[a].deltas]]
  <2>1. heap[a] = [prompt |-> heap[a].prompt, parent |-> heap[a].parent, deltas |-> heap[a].deltas]
    BY <1>1, ArtifactFields
  <2>2. [heap[a] EXCEPT !.parent = q] = [prompt |-> heap[a].prompt, parent |-> q, deltas |-> heap[a].deltas]
    BY <2>1
  <2>3. QED
    BY <1>2, <1>4, <2>2
<1>6. HeapTyped' /\ Len(heap') = Len(heap) /\ DOMAIN heap' = DOMAIN heap /\ Len(heap) \in Nat
  BY <1>1, <1>5, ArtifactFields, HeapChanges DEF HeapTyped, HeapIsList
<1>7. PICK j \in Jobs : /\ job' = [job EXCEPT ![w] = j] /\ j.stage = "deltas"
                        /\ j.op = job[w].op /\ j.prompt = job[w].prompt
                        /\ j.parent = job[w].parent /\ j.art = job[w].art
  BY <1>2, NextStage
<1>8. JobInOrder(j)'
  BY <1>2, <1>3, <1>6, <1>7 DEF JobInOrder, Exists, blobVars
<1>9. PromptsTyped'
  BY <1>1, <1>2, <1>6 DEF PromptsTyped, Exists, blobVars
<1>10. /\ UNCHANGED blobVars /\ job[w].stage # "raw" /\ j.stage # "raw"
       /\ Len(heap) <= Len(heap') /\ j.art \in 0 .. Len(heap')
  BY <1>2, <1>3, <1>6, <1>7
<1>11. QED
  BY <1>6, <1>7, <1>8, <1>9, <1>10, ArtifactMove

LEMMA SetDeltasStep ==
  ASSUME StoreInv, NEW w \in Workers, fault[w] = NoFault, SetDeltas(w), UNCHANGED faultVars
  PROVE  StoreInv'
<1>1. HeapTyped /\ PromptsTyped /\ job \in [Workers -> Jobs]
  BY StoreParts DEF Parts, WorkersInOrder
<1>2. PICK d : /\ job[w].stage = "deltas" /\ UNCHANGED <<blobVars, prompts>> /\ Goto(w, "reinstall")
               /\ heap' = [heap EXCEPT ![job[w].art].deltas = d]
  BY DEF SetDeltas, Doing
<1>3. /\ job[w].art \in DOMAIN heap /\ job[w].op = "delta" /\ job[w].parent \in Prompts
      /\ job[w].prompt \in Prompts /\ Exists(job[w].prompt) /\ job[w].art \in 0 .. Len(heap)
  BY <1>2, JobFacts DEF JobInOrder, Known
<1>4. PICK a \in DOMAIN heap : a = job[w].art
  BY <1>3
<1>5. heap' = [heap EXCEPT ![a] = [prompt |-> heap[a].prompt, parent |-> heap[a].parent, deltas |-> d]]
  <2>1. heap[a] = [prompt |-> heap[a].prompt, parent |-> heap[a].parent, deltas |-> heap[a].deltas]
    BY <1>1, ArtifactFields
  <2>2. [heap[a] EXCEPT !.deltas = d] = [prompt |-> heap[a].prompt, parent |-> heap[a].parent, deltas |-> d]
    BY <2>1
  <2>3. QED
    BY <1>2, <1>4, <2>2
<1>6. HeapTyped' /\ Len(heap') = Len(heap) /\ DOMAIN heap' = DOMAIN heap /\ Len(heap) \in Nat
  BY <1>1, <1>5, ArtifactFields, HeapChanges DEF HeapTyped, HeapIsList
<1>7. PICK j \in Jobs : /\ job' = [job EXCEPT ![w] = j] /\ j.stage = "reinstall"
                        /\ j.op = job[w].op /\ j.prompt = job[w].prompt
                        /\ j.parent = job[w].parent /\ j.art = job[w].art
  BY <1>2, NextStage
<1>8. JobInOrder(j)'
  BY <1>2, <1>3, <1>6, <1>7 DEF JobInOrder, Exists, blobVars
<1>9. PromptsTyped'
  BY <1>1, <1>2, <1>6 DEF PromptsTyped, Exists, blobVars
<1>10. /\ UNCHANGED blobVars /\ job[w].stage # "raw" /\ j.stage # "raw"
       /\ Len(heap) <= Len(heap') /\ j.art \in 0 .. Len(heap')
  BY <1>2, <1>3, <1>6, <1>7
<1>11. QED
  BY <1>6, <1>7, <1>8, <1>9, <1>10, ArtifactMove

LEMMA ReinstallStep ==
  ASSUME StoreInv, NEW w \in Workers, fault[w] = NoFault, Reinstall(w), UNCHANGED faultVars
  PROVE  StoreInv'
<1>1. HeapTyped /\ PromptsTyped
  BY StoreParts DEF Parts
<1>2. /\ job[w].stage = "reinstall" /\ UNCHANGED <<blobVars, heap>>
      /\ prompts' = [prompts EXCEPT ![job[w].prompt] = job[w].art]
      /\ job' = [job EXCEPT ![w] = Idle]
  BY DEF Reinstall, Doing, Finish
<1>3. PICK p \in Prompts : p = job[w].prompt
  BY <1>2, JobFacts
<1>4. Exists(p) /\ job[w].art \in 0 .. Len(heap)
  BY <1>2, <1>3, JobFacts DEF JobInOrder, Known
<1>5. \A b \in Blobs : Exists(b)' <=> Exists(b)
  BY <1>2 DEF blobVars, Exists
<1>6. PromptsTyped'
  <2>1. prompts' \in [Prompts -> 0 .. Len(heap')]
    BY <1>1, <1>2, <1>3, <1>4 DEF PromptsTyped
  <2>2. \A q \in Prompts : q # p => prompts'[q] = prompts[q]
    BY <1>1, <1>2, <1>3 DEF PromptsTyped
  <2>3. QED
    BY <1>1, <1>4, <1>5, <2>1, <2>2 DEF PromptsTyped
<1>7. HeapTyped' /\ Len(heap') = Len(heap) /\ Len(heap) \in Nat
  BY <1>1, <1>2 DEF HeapTyped, HeapIsList
<1>8. JobInOrder(Idle)'
  BY IdleJob DEF JobInOrder, Idle, Known
<1>9. Idle.art \in 0 .. Len(heap') /\ Idle \in Jobs /\ Idle.stage # "raw"
  BY <1>7, IdleJob
<1>10. job[w].stage # "raw" /\ Len(heap) <= Len(heap')
  BY <1>2, <1>7
<1>11. UNCHANGED blobVars /\ job' = [job EXCEPT ![w] = Idle]
  BY <1>2
<1>12. QED
  BY <1>6, <1>7, <1>8, <1>9, <1>10, <1>11, ArtifactMove

LEMMA PromptCallStep ==
  ASSUME StoreInv, NEW w \in Workers, PromptCall(w)
  PROVE  StoreInv'
<1>1. fault[w] = NoFault /\ UNCHANGED faultVars /\ PromptStep(w)
  BY DEF PromptCall
<1>2. CASE \E p \in Prompts : Store(w, p)
  <2>1. PICK p \in Prompts : Store(w, p)
    BY <1>2
  <2>2. QED
    BY <1>1, <2>1, LookupStep DEF Store
<1>3. CASE \E p \in Prompts, q \in Prompts : StoreDelta(w, p, q)
  <2>1. PICK p \in Prompts, q \in Prompts : StoreDelta(w, p, q)
    BY <1>3
  <2>2. QED
    BY <1>1, <2>1, LookupStep DEF StoreDelta
<1>4. QED
  BY <1>1, <1>2, <1>3, PutRawStep, CreateRawStep, RawWrittenStep, InstallStep, SetParentStep,
     SetDeltasStep, ReinstallStep DEF PromptStep
-----------------------------------------------------------------------------
(* Counting. *)

\* Sets that are the same but for one element.
LEMMA OneApart ==
  ASSUME NEW S, NEW T, NEW x, IsFiniteSet(S), S \ {x} = T \ {x}
  PROVE  /\ IsFiniteSet(T) /\ Cardinality(S) \in Nat /\ Cardinality(T) \in Nat
         /\ Cardinality(T) = Cardinality(S) - (IF x \in S THEN 1 ELSE 0) + (IF x \in T THEN 1 ELSE 0)
<1> DEFINE R == S \ {x}
<1>1. /\ IsFiniteSet(R) /\ Cardinality(R) = Cardinality(S) - (IF x \in S THEN 1 ELSE 0)
      /\ Cardinality(S) \in Nat
  BY FS_RemoveElement, FS_CardinalityType
<1>2. T = IF x \in T THEN R \cup {x} ELSE R
  OBVIOUS
<1>3. x \notin R
  OBVIOUS
<1> HIDE DEF R
<1>4. IsFiniteSet(R \cup {x}) /\ Cardinality(R \cup {x}) = Cardinality(R) + 1
  BY <1>1, <1>3, FS_AddElement
<1>5. Cardinality(R) \in Nat
  BY <1>1, FS_CardinalityType
<1>6. CASE x \in T
  <2>1. T = R \cup {x}
    BY <1>2, <1>6
  <2>2. QED
    BY <1>1, <1>4, <1>5, <1>6, <2>1
<1>7. CASE x \notin T
  <2>1. T = R
    BY <1>2, <1>7
  <2>2. QED
    BY <1>1, <1>5, <1>7, <2>1
<1>8. QED
  BY <1>6, <1>7

Row(x, n) == {x} \X (1 .. n)

LEMMA RowSize ==
  ASSUME NEW x, NEW n \in Nat
  PROVE  IsFiniteSet(Row(x, n)) /\ Cardinality(Row(x, n)) = n
<1> DEFINE F == [i \in 1 .. n |-> <<x, i>>]
<1>1. F \in Bijection(1 .. n, Row(x, n))
  <2>1. F \in [1 .. n -> Row(x, n)]
    BY DEF Row
  <2>2. \A i, j \in 1 .. n : F[i] = F[j] => i = j
    OBVIOUS
  <2>3. \A r \in Row(x, n) : \E i \in 1 .. n : F[i] = r
    BY DEF Row
  <2>4. QED
    BY <2>1, <2>2, <2>3 DEF Bijection, Injection, Surjection, IsInjective
<1>2. ExistsBijection(1 .. n, Row(x, n))
  BY <1>1 DEF ExistsBijection
<1>3. IsFiniteSet(1 .. n) /\ Cardinality(1 .. n) = n
  BY FS_Interval
<1>4. QED
  BY <1>2, <1>3, FS_Bijection

\* Sets of rows that are the same but for one row.
RowApart(S, T, x, n, k) ==
  \E R : /\ S = R \cup Row(x, n) /\ T = R \cup Row(x, k)
         /\ \A r \in R : r \notin Row(x, n) /\ r \notin Row(x, k)

LEMMA OneRowApart ==
  ASSUME NEW S, NEW T, NEW x, NEW n \in Nat, NEW k \in Nat, IsFiniteSet(S),
         RowApart(S, T, x, n, k)
  PROVE  /\ IsFiniteSet(T) /\ Cardinality(S) \in Nat /\ Cardinality(T) \in Nat
         /\ Cardinality(T) = Cardinality(S) - n + k
<1>0. PICK R : /\ S = R \cup Row(x, n) /\ T = R \cup Row(x, k)
               /\ \A r \in R : r \notin Row(x, n) /\ r \notin Row(x, k)
  BY DEF RowApart
<1>1. IsFiniteSet(R) /\ Cardinality(S) \in Nat
  <2>1. R \in SUBSET S
    BY <1>0
  <2>2. QED
    BY <2>1, FS_Subset, FS_CardinalityType
<1>2. Cardinality(R) \in Nat
  BY <1>1, FS_CardinalityType
<1>3. /\ IsFiniteSet(Row(x, n)) /\ Cardinality(Row(x, n)) = n
      /\ IsFiniteSet(Row(x, k)) /\ Cardinality(Row(x, k)) = k
  BY RowSize
<1>4. Cardinality(R \cap Row(x, n)) = 0 /\ Cardinality(R \cap Row(x, k)) = 0
  <2>1. R \cap Row(x, n) = {} /\ R \cap Row(x, k) = {}
    BY <1>0
  <2>2. QED
    BY <2>1, FS_EmptySet
<1>5. Cardinality(S) = Cardinality(R) + Cardinality(Row(x, n)) - Cardinality(R \cap Row(x, n))
  BY <1>0, <1>1, <1>3, FS_Union
<1>6. /\ IsFiniteSet(T)
      /\ Cardinality(T) = Cardinality(R) + Cardinality(Row(x, k)) - Cardinality(R \cap Row(x, k))
  BY <1>0, <1>1, <1>3, FS_Union
<1>7. QED
  BY <1>1, <1>2, <1>3, <1>4, <1>5, <1>6

\* What a fault f adds to the three sets of a mission.
Enters(f, m) == IF f.stage = "enter" /\ f.mission = m THEN 1 ELSE 0
Served == {"put", "create", "write", "log"}
Serves(f, m) == IF f.stage \in Served /\ f.mission = m THEN 1 ELSE 0
Owes(f, m) == IF f.stage = "log" /\ f.mission = m THEN f.size ELSE 0

\* The set of a mission's faults in some stages when one goroutine's fault changes.
LEMMA SetsMove ==
  ASSUME fault \in [Workers -> Faults], NEW w \in Workers, NEW f \in Faults,
         fault' = [fault EXCEPT ![w] = f], NEW m \in Missions
  PROVE  /\ Cardinality(Entering(m)) \in Nat /\ Cardinality(Entering(m)') \in Nat
         /\ Cardinality(Serving(m)) \in Nat /\ Cardinality(Serving(m)') \in Nat
         /\ Cardinality(Entering(m)') = Cardinality(Entering(m)) - Enters(fault[w], m) + Enters(f, m)
         /\ Cardinality(Serving(m)') = Cardinality(Serving(m)) - Serves(fault[w], m) + Serves(f, m)
         /\ Cardinality(Entering(m)') <= Cardinality(Workers) /\ Cardinality(Workers) \in Nat
<1>1. IsFiniteSet(Workers)
  OBVIOUS
<1>2. \A v \in Workers : fault'[v] = IF v = w THEN f ELSE fault[v]
  OBVIOUS
<1>3. /\ Entering(m) \in SUBSET Workers /\ Entering(m)' \in SUBSET Workers
      /\ Serving(m) \in SUBSET Workers
  BY DEF Entering, Serving
<1>4. IsFiniteSet(Entering(m)) /\ IsFiniteSet(Serving(m))
  BY <1>1, <1>3, FS_Subset
<1>5. /\ Entering(m) \ {w} = Entering(m)' \ {w}
      /\ w \in Entering(m) <=> fault[w].stage = "enter" /\ fault[w].mission = m
      /\ w \in Entering(m)' <=> f.stage = "enter" /\ f.mission = m
  BY <1>2 DEF Entering, Faulting
<1>6. /\ Serving(m) \ {w} = Serving(m)' \ {w}
      /\ w \in Serving(m) <=> fault[w].stage \in Served /\ fault[w].mission = m
      /\ w \in Serving(m)' <=> f.stage \in Served /\ f.mission = m
  BY <1>2 DEF Serving, Served
<1>7. /\ Cardinality(Entering(m)) \in Nat /\ Cardinality(Entering(m)') \in Nat
      /\ Cardinality(Entering(m)') = Cardinality(Entering(m)) - (IF w \in Entering(m) THEN 1 ELSE 0)
                                     + (IF w \in Entering(m)' THEN 1 ELSE 0)
  BY <1>4, <1>5, OneApart
<1>8. /\ Cardinality(Serving(m)) \in Nat /\ Cardinality(Serving(m)') \in Nat
      /\ Cardinality(Serving(m)') = Cardinality(Serving(m)) - (IF w \in Serving(m) THEN 1 ELSE 0)
                                     + (IF w \in Serving(m)' THEN 1 ELSE 0)
  BY <1>4, <1>6, OneApart
<1>9. Cardinality(Entering(m)') <= Cardinality(Workers) /\ Cardinality(Workers) \in Nat
  BY <1>1, <1>3, FS_Subset, FS_CardinalityType
<1>10. QED
  BY <1>5, <1>6, <1>7, <1>8, <1>9 DEF Enters, Serves

LEMMA RowsMove ==
  ASSUME fault \in [Workers -> Faults], NEW w \in Workers, NEW f \in Faults,
         fault' = [fault EXCEPT ![w] = f], NEW m \in Missions, IsFiniteSet(Unlogged(m))
  PROVE  /\ IsFiniteSet(Unlogged(m)') /\ Cardinality(Unlogged(m)) \in Nat
         /\ Cardinality(Unlogged(m)') \in Nat
         /\ Cardinality(Unlogged(m)') = Cardinality(Unlogged(m)) - Owes(fault[w], m) + Owes(f, m)
<1>1. \A v \in Workers : fault'[v] = IF v = w THEN f ELSE fault[v]
  OBVIOUS
<1>2. PICK R : R = UNION {{v} \X (1 .. fault[v].size) :
                            v \in {x \in Serving(m) \ {w} : Faulting(x, "log")}}
  OBVIOUS
<1>3. PICK n \in Nat, k \in Nat : n = Owes(fault[w], m) /\ k = Owes(f, m)
  BY DEF Owes, Faults
<1>4. Unlogged(m) = R \cup Row(w, n)
  <2>1. CASE fault[w].stage = "log" /\ fault[w].mission = m
    BY <1>2, <1>3, <2>1 DEF Unlogged, Row, Owes, Serving, Faulting
  <2>2. CASE ~(fault[w].stage = "log" /\ fault[w].mission = m)
    <3>1. n = 0 /\ Row(w, n) = {}
      BY <1>3, <2>2 DEF Owes, Row
    <3>2. {x \in Serving(m) : Faulting(x, "log")} = {x \in Serving(m) \ {w} : Faulting(x, "log")}
      BY <2>2 DEF Serving, Faulting
    <3>3. QED
      BY <1>2, <3>1, <3>2 DEF Unlogged
  <2>3. QED
    BY <2>1, <2>2
<1>5. Unlogged(m)' = R \cup Row(w, k)
  <2>1. R = UNION {{v} \X (1 .. fault'[v].size) :
                     v \in {x \in Serving(m)' \ {w} : fault'[x].stage = "log"}}
    <3>1. {x \in Serving(m)' \ {w} : fault'[x].stage = "log"} = {x \in Serving(m) \ {w} : Faulting(x, "log")}
      BY <1>1 DEF Serving, Faulting
    <3>2. \A v \in {x \in Serving(m) \ {w} : Faulting(x, "log")} : fault'[v].size = fault[v].size
      BY <1>1 DEF Serving
    <3>3. QED
      BY <1>2, <3>1, <3>2
  <2>2. Unlogged(m)' = UNION {{v} \X (1 .. fault'[v].size) :
                                v \in {x \in Serving(m)' : fault'[x].stage = "log"}}
    BY DEF Unlogged, Faulting
  <2>3. CASE f.stage = "log" /\ f.mission = m
    <3>1. w \in Serving(m)' /\ fault'[w].stage = "log" /\ fault'[w].size = k
      BY <1>1, <1>3, <2>3 DEF Serving, Owes
    <3>2. QED
      BY <2>1, <2>2, <3>1 DEF Row
  <2>4. CASE ~(f.stage = "log" /\ f.mission = m)
    <3>1. k = 0 /\ Row(w, k) = {}
      BY <1>3, <2>4 DEF Owes, Row
    <3>2. {x \in Serving(m)' : fault'[x].stage = "log"} = {x \in Serving(m)' \ {w} : fault'[x].stage = "log"}
      BY <1>1, <2>4 DEF Serving
    <3>3. QED
      BY <2>1, <2>2, <3>1, <3>2
  <2>5. QED
    BY <2>3, <2>4
<1>6. \A r \in R : r \notin Row(w, n) /\ r \notin Row(w, k)
  BY <1>2 DEF Row
<1>7. RowApart(Unlogged(m), Unlogged(m)', w, n, k)
  BY <1>4, <1>5, <1>6 DEF RowApart
<1>8. QED
  BY <1>3, <1>7, OneRowApart

\* A step that changes w's fault from g to f keeps a mission's accounts when what it adds to
\* one side it adds to the other, or less and the mission has missed something.
Balanced(g, f, m) ==
  LET calls == logged[m].calls + Serves(g, m) + pfCount'[m]
      calls2 == logged'[m].calls + Serves(f, m) + pfCount[m]
      bytes == logged[m].bytes + Owes(g, m) + shardBytes'[m]
      bytes2 == logged'[m].bytes + Owes(f, m) + shardBytes[m]
  IN  /\ \/ pfCount'[m] + Enters(f, m) <= pfCount[m] + Enters(g, m)
         \/ pfCount'[m] = pfCount[m] /\ pfCount[m] < MaxPFCalls
      /\ calls2 <= calls /\ bytes2 <= bytes
      /\ m \notin missed' => calls2 = calls /\ bytes2 = bytes /\ m \notin missed

LEMMA Balance ==
  ASSUME NEW a \in Nat, NEW a2 \in Nat, NEW p \in Nat, NEW p2 \in Nat, NEW c \in Nat, NEW c2 \in Nat,
         NEW g \in Nat, NEW f \in Nat, c2 = c - g + f
  PROVE  /\ a + c <= p /\ a2 + f + p <= a + g + p2 => a2 + c2 <= p2
         /\ a + c = p /\ a2 + f + p = a + g + p2 => a2 + c2 = p2
OBVIOUS

LEMMA Accounts ==
  ASSUME StoreInv, NEW w \in Workers, NEW f \in Faults, fault' = [fault EXCEPT ![w] = f],
         CountersTyped', \A m \in Missions : Balanced(fault[w], f, m)
  PROVE  BudgetInv' /\ MeterInv'
<1>1. fault \in [Workers -> Faults] /\ CountersTyped /\ BudgetInv /\ MeterInv
  BY StoreParts DEF Parts, WorkersInOrder
<1>2. ASSUME NEW m \in Missions
      PROVE  pfCount'[m] + Cardinality(Entering(m)') <= MaxPFCalls + Cardinality(Workers) - 1
  <2>1. pfCount[m] \in Nat /\ pfCount'[m] \in Nat
    BY <1>1 DEF CountersTyped
  <2>2. pfCount[m] + Cardinality(Entering(m)) <= MaxPFCalls + Cardinality(Workers) - 1
    BY <1>1 DEF BudgetInv
  <2>3. Enters(f, m) \in Nat /\ Enters(fault[w], m) \in Nat
    BY DEF Enters
  <2>4. /\ Cardinality(Entering(m)) \in Nat /\ Cardinality(Entering(m)') \in Nat
        /\ Cardinality(Entering(m)') = Cardinality(Entering(m)) - Enters(fault[w], m) + Enters(f, m)
        /\ Cardinality(Entering(m)') <= Cardinality(Workers) /\ Cardinality(Workers) \in Nat
    BY <1>1, SetsMove
  <2>5. MaxPFCalls \in Nat
    OBVIOUS
  <2>6. \/ pfCount'[m] + Enters(f, m) <= pfCount[m] + Enters(fault[w], m)
        \/ pfCount'[m] = pfCount[m] /\ pfCount[m] < MaxPFCalls
    BY DEF Balanced
  <2>7. QED
    BY <2>1, <2>2, <2>3, <2>4, <2>5, <2>6, SMTT(40)
<1>3. ASSUME NEW m \in Missions
      PROVE  /\ IsFiniteSet(Unlogged(m)')
             /\ logged'[m].calls + Cardinality(Serving(m)') <= pfCount'[m]
             /\ logged'[m].bytes + Cardinality(Unlogged(m)') <= shardBytes'[m]
             /\ m \notin missed' => /\ logged'[m].calls + Cardinality(Serving(m)') = pfCount'[m]
                                    /\ logged'[m].bytes + Cardinality(Unlogged(m)') = shardBytes'[m]
  <2>1. /\ pfCount[m] \in Nat /\ pfCount'[m] \in Nat
        /\ shardBytes[m] \in Nat /\ shardBytes'[m] \in Nat
        /\ logged[m].calls \in Nat /\ logged'[m].calls \in Nat
        /\ logged[m].bytes \in Nat /\ logged'[m].bytes \in Nat
    BY <1>1 DEF CountersTyped
  <2>2. Serves(f, m) \in Nat /\ Serves(fault[w], m) \in Nat
    BY DEF Serves
  <2>3. Owes(f, m) \in Nat /\ Owes(fault[w], m) \in Nat
    <3>1. fault[w] \in Faults
      BY <1>1
    <3>2. QED
      BY <3>1 DEF Owes, Faults
  <2>4. /\ Cardinality(Serving(m)) \in Nat /\ Cardinality(Serving(m)') \in Nat
        /\ Cardinality(Serving(m)') = Cardinality(Serving(m)) - Serves(fault[w], m) + Serves(f, m)
    BY <1>1, SetsMove
  <2>5. /\ IsFiniteSet(Unlogged(m)) /\ logged[m].calls + Cardinality(Serving(m)) <= pfCount[m]
        /\ logged[m].bytes + Cardinality(Unlogged(m)) <= shardBytes[m]
        /\ m \notin missed => /\ logged[m].calls + Cardinality(Serving(m)) = pfCount[m]
                              /\ logged[m].bytes + Cardinality(Unlogged(m)) = shardBytes[m]
    BY <1>1 DEF MeterInv
  <2>6. /\ IsFiniteSet(Unlogged(m)') /\ Cardinality(Unlogged(m)) \in Nat
        /\ Cardinality(Unlogged(m)') \in Nat
        /\ Cardinality(Unlogged(m)') = Cardinality(Unlogged(m)) - Owes(fault[w], m) + Owes(f, m)
    BY <1>1, <2>5, RowsMove
  <2>7. /\ logged'[m].calls + Serves(f, m) + pfCount[m]
              <= logged[m].calls + Serves(fault[w], m) + pfCount'[m]
        /\ logged'[m].bytes + Owes(f, m) + shardBytes[m]
              <= logged[m].bytes + Owes(fault[w], m) + shardBytes'[m]
        /\ m \notin missed' =>
             /\ logged'[m].calls + Serves(f, m) + pfCount[m]
                  = logged[m].calls + Serves(fault[w], m) + pfCount'[m]
             /\ logged'[m].bytes + Owes(f, m) + shardBytes[m]
                  = logged[m].bytes + Owes(fault[w], m) + shardBytes'[m]
             /\ m \notin missed
    BY DEF Balanced
  <2>8. /\ logged'[m].calls + Cardinality(Serving(m)') <= pfCount'[m]
        /\ m \notin missed' => logged'[m].calls + Cardinality(Serving(m)') = pfCount'[m]
    <3>1. PICK a \in Nat, a2 \in Nat, p \in Nat, p2 \in Nat, c \in Nat, c2 \in Nat, g \in Nat, e \in Nat :
             /\ a = logged[m].calls /\ a2 = logged'[m].calls /\ p = pfCount[m] /\ p2 = pfCount'[m]
             /\ c = Cardinality(Serving(m)) /\ c2 = Cardinality(Serving(m)')
             /\ g = Serves(fault[w], m) /\ e = Serves(f, m)
      BY <2>1, <2>2, <2>4
    <3>2. /\ c2 = c - g + e /\ a + c <= p /\ a2 + e + p <= a + g + p2
          /\ m \notin missed' => a + c = p /\ a2 + e + p = a + g + p2
      BY <2>1, <2>2, <2>4, <2>5, <2>7, <3>1
    <3>3. a2 + c2 <= p2 /\ (m \notin missed' => a2 + c2 = p2)
      BY <3>2, Balance
    <3>4. QED
      BY <3>1, <3>3
  <2>9. /\ logged'[m].bytes + Cardinality(Unlogged(m)') <= shardBytes'[m]
        /\ m \notin missed' => logged'[m].bytes + Cardinality(Unlogged(m)') = shardBytes'[m]
    <3>1. PICK a \in Nat, a2 \in Nat, p \in Nat, p2 \in Nat, c \in Nat, c2 \in Nat, g \in Nat, e \in Nat :
             /\ a = logged[m].bytes /\ a2 = logged'[m].bytes /\ p = shardBytes[m] /\ p2 = shardBytes'[m]
             /\ c = Cardinality(Unlogged(m)) /\ c2 = Cardinality(Unlogged(m)')
             /\ g = Owes(fault[w], m) /\ e = Owes(f, m)
      BY <2>1, <2>3, <2>6
    <3>2. /\ c2 = c - g + e /\ a + c <= p /\ a2 + e + p <= a + g + p2
          /\ m \notin missed' => a + c = p /\ a2 + e + p = a + g + p2
      BY <2>1, <2>3, <2>6, <2>5, <2>7, <3>1
    <3>3. a2 + c2 <= p2 /\ (m \notin missed' => a2 + c2 = p2)
      BY <3>2, Balance
    <3>4. QED
      BY <3>1, <3>3
  <2>10. QED
    BY <2>6, <2>8, <2>9
<1>4. QED
  BY <1>2, <1>3 DEF BudgetInv, MeterInv
-----------------------------------------------------------------------------
(* The steps of a page fault. *)

LEMMA FaultFacts ==
  ASSUME StoreInv, NEW w \in Workers
  PROVE  /\ fault \in [Workers -> Faults] /\ fault[w] \in Faults /\ FaultInOrder(fault[w])
         /\ fault[w].todo \in Seq(Blobs) /\ fault[w].shards \in Seq(Blobs)
         /\ fault[w].counted \in Nat /\ fault[w].size \in Nat
         /\ fault[w].stage # "idle" => fault[w].mission \in Missions /\ fault[w].key \in Keys
BY StoreParts DEF Parts, WorkersInOrder, FaultInOrder, Faults

LEMMA IdleWrites ==
  ASSUME NEW f \in Faults
  PROVE  Writes(Idle, f) = IF f.stage = "write" THEN Head(f.todo) ELSE None
BY DEF Writes, Idle

\* A step of a page fault.
LEMMA FaultMove ==
  ASSUME StoreInv, NEW w \in Workers, NEW f \in Faults, Ready(w),
         fault' = [fault EXCEPT ![w] = f], UNCHANGED promptVars, FaultInOrder(f)',
         DiskTyped', QuietIsWhole', NothingVanishes,
         writing'[w] = Writes(Idle, f), \A v \in Workers \ {w} : writing'[v] = writing[v],
         CountersTyped', VersionsTyped', VersionsServed', BudgetInv', MeterInv'
  PROVE  StoreInv'
<1>1. WorkersInOrder /\ ArtsTyped /\ HeapTyped /\ PromptsTyped
  BY StoreParts DEF Parts
<1>2. HeapTyped' /\ PromptsTyped' /\ ArtsTyped' /\ Grows
  BY <1>1 DEF promptVars, HeapTyped, HeapIsList, PromptsTyped, ArtsTyped, Grows, NothingVanishes
<1>3. job \in [Workers -> Jobs] /\ job[w] = Idle
  BY <1>1 DEF WorkersInOrder, Ready
<1>4. Idle \in Jobs /\ job' = [job EXCEPT ![w] = Idle]
  BY <1>3, IdleJob DEF promptVars
<1>5. JobInOrder(Idle)'
  BY IdleJob DEF JobInOrder, Idle, Known
<1>6. WorkersInOrder'
  BY <1>1, <1>2, <1>4, <1>5, WorkerMove
<1>7. QED
  BY <1>2, <1>6, StoreParts DEF Parts

LEMMA IdleWriting ==
  ASSUME StoreInv, NEW w \in Workers, Ready(w), fault[w].stage # "write"
  PROVE  writing[w] = None
BY StoreParts, IdleJob DEF Parts, WorkersInOrder, Writes, Ready

\* A step of a page fault that leaves the files alone.
LEMMA DryFaultMove ==
  ASSUME StoreInv, NEW w \in Workers, NEW f \in Faults, Ready(w), UNCHANGED blobVars,
         fault' = [fault EXCEPT ![w] = f], UNCHANGED promptVars, FaultInOrder(f),
         fault[w].stage # "write", f.stage # "write",
         CountersTyped', VersionsTyped', VersionsServed', \A m \in Missions : Balanced(fault[w], f, m)
  PROVE  StoreInv'
<1>1. DiskTyped /\ QuietIsWhole
  BY StoreParts DEF Parts
<1>2. DiskTyped' /\ QuietIsWhole' /\ NothingVanishes
  BY <1>1, SameFiles
<1>3. FaultInOrder(f)'
  BY DEF FaultInOrder, Exists, blobVars
<1>4. writing'[w] = Writes(Idle, f) /\ \A v \in Workers \ {w} : writing'[v] = writing[v]
  BY IdleWriting, IdleWrites DEF blobVars
<1>5. BudgetInv' /\ MeterInv'
  BY Accounts
<1>6. QED
  BY <1>2, <1>3, <1>4, <1>5, FaultMove

LEMMA NoFaultFacts ==
  /\ NoFault \in Faults /\ NoFault.stage = "idle" /\ NoFault.shards = <<>>
  /\ NoFault.mission = None /\ FaultInOrder(NoFault)
BY DEF NoFault, Faults, FaultInOrder

LEMMA RequestStep ==
  ASSUME StoreInv, NEW w \in Workers, Ready(w), UNCHANGED promptVars, UNCHANGED blobVars,
         NEW m \in Missions, NEW k \in Keys, Request(w, m, k)
  PROVE  StoreInv'
<1>1. fault \in [Workers -> Faults] /\ CountersTyped /\ VersionsTyped /\ VersionsServed
  BY StoreParts DEF Parts, WorkersInOrder
<1>2. PICK f : f = [NoFault EXCEPT !.stage = "enter", !.mission = m, !.key = k]
  OBVIOUS
<1>3. fault' = [fault EXCEPT ![w] = f] /\ fault[w] = NoFault /\ pfCount[m] < MaxPFCalls
  BY <1>2 DEF Request, Free, WithinBudget
<1>4. /\ f \in Faults /\ f.stage = "enter" /\ f.mission = m /\ f.key = k /\ f.shards = <<>>
  <2>1. f = [stage |-> "enter", mission |-> m, key |-> k, todo |-> <<>>, shards |-> <<>>,
             counted |-> 0, size |-> 0]
    BY <1>2 DEF NoFault
  <2>2. <<>> \in Seq(Blobs)
    OBVIOUS
  <2>3. QED
    BY <2>1, <2>2 DEF Faults
<1>5. FaultInOrder(f)
  BY <1>4 DEF FaultInOrder
<1>6. /\ pfCount' = pfCount /\ shardBytes' = shardBytes /\ logged' = logged /\ missed' = missed
      /\ versions' = versions /\ served' = served /\ misled' = misled
  BY DEF Request
<1>7. CountersTyped' /\ VersionsTyped' /\ VersionsServed'
  BY <1>1, <1>6 DEF CountersTyped, VersionsTyped, VersionsServed
<1>8. ASSUME NEW n \in Missions PROVE Balanced(fault[w], f, n)
  <2>1. /\ Serves(f, n) = 0 /\ Serves(fault[w], n) = 0 /\ Owes(f, n) = 0 /\ Owes(fault[w], n) = 0
        /\ Enters(fault[w], n) = 0 /\ Enters(f, n) = IF n = m THEN 1 ELSE 0
    BY <1>3, <1>4, NoFaultFacts DEF Serves, Owes, Enters, Served
  <2>2. /\ pfCount[n] \in Nat /\ shardBytes[n] \in Nat /\ logged[n].calls \in Nat
        /\ logged[n].bytes \in Nat
    BY <1>1 DEF CountersTyped
  <2>3. QED
    BY <1>3, <1>6, <2>1, <2>2 DEF Balanced
<1>9. fault[w].stage # "write" /\ f.stage # "write"
  BY <1>3, <1>4, NoFaultFacts
<1>10. fault' = [fault EXCEPT ![w] = f]
  BY <1>3
<1>11. QED
  BY <1>4, <1>5, <1>7, <1>8, <1>9, <1>10, DryFaultMove

LEMMA EnterStep ==
  ASSUME StoreInv, NEW w \in Workers, Ready(w), UNCHANGED promptVars, UNCHANGED blobVars, Enter(w)
  PROVE  StoreInv'
<1>1. fault \in [Workers -> Faults] /\ CountersTyped /\ VersionsTyped /\ VersionsServed
  BY StoreParts DEF Parts, WorkersInOrder
<1>2. fault[w].stage = "enter"
  BY DEF Enter, Faulting
<1>3. PICK m \in Missions : m = fault[w].mission
  BY <1>2, FaultFacts
<1>4. /\ fault[w].key \in Keys /\ fault[w] \in Faults /\ FaultInOrder(fault[w])
  BY <1>2, FaultFacts
<1>5. /\ pfCount' = [pfCount EXCEPT ![m] = @ + 1]
      /\ shardBytes' = shardBytes /\ logged' = logged
      /\ versions' = versions /\ served' = served /\ misled' = misled
  BY <1>3 DEF Enter
<1>6. /\ pfCount' \in [Missions -> Nat] /\ pfCount'[m] = pfCount[m] + 1
      /\ \A n \in Missions \ {m} : pfCount'[n] = pfCount[n]
  BY <1>1, <1>5 DEF CountersTyped
<1>7. VersionsTyped' /\ VersionsServed'
  BY <1>1, <1>5 DEF VersionsTyped, VersionsServed
<1>8. ASSUME NEW f \in Faults, fault' = [fault EXCEPT ![w] = f], FaultInOrder(f),
             \/ f.stage = "put" /\ f.mission = m /\ missed' = missed
             \/ f = NoFault /\ missed' = missed \cup {m}
      PROVE  StoreInv'
  <2>1. CountersTyped'
    BY <1>1, <1>5, <1>6, <1>8 DEF CountersTyped
  <2>2. ASSUME NEW n \in Missions PROVE Balanced(fault[w], f, n)
    <3>1. /\ Serves(fault[w], n) = 0 /\ Owes(f, n) = 0 /\ Owes(fault[w], n) = 0
          /\ Enters(f, n) = 0 /\ Enters(fault[w], n) = IF n = m THEN 1 ELSE 0
          /\ Serves(f, n) = IF n = m /\ f.stage = "put" THEN 1 ELSE 0
      BY <1>2, <1>3, <1>8, NoFaultFacts DEF Serves, Owes, Enters, Served
    <3>2. /\ pfCount[n] \in Nat /\ shardBytes[n] \in Nat /\ logged[n].calls \in Nat
          /\ logged[n].bytes \in Nat
      BY <1>1 DEF CountersTyped
    <3>3. CASE f.stage = "put"
      <4>1. missed' = missed
        BY <1>8, <3>3, NoFaultFacts
      <4>2. CASE n = m
        <5>1. /\ pfCount'[n] = pfCount[n] + 1 /\ logged'[n] = logged[n]
              /\ shardBytes'[n] = shardBytes[n] /\ Serves(f, n) = 1 /\ Enters(fault[w], n) = 1
          BY <1>5, <1>6, <3>1, <3>3, <4>2
        <5>2. /\ Enters(f, n) = 0 /\ Owes(f, n) = 0 /\ Owes(fault[w], n) = 0
              /\ Serves(fault[w], n) = 0
          BY <3>1
        <5> DEFINE count == pfCount[n]
                   calls == logged[n].calls
                   bytes == logged[n].bytes
                   shard == shardBytes[n]
        <5> /\ count \in Nat /\ calls \in Nat /\ bytes \in Nat /\ shard \in Nat
          BY <3>2
        <5>3. /\ pfCount[n] = count /\ pfCount'[n] = count + 1
              /\ logged[n].calls = calls /\ logged'[n].calls = calls
              /\ logged[n].bytes = bytes /\ logged'[n].bytes = bytes
              /\ shardBytes[n] = shard /\ shardBytes'[n] = shard
          BY <5>1
        <5> HIDE DEF count, calls, bytes, shard
        <5>4. /\ count + 1 + 0 <= count + 1
              /\ calls + 1 + count = calls + 0 + (count + 1) /\ calls + 0 + (count + 1) \in Nat
              /\ bytes + 0 + shard = bytes + 0 + shard /\ bytes + 0 + shard \in Nat
          OBVIOUS
        <5>5. pfCount'[n] + Enters(f, n) <= pfCount[n] + Enters(fault[w], n)
          BY <5>1, <5>2, <5>3, <5>4
        <5>6. /\ logged'[n].calls + Serves(f, n) + pfCount[n]
                   = logged[n].calls + Serves(fault[w], n) + pfCount'[n]
              /\ logged'[n].bytes + Owes(f, n) + shardBytes[n]
                   = logged[n].bytes + Owes(fault[w], n) + shardBytes'[n]
              /\ logged[n].calls + Serves(fault[w], n) + pfCount'[n] \in Nat
              /\ logged[n].bytes + Owes(fault[w], n) + shardBytes'[n] \in Nat
          BY <5>1, <5>2, <5>3, <5>4
        <5>7. QED
          BY <4>1, <5>5, <5>6 DEF Balanced
      <4>3. CASE n # m
        BY <1>5, <1>6, <3>1, <3>2, <4>1, <4>3 DEF Balanced
      <4>4. QED
        BY <4>2, <4>3
    <3>4. CASE f.stage # "put"
      BY <1>5, <1>6, <1>8, <3>1, <3>2, <3>4, SMTT(40) DEF Balanced
    <3>5. QED
      BY <3>3, <3>4
  <2>3. fault[w].stage # "write" /\ f.stage # "write"
    BY <1>2, <1>8, NoFaultFacts
  <2>4. QED
    BY <1>7, <1>8, <2>1, <2>2, <2>3, DryFaultMove
<1>9. CASE \E shards \in Answers[fault[w].key] :
              fault' = [fault EXCEPT ![w].stage = "put", ![w].todo = shards] /\ UNCHANGED missed
  <2>1. PICK shards \in Answers[fault[w].key] :
               fault' = [fault EXCEPT ![w].stage = "put", ![w].todo = shards] /\ UNCHANGED missed
    BY <1>9
  <2>2. shards \in Seq(Blobs)
    BY <1>4
  <2>3. PICK f : f = [fault[w] EXCEPT !.stage = "put", !.todo = shards]
    OBVIOUS
  <2>4. /\ f \in Faults /\ f.stage = "put" /\ f.mission = m /\ f.key = fault[w].key
        /\ f.shards = fault[w].shards
    BY <1>3, <1>4, <2>2, <2>3 DEF Faults
  <2>5. fault' = [fault EXCEPT ![w] = f]
    BY <1>1, <2>1, <2>3
  <2>6. FaultInOrder(f)
    BY <1>4, <2>4 DEF FaultInOrder
  <2>7. QED
    BY <1>8, <2>1, <2>4, <2>5, <2>6
<1>10. CASE fault' = [fault EXCEPT ![w] = NoFault] /\ missed' = missed \cup {m}
  BY <1>8, <1>10, NoFaultFacts
<1>11. QED
  BY <1>3, <1>9, <1>10 DEF Enter

Putting == {"put", "create", "write"}

\* A step with the shards of a page fault, which changes no account.
LEMMA ShardMove ==
  ASSUME StoreInv, NEW w \in Workers, NEW f \in Faults, Ready(w),
         fault' = [fault EXCEPT ![w] = f], UNCHANGED promptVars, FaultInOrder(f)',
         DiskTyped', QuietIsWhole', NothingVanishes,
         writing'[w] = Writes(Idle, f), \A v \in Workers \ {w} : writing'[v] = writing[v],
         fault[w].stage \in Putting, f.stage \in Putting, f.mission = fault[w].mission,
         UNCHANGED <<pfCount, shardBytes, logged, missed, versions, served, misled>>
  PROVE  StoreInv'
<1>1. CountersTyped /\ VersionsTyped /\ VersionsServed
  BY StoreParts DEF Parts
<1>2. CountersTyped' /\ VersionsTyped' /\ VersionsServed'
  BY <1>1 DEF CountersTyped, VersionsTyped, VersionsServed
<1>3. ASSUME NEW n \in Missions PROVE Balanced(fault[w], f, n)
  <2>1. /\ Serves(f, n) = Serves(fault[w], n) /\ Owes(f, n) = 0 /\ Owes(fault[w], n) = 0
        /\ Enters(f, n) = 0 /\ Enters(fault[w], n) = 0 /\ Serves(f, n) \in Nat
    BY DEF Serves, Owes, Enters, Served, Putting
  <2>2. /\ pfCount[n] \in Nat /\ shardBytes[n] \in Nat /\ logged[n].calls \in Nat
        /\ logged[n].bytes \in Nat
    BY <1>1 DEF CountersTyped
  <2>3. QED
    BY <2>1, <2>2 DEF Balanced
<1>4. BudgetInv' /\ MeterInv'
  BY <1>2, <1>3, Accounts
<1>5. QED
  BY <1>2, <1>4, FaultMove

LEMMA HeadTail ==
  ASSUME NEW S, NEW s \in Seq(S), s # <<>>
  PROVE  Head(s) \in S /\ Tail(s) \in Seq(S)
OBVIOUS

\* The next shard has been put.
LEMMA StoredFault ==
  ASSUME StoreInv, NEW w \in Workers, Stored(w), fault[w].stage \in Putting, fault[w].todo # <<>>,
         NothingVanishes, NEW b \in Blobs, b = Head(fault[w].todo), Exists(b)'
  PROVE  \E f \in Faults : /\ fault' = [fault EXCEPT ![w] = f] /\ FaultInOrder(f)'
                           /\ f.stage = "put" /\ f.mission = fault[w].mission
<1>1. /\ fault \in [Workers -> Faults] /\ fault[w] \in Faults /\ FaultInOrder(fault[w])
      /\ fault[w].todo \in Seq(Blobs) /\ fault[w].shards \in Seq(Blobs)
      /\ fault[w].mission \in Missions /\ fault[w].key \in Keys
  BY FaultFacts DEF Putting
<1>2. PICK s \in Seq(Blobs), t \in Seq(Blobs) : s = fault[w].shards /\ t = Tail(fault[w].todo)
  BY <1>1, HeadTail
<1>3. Append(s, b) \in Seq(Blobs)
  OBVIOUS
<1>4. PICK f : f = [fault[w] EXCEPT !.stage = "put", !.todo = t, !.shards = Append(s, b)]
  OBVIOUS
<1>5. /\ f \in Faults /\ f.stage = "put" /\ f.mission = fault[w].mission /\ f.key = fault[w].key
      /\ f.shards = Append(s, b)
  BY <1>1, <1>3, <1>4 DEF Faults
<1>6. fault' = [fault EXCEPT ![w] = f]
  BY <1>1, <1>2, <1>4 DEF Stored
<1>7. \A i \in DOMAIN f.shards : Exists(f.shards[i])'
  <2>1. \A i \in DOMAIN s : s[i] \in Blobs /\ Exists(s[i])
    BY <1>1, <1>2 DEF FaultInOrder
  <2>2. \A i \in DOMAIN s : Exists(s[i])'
    BY <2>1 DEF NothingVanishes
  <2>3. \A i \in DOMAIN Append(s, b) : Append(s, b)[i] = b \/ (i \in DOMAIN s /\ Append(s, b)[i] = s[i])
    OBVIOUS
  <2>4. QED
    BY <1>5, <2>2, <2>3 DEF Exists
<1>8. FaultInOrder(f)'
  BY <1>1, <1>5, <1>7 DEF FaultInOrder
<1>9. QED
  BY <1>5, <1>6, <1>8

LEMMA PutShardStep ==
  ASSUME StoreInv, NEW w \in Workers, Ready(w), UNCHANGED promptVars, UNCHANGED blobVars, PutShard(w)
  PROVE  StoreInv'
<1>1. DiskTyped /\ QuietIsWhole /\ fault \in [Workers -> Faults]
  BY StoreParts DEF Parts, WorkersInOrder
<1>2. DiskTyped' /\ QuietIsWhole' /\ NothingVanishes
  BY <1>1, SameFiles
<1>3. /\ fault[w].stage = "put" /\ fault[w].todo # <<>>
      /\ UNCHANGED <<pfCount, shardBytes, logged, missed, versions, served, misled>>
  BY DEF PutShard, Faulting
<1>4. writing[w] = None /\ \A v \in Workers \ {w} : writing'[v] = writing[v]
  BY <1>3, IdleWriting DEF blobVars
<1>5. PICK f \in Faults : /\ fault' = [fault EXCEPT ![w] = f] /\ FaultInOrder(f)'
                          /\ f.stage \in {"put", "create"} /\ f.mission = fault[w].mission
  <2>1. CASE Exists(Head(fault[w].todo))
    <3>1. PICK b \in Blobs : b = Head(fault[w].todo)
      BY <1>3, FaultFacts, HeadTail
    <3>2. Exists(b)'
      BY <2>1, <3>1 DEF Exists, blobVars
    <3>3. Stored(w) /\ fault[w].stage \in Putting
      BY <1>3, <2>1 DEF PutShard, Putting
    <3>4. QED
      BY <1>2, <1>3, <3>1, <3>2, <3>3, StoredFault
  <2>2. CASE ~Exists(Head(fault[w].todo))
    <3>1. PICK f : f = [fault[w] EXCEPT !.stage = "create"]
      OBVIOUS
    <3>2. fault' = [fault EXCEPT ![w] = f]
      BY <1>1, <2>2, <3>1 DEF PutShard
    <3>3. /\ f \in Faults /\ f.stage = "create" /\ f.mission = fault[w].mission
          /\ f.key = fault[w].key /\ f.shards = fault[w].shards /\ f.todo = fault[w].todo
      BY <1>1, <3>1 DEF Faults
    <3>4. FaultInOrder(f)'
      BY <1>3, <3>3, FaultFacts DEF FaultInOrder, Exists, blobVars
    <3>5. QED
      BY <3>2, <3>3, <3>4
  <2>3. QED
    BY <2>1, <2>2
<1>6. writing'[w] = Writes(Idle, f)
  BY <1>4, <1>5, IdleWrites DEF blobVars
<1>7. fault[w].stage \in Putting /\ f.stage \in Putting /\ f.mission = fault[w].mission
  BY <1>3, <1>5 DEF Putting
<1>8. \A v \in Workers \ {w} : writing'[v] = writing[v]
  BY <1>4
<1>9. QED
  BY <1>2, <1>3, <1>5, <1>6, <1>7, <1>8, ShardMove

LEMMA CreateShardStep ==
  ASSUME StoreInv, NEW w \in Workers, Ready(w), UNCHANGED promptVars, CreateShard(w)
  PROVE  StoreInv'
<1>1. DiskTyped /\ QuietIsWhole /\ fault \in [Workers -> Faults]
  BY StoreParts DEF Parts, WorkersInOrder
<1>2. /\ fault[w].stage = "create" /\ StartWrite(w, Head(fault[w].todo))
      /\ UNCHANGED <<pfCount, shardBytes, logged, missed, versions, served, misled>>
      /\ fault' = [fault EXCEPT ![w].stage = "write"]
  BY DEF CreateShard, Faulting
<1>3. /\ fault[w] \in Faults /\ FaultInOrder(fault[w]) /\ fault[w].todo # <<>>
      /\ fault[w].todo \in Seq(Blobs) /\ fault[w].shards \in Seq(Blobs)
  BY <1>2, FaultFacts DEF FaultInOrder
<1>4. PICK b \in Blobs : b = Head(fault[w].todo)
  BY <1>3, HeadTail
<1>5. writing[w] = None
  BY <1>2, IdleWriting
<1>6. DiskTyped' /\ QuietIsWhole' /\ NothingVanishes /\ writing' = [writing EXCEPT ![w] = b]
  BY <1>1, <1>2, <1>4, <1>5, StartMove
<1>7. writing'[w] = b /\ \A v \in Workers \ {w} : writing'[v] = writing[v]
  BY <1>1, <1>6 DEF DiskTyped
<1>8. PICK f : f = [fault[w] EXCEPT !.stage = "write"]
  OBVIOUS
<1>9. fault' = [fault EXCEPT ![w] = f]
  BY <1>1, <1>2, <1>8
<1>10. /\ f \in Faults /\ f.stage = "write" /\ f.mission = fault[w].mission
       /\ f.key = fault[w].key /\ f.shards = fault[w].shards /\ f.todo = fault[w].todo
  BY <1>3, <1>8 DEF Faults
<1>11. FaultInOrder(f)'
  <2>1. \A i \in DOMAIN f.shards : Exists(f.shards[i])'
    BY <1>3, <1>6, <1>10 DEF FaultInOrder, NothingVanishes
  <2>2. QED
    BY <1>2, <1>3, <1>10, <2>1 DEF FaultInOrder
<1>12. writing'[w] = Writes(Idle, f)
  BY <1>4, <1>7, <1>10, IdleWrites
<1>13. fault[w].stage \in Putting /\ f.stage \in Putting
  BY <1>2, <1>10 DEF Putting
<1>14. /\ UNCHANGED <<pfCount, shardBytes, logged, missed, versions, served, misled>>
       /\ \A v \in Workers \ {w} : writing'[v] = writing[v]
  BY <1>2, <1>7
<1>15. QED
  BY <1>6, <1>9, <1>10, <1>11, <1>12, <1>13, <1>14, ShardMove

LEMMA ShardWrittenStep ==
  ASSUME StoreInv, NEW w \in Workers, Ready(w), UNCHANGED promptVars, ShardWritten(w)
  PROVE  StoreInv'
<1>1. /\ DiskTyped /\ QuietIsWhole /\ WorkersInOrder /\ CountersTyped /\ VersionsTyped
      /\ VersionsServed
  BY StoreParts DEF Parts
<1>2. /\ fault[w].stage = "write" /\ (EndWrite(w) \/ FailWrite(w))
      /\ UNCHANGED <<pfCount, shardBytes, logged, versions, served, misled>>
  BY DEF ShardWritten, Faulting
<1>3. /\ fault[w] \in Faults /\ FaultInOrder(fault[w]) /\ fault[w].todo # <<>>
      /\ fault[w].todo \in Seq(Blobs) /\ fault[w].shards \in Seq(Blobs)
      /\ fault \in [Workers -> Faults]
  BY <1>2, FaultFacts DEF FaultInOrder
<1>4. PICK b \in Blobs, t \in Seq(Blobs) : b = Head(fault[w].todo) /\ t = Tail(fault[w].todo)
  BY <1>3, HeadTail
<1>5. writing[w] = b
  BY <1>1, <1>2, <1>4, IdleJob DEF WorkersInOrder, Writes, Ready
<1>6. /\ DiskTyped' /\ QuietIsWhole' /\ NothingVanishes /\ writing' = [writing EXCEPT ![w] = None]
      /\ EndWrite(w) => Exists(b)'
  BY <1>1, <1>2, <1>5, EndMove
<1>7. writing'[w] = None /\ \A v \in Workers \ {w} : writing'[v] = writing[v]
  BY <1>1, <1>6 DEF DiskTyped
<1>8. ASSUME NEW f \in Faults, fault' = [fault EXCEPT ![w] = f], FaultInOrder(f)',
             f.stage = "put", f.mission = fault[w].mission, UNCHANGED missed
      PROVE  StoreInv'
  <2>1. fault[w].stage \in Putting /\ f.stage \in Putting /\ writing'[w] = Writes(Idle, f)
    BY <1>2, <1>7, <1>8, IdleWrites DEF Putting
  <2>2. /\ UNCHANGED <<pfCount, shardBytes, logged, missed, versions, served, misled>>
        /\ \A v \in Workers \ {w} : writing'[v] = writing[v]
    BY <1>2, <1>7, <1>8
  <2>3. QED
    BY <1>6, <1>8, <2>1, <2>2, ShardMove
<1>9. CASE EndWrite(w) /\ Stored(w) /\ UNCHANGED missed
  <2>1. Exists(b)' /\ fault[w].stage \in Putting
    BY <1>2, <1>6, <1>9 DEF Putting
  <2>2. PICK f \in Faults : /\ fault' = [fault EXCEPT ![w] = f] /\ FaultInOrder(f)'
                            /\ f.stage = "put" /\ f.mission = fault[w].mission
    BY <1>3, <1>4, <1>6, <1>9, <2>1, StoredFault
  <2>3. QED
    BY <1>8, <1>9, <2>2
<1>10. CASE fault' = [fault EXCEPT ![w] = NoFault] /\ missed' = missed \cup {fault[w].mission}
  <2>1. PICK m \in Missions : m = fault[w].mission
    BY <1>2, FaultFacts
  <2>2. CountersTyped' /\ VersionsTyped' /\ VersionsServed'
    BY <1>1, <1>2, <1>10, <2>1 DEF CountersTyped, VersionsTyped, VersionsServed
  <2>3. ASSUME NEW n \in Missions PROVE Balanced(fault[w], NoFault, n)
    <3>1. /\ Owes(NoFault, n) = 0 /\ Owes(fault[w], n) = 0 /\ Serves(NoFault, n) = 0
          /\ Enters(NoFault, n) = 0 /\ Enters(fault[w], n) = 0
          /\ Serves(fault[w], n) = IF n = m THEN 1 ELSE 0
      BY <1>2, <2>1, NoFaultFacts DEF Serves, Owes, Enters, Served
    <3>2. /\ pfCount[n] \in Nat /\ shardBytes[n] \in Nat /\ logged[n].calls \in Nat
          /\ logged[n].bytes \in Nat
      BY <1>1 DEF CountersTyped
    <3>3. n = m => n \in missed'
      BY <1>10, <2>1
    <3>4. n \notin missed' => n \notin missed
      BY <1>10
    <3>5. QED
      BY <1>2, <3>1, <3>2, <3>3, <3>4, SMTT(40) DEF Balanced
  <2>4. BudgetInv' /\ MeterInv'
    BY <1>10, <2>2, <2>3, NoFaultFacts, Accounts
  <2>5. FaultInOrder(NoFault)' /\ writing'[w] = Writes(Idle, NoFault)
    BY <1>7, NoFaultFacts, IdleWrites DEF FaultInOrder
  <2>6. fault' = [fault EXCEPT ![w] = NoFault] /\ NoFault \in Faults
    BY <1>10, NoFaultFacts
  <2>7. QED
    BY <1>6, <1>7, <2>2, <2>4, <2>5, <2>6, FaultMove
<1>11. CASE fault' = [fault EXCEPT ![w].stage = "put", ![w].todo = Tail(@)] /\ UNCHANGED missed
  <2>1. PICK f : f = [fault[w] EXCEPT !.stage = "put", !.todo = t]
    OBVIOUS
  <2>2. fault' = [fault EXCEPT ![w] = f]
    BY <1>3, <1>4, <1>11, <2>1
  <2>3. /\ f \in Faults /\ f.stage = "put" /\ f.mission = fault[w].mission
        /\ f.key = fault[w].key /\ f.shards = fault[w].shards
    BY <1>3, <2>1 DEF Faults
  <2>4. FaultInOrder(f)'
    <3>1. \A i \in DOMAIN f.shards : Exists(f.shards[i])'
      BY <1>3, <1>6, <2>3 DEF FaultInOrder, NothingVanishes
    <3>2. QED
      BY <1>2, <1>3, <2>3, <3>1 DEF FaultInOrder
  <2>5. QED
    BY <1>8, <1>11, <2>2, <2>3, <2>4
<1>12. QED
  BY <1>9, <1>10, <1>11 DEF ShardWritten

LEMMA ReadBackStep ==
  ASSUME StoreInv, NEW w \in Workers, Ready(w), UNCHANGED promptVars, UNCHANGED blobVars, ReadBack(w)
  PROVE  StoreInv'
<1>1. DiskTyped /\ QuietIsWhole /\ fault \in [Workers -> Faults]
  BY StoreParts DEF Parts, WorkersInOrder
<1>2. DiskTyped' /\ QuietIsWhole' /\ NothingVanishes
  BY <1>1, SameFiles
<1>3. /\ fault[w].stage = "put" /\ fault[w].todo = <<>> /\ fault[w].counted < Len(fault[w].shards)
      /\ UNCHANGED <<pfCount, shardBytes, logged, missed, versions, served, misled>>
  BY DEF ReadBack, Faulting
<1>4. /\ fault[w] \in Faults /\ FaultInOrder(fault[w]) /\ fault[w].shards \in Seq(Blobs)
      /\ fault[w].counted \in Nat /\ fault[w].size \in Nat
  BY FaultFacts
<1>5. PICK c \in Nat, n \in Nat : /\ c = fault[w].counted + 1
                                  /\ n = fault[w].size + Bytes(fault[w].shards[fault[w].counted + 1])
  <2>1. fault[w].shards[fault[w].counted + 1] \in Blobs
    BY <1>3, <1>4
  <2>2. Bytes(fault[w].shards[fault[w].counted + 1]) \in Nat
    BY <2>1 DEF Bytes
  <2>3. QED
    BY <1>4, <2>2
<1>6. PICK f : f = [fault[w] EXCEPT !.counted = c, !.size = n]
  OBVIOUS
<1>7. fault' = [fault EXCEPT ![w] = f]
  BY <1>1, <1>5, <1>6 DEF ReadBack
<1>8. /\ f \in Faults /\ f.stage = "put" /\ f.mission = fault[w].mission
      /\ f.key = fault[w].key /\ f.shards = fault[w].shards
  BY <1>3, <1>4, <1>6 DEF Faults
<1>9. FaultInOrder(f)'
  BY <1>3, <1>4, <1>8 DEF FaultInOrder, Exists, blobVars
<1>10. writing'[w] = Writes(Idle, f) /\ \A v \in Workers \ {w} : writing'[v] = writing[v]
  BY <1>3, <1>8, IdleWriting, IdleWrites DEF blobVars
<1>11. fault[w].stage \in Putting /\ f.stage \in Putting
  BY <1>3, <1>8 DEF Putting
<1>12. UNCHANGED <<pfCount, shardBytes, logged, missed, versions, served, misled>>
  BY <1>3
<1>13. QED
  BY <1>2, <1>7, <1>8, <1>9, <1>10, <1>11, <1>12, ShardMove

LEMMA MeasureStep ==
  ASSUME StoreInv, NEW w \in Workers, Ready(w), UNCHANGED promptVars, UNCHANGED blobVars, Measure(w)
  PROVE  StoreInv'
<1>1. fault \in [Workers -> Faults] /\ CountersTyped /\ VersionsTyped /\ VersionsServed
  BY StoreParts DEF Parts, WorkersInOrder
<1>2. /\ fault[w].stage = "put" /\ fault' = [fault EXCEPT ![w].stage = "log"]
      /\ UNCHANGED <<pfCount, logged, missed, versions, served, misled>>
  BY DEF Measure, Faulting
<1>3. PICK m \in Missions : m = fault[w].mission
  BY <1>2, FaultFacts
<1>4. /\ fault[w] \in Faults /\ FaultInOrder(fault[w]) /\ fault[w].size \in Nat
  BY FaultFacts
<1>5. PICK s \in Nat : s = fault[w].size
  BY <1>4
<1>6. shardBytes' = [shardBytes EXCEPT ![m] = @ + s]
  BY <1>3, <1>5 DEF Measure
<1>7. /\ shardBytes' \in [Missions -> Nat] /\ shardBytes'[m] = shardBytes[m] + s
      /\ \A n \in Missions \ {m} : shardBytes'[n] = shardBytes[n]
  BY <1>1, <1>6 DEF CountersTyped
<1>8. CountersTyped' /\ VersionsTyped' /\ VersionsServed'
  BY <1>1, <1>2, <1>7 DEF CountersTyped, VersionsTyped, VersionsServed
<1>9. PICK f : f = [fault[w] EXCEPT !.stage = "log"]
  OBVIOUS
<1>10. fault' = [fault EXCEPT ![w] = f]
  BY <1>1, <1>2, <1>9
<1>11. /\ f \in Faults /\ f.stage = "log" /\ f.mission = m /\ f.size = s
       /\ f.key = fault[w].key /\ f.shards = fault[w].shards
  BY <1>3, <1>4, <1>5, <1>9 DEF Faults
<1>12. FaultInOrder(f)
  BY <1>2, <1>4, <1>11, FaultFacts DEF FaultInOrder
<1>13. ASSUME NEW n \in Missions PROVE Balanced(fault[w], f, n)
  <2>1. /\ Owes(fault[w], n) = 0 /\ Serves(f, n) = Serves(fault[w], n) /\ Serves(f, n) \in Nat
        /\ Enters(f, n) = 0 /\ Enters(fault[w], n) = 0
        /\ Owes(f, n) = IF n = m THEN s ELSE 0
    BY <1>2, <1>3, <1>11 DEF Serves, Owes, Enters, Served
  <2>2. /\ pfCount[n] \in Nat /\ shardBytes[n] \in Nat /\ logged[n].calls \in Nat
        /\ logged[n].bytes \in Nat
    BY <1>1 DEF CountersTyped
  <2>3. logged'[n].bytes + Owes(f, n) + shardBytes[n]
          = logged[n].bytes + Owes(fault[w], n) + shardBytes'[n]
    <3>1. CASE n = m
      BY <1>2, <1>7, <2>1, <2>2, <3>1, SMTT(40)
    <3>2. CASE n # m
      BY <1>2, <1>7, <2>1, <2>2, <3>2
    <3>3. QED
      BY <3>1, <3>2
  <2>4. logged[n].bytes + Owes(fault[w], n) + shardBytes'[n] \in Nat
    BY <1>7, <2>1, <2>2, SMTT(40)
  <2>5. logged'[n].calls + Serves(f, n) + pfCount[n]
          = logged[n].calls + Serves(fault[w], n) + pfCount'[n]
    BY <1>2, <2>1, <2>2
  <2>6. logged[n].calls + Serves(fault[w], n) + pfCount'[n] \in Nat
    BY <1>2, <2>1, <2>2, SMTT(40)
  <2>7. pfCount'[n] + Enters(f, n) <= pfCount[n] + Enters(fault[w], n)
    BY <1>2, <2>1, <2>2
  <2>8. missed' = missed
    BY <1>2
  <2>9. QED
    BY <2>3, <2>4, <2>5, <2>6, <2>7, <2>8 DEF Balanced
<1>14. fault[w].stage # "write" /\ f.stage # "write"
  BY <1>2, <1>11
<1>15. QED
  BY <1>8, <1>10, <1>11, <1>12, <1>13, <1>14, DryFaultMove

LEMMA LogStep ==
  ASSUME StoreInv, NEW w \in Workers, Ready(w), UNCHANGED promptVars, UNCHANGED blobVars, Log(w)
  PROVE  StoreInv'
<1>1. fault \in [Workers -> Faults] /\ CountersTyped /\ VersionsTyped /\ VersionsServed
  BY StoreParts DEF Parts, WorkersInOrder
<1>2. /\ fault[w].stage = "log" /\ fault' = [fault EXCEPT ![w].stage = "reply"]
      /\ UNCHANGED <<pfCount, shardBytes, versions, served, misled>>
  BY DEF Log, Faulting
<1>3. PICK m \in Missions : m = fault[w].mission
  BY <1>2, FaultFacts
<1>4. /\ fault[w] \in Faults /\ FaultInOrder(fault[w]) /\ fault[w].size \in Nat
  BY FaultFacts
<1>5. PICK s \in Nat : s = fault[w].size
  BY <1>4
<1>6. PICK f : f = [fault[w] EXCEPT !.stage = "reply"]
  OBVIOUS
<1>7. fault' = [fault EXCEPT ![w] = f]
  BY <1>1, <1>2, <1>6
<1>8. /\ f \in Faults /\ f.stage = "reply" /\ f.mission = m
      /\ f.key = fault[w].key /\ f.shards = fault[w].shards
  BY <1>3, <1>4, <1>6 DEF Faults
<1>9. FaultInOrder(f)
  BY <1>2, <1>4, <1>8, FaultFacts DEF FaultInOrder
<1>10. \/ logged' = [logged EXCEPT ![m] = [calls |-> @.calls + 1, bytes |-> @.bytes + s]] /\ missed' = missed
       \/ missed' = missed \cup {m} /\ logged' = logged
  BY <1>3, <1>5 DEF Log
<1>11. /\ logged' \in [Missions -> [calls : Nat, bytes : Nat]] /\ missed \subseteq missed'
       /\ \A n \in Missions \ {m} : logged'[n] = logged[n] /\ (n \in missed' => n \in missed)
       /\ \/ logged'[m].calls = logged[m].calls + 1 /\ logged'[m].bytes = logged[m].bytes + s
             /\ missed' = missed
          \/ logged'[m] = logged[m] /\ m \in missed'
  <2>1. logged \in [Missions -> [calls : Nat, bytes : Nat]]
    BY <1>1 DEF CountersTyped
  <2>2. CASE logged' = [logged EXCEPT ![m] = [calls |-> @.calls + 1, bytes |-> @.bytes + s]]
             /\ missed' = missed
    <3> DEFINE new == [calls |-> logged[m].calls + 1, bytes |-> logged[m].bytes + s]
    <3>0. /\ new \in [calls : Nat, bytes : Nat]
          /\ new.calls = logged[m].calls + 1 /\ new.bytes = logged[m].bytes + s
      <4>1. logged[m].calls + 1 \in Nat /\ logged[m].bytes + s \in Nat
        BY <2>1
      <4>2. QED
        BY <4>1
    <3>1. PICK e \in [calls : Nat, bytes : Nat] :
            e = new /\ e.calls = logged[m].calls + 1 /\ e.bytes = logged[m].bytes + s
      BY <3>0
    <3>2. logged' = [logged EXCEPT ![m] = e]
      BY <2>2, <3>1
    <3>3. logged' \in [Missions -> [calls : Nat, bytes : Nat]] /\ logged'[m] = e
          /\ \A n \in Missions \ {m} : logged'[n] = logged[n]
      BY <2>1, <3>2
    <3>4. QED
      BY <2>2, <3>1, <3>3
  <2>3. CASE missed' = missed \cup {m} /\ logged' = logged
    BY <2>1, <2>3
  <2>4. QED
    BY <1>10, <2>2, <2>3
<1>12. CountersTyped' /\ VersionsTyped' /\ VersionsServed'
  <2>1. missed' \subseteq Missions
    BY <1>1, <1>10 DEF CountersTyped
  <2>2. QED
    BY <1>1, <1>2, <1>11, <2>1 DEF CountersTyped, VersionsTyped, VersionsServed
<1>13. ASSUME NEW n \in Missions PROVE Balanced(fault[w], f, n)
  <2>1. /\ Owes(f, n) = 0 /\ Serves(f, n) = 0 /\ Enters(f, n) = 0 /\ Enters(fault[w], n) = 0
        /\ Serves(fault[w], n) = IF n = m THEN 1 ELSE 0
        /\ Owes(fault[w], n) = IF n = m THEN s ELSE 0
    BY <1>2, <1>3, <1>5, <1>8 DEF Serves, Owes, Enters, Served
  <2>2. /\ pfCount[n] \in Nat /\ shardBytes[n] \in Nat /\ logged[n].calls \in Nat
        /\ logged[n].bytes \in Nat
    BY <1>1 DEF CountersTyped
  <2>3. PICK c \in Nat, b \in Nat : c = logged[n].calls /\ b = logged[n].bytes
    BY <2>2
  <2>4. CASE n = m
    <3>1. Serves(fault[w], n) = 1 /\ Owes(fault[w], n) = s
      BY <2>1, <2>4
    <3>2. \/ logged'[n].calls = c + 1 /\ logged'[n].bytes = b + s /\ missed' = missed
          \/ logged'[n].calls = c /\ logged'[n].bytes = b /\ n \in missed'
      BY <1>11, <2>3, <2>4
    <3>3. pfCount'[n] = pfCount[n] /\ shardBytes'[n] = shardBytes[n]
      BY <1>2
    <3>4. PICK p \in Nat, q \in Nat : p = pfCount[n] /\ q = shardBytes[n]
      BY <2>2
    <3>5. p + 0 <= p + 0 /\ c + 0 + p <= c + 1 + p /\ b + 0 + q <= b + s + q
          /\ (c + 1) + 0 + p = c + 1 + p /\ (b + s) + 0 + q = b + s + q
          /\ c + 1 + p <= c + 1 + p /\ b + s + q <= b + s + q
      OBVIOUS
    <3>6. CASE logged'[n].calls = c + 1 /\ logged'[n].bytes = b + s /\ missed' = missed
      BY <2>1, <2>3, <3>1, <3>3, <3>4, <3>5, <3>6 DEF Balanced
    <3>7. CASE logged'[n].calls = c /\ logged'[n].bytes = b /\ n \in missed'
      BY <2>1, <2>3, <3>1, <3>3, <3>4, <3>5, <3>7 DEF Balanced
    <3>8. QED
      BY <3>2, <3>6, <3>7
  <2>5. CASE n # m
    <3>1. Serves(fault[w], n) = 0 /\ Owes(fault[w], n) = 0
      BY <2>1, <2>5
    <3>2. logged'[n].calls = c /\ logged'[n].bytes = b /\ (n \notin missed' => n \notin missed)
      BY <1>11, <2>3, <2>5
    <3>3. QED
      BY <1>2, <2>1, <2>2, <2>3, <3>1, <3>2 DEF Balanced
  <2>6. QED
    BY <2>4, <2>5
<1>14. fault[w].stage # "write" /\ f.stage # "write"
  BY <1>2, <1>8
<1>15. QED
  BY <1>7, <1>8, <1>9, <1>12, <1>13, <1>14, DryFaultMove

LEMMA LeastNatural ==
  ASSUME NEW S, S \subseteq Nat, S # {}
  PROVE  \E n \in S : \A m \in S : n <= m
<1>1. \E n \in S : \A m \in S : <<m, n>> \notin OpToRel(<, Nat)
  BY NatLessThanWellFounded, WFMin, Zenon
<1>2. \A m, n \in Nat : <<m, n>> \notin OpToRel(<, Nat) => n <= m
  BY DEF OpToRel
<1>3. QED
  BY <1>1, <1>2

\* A shard of s is in S, or it equals the one before it, the first one v.
Follows(s, v, S) == \A i \in DOMAIN s : s[i] \in S \/ s[i] = IF i = 1 THEN v ELSE s[i - 1]

LEMMA AllServed ==
  ASSUME NEW s \in Seq(Blobs), NEW v, NEW S, v # None => v \in S, Follows(s, v, S)
  PROVE  \A i \in DOMAIN s : s[i] \in S
<1> DEFINE bad == {i \in DOMAIN s : s[i] \notin S}
<1>1. SUFFICES ASSUME bad # {} PROVE FALSE
  OBVIOUS
<1>2. PICK n \in bad : \A i \in bad : n <= i
  <2>1. bad \subseteq Nat
    OBVIOUS
  <2>2. QED
    BY <1>1, <2>1, LeastNatural
<1>3. n \in DOMAIN s /\ n \in Nat /\ s[n] \in Blobs /\ s[n] \notin S
  OBVIOUS
<1>4. CASE n = 1
  BY <1>3, <1>4 DEF Follows
<1>5. CASE n # 1
  <2>1. n - 1 \in DOMAIN s /\ n - 1 \in Nat /\ n - 1 < n
    BY <1>3, <1>5
  <2>2. n - 1 \notin bad
    BY <1>2, <1>3, <2>1
  <2>3. QED
    BY <1>3, <1>5, <2>1, <2>2 DEF Follows
<1>6. QED
  BY <1>4, <1>5

LEMMA ReplyStep ==
  ASSUME StoreInv, NEW w \in Workers, Ready(w), UNCHANGED promptVars, UNCHANGED blobVars, Reply(w)
  PROVE  StoreInv'
<1>1. fault \in [Workers -> Faults] /\ CountersTyped /\ VersionsTyped /\ VersionsServed
  BY StoreParts DEF Parts, WorkersInOrder
<1>2. /\ fault[w].stage = "reply" /\ fault' = [fault EXCEPT ![w] = NoFault]
      /\ UNCHANGED <<pfCount, shardBytes, logged, missed>>
  BY DEF Reply, Faulting
<1>3. PICK m \in Missions, k \in Keys, s \in Seq(Blobs) :
        m = fault[w].mission /\ k = fault[w].key /\ s = fault[w].shards
  BY <1>2, FaultFacts
<1>4. PICK same : same = {i \in DOMAIN s : s[i] = IF i = 1 THEN versions[m][k] ELSE s[i - 1]}
  OBVIOUS
<1>5. /\ versions' = [versions EXCEPT ![m][k] = IF s = <<>> THEN @ ELSE Last(s)]
      /\ served' = [served EXCEPT ![m] = @ \cup {s[i] : i \in DOMAIN s \ same}]
      /\ misled' = IF \E i \in same : s[i] \notin served'[m] THEN misled \cup {m} ELSE misled
  BY <1>3, <1>4 DEF Reply, Unchanged
<1>6. /\ served \in [Missions -> SUBSET Blobs] /\ misled = {}
      /\ versions \in [Missions -> [Keys -> Blobs \cup {None}]]
      /\ \A n \in Missions, j \in Keys : versions[n][j] # None => versions[n][j] \in served[n]
  BY <1>1 DEF VersionsTyped, VersionsServed
<1>7. /\ served'[m] = served[m] \cup {s[i] : i \in DOMAIN s \ same}
      /\ \A n \in Missions \ {m} : served'[n] = served[n]
      /\ served' \in [Missions -> SUBSET Blobs]
  <2>1. {s[i] : i \in DOMAIN s \ same} \subseteq Blobs
    OBVIOUS
  <2>2. QED
    BY <1>5, <1>6, <2>1
<1>8. \A i \in DOMAIN s : s[i] \in served'[m]
  <2>1. versions[m][k] # None => versions[m][k] \in served'[m]
    BY <1>6, <1>7
  <2>2. Follows(s, versions[m][k], served'[m])
    BY <1>4, <1>7 DEF Follows
  <2>3. QED
    BY <2>1, <2>2, AllServed
<1>9. misled' = {}
  BY <1>4, <1>5, <1>6, <1>8
<1>10. /\ versions' \in [Missions -> [Keys -> Blobs \cup {None}]]
       /\ \A n \in Missions, j \in Keys : n # m \/ j # k => versions'[n][j] = versions[n][j]
       /\ versions'[m][k] # None => versions'[m][k] \in served'[m]
  <2>1. CASE s = <<>>
    <3>1. versions' = versions
      BY <1>5, <1>6, <2>1
    <3>2. QED
      BY <1>6, <1>7, <3>1
  <2>2. CASE s # <<>>
    <3>1. Last(s) = s[Len(s)] /\ Len(s) \in DOMAIN s
      BY <2>2 DEF Last
    <3>2. PICK b \in Blobs : b = Last(s) /\ b \in served'[m]
      BY <1>8, <3>1
    <3>3. versions' = [versions EXCEPT ![m][k] = b]
      BY <1>5, <2>2, <3>2
    <3>4. QED
      BY <1>6, <3>2, <3>3
  <2>3. QED
    BY <2>1, <2>2
<1>11. VersionsTyped' /\ VersionsServed'
  <2>1. \A n \in Missions : served[n] \subseteq served'[n]
    BY <1>7
  <2>2. \A n \in Missions, j \in Keys : versions'[n][j] # None => versions'[n][j] \in served'[n]
    BY <1>6, <1>10, <2>1
  <2>3. QED
    BY <1>7, <1>9, <1>10, <2>2 DEF VersionsTyped, VersionsServed
<1>12. CountersTyped'
  BY <1>1, <1>2 DEF CountersTyped
<1>13. ASSUME NEW n \in Missions PROVE Balanced(fault[w], NoFault, n)
  <2>1. /\ Owes(NoFault, n) = 0 /\ Serves(NoFault, n) = 0 /\ Enters(NoFault, n) = 0
        /\ Owes(fault[w], n) = 0 /\ Serves(fault[w], n) = 0 /\ Enters(fault[w], n) = 0
    BY <1>2, NoFaultFacts DEF Serves, Owes, Enters, Served
  <2>2. /\ pfCount[n] \in Nat /\ shardBytes[n] \in Nat /\ logged[n].calls \in Nat
        /\ logged[n].bytes \in Nat
    BY <1>1 DEF CountersTyped
  <2>3. QED
    BY <1>2, <2>1, <2>2, SMTT(40) DEF Balanced
<1>14. fault[w].stage # "write" /\ NoFault.stage # "write" /\ fault' = [fault EXCEPT ![w] = NoFault]
  BY <1>2, NoFaultFacts
<1>15. QED
  BY <1>11, <1>12, <1>13, <1>14, NoFaultFacts, DryFaultMove
-----------------------------------------------------------------------------
(* The boot and the crash. *)

\* The daemon has just booted, on files that are what they are.
Fresh ==
  /\ heap = <<>> /\ prompts = [p \in Prompts |-> 0] /\ job = [w \in Workers |-> Idle]
  /\ fault = [w \in Workers |-> NoFault] /\ writing = [w \in Workers |-> None]
  /\ pfCount = NewMission(0) /\ shardBytes = NewMission(0)
  /\ logged = NewMission([calls |-> 0, bytes |-> 0])
  /\ missed = {} /\ versions = NoVersions

Boot ==
  /\ Fresh /\ DiskTyped /\ QuietIsWhole
  /\ served \in [Missions -> SUBSET Blobs] /\ misled = {}

LEMMA BootInv == Boot => StoreInv
<1>0. SUFFICES ASSUME Boot PROVE StoreInv
  OBVIOUS
<1>1. HeapTyped /\ PromptsTyped
  BY <1>0 DEF Boot, Fresh, HeapTyped, HeapIsList, PromptsTyped
<1>2. WorkersInOrder /\ ArtsTyped
  <2>1. JobInOrder(Idle) /\ Idle \in Jobs
    BY IdleJob DEF JobInOrder, Idle, Known
  <2>2. Writes(Idle, NoFault) = None
    BY DEF Writes, Idle, NoFault
  <2>3. \A w \in Workers : job[w] = Idle /\ fault[w] = NoFault /\ writing[w] = None
    BY <1>0 DEF Boot, Fresh
  <2>4. job \in [Workers -> Jobs] /\ fault \in [Workers -> Faults]
    BY <1>0, <2>1, NoFaultFacts DEF Boot, Fresh
  <2>5. ArtsTyped
    BY <1>1, <2>3, IdleJob DEF ArtsTyped, HeapTyped, HeapIsList
  <2>6. QED
    BY <2>1, <2>2, <2>3, <2>4, <2>5, NoFaultFacts DEF WorkersInOrder
<1>3. CountersTyped /\ VersionsTyped /\ VersionsServed
  BY <1>0 DEF Boot, Fresh, CountersTyped, VersionsTyped, VersionsServed, NewMission, NoVersions
<1>4. \A m \in Missions : Entering(m) = {} /\ Serving(m) = {} /\ Unlogged(m) = {}
  BY <1>0, NoFaultFacts DEF Boot, Fresh, Entering, Serving, Unlogged, Faulting
<1>5. IsFiniteSet({}) /\ Cardinality({}) = 0
  BY FS_EmptySet
<1>6. BudgetInv
  <2>1. Cardinality(Workers) \in Nat
    BY FS_CardinalityType
  <2>2. \A m \in Missions : pfCount[m] = 0 /\ Cardinality(Entering(m)) = 0
    BY <1>0, <1>4, <1>5 DEF Boot, Fresh, NewMission
  <2>3. MaxPFCalls >= 1 /\ MaxPFCalls \in Nat
    OBVIOUS
  <2>4. 0 + 0 <= MaxPFCalls + Cardinality(Workers) - 1
    BY <2>1, <2>3
  <2>5. QED
    BY <2>2, <2>4 DEF BudgetInv
<1>7. MeterInv
  <2>1. \A m \in Missions : /\ pfCount[m] = 0 /\ shardBytes[m] = 0
                            /\ logged[m].calls = 0 /\ logged[m].bytes = 0
    BY <1>0 DEF Boot, Fresh, NewMission
  <2>2. \A m \in Missions : /\ Cardinality(Serving(m)) = 0 /\ Cardinality(Unlogged(m)) = 0
                            /\ IsFiniteSet(Unlogged(m))
    BY <1>4, <1>5
  <2>3. QED
    BY <2>1, <2>2 DEF MeterInv
<1>8. QED
  BY <1>0, <1>1, <1>2, <1>3, <1>6, <1>7, StoreParts DEF Parts, Boot

LEMMA CrashStep ==
  ASSUME StoreInv, Crash
  PROVE  StoreInv'
<1>1. DiskTyped /\ QuietIsWhole /\ VersionsTyped /\ VersionsServed
  BY StoreParts DEF Parts
<1>2. Fresh'
  BY DEF Crash, Fresh, LoseWrites, Forget, NewMission, NoVersions, Idle, NoFault
<1>3. disk' = disk /\ torn' = torn \cup ({writing[w] : w \in Workers} \ {None})
      /\ writing' = [w \in Workers |-> None]
  BY DEF Crash, LoseWrites
<1>4. DiskTyped'
  BY <1>1, <1>3 DEF DiskTyped
<1>5. QuietIsWhole'
  BY <1>1, <1>3 DEF QuietIsWhole, Unsettled
<1>6. served' \in [Missions -> SUBSET Blobs] /\ misled' = {}
  BY <1>1 DEF Crash, VersionsTyped, VersionsServed
<1>7. Boot'
  BY <1>2, <1>4, <1>5, <1>6 DEF Boot
<1>8. QED
  BY <1>7, BootInv, PTL
-----------------------------------------------------------------------------

\* The stores, the requests and the accounts stay in order: the strengthening that the
\* theorems below rest on (blob.go:30-71, prompt.go:50-214, pf.go:87-185).
THEOREM StoreInvariant == Spec => []StoreInv
<1>1. Init => StoreInv
  <2>1. SUFFICES ASSUME Init PROVE StoreInv
    OBVIOUS
  <2>2. Fresh
    BY <2>1 DEF Init, BlobInit, PromptInit, Fresh
  <2>3. DiskTyped /\ QuietIsWhole
    BY <2>1 DEF Init, BlobInit, DiskTyped, QuietIsWhole
  <2>4. served \in [Missions -> SUBSET Blobs] /\ misled = {}
    BY <2>1 DEF Init, NewMission
  <2>5. QED
    BY <2>2, <2>3, <2>4, BootInv DEF Boot
<1>2. StoreInv /\ [Next]_vars => StoreInv'
  <2>1. SUFFICES ASSUME StoreInv, [Next]_vars PROVE StoreInv'
    OBVIOUS
  <2>2. CASE Crash
    BY <2>1, <2>2, CrashStep
  <2>3. ASSUME NEW w \in Workers, PromptCall(w)
        PROVE  StoreInv'
    BY <2>1, <2>3, PromptCallStep
  <2>4. ASSUME NEW w \in Workers, Ready(w), FaultStep(w), UNCHANGED promptVars
        PROVE  StoreInv'
    <3>1. CASE (\E m \in Missions, k \in Keys : Request(w, m, k)) /\ UNCHANGED blobVars
      BY <2>1, <2>4, <3>1, RequestStep
    <3>2. CASE CreateShard(w) \/ ShardWritten(w)
      BY <2>1, <2>4, <3>2, CreateShardStep, ShardWrittenStep
    <3>3. CASE /\ Enter(w) \/ PutShard(w) \/ ReadBack(w) \/ Measure(w) \/ Log(w) \/ Reply(w)
               /\ UNCHANGED blobVars
      BY <2>1, <2>4, <3>3, EnterStep, PutShardStep, ReadBackStep, MeasureStep, LogStep, ReplyStep
    <3>4. QED
      BY <2>4, <3>1, <3>2, <3>3 DEF FaultStep
  <2>5. CASE UNCHANGED vars
    <3>1. UNCHANGED blobVars /\ UNCHANGED promptVars /\ UNCHANGED faultVars
      BY <2>5 DEF vars
    <3>2. Parts /\ DiskTyped' /\ QuietIsWhole'
      BY <2>1, <3>1, StoreParts, SameFiles DEF Parts
    <3>3. CountersTyped' /\ VersionsTyped' /\ VersionsServed' /\ BudgetInv' /\ MeterInv'
      BY <3>1, <3>2, SameFaults DEF Parts
    <3>4. HeapTyped' /\ PromptsTyped' /\ ArtsTyped'
      BY <3>1, <3>2 DEF Parts, promptVars, blobVars, HeapTyped, HeapIsList, PromptsTyped, ArtsTyped, Exists
    <3>5. WorkersInOrder'
      BY <3>1, <3>2 DEF Parts, promptVars, blobVars, faultVars, WorkersInOrder, JobInOrder,
                        FaultInOrder, Writes, Exists
    <3>6. QED
      BY <3>2, <3>3, <3>4, <3>5, StoreParts DEF Parts
  <2>6. QED
    BY <2>1, <2>2, <2>3, <2>4, <2>5 DEF Next
<1>3. QED
  BY <1>1, <1>2, PTL DEF Spec

\* Whatever is written, cut short or forgotten beside it, a blob whose file is there can be
\* read unless a write of it goes on or failed, and what the daemon knows by an id is there
\* (blob.go:34-41, prompt.go:50-91, 134-151, pf.go:175-185).
THEOREM KnownCanBeRead == Spec => []StoredIsReadable
<1>1. StoreInv => StoredIsReadable
  <2>1. SUFFICES ASSUME StoreInv PROVE StoredIsReadable
    OBVIOUS
  <2>2. TypeOK /\ QuietIsWhole /\ StoreOrder
    BY <2>1 DEF StoreInv
  <2>3. ASSUME NEW p \in Prompts, prompts[p] # 0 PROVE Reconstructs(p) \/ Unsettled(p)
    <3>1. disk[p] \in {"none", "part", "whole"} /\ Exists(p)
      BY <2>2, <2>3 DEF TypeOK, StoreOrder
    <3>2. QED
      BY <2>2, <2>3, <3>1 DEF QuietIsWhole, Reconstructs, Exists
  <2>4. \A w \in Workers : \A i \in DOMAIN fault[w].shards : Exists(fault[w].shards[i])
    BY <2>2 DEF StoreOrder, WorkersInOrder, FaultInOrder
  <2>5. QED
    BY <2>2, <2>3, <2>4 DEF StoredIsReadable, KnownIsStored
<1>2. QED
  BY <1>1, StoreInvariant, PTL

\* A mission is charged at most one call per other goroutine beyond its budget, and what the
\* log says of it is never more than what was counted, and all of it when no call is under
\* way, failed or was not logged (pf_governor.go:37-54, pf.go:87-172).
THEOREM MeterIsExact == Spec => []MeterHolds
<1>1. StoreInv => MeterHolds
  <2>1. SUFFICES ASSUME StoreInv PROVE MeterHolds
    OBVIOUS
  <2>2. fault \in [Workers -> Faults] /\ CountersTyped /\ BudgetInv /\ MeterInv
    BY <2>1, StoreParts DEF Parts, WorkersInOrder
  <2>3. ASSUME NEW m \in Missions
        PROVE  /\ IsFiniteSet(Entering(m)) /\ Cardinality(Entering(m)) \in Nat
               /\ IsFiniteSet(Serving(m)) /\ Cardinality(Serving(m)) \in Nat
               /\ IsFiniteSet(Unlogged(m)) /\ Cardinality(Unlogged(m)) \in Nat
               /\ pfCount[m] \in Nat /\ shardBytes[m] \in Nat
               /\ logged[m].calls \in Nat /\ logged[m].bytes \in Nat
    <3>1. Entering(m) \in SUBSET Workers /\ Serving(m) \in SUBSET Workers
      BY DEF Entering, Serving
    <3>2. IsFiniteSet(Unlogged(m))
      BY <2>2 DEF MeterInv
    <3>3. IsFiniteSet(Entering(m)) /\ IsFiniteSet(Serving(m))
      BY <3>1, FS_Subset
    <3>4. QED
      BY <2>2, <3>2, <3>3, FS_CardinalityType DEF CountersTyped
  <2>4. BudgetOvershoot
    <3>1. Cardinality(Workers) \in Nat /\ MaxPFCalls \in Nat
      BY FS_CardinalityType
    <3>2. QED
      BY <2>2, <2>3, <3>1 DEF BudgetInv, BudgetOvershoot
  <2>5. ASSUME NEW m \in Missions
        PROVE  /\ logged[m].calls <= pfCount[m] /\ logged[m].bytes <= shardBytes[m]
               /\ m \notin missed /\ (\A w \in Workers : fault[w].mission # m) =>
                    logged[m] = [calls |-> pfCount[m], bytes |-> shardBytes[m]]
    <3>1. /\ logged[m].calls + Cardinality(Serving(m)) <= pfCount[m]
          /\ logged[m].bytes + Cardinality(Unlogged(m)) <= shardBytes[m]
          /\ m \notin missed => /\ logged[m].calls + Cardinality(Serving(m)) = pfCount[m]
                                /\ logged[m].bytes + Cardinality(Unlogged(m)) = shardBytes[m]
      BY <2>2 DEF MeterInv
    <3>2. logged[m].calls <= pfCount[m] /\ logged[m].bytes <= shardBytes[m]
      BY <2>3, <3>1
    <3>3. ASSUME m \notin missed, \A w \in Workers : fault[w].mission # m
          PROVE  logged[m] = [calls |-> pfCount[m], bytes |-> shardBytes[m]]
      <4>1. Serving(m) = {} /\ Unlogged(m) = {}
        BY <3>3 DEF Serving, Unlogged
      <4>2. Cardinality(Serving(m)) = 0 /\ Cardinality(Unlogged(m)) = 0
        BY <4>1, FS_EmptySet
      <4>3. logged[m].calls = pfCount[m] /\ logged[m].bytes = shardBytes[m]
        BY <2>3, <3>1, <3>3, <4>2
      <4>4. logged[m] \in [calls : Nat, bytes : Nat]
        BY <2>2 DEF CountersTyped
      <4>5. QED
        BY <4>3, <4>4
    <3>4. QED
      BY <3>2, <3>3
  <2>6. QED
    BY <2>4, <2>5 DEF MeterHolds, MeterMatchesLog
<1>2. QED
  BY <1>1, StoreInvariant, PTL

\* A mission is told that it has a blob only when it was served that blob in full, also
\* when calls of one key overlap (pf_delta.go:32-85).
THEOREM NothingWithheld == Spec => []WithheldWasServed
<1>1. StoreInv => WithheldWasServed
  BY DEF StoreInv, VersionsServed, WithheldWasServed
<1>2. QED
  BY <1>1, StoreInvariant, PTL
-----------------------------------------------------------------------------
(* The deltas of a prompt. *)

Longer(old, new) == IF Len(new) > Len(old) THEN Len(new) ELSE Len(old)
DeltaRecords(old, new) ==
  [op : {"add", "remove", "replace"}, index : 1 .. Longer(old, new),
   old : ToSet(old) \cup {None}, new : ToSet(new) \cup {None}]

\* f has the deltas of the first sections.
AreUpTo(old, new, f) ==
  f = [i \in 0 .. Longer(old, new) |-> IF i = 0 THEN <<>> ELSE f[i - 1] \o DeltaAt(old, new, i)]

LEMMA DeltaTyped ==
  ASSUME NEW H, NEW old \in Seq(H), NEW new \in Seq(H), NEW i \in 1 .. Longer(old, new)
  PROVE  /\ DeltaAt(old, new, i) \in Seq(DeltaRecords(old, new))
         /\ Longer(old, new) \in Nat
         /\ i > Len(old) => i \in DOMAIN new
         /\ i > Len(new) => i \in DOMAIN old
<1>1. /\ Len(old) \in Nat /\ Len(new) \in Nat /\ Longer(old, new) \in Nat
      /\ DOMAIN old = 1 .. Len(old) /\ DOMAIN new = 1 .. Len(new)
      /\ i > Len(old) => i \in DOMAIN new
      /\ i > Len(new) => i \in DOMAIN old
      /\ ~(i > Len(old)) => i \in DOMAIN old
      /\ ~(i > Len(new)) => i \in DOMAIN new
  BY DEF Longer
<1>2. /\ \A k \in DOMAIN old : old[k] \in ToSet(old)
      /\ \A k \in DOMAIN new : new[k] \in ToSet(new)
  BY DEF ToSet
<1>3. ASSUME NEW d \in DeltaRecords(old, new) PROVE <<d>> \in Seq(DeltaRecords(old, new))
  OBVIOUS
<1>4. /\ i > Len(old) => Delta("add", i, None, new[i]) \in DeltaRecords(old, new)
      /\ i > Len(new) => Delta("remove", i, old[i], None) \in DeltaRecords(old, new)
      /\ ~(i > Len(old)) /\ ~(i > Len(new)) =>
           Delta("replace", i, old[i], new[i]) \in DeltaRecords(old, new)
  BY <1>1, <1>2 DEF Delta, DeltaRecords
<1>5. <<>> \in Seq(DeltaRecords(old, new))
  OBVIOUS
<1>6. DeltaAt(old, new, i) \in Seq(DeltaRecords(old, new))
  BY <1>3, <1>4, <1>5 DEF DeltaAt
<1>7. QED
  BY <1>1, <1>6

IsUpTo(old, new, n, f) ==
  /\ f \in [0 .. n -> Seq(DeltaRecords(old, new))] /\ f[0] = <<>>
  /\ \A k \in 1 .. n : f[k] = f[k - 1] \o DeltaAt(old, new, k)

LEMMA UpToExists ==
  ASSUME NEW H, NEW old \in Seq(H), NEW new \in Seq(H)
  PROVE  \E f : AreUpTo(old, new, f)
<1> DEFINE D == Seq(DeltaRecords(old, new))
           max == Longer(old, new)
           Has(n, f) == IsUpTo(old, new, n, f)
           bad == {n \in 0 .. max : ~ \E f : Has(n, f)}
<1>1. max \in Nat
  BY DEF Longer
<1>2. \A i \in 1 .. max : DeltaAt(old, new, i) \in D
  BY DeltaTyped
<1>3. <<>> \in D /\ \A a, b \in D : a \o b \in D
  OBVIOUS
<1> HIDE DEF D, max
<1>4. bad = {}
  <2>1. SUFFICES ASSUME bad # {} PROVE FALSE
    OBVIOUS
  <2>2. PICK n \in bad : \A m \in bad : n <= m
    <3>1. bad \subseteq Nat
      BY <1>1
    <3>2. QED
      BY <2>1, <3>1, LeastNatural
  <2>3. n \in 0 .. max /\ ~ \E f : Has(n, f)
    OBVIOUS
  <2>4. CASE n = 0
    <3>1. [k \in 0 .. 0 |-> <<>>] \in [0 .. 0 -> D] /\ [k \in 0 .. 0 |-> <<>>][0] = <<>>
      BY <1>3
    <3>2. Has(0, [k \in 0 .. 0 |-> <<>>])
      BY <3>1 DEF IsUpTo, D
    <3>3. QED
      BY <2>3, <2>4, <3>2
  <2>5. CASE n # 0
    <3>1. n \in 1 .. max /\ n - 1 \in 0 .. max /\ n - 1 < n /\ n \in Nat /\ n - 1 \in Nat
      BY <1>1, <2>3, <2>5
    <3>2. n - 1 \notin bad
      <4>1. SUFFICES ASSUME n - 1 \in bad PROVE FALSE
        OBVIOUS
      <4>2. n <= n - 1
        BY <2>2, <4>1
      <4>3. QED
        BY <3>1, <4>2
    <3>3. PICK f : Has(n - 1, f)
      BY <3>1, <3>2
    <3>14. /\ f \in [0 .. n - 1 -> D] /\ f[0] = <<>>
           /\ \A k \in 1 .. n - 1 : f[k] = f[k - 1] \o DeltaAt(old, new, k)
      BY <3>3 DEF IsUpTo, D
    <3>4. DEFINE g == [k \in 0 .. n |-> IF k = n THEN f[n - 1] \o DeltaAt(old, new, n) ELSE f[k]]
    <3>5. f[n - 1] \in D
      BY <3>1, <3>14
    <3>6. f[n - 1] \o DeltaAt(old, new, n) \in D
      BY <1>2, <1>3, <3>1, <3>5
    <3>7. \A k \in 0 .. n : k # n => f[k] \in D /\ k \in 0 .. n - 1
      BY <3>1, <3>14
    <3>8. g \in [0 .. n -> D]
      BY <3>6, <3>7
    <3>9. g[0] = <<>> /\ g[n] = f[n - 1] \o DeltaAt(old, new, n)
          /\ \A k \in 0 .. n - 1 : g[k] = f[k]
      BY <3>1, <3>14
    <3> HIDE DEF g
    <3>10. \A k \in 1 .. n : g[k] = g[k - 1] \o DeltaAt(old, new, k)
      <4>1. SUFFICES ASSUME NEW k \in 1 .. n PROVE g[k] = g[k - 1] \o DeltaAt(old, new, k)
        OBVIOUS
      <4>2. k - 1 \in 0 .. n - 1 /\ (k # n => k \in 1 .. n - 1 /\ k \in 0 .. n - 1)
        BY <3>1
      <4>3. QED
        BY <3>9, <3>14, <4>2
    <3>11. Has(n, g)
      BY <3>8, <3>9, <3>10 DEF IsUpTo, D
    <3>12. QED
      BY <2>3, <3>11
  <2>6. QED
    BY <2>4, <2>5
<1>5. PICK f : Has(max, f)
  <2>1. max \in 0 .. max
    BY <1>1
  <2>2. max \notin bad
    <3> HIDE DEF bad
    <3>1. QED
      BY <1>4
  <2>3. QED
    BY <2>1, <2>2
<1>9. /\ f \in [0 .. max -> D] /\ f[0] = <<>>
      /\ \A k \in 1 .. max : f[k] = f[k - 1] \o DeltaAt(old, new, k)
  BY <1>5 DEF IsUpTo, D
<1>6. \A k \in 0 .. max : f[k] = IF k = 0 THEN <<>> ELSE f[k - 1] \o DeltaAt(old, new, k)
  BY <1>1, <1>9, SMTT(40)
<1>7. f = [k \in 0 .. max |-> IF k = 0 THEN <<>> ELSE f[k - 1] \o DeltaAt(old, new, k)]
  BY <1>6, <1>9
<1>8. QED
  BY <1>7 DEF AreUpTo, max

\* The deltas are those of the single sections.
LEMMA DeltasFound ==
  ASSUME NEW H, NEW old \in Seq(H), NEW new \in Seq(H)
  PROVE  ToSet(ComputeDeltas(old, new))
           = UNION {ToSet(DeltaAt(old, new, i)) : i \in 1 .. Longer(old, new)}
<1> DEFINE D == Seq(DeltaRecords(old, new))
           max == Longer(old, new)
           first(k) == UNION {ToSet(DeltaAt(old, new, i)) : i \in 1 .. k}
<1>1. max \in Nat
  BY DEF Longer
<1>2. \A i \in 1 .. max : DeltaAt(old, new, i) \in D
  BY DeltaTyped
<1>3. PICK f : f = CHOOSE g : AreUpTo(old, new, g)
  OBVIOUS
<1>4. AreUpTo(old, new, f)
  BY <1>3, UpToExists
<1>5. ComputeDeltas(old, new) = f[max]
  BY <1>3 DEF ComputeDeltas, AreUpTo, Longer
<1>6. \A k \in 0 .. max : f[k] = IF k = 0 THEN <<>> ELSE f[k - 1] \o DeltaAt(old, new, k)
  BY <1>4 DEF AreUpTo
<1>7. \A a, b \in D : a \o b \in D /\ ToSet(a \o b) = ToSet(a) \cup ToSet(b)
  <2>1. SUFFICES ASSUME NEW a \in D, NEW b \in D
                 PROVE  a \o b \in D /\ ToSet(a \o b) = ToSet(a) \cup ToSet(b)
    OBVIOUS
  <2>2. Range(a \o b) = Range(a) \cup Range(b)
    BY RangeConcatenation
  <2>3. a \o b \in D
    OBVIOUS
  <2>4. ToSet(a) = Range(a) /\ ToSet(b) = Range(b) /\ ToSet(a \o b) = Range(a \o b)
    BY DEF ToSet, Range
  <2>5. QED
    BY <2>2, <2>3, <2>4
<1>8. <<>> \in D /\ ToSet(<<>>) = {}
  BY DEF ToSet
<1> HIDE DEF D, max
<1> DEFINE bad == {k \in 0 .. max : ~(f[k] \in D /\ ToSet(f[k]) = first(k))}
<1>9. bad = {}
  <2>1. SUFFICES ASSUME bad # {} PROVE FALSE
    OBVIOUS
  <2>2. PICK n \in bad : \A m \in bad : n <= m
    <3>1. bad \subseteq Nat
      BY <1>1
    <3>2. QED
      BY <2>1, <3>1, LeastNatural
  <2>3. n \in 0 .. max /\ ~(f[n] \in D /\ ToSet(f[n]) = first(n))
    OBVIOUS
  <2>4. CASE n = 0
    <3>1. f[0] = <<>>
      BY <1>1, <1>6, SMTT(40)
    <3>2. first(0) = {}
      OBVIOUS
    <3>3. QED
      BY <1>8, <2>3, <2>4, <3>1, <3>2
  <2>5. CASE n # 0
    <3>1. n \in 1 .. max /\ n - 1 \in 0 .. max /\ n - 1 < n
      BY <1>1, <2>3, <2>5
    <3>2. n - 1 \notin bad
      BY <1>1, <2>2, <3>1
    <3>3. f[n - 1] \in D /\ ToSet(f[n - 1]) = first(n - 1)
      BY <3>1, <3>2
    <3>4. f[n] = f[n - 1] \o DeltaAt(old, new, n)
      BY <1>6, <2>3, <2>5
    <3>5. f[n] \in D /\ ToSet(f[n]) = first(n - 1) \cup ToSet(DeltaAt(old, new, n))
      BY <1>2, <1>7, <3>1, <3>3, <3>4
    <3>6. 1 .. n = (1 .. n - 1) \cup {n}
      BY <3>1
    <3>7. first(n) = first(n - 1) \cup ToSet(DeltaAt(old, new, n))
      BY <3>6
    <3>8. QED
      BY <2>3, <3>5, <3>7
  <2>6. QED
    BY <2>4, <2>5
<1>10. ToSet(f[max]) = first(max)
  BY <1>1, <1>9
<1>11. QED
  BY <1>5, <1>10 DEF max

\* What becomes of section i, unless it stays.
Same(old, new, i) == ~(i > Len(old)) /\ ~(i > Len(new)) /\ old[i] = new[i]
DeltaOf(old, new, i) ==
  IF i > Len(old) THEN Delta("add", i, None, new[i])
  ELSE IF i > Len(new) THEN Delta("remove", i, old[i], None)
  ELSE Delta("replace", i, old[i], new[i])
Changed(old, new) == {i \in 1 .. Longer(old, new) : ~Same(old, new, i)}

LEMMA DeltasAre ==
  ASSUME NEW H, NEW old \in Seq(H), NEW new \in Seq(H)
  PROVE  ToSet(ComputeDeltas(old, new)) = {DeltaOf(old, new, i) : i \in Changed(old, new)}
<1>1. ASSUME NEW i \in 1 .. Longer(old, new)
      PROVE  ToSet(DeltaAt(old, new, i)) = IF Same(old, new, i) THEN {} ELSE {DeltaOf(old, new, i)}
  <2>1. ToSet(<<>>) = {} /\ \A d : ToSet(<<d>>) = {d}
    BY DEF ToSet
  <2>2. DeltaAt(old, new, i) = IF Same(old, new, i) THEN <<>> ELSE <<DeltaOf(old, new, i)>>
    BY DEF DeltaAt, Same, DeltaOf
  <2>3. QED
    BY <2>1, <2>2
<1>2. ToSet(ComputeDeltas(old, new))
        = UNION {ToSet(DeltaAt(old, new, i)) : i \in 1 .. Longer(old, new)}
  BY DeltasFound
<1>3. QED
  BY <1>1, <1>2 DEF Changed

LEMMA ImageSize ==
  ASSUME NEW D, IsFiniteSet(D), NEW S, NEW F \in [D -> S],
         \A i, j \in D : F[i] = F[j] => i = j, S = {F[i] : i \in D}
  PROVE  Cardinality(S) = Cardinality(D)
<1>1. F \in Bijection(D, S)
  BY DEF Bijection, Injection, Surjection, IsInjective
<1>2. ExistsBijection(D, S)
  BY <1>1 DEF ExistsBijection
<1>3. QED
  BY <1>2, FS_Bijection

Ops(old, new, op) == Cardinality({d \in ToSet(ComputeDeltas(old, new)) : d.op = op})

\* The sections that are added, or that are removed.
LEMMA OpsSize ==
  ASSUME NEW H, NEW old \in Seq(H), NEW new \in Seq(H),
         NEW op, NEW a \in Nat, NEW b \in Nat,
         \/ op = "add" /\ a = Len(old) /\ b = Len(new)
         \/ op = "remove" /\ a = Len(new) /\ b = Len(old)
  PROVE  Ops(old, new, op) = IF a > b THEN 0 ELSE b - a
<1> DEFINE F == [i \in a + 1 .. b |-> DeltaOf(old, new, i)]
           T == {DeltaOf(old, new, i) : i \in a + 1 .. b}
<1>1. Len(old) \in Nat /\ Len(new) \in Nat
      /\ Longer(old, new) = IF Len(new) > Len(old) THEN Len(new) ELSE Len(old)
  BY DEF Longer
<1>2. \A i : DeltaOf(old, new, i).index = i
  BY DEF DeltaOf, Delta
<1>3. \A i \in Changed(old, new) : DeltaOf(old, new, i).op = op <=> i \in a + 1 .. b
  BY <1>1 DEF DeltaOf, Delta, Changed
<1>4. a + 1 .. b \subseteq Changed(old, new)
  BY <1>1 DEF Changed, Same
<1>5. {d \in ToSet(ComputeDeltas(old, new)) : d.op = op} = T
  BY <1>3, <1>4, DeltasAre, SMTT(40)
<1>6. F \in [a + 1 .. b -> T] /\ \A i, j \in a + 1 .. b : F[i] = F[j] => i = j
  BY <1>2
<1>7. T = {F[i] : i \in a + 1 .. b}
  OBVIOUS
<1> HIDE DEF F, T
<1>8. Cardinality(T) = IF a > b THEN 0 ELSE b - a
  <2>1. PICK c, D : c \in Int /\ c = a + 1 /\ D = c .. b
    OBVIOUS
  <2>2. b \in Int /\ IsFiniteSet(D) /\ Cardinality(D) = IF c > b THEN 0 ELSE b - c + 1
    BY <2>1, FS_Interval
  <2>3. F \in [D -> T] /\ (\A i, j \in D : F[i] = F[j] => i = j) /\ T = {F[i] : i \in D}
    BY <1>6, <1>7, <2>1
  <2>4. Cardinality(T) = Cardinality(D)
    BY <2>2, <2>3, ImageSize, SMTT(40)
  <2>5. QED
    BY <2>1, <2>2, <2>4
<1>9. QED
  BY <1>5, <1>8 DEF Ops

\* The deltas from one list of sections to another make the second of the first.
LEMMA DeltasApply ==
  ASSUME NEW H, NEW old \in Seq(H), NEW new \in Seq(H)
  PROVE  ApplyDeltas(old, ComputeDeltas(old, new)) = new
<1> DEFINE all == ToSet(ComputeDeltas(old, new))
           of(i) == {d \in all : d.index = i}
           len == Len(old) + Ops(old, new, "add") - Ops(old, new, "remove")
<1>1. Len(old) \in Nat /\ Len(new) \in Nat
      /\ Longer(old, new) = IF Len(new) > Len(old) THEN Len(new) ELSE Len(old)
  BY DEF Longer
<1>9. new = [i \in 1 .. Len(new) |-> new[i]]
  <2>1. new \in [1 .. Len(new) -> H]
    OBVIOUS
  <2>2. QED
    BY <2>1
<1>2. /\ Ops(old, new, "add") = IF Len(old) > Len(new) THEN 0 ELSE Len(new) - Len(old)
      /\ Ops(old, new, "remove") = IF Len(new) > Len(old) THEN 0 ELSE Len(old) - Len(new)
  BY <1>1, OpsSize
<1>3. len = Len(new)
  BY <1>1, <1>2
<1>4. all = {DeltaOf(old, new, i) : i \in Changed(old, new)}
  BY DeltasAre
<1>5. \A i : DeltaOf(old, new, i).index = i
  BY DEF DeltaOf, Delta
<1> HIDE DEF all
<1>6. ASSUME NEW i \in 1 .. Len(new)
      PROVE  (IF of(i) = {} THEN old[i] ELSE (CHOOSE d \in of(i) : TRUE).new) = new[i]
  <2>1. i \in 1 .. Longer(old, new)
    <3>1. PICK n \in Nat, o \in Nat : n = Len(new) /\ o = Len(old)
      BY <1>1
    <3>2. Longer(old, new) \in Nat /\ n <= Longer(old, new)
      BY <1>1, <3>1
    <3>3. QED
      BY <3>1, <3>2
  <2>2. CASE Same(old, new, i)
    <3>1. i \notin Changed(old, new)
      BY <2>2 DEF Changed
    <3>2. of(i) = {}
      BY <1>4, <1>5, <3>1
    <3>3. QED
      BY <2>2, <3>2 DEF Same
  <2>3. CASE ~Same(old, new, i)
    <3>1. i \in Changed(old, new)
      BY <2>1, <2>3 DEF Changed
    <3>2. of(i) = {DeltaOf(old, new, i)}
      BY <1>4, <1>5, <3>1
    <3>3. (CHOOSE d \in of(i) : TRUE) = DeltaOf(old, new, i)
      BY <3>2
    <3>4. DeltaOf(old, new, i).new = new[i]
      BY <1>1 DEF DeltaOf, Delta
    <3>5. QED
      BY <3>2, <3>3, <3>4
  <2>4. QED
    BY <2>2, <2>3
<1>7. ApplyDeltas(old, ComputeDeltas(old, new))
        = [i \in 1 .. len |-> IF of(i) = {} THEN old[i] ELSE (CHOOSE d \in of(i) : TRUE).new]
  BY DEF ApplyDeltas, all, Ops
<1> HIDE DEF of, len
<1>8. QED
  BY <1>3, <1>6, <1>7, <1>9

\* One goroutine at a time stores deltas.
OneDeltaWorker == \A v, w \in DeltaWorkers : v = w

\* Artifacts are found under their own prompt, also by the goroutine that stores deltas,
\* and what is named as parent when it stores them is what they are from.
DeltaOrder ==
  /\ \A p \in Prompts : prompts[p] # 0 => heap[prompts[p]].prompt = p
  /\ \A w \in Workers :
       /\ job[w].op = "delta" => w \in DeltaWorkers
       /\ job[w].stage \in {"parent", "deltas", "reinstall"} => heap[job[w].art].prompt = job[w].prompt
       /\ Doing(w, "deltas") => heap[job[w].art].parent = job[w].parent
  /\ \A a \in DOMAIN heap :
       heap[a].parent # None /\ (\A w \in Workers : ~(Doing(w, "deltas") /\ job[w].art = a)) =>
         heap[a].deltas = ComputeDeltas(Sections[heap[a].parent], Sections[heap[a].prompt])

DeltaInv == StoreInv /\ DeltaOrder

\* The goroutine that stores deltas is the only one.
LEMMA OneStores ==
  ASSUME OneDeltaWorker, DeltaInv, NEW v \in Workers, NEW w \in Workers,
         job[v].stage \in {"parent", "deltas", "reinstall"},
         job[w].stage \in {"parent", "deltas", "reinstall"}
  PROVE  v = w
<1>1. job[v].op = "delta" /\ job[w].op = "delta"
  BY JobFacts DEF DeltaInv, JobInOrder
<1>2. QED
  BY <1>1 DEF DeltaInv, DeltaOrder, OneDeltaWorker

LEMMA DeltaFacts ==
  ASSUME StoreInv
  PROVE  /\ Len(heap) \in Nat /\ DOMAIN heap = 1 .. Len(heap)
         /\ prompts \in [Prompts -> 0 .. Len(heap)] /\ job \in [Workers -> Jobs]
         /\ HeapTyped
         /\ \A w \in Workers : job[w].stage \in {"parent", "deltas", "reinstall"} =>
              job[w].art \in DOMAIN heap /\ job[w].prompt \in Prompts /\ job[w].parent \in Prompts
BY StoreParts, JobFacts DEF Parts, HeapTyped, HeapIsList, PromptsTyped, WorkersInOrder, JobInOrder

\* A step of one job that leaves the artifacts alone.
LEMMA JobDelta ==
  ASSUME DeltaInv, StoreInv', NEW w \in Workers, NEW j, job' = [job EXCEPT ![w] = j],
         UNCHANGED <<heap, prompts>>, job[w].stage # "deltas", j.stage # "deltas",
         j.op = "delta" => w \in DeltaWorkers,
         j.stage \in {"parent", "reinstall"} => heap[j.art].prompt = j.prompt
  PROVE  DeltaInv'
<1>1. job \in [Workers -> Jobs]
  BY DeltaFacts DEF DeltaInv
<1>2. job'[w] = j /\ \A v \in Workers : v # w => job'[v] = job[v]
  BY <1>1
<1>3. \A v \in Workers, a \in DOMAIN heap :
        (Doing(v, "deltas") /\ job[v].art = a)' <=> Doing(v, "deltas") /\ job[v].art = a
  BY <1>2 DEF Doing
<1>4. \A v \in Workers :
        /\ job'[v].op = "delta" => v \in DeltaWorkers
        /\ job'[v].stage \in {"parent", "deltas", "reinstall"} => heap'[job'[v].art].prompt = job'[v].prompt
        /\ job'[v].stage = "deltas" => heap'[job'[v].art].parent = job'[v].parent
  BY <1>2 DEF DeltaInv, DeltaOrder, Doing
<1>5. DeltaOrder'
  BY <1>3, <1>4 DEF DeltaInv, DeltaOrder, Doing
<1>6. QED
  BY <1>5 DEF DeltaInv

LEMMA LookupDelta ==
  ASSUME DeltaInv, StoreInv', NEW w \in Workers, Ready(w), NEW op \in {"store", "delta"},
         NEW p \in Prompts, NEW q, Lookup(w, op, p, q), UNCHANGED <<heap, prompts>>,
         job'[w].op = "delta" => w \in DeltaWorkers
  PROVE  DeltaInv'
<1>1. job \in [Workers -> Jobs]
  BY DeltaFacts DEF DeltaInv
<1>2. PICK j : j = IF prompts[p] # 0
                     THEN IF op = "store" THEN Idle
                          ELSE [op |-> op, stage |-> "parent", prompt |-> p, parent |-> q,
                                art |-> prompts[p]]
                     ELSE [op |-> op, stage |-> "put", prompt |-> p, parent |-> q, art |-> 0]
  OBVIOUS
<1>3. job' = [job EXCEPT ![w] = j] /\ job'[w] = j
  BY <1>1, <1>2 DEF Lookup
<1>4. j.stage # "deltas" /\ job[w].stage # "deltas"
  BY <1>2 DEF Ready, Idle
<1>5. j.stage \in {"parent", "reinstall"} => heap[j.art].prompt = j.prompt
  BY <1>2 DEF Idle, DeltaInv, DeltaOrder
<1>6. QED
  BY <1>3, <1>4, <1>5, JobDelta

\* The steps of Store before the artifact is made.
LEMMA RawDelta ==
  ASSUME DeltaInv, StoreInv', NEW w \in Workers, PutRaw(w) \/ CreateRaw(w) \/ RawWritten(w)
  PROVE  DeltaInv'
<1>1. UNCHANGED <<heap, prompts>> /\ job[w].stage \in {"put", "create", "raw"}
  BY DEF PutRaw, CreateRaw, RawWritten, Doing
<1>2. \/ \E s \in {"install", "create", "raw"} : Goto(w, s)
      \/ Finish(w)
  BY DEF PutRaw, CreateRaw, RawWritten
<1>3. CASE \E s \in {"install", "create", "raw"} : Goto(w, s)
  <2>1. PICK s \in {"install", "create", "raw"} : Goto(w, s)
    BY <1>3
  <2>2. PICK j \in Jobs : job' = [job EXCEPT ![w] = j] /\ j.stage = s /\ j.op = job[w].op
    BY <2>1, NextStage DEF DeltaInv
  <2>3. QED
    BY <1>1, <2>1, <2>2, JobDelta, ZenonT(60) DEF DeltaInv, DeltaOrder
<1>4. CASE Finish(w)
  <2>1. Idle.stage = "idle" /\ Idle.op = "idle" /\ job' = [job EXCEPT ![w] = Idle]
    BY <1>4 DEF Finish, Idle
  <2>2. QED
    BY <1>1, <2>1, JobDelta
<1>5. QED
  BY <1>2, <1>3, <1>4

LEMMA InstallDelta ==
  ASSUME DeltaInv, StoreInv', NEW w \in Workers, Install(w)
  PROVE  DeltaInv'
<1>1. PICK i \in Jobs, n \in Nat : i = job[w] /\ n = Len(heap)
  BY DeltaFacts DEF DeltaInv
<1>2. /\ DOMAIN heap = 1 .. n /\ prompts \in [Prompts -> 0 .. n] /\ job \in [Workers -> Jobs]
      /\ HeapTyped /\ i.prompt \in Prompts /\ i.stage = "install"
      /\ i.op = "delta" => w \in DeltaWorkers
  BY <1>1, DeltaFacts, JobFacts DEF DeltaInv, DeltaOrder, Install, Doing
<1>3. PICK e : e = [prompt |-> i.prompt, parent |-> None, deltas |-> <<>>]
  OBVIOUS
<1>4. /\ heap' = Append(heap, e) /\ e.prompt = i.prompt /\ e.parent = None
      /\ prompts' = [prompts EXCEPT ![i.prompt] = Len(heap')]
  BY <1>1, <1>3 DEF Install
<1>5. Len(heap') = n + 1 /\ DOMAIN heap' = 1 .. n + 1
  BY <1>1, <1>2, <1>3, <1>4, HeapGrows, DeltaFacts DEF DeltaInv
<1>6. heap'[n + 1] = e /\ \A a \in 1 .. n : heap'[a] = heap[a]
  <2>1. PICK T : heap \in Seq(T) /\ e \in T
    <3>1. heap \in Seq({heap[a] : a \in 1 .. Len(heap)})
      BY <1>2, HeapAsSequence DEF HeapTyped
    <3>2. heap \in Seq({heap[a] : a \in 1 .. Len(heap)} \cup {e})
      BY <3>1
    <3>3. QED
      BY <3>2
  <2>2. QED
    BY <1>1, <1>4, <2>1, AppendFacts
<1>7. PICK j : j = IF i.op = "store" THEN Idle ELSE [i EXCEPT !.stage = "parent", !.art = n + 1]
  OBVIOUS
<1>8. job' = [job EXCEPT ![w] = j]
  BY <1>1, <1>5, <1>7 DEF Install
<1>9. job'[w] = j /\ \A v \in Workers : v # w => job'[v] = job[v]
  BY <1>2, <1>8
<1>10. /\ j.stage \in {"idle", "parent"} /\ (j.op = "delta" => w \in DeltaWorkers)
       /\ j.stage = "parent" => j.art = n + 1 /\ j.prompt = i.prompt
  BY <1>2, <1>7 DEF Idle, Jobs
<1>11. \A v \in Workers :
         job[v].stage \in {"parent", "deltas", "reinstall"} => job[v].art \in 1 .. n
  BY <1>2, DeltaFacts DEF DeltaInv
<1>12. \A p \in Prompts : prompts'[p] # 0 => heap'[prompts'[p]].prompt = p
  BY <1>1, <1>2, <1>4, <1>5, <1>6 DEF DeltaInv, DeltaOrder
<1>13. \A v \in Workers :
        /\ job'[v].op = "delta" => v \in DeltaWorkers
        /\ job'[v].stage \in {"parent", "deltas", "reinstall"} => heap'[job'[v].art].prompt = job'[v].prompt
        /\ job'[v].stage = "deltas" => heap'[job'[v].art].parent = job'[v].parent
  <2>1. SUFFICES ASSUME NEW v \in Workers
        PROVE  /\ job'[v].op = "delta" => v \in DeltaWorkers
               /\ job'[v].stage \in {"parent", "deltas", "reinstall"} => heap'[job'[v].art].prompt = job'[v].prompt
               /\ job'[v].stage = "deltas" => heap'[job'[v].art].parent = job'[v].parent
    OBVIOUS
  <2>2. CASE v = w
    BY <1>4, <1>6, <1>9, <1>10, <2>2
  <2>3. CASE v # w
    <3>1. job[v].stage \in {"parent", "deltas", "reinstall"} => heap'[job[v].art] = heap[job[v].art]
      BY <1>6, <1>11
    <3>2. QED
      BY <1>9, <2>3, <3>1 DEF DeltaInv, DeltaOrder, Doing
  <2>4. QED
    BY <2>2, <2>3
<1>14. ASSUME NEW a \in DOMAIN heap', heap'[a].parent # None,
              \A v \in Workers : ~(Doing(v, "deltas") /\ job[v].art = a)'
       PROVE  heap'[a].deltas = ComputeDeltas(Sections[heap'[a].parent], Sections[heap'[a].prompt])
  <2>1. a \in DOMAIN heap /\ heap'[a] = heap[a]
    BY <1>2, <1>4, <1>5, <1>6, <1>14
  <2>2. \A v \in Workers : ~(Doing(v, "deltas") /\ job[v].art = a)
    BY <1>1, <1>2, <1>9, <1>14 DEF Doing
  <2>3. QED
    BY <1>14, <2>1, <2>2 DEF DeltaInv, DeltaOrder
<1>15. DeltaOrder'
  BY <1>12, <1>13, <1>14 DEF DeltaOrder, Doing
<1>16. QED
  BY <1>15, SMTT(40) DEF DeltaInv

\* StoreDelta changes its artifact: the parent, and then the deltas.
LEMMA ChangeDelta ==
  ASSUME OneDeltaWorker, DeltaInv, StoreInv', NEW w \in Workers, SetParent(w) \/ SetDeltas(w)
  PROVE  DeltaInv'
<1>1. PICK i \in Jobs, a \in DOMAIN heap : i = job[w] /\ a = i.art
  <2>1. job[w] \in Jobs /\ job[w].art \in DOMAIN heap
    BY DeltaFacts DEF DeltaInv, SetParent, SetDeltas, Doing
  <2>2. QED
    BY <2>1
<1>2. /\ job \in [Workers -> Jobs] /\ HeapTyped /\ prompts' = prompts
      /\ i.stage \in {"parent", "deltas"}
      /\ heap[a].prompt = i.prompt /\ (i.op = "delta" => w \in DeltaWorkers)
      /\ i.stage = "deltas" => heap[a].parent = i.parent
  BY <1>1, DeltaFacts DEF DeltaInv, DeltaOrder, SetParent, SetDeltas, Doing
<1>3. PICK e : /\ heap' = [heap EXCEPT ![a] = e] /\ e.prompt = i.prompt /\ e.parent = i.parent
               /\ i.stage = "deltas" =>
                    e.deltas = ComputeDeltas(Sections[i.parent], Sections[i.prompt])
  <2>1. heap[a] = [prompt |-> heap[a].prompt, parent |-> heap[a].parent, deltas |-> heap[a].deltas]
    BY <1>2, ArtifactFields
  <2>2. CASE i.stage = "parent"
    <3>1. heap' = [heap EXCEPT ![a].parent = i.parent]
      BY <1>1, <2>2 DEF SetParent, SetDeltas, Doing
    <3>2. [heap[a] EXCEPT !.parent = i.parent].prompt = i.prompt
          /\ [heap[a] EXCEPT !.parent = i.parent].parent = i.parent
      BY <1>2, <2>1
    <3>3. QED
      BY <2>2, <3>1, <3>2
  <2>3. CASE i.stage = "deltas"
    <3>1. PICK d : d = ComputeDeltas(Sections[i.parent], Sections[i.prompt])
      OBVIOUS
    <3>2. heap' = [heap EXCEPT ![a].deltas = d]
      BY <1>1, <2>3, <3>1 DEF SetParent, SetDeltas, Doing
    <3>3. [heap[a] EXCEPT !.deltas = d].prompt = i.prompt
          /\ [heap[a] EXCEPT !.deltas = d].parent = i.parent
          /\ [heap[a] EXCEPT !.deltas = d].deltas = d
      BY <1>2, <2>1, <2>3
    <3>4. QED
      BY <3>1, <3>2, <3>3
  <2>4. QED
    BY <1>2, <2>2, <2>3
<1>4. heap'[a] = e /\ DOMAIN heap' = DOMAIN heap /\ \A b \in DOMAIN heap : b # a => heap'[b] = heap[b]
  <2>1. heap = [b \in DOMAIN heap |-> heap[b]]
    BY <1>2 DEF HeapTyped, HeapIsList
  <2>2. QED
    BY <1>3, <2>1
<1>5. PICK j \in Jobs : /\ job' = [job EXCEPT ![w] = j]
                        /\ j.stage = (IF i.stage = "parent" THEN "deltas" ELSE "reinstall")
                        /\ j.op = i.op /\ j.prompt = i.prompt /\ j.parent = i.parent /\ j.art = a
  <2>1. Goto(w, IF i.stage = "parent" THEN "deltas" ELSE "reinstall")
    BY <1>1 DEF SetParent, SetDeltas, Doing
  <2>2. QED
    BY <1>1, <2>1, NextStage DEF DeltaInv
<1>6. job'[w] = j /\ \A v \in Workers : v # w => job'[v] = job[v]
  BY <1>2, <1>5
<1>7. \A v \in Workers : v # w => job[v].stage \notin {"parent", "deltas", "reinstall"}
  BY <1>1, <1>2, OneStores
<1>8. \A p \in Prompts : prompts'[p] # 0 => heap'[prompts'[p]].prompt = p
  <2>1. ASSUME NEW p \in Prompts, prompts[p] # 0 PROVE heap'[prompts[p]].prompt = p
    <3>1. prompts[p] \in DOMAIN heap
      BY <2>1, DeltaFacts DEF DeltaInv
    <3>2. QED
      BY <1>2, <1>3, <1>4, <2>1, <3>1 DEF DeltaInv, DeltaOrder
  <2>2. QED
    BY <1>2, <2>1
<1>9. \A v \in Workers :
        /\ job'[v].op = "delta" => v \in DeltaWorkers
        /\ job'[v].stage \in {"parent", "deltas", "reinstall"} => heap'[job'[v].art].prompt = job'[v].prompt
        /\ job'[v].stage = "deltas" => heap'[job'[v].art].parent = job'[v].parent
  BY <1>2, <1>3, <1>4, <1>5, <1>6, <1>7 DEF DeltaInv, DeltaOrder
<1>10. ASSUME NEW b \in DOMAIN heap', heap'[b].parent # None,
              \A v \in Workers : ~(Doing(v, "deltas") /\ job[v].art = b)'
       PROVE  heap'[b].deltas = ComputeDeltas(Sections[heap'[b].parent], Sections[heap'[b].prompt])
  <2>1. CASE b = a
    <3>1. i.stage = "deltas"
      BY <1>2, <1>5, <1>6, <1>10, <2>1 DEF Doing
    <3>2. QED
      BY <1>3, <1>4, <2>1, <3>1
  <2>2. CASE b # a
    <3>1. b \in DOMAIN heap /\ heap'[b] = heap[b]
      BY <1>4, <1>10, <2>2
    <3>2. \A v \in Workers : ~(Doing(v, "deltas") /\ job[v].art = b)
      BY <1>1, <1>7, <2>2 DEF Doing
    <3>3. QED
      BY <1>10, <3>1, <3>2 DEF DeltaInv, DeltaOrder
  <2>3. QED
    BY <2>1, <2>2
<1>11. DeltaOrder'
  BY <1>8, <1>9, <1>10 DEF DeltaOrder, Doing
<1>12. QED
  BY <1>11 DEF DeltaInv

LEMMA ReinstallDelta ==
  ASSUME DeltaInv, StoreInv', NEW w \in Workers, Reinstall(w)
  PROVE  DeltaInv'
<1>1. PICK i \in Jobs : i = job[w]
  BY DeltaFacts DEF DeltaInv
<1>2. /\ prompts' = [prompts EXCEPT ![i.prompt] = i.art] /\ heap' = heap
      /\ i.stage = "reinstall" /\ job' = [job EXCEPT ![w] = Idle]
      /\ heap[i.art].prompt = i.prompt
      /\ job \in [Workers -> Jobs] /\ prompts \in [Prompts -> 0 .. Len(heap)]
  BY <1>1, DeltaFacts DEF DeltaInv, DeltaOrder, Reinstall, Doing, Finish
<1>3. job'[w] = Idle /\ \A v \in Workers : v # w => job'[v] = job[v]
  BY <1>2
<1>4. \A p \in Prompts : prompts'[p] # 0 => heap'[prompts'[p]].prompt = p
  BY <1>2 DEF DeltaInv, DeltaOrder
<1>5. \A v \in Workers :
        /\ job'[v].op = "delta" => v \in DeltaWorkers
        /\ job'[v].stage \in {"parent", "deltas", "reinstall"} => heap'[job'[v].art].prompt = job'[v].prompt
        /\ job'[v].stage = "deltas" => heap'[job'[v].art].parent = job'[v].parent
  BY <1>2, <1>3 DEF DeltaInv, DeltaOrder, Idle, Doing
<1>6. \A v \in Workers, a \in DOMAIN heap :
        (Doing(v, "deltas") /\ job[v].art = a)' <=> Doing(v, "deltas") /\ job[v].art = a
  BY <1>1, <1>2, <1>3 DEF Doing, Idle
<1>7. DeltaOrder'
  BY <1>2, <1>4, <1>5, <1>6 DEF DeltaInv, DeltaOrder, Doing
<1>8. QED
  BY <1>7 DEF DeltaInv

LEMMA PromptDelta ==
  ASSUME OneDeltaWorker, DeltaInv, StoreInv', NEW w \in Workers, PromptCall(w)
  PROVE  DeltaInv'
<1>1. PromptStep(w) /\ (Ready(w) /\ job'[w].op = "delta" => w \in DeltaWorkers)
  BY DEF PromptCall
<1>2. ASSUME NEW p \in Prompts, Store(w, p) PROVE DeltaInv'
  BY <1>1, <1>2, LookupDelta DEF Store
<1>3. ASSUME NEW p \in Prompts, NEW q \in Prompts, StoreDelta(w, p, q) PROVE DeltaInv'
  BY <1>1, <1>3, LookupDelta DEF StoreDelta
<1>4. QED
  BY <1>1, <1>2, <1>3, RawDelta, InstallDelta, ChangeDelta, ReinstallDelta DEF PromptStep

\* With one goroutine that stores deltas, the deltas of an artifact rebuild its sections
\* from those of the parent it names, whatever the prompts and their sections are, also
\* when Store makes the artifact anew beside it (prompt.go:154-214).
THEOREM DeltasAreRight == ASSUME OneDeltaWorker PROVE Spec => []DeltasRebuild
<1>1. Init /\ StoreInv => DeltaInv
  BY DEF Init, PromptInit, Idle, DeltaInv, DeltaOrder, Doing
<1>2. DeltaInv /\ StoreInv' /\ [Next]_vars => DeltaInv'
  <2>1. SUFFICES ASSUME DeltaInv, StoreInv', [Next]_vars PROVE DeltaInv'
    OBVIOUS
  <2>2. CASE Crash
    BY <2>1, <2>2 DEF Crash, Forget, Idle, DeltaInv, DeltaOrder, Doing
  <2>3. CASE UNCHANGED promptVars
    BY <2>1, <2>3 DEF promptVars, DeltaInv, DeltaOrder, Doing
  <2>4. ASSUME NEW w \in Workers, PromptCall(w) PROVE DeltaInv'
    BY <2>1, <2>4, PromptDelta
  <2>5. QED
    BY <2>1, <2>2, <2>3, <2>4 DEF Next, vars
<1>3. DeltaInv => DeltasRebuild
  <2>1. SUFFICES ASSUME DeltaInv, NEW a \in DOMAIN heap, heap[a].parent # None,
                        \A w \in Workers : ~(Doing(w, "deltas") /\ job[w].art = a)
                 PROVE  ApplyDeltas(Sections[heap[a].parent], heap[a].deltas)
                          = Sections[heap[a].prompt]
    BY DEF DeltasRebuild
  <2>2. heap[a].prompt \in Prompts /\ heap[a].parent \in Prompts
    BY <2>1, DeltaFacts, ArtifactFields DEF DeltaInv
  <2>3. heap[a].deltas = ComputeDeltas(Sections[heap[a].parent], Sections[heap[a].prompt])
    BY <2>1 DEF DeltaInv, DeltaOrder
  <2>4. PICK old, new : old = Sections[heap[a].parent] /\ new = Sections[heap[a].prompt]
    OBVIOUS
  <2>5. PICK H : old \in Seq(H) /\ new \in Seq(H)
    <3>1. old \in Seq(ToSet(old)) /\ new \in Seq(ToSet(new))
      BY <2>2, <2>4, PromptAssumption
    <3>2. old \in Seq(ToSet(old) \cup ToSet(new)) /\ new \in Seq(ToSet(old) \cup ToSet(new))
      BY <3>1
    <3>3. QED
      BY <3>2
  <2>6. QED
    BY <2>3, <2>4, <2>5, DeltasApply
<1>4. QED
  BY <1>1, <1>2, <1>3, StoreInvariant, PTL DEF Spec
=============================================================================
