----------------------------- MODULE PageFaults -----------------------------
(***************************************************************************)
(* Page faults of Heaven (src/heaven/pf.go), the budget a governor keeps   *)
(* around the router (pf_governor.go) and the tracker that answers a shard *)
(* a mission has already been served with a sentinel (pf_delta.go).  The   *)
(* shards are blobs of the store, shared with the prompts and with other   *)
(* goroutines.                                                             *)
(***************************************************************************)
EXTENDS PromptStore

CONSTANTS Missions,
          Keys,           \* what shardKey tells apart: a command with its arguments
          Answers,        \* of a key: the sequences of shards the router may answer with
          Size,           \* of a blob that is whole, in bytes
          MaxPFCalls, MaxShardBytes,  \* PFGovernorConfig
          DeltaWorkers,   \* goroutines that call StoreDelta
          MaxRequests,    \* bound: requests the daemon gets
          MaxCrashes      \* bound: crashes of the daemon

ASSUME FaultAssumption ==
  /\ Answers \in [Keys -> SUBSET Seq(Blobs)] /\ Size \in [Blobs -> Nat]
  /\ MaxPFCalls \in Nat \ {0} /\ MaxShardBytes \in Nat /\ IsFiniteSet(Workers)

VARIABLES
  fault,      \* the page fault a goroutine serves
  pfCount, shardBytes,  \* missionMetrics
  logged,     \* the pf events in the log since the boot: their number and bytes
  missed,     \* ghost: missions one of whose calls failed or was not logged
  versions,   \* DeltaTracker.missions: of a key the blob served last, or None
  served,     \* ghost: the blobs a mission was served in full
  misled,     \* ghost: missions told that they have a blob they were not served
  requests, crashes

faultVars == <<fault, pfCount, shardBytes, logged, missed, versions, served, misled>>
vars == <<blobVars, promptVars, faultVars, requests, crashes>>

NoFault == [stage |-> "idle", mission |-> None, key |-> None, todo |-> <<>>, shards |-> <<>>,
            counted |-> 0, size |-> 0]
Free(w) == Ready(w) /\ fault[w] = NoFault
Faulting(w, stage) == fault[w].stage = stage

NewMission(zero) == [m \in Missions |-> zero]
NoVersions == [m \in Missions |-> [k \in Keys |-> None]]

Init ==
  /\ BlobInit /\ PromptInit
  /\ fault = [w \in Workers |-> NoFault]
  /\ pfCount = NewMission(0) /\ shardBytes = NewMission(0)
  /\ logged = NewMission([calls |-> 0, bytes |-> 0])
  /\ missed = {} /\ versions = NoVersions
  /\ served = NewMission({}) /\ misled = {}
  /\ requests = 0 /\ crashes = 0
-----------------------------------------------------------------------------
\* The check of the governor, which the router's count follows as a step of its own.
WithinBudget(m) == pfCount[m] < MaxPFCalls /\ shardBytes[m] < MaxShardBytes

Request(w, m, k) ==
  /\ Free(w) /\ WithinBudget(m)
  /\ fault' = [fault EXCEPT ![w] = [NoFault EXCEPT !.stage = "enter", !.mission = m, !.key = k]]
  /\ UNCHANGED <<pfCount, shardBytes, logged, missed, versions, served, misled>>

\* The call is counted; it fails when an argument is missing or the index or the prompt
\* has no answer.
Enter(w) ==
  LET m == fault[w].mission IN
  /\ Faulting(w, "enter")
  /\ pfCount' = [pfCount EXCEPT ![m] = @ + 1]
  /\ \/ /\ \E shards \in Answers[fault[w].key] :
             fault' = [fault EXCEPT ![w].stage = "put", ![w].todo = shards]
        /\ UNCHANGED missed
     \/ /\ fault' = [fault EXCEPT ![w] = NoFault]
        /\ missed' = missed \cup {m}
  /\ UNCHANGED <<shardBytes, logged, versions, served, misled>>

\* storeShard has put the next shard.
Stored(w) ==
  fault' = [fault EXCEPT ![w].stage = "put", ![w].todo = Tail(@),
                         ![w].shards = Append(@, Head(fault[w].todo))]

PutShard(w) ==
  /\ Faulting(w, "put") /\ fault[w].todo # <<>>
  /\ IF Exists(Head(fault[w].todo))
       THEN Stored(w)
       ELSE fault' = [fault EXCEPT ![w].stage = "create"]
  /\ UNCHANGED <<pfCount, shardBytes, logged, missed, versions, served, misled>>

CreateShard(w) ==
  /\ Faulting(w, "create")
  /\ StartWrite(w, Head(fault[w].todo))
  /\ fault' = [fault EXCEPT ![w].stage = "write"]
  /\ UNCHANGED <<pfCount, shardBytes, logged, missed, versions, served, misled>>

\* A shard that cannot be written fails the call when it is the first one; a prefetched
\* one is left out.
ShardWritten(w) ==
  /\ Faulting(w, "write")
  /\ \/ EndWrite(w) /\ Stored(w) /\ UNCHANGED missed
     \/ /\ FailWrite(w)
        /\ IF fault[w].shards = <<>>
             THEN /\ fault' = [fault EXCEPT ![w] = NoFault]
                  /\ missed' = missed \cup {fault[w].mission}
             ELSE /\ fault' = [fault EXCEPT ![w].stage = "put", ![w].todo = Tail(@)]
                  /\ UNCHANGED missed
  /\ UNCHANGED <<pfCount, shardBytes, logged, versions, served, misled>>

\* The shards are read back one by one to add up their bytes; of a file cut short there
\* are none.
Bytes(b) == IF disk[b] = "whole" THEN Size[b] ELSE 0

ReadBack(w) ==
  LET f == fault[w] IN
  /\ Faulting(w, "put") /\ f.todo = <<>> /\ f.counted < Len(f.shards)
  /\ fault' = [fault EXCEPT ![w].counted = @ + 1, ![w].size = @ + Bytes(f.shards[f.counted + 1])]
  /\ UNCHANGED <<pfCount, shardBytes, logged, missed, versions, served, misled>>

Measure(w) ==
  LET f == fault[w] IN
  /\ Faulting(w, "put") /\ f.todo = <<>> /\ f.counted = Len(f.shards)
  /\ shardBytes' = [shardBytes EXCEPT ![f.mission] = @ + f.size]
  /\ fault' = [fault EXCEPT ![w].stage = "log"]
  /\ UNCHANGED <<pfCount, logged, missed, versions, served, misled>>

\* Variant: the event carries the mission's bytes so far.
LogTotal(w) ==
  /\ Faulting(w, "log")
  /\ logged' = [logged EXCEPT ![fault[w].mission] =
                  [calls |-> @.calls + 1, bytes |-> @.bytes + shardBytes[fault[w].mission]]]
  /\ fault' = [fault EXCEPT ![w].stage = "reply"]
  /\ UNCHANGED <<pfCount, shardBytes, missed, versions, served, misled>>
\* logPFEvent; an error of the log is ignored.
Log(w) ==
  LET m == fault[w].mission IN
  /\ Faulting(w, "log")
  /\ \/ /\ logged' = [logged EXCEPT ![m] = [calls |-> @.calls + 1, bytes |-> @.bytes + fault[w].size]]
        /\ UNCHANGED missed
     \/ missed' = missed \cup {m} /\ UNCHANGED logged
  /\ fault' = [fault EXCEPT ![w].stage = "reply"]
  /\ UNCHANGED <<pfCount, shardBytes, versions, served, misled>>

\* Variant: a version is noted for the key before it is compared.
NotedFirst(b, version) == TRUE
Unchanged(b, version) == b = version

\* CheckAndUpdate: all shards of a call have one key, so each is compared with the one
\* before it and the first with the last one of the call before.
Reply(w) ==
  LET m == fault[w].mission
      k == fault[w].key
      shards == fault[w].shards
      before(i) == IF i = 1 THEN versions[m][k] ELSE shards[i - 1]
      same == {i \in DOMAIN shards : Unchanged(shards[i], before(i))}
  IN
  /\ Faulting(w, "reply")
  /\ versions' = [versions EXCEPT ![m][k] = IF shards = <<>> THEN @ ELSE Last(shards)]
  /\ served' = [served EXCEPT ![m] = @ \cup {shards[i] : i \in DOMAIN shards \ same}]
  /\ misled' = IF \E i \in same : shards[i] \notin served'[m] THEN misled \cup {m} ELSE misled
  /\ fault' = [fault EXCEPT ![w] = NoFault]
  /\ UNCHANGED <<pfCount, shardBytes, logged, missed>>

FaultStep(w) ==
  \/ (\E m \in Missions, k \in Keys : Request(w, m, k)) /\ UNCHANGED blobVars
  \/ CreateShard(w) \/ ShardWritten(w)
  \/ (Enter(w) \/ PutShard(w) \/ ReadBack(w) \/ Measure(w) \/ Log(w) \/ Reply(w)) /\ UNCHANGED blobVars
-----------------------------------------------------------------------------
\* The daemon dies and boots: counts, versions and prompts are gone, the blobs stay.
Crash ==
  /\ crashes < MaxCrashes /\ crashes' = crashes + 1
  /\ LoseWrites /\ Forget
  /\ fault' = [w \in Workers |-> NoFault]
  /\ pfCount' = NewMission(0) /\ shardBytes' = NewMission(0)
  /\ logged' = NewMission([calls |-> 0, bytes |-> 0])
  /\ missed' = {} /\ versions' = NoVersions
  /\ UNCHANGED <<served, misled, requests>>

PromptCall(w) ==
  /\ fault[w] = NoFault
  /\ PromptStep(w)
  /\ Ready(w) /\ job'[w].op = "delta" => w \in DeltaWorkers
  /\ UNCHANGED faultVars

Next ==
  \/ \E w \in Workers :
       /\ PromptCall(w) \/ (Ready(w) /\ FaultStep(w) /\ UNCHANGED promptVars)
       /\ UNCHANGED crashes
       /\ requests' = requests + (IF Free(w) THEN 1 ELSE 0) /\ requests' <= MaxRequests
  \/ Crash

Spec == Init /\ [][Next]_vars
=============================================================================
