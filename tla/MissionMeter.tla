---------------------------- MODULE MissionMeter ----------------------------
(***************************************************************************)
(* The metrics of missions (src/god/meter.go), the thrash detector that    *)
(* reads and marks them (src/god/thrash.go) and the oracle that is asked   *)
(* for a new plan (src/god/oracle.go).  Get hands the metrics out by       *)
(* pointer: the detector and the oracle use them under no lock the         *)
(* aggregator takes, so their steps fall between those of other drivers.   *)
(***************************************************************************)
EXTENDS Naturals, SequencesExt

CONSTANTS Runners,   \* goroutines that run missions
          Metered,
          PFSoftLimit, PFConsecutiveTurns, MaxRejects, MaxConflicts, MaxTestFailures,
          Plans,     \* what an oracle may answer: the nodes of a plan
          MaxCalls   \* bound: calls of the aggregator, the detector and the oracle

ASSUME MeterAssumption ==
  /\ PFSoftLimit \in Nat /\ PFConsecutiveTurns \in Nat \ {0}
  /\ MaxRejects \in Nat \ {0} /\ MaxConflicts \in Nat \ {0} /\ MaxTestFailures \in Nat \ {0}
  /\ \A plan \in Plans : /\ plan \in Seq(ToSet(plan))
                         /\ \A node \in ToSet(plan) : node.deps \in Seq(ToSet(node.deps))

VARIABLES
  heap,      \* MissionMetrics: mission, pf, turnPFs, rejects, conflicts, fails, status
  missions,  \* ma.missions: the metrics of a mission in the heap, 0 when there are none
  latched,   \* td.latched
  checking,  \* the driver that holds td.mu, or none
  job,       \* of a driver: the call it is in, the metrics it has, how far it is, and as a
             \* ghost whether what a check looks for, or the mark that keeps a completion
             \* from changing the status, was there when it began
  events,    \* of a mission: its mission_thrashing lines in the log, and the plan of its
             \* last oracle_escalation line
  calls,
  turnPF,    \* ghost: of metrics, the page faults since the last EndTurn
  peak,      \* ghost: of metrics, the most page faults in turns on end, and test failures
  missed     \* ghost: a check found nothing where a limit had been reached before it

meterVars == <<heap, missions>>
ghosts == <<turnPF, peak, missed>>
meterState == <<meterVars, latched, checking, job, events, calls, ghosts>>

Free == [call |-> "none", at |-> 0, step |-> 0, due |-> FALSE]
NewMetrics(m) == [mission |-> m, pf |-> 0, turnPFs |-> <<>>, rejects |-> 0, conflicts |-> 0,
                  fails |-> 0, status |-> "active"]

MeterInit ==
  /\ heap = <<>> /\ missions = [m \in Metered |-> 0]
  /\ latched = {} /\ checking = {}
  /\ job = [d \in Runners |-> Free]
  /\ events = [m \in Metered |-> [thrashing |-> 0, plan |-> <<>>]]
  /\ calls = 0
  /\ turnPF = <<>> /\ peak = <<>> /\ missed = FALSE
-----------------------------------------------------------------------------
(* The aggregator: each call is one step under ma.mu, but CompleteMission's look at the  *)
(* status and its change of it, which a detector's mark may come between.                *)

\* A call takes ma.mu at once, which a completion has while it is under way.
Calling(d) ==
  /\ job[d] = Free /\ \A e \in Runners : job[e].call # "complete"
  /\ calls < MaxCalls /\ calls' = calls + 1

StartMission(m) ==
  /\ heap' = Append(heap, NewMetrics(m))
  /\ missions' = [missions EXCEPT ![m] = Len(heap')]
  /\ turnPF' = Append(turnPF, 0) /\ peak' = Append(peak, [streak |-> 0, fails |-> 0])
  /\ UNCHANGED missed

\* A change of the metrics; getOrCreate makes those of a new mission as StartMission does.
Metrics(m) == heap[missions[m]]
Update(m, metrics) ==
  /\ missions[m] # 0
  /\ heap' = [heap EXCEPT ![missions[m]] = metrics]
  /\ UNCHANGED missions

RecordPF(m) ==
  /\ Update(m, [Metrics(m) EXCEPT !.pf = @ + 1])
  /\ turnPF' = [turnPF EXCEPT ![missions[m]] = @ + 1]
  /\ UNCHANGED <<peak, missed>>
RecordReject(m) == Update(m, [Metrics(m) EXCEPT !.rejects = @ + 1]) /\ UNCHANGED ghosts
RecordConflict(m) == Update(m, [Metrics(m) EXCEPT !.conflicts = @ + 1]) /\ UNCHANGED ghosts
RecordTestFailure(m) ==
  /\ Update(m, [Metrics(m) EXCEPT !.fails = @ + 1])
  /\ peak' = [peak EXCEPT ![missions[m]].fails = IF @ > heap'[missions[m]].fails THEN @ ELSE heap'[missions[m]].fails]
  /\ UNCHANGED <<turnPF, missed>>
RecordTestPass(m) == Update(m, [Metrics(m) EXCEPT !.fails = 0]) /\ UNCHANGED ghosts

SumOf(counts) ==
  LET sum[n \in 0 .. Len(counts)] == IF n = 0 THEN 0 ELSE sum[n - 1] + counts[n] IN sum[Len(counts)]
\* The page faults since the turns before.
ThisTurn(o) == o.pf - SumOf(o.turnPFs)

EndTurn(m) ==
  LET at == missions[m]
      streak == IF turnPF[at] >= PFSoftLimit THEN peak[at].streak + 1 ELSE 0 IN
  /\ Update(m, [Metrics(m) EXCEPT !.turnPFs = Append(@, ThisTurn(Metrics(m)))])
  /\ turnPF' = [turnPF EXCEPT ![at] = 0]
  /\ peak' = [peak EXCEPT ![at].streak = IF peak[at].streak >= PFConsecutiveTurns THEN @ ELSE streak]
  /\ UNCHANGED missed

Record(d) ==
  /\ Calling(d)
  /\ \E m \in Metered :
       \/ StartMission(m) \/ RecordPF(m) \/ RecordReject(m) \/ RecordConflict(m)
       \/ RecordTestFailure(m) \/ RecordTestPass(m) \/ EndTurn(m)
  /\ UNCHANGED <<latched, checking, job, events>>

Completable(o) == o.status = "active"

\* CompleteMission has looked at the status.
BeginComplete(d) ==
  /\ Calling(d)
  /\ \E m \in Metered :
       /\ missions[m] # 0 /\ Completable(heap[missions[m]])
       /\ job' = [job EXCEPT ![d] = [call |-> "complete", at |-> missions[m], step |-> 0,
                                       due |-> heap[missions[m]].status = "thrashing"]]
  /\ UNCHANGED <<meterVars, latched, checking, events, ghosts>>
EndComplete(d) ==
  /\ job[d].call = "complete"
  /\ heap' = [heap EXCEPT ![job[d].at].status = "completed"]
  /\ job' = [job EXCEPT ![d] = Free]
  /\ UNCHANGED <<missions, latched, checking, events, calls, ghosts>>
-----------------------------------------------------------------------------
(* The detector: Check under td.mu, which reads the metrics one after the other. *)

OverSoftLimit(o) ==
  /\ Len(o.turnPFs) >= PFConsecutiveTurns
  /\ \A i \in Len(o.turnPFs) - PFConsecutiveTurns + 1 .. Len(o.turnPFs) : o.turnPFs[i] >= PFSoftLimit

\* The conditions of detect, in order.
Condition(i, o) ==
  CASE i = 1 -> OverSoftLimit(o) [] i = 2 -> o.rejects >= MaxRejects
    [] i = 3 -> o.conflicts >= MaxConflicts [] i = 4 -> o.fails >= MaxTestFailures

\* Get, and the call of Check; rejects and conflicts never go down, so that a limit they
\* have reached is due to be found.
Get(d) ==
  /\ Calling(d)
  /\ \E m \in Metered :
       /\ missions[m] # 0
       /\ job' = [job EXCEPT ![d] =
            [call |-> "check", at |-> missions[m], step |-> 0,
             due |-> heap[missions[m]].rejects >= MaxRejects \/ heap[missions[m]].conflicts >= MaxConflicts]]
  /\ UNCHANGED <<meterVars, latched, checking, events, ghosts>>

At(d) == heap[job[d].at]
Reach(d, step) == job' = [job EXCEPT ![d].step = step]
Leave(d) == checking' = {} /\ job' = [job EXCEPT ![d] = Free]

\* Variant: the mark on the metrics is taken for the latch.
MarkedAlready(o) == o.status = "thrashing"
Latched(o) == o.mission \in latched

BeginCheck(d) ==
  /\ job[d].call = "check" /\ job[d].step = 0 /\ checking = {}
  /\ IF Latched(At(d)) THEN Leave(d) ELSE checking' = {d} /\ Reach(d, 1)
  /\ UNCHANGED <<meterVars, latched, events, calls, ghosts>>

Detect(d) ==
  /\ job[d].call = "check" /\ job[d].step \in 1 .. 4
  /\ IF Condition(job[d].step, At(d)) THEN Reach(d, 5) /\ UNCHANGED <<checking, missed>>
     ELSE IF job[d].step < 4 THEN Reach(d, job[d].step + 1) /\ UNCHANGED <<checking, missed>>
     ELSE Leave(d) /\ missed' = (missed \/ job[d].due)
  /\ UNCHANGED <<meterVars, latched, events, calls, turnPF, peak>>

\* The latch, then the mark on the metrics.
Mark(d) ==
  /\ job[d].call = "check"
  /\ \/ /\ job[d].step = 5 /\ Reach(d, 6)
        /\ latched' = latched \cup {At(d).mission} /\ UNCHANGED heap
     \/ /\ job[d].step = 6 /\ Reach(d, 7)
        /\ heap' = [heap EXCEPT ![job[d].at].status = "thrashing"] /\ UNCHANGED latched
  /\ UNCHANGED <<missions, checking, events, calls, ghosts>>

\* The event; an error of the log is ignored.
LogThrashing(d) ==
  /\ job[d].call = "check" /\ job[d].step = 7
  /\ \/ events' = [events EXCEPT ![At(d).mission].thrashing = @ + 1]
     \/ UNCHANGED events
  /\ Leave(d)
  /\ UNCHANGED <<meterVars, latched, calls, ghosts>>
-----------------------------------------------------------------------------
(* The oracle. *)

Colorings(deps) == [DOMAIN deps -> {"white", "gray", "black"}]

\* Variant: a node on the path is passed over like one that is done.
VisitLoosely(deps, visit, color, ids) ==
  IF ids = <<>> THEN [cyclic |-> FALSE, color |-> color]
  ELSE LET id == Head(ids)
           below == visit[[color EXCEPT ![id] = "gray"]][deps[id]]
       IN  IF color[id] # "white" THEN visit[color][Tail(ids)]
           ELSE visit[[below.color EXCEPT ![id] = "black"]][Tail(ids)]
\* The loop of visit, which calls visit, over the ids that are left: white ones are gone
\* into, a gray one is on the path already.
VisitEach(deps, visit, color, ids) ==
  IF ids = <<>> THEN [cyclic |-> FALSE, color |-> color]
  ELSE LET id == Head(ids)
           below == visit[[color EXCEPT ![id] = "gray"]][deps[id]]
       IN  CASE color[id] = "gray" -> [cyclic |-> TRUE, color |-> color]
             [] color[id] = "black" -> visit[color][Tail(ids)]
             [] color[id] = "white" ->
                  IF below.cyclic THEN below
                  ELSE visit[[below.color EXCEPT ![id] = "black"]][Tail(ids)]
Visited(deps) ==
  LET visit[color \in Colorings(deps)] ==
        [ids \in Seq(DOMAIN deps) |-> VisitEach(deps, visit, color, ids)]
  IN  visit

Ids(nodes) == {nodes[i].id : i \in DOMAIN nodes} \cup UNION {ToSet(nodes[i].deps) : i \in DOMAIN nodes}
\* The dependencies of an id: those of its last node.
DependsOn(nodes) ==
  [id \in Ids(nodes) |->
     LET at == {i \in DOMAIN nodes : nodes[i].id = id}
     IN  IF at = {} THEN <<>> ELSE nodes[CHOOSE i \in at : \A j \in at : j <= i].deps]
DetectCycle(nodes) ==
  Visited(DependsOn(nodes))[[id \in Ids(nodes) |-> "white"]]
                           [[i \in DOMAIN nodes |-> nodes[i].id]].cyclic

\* EscalateOnThrash with what Get returned: the oracle may fail, and a plan it answers
\* must have nodes and no cycle.
Escalate(d) ==
  /\ Calling(d)
  /\ \E m \in Metered :
       /\ missions[m] # 0 /\ heap[missions[m]].status = "thrashing"
       /\ \/ UNCHANGED events
          \/ \E plan \in Plans :
               /\ plan # <<>> /\ ~DetectCycle(plan)
               /\ events' = [events EXCEPT ![m].plan = plan]
  /\ UNCHANGED <<meterVars, latched, checking, job, ghosts>>

MeterNext ==
  \E d \in Runners :
    \/ Record(d) \/ BeginComplete(d) \/ EndComplete(d)
    \/ Get(d) \/ BeginCheck(d) \/ Detect(d) \/ Mark(d) \/ LogThrashing(d) \/ Escalate(d)

=============================================================================
