----------------------- MODULE MissionMeterProperties -----------------------
(***************************************************************************)
(* What the detector and the oracle make of the metrics, while other       *)
(* drivers go on counting.                                                 *)
(***************************************************************************)
EXTENDS MissionMeter

\* Types of all variables; the turns of a mission never have more page faults than it.
MeterTypeOK ==
  /\ \A o \in ToSet(heap) :
       /\ o.mission \in Metered /\ o.status \in {"active", "completed", "thrashing"}
       /\ o.turnPFs \in Seq(Nat) /\ SumOf(o.turnPFs) <= o.pf
  /\ missions \in [Metered -> 0 .. Len(heap)]
  /\ latched \subseteq Metered /\ checking \subseteq Runners
  /\ \A d \in Runners : job[d].at \in 0 .. Len(heap) /\ job[d].step \in 0 .. 7
  /\ Len(turnPF) = Len(heap) /\ Len(peak) = Len(heap)

\* Thrashing is logged once for a mission at most, and only for a latched one, also when
\* several drivers check it at a time or the mission is started again with new metrics
\* (thrash.go:29 "Thrash triggers exactly once per mission").
ThrashesOnce ==
  \A m \in Metered : events[m].thrashing <= (IF m \in latched THEN 1 ELSE 0)

\* Metrics that say thrashing, which is what the oracle goes by, are of a latched mission,
\* although neither the oracle nor a completion waits for the detector (thrash.go:76-78).
MarkedIsLatched ==
  /\ \A o \in ToSet(heap) : o.status = "thrashing" => o.mission \in latched
  /\ \A m \in Metered : events[m].plan # <<>> => m \in latched

\* A mission is latched only for a limit that some metrics of it did reach: turns on end
\* over the soft limit, counted from page fault to page fault, or rejects, conflicts or
\* consecutive test failures (thrash.go:101-142, meter.go:158-174).
Reached(i) ==
  \/ peak[i].streak >= PFConsecutiveTurns \/ peak[i].fails >= MaxTestFailures
  \/ heap[i].rejects >= MaxRejects \/ heap[i].conflicts >= MaxConflicts
LatchedForCause ==
  \A m \in latched : \E i \in DOMAIN heap : heap[i].mission = m /\ Reached(i)

\* A check that begins after rejects or conflicts have reached their limit finds it.
NothingMissed == ~missed

\* Thrashing is found when it is there, once, and never without cause, while other
\* drivers count, complete and start missions between any two steps of the check, whose
\* mutex is not theirs (thrash.go:55-142, meter.go:57-190).
DetectsThrash ==
  MeterTypeOK /\ ThrashesOnce /\ MarkedIsLatched /\ LatchedForCause /\ NothingMissed

\* A plan that is taken over can be carried out: its missions have an order in which each
\* comes after what it depends on, if no two have one id (oracle.go:290-330).
Executable(plan) ==
  LET ids == Ids(plan) IN
  \E rank \in [ids -> 1 .. Cardinality(ids)] :
    \A i \in DOMAIN plan : \A id \in ToSet(plan[i].deps) : rank[id] < rank[plan[i].id]
DistinctIds(plan) == \A i, j \in DOMAIN plan : plan[i].id = plan[j].id => i = j
PlansExecutable ==
  \A m \in Metered : DistinctIds(events[m].plan) => Executable(events[m].plan)
-----------------------------------------------------------------------------
(* The inductive invariant of DetectsThrash. *)

MetricsRecords ==
  [mission : Metered, pf : Nat, turnPFs : Seq(Nat), rejects : Nat, conflicts : Nat, fails : Nat,
   status : {"active", "completed", "thrashing"}]
MeterJobs == [call : {"none", "check", "complete"}, at : Nat, step : 0 .. 7, due : BOOLEAN]

MeterTyped ==
  /\ heap \in Seq(MetricsRecords) /\ missions \in [Metered -> 0 .. Len(heap)]
  /\ \A m \in Metered : missions[m] # 0 => heap[missions[m]].mission = m
  /\ latched \subseteq Metered /\ checking \subseteq Runners
  /\ job \in [Runners -> MeterJobs]
  /\ \A d \in Runners : /\ job[d].at \in 0 .. Len(heap)
                        /\ job[d].call # "none" => job[d].at # 0
  /\ events \in [Metered -> [thrashing : Nat, plan : Plans \cup {<<>>}]]
  /\ turnPF \in Seq(Nat) /\ peak \in Seq([streak : Nat, fails : Nat])
  /\ Len(turnPF) = Len(heap) /\ Len(peak) = Len(heap)

\* The counts of page faults by turn make up their number, and as long as no turns on end
\* were over the limit, the last turn below it is as far back as the streak is long.
Counted(o, faults, top) ==
  /\ o.pf = SumOf(o.turnPFs) + faults /\ o.fails <= top.fails
  /\ \/ top.streak >= PFConsecutiveTurns
     \/ /\ top.streak <= Len(o.turnPFs)
        /\ top.streak < Len(o.turnPFs) => o.turnPFs[Len(o.turnPFs) - top.streak] < PFSoftLimit

\* Where a check is: it has the mutex, what was due when it began is not passed over, and
\* from the find to the event the mission is latched and its event not yet logged.
Due(o) == o.rejects >= MaxRejects \/ o.conflicts >= MaxConflicts
CheckAt(j, d) ==
  LET o == heap[j.at] IN
  j.call = "check" =>
    /\ j.step # 0 => checking = {d}
    /\ j.due => /\ Due(o) /\ j.step # 4
                /\ j.step = 3 => o.conflicts >= MaxConflicts
    /\ j.step \in 1 .. 5 => o.mission \notin latched
    /\ j.step \in 5 .. 7 => Reached(j.at)
    /\ j.step \in 6 .. 7 => o.mission \in latched /\ events[o.mission].thrashing = 0

MeterInv ==
  /\ MeterTyped /\ ThrashesOnce /\ MarkedIsLatched /\ LatchedForCause /\ NothingMissed
  /\ \A i \in DOMAIN heap : Counted(heap[i], turnPF[i], peak[i])
  /\ \A d \in Runners : CheckAt(job[d], d)

\* The plans that were taken over are answers in which no cycle was found.
PlanChecked(plan) == plan = <<>> \/ (plan \in Plans /\ ~DetectCycle(plan))
PlansInv == \A m \in Metered : PlanChecked(events[m].plan)
=============================================================================
