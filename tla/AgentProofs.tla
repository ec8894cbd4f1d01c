---------------------------- MODULE AgentProofs ----------------------------
(***************************************************************************)
(* For every number of runs, sessions, answers and calls: the books of the *)
(* agent agree, the model is told what ran, and nothing that asked runs    *)
(* without the user's consent.                                             *)
(***************************************************************************)
EXTENDS AgentProperties, TLAPS

USE AgentAssumption DEF Runs

RunsTyped ==
  /\ run \in [Runs -> RunRecords]
  /\ \A r \in Runs : /\ run[r].turn <= MaxTurns[r] /\ Calls(r) <= MaxCalls[r]
                     /\ run[r].call \in 1 .. Calls(r) + 1 /\ run[r].ran \subseteq 1 .. Calls(r)
  /\ saved \in [Runs -> Reasons]

EntriesTyped == active \in [Sessions -> Runs \cup {None}]

DialogTyped ==
  /\ asked \in [Askers -> Nat] /\ pending \subseteq Requests /\ consent \subseteq Requests
  /\ answer \in [Askers -> {<<>>, <<TRUE>>, <<FALSE>>}]
  /\ grants \subseteq Sessions /\ inbox \in Seq(Requests)
  /\ dialog \in Requests \cup {None}
  /\ replies \in Seq([id : Requests, action : Actions])
  /\ blocked \in [id : Requests, action : Actions, sent : BOOLEAN] \cup {None}

LEMMA TypeParts ==
  /\ TypeOK <=> RunsTyped /\ EntriesTyped /\ DialogTyped
  /\ TypeOK' <=> RunsTyped' /\ EntriesTyped' /\ DialogTyped'
BY DEF TypeOK, RunsTyped, EntriesTyped, DialogTyped, RunRecords

-----------------------------------------------------------------------------
(* One run's state changes. *)

\* The limits of TypeOK for a run in the state o.
Within(r, o) ==
  /\ o.turn <= MaxTurns[r] /\ Len(o.results) <= MaxCalls[r]
  /\ o.call \in 1 .. Len(o.results) + 1 /\ o.ran \subseteq 1 .. Len(o.results)

RunMoves(r, o, v) ==
  /\ o \in RunRecords /\ v \in Reasons
  /\ run' = [run EXCEPT ![r] = o] /\ saved' = [saved EXCEPT ![r] = v]
  /\ Within(r, o) /\ RunInOrder(o, v)

LEMMA RunMoved ==
  ASSUME AgentInv, NEW r \in Runs, NEW o, NEW v, RunMoves(r, o, v)
  PROVE  RunsTyped' /\ RunsInv' /\ run'[r] = o /\ \A q \in Runs \ {r} : run'[q] = run[q]
<1>1. RunsTyped /\ RunsInv
  BY TypeParts DEF AgentInv
<1>2. /\ run' \in [Runs -> RunRecords] /\ saved' \in [Runs -> Reasons]
      /\ run'[r] = o /\ \A q \in Runs \ {r} : run'[q] = run[q]
      /\ saved'[r] = v /\ \A q \in Runs \ {r} : saved'[q] = saved[q]
  BY <1>1 DEF RunMoves, RunsTyped
<1>3. RunsTyped'
  BY <1>1, <1>2 DEF RunMoves, RunsTyped, Within, Calls
<1>4. RunsInv'
  BY <1>1, <1>2 DEF RunMoves, RunsInv
<1>5. QED
  BY <1>2, <1>3, <1>4

Waits == {"ask", "leaving"}

\* A step that leaves every question where it is.
LEMMA SameQuestions ==
  ASSUME AgentInv, UNCHANGED permissionVars,
         \A q \in Runs : /\ At(q, "ask")' <=> At(q, "ask")
                         /\ At(q, "leaving")' <=> At(q, "leaving")
                         /\ At(q, "leaving") => run'[q].allowed = run[q].allowed
  PROVE  DialogTyped' /\ AskingInv' /\ RunsWithConsent'
<1>1. DialogTyped'
  BY TypeParts DEF AgentInv, permissionVars, DialogTyped
<1>2. /\ Waiting' = Waiting /\ \A q \in Runs : Request(q)' = Request(q)
      /\ {Request(q) : q \in Waiting}' = {Request(q) : q \in Waiting}
  BY DEF Waiting, permissionVars, Request
<1>3. AskingInv'
  BY <1>2 DEF AgentInv, AskingInv, permissionVars, Made
<1>4. RunsWithConsent'
  BY DEF AgentInv, RunsWithConsent, permissionVars, Request
<1>5. QED
  BY <1>1, <1>3, <1>4

\* A run that has begun and has not returned: it goes on, or it panicked.
Goes(q) == run[q].stage \notin {"new", "over"}

\* As far as the entries are concerned nothing happens to a run, except that it may panic.
SameLife(q) ==
  /\ Goes(q) => Goes(q)'
  /\ Live(q)' => Live(q)
  /\ At(q, "over") => At(q, "over")'
  /\ run'[q].cancelled = run[q].cancelled

\* A step that leaves the entries alone, and after which the runs they belong to go on.
LEMMA SameEntries ==
  ASSUME AgentInv, UNCHANGED active,
         \A q \in Runs : SameLife(q)
  PROVE  EntriesTyped' /\ EntriesInOrder'
<1>1. active \in [Sessions -> Runs \cup {None}] /\ EntryIsLive /\ LosesEntryToCancelled
  BY DEF AgentInv, TypeOK, EntriesInOrder
<1>2. EntriesTyped'
  BY <1>1 DEF EntriesTyped
<1>3. EntryIsLive'
  BY <1>1 DEF EntryIsLive, SameLife, Live, At, Goes
<1>4. LosesEntryToCancelled'
  BY <1>1 DEF LosesEntryToCancelled, SameLife, Live, At, Goes
<1>5. QED
  BY <1>2, <1>3, <1>4 DEF EntriesInOrder

\* A step of a run that goes on and has to do with no question.
LEMMA LocalStep ==
  ASSUME AgentInv, NEW r \in Runs, NEW o, NEW v, RunMoves(r, o, v),
         run[r].stage \notin Waits, o.stage \notin Waits \cup {"new", "over"}, Live(r),
         o.cancelled = run[r].cancelled, UNCHANGED <<permissionVars, active>>
  PROVE  AgentInv'
<1>1. RunsTyped' /\ RunsInv' /\ run'[r] = o /\ \A q \in Runs \ {r} : run'[q] = run[q]
  BY RunMoved
<1>2. EntriesTyped' /\ EntriesInOrder'
  <2>1. \A q \in Runs : SameLife(q)
    BY <1>1 DEF SameLife, Goes, Live, At
  <2>2. QED
    BY <2>1, SameEntries
<1>3. DialogTyped' /\ AskingInv' /\ RunsWithConsent'
  <2>1. \A q \in Runs : /\ At(q, "ask")' <=> At(q, "ask")
                        /\ At(q, "leaving")' <=> At(q, "leaving")
                        /\ At(q, "leaving") => run'[q] = run[q]
    BY <1>1 DEF At, Waits
  <2>2. QED
    BY <2>1, SameQuestions
<1>4. QED
  BY <1>1, <1>2, <1>3, TypeParts DEF AgentInv

LEMMA EmptyResults == <<>> \in Seq(Results)
OBVIOUS

\* How the reason v in the database may differ from the one in memory at a run's end.
Finished(o, reason, v) ==
  /\ v # reason => o.cancelled /\ reason \in {"canceled", "permission_denied"}
  /\ v = "unset" => o.turn = 0 \/ o.quiet \/ (o.cancelled /\ reason = "canceled")

\* What is left of a run in the state o.
Remains(o, stage, reason) ==
  [o EXCEPT !.stage = stage, !.reason = reason, !.results = <<>>, !.call = 1, !.allowed = FALSE,
            !.ran = {}]

LEMMA RemainsFields ==
  ASSUME NEW o \in RunRecords, NEW stage \in Stages, NEW reason \in Reasons
  PROVE  LET left == Remains(o, stage, reason) IN
         /\ left \in RunRecords
         /\ left.stage = stage /\ left.results = <<>> /\ left.call = 1 /\ left.ran = {}
         /\ left.reason = reason /\ left.turn = o.turn /\ left.cancelled = o.cancelled
         /\ left.quiet = o.quiet
BY EmptyResults DEF Remains, RunRecords

LEMMA GoneRemains ==
  ASSUME AgentInv, NEW r \in Runs, NEW stage, NEW reason, Gone(r, stage, reason)
  PROVE  run' = [run EXCEPT ![r] = Remains(run[r], stage, reason)]
<1>1. run \in [Runs -> RunRecords]
  BY TypeParts DEF AgentInv, RunsTyped
<1>2. QED
  BY <1>1 DEF Gone, Remains, RunRecords

\* A run's last step.
LEMMA EndStep ==
  ASSUME AgentInv, NEW r \in Runs, NEW reason \in Reasons, NEW v \in Reasons,
         run[r].stage \notin Waits, End(r, reason), Live(r),
         saved' = [saved EXCEPT ![r] = v], Finished(run[r], reason, v),
         UNCHANGED permissionVars
  PROVE  AgentInv'
<1> DEFINE o == Remains(run[r], "over", reason)
<1>0. RunsTyped /\ EntriesTyped /\ DialogTyped
  BY TypeParts DEF AgentInv
<1>1. RunMoves(r, o, v)
  <2>1. run[r] \in RunRecords /\ run[r].turn <= MaxTurns[r]
    BY <1>0 DEF RunsTyped
  <2>2. "over" \in Stages
    BY DEF Stages
  <2>3. /\ o \in RunRecords /\ o.quiet = run[r].quiet
        /\ o.stage = "over" /\ o.results = <<>> /\ o.call = 1 /\ o.ran = {} /\ o.reason = reason
        /\ o.turn = run[r].turn /\ o.cancelled = run[r].cancelled
    BY <2>1, <2>2, RemainsFields
  <2> HIDE DEF o
  <2>4. Within(r, o) /\ RunInOrder(o, v)
    BY <2>1, <2>3 DEF Within, RunInOrder, Calling, Says, ReasonOf, Finished
  <2>5. run' = [run EXCEPT ![r] = o]
    BY GoneRemains DEF End, o
  <2>6. QED
    BY <2>3, <2>4, <2>5 DEF RunMoves
<1>2. RunsTyped' /\ RunsInv' /\ run'[r] = o /\ \A q \in Runs \ {r} : run'[q] = run[q]
  BY <1>1, RunMoved
<1>3. active' = [active EXCEPT ![SessionOf[r]] = None]
  BY DEF End, Ended
<1>4. EntriesTyped'
  BY <1>0, <1>3 DEF EntriesTyped
<1>4a. o.stage = "over" /\ o.cancelled = run[r].cancelled
  BY <1>0, RemainsFields DEF RunsTyped, Stages
<1> HIDE DEF o
<1>5. EntryIsLive'
  <2>1. SUFFICES ASSUME NEW s \in Sessions, active'[s] # None
                 PROVE  /\ run'[active'[s]].stage \notin {"new", "over"} /\ SessionOf[active'[s]] = s
                        /\ ~run'[active'[s]].cancelled
    BY DEF EntryIsLive, Live, At
  <2>2. s # SessionOf[r] /\ active'[s] = active[s]
    BY <1>0, <1>3, <2>1 DEF EntriesTyped
  <2>3. active[s] \in Runs \ {r} /\ Goes(active[s]) /\ SessionOf[active[s]] = s /\ ~run[active[s]].cancelled
    BY <1>0, <2>1, <2>2 DEF AgentInv, EntriesInOrder, EntryIsLive, EntriesTyped, Live, At, Goes
  <2>4. QED
    BY <1>2, <2>2, <2>3 DEF Goes
<1>5a. LosesEntryToCancelled'
  <2>1. SUFFICES ASSUME NEW q \in Runs, Live(q)', ~run'[q].cancelled, active'[SessionOf[q]] # q
                 PROVE  \E c \in Runs : SessionOf[c] = SessionOf[q] /\ run'[c].cancelled /\ run'[c].stage = "over"
    BY DEF LosesEntryToCancelled, At
  <2>2. q # r /\ run'[q] = run[q] /\ Live(q) /\ ~run[q].cancelled
    BY <1>2, <1>4a, <2>1 DEF Live
  <2>3. CASE SessionOf[q] = SessionOf[r] /\ run[r].cancelled
    BY <1>2, <1>4a, <2>3
  <2>4. CASE ~(SessionOf[q] = SessionOf[r] /\ run[r].cancelled)
    <3>1. PICK c \in Runs : SessionOf[c] = SessionOf[q] /\ run[c].cancelled /\ run[c].stage = "over"
      BY <1>0, <1>3, <2>1, <2>2, <2>4
         DEF AgentInv, EntriesInOrder, LosesEntryToCancelled, At, EntriesTyped
    <3>2. c # r
      BY <3>1 DEF Live
    <3>3. QED
      BY <1>2, <3>1, <3>2
  <2>5. QED
    BY <2>3, <2>4
<1>6. \A q \in Runs : /\ At(q, "ask")' <=> At(q, "ask")
                      /\ At(q, "leaving")' <=> At(q, "leaving")
                      /\ At(q, "leaving") => run'[q] = run[q]
  <2>1. run'[r].stage = "over"
    BY <1>2, <1>4a
  <2>2. QED
    BY <1>2, <2>1 DEF At, Waits
<1>7. DialogTyped' /\ AskingInv' /\ RunsWithConsent'
  BY <1>6, SameQuestions
<1>8. QED
  BY <1>2, <1>4, <1>5, <1>5a, <1>7, TypeParts DEF AgentInv, EntriesInOrder

\* A run that panics keeps its entry.
LEMMA PanicStep ==
  ASSUME AgentInv, NEW r \in Runs, Panic(r)
  PROVE  AgentInv'
<1> DEFINE o == Remains(run[r], "dead", Reason(r))
<1>1. /\ RunsTyped /\ RunsInv /\ run[r] \in RunRecords /\ saved[r] \in Reasons
      /\ run[r].turn <= MaxTurns[r] /\ RunInOrder(run[r], saved[r])
      /\ saved = [saved EXCEPT ![r] = saved[r]]
  BY TypeParts DEF AgentInv, RunsTyped, RunsInv
<1>2. Reason(r) \in Reasons /\ Reason(r) = ReasonOf(run[r]) /\ "dead" \in Stages
  BY <1>1 DEF Reason, ReasonOf, Says, Reasons, RunRecords, Stages
<1>3. /\ o \in RunRecords /\ o.quiet = run[r].quiet
      /\ o.stage = "dead" /\ o.results = <<>> /\ o.call = 1 /\ o.ran = {} /\ o.reason = Reason(r)
      /\ o.turn = run[r].turn /\ o.cancelled = run[r].cancelled
  BY <1>1, <1>2, RemainsFields
<1> HIDE DEF o
<1>4. Within(r, o)
  BY <1>1, <1>3 DEF Within
<1>5. RunInOrder(o, saved[r])
  <2>1. ReasonOf(o) = Reason(r) /\ ~Says(o, "canceled")
    BY <1>3 DEF ReasonOf, Says
  <2>2. QED
    BY <1>1, <1>2, <1>3, <2>1 DEF RunInOrder, Calling
<1>6. RunMoves(r, o, saved[r])
  BY <1>1, <1>3, <1>4, <1>5, GoneRemains DEF RunMoves, Panic, o
<1>7. QED
  BY <1>3, <1>6, LocalStep DEF Panic, Waits, Live

LEMMA ReasonType ==
  ASSUME AgentInv, NEW r \in Runs
  PROVE  /\ Reason(r) = ReasonOf(run[r]) /\ Reason(r) \in Reasons
         /\ run[r].stage \notin {"stream", "failing", "dead"} => Finished(run[r], Reason(r), saved[r])
<1>1. RunInOrder(run[r], saved[r]) /\ run[r] \in RunRecords
  BY DEF AgentInv, TypeOK, RunsInv, RunRecords
<1>2. Reason(r) = ReasonOf(run[r]) /\ Reason(r) \in Reasons
  BY <1>1 DEF Reason, ReasonOf, Says, Reasons, RunRecords
<1>3. QED
  BY <1>1, <1>2 DEF RunInOrder, Finished

\* What AgentInv says of one run.
LEMMA RunFacts ==
  ASSUME AgentInv, NEW r \in Runs
  PROVE  /\ run[r] \in RunRecords /\ saved[r] \in Reasons
         /\ run \in [Runs -> RunRecords] /\ saved \in [Runs -> Reasons]
         /\ Within(r, run[r]) /\ RunInOrder(run[r], saved[r])
         /\ Calls(r) = Len(run[r].results) /\ run[r].results \in Seq(Results)
         /\ saved = [saved EXCEPT ![r] = saved[r]]
BY DEF AgentInv, TypeOK, RunsInv, RunRecords, Within, Calls
-----------------------------------------------------------------------------
(* The provider's answer. *)

LEMMA LoopStep ==
  ASSUME AgentInv, NEW r \in Runs, Loop(r)
  PROVE  AgentInv'
<1> USE DEF Waits, Live
<1>1. CASE End(r, Reason(r)) /\ UNCHANGED saved
  BY <1>1, ReasonType, RunFacts, EndStep DEF Loop, At
<1>2. CASE /\ ~run[r].cancelled /\ run[r].turn < MaxTurns[r]
           /\ run' = [run EXCEPT ![r].stage = "stream", ![r].turn = @ + 1, ![r].reason = "unset",
                                 ![r].results = <<>>, ![r].ran = {}, ![r].call = 1,
                                 ![r].quiet = FALSE]
           /\ saved' = [saved EXCEPT ![r] = "unset"] /\ UNCHANGED active
  <2> DEFINE o == [run[r] EXCEPT !.stage = "stream", !.turn = @ + 1, !.reason = "unset",
                                 !.results = <<>>, !.ran = {}, !.call = 1, !.quiet = FALSE]
  <2>1. /\ run' = [run EXCEPT ![r] = o] /\ saved' = [saved EXCEPT ![r] = "unset"]
        /\ At(r, "loop") /\ run[r].turn < MaxTurns[r] /\ UNCHANGED <<permissionVars, active>>
    BY <1>2, RunFacts DEF Loop, RunRecords
  <2>0. run[r] \in RunRecords
    BY RunFacts
  <2>9. /\ "unset" \in Reasons /\ "stream" \in Stages
        /\ run[r].turn \in Nat /\ run[r].turn + 1 \in Nat /\ 1 \in Nat /\ {} \in SUBSET Nat
    <3>1. run[r].turn \in Nat
      BY <2>0 DEF RunRecords
    <3>2. QED
      BY <3>1 DEF Reasons, Stages
  <2>2. o \in RunRecords
    BY <2>0, <2>9, EmptyResults DEF RunRecords
  <2>3. /\ o.stage = "stream" /\ o.results = <<>> /\ o.call = 1 /\ o.ran = {} /\ o.reason = "unset"
        /\ o.turn = run[r].turn + 1 /\ o.cancelled = run[r].cancelled /\ run[r].turn \in Nat
    BY <2>0 DEF RunRecords
  <2> HIDE DEF o
  <2>4. MaxTurns[r] \in Nat /\ MaxCalls[r] \in Nat /\ Len(o.results) = 0 /\ DOMAIN o.results = {}
    BY <2>3
  <2>7. Within(r, o)
    BY <2>1, <2>3, <2>4 DEF Within
  <2>8. RunInOrder(o, "unset")
    BY <2>3, <2>4 DEF RunInOrder, Calling, Says, ReasonOf
  <2>5. RunMoves(r, o, "unset")
    BY <2>1, <2>2, <2>7, <2>8 DEF RunMoves, Reasons
  <2>6. QED
    BY <2>1, <2>3, <2>5, LocalStep DEF At
<1>3. QED
  BY <1>1, <1>2 DEF Loop

LEMMA Fields ==
  ASSUME NEW o \in RunRecords
  PROVE  /\ o.stage \in Stages /\ o.cancelled \in BOOLEAN /\ o.turn \in Nat /\ o.reason \in Reasons
         /\ o.results \in Seq(Results) /\ o.call \in Nat /\ o.allowed \in BOOLEAN
         /\ o.ran \in SUBSET Nat /\ o.quiet \in BOOLEAN
BY DEF RunRecords

LEMMA BlanksType ==
  ASSUME NEW n \in Nat
  PROVE  /\ Blanks(n) \in Seq(Results) /\ Len(Blanks(n)) = n
         /\ DOMAIN Blanks(n) = 1 .. n /\ \A i \in 1 .. n : Blanks(n)[i] = "unset"
<1>1. "unset" \in Results
  BY DEF Results
<1>2. Blanks(n) \in [1 .. n -> Results]
  BY <1>1 DEF Blanks
<1>3. QED
  BY <1>2 DEF Blanks

\* Sequences as functions.
LEMMA AsFunction ==
  ASSUME NEW S, NEW s \in Seq(S)
  PROVE  s \in [1 .. Len(s) -> S] /\ Len(s) \in Nat /\ DOMAIN s = 1 .. Len(s)
OBVIOUS

LEMMA AsSequence ==
  ASSUME NEW S, NEW n \in Nat, NEW f \in [1 .. n -> S]
  PROVE  f \in Seq(S) /\ Len(f) = n /\ DOMAIN f = 1 .. n
OBVIOUS

LEMMA ElementType ==
  ASSUME NEW S, NEW s \in Seq(S)
  PROVE  \A i \in DOMAIN s : s[i] \in S
OBVIOUS

LEMMA CompleteStep ==
  ASSUME AgentInv, NEW r \in Runs, Complete(r)
  PROVE  AgentInv'
<1>1. PICK n \in 0 .. MaxCalls[r] :
        LET reason == IF n = 0 THEN "end_turn" ELSE "tool_use" IN
        /\ run' = [run EXCEPT ![r].stage = "usage", ![r].results = Blanks(n), ![r].reason = reason]
        /\ Finish(r, reason, FALSE)
  BY DEF Complete
<1> DEFINE reason == IF n = 0 THEN "end_turn" ELSE "tool_use"
           o == [run[r] EXCEPT !.stage = "usage", !.results = Blanks(n), !.reason = reason]
<1>2. /\ run[r] \in RunRecords /\ Within(r, run[r]) /\ RunInOrder(run[r], saved[r])
      /\ run \in [Runs -> RunRecords] /\ saved \in [Runs -> Reasons]
  BY RunFacts
<1>3. run[r].stage = "stream" /\ MaxCalls[r] \in Nat /\ n \in Nat
  BY DEF Complete, At
<1>4. reason \in Reasons /\ "usage" \in Stages /\ reason \notin {"canceled", "unset"}
  BY DEF Reasons, Stages
<1>5. o \in RunRecords
  BY <1>2, <1>3, <1>4, BlanksType DEF RunRecords
<1>6. /\ o.stage = "usage" /\ o.results = Blanks(n) /\ o.reason = reason /\ o.cancelled = run[r].cancelled
      /\ o.call = run[r].call /\ o.ran = run[r].ran /\ o.turn = run[r].turn /\ o.quiet = run[r].quiet
  BY <1>2 DEF RunRecords
<1>7. /\ run' = [run EXCEPT ![r] = o] /\ saved' = [saved EXCEPT ![r] = reason]
  BY <1>1, <1>2 DEF Finish, RunRecords
<1> HIDE DEF o, reason
<1>8. o.call = 1 /\ o.ran = {}
  BY <1>2, <1>3, <1>6 DEF RunInOrder
<1>9. ~Says(o, "denied") /\ ~Says(o, "canceled")
  BY <1>3, <1>6, BlanksType DEF Says
<1>10. Within(r, o)
  BY <1>2, <1>3, <1>6, <1>8, BlanksType DEF Within
<1>11. RunInOrder(o, reason)
  <2>1. ReasonOf(o) = reason
    BY <1>6, <1>9 DEF ReasonOf
  <2>2. /\ \A i \in o.call .. Len(o.results) : o.results[i] \in {"unset", "canceled"}
        /\ \A i \in DOMAIN o.results : o.results[i] = "unset"
    <3>1. Len(o.results) = n /\ DOMAIN o.results = 1 .. n /\ \A i \in 1 .. n : o.results[i] = "unset"
      BY <1>3, <1>6, BlanksType
    <3>2. QED
      BY <1>8, <3>1
  <2>3. QED
    BY <1>4, <1>6, <1>8, <1>9, <2>1, <2>2 DEF RunInOrder, Calling
<1>12. RunMoves(r, o, reason)
  BY <1>4, <1>5, <1>7, <1>10, <1>11 DEF RunMoves
<1>13. QED
  BY <1>3, <1>6, <1>12, LocalStep DEF Complete, Waits, Live

LEMMA StreamClosesStep ==
  ASSUME AgentInv, NEW r \in Runs, StreamCloses(r)
  PROVE  AgentInv'
<1>1. PICK n \in 0 .. MaxCalls[r] :
        run' = [run EXCEPT ![r].stage = IF n = 0 THEN "record" ELSE "tools", ![r].call = 1,
                           ![r].results = Blanks(n), ![r].quiet = TRUE]
  BY DEF StreamCloses
<1> DEFINE stage == IF n = 0 THEN "record" ELSE "tools"
           o == [run[r] EXCEPT !.stage = stage, !.call = 1, !.results = Blanks(n),
                                 !.quiet = TRUE]
<1>2. /\ run[r] \in RunRecords /\ Within(r, run[r]) /\ RunInOrder(run[r], saved[r])
      /\ run \in [Runs -> RunRecords] /\ saved \in [Runs -> Reasons]
      /\ saved = [saved EXCEPT ![r] = saved[r]]
  BY RunFacts
<1>3. run[r].stage = "stream" /\ MaxCalls[r] \in Nat /\ n \in Nat
  BY DEF StreamCloses, At
<1>4. stage \in Stages /\ stage \in {"record", "tools"}
  BY DEF Stages
<1>5. o \in RunRecords
  BY <1>2, <1>3, <1>4, BlanksType DEF RunRecords
<1>6. /\ o.stage = stage /\ o.results = Blanks(n) /\ o.cancelled = run[r].cancelled
      /\ o.call = 1 /\ o.ran = run[r].ran /\ o.turn = run[r].turn /\ o.quiet /\ o.reason = run[r].reason
  BY <1>2 DEF RunRecords
<1>7. run' = [run EXCEPT ![r] = o] /\ saved' = [saved EXCEPT ![r] = saved[r]]
  BY <1>1, <1>2 DEF StreamCloses, RunRecords
<1> HIDE DEF o, stage
<1>8. o.ran = {} /\ o.reason = "unset" /\ saved[r] = "unset"
  BY <1>2, <1>3, <1>6 DEF RunInOrder
<1>9. ~Says(o, "denied") /\ ~Says(o, "canceled")
  BY <1>3, <1>6, BlanksType DEF Says
<1>10. Within(r, o)
  BY <1>2, <1>3, <1>6, <1>8, BlanksType DEF Within
<1>11. RunInOrder(o, saved[r])
  <2>1. /\ \A i \in o.call .. Len(o.results) : o.results[i] \in {"unset", "canceled"}
        /\ \A i \in DOMAIN o.results : o.results[i] = "unset"
    <3>1. Len(o.results) = n /\ DOMAIN o.results = 1 .. n /\ \A i \in 1 .. n : o.results[i] = "unset"
      BY <1>3, <1>6, BlanksType
    <3>2. QED
      BY <1>6, <3>1
  <2>2. o.stage \in {"record", "tools"} /\ o.call = 1 /\ o.ran = {}
    BY <1>4, <1>6, <1>8
  <2>3. QED
    BY <1>6, <1>8, <1>9, <2>1, <2>2 DEF RunInOrder, Calling, ReasonOf
<1>12. RunMoves(r, o, saved[r])
  BY <1>2, <1>5, <1>7, <1>10, <1>11 DEF RunMoves
<1>13. QED
  BY <1>3, <1>4, <1>6, <1>12, LocalStep DEF StreamCloses, Waits, Live

LEMMA StreamEndsStep ==
  ASSUME AgentInv, NEW r \in Runs, CancelNoticed(r) \/ FinishFailed(r)
  PROVE  AgentInv'
<1>1. PICK v \in Reasons : saved' = [saved EXCEPT ![r] = v] /\ (~run[r].cancelled => v = "canceled")
  <2>1. saved[r] \in Reasons /\ "canceled" \in Reasons
    BY RunFacts DEF Reasons
  <2>2. CASE CancelNoticed(r)
    BY <2>1, <2>2 DEF CancelNoticed, Finish
  <2>3. CASE FinishFailed(r)
    <3>1. saved' = [saved EXCEPT ![r] = IF run[r].cancelled THEN saved[r] ELSE "canceled"]
      BY <2>3 DEF FinishFailed, Finish
    <3>2. QED
      BY <2>1, <3>1
  <2>4. QED
    BY <2>2, <2>3
<1>2. /\ run[r].stage \in {"stream", "usage", "failing"} /\ End(r, "canceled")
      /\ UNCHANGED permissionVars /\ "canceled" \in Reasons
  BY DEF CancelNoticed, FinishFailed, At, Reasons
<1>3. Finished(run[r], "canceled", v)
  BY <1>1 DEF Finished
<1>4. QED
  BY <1>1, <1>2, <1>3, EndStep DEF Waits, Live

\* The step to another stage that changes nothing else of a run.
LEMMA StageStep ==
  ASSUME AgentInv, NEW r \in Runs, NEW stage \in Stages \ (Waits \cup {"new", "over", "stream", "usage"}),
         run[r].stage \notin Waits \cup {"new", "over", "dead"}, stage # "dead",
         run[r].stage \in {"stream", "failing"} => stage = "failing",
         run' = [run EXCEPT ![r].stage = stage],
         stage \in {"tool"} => run[r].call <= Calls(r),
         stage \in {"tool", "tools"} => run[r].reason # "canceled",
         UNCHANGED <<permissionVars, active, saved>>
  PROVE  AgentInv'
<1> DEFINE o == [run[r] EXCEPT !.stage = stage]
<1>2. /\ run[r] \in RunRecords /\ Within(r, run[r]) /\ RunInOrder(run[r], saved[r])
      /\ run \in [Runs -> RunRecords] /\ saved \in [Runs -> Reasons]
      /\ saved = [saved EXCEPT ![r] = saved[r]] /\ Calls(r) = Len(run[r].results)
  BY RunFacts
<1>5. o \in RunRecords
  BY <1>2 DEF RunRecords
<1>6. /\ o.stage = stage /\ o.results = run[r].results /\ o.cancelled = run[r].cancelled
      /\ o.call = run[r].call /\ o.ran = run[r].ran /\ o.turn = run[r].turn /\ o.quiet = run[r].quiet /\ o.reason = run[r].reason
  BY <1>2 DEF RunRecords
<1>7. run' = [run EXCEPT ![r] = o] /\ saved' = [saved EXCEPT ![r] = saved[r]]
  BY <1>2 DEF RunRecords
<1> HIDE DEF o
<1>10. Within(r, o)
  BY <1>2, <1>6 DEF Within
<1>11. RunInOrder(o, saved[r])
  BY <1>2, <1>6 DEF RunInOrder, Calling, ReasonOf, Says, Waits
<1>12. RunMoves(r, o, saved[r])
  BY <1>2, <1>5, <1>7, <1>10, <1>11 DEF RunMoves
<1>13. QED
  BY <1>6, <1>12, LocalStep DEF Waits, Live

LEMMA UsageStep ==
  ASSUME AgentInv, NEW r \in Runs, StreamFails(r) \/ TrackUsage(r)
  PROVE  AgentInv'
<1>1. RunInOrder(run[r], saved[r]) /\ run[r] \in RunRecords /\ run \in [Runs -> RunRecords]
  BY RunFacts
<1>2. CASE StreamFails(r)
  BY <1>2, StageStep DEF StreamFails, Stages, Waits
<1>3. CASE TrackUsage(r)
  <2>1. run[r].stage = "usage" /\ run[r].call = 1 /\ run[r].reason # "canceled"
    BY <1>1, <1>3 DEF TrackUsage, At, RunInOrder
  <2>2. PICK stage \in {"record", "tools"} : run' = [run EXCEPT ![r].stage = stage, ![r].call = 1]
    BY <1>3 DEF TrackUsage
  <2>3. run' = [run EXCEPT ![r].stage = stage]
    BY <1>1, <2>1, <2>2 DEF RunRecords
  <2>4. QED
    BY <1>3, <2>1, <2>3, StageStep DEF TrackUsage, Stages, Waits
<1>4. QED
  BY <1>2, <1>3
-----------------------------------------------------------------------------
(* The tool calls of an answer. *)

\* A result for the call at hand, which has none yet.
LEMMA ResultMove ==
  ASSUME AgentInv, NEW r \in Runs, NEW value \in {"own", "not_found"}, NEW o \in RunRecords,
         run[r].stage \in {"tools", "tool"}, run[r].call <= Calls(r),
         o.stage = "tools", o.cancelled = run[r].cancelled, o.turn = run[r].turn /\ o.quiet = run[r].quiet,
         o.reason = run[r].reason, o.results = WithResult(r, value), o.call = run[r].call + 1,
         o.ran = IF value = "own" THEN run[r].ran \cup {run[r].call} ELSE run[r].ran
  PROVE  Within(r, o) /\ RunInOrder(o, saved[r])
<1> DEFINE old == run[r].results
           n   == run[r].call
<1>1. /\ run[r] \in RunRecords /\ Within(r, run[r]) /\ RunInOrder(run[r], saved[r])
      /\ Calls(r) = Len(old) /\ old \in Seq(Results)
  BY RunFacts
<1>2. /\ o.results \in Seq(Results) /\ Len(o.results) = Len(old) /\ DOMAIN o.results = 1 .. Len(old)
      /\ n \in 1 .. Len(old) /\ o.results[n] = value
      /\ \A i \in 1 .. Len(old) : i # n => o.results[i] = old[i]
  BY <1>1, Fields, SMTT(40) DEF WithResult, Within
<1>3. Within(r, o)
  BY <1>1, <1>2, SMTT(40) DEF Within
<1>4. run[r].reason # "canceled" /\ \A i \in n .. Len(old) : old[i] \in {"unset", "canceled"}
  BY <1>1 DEF RunInOrder, Calling
<1>4a. Len(old) \in Nat /\ n \in Nat /\ DOMAIN old = 1 .. Len(old)
  BY <1>1, <1>2, AsFunction
<1>4b. old[n] \in {"unset", "canceled"} /\ o.results[n] \notin {"denied", "canceled", "unset"}
  BY <1>2, <1>4, <1>4a
<1> HIDE DEF old, n
<1>5. Says(o, "denied") <=> Says(run[r], "denied")
  <2>1. \A i \in 1 .. Len(old) : o.results[i] = "denied" <=> old[i] = "denied"
    BY <1>2, <1>4b
  <2>2. QED
    BY <1>2, <1>4a, <2>1 DEF Says, old
<1>6. Says(o, "canceled") => Says(run[r], "canceled")
  <2>1. \A i \in 1 .. Len(old) : o.results[i] = "canceled" => old[i] = "canceled"
    BY <1>2, <1>4b
  <2>2. QED
    BY <1>2, <1>4a, <2>1 DEF Says, old
<1>7. ReasonOf(o) = ReasonOf(run[r])
  BY <1>5 DEF ReasonOf
<1>8. \A i \in o.call .. Len(o.results) : o.results[i] \in {"unset", "canceled"}
  <2>1. o.call = n + 1
    BY DEF n
  <2>2. \A i \in n + 1 .. Len(old) : o.results[i] = old[i] /\ old[i] \in {"unset", "canceled"}
    BY <1>2, <1>4, <1>4a
  <2>3. QED
    BY <1>2, <2>1, <2>2
<1>9. \A i \in o.ran : i < o.call
  BY <1>1, <1>2, <1>4a DEF RunInOrder, Within, n
<1>10. \A i \in DOMAIN o.results : o.results[i] # "unset" => (i \in o.ran <=> o.results[i] = "own")
  <2>1. \A i \in DOMAIN old : old[i] # "unset" => (i \in run[r].ran <=> old[i] = "own")
    BY <1>1 DEF RunInOrder, old
  <2>2. n \notin run[r].ran
    BY <1>1, <1>4a DEF RunInOrder, Within, n
  <2>3. QED
    BY <1>2, <1>4a, <1>4b, <2>1, <2>2 DEF n
<1>11. /\ saved[r] # ReasonOf(o) => o.cancelled /\ ReasonOf(o) \in {"canceled", "permission_denied"}
       /\ saved[r] = "unset" => o.turn = 0 \/ o.quiet \/ (o.cancelled /\ ReasonOf(o) = "canceled")
  BY <1>1, <1>7 DEF RunInOrder
<1>12. Says(o, "canceled") => o.reason = "canceled" \/ Says(o, "denied")
  BY <1>1, <1>5, <1>6 DEF RunInOrder
<1>13. QED
  BY <1>3, <1>4, <1>8, <1>9, <1>10, <1>11, <1>12 DEF RunInOrder, Calling

LEMMA WithResultType ==
  ASSUME AgentInv, NEW r \in Runs, NEW value \in Results
  PROVE  WithResult(r, value) \in Seq(Results)
<1>1. run[r].results \in [1 .. Len(run[r].results) -> Results] /\ Len(run[r].results) \in Nat
  BY RunFacts, AsFunction
<1>2. WithResult(r, value) \in [1 .. Len(run[r].results) -> Results]
  BY <1>1 DEF WithResult
<1>3. QED
  BY <1>1, <1>2, AsSequence

LEMMA RunToolStep ==
  ASSUME AgentInv, NEW r \in Runs, RunTool(r)
  PROVE  AgentInv'
<1> DEFINE o == [run[r] EXCEPT !.stage = "tools", !.results = WithResult(r, "own"),
                               !.call = @ + 1, !.ran = @ \cup {run[r].call}]
<1>1. /\ run[r] \in RunRecords /\ RunInOrder(run[r], saved[r]) /\ run \in [Runs -> RunRecords]
      /\ saved = [saved EXCEPT ![r] = saved[r]] /\ saved[r] \in Reasons
      /\ Calls(r) = Len(run[r].results)
  BY RunFacts
<1>2. run[r].stage = "tool" /\ run[r].call <= Calls(r)
  BY <1>1 DEF RunTool, At, RunInOrder, Calling
<1>3. /\ "tools" \in Stages /\ run[r].call + 1 \in Nat /\ run[r].ran \cup {run[r].call} \in SUBSET Nat
      /\ "own" \in Results
  BY <1>1, Fields DEF Stages, Results
<1>4. o \in RunRecords
  BY <1>1, <1>3, WithResultType DEF RunRecords
<1>5. /\ o.stage = "tools" /\ o.cancelled = run[r].cancelled /\ o.turn = run[r].turn /\ o.quiet = run[r].quiet
      /\ o.reason = run[r].reason /\ o.results = WithResult(r, "own") /\ o.call = run[r].call + 1
      /\ o.ran = run[r].ran \cup {run[r].call}
  BY <1>1 DEF RunRecords
<1>6. run' = [run EXCEPT ![r] = o] /\ saved' = [saved EXCEPT ![r] = saved[r]]
  BY <1>1 DEF RunTool, RunRecords
<1> HIDE DEF o
<1>7. Within(r, o) /\ RunInOrder(o, saved[r])
  BY <1>2, <1>4, <1>5, ResultMove
<1>8. RunMoves(r, o, saved[r])
  BY <1>1, <1>4, <1>6, <1>7 DEF RunMoves
<1>9. QED
  BY <1>2, <1>5, <1>8, LocalStep DEF RunTool, Waits, Live

LEMMA NotFoundStep ==
  ASSUME AgentInv, NEW r \in Runs, At(r, "tools"), run[r].call <= Calls(r),
         NextCall(r, WithResult(r, "not_found")), UNCHANGED <<permissionVars, active, saved>>
  PROVE  AgentInv'
<1> DEFINE o == [run[r] EXCEPT !.stage = "tools", !.results = WithResult(r, "not_found"),
                               !.call = @ + 1, !.allowed = FALSE]
<1>1. /\ run[r] \in RunRecords /\ run \in [Runs -> RunRecords]
      /\ saved = [saved EXCEPT ![r] = saved[r]] /\ saved[r] \in Reasons
  BY RunFacts
<1>3. "tools" \in Stages /\ run[r].call + 1 \in Nat /\ "not_found" \in Results
  BY <1>1, Fields DEF Stages, Results
<1>4. o \in RunRecords
  BY <1>1, <1>3, WithResultType DEF RunRecords
<1>5. /\ o.stage = "tools" /\ o.cancelled = run[r].cancelled /\ o.turn = run[r].turn /\ o.quiet = run[r].quiet
      /\ o.reason = run[r].reason /\ o.results = WithResult(r, "not_found")
      /\ o.call = run[r].call + 1 /\ o.ran = run[r].ran
  BY <1>1 DEF RunRecords
<1>6. run' = [run EXCEPT ![r] = o] /\ saved' = [saved EXCEPT ![r] = saved[r]]
  BY <1>1 DEF NextCall, RunRecords
<1> HIDE DEF o
<1>7. Within(r, o) /\ RunInOrder(o, saved[r])
  BY <1>4, <1>5, ResultMove DEF At
<1>8. RunMoves(r, o, saved[r])
  BY <1>1, <1>4, <1>6, <1>7 DEF RunMoves
<1>9. QED
  BY <1>5, <1>8, LocalStep DEF At, Waits, Live

LEMMA ToolsEndStep ==
  ASSUME AgentInv, NEW r \in Runs, ToolsEnd(r)
  PROVE  AgentInv'
<1>0. /\ run[r] \in RunRecords /\ run \in [Runs -> RunRecords] /\ Within(r, run[r])
      /\ RunInOrder(run[r], saved[r]) /\ saved \in [Runs -> Reasons]
      /\ Calls(r) = Len(run[r].results) /\ run[r].results \in Seq(Results)
  BY RunFacts
<1>1. CASE run' = [run EXCEPT ![r].stage = "record"] /\ UNCHANGED saved
  BY <1>1, StageStep DEF ToolsEnd, At, Waits, Stages
<1>2. CASE /\ run[r].call <= Calls(r) /\ run[r].cancelled
           /\ run' = [run EXCEPT ![r].stage = "record", ![r].reason = "canceled",
                                 ![r].results = ResultsFrom(r, run[r].call, "canceled")]
           /\ Finish(r, "canceled", FALSE)
  <2> DEFINE rest == ResultsFrom(r, run[r].call, "canceled")
             o == [run[r] EXCEPT !.stage = "record", !.reason = "canceled", !.results = rest]
  <2>1. /\ rest \in Seq(Results) /\ Len(rest) = Len(run[r].results) /\ DOMAIN rest = DOMAIN run[r].results
        /\ \A i \in DOMAIN rest : rest[i] = IF i >= run[r].call THEN "canceled" ELSE run[r].results[i]
    <3>1. /\ run[r].results \in [1 .. Len(run[r].results) -> Results]
          /\ Len(run[r].results) \in Nat /\ "canceled" \in Results
          /\ DOMAIN run[r].results = 1 .. Len(run[r].results)
      BY <1>0, AsFunction DEF Results
    <3>2. rest \in [1 .. Len(run[r].results) -> Results]
      BY <3>1 DEF ResultsFrom
    <3>3. rest \in Seq(Results) /\ Len(rest) = Len(run[r].results) /\ DOMAIN rest = 1 .. Len(run[r].results)
      BY <3>1, <3>2, AsSequence
    <3>4. \A i \in DOMAIN rest : rest[i] = IF i >= run[r].call THEN "canceled" ELSE run[r].results[i]
      BY DEF ResultsFrom
    <3>5. QED
      BY <3>1, <3>3, <3>4
  <2> HIDE DEF rest
  <2>2. "record" \in Stages /\ "canceled" \in Reasons
    BY DEF Stages, Reasons
  <2>3. o \in RunRecords
    BY <1>0, <2>1, <2>2 DEF RunRecords
  <2>4. /\ o.stage = "record" /\ o.reason = "canceled" /\ o.results = rest /\ o.call = run[r].call
        /\ o.ran = run[r].ran /\ o.turn = run[r].turn /\ o.quiet = run[r].quiet /\ o.cancelled = run[r].cancelled
    BY <1>0 DEF RunRecords
  <2>5. run' = [run EXCEPT ![r] = o] /\ saved' = [saved EXCEPT ![r] = "canceled"]
    BY <1>0, <1>2 DEF Finish, RunRecords, rest
  <2> HIDE DEF o
  <2>6. Within(r, o)
    BY <1>0, <2>1, <2>4 DEF Within
  <2>7. \A i \in DOMAIN o.results : o.results[i] # "unset" => (i \in o.ran <=> o.results[i] = "own")
    BY <1>0, <2>1, <2>4 DEF RunInOrder, Within
  <2>8. /\ \A i \in o.call .. Len(o.results) : o.results[i] \in {"unset", "canceled"}
        /\ \A i \in o.ran : i < o.call
    BY <1>0, <2>1, <2>4 DEF RunInOrder, Within
  <2>9. RunInOrder(o, "canceled")
    BY <1>2, <2>4, <2>7, <2>8 DEF RunInOrder, Calling, ReasonOf
  <2>10. RunMoves(r, o, "canceled")
    BY <2>2, <2>3, <2>5, <2>6, <2>9 DEF RunMoves
  <2>11. QED
    BY <2>4, <2>10, LocalStep DEF ToolsEnd, At, Waits, Live
<1>3. QED
  BY <1>1, <1>2 DEF ToolsEnd

LEMMA RecordStep ==
  ASSUME AgentInv, NEW r \in Runs, Record(r)
  PROVE  AgentInv'
<1>1. CASE End(r, Reason(r))
  <2>1. saved' = [saved EXCEPT ![r] = saved[r]] /\ saved[r] \in Reasons
    BY RunFacts DEF Record
  <2>2. QED
    BY <1>1, <2>1, ReasonType, EndStep DEF Record, At, Waits, Live
<1>2. CASE run' = [run EXCEPT ![r].stage = "loop"] /\ UNCHANGED active
  BY <1>2, StageStep DEF Record, At, Waits, Stages
<1>3. QED
  BY <1>1, <1>2 DEF Record
-----------------------------------------------------------------------------
(* The user's steps. *)

LEMMA StartStep ==
  ASSUME AgentInv, NEW r \in Runs, Start(r)
  PROVE  AgentInv'
<1> DEFINE o == [run[r] EXCEPT !.stage = "loop"]
           s == SessionOf[r]
<1>1. /\ run[r] \in RunRecords /\ Within(r, run[r]) /\ RunInOrder(run[r], saved[r])
      /\ run \in [Runs -> RunRecords] /\ saved[r] \in Reasons
      /\ saved = [saved EXCEPT ![r] = saved[r]]
  BY RunFacts
<1>2. run[r].stage = "new" /\ ~run[r].cancelled /\ "loop" \in Stages
  BY <1>1 DEF Start, At, RunInOrder, Stages
<1>3. o \in RunRecords
  BY <1>1, <1>2 DEF RunRecords
<1>4. /\ o.stage = "loop" /\ o.results = run[r].results /\ o.cancelled = run[r].cancelled
      /\ o.call = run[r].call /\ o.ran = run[r].ran /\ o.turn = run[r].turn /\ o.quiet = run[r].quiet /\ o.reason = run[r].reason
  BY <1>1 DEF RunRecords
<1>5. /\ run' = [run EXCEPT ![r] = o] /\ saved' = [saved EXCEPT ![r] = saved[r]]
      /\ active' = [active EXCEPT ![s] = r] /\ UNCHANGED permissionVars
  BY <1>1 DEF Start, RunRecords
<1> HIDE DEF o
<1>6. Within(r, o) /\ RunInOrder(o, saved[r])
  BY <1>1, <1>2, <1>4 DEF Within, RunInOrder, Calling, ReasonOf, Says
<1>7. RunMoves(r, o, saved[r])
  BY <1>1, <1>3, <1>5, <1>6 DEF RunMoves
<1>8. RunsTyped' /\ RunsInv' /\ run'[r] = o /\ \A q \in Runs \ {r} : run'[q] = run[q]
  BY <1>7, RunMoved
<1>9. active \in [Sessions -> Runs \cup {None}] /\ s \in Sessions
  BY DEF AgentInv, TypeOK
<1>10. EntriesTyped'
  BY <1>5, <1>9 DEF EntriesTyped
<1>11. EntryIsLive'
  <2>1. SUFFICES ASSUME NEW t \in Sessions, active'[t] # None
                 PROVE  /\ run'[active'[t]].stage \notin {"new", "over"} /\ SessionOf[active'[t]] = t
                        /\ ~run'[active'[t]].cancelled
    BY DEF EntryIsLive, Live, At
  <2>2. CASE t = s
    BY <1>2, <1>4, <1>5, <1>8, <1>9, <2>2
  <2>3. CASE t # s
    <3>1. active'[t] = active[t] /\ active[t] \in Runs
      BY <1>5, <1>9, <2>1, <2>3
    <3>2. active[t] \in Runs \ {r} /\ Goes(active[t]) /\ SessionOf[active[t]] = t /\ ~run[active[t]].cancelled
      BY <2>1, <2>3, <3>1 DEF AgentInv, EntriesInOrder, EntryIsLive, Live, At, Goes
    <3>3. QED
      BY <1>8, <3>1, <3>2 DEF Goes
  <2>4. QED
    BY <2>2, <2>3
<1>11a. LosesEntryToCancelled'
  <2>1. SUFFICES ASSUME NEW q \in Runs, Live(q)', ~run'[q].cancelled, active'[SessionOf[q]] # q
                 PROVE  \E c \in Runs : SessionOf[c] = SessionOf[q] /\ run'[c].cancelled /\ run'[c].stage = "over"
    BY DEF LosesEntryToCancelled, At
  <2>2. q # r
    BY <1>5, <1>9, <2>1
  <2>3. Live(q) /\ ~run[q].cancelled /\ active[SessionOf[q]] # q
    BY <1>5, <1>8, <1>9, <2>1, <2>2 DEF Live, Start
  <2>4. PICK c \in Runs : SessionOf[c] = SessionOf[q] /\ run[c].cancelled /\ run[c].stage = "over"
    BY <2>3 DEF AgentInv, EntriesInOrder, LosesEntryToCancelled, At
  <2>5. QED
    BY <1>2, <1>8, <2>4
<1>12. DialogTyped' /\ AskingInv' /\ RunsWithConsent'
  <2>1. \A q \in Runs : /\ At(q, "ask")' <=> At(q, "ask")
                        /\ At(q, "leaving")' <=> At(q, "leaving")
                        /\ At(q, "leaving") => run'[q] = run[q]
    BY <1>2, <1>4, <1>8 DEF At
  <2>2. QED
    BY <1>5, <2>1, SameQuestions
<1>13. QED
  BY <1>8, <1>10, <1>11, <1>11a, <1>12, TypeParts DEF AgentInv, EntriesInOrder

LEMMA CancelStep ==
  ASSUME AgentInv, NEW s \in Sessions, Cancel(s)
  PROVE  AgentInv'
<1> DEFINE r == active[s]
           o == [run[r] EXCEPT !.cancelled = TRUE]
<1>0. active \in [Sessions -> Runs \cup {None}] /\ r # None
  BY DEF AgentInv, TypeOK, Cancel
<1>1. r \in Runs /\ SessionOf[r] = s /\ run[r].stage \notin {"new", "over"}
  BY <1>0 DEF AgentInv, EntriesInOrder, EntryIsLive, Live, At
<1> HIDE DEF r
<1>2. /\ run[r] \in RunRecords /\ Within(r, run[r]) /\ RunInOrder(run[r], saved[r])
      /\ run \in [Runs -> RunRecords] /\ saved[r] \in Reasons
      /\ saved = [saved EXCEPT ![r] = saved[r]]
  BY <1>1, RunFacts
<1>3. o \in RunRecords
  BY <1>2 DEF RunRecords
<1>4. /\ o.stage = run[r].stage /\ o.results = run[r].results /\ o.cancelled = TRUE
      /\ o.call = run[r].call /\ o.ran = run[r].ran /\ o.turn = run[r].turn /\ o.quiet = run[r].quiet /\ o.reason = run[r].reason
      /\ o.allowed = run[r].allowed
  BY <1>2 DEF RunRecords
<1>5. /\ run' = [run EXCEPT ![r] = o] /\ saved' = [saved EXCEPT ![r] = saved[r]]
      /\ active' = [active EXCEPT ![s] = None] /\ UNCHANGED permissionVars
  <2>1. run' = [q \in Runs |-> IF q = r THEN o ELSE run[q]]
    BY DEF Cancel, r
  <2>2. QED
    BY <1>1, <1>2, <2>1 DEF Cancel
<1> HIDE DEF o
<1>6. Within(r, o) /\ RunInOrder(o, saved[r])
  BY <1>1, <1>2, <1>4 DEF Within, RunInOrder, Calling, Says, ReasonOf
<1>7. RunMoves(r, o, saved[r])
  BY <1>2, <1>3, <1>5, <1>6 DEF RunMoves
<1>8. RunsTyped' /\ RunsInv' /\ run'[r] = o /\ \A q \in Runs \ {r} : run'[q] = run[q]
  BY <1>1, <1>7, RunMoved
<1>9. EntriesTyped'
  BY <1>0, <1>5 DEF EntriesTyped
<1>10. EntryIsLive'
  <2>1. SUFFICES ASSUME NEW t \in Sessions, active'[t] # None
                 PROVE  /\ run'[active'[t]].stage \notin {"new", "over"} /\ SessionOf[active'[t]] = t
                        /\ ~run'[active'[t]].cancelled
    BY DEF EntryIsLive, Live, At
  <2>2. t # s /\ active'[t] = active[t] /\ active[t] \in Runs
    BY <1>0, <1>5, <2>1
  <2>3. active[t] \in Runs \ {r} /\ Goes(active[t]) /\ SessionOf[active[t]] = t /\ ~run[active[t]].cancelled
    BY <1>1, <2>1, <2>2 DEF AgentInv, EntriesInOrder, EntryIsLive, Live, At, Goes
  <2>4. QED
    BY <1>8, <2>2, <2>3 DEF Goes
<1>10a. LosesEntryToCancelled'
  <2>1. SUFFICES ASSUME NEW q \in Runs, Live(q)', ~run'[q].cancelled, active'[SessionOf[q]] # q
                 PROVE  \E c \in Runs : SessionOf[c] = SessionOf[q] /\ run'[c].cancelled /\ run'[c].stage = "over"
    BY DEF LosesEntryToCancelled, At
  <2>2. q # r /\ Live(q) /\ ~run[q].cancelled
    BY <1>4, <1>8, <2>1 DEF Live
  <2>3. active[SessionOf[q]] # q
    BY <1>0, <1>5, <2>1, <2>2 DEF r
  <2>4. PICK c \in Runs : SessionOf[c] = SessionOf[q] /\ run[c].cancelled /\ run[c].stage = "over"
    BY <2>2, <2>3 DEF AgentInv, EntriesInOrder, LosesEntryToCancelled, At
  <2>5. QED
    BY <1>4, <1>8, <2>4
<1>11. DialogTyped' /\ AskingInv' /\ RunsWithConsent'
  <2>1. \A q \in Runs : /\ At(q, "ask")' <=> At(q, "ask")
                        /\ At(q, "leaving")' <=> At(q, "leaving")
                        /\ run'[q].allowed = run[q].allowed
    BY <1>4, <1>8 DEF At
  <2>2. QED
    BY <1>5, <2>1, SameQuestions
<1>12. QED
  BY <1>8, <1>9, <1>10, <1>10a, <1>11, TypeParts DEF AgentInv, EntriesInOrder
-----------------------------------------------------------------------------
(* Questions. *)

\* What the invariant says of a run that waits for an answer or leaves with one.
LEMMA WaitingFacts ==
  ASSUME AgentInv
  PROVE  /\ DialogTyped
         /\ \A r \in Runs : /\ Request(r) \in pending <=> r \in Waiting
                            /\ r \notin Waiting => answer[r] = <<>>
         /\ \A id \in pending : id[1] \in Waiting /\ id = Request(id[1])
<1>1. DialogTyped /\ pending = {Request(r) : r \in Waiting} /\ Waiting \subseteq Runs
  BY TypeParts DEF AgentInv, AskingInv, Waiting
<1>2. \A r \in Runs : Request(r)[1] = r
  BY DEF Request
<1>3. QED
  BY <1>1, <1>2 DEF AgentInv, AskingInv

\* The stage, and allowed, change, and so do the questions.
LEMMA QuestionMove ==
  ASSUME AgentInv, NEW r \in Runs, NEW stage \in Waits \cup {"tool"}, NEW allowed \in BOOLEAN,
         run' = [run EXCEPT ![r].stage = stage, ![r].allowed = allowed],
         run[r].stage \in Waits \cup {"tools"}, run[r].call <= Calls(r),
         UNCHANGED <<active, saved>>
  PROVE  /\ RunsTyped' /\ RunsInv' /\ EntriesTyped' /\ EntriesInOrder'
         /\ run'[r].stage = stage /\ run'[r].allowed = allowed
         /\ \A q \in Runs \ {r} : run'[q] = run[q]
<1> DEFINE o == [run[r] EXCEPT !.stage = stage, !.allowed = allowed]
<1>1. /\ run[r] \in RunRecords /\ Within(r, run[r]) /\ RunInOrder(run[r], saved[r])
      /\ run \in [Runs -> RunRecords] /\ saved[r] \in Reasons
      /\ saved = [saved EXCEPT ![r] = saved[r]] /\ Calls(r) = Len(run[r].results)
  BY RunFacts
<1>2. stage \in Stages
  BY DEF Stages, Waits
<1>3. o \in RunRecords
  BY <1>1, <1>2 DEF RunRecords
<1>4. /\ o.stage = stage /\ o.results = run[r].results /\ o.cancelled = run[r].cancelled
      /\ o.call = run[r].call /\ o.ran = run[r].ran /\ o.turn = run[r].turn /\ o.quiet = run[r].quiet /\ o.reason = run[r].reason
      /\ o.allowed = allowed
  BY <1>1 DEF RunRecords
<1>5. run' = [run EXCEPT ![r] = o] /\ saved' = [saved EXCEPT ![r] = saved[r]]
  BY <1>1 DEF RunRecords
<1> HIDE DEF o
<1>6. Within(r, o) /\ RunInOrder(o, saved[r])
  BY <1>1, <1>4 DEF Within, RunInOrder, Calling, Waits, ReasonOf, Says
<1>7. RunMoves(r, o, saved[r])
  BY <1>1, <1>3, <1>5, <1>6 DEF RunMoves
<1>8. RunsTyped' /\ RunsInv' /\ run'[r] = o /\ \A q \in Runs \ {r} : run'[q] = run[q]
  BY <1>7, RunMoved
<1>9. \A q \in Runs : SameLife(q)
  BY <1>4, <1>8 DEF SameLife, Goes, At, Live, Waits
<1>10. QED
  BY <1>4, <1>8, <1>9, SameEntries

LEMMA AskStep ==
  ASSUME AgentInv, NEW r \in Runs, At(r, "tools"), run[r].call <= Calls(r), Ask(r),
         run' = [run EXCEPT ![r].stage = "ask"], UNCHANGED <<active, saved>>
  PROVE  AgentInv'
<1>0. PICK id : id = <<r, asked[r] + 1>>
  OBVIOUS
<1>1. run \in [Runs -> RunRecords] /\ run[r] \in RunRecords /\ run[r].allowed \in BOOLEAN
  BY RunFacts, Fields
<1>2. run' = [run EXCEPT ![r].stage = "ask", ![r].allowed = run[r].allowed]
  BY <1>1 DEF RunRecords
<1>3. /\ RunsTyped' /\ RunsInv' /\ EntriesTyped' /\ EntriesInOrder' /\ run'[r].stage = "ask"
      /\ \A q \in Runs \ {r} : run'[q] = run[q]
  BY <1>1, <1>2, QuestionMove DEF At, Waits
<1>4. /\ asked' = [asked EXCEPT ![r] = asked[r] + 1] /\ pending' = pending \cup {id}
      /\ inbox' \in {Append(inbox, id), inbox}
      /\ UNCHANGED <<answer, grants, dialog, replies, blocked, consent>>
  BY <1>0 DEF Ask
<1>5. DialogTyped /\ asked \in [Runs -> Nat] /\ asked[r] \in Nat /\ asked[r] + 1 \in Nat
  <2>1. DialogTyped
    BY WaitingFacts
  <2>2. asked \in [Runs -> Nat]
    BY <2>1 DEF DialogTyped
  <2>3. asked[r] \in Nat
    BY <2>2
  <2>4. QED
    BY <2>1, <2>2, <2>3
<1>6. id \in Requests /\ inbox \in Seq(Requests)
  BY <1>0, <1>5 DEF Requests, DialogTyped
<1>7. /\ inbox' \in Seq(Requests)
      /\ \A i \in DOMAIN inbox' : inbox'[i] = id \/ (i \in DOMAIN inbox /\ inbox'[i] = inbox[i])
  <2>1. CASE inbox' = inbox
    BY <1>6, <2>1
  <2>2. CASE inbox' = Append(inbox, id)
    BY <1>6, <2>2
  <2>3. QED
    BY <1>4, <2>1, <2>2
<1>8. DialogTyped'
  BY <1>4, <1>5, <1>6, <1>7 DEF DialogTyped
<1>9. /\ asked'[r] = asked[r] + 1 /\ \A q \in Runs \ {r} : asked'[q] = asked[q]
      /\ \A q \in Runs : asked[q] \in Nat /\ asked[q] <= asked'[q]
  BY <1>4, <1>5
<1>10. Waiting' = Waiting \cup {r} /\ r \notin Waiting
  BY <1>3 DEF Waiting, At
<1>11. Request(r)' = id /\ \A q \in Runs \ {r} : Request(q)' = Request(q)
  BY <1>0, <1>9 DEF Request
<1>12. pending' = {Request(q) : q \in Waiting}'
  <2>1. pending = {Request(q) : q \in Waiting} /\ Waiting \subseteq Runs
    BY DEF AgentInv, AskingInv, Waiting
  <2>2. QED
    BY <1>4, <1>10, <1>11, <2>1
<1>13. \A q \in Runs \ Waiting' : answer'[q] = <<>>
  BY <1>4, <1>10 DEF AgentInv, AskingInv
<1>14. \A made \in Requests : Made(made) => Made(made)' /\ made # id
  <2>1. SUFFICES ASSUME NEW made \in Requests, made[2] <= asked[made[1]]
                 PROVE  made[2] <= asked'[made[1]] /\ made # id
    BY DEF Made
  <2>2. made[1] \in Runs /\ made[2] \in Nat
    BY DEF Requests
  <2>3. made[2] <= asked'[made[1]]
    BY <1>9, <2>1, <2>2
  <2>4. made # id
    BY <1>0, <1>5, <2>1, <2>2
  <2>5. QED
    BY <2>3, <2>4
<1>15. Made(id)'
  BY <1>0, <1>5, <1>9 DEF Made
<1>16. dialog' # None => Made(dialog)'
  BY <1>4, <1>5, <1>14 DEF AgentInv, AskingInv, DialogTyped, Made
<1>17. blocked' # None => Made(blocked.id)' /\ blocked.id # id
  BY <1>4, <1>5, <1>14 DEF AgentInv, AskingInv, DialogTyped, Made
<1>18. \A i \in DOMAIN inbox' : Made(inbox[i])'
  <2>1. \A i \in DOMAIN inbox : inbox[i] \in Requests /\ Made(inbox[i])
    BY <1>6 DEF AgentInv, AskingInv
  <2>2. QED
    BY <1>4, <1>7, <1>14, <1>15, <2>1 DEF Made
<1>19. \A i \in DOMAIN replies' : Made(replies[i].id)' /\ replies[i].id # id
  <2>1. \A i \in DOMAIN replies : replies[i].id \in Requests /\ Made(replies[i].id)
    <3>1. replies \in Seq([id : Requests, action : Actions])
      BY <1>5 DEF DialogTyped
    <3>2. \A i \in DOMAIN replies : replies[i] \in [id : Requests, action : Actions]
      BY <3>1, ElementType
    <3>3. QED
      BY <3>2 DEF AgentInv, AskingInv
  <2>2. QED
    BY <1>4, <1>14, <2>1 DEF Made
<1>20. \A q \in Runs : answer'[q] = <<TRUE>> => Request(q)' \in consent'
  <2>1. answer[r] = <<>> /\ <<>> # <<TRUE>>
    BY <1>10 DEF AgentInv, AskingInv
  <2>2. QED
    BY <1>4, <1>11, <2>1 DEF AgentInv, AskingInv
<1>21. blocked' # None => (Verdict(blocked)' /\ blocked'.id \in pending' => blocked'.id \in consent')
  BY <1>4, <1>17 DEF AgentInv, AskingInv, Verdict
<1>22. \A i \in DOMAIN replies' :
         Verdict(replies[i])' /\ replies'[i].id \in pending' => replies'[i].id \in consent'
  BY <1>4, <1>19 DEF AgentInv, AskingInv, Verdict
<1>23. AskingInv'
  BY <1>12, <1>13, <1>16, <1>17, <1>18, <1>19, <1>20, <1>21, <1>22, <1>4 DEF AskingInv
<1>24. RunsWithConsent'
  <2>1. \A q \in Runs : At(q, "leaving")' => q # r
    BY <1>3 DEF At
  <2>2. QED
    BY <1>3, <1>4, <1>11, <2>1 DEF AgentInv, RunsWithConsent, At
<1>25. QED
  BY <1>3, <1>8, <1>23, <1>24, TypeParts DEF AgentInv

LEMMA DispatchStep ==
  ASSUME AgentInv, NEW r \in Runs, Dispatch(r)
  PROVE  AgentInv'
<1>1. /\ run[r].stage = "tools" /\ At(r, "tools") /\ run[r].call <= Calls(r)
      /\ UNCHANGED <<active, saved>> /\ run[r].reason # "canceled"
  BY RunFacts DEF Dispatch, At, RunInOrder
<1>2. CASE NextCall(r, WithResult(r, "not_found")) /\ UNCHANGED permissionVars
  BY <1>1, <1>2, NotFoundStep
<1>3. CASE run' = [run EXCEPT ![r].stage = "tool"] /\ UNCHANGED permissionVars
  BY <1>1, <1>3, StageStep DEF Stages, Waits
<1>4. CASE run' = [run EXCEPT ![r].stage = "ask"] /\ Ask(r)
  BY <1>1, <1>4, AskStep
<1>5. QED
  BY <1>2, <1>3, <1>4 DEF Dispatch

LEMMA HeadOfOne ==
  ASSUME NEW e
  PROVE  Head(<<e>>) = e
OBVIOUS

LEMMA AnsweredStep ==
  ASSUME AgentInv, NEW r \in Runs, Answered(r)
  PROVE  AgentInv'
<1>1. /\ At(r, "ask") /\ run[r].stage = "ask" /\ r \in Waiting /\ answer[r] # <<>>
      /\ run' = [run EXCEPT ![r].stage = "leaving", ![r].allowed = Head(answer[r])]
      /\ UNCHANGED <<active, saved, asked, pending, grants, inbox, dialog, replies, consent>>
  BY DEF Answered, TakeAnswer, At, Waiting
<1>2. DialogTyped /\ answer[r] \in {<<TRUE>>, <<FALSE>>} /\ Head(answer[r]) \in BOOLEAN
      /\ (Head(answer[r]) => answer[r] = <<TRUE>>)
  <2>1. DialogTyped /\ answer[r] \in {<<TRUE>>, <<FALSE>>}
    BY <1>1, WaitingFacts DEF DialogTyped
  <2>2. CASE answer[r] = <<TRUE>>
    <3>1. Head(answer[r]) = TRUE
      BY <2>2, HeadOfOne
    <3>2. QED
      BY <2>1, <2>2, <3>1
  <2>3. CASE answer[r] = <<FALSE>>
    <3>1. Head(answer[r]) = FALSE
      BY <2>3, HeadOfOne
    <3>2. QED
      BY <2>1, <3>1
  <2>4. QED
    BY <2>1, <2>2, <2>3
<1>3. run[r].call <= Calls(r)
  <2>1. RunInOrder(run[r], saved[r]) /\ Calls(r) = Len(run[r].results)
    BY RunFacts
  <2>2. QED
    BY <1>1, <2>1 DEF RunInOrder, Calling
<1>4. /\ RunsTyped' /\ RunsInv' /\ EntriesTyped' /\ EntriesInOrder' /\ run'[r].stage = "leaving"
      /\ run'[r].allowed = Head(answer[r]) /\ \A q \in Runs \ {r} : run'[q] = run[q]
  BY <1>1, <1>2, <1>3, QuestionMove DEF Waits
<1>5. /\ Waiting' = Waiting /\ \A q \in Runs : Request(q)' = Request(q)
      /\ {Request(q) : q \in Waiting}' = {Request(q) : q \in Waiting}
  BY <1>1, <1>4, ZenonT(60) DEF Waiting, At, Request
<1>6. RunsWithConsent'
  <2>1. \A q \in Runs \ {r} : At(q, "leaving")' => At(q, "leaving")
    BY <1>4 DEF At
  <2>2. answer[r] = <<TRUE>> => Request(r) \in consent
    BY DEF AgentInv, AskingInv
  <2>3. QED
    BY <1>1, <1>2, <1>4, <1>5, <2>1, <2>2 DEF AgentInv, RunsWithConsent
<1>7. CASE blocked # None /\ blocked.id = Request(r)
  <2>1. /\ answer' = [answer EXCEPT ![r] = <<Verdict(blocked)>>]
        /\ blocked' = [blocked EXCEPT !.sent = TRUE]
    BY <1>7 DEF Answered, TakeAnswer
  <2>2. /\ blocked \in [id : Requests, action : Actions, sent : BOOLEAN]
        /\ answer \in [Runs -> {<<>>, <<TRUE>>, <<FALSE>>}]
    BY <1>2, <1>7 DEF DialogTyped
  <2>3. /\ blocked' \in [id : Requests, action : Actions, sent : BOOLEAN]
        /\ blocked'.id = blocked.id /\ blocked'.action = blocked.action
    BY <2>1, <2>2
  <2>4. Verdict(blocked) \in BOOLEAN /\ Verdict(blocked)' = Verdict(blocked)
    BY <2>3 DEF Verdict
  <2>5. <<Verdict(blocked)>> \in {<<TRUE>>, <<FALSE>>}
    <3>1. CASE Verdict(blocked) = TRUE
      BY <3>1
    <3>2. CASE Verdict(blocked) = FALSE
      BY <3>2
    <3>3. QED
      BY <2>4, <3>1, <3>2
  <2>6. /\ answer' \in [Runs -> {<<>>, <<TRUE>>, <<FALSE>>}] /\ answer'[r] = <<Verdict(blocked)>>
        /\ \A q \in Runs \ {r} : answer'[q] = answer[q]
    BY <2>1, <2>2, <2>5
  <2>7. DialogTyped'
    BY <1>1, <1>2, <2>3, <2>6 DEF DialogTyped
  <2>8. answer'[r] = <<TRUE>> => Request(r) \in consent
    <3>1. answer'[r] = <<TRUE>> => Verdict(blocked)
      <4>1. answer'[r][1] = Verdict(blocked) /\ <<TRUE>>[1] = TRUE
        BY <2>6
      <4>2. QED
        BY <4>1
    <3>2. Request(r) \in pending
      BY <1>1, WaitingFacts
    <3>3. QED
      BY <1>7, <3>1, <3>2 DEF AgentInv, AskingInv
  <2>9. blocked' # None /\ Made(blocked.id)'
    <3>1. Made(blocked.id)
      BY <1>7 DEF AgentInv, AskingInv
    <3>2. blocked' # None
      BY <2>3 DEF Requests
    <3>3. QED
      BY <1>1, <2>3, <3>1, <3>2 DEF Made
  <2>10. \A q \in Runs : answer'[q] = <<TRUE>> => Request(q)' \in consent'
    BY <1>1, <1>5, <2>6, <2>8 DEF AgentInv, AskingInv
  <2>11. \A q \in Runs \ Waiting' : answer'[q] = <<>>
    BY <1>1, <1>5, <2>6 DEF AgentInv, AskingInv
  <2>12. AskingInv'
    BY <1>1, <1>5, <1>7, <2>3, <2>4, <2>9, <2>10, <2>11 DEF AgentInv, AskingInv, Made, Verdict
  <2>13. QED
    BY <1>4, <1>6, <2>7, <2>12, TypeParts DEF AgentInv
<1>8. CASE ~(blocked # None /\ blocked.id = Request(r))
  <2>1. answer' = [answer EXCEPT ![r] = <<>>] /\ UNCHANGED blocked
    BY <1>8 DEF Answered, TakeAnswer
  <2>2. /\ answer' \in [Runs -> {<<>>, <<TRUE>>, <<FALSE>>}] /\ answer'[r] = <<>>
        /\ \A q \in Runs \ {r} : answer'[q] = answer[q]
    BY <1>2, <2>1 DEF DialogTyped
  <2>3. DialogTyped'
    BY <1>1, <1>2, <2>1, <2>2 DEF DialogTyped
  <2>4. \A q \in Runs : answer'[q] = <<TRUE>> => Request(q)' \in consent'
    <3>1. answer'[r] # <<TRUE>>
      BY <2>2
    <3>2. QED
      BY <1>1, <1>5, <2>2, <3>1 DEF AgentInv, AskingInv
  <2>5. \A q \in Runs \ Waiting' : answer'[q] = <<>>
    BY <1>5, <2>2 DEF AgentInv, AskingInv
  <2>6. AskingInv'
    BY <1>1, <1>5, <2>1, <2>4, <2>5 DEF AgentInv, AskingInv, Made, Verdict
  <2>7. QED
    BY <1>4, <1>6, <2>3, <2>6, TypeParts DEF AgentInv
<1>9. QED
  BY <1>7, <1>8

\* A request is forgotten when its run leaves.
LEMMA Forgotten ==
  ASSUME AgentInv, NEW r \in Waiting, Forget(r), run'[r].stage \notin Waits,
         \A q \in Runs \ {r} : run'[q] = run[q]
  PROVE  DialogTyped' /\ AskingInv' /\ RunsWithConsent'
<1>1. /\ pending' = pending \ {Request(r)} /\ answer' = [answer EXCEPT ![r] = <<>>]
      /\ consent' = consent \ {Request(r)} /\ r \in Runs
      /\ UNCHANGED <<asked, grants, inbox, dialog, replies, blocked>>
  BY DEF Forget, Waiting
<1>2. DialogTyped /\ answer \in [Runs -> {<<>>, <<TRUE>>, <<FALSE>>}]
  BY WaitingFacts DEF DialogTyped
<1>3. /\ answer' \in [Runs -> {<<>>, <<TRUE>>, <<FALSE>>}] /\ answer'[r] = <<>>
      /\ \A q \in Runs \ {r} : answer'[q] = answer[q]
  BY <1>1, <1>2
<1>4. DialogTyped'
  BY <1>1, <1>2, <1>3 DEF DialogTyped
<1>5. Waiting' = Waiting \ {r} /\ \A q \in Runs \ {r} : At(q, "leaving")' <=> At(q, "leaving")
  BY DEF Waiting, At, Waits
<1>6. ~At(r, "leaving")'
  BY DEF At, Waits
<1>7. \A q \in Runs : Request(q)' = Request(q) /\ (q # r => Request(q) # Request(r))
  BY <1>1 DEF Request
<1>8. pending' = {Request(q) : q \in Waiting}'
  <2>1. pending = {Request(q) : q \in Waiting} /\ Waiting \subseteq Runs
    BY DEF AgentInv, AskingInv, Waiting
  <2>2. QED
    BY <1>1, <1>5, <1>7, <2>1
<1>9. \A q \in Runs \ Waiting' : answer'[q] = <<>>
  BY <1>3, <1>5 DEF AgentInv, AskingInv
<1>10. \A q \in Runs : answer'[q] = <<TRUE>> => Request(q)' \in consent'
  <2>1. answer'[r] # <<TRUE>>
    BY <1>3
  <2>2. QED
    BY <1>1, <1>3, <1>7, <2>1 DEF AgentInv, AskingInv
<1>11. blocked' # None => (Verdict(blocked)' /\ blocked'.id \in pending' => blocked'.id \in consent')
  BY <1>1 DEF AgentInv, AskingInv, Verdict
<1>12. \A i \in DOMAIN replies' :
         Verdict(replies[i])' /\ replies'[i].id \in pending' => replies'[i].id \in consent'
  BY <1>1 DEF AgentInv, AskingInv, Verdict
<1>13. AskingInv'
  BY <1>1, <1>8, <1>9, <1>10, <1>11, <1>12 DEF AgentInv, AskingInv, Made
<1>14. RunsWithConsent'
  BY <1>1, <1>5, <1>6, <1>7 DEF AgentInv, RunsWithConsent
<1>15. QED
  BY <1>4, <1>13, <1>14

\* What AfterDenial makes of the results.
LEMMA DeniedResults ==
  ASSUME AgentInv, NEW r \in Runs, run[r].call <= Calls(r)
  PROVE  LET rest == [ResultsFrom(r, run[r].call + 1, "canceled") EXCEPT ![run[r].call] = "denied"]
         IN  /\ rest \in Seq(Results) /\ Len(rest) = Calls(r) /\ DOMAIN rest = 1 .. Calls(r)
             /\ \A i \in 1 .. Calls(r) :
                  rest[i] = IF i > run[r].call THEN "canceled"
                            ELSE IF i = run[r].call THEN "denied" ELSE run[r].results[i]
<1> DEFINE old == run[r].results
           n == run[r].call
           rest == [ResultsFrom(r, n + 1, "canceled") EXCEPT ![n] = "denied"]
<1>1. /\ old \in [1 .. Calls(r) -> Results] /\ Calls(r) \in Nat /\ DOMAIN old = 1 .. Calls(r)
      /\ n \in 1 .. Calls(r)
  BY RunFacts, AsFunction DEF Within
<1>2. {"canceled", "denied"} \subseteq Results
  BY DEF Results
<1>3. ResultsFrom(r, n + 1, "canceled") = [i \in 1 .. Calls(r) |-> IF i >= n + 1 THEN "canceled" ELSE old[i]]
  BY <1>1 DEF ResultsFrom
<1>4. /\ rest \in [1 .. Calls(r) -> Results]
      /\ \A i \in 1 .. Calls(r) :
           rest[i] = IF i > n THEN "canceled" ELSE IF i = n THEN "denied" ELSE old[i]
  <2> HIDE DEF old, n
  <2>1. QED
    BY <1>1, <1>2, <1>3
<1>5. rest \in Seq(Results) /\ Len(rest) = Calls(r) /\ DOMAIN rest = 1 .. Calls(r)
  <2> HIDE DEF rest
  <2>1. QED
    BY <1>1, <1>4, AsSequence
<1>6. QED
  BY <1>4, <1>5

LEMMA ReturnStep ==
  ASSUME AgentInv, NEW r \in Runs, Return(r)
  PROVE  AgentInv'
<1>1. run[r].stage = "leaving" /\ r \in Waiting /\ Forget(r) /\ UNCHANGED active
  BY DEF Return, At, Waiting
<1>2. /\ run[r] \in RunRecords /\ RunInOrder(run[r], saved[r]) /\ run \in [Runs -> RunRecords]
      /\ Within(r, run[r]) /\ saved \in [Runs -> Reasons] /\ Calls(r) = Len(run[r].results)
      /\ saved[r] \in Reasons
  BY RunFacts
<1>3. run[r].call <= Calls(r) /\ run[r].reason # "canceled"
  BY <1>1, <1>2 DEF RunInOrder, Calling
<1>4. CASE run' = [run EXCEPT ![r].stage = "tool", ![r].allowed = FALSE] /\ UNCHANGED saved
  <2>1. /\ RunsTyped' /\ RunsInv' /\ EntriesTyped' /\ EntriesInOrder' /\ run'[r].stage = "tool"
        /\ \A q \in Runs \ {r} : run'[q] = run[q]
    BY <1>1, <1>3, <1>4, QuestionMove DEF Waits
  <2>2. DialogTyped' /\ AskingInv' /\ RunsWithConsent'
    BY <1>1, <2>1, Forgotten DEF Waits
  <2>3. QED
    BY <2>1, <2>2, TypeParts DEF AgentInv
<1>5. CASE AfterDenial(r) /\ Finish(r, "permission_denied", run[r].cancelled)
  <2> DEFINE rest == [ResultsFrom(r, run[r].call + 1, "canceled") EXCEPT ![run[r].call] = "denied"]
             o == [run[r] EXCEPT !.stage = "tools", !.results = rest, !.call = @ + 1, !.allowed = FALSE]
             v == IF run[r].cancelled THEN saved[r] ELSE "permission_denied"
  <2>1. /\ rest \in Seq(Results) /\ Len(rest) = Calls(r) /\ DOMAIN rest = 1 .. Calls(r)
        /\ \A i \in 1 .. Calls(r) :
             rest[i] = IF i > run[r].call THEN "canceled"
                       ELSE IF i = run[r].call THEN "denied" ELSE run[r].results[i]
    BY <1>3, DeniedResults
  <2>2. run' = [run EXCEPT ![r].stage = "tools", ![r].results = rest, ![r].call = @ + 1,
                           ![r].allowed = FALSE]
    BY <1>5 DEF AfterDenial, NextCall
  <2> HIDE DEF rest
  <2>3. run[r].call \in Nat /\ run[r].call + 1 \in Nat /\ "tools" \in Stages /\ v \in Reasons
    BY <1>2, Fields DEF Stages, Reasons
  <2>4. o \in RunRecords
    BY <1>2, <2>1, <2>3 DEF RunRecords
  <2>5. /\ o.stage = "tools" /\ o.results = rest /\ o.call = run[r].call + 1 /\ o.ran = run[r].ran
        /\ o.turn = run[r].turn /\ o.quiet = run[r].quiet /\ o.reason = run[r].reason /\ o.cancelled = run[r].cancelled
    BY <1>2 DEF RunRecords
  <2>6. run' = [run EXCEPT ![r] = o]
    BY <1>2, <2>2 DEF RunRecords
  <2>7. saved' = [saved EXCEPT ![r] = v]
    BY <1>5 DEF Finish
  <2> HIDE DEF o
  <2>8. Calls(r) \in Nat /\ run[r].call \in 1 .. Calls(r) /\ DOMAIN run[r].results = 1 .. Calls(r)
    BY <1>2, <1>3, AsFunction DEF Within
  <2>9. Within(r, o)
    BY <1>2, <2>1, <2>5, <2>8 DEF Within
  <2>10. Says(o, "denied")
    <3>1. rest[run[r].call] = "denied"
      BY <2>1, <2>8
    <3>2. QED
      BY <2>1, <2>5, <2>8, <3>1 DEF Says
  <2>11. ReasonOf(o) = "permission_denied"
    BY <1>3, <2>5, <2>10 DEF ReasonOf
  <2>12. \A i \in o.call .. Len(o.results) : o.results[i] \in {"unset", "canceled"}
    BY <2>1, <2>5, <2>8
  <2>13. \A i \in run[r].ran : i < run[r].call /\ i \in Nat
    BY <1>2, Fields DEF RunInOrder
  <2>14. \A i \in o.ran : i < o.call
    BY <2>5, <2>8, <2>13
  <2>15. \A i \in DOMAIN o.results : o.results[i] # "unset" => (i \in o.ran <=> o.results[i] = "own")
    <3>1. \A i \in 1 .. Calls(r) :
            run[r].results[i] # "unset" => (i \in run[r].ran <=> run[r].results[i] = "own")
      BY <1>2, <2>8 DEF RunInOrder
    <3>2. SUFFICES ASSUME NEW i \in 1 .. Calls(r), rest[i] # "unset"
                   PROVE  i \in run[r].ran <=> rest[i] = "own"
      BY <2>1, <2>5
    <3>3. i \in Nat /\ run[r].call \in Nat
      BY <2>8
    <3>4. CASE i > run[r].call
      <4>1. rest[i] = "canceled" /\ ~(i < run[r].call)
        BY <2>1, <3>3, <3>4
      <4>2. QED
        BY <2>13, <4>1
    <3>5. CASE i = run[r].call
      <4>1. rest[i] = "denied" /\ ~(i < run[r].call)
        BY <2>1, <3>3, <3>5
      <4>2. QED
        BY <2>13, <4>1
    <3>6. CASE i < run[r].call
      <4>1. rest[i] = run[r].results[i]
        BY <2>1, <3>3, <3>6
      <4>2. QED
        BY <3>1, <3>2, <4>1
    <3>7. QED
      BY <3>3, <3>4, <3>5, <3>6
  <2>15a. /\ v # ReasonOf(o) => o.cancelled
          /\ v = "unset" => o.turn = 0 \/ o.quiet
    <3>1. saved[r] = "unset" => run[r].turn = 0 \/ run[r].quiet
      BY <1>1, <1>2, <1>3 DEF RunInOrder, ReasonOf
    <3>2. QED
      BY <2>5, <2>11, <3>1
  <2>16. RunInOrder(o, v)
    BY <1>3, <2>5, <2>10, <2>11, <2>12, <2>14, <2>15, <2>15a DEF RunInOrder, Calling
  <2>17. RunMoves(r, o, v)
    BY <2>3, <2>4, <2>6, <2>7, <2>9, <2>16 DEF RunMoves
  <2>18. RunsTyped' /\ RunsInv' /\ run'[r] = o /\ \A q \in Runs \ {r} : run'[q] = run[q]
    BY <2>17, RunMoved
  <2>19. EntriesTyped' /\ EntriesInOrder'
    <3>1. \A q \in Runs : SameLife(q)
      BY <1>1, <2>5, <2>18 DEF SameLife, Goes, At, Live
    <3>2. QED
      BY <1>1, <3>1, SameEntries
  <2>20. DialogTyped' /\ AskingInv' /\ RunsWithConsent'
    BY <1>1, <2>5, <2>18, Forgotten DEF Waits
  <2>21. QED
    BY <2>18, <2>19, <2>20, TypeParts DEF AgentInv
<1>6. QED
  BY <1>4, <1>5 DEF Return
-----------------------------------------------------------------------------
(* The interface's thread. *)

\* A step of the interface leaves the runs alone: it has to keep the dialog's part.
LEMMA DialogMove ==
  ASSUME AgentInv, UNCHANGED <<agentVars, asked, pending>>, consent \subseteq consent',
         DialogTyped',
         dialog' # None => Made(dialog'),
         blocked' # None => Made(blocked'.id),
         \A i \in DOMAIN inbox' : Made(inbox'[i]),
         \A i \in DOMAIN replies' : Made(replies'[i].id),
         \A r \in Runs \ Waiting : answer'[r] = <<>>,
         \A r \in Runs : answer'[r] = <<TRUE>> => Request(r) \in consent',
         blocked' # None => (Verdict(blocked') /\ blocked'.id \in pending => blocked'.id \in consent'),
         \A i \in DOMAIN replies' :
           Verdict(replies'[i]) /\ replies'[i].id \in pending => replies'[i].id \in consent'
  PROVE  AgentInv'
<1>1. /\ RunsTyped' /\ EntriesTyped' /\ EntriesInOrder' /\ RunsInv'
      /\ Waiting' = Waiting /\ \A r \in Runs : At(r, "leaving")' <=> At(r, "leaving")
  BY TypeParts DEF AgentInv, agentVars, RunsTyped, EntriesTyped, EntriesInOrder, EntryIsLive,
                   LosesEntryToCancelled, RunsInv, Calls, Live, Waiting, At
<1>2. /\ \A r \in Runs : Request(r)' = Request(r)
      /\ {Request(r) : r \in Waiting}' = {Request(r) : r \in Waiting}
  BY <1>1 DEF Request, Waiting
<1>3. AskingInv'
  BY <1>1, <1>2 DEF AgentInv, AskingInv, Made, Verdict
<1>4. RunsWithConsent'
  BY <1>1, <1>2 DEF AgentInv, RunsWithConsent, agentVars
<1>5. QED
  BY <1>1, <1>3, <1>4, TypeParts DEF AgentInv

LEMMA AppendFacts ==
  ASSUME NEW S, NEW s \in Seq(S), NEW e \in S
  PROVE  /\ Append(s, e) \in Seq(S)
         /\ \A i \in DOMAIN Append(s, e) : Append(s, e)[i] = e \/ (i \in DOMAIN s /\ Append(s, e)[i] = s[i])
OBVIOUS

LEMMA TailFacts ==
  ASSUME NEW S, NEW s \in Seq(S), s # <<>>
  PROVE  /\ Head(s) \in S /\ 1 \in DOMAIN s /\ Head(s) = s[1] /\ Tail(s) \in Seq(S)
         /\ \A i \in DOMAIN Tail(s) : i + 1 \in DOMAIN s /\ Tail(s)[i] = s[i + 1]
OBVIOUS

\* What is left when one element is taken out.
Without(s, i) == SubSeq(s, 1, i - 1) \o SubSeq(s, i + 1, Len(s))

LEMMA TakenOut ==
  ASSUME NEW S, NEW s \in Seq(S), NEW i \in DOMAIN s
  PROVE  /\ Without(s, i) \in Seq(S)
         /\ \A j \in DOMAIN Without(s, i) : \E k \in DOMAIN s : Without(s, i)[j] = s[k]
<1> DEFINE a == SubSeq(s, 1, i - 1)
           b == SubSeq(s, i + 1, Len(s))
<1>1. /\ i \in 1 .. Len(s) /\ Len(s) \in Nat /\ DOMAIN s = 1 .. Len(s)
  OBVIOUS
<1>2. a \in Seq(S) /\ Len(a) = i - 1 /\ \A j \in 1 .. Len(a) : a[j] = s[j]
  BY <1>1
<1>3. b \in Seq(S) /\ Len(b) = Len(s) - i /\ \A j \in 1 .. Len(b) : b[j] = s[j + i]
  BY <1>1, SMTT(40)
<1> HIDE DEF a, b
<1>4. /\ a \o b \in Seq(S) /\ DOMAIN (a \o b) = 1 .. Len(a) + Len(b)
      /\ \A j \in 1 .. Len(a) + Len(b) : (a \o b)[j] = IF j <= Len(a) THEN a[j] ELSE b[j - Len(a)]
  BY <1>2, <1>3, SMTT(40)
<1>5. \A j \in DOMAIN (a \o b) : \E k \in DOMAIN s : (a \o b)[j] = s[k]
  <2>1. SUFFICES ASSUME NEW j \in 1 .. Len(s) - 1
                 PROVE  \E k \in DOMAIN s : (a \o b)[j] = s[k]
    <3>1. Len(a) + Len(b) = Len(s) - 1
      BY <1>1, <1>2, <1>3
    <3>2. DOMAIN (a \o b) = 1 .. Len(s) - 1
      BY <1>4, <3>1
    <3>3. QED
      BY <3>2
  <2>2. CASE j <= i - 1
    <3>1. (a \o b)[j] = s[j] /\ j \in DOMAIN s
      BY <1>1, <1>2, <1>3, <1>4, <2>2
    <3>2. QED
      BY <3>1
  <2>3. CASE j > i - 1
    <3>1. (a \o b)[j] = b[j - (i - 1)] /\ j - (i - 1) \in 1 .. Len(b)
      BY <1>1, <1>2, <1>3, <1>4, <2>3, SMTT(40)
    <3>2. b[j - (i - 1)] = s[j + 1] /\ j + 1 \in DOMAIN s
      BY <1>1, <1>3, <3>1, SMTT(40)
    <3>3. QED
      BY <3>1, <3>2
  <2>4. j <= i - 1 \/ j > i - 1
    BY <1>1
  <2>5. QED
    BY <2>2, <2>3, <2>4
<1>6. QED
  BY <1>4, <1>5 DEF Without, a, b

LEMMA ShowStep ==
  ASSUME AgentInv, ShowRequest, UNCHANGED agentVars
  PROVE  AgentInv'
<1>1. /\ inbox # <<>> /\ inbox' = Tail(inbox) /\ dialog' = Head(inbox)
      /\ UNCHANGED <<asked, pending, answer, grants, replies, blocked, consent>>
  BY DEF ShowRequest
<1>2. DialogTyped /\ inbox \in Seq(Requests) /\ \A i \in DOMAIN inbox : Made(inbox[i])
  BY WaitingFacts DEF DialogTyped, AgentInv, AskingInv
<1>3. /\ dialog' \in Requests /\ Made(dialog') /\ inbox' \in Seq(Requests)
      /\ \A i \in DOMAIN inbox' : Made(inbox'[i])
  <2>1. /\ Head(inbox) \in Requests /\ 1 \in DOMAIN inbox /\ Head(inbox) = inbox[1]
        /\ Tail(inbox) \in Seq(Requests)
        /\ \A i \in DOMAIN Tail(inbox) : i + 1 \in DOMAIN inbox /\ Tail(inbox)[i] = inbox[i + 1]
    BY <1>1, <1>2, TailFacts
  <2>2. QED
    BY <1>1, <1>2, <2>1
<1>4. DialogTyped'
  BY <1>1, <1>2, <1>3 DEF DialogTyped
<1>5. QED
  BY <1>1, <1>3, <1>4, DialogMove DEF AgentInv, AskingInv

LEMMA PressStep ==
  ASSUME AgentInv, Press, UNCHANGED agentVars
  PROVE  AgentInv'
<1>1. PICK act \in Actions :
        /\ dialog # None /\ replies' = Append(replies, [id |-> dialog, action |-> act])
        /\ consent' = IF act = "deny" THEN consent ELSE consent \cup ({dialog} \cap pending)
        /\ UNCHANGED <<asked, pending, answer, grants, inbox, dialog, blocked>>
  BY DEF Press
<1> DEFINE reply == [id |-> dialog, action |-> act]
<1>2. /\ DialogTyped /\ replies \in Seq([id : Requests, action : Actions]) /\ dialog \in Requests
      /\ consent \subseteq Requests /\ Made(dialog)
  BY <1>1, WaitingFacts DEF DialogTyped, AgentInv, AskingInv
<1>3. reply \in [id : Requests, action : Actions] /\ reply.id = dialog /\ reply.action = act
  BY <1>2
<1> HIDE DEF reply
<1>4. /\ replies' \in Seq([id : Requests, action : Actions])
      /\ \A i \in DOMAIN replies' : replies'[i] = reply \/ (i \in DOMAIN replies /\ replies'[i] = replies[i])
  BY <1>1, <1>2, <1>3, AppendFacts DEF reply
<1>5. consent \subseteq consent' /\ consent' \subseteq Requests
  BY <1>1, <1>2
<1>6. DialogTyped'
  BY <1>1, <1>2, <1>4, <1>5 DEF DialogTyped
<1>7. Verdict(reply) /\ reply.id \in pending => reply.id \in consent'
  BY <1>1, <1>3 DEF Verdict
<1>8. \A i \in DOMAIN replies' : Made(replies'[i].id)
  BY <1>2, <1>3, <1>4 DEF AgentInv, AskingInv
<1>9. \A i \in DOMAIN replies' :
         Verdict(replies'[i]) /\ replies'[i].id \in pending => replies'[i].id \in consent'
  BY <1>4, <1>5, <1>7 DEF AgentInv, AskingInv
<1>10. \A r \in Runs : answer'[r] = <<TRUE>> => Request(r) \in consent'
  BY <1>1, <1>5 DEF AgentInv, AskingInv
<1>11. blocked' # None => (Verdict(blocked') /\ blocked'.id \in pending => blocked'.id \in consent')
  BY <1>1, <1>5 DEF AgentInv, AskingInv
<1>12. QED
  BY <1>1, <1>5, <1>6, <1>8, <1>9, <1>10, <1>11, DialogMove DEF AgentInv, AskingInv

LEMMA RespondStep ==
  ASSUME AgentInv, Respond, UNCHANGED agentVars
  PROVE  AgentInv'
<1>1. PICK i \in DOMAIN replies :
        LET reply == replies[i] IN
        /\ replies' = SubSeq(replies, 1, i - 1) \o SubSeq(replies, i + 1, Len(replies))
        /\ IF ~IsPending(reply) THEN Replied(reply) /\ UNCHANGED <<answer, blocked>>
           ELSE IF answer[reply.id[1]] = <<>>
             THEN /\ answer' = [answer EXCEPT ![reply.id[1]] = <<Verdict(reply)>>]
                  /\ Replied(reply) /\ UNCHANGED blocked
           ELSE /\ blocked' = [id |-> reply.id, action |-> reply.action, sent |-> FALSE]
                /\ UNCHANGED <<answer, grants, dialog>>
  BY DEF Respond
<1> DEFINE reply == replies[i]
<1>2. UNCHANGED <<asked, pending, inbox, consent>>
  BY DEF Respond
<1>3. DialogTyped /\ replies \in Seq([id : Requests, action : Actions])
  BY WaitingFacts DEF DialogTyped
<1>4. /\ replies' \in Seq([id : Requests, action : Actions])
      /\ \A j \in DOMAIN replies' : \E k \in DOMAIN replies : replies'[j] = replies[k]
  <2>1. replies' = Without(replies, i)
    BY <1>1 DEF Without
  <2>2. QED
    BY <1>3, <2>1, TakenOut
<1>5. /\ reply \in [id : Requests, action : Actions] /\ Made(reply.id)
      /\ Verdict(reply) /\ reply.id \in pending => reply.id \in consent
  <2>1. reply \in [id : Requests, action : Actions]
    BY <1>3, ElementType
  <2>2. QED
    BY <2>1 DEF AgentInv, AskingInv
<1>6. reply.id \in Requests /\ reply.action \in Actions /\ reply.id[1] \in Runs
      /\ SessionOf[reply.id[1]] \in Sessions
  BY <1>5 DEF Requests
<1>7. /\ \A j \in DOMAIN replies' : Made(replies'[j].id)
      /\ \A j \in DOMAIN replies' :
           Verdict(replies'[j]) /\ replies'[j].id \in pending => replies'[j].id \in consent'
  BY <1>2, <1>4 DEF AgentInv, AskingInv
<1>8. /\ grants' \subseteq Sessions /\ dialog' \in Requests \cup {None}
      /\ dialog' # None => Made(dialog')
  <2>1. CASE Replied(reply)
    <3>1. grants' \subseteq Sessions /\ dialog' = None
      BY <1>3, <1>6, <2>1 DEF Replied, DialogTyped
    <3>2. QED
      BY <3>1
  <2>2. CASE UNCHANGED <<grants, dialog>>
    BY <1>2, <1>3, <2>2 DEF DialogTyped, AgentInv, AskingInv, Made
  <2>3. QED
    BY <1>1, <2>1, <2>2
<1> HIDE DEF reply
<1>9. CASE ~IsPending(reply) /\ Replied(reply) /\ UNCHANGED <<answer, blocked>>
  <2>1. DialogTyped'
    BY <1>2, <1>3, <1>4, <1>8, <1>9 DEF DialogTyped
  <2>2. QED
    BY <1>2, <1>7, <1>8, <1>9, <2>1, DialogMove DEF AgentInv, AskingInv
<1>10. CASE /\ IsPending(reply) /\ answer' = [answer EXCEPT ![reply.id[1]] = <<Verdict(reply)>>]
            /\ Replied(reply) /\ UNCHANGED blocked
  <2> DEFINE a == reply.id[1]
  <2>1. reply.id \in pending /\ a \in Waiting /\ reply.id = Request(a) /\ a \in Runs
    BY <1>10, WaitingFacts DEF IsPending, Waiting
  <2>2. /\ answer \in [Runs -> {<<>>, <<TRUE>>, <<FALSE>>}]
        /\ <<Verdict(reply)>> \in {<<TRUE>>, <<FALSE>>}
    <3>1. Verdict(reply) \in BOOLEAN
      BY DEF Verdict
    <3>2. CASE Verdict(reply) = TRUE
      BY <1>3, <3>2 DEF DialogTyped
    <3>3. CASE Verdict(reply) = FALSE
      BY <1>3, <3>3 DEF DialogTyped
    <3>4. QED
      BY <3>1, <3>2, <3>3
  <2>3. /\ answer' \in [Runs -> {<<>>, <<TRUE>>, <<FALSE>>}] /\ answer'[a] = <<Verdict(reply)>>
        /\ \A q \in Runs \ {a} : answer'[q] = answer[q]
    BY <1>10, <2>1, <2>2
  <2>4. DialogTyped'
    BY <1>2, <1>3, <1>4, <1>8, <1>10, <2>3 DEF DialogTyped
  <2>5. answer'[a] = <<TRUE>> => Request(a) \in consent'
    <3>1. answer'[a] = <<TRUE>> => Verdict(reply)
      <4>1. answer'[a][1] = Verdict(reply) /\ <<TRUE>>[1] = TRUE
        BY <2>3
      <4>2. QED
        BY <4>1
    <3>2. QED
      BY <1>2, <1>5, <2>1, <3>1
  <2>6. \A q \in Runs : answer'[q] = <<TRUE>> => Request(q) \in consent'
    BY <1>2, <2>3, <2>5 DEF AgentInv, AskingInv
  <2>7. \A q \in Runs \ Waiting : answer'[q] = <<>>
    BY <2>1, <2>3 DEF AgentInv, AskingInv
  <2>8. QED
    BY <1>2, <1>7, <1>8, <1>10, <2>4, <2>6, <2>7, DialogMove DEF AgentInv, AskingInv
<1>11. CASE /\ blocked' = [id |-> reply.id, action |-> reply.action, sent |-> FALSE]
            /\ UNCHANGED <<answer, grants, dialog>>
  <2>1. /\ blocked' \in [id : Requests, action : Actions, sent : BOOLEAN]
        /\ blocked'.id = reply.id /\ blocked'.action = reply.action
    BY <1>6, <1>11
  <2>2. Verdict(blocked') /\ blocked'.id \in pending => blocked'.id \in consent'
    BY <1>2, <1>5, <2>1 DEF Verdict
  <2>3. DialogTyped'
    BY <1>2, <1>3, <1>4, <1>8, <1>11, <2>1 DEF DialogTyped
  <2>4. Made(blocked'.id)
    BY <1>5, <2>1
  <2>5. QED
    BY <1>2, <1>7, <1>8, <1>11, <2>2, <2>3, <2>4, DialogMove DEF AgentInv, AskingInv
<1>12. QED
  BY <1>1, <1>9, <1>10, <1>11 DEF reply

LEMMA UnblockStep ==
  ASSUME AgentInv, Unblock, UNCHANGED agentVars
  PROVE  AgentInv'
<1>1. /\ blocked # None /\ Replied(blocked) /\ blocked' = None
      /\ UNCHANGED <<asked, pending, answer, inbox, replies, consent>>
  BY DEF Unblock, Free
<1>2. DialogTyped /\ blocked \in [id : Requests, action : Actions, sent : BOOLEAN]
  BY <1>1, WaitingFacts DEF DialogTyped
<1>3. SessionOf[blocked.id[1]] \in Sessions
  BY <1>2 DEF Requests
<1>4. grants' \subseteq Sessions /\ dialog' = None
  BY <1>1, <1>2, <1>3 DEF Replied, DialogTyped
<1>5. DialogTyped'
  BY <1>1, <1>2, <1>4 DEF DialogTyped
<1>6. QED
  BY <1>1, <1>4, <1>5, DialogMove DEF AgentInv, AskingInv
-----------------------------------------------------------------------------
(* The theorems. *)

LEMMA AgentInit == Init => AgentInv
<1> SUFFICES ASSUME Init
             PROVE  AgentInv
  OBVIOUS
<1> DEFINE o == [stage |-> "new", cancelled |-> FALSE, turn |-> 0, reason |-> "unset", results |-> <<>>,
                 call |-> 1, allowed |-> FALSE, ran |-> {}, quiet |-> FALSE]
<1>1. run = [r \in Runs |-> o] /\ saved = [r \in Runs |-> "unset"] /\ active = [s \in Sessions |-> None]
  BY DEF Init
<1>2. o \in RunRecords
  BY EmptyResults DEF RunRecords, Stages, Reasons
<1>3. /\ o.stage = "new" /\ o.results = <<>> /\ o.cancelled = FALSE /\ o.turn = 0 /\ o.reason = "unset"
      /\ o.call = 1 /\ o.ran = {} /\ Len(<<>>) = 0 /\ DOMAIN <<>> = {}
  OBVIOUS
<1> HIDE DEF o
<1>4. \A r \in Runs : run[r] = o /\ saved[r] = "unset" /\ MaxTurns[r] \in Nat /\ MaxCalls[r] \in Nat
  BY <1>1
<1>5. RunsTyped
  BY <1>1, <1>2, <1>3, <1>4 DEF RunsTyped, Calls, Reasons
<1>6. RunInOrder(o, "unset")
  BY <1>3 DEF RunInOrder, Calling, Says, ReasonOf
<1>7. RunsInv
  BY <1>4, <1>6 DEF RunsInv
<1>8. EntriesTyped /\ EntriesInOrder
  BY <1>1, <1>3, <1>4 DEF EntriesTyped, EntriesInOrder, EntryIsLive, LosesEntryToCancelled, Live
<1>9. DialogTyped
  BY DEF Init, PermissionInit, DialogTyped
<1>10. Waiting = {} /\ \A r \in Runs : ~At(r, "leaving")
  BY <1>3, <1>4 DEF Waiting, At
<1>11. AskingInv
  <2>1. \A r \in Runs : answer[r] = <<>> /\ answer[r] # <<TRUE>>
    BY DEF Init, PermissionInit
  <2>2. QED
    BY <1>3, <1>10, <2>1 DEF Init, PermissionInit, AskingInv
<1>12. QED
  BY <1>5, <1>7, <1>8, <1>9, <1>10, <1>11, TypeParts DEF AgentInv, RunsWithConsent

LEMMA RunStepKeeps ==
  ASSUME AgentInv, NEW r \in Runs, RunStep(r)
  PROVE  AgentInv'
<1>1. CASE Loop(r)
  BY <1>1, LoopStep
<1>2. CASE Streaming(r)
  BY <1>2, CompleteStep, StreamClosesStep, UsageStep, StreamEndsStep DEF Streaming
<1>3. CASE Tooling(r)
  BY <1>3, ToolsEndStep, DispatchStep, AnsweredStep, ReturnStep, RunToolStep, RecordStep DEF Tooling
<1>4. QED
  BY <1>1, <1>2, <1>3, PanicStep DEF RunStep

\* The steps of a run move no other run.
LEMMA OneRunMoves ==
  ASSUME AgentInv, NEW q \in Runs, RunStep(q), NEW r \in Runs \ {q}
  PROVE  run'[r] = run[r]
<1>1. run \in [Runs -> RunRecords]
  BY RunFacts
<1>2. CASE Loop(q)
  BY <1>1, <1>2 DEF Loop, End, Gone
<1>3. CASE Streaming(q)
  BY <1>1, <1>3 DEF Streaming, Complete, StreamCloses, TrackUsage, CancelNoticed, StreamFails,
                    FinishFailed, End, Gone
<1>4. CASE ToolsEnd(q) \/ Dispatch(q)
  BY <1>1, <1>4 DEF ToolsEnd, Dispatch, NextCall
<1>5. CASE Answered(q) \/ Return(q)
  BY <1>1, <1>5 DEF Answered, Return, AfterDenial, NextCall
<1>6. CASE RunTool(q) \/ Record(q) \/ Panic(q)
  BY <1>1, <1>6 DEF RunTool, Record, Panic, End, Gone
<1>7. QED
  BY <1>2, <1>3, <1>4, <1>5, <1>6 DEF RunStep, Tooling

LEMMA AgentNext == AgentInv /\ [Next]_vars => AgentInv'
<1> SUFFICES ASSUME AgentInv, [Next]_vars
             PROVE  AgentInv'
  OBVIOUS
<1>1. CASE \E r \in Runs : Start(r) \/ RunStep(r)
  BY <1>1, StartStep, RunStepKeeps
<1>2. CASE \E s \in Sessions : Cancel(s)
  BY <1>2, CancelStep
<1>3. CASE DialogStep
  BY <1>3, ShowStep, PressStep, RespondStep, UnblockStep DEF DialogStep, PermissionNext
<1>4. CASE UNCHANGED vars
  <2>1. DialogTyped'
    BY <1>4, WaitingFacts DEF vars, permissionVars, DialogTyped
  <2>2. QED
    BY <1>4, <2>1, DialogMove DEF vars, permissionVars, AgentInv, AskingInv
<1>5. QED
  BY <1>1, <1>2, <1>3, <1>4 DEF Next

\* The inductive invariant holds in every state of the agent.
THEOREM AgentInvariant == Spec => []AgentInv
<1>1. QED
  BY AgentInit, AgentNext, PTL DEF Spec

\* The books agree: whatever runs, cancels, answers and panics there are, an entry of
\* activeRequests belongs to a run that was not cancelled and that goes on or panicked;
\* a run loses its own only to Cancel or to a cancelled run of its session; and the
\* finish of a message in the database is the one in memory, or none, but for the cases
\* OverIsFinished lists (agent.go:117-124, 203-224, 284-411).
THEOREM BooksAgree == Spec => []SessionsInOrder
<1>1. AgentInv => SessionsInOrder
  <2>1. SUFFICES ASSUME AgentInv, NEW r \in Runs, At(r, "over")
                 PROVE  Finished(run[r], run[r].reason, saved[r])
    BY DEF SessionsInOrder, OverIsFinished, Finished, AgentInv, EntriesInOrder
  <2>0. RunInOrder(run[r], saved[r]) /\ DOMAIN <<>> = {}
    BY <2>1, RunFacts
  <2>2. run[r].results = <<>>
    BY <2>0, <2>1 DEF RunInOrder, At
  <2>3. ReasonOf(run[r]) = run[r].reason
    BY <2>0, <2>2 DEF ReasonOf, Says
  <2>4. QED
    BY <2>0, <2>1, <2>3 DEF RunInOrder, Finished, At
<1>2. QED
  BY <1>1, AgentInvariant, PTL

\* The model is told the truth about every call, for any number of calls, denials and
\* cancellations (agent.go:350-427).
THEOREM ModelIsTold == Spec => []ResultsTellTruth
<1>1. AgentInv => ResultsTellTruth
  BY DEF AgentInv, RunsInv, RunInOrder, ResultsTellTruth
<1>2. QED
  BY <1>1, AgentInvariant, PTL

\* No tool that asked runs without the user's answer to its own request, however many
\* replies are late, double or stale (permission.go:52-108).
THEOREM NothingWithoutConsent == Spec => []RunsWithConsent
<1>1. AgentInv => RunsWithConsent
  BY DEF AgentInv
<1>2. QED
  BY <1>1, AgentInvariant, PTL

\* A run with a call that was denied or canceled does not go back to the provider
\* (agent.go:300-305, 396-411).
THEOREM DenialsEnd == Spec => DeniedEndsRun
<1>1. AgentInv /\ [Next]_vars =>
        [\A r \in Runs : At(r, "record") /\ At(r, "loop")' =>
           \A i \in DOMAIN run[r].results : run[r].results[i] \notin {"denied", "canceled"}]_vars
  <2>1. SUFFICES ASSUME AgentInv, Next, NEW r \in Runs, At(r, "record"), At(r, "loop")'
                 PROVE  ~Says(run[r], "denied") /\ ~Says(run[r], "canceled")
    BY DEF Says
  <2>2. run[r].stage = "record" /\ run'[r].stage = "loop" /\ run \in [Runs -> RunRecords]
    BY <2>1, RunFacts DEF At
  <2>3. CASE \E q \in Runs : Start(q)
    BY <2>2, <2>3 DEF Start, At
  <2>4. CASE \E q \in Runs : RunStep(q)
    <3>1. RunStep(r)
      BY <2>1, <2>2, <2>4, OneRunMoves
    <3>2. Record(r)
      BY <2>2, <3>1 DEF RunStep, Loop, Streaming, Tooling, Complete, StreamCloses, TrackUsage,
            CancelNoticed, StreamFails, FinishFailed, ToolsEnd, Dispatch, Answered, Return, RunTool, Panic, At
    <3>3. End(r, Reason(r)) => run'[r].stage = "over"
      <4>1. End(r, Reason(r)) => run'[r] = [run[r] EXCEPT !.stage = "over", !.reason = Reason(r),
                          !.results = <<>>, !.call = 1, !.allowed = FALSE, !.ran = {}]
        BY <2>2 DEF End, Gone
      <4>2. run[r] \in RunRecords
        BY <2>1, RunFacts
      <4>3. QED
        BY <4>1, <4>2 DEF RunRecords
    <3>4. Reason(r) = "tool_use"
      BY <2>2, <3>2, <3>3 DEF Record
    <3>5. QED
      BY <2>1, <3>4, RunFacts DEF Reason, Says, RunInOrder
  <2>5. CASE \E s \in Sessions : Cancel(s)
    <3>1. run'[r].stage = run[r].stage
      <4>1. run'[r] = run[r] \/ run'[r] = [run[r] EXCEPT !.cancelled = TRUE]
        BY <2>5 DEF Cancel
      <4>2. run[r] \in RunRecords
        BY <2>1, RunFacts
      <4>3. QED
        BY <4>1, <4>2 DEF RunRecords
    <3>2. QED
      BY <2>2, <3>1
  <2>6. CASE DialogStep
    BY <2>2, <2>6 DEF DialogStep, agentVars
  <2>7. QED
    BY <2>1, <2>3, <2>4, <2>5, <2>6 DEF Next
<1>2. QED
  BY <1>1, AgentInvariant, PTL DEF Spec, DeniedEndsRun
=============================================================================
