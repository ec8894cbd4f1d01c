--------------------------- MODULE AgentProperties ---------------------------
(***************************************************************************)
(* What the agent and the permission service promise each other and a user.*)
(***************************************************************************)
EXTENDS AgentSessions

Requests == Askers \X Nat
Reasons == {"unset", "end_turn", "tool_use", "canceled", "permission_denied"}

\* Types of all variables.
TypeOK ==
  /\ asked \in [Askers -> Nat] /\ pending \subseteq Requests /\ consent \subseteq Requests
  /\ answer \in [Askers -> {<<>>, <<TRUE>>, <<FALSE>>}]
  /\ grants \subseteq Sessions /\ inbox \in Seq(Requests)
  /\ dialog \in Requests \cup {None}
  /\ replies \in Seq([id : Requests, action : Actions])
  /\ blocked \in [id : Requests, action : Actions, sent : BOOLEAN] \cup {None}
  /\ run \in [Runs -> [stage : Stages, cancelled : BOOLEAN, turn : Nat, reason : Reasons,
                       results : Seq(Results), call : Nat, allowed : BOOLEAN, ran : SUBSET Nat,
                       quiet : BOOLEAN]]
  /\ \A r \in Runs : /\ run[r].turn <= MaxTurns[r] /\ Calls(r) <= MaxCalls[r]
                     /\ run[r].call \in 1 .. Calls(r) + 1 /\ run[r].ran \subseteq 1 .. Calls(r)
  /\ active \in [Sessions -> Runs \cup {None}]
  /\ saved \in [Runs -> Reasons]

\* An entry of activeRequests belongs to a run that is still going and was not
\* cancelled, although Cancel deletes it before the run has ended and the run then
\* deletes the entry of whichever run replaced it (agent.go:117-124, 203-224).  Only a
\* run that panicked leaves its entry: its session is busy for nobody until a Cancel.
EntryIsLive ==
  \A s \in Sessions : active[s] # None =>
    LET r == active[s]
    IN  (Live(r) \/ At(r, "dead")) /\ SessionOf[r] = s /\ ~run[r].cancelled

\* A run loses its entry only to Cancel, unless a cancelled run of its session has ended
\* and deleted what was not its own (agent.go:117-124, 224): until then a session has at
\* most one run that was not cancelled.
LosesEntryToCancelled ==
  \A r \in Runs : Live(r) /\ ~run[r].cancelled =>
    \/ active[SessionOf[r]] = r
    \/ \E q \in Runs : SessionOf[q] = SessionOf[r] /\ run[q].cancelled /\ At(q, "over")

\* The model is told the truth about what ran: a call reported denied, canceled or not
\* found did not run, and one that ran is reported by its own result, whatever order
\* denials, cancellations and later calls come in (agent.go:350-427).
ResultsTellTruth ==
  \A r \in Runs : \A i \in DOMAIN run[r].results :
    run[r].results[i] # "unset" =>
      (i \in run[r].ran <=> run[r].results[i] = "own")

\* A run goes back to the provider only when every call of the answer was let through:
\* after a denial or a cancellation among several calls it ends, whatever the later
\* calls of the same answer did (agent.go:300-305, 396-411).
DeniedEndsRun ==
  [][\A r \in Runs : At(r, "record") /\ At(r, "loop")' =>
       \A i \in DOMAIN run[r].results : run[r].results[i] \notin {"denied", "canceled"}]_vars

\* A tool that had to ask runs only after an answer to this very request of its run, or a
\* grant for its session: late keys and stale replies approve nothing else
\* (permission.go:52-108).
RunsWithConsent ==
  \A r \in Runs : At(r, "leaving") /\ run[r].allowed => Request(r) \in consent

\* How a run leaves its last message in the database, where the screen reads it: with the
\* finish it has in memory, unless the run was cancelled while an error of its stream was
\* handled (agent.go:341-342) or before its last call was denied (agent.go:409), and
\* without any finish, so that the screen waits for ever, only when there is no message
\* of this run, its stream was closed without an end (agent.go:339-350), or that error
\* met the cancellation.
OverIsFinished ==
  \A r \in Runs : At(r, "over") =>
    /\ saved[r] # run[r].reason =>
         run[r].cancelled /\ run[r].reason \in {"canceled", "permission_denied"}
    /\ saved[r] = "unset" =>
         run[r].turn = 0 \/ run[r].quiet \/ (run[r].cancelled /\ run[r].reason = "canceled")

\* The books of the agent agree: the table of active requests with the runs that are
\* going on, and the finish of a message in the database with the one in memory
\* (agent.go:117-124, 203-224, 284-348).
SessionsInOrder == TypeOK /\ EntryIsLive /\ LosesEntryToCancelled /\ OverIsFinished

\* A run that has begun comes to its end or panics, unless it waits for the answer to a
\* question the user does not see any more, or the interface is stuck
\* (permission.go:106-107, tui.go:345-359).
OnlyLostQuestionsHang ==
  \A r \in Runs : Live(r) ~> (At(r, "over") \/ At(r, "dead") \/ (At(r, "ask") /\ (Lost(r) \/ Stuck)))
-----------------------------------------------------------------------------
(* The inductive invariant. *)

EntriesInOrder == EntryIsLive /\ LosesEntryToCancelled

RunRecords ==
  [stage : Stages, cancelled : BOOLEAN, turn : Nat, reason : Reasons,
   results : Seq(Results), call : Nat, allowed : BOOLEAN, ran : SUBSET Nat, quiet : BOOLEAN]

Says(o, result) == \E i \in DOMAIN o.results : o.results[i] = result

\* Reason, of a run in the state o.
ReasonOf(o) ==
  IF o.reason # "canceled" /\ Says(o, "denied") THEN "permission_denied" ELSE o.reason

Calling == {"ask", "leaving", "tool"}

\* What a run's locals and the reason in the database have to do with each other.
RunInOrder(o, inDatabase) ==
  /\ o.stage = "new" => ~o.cancelled
  /\ o.stage \in {"over", "dead"} => o.results = <<>>
  /\ o.stage = "stream" => /\ o.reason = "unset" /\ inDatabase = "unset"
                           /\ o.results = <<>> /\ o.call = 1 /\ o.ran = {}
  /\ o.stage = "usage" => o.call = 1 /\ o.ran = {} /\ o.reason # "canceled"
  /\ o.stage \in Calling => o.call <= Len(o.results)
  /\ o.stage \in Calling \cup {"tools"} => o.reason # "canceled"
  /\ inDatabase # ReasonOf(o) =>
       o.cancelled /\ ReasonOf(o) \in {"canceled", "permission_denied"}
  /\ inDatabase = "unset" => \/ o.turn = 0 \/ o.quiet
                             \/ o.stage \in {"stream", "failing", "dead"}
                             \/ o.cancelled /\ ReasonOf(o) = "canceled"
  /\ \A i \in o.call .. Len(o.results) : o.results[i] \in {"unset", "canceled"}
  /\ \A i \in o.ran : i < o.call
  /\ \A i \in DOMAIN o.results :
       o.results[i] # "unset" => (i \in o.ran <=> o.results[i] = "own")
  /\ Says(o, "canceled") => o.reason = "canceled" \/ Says(o, "denied")

RunsInv == \A r \in Runs : RunInOrder(run[r], saved[r])

Made(id) == id[2] <= asked[id[1]]
Waiting == {r \in Runs : At(r, "ask") \/ At(r, "leaving")}

\* The requests that have a channel are those of runs that wait for an answer or leave,
\* whatever is on its way is about requests that were made, and where an answer allows
\* a pending request, or is on its way to, the user did.
AskingInv ==
  /\ pending = {Request(r) : r \in Waiting}
  /\ \A r \in Runs \ Waiting : answer[r] = <<>>
  /\ dialog # None => Made(dialog)
  /\ blocked # None => Made(blocked.id)
  /\ \A i \in DOMAIN inbox : Made(inbox[i])
  /\ \A i \in DOMAIN replies : Made(replies[i].id)
  /\ \A r \in Runs : answer[r] = <<TRUE>> => Request(r) \in consent
  /\ blocked # None => (Verdict(blocked) /\ blocked.id \in pending => blocked.id \in consent)
  /\ \A i \in DOMAIN replies :
       Verdict(replies[i]) /\ replies[i].id \in pending => replies[i].id \in consent

AgentInv == TypeOK /\ EntriesInOrder /\ RunsInv /\ AskingInv /\ RunsWithConsent
=============================================================================
