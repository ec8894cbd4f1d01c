---------------------------- MODULE AgentSessions ----------------------------
(***************************************************************************)
(* The agent of the CLI (llm/agent/agent.go): runs of a session, their     *)
(* tool loop and their cancellation.  Tools ask for permission through      *)
(* Permission.                                                              *)
(*                                                                         *)
(* Run, Cancel and the check of Summarize are called by the thread of the  *)
(* interface; everything else happens on goroutines of its own.  One step  *)
(* is one call of the database, the provider, a tool or activeRequests.    *)
(***************************************************************************)
EXTENDS Permission

CONSTANTS AutoApproved,  \* sessions of non-interactive runs
          MaxCalls,      \* bound: tool calls in one answer of the provider, by run
          MaxTurns,      \* bound: answers of the provider in one run
          MaxLive        \* bound: goroutines at work when another one is started

Runs == Askers           \* a run is one goroutine, whose tools run one by one

ASSUME AgentAssumption ==
  /\ SessionOf \in [Runs -> Sessions] /\ AutoApproved \subseteq Sessions
  /\ MaxCalls \in [Runs -> Nat] /\ MaxTurns \in [Runs -> Nat]
  /\ MaxPresses \in Nat /\ MaxLive \in Nat
  /\ None \notin Runs /\ None \notin [id : Askers \X Nat, action : Actions, sent : BOOLEAN]

VARIABLES
  run,        \* of a run: its place and the locals of its loop; ran and quiet are
              \* ghosts: the calls of its current answer that ran, and that the stream
              \* of this answer was closed without an end
  active,     \* activeRequests, by session: the run whose cancel function it holds
  saved       \* the finish reason in the database of a run's last message

agentVars == <<run, active, saved>>
vars == <<permissionVars, agentVars>>

Stages == {"new", "loop", "stream", "usage", "failing", "tools", "ask",
           "leaving", "tool", "record", "over", "dead"}

\* One result per tool call of the current message; "unset" is one nobody has set yet.
Blanks(n) == [i \in 1 .. n |-> "unset"]
Results == {"unset", "own", "denied", "canceled", "not_found"}

Init ==
  /\ PermissionInit
  /\ run = [r \in Runs |-> [stage |-> "new", cancelled |-> FALSE, turn |-> 0, reason |-> "unset",
                            results |-> <<>>, call |-> 1, allowed |-> FALSE,
                            ran |-> {}, quiet |-> FALSE]]
  /\ active = [s \in Sessions |-> None]
  /\ saved = [r \in Runs |-> "unset"]

At(r, stage) == run[r].stage = stage
Calls(r) == Len(run[r].results)
Live(r) == run[r].stage \notin {"new", "over", "dead"}
Room == Cardinality({r \in Runs : Live(r)}) < MaxLive
-----------------------------------------------------------------------------
(* The user: keys reach the chat page when no dialog is shown. *)

Keys == Free /\ dialog = None

\* Run, from sendMessage: the check and the entry are one step, as the interface has
\* one thread.
Start(r) ==
  LET s == SessionOf[r] IN
  /\ Keys \/ s \in AutoApproved
  /\ At(r, "new") /\ active[s] = None /\ Room
  /\ active' = [active EXCEPT ![s] = r]
  /\ run' = [run EXCEPT ![r].stage = "loop"]
  /\ UNCHANGED <<permissionVars, saved>>

\* Cancel: the entries are deleted before the runs have ended.
Cancel(s) ==
  /\ Keys
  /\ active[s] # None
  /\ active' = [active EXCEPT ![s] = None]
  /\ run' = [r \in Runs |-> IF r = active[s] THEN [run[r] EXCEPT !.cancelled = TRUE] ELSE run[r]]
  /\ UNCHANGED <<permissionVars, saved>>
-----------------------------------------------------------------------------
(* A run. *)

\* Variant: the entry stays.
EndedQuietly(r) == UNCHANGED active
\* Run's goroutine after processGeneration: the session's entry is deleted, whosever
\* it is.
Ended(r) == active' = [active EXCEPT ![SessionOf[r]] = None]

\* Variant: the reason the stream ended with.
ReasonOfStream(r) == run[r].reason
\* The reason of the message in memory: finishMessage replaced it when a call was denied
\* or the run was cancelled.
Reason(r) ==
  IF run[r].reason # "canceled" /\ \E i \in DOMAIN run[r].results : run[r].results[i] = "denied"
    THEN "permission_denied" ELSE run[r].reason

\* What is gone keeps only the reason of its last message in memory.
Gone(r, stage, reason) ==
  run' = [run EXCEPT ![r].stage = stage, ![r].reason = reason, ![r].results = <<>>,
                     ![r].call = 1, ![r].allowed = FALSE, ![r].ran = {}]

End(r, reason) == Gone(r, "over", reason) /\ Ended(r)

\* A tool panics, or an error event carries no error: the goroutine recovers at its
\* very end, and the session keeps the entry of a run that is gone.
Panic(r) ==
  /\ run[r].stage \in {"stream", "tool"}
  /\ Gone(r, "dead", Reason(r))
  /\ UNCHANGED <<permissionVars, active, saved>>

\* The head of the loop, at first after the user's message was stored: the check for
\* cancellation, and the new message.  A call of the database may fail, and fails when
\* cancelled.
Loop(r) ==
  /\ At(r, "loop")
  /\ \/ /\ ~run[r].cancelled /\ run[r].turn < MaxTurns[r]
        /\ run' = [run EXCEPT ![r].stage = "stream", ![r].turn = @ + 1, ![r].reason = "unset",
                              ![r].results = <<>>, ![r].ran = {}, ![r].call = 1,
                              ![r].quiet = FALSE]
        /\ saved' = [saved EXCEPT ![r] = "unset"]
        /\ UNCHANGED active
     \/ End(r, Reason(r)) /\ UNCHANGED saved
  /\ UNCHANGED permissionVars

\* finishMessage: the reason in memory, and in the database unless ctx is done.
Finish(r, reason, ctxDone) ==
  saved' = [saved EXCEPT ![r] = IF ctxDone THEN @ ELSE reason]

\* processEvent of EventComplete, up to TrackUsage: any number of calls, which make the
\* reason tool_use.
Complete(r) ==
  /\ At(r, "stream") /\ ~run[r].cancelled
  /\ \E n \in 0 .. MaxCalls[r] :
       LET reason == IF n = 0 THEN "end_turn" ELSE "tool_use" IN
       /\ run' = [run EXCEPT ![r].stage = "usage", ![r].results = Blanks(n), ![r].reason = reason]
       /\ Finish(r, reason, FALSE)
  /\ UNCHANGED <<permissionVars, active>>

\* The stream may be closed without an EventComplete, after any number of calls; of a
\* cancelled run some clients close it so, and nobody looks at the context then.
StreamCloses(r) ==
  /\ At(r, "stream")
  /\ \E n \in 0 .. MaxCalls[r] :
       run' = [run EXCEPT ![r].stage = IF n = 0 THEN "record" ELSE "tools", ![r].call = 1,
                          ![r].results = Blanks(n), ![r].quiet = TRUE]
  /\ UNCHANGED <<permissionVars, active, saved>>

\* Variant: the context is not looked at once the answer is complete.
CancelMissed(r) ==
  /\ At(r, "stream") /\ run[r].cancelled
  /\ End(r, "canceled")
  /\ Finish(r, "canceled", FALSE)
  /\ UNCHANGED permissionVars
\* A cancelled run notices at the next event, or when a call fails: the message is
\* finished with a context that is not done.
CancelNoticed(r) ==
  /\ run[r].stage \in {"stream", "usage"} /\ run[r].cancelled
  /\ End(r, "canceled")
  /\ Finish(r, "canceled", FALSE)
  /\ UNCHANGED permissionVars

\* An error of the provider, or of the database after EventComplete.
StreamFails(r) ==
  /\ run[r].stage \in {"stream", "usage"} /\ ~run[r].cancelled
  /\ run' = [run EXCEPT ![r].stage = "failing"]
  /\ UNCHANGED <<permissionVars, active, saved>>

\* The message is finished with ctx, which may be done by now.
FinishFailed(r) ==
  /\ At(r, "failing")
  /\ End(r, "canceled")
  /\ Finish(r, "canceled", run[r].cancelled)
  /\ UNCHANGED permissionVars

\* TrackUsage succeeds (see SessionRow), the stream is closed.
TrackUsage(r) ==
  /\ At(r, "usage") /\ ~run[r].cancelled
  /\ run' = [run EXCEPT ![r].stage = IF Calls(r) = 0 THEN "record" ELSE "tools", ![r].call = 1]
  /\ UNCHANGED <<permissionVars, active, saved>>
-----------------------------------------------------------------------------
(* The tool loop of streamAndHandleEvents. *)

\* The results from one call on.
ResultsFrom(r, first, value) ==
  [i \in DOMAIN run[r].results |-> IF i >= first THEN value ELSE run[r].results[i]]
\* Variant: a result that is set stays.
FirstResult(r, value) ==
  [run[r].results EXCEPT ![run[r].call] = IF @ = "unset" THEN value ELSE @]
WithResult(r, value) == [run[r].results EXCEPT ![run[r].call] = value]

NextCall(r, results) ==
  run' = [run EXCEPT ![r].stage = "tools", ![r].results = results, ![r].call = @ + 1,
                     ![r].allowed = FALSE]

\* The check before each call: a cancelled run marks this call and those after it.
ToolsEnd(r) ==
  /\ At(r, "tools")
  /\ \/ /\ run[r].call > Calls(r)
        /\ run' = [run EXCEPT ![r].stage = "record"]
        /\ UNCHANGED saved
     \/ /\ run[r].call <= Calls(r) /\ run[r].cancelled
        /\ run' = [run EXCEPT ![r].stage = "record", ![r].reason = "canceled",
                              ![r].results = ResultsFrom(r, run[r].call, "canceled")]
        /\ Finish(r, "canceled", FALSE)
  /\ UNCHANGED <<permissionVars, active>>

\* A call names no tool, or a tool that asks for nothing, or one that asks.
Dispatch(r) ==
  /\ At(r, "tools") /\ run[r].call <= Calls(r) /\ ~run[r].cancelled
  /\ \/ NextCall(r, WithResult(r, "not_found")) /\ UNCHANGED permissionVars
     \/ /\ run' = [run EXCEPT ![r].stage = "tool"]
        /\ UNCHANGED permissionVars
     \/ IF Approved(r, AutoApproved)
          THEN run' = [run EXCEPT ![r].stage = "tool"] /\ UNCHANGED permissionVars
          ELSE run' = [run EXCEPT ![r].stage = "ask"] /\ Ask(r)
  /\ UNCHANGED <<active, saved>>

\* The goroutine receives the answer, whether its run was cancelled or not.
Answered(r) ==
  /\ At(r, "ask")
  /\ TakeAnswer(r)
  /\ run' = [run EXCEPT ![r].stage = "leaving", ![r].allowed = Head(answer[r])]
  /\ UNCHANGED <<active, saved>>

\* Request returns.  A denial finishes the message and marks the calls after it; the
\* break that follows leaves the select and not the loop.
AfterDenial(r) == NextCall(r, [ResultsFrom(r, run[r].call + 1, "canceled")
                                  EXCEPT ![run[r].call] = "denied"])

Return(r) ==
  /\ At(r, "leaving")
  /\ Forget(r)
  /\ IF run[r].allowed
       THEN run' = [run EXCEPT ![r].stage = "tool", ![r].allowed = FALSE] /\ UNCHANGED saved
       ELSE /\ AfterDenial(r)
            /\ Finish(r, "permission_denied", run[r].cancelled)
  /\ UNCHANGED <<active>>

\* A tool runs and returns its response; of an error other than a denial the model is
\* told nothing, which is an empty response.
RunTool(r) ==
  /\ At(r, "tool")
  /\ run' = [run EXCEPT ![r].stage = "tools", ![r].results = WithResult(r, "own"),
                        ![r].call = @ + 1, ![r].ran = @ \cup {run[r].call}]
  /\ UNCHANGED <<permissionVars, active, saved>>

\* The tool message is stored, and the loop goes on after tool_use.
Record(r) ==
  /\ At(r, "record")
  /\ \/ /\ Reason(r) = "tool_use"
        /\ run' = [run EXCEPT ![r].stage = "loop"]
        /\ UNCHANGED active
     \/ End(r, Reason(r))
  /\ UNCHANGED <<permissionVars, saved>>
-----------------------------------------------------------------------------
Streaming(r) == Complete(r) \/ StreamCloses(r) \/ TrackUsage(r) \/ CancelNoticed(r)
                \/ StreamFails(r) \/ FinishFailed(r)
Tooling(r) == ToolsEnd(r) \/ Dispatch(r) \/ Answered(r) \/ Return(r) \/ RunTool(r) \/ Record(r)
RunStep(r) == Loop(r) \/ Streaming(r) \/ Tooling(r) \/ Panic(r)
DialogStep == PermissionNext /\ UNCHANGED agentVars

Next ==
  \/ \E r \in Runs : Start(r) \/ RunStep(r)
  \/ \E s \in Sessions : Cancel(s)
  \/ DialogStep

Spec == Init /\ [][Next]_vars

\* Goroutines run, the interface's thread handles its messages, the provider and the
\* tools end or panic, and the user answers a dialog that stays on the screen.
Fairness ==
  /\ \A r \in Runs : WF_vars(RunStep(r))
  /\ WF_vars(ShowRequest /\ UNCHANGED agentVars)
  /\ WF_vars(Press /\ UNCHANGED agentVars)
  /\ WF_vars((Respond \/ Unblock) /\ UNCHANGED agentVars)

FairSpec == Spec /\ Fairness
=============================================================================
