-------------------------- MODULE PersistentShell --------------------------
(***************************************************************************)
(* The shell that all bash calls of the CLI share                          *)
(* (src/cli/internal/llm/tools/shell/shell.go).  A call looks the shell    *)
(* up, or starts another one when it is not alive, puts its command in a   *)
(* queue and waits.  A goroutine takes the commands in turn, writes each   *)
(* to the shell's input and polls for its status file until a timeout or a *)
(* cancellation; the shell itself goes on with what it was given.  A       *)
(* command is one unit of the input: it starts when all of it is written.  *)
(***************************************************************************)
EXTENDS Naturals, SequencesExt

CONSTANTS QueueCap,   \* capacity of commandQueue
          PipeRoom,   \* commands that the pipe to a shell's input holds, 0 for long ones
          MaxCalls,   \* bound: calls, each with one command
          MaxShells   \* bound: shells started

ASSUME ShellAssumption ==
  QueueCap \in Nat \ {0} /\ PipeRoom \in Nat /\ MaxCalls \in Nat /\ MaxShells \in Nat

VARIABLES
  shells,    \* of each shell: whether the process runs, isAlive, whether the queue is closed,
             \* the queue, the command the goroutine is at (0: none) and whether it has
             \* written it, the input not yet read, and the command and step the shell is at
  instance,  \* shellInstance, 0 for nil
  calls,     \* of each call: its place, the shell it got and its result; as ghosts, how often
             \* its command was started and whether it ended.  A call goes for its command.
  status     \* the status files, by name: the command of which each is, and its size

shellVars == <<shells, instance, calls, status>>

NewShell == [running |-> TRUE, isAlive |-> TRUE, closed |-> FALSE, queue |-> <<>>,
             command |-> 0, written |-> FALSE, input |-> <<>>, at |-> 0, step |-> "ready"]
NewCall(stage) == [stage |-> stage, shell |-> 0, result |-> "none", starts |-> 0, ended |-> FALSE]
Shells == DOMAIN shells
Calls == DOMAIN calls
NoFile == [of |-> 0, size |-> 0]

\* The first shell has been started.
ShellInit ==
  /\ shells = <<NewShell>> /\ instance = 1
  /\ calls = <<>>
  /\ status = [n \in 1 .. MaxCalls |-> NoFile]
-----------------------------------------------------------------------------
(* GetPersistentShell and Exec, in a caller's goroutine *)

Usable == instance # 0 /\ shells[instance].isAlive

Finish(c, result) == calls' = [calls EXCEPT ![c].stage = "over", ![c].result = result]

LookUp ==
  /\ Len(calls) < MaxCalls
  /\ calls' = Append(calls, NewCall(IF Usable THEN "found" ELSE "replacing"))
  /\ UNCHANGED <<shells, instance, status>>

\* Two calls may both have seen the shell dead, and each starts one.
Replace(c) ==
  /\ calls[c].stage = "replacing"
  /\ calls' = [calls EXCEPT ![c].stage = "found"]
  /\ \/ /\ Len(shells) < MaxShells
        /\ shells' = Append(shells, NewShell) /\ instance' = Len(shells')
     \/ instance' = 0 /\ UNCHANGED shells   \* the process could not be started
  /\ UNCHANGED status

\* Exec of what GetPersistentShell returns, which may be nil.
Enter(c) ==
  /\ calls[c].stage = "found"
  /\ IF Usable THEN calls' = [calls EXCEPT ![c].stage = "sending", ![c].shell = instance]
     ELSE Finish(c, IF instance = 0 THEN "panic" ELSE "error")
  /\ UNCHANGED <<shells, instance, status>>

\* The send waits for a place in the queue, and panics when the queue is or gets closed.
Enqueue(c) ==
  LET s == calls[c].shell IN
  /\ calls[c].stage = "sending"
  /\ IF shells[s].closed THEN Finish(c, "panic") /\ UNCHANGED shells
     ELSE /\ Len(shells[s].queue) < QueueCap
          /\ shells' = [shells EXCEPT ![s].queue = Append(@, c)]
          /\ calls' = [calls EXCEPT ![c].stage = "waiting"]
  /\ UNCHANGED <<instance, status>>
-----------------------------------------------------------------------------
(* processCommands and execCommand, in the shell's goroutine *)

\* Variant: the goroutine ends with the shell.
TakesWhileAlive(s) == shells[s].isAlive
\* The goroutine ranges over the queue, of which it gets the rest after it was closed.
Takes(s) == shells[s].queue # <<>>

TakeCommand(s) ==
  /\ shells[s].command = 0 /\ shells[s].queue # <<>> /\ Takes(s)
  /\ shells' = [shells EXCEPT ![s].command = Head(shells[s].queue), ![s].queue = Tail(@), ![s].written = FALSE]
  /\ UNCHANGED <<instance, calls, status>>

\* Variant: one name for the files of all commands.
SameName(c) == 1
\* The name has the time in it, so that each command has files of its own.
StatusFile(c) == c

\* The result goes to the call that waits for it, and the files are removed.
Deliver(s, result) ==
  /\ Finish(shells[s].command, result)
  /\ shells' = [shells EXCEPT ![s].command = 0]
  /\ status' = [status EXCEPT ![StatusFile(shells[s].command)] = NoFile]
  /\ UNCHANGED instance

\* A shell that reads takes any command; the input of one that is at a command fills up.
Room(s) ==
  \/ Len(shells[s].input) < PipeRoom
  \/ shells[s].input = <<>> /\ shells[s].step = "ready"

\* The write waits for room, whatever the timeout and the context; the shell's end ends it.
WriteCommand(s) ==
  /\ shells[s].command # 0 /\ ~shells[s].written
  /\ IF shells[s].isAlive /\ shells[s].running
     THEN /\ Room(s)
          /\ shells' = [shells EXCEPT ![s].written = TRUE, ![s].input = Append(@, shells[s].command)]
          /\ UNCHANGED <<instance, calls, status>>
     ELSE Deliver(s, "error")

PollFinds(c) == status[StatusFile(c)].of # 0 /\ status[StatusFile(c)].size > 0

\* What is told of a command: its exit code, or another's, or the zero of an empty file.
Told(c) ==
  LET file == status[StatusFile(c)] IN
  IF file.size = 0 THEN "zero" ELSE IF file.of = c THEN "done" ELSE "other"

Poll(s) ==
  /\ shells[s].written /\ shells[s].command # 0 /\ PollFinds(shells[s].command)
  /\ Deliver(s, Told(shells[s].command))

\* A timeout, or the end of the call's context: the children of the shell get a signal,
\* which they may or may not heed, and the shell is left to itself.
Interrupt(s) ==
  /\ shells[s].written /\ shells[s].command # 0
  /\ Deliver(s, "interrupted")

Work(s) == TakeCommand(s) \/ WriteCommand(s) \/ Poll(s) \/ Interrupt(s)
-----------------------------------------------------------------------------
(* The shell's process, and the goroutine that waits for its end *)

\* eval, then the status file is created, then filled.
Run(s) ==
  /\ shells[s].running
  /\ \/ /\ shells[s].step = "ready" /\ shells[s].input # <<>>
        /\ shells' = [shells EXCEPT ![s].at = Head(shells[s].input), ![s].input = Tail(@), ![s].step = "eval"]
        /\ calls' = [calls EXCEPT ![Head(shells[s].input)].starts = @ + 1]
        /\ UNCHANGED status
     \/ /\ shells[s].step = "eval"
        /\ shells' = [shells EXCEPT ![s].step = "echo"]
        /\ calls' = [calls EXCEPT ![shells[s].at].ended = TRUE]
        /\ status' = [status EXCEPT ![StatusFile(shells[s].at)] = [of |-> shells[s].at, size |-> 0]]
     \/ /\ shells[s].step = "echo"
        /\ shells' = [shells EXCEPT ![s].step = "ready"]
        /\ status' = [status EXCEPT ![StatusFile(shells[s].at)] = [of |-> shells[s].at, size |-> 1]]
        /\ UNCHANGED calls
  /\ UNCHANGED instance

Exit(s) ==
  /\ shells[s].running
  /\ shells' = [shells EXCEPT ![s].running = FALSE]
  /\ UNCHANGED <<instance, calls, status>>

\* isAlive falls before the queue is closed.
Reap(s) ==
  /\ ~shells[s].running /\ ~shells[s].closed
  /\ shells' = [shells EXCEPT ![s].isAlive = FALSE, ![s].closed = ~shells[s].isAlive]
  /\ UNCHANGED <<instance, calls, status>>

ShellNext ==
  \/ LookUp
  \/ \E c \in Calls : Replace(c) \/ Enter(c) \/ Enqueue(c)
  \/ \E s \in Shells : Work(s) \/ Run(s) \/ Exit(s) \/ Reap(s)

\* A goroutine that can go on does; the timeout of a command, which the tool always sets,
\* runs out.  Nothing is assumed of the shell's process.
ShellFairness ==
  /\ \A c \in 1 .. MaxCalls :
       /\ WF_shellVars(c \in Calls /\ (Replace(c) \/ Enter(c)))
       /\ SF_shellVars(c \in Calls /\ Enqueue(c))
  /\ \A s \in 1 .. MaxShells :
       WF_shellVars(s \in Shells /\ Work(s)) /\ WF_shellVars(s \in Shells /\ Reap(s))
-----------------------------------------------------------------------------
(* What holds of it. *)

\* Types of all variables; whoever has a command queued or at the
\* goroutine waits for it.
ShellTypeOK ==
  /\ instance \in 0 .. Len(shells)
  /\ \A s \in Shells :
       /\ Len(shells[s].queue) <= QueueCap
       /\ shells[s].closed => ~shells[s].isAlive /\ ~shells[s].running
       /\ \A n \in ToSet(shells[s].queue) \cup ({shells[s].command} \ {0}) :
            n \in Calls /\ calls[n].stage = "waiting" /\ calls[n].shell = s
  /\ \A c \in Calls :
       /\ calls[c].stage \in {"replacing", "found", "sending", "waiting", "over"}
       /\ calls[c].result \in {"none", "done", "error", "interrupted", "panic", "zero", "other"}
       /\ calls[c].stage = "over" <=> calls[c].result # "none"

\* What a call is told is what became of its own command: it ran once and to its end when
\* an exit code is given, and never, then or later, when the call fails, also when
\* commands that timed out are still in the shell's input and end in between
\* (shell.go:139-244, 271-288).
ResultsTrue ==
  \A c \in Calls :
    /\ calls[c].starts <= 1
    /\ calls[c].result = "done" => calls[c].starts = 1 /\ calls[c].ended
    /\ calls[c].result \in {"error", "panic"} => calls[c].starts = 0
    /\ calls[c].result \notin {"zero", "other"}

\* A call whose shell runs and does not read, while the goroutine writes to its full input.
Stuck(c) ==
  /\ calls[c].stage \in {"sending", "waiting"}
  /\ LET s == calls[c].shell IN
     shells[s].running /\ shells[s].command # 0 /\ ~shells[s].written /\ ~Room(s)

\* Of any number of calls, in the end every one has come back, with a result, an error or a
\* panic, whenever the shell dies, those that are queued when it dies too, and whatever its
\* commands do, as long as the pipe to it has room: only behind a write to a full pipe, which
\* neither a timeout nor a context ends, a call waits for ever, for a shell that runs and
\* does not read (shell.go:132-137, 177, 190-217).
CallsReturn == <>[](\A c \in Calls : calls[c].stage = "over" \/ Stuck(c))

\* Every call gets its own command's result while shells die and are replaced
\* (shell.go:47-58, 120-137, 271-288).
ShellTellsTruth == ShellTypeOK /\ ResultsTrue
-----------------------------------------------------------------------------
(* The inductive invariant. *)

ShellRecord(n) ==
  [running : BOOLEAN, isAlive : BOOLEAN, closed : BOOLEAN, queue : Seq(1 .. n),
   command : 0 .. n, written : BOOLEAN, input : Seq(1 .. n), at : 0 .. n,
   step : {"ready", "eval", "echo"}]
CallRecord(n) ==
  [stage : {"replacing", "found", "sending", "waiting", "over"}, shell : 0 .. n,
   result : {"none", "done", "error", "interrupted", "panic"}, starts : 0 .. 1,
   ended : BOOLEAN]

\* What a call is told, and what became of its command.
Called(o) ==
  /\ o.stage = "over" <=> o.result # "none"
  /\ o.stage \in {"sending", "waiting"} => o.shell # 0
  /\ o.stage \notin {"waiting", "over"} => o.starts = 0
  /\ o.result \in {"error", "panic"} => o.starts = 0
  /\ o.result = "done" => o.ended
  /\ o.ended => o.starts = 1

\* Of a shell alone: a command is in one place before it starts, which is the queue, the
\* goroutine that has not written it, or the input.
Once(seq) == \A i, j \in DOMAIN seq : seq[i] = seq[j] => i = j
Sound(o) ==
  /\ Len(o.queue) <= QueueCap /\ (o.closed => ~o.isAlive /\ ~o.running)
  /\ Once(o.queue) /\ Once(o.input) /\ o.command \notin ToSet(o.queue)
  /\ \A c \in ToSet(o.queue) : c \notin ToSet(o.input)
  /\ o.command # 0 /\ ~o.written => o.command \notin ToSet(o.input)

\* Of a shell s with the calls cs: they are its own, who is queued or at the goroutine
\* waits, and what is in the input has not started, nor has its call failed.
Expects(c, s, cs) == c \in DOMAIN cs /\ cs[c].shell = s /\ cs[c].stage = "waiting"
Began(c, s, cs) ==
  /\ c \in DOMAIN cs /\ cs[c].shell = s
  /\ cs[c].stage \in {"waiting", "over"} /\ cs[c].result \notin {"error", "panic"}
Agrees(o, s, cs) ==
  /\ \A c \in ToSet(o.queue) : Expects(c, s, cs) /\ cs[c].starts = 0
  /\ o.command # 0 => Expects(o.command, s, cs) /\ (~o.written => cs[o.command].starts = 0)
  /\ \A c \in ToSet(o.input) : Began(c, s, cs) /\ cs[c].starts = 0
  /\ o.step # "ready" =>
       Began(o.at, s, cs) /\ cs[o.at].starts = 1 /\ (o.step = "echo" => cs[o.at].ended)

\* A status file is its command's own, and there only when that has ended.
Belongs(file, n, cs) ==
  /\ file \in [of : {0, n}, size : {0, 1}]
  /\ file.of = n => n \in DOMAIN cs /\ cs[n].ended

ShellInv ==
  /\ instance \in 0 .. Len(shells) /\ Len(calls) <= MaxCalls
  /\ shells \in Seq(ShellRecord(Len(calls))) /\ calls \in Seq(CallRecord(Len(shells)))
  /\ \A c \in Calls : Called(calls[c])
  /\ \A s \in Shells : Sound(shells[s]) /\ Agrees(shells[s], s, calls)
  /\ DOMAIN status = 1 .. MaxCalls /\ \A n \in 1 .. MaxCalls : Belongs(status[n], n, calls)
-----------------------------------------------------------------------------
(* How a call that waits comes nearer its answer. *)

\* What the goroutine still has to do for the command it is at.
Busy(o) == IF o.command = 0 THEN 0 ELSE IF o.written THEN 1 ELSE 2

\* Of a shell: n steps of its goroutine, and c is answered.  A command in the queue is
\* taken, written and answered after those before it.
AnsweredIn(o, c, n) ==
  \/ o.command = c /\ n = Busy(o)
  \/ \E i \in DOMAIN o.queue : o.queue[i] = c /\ n = 3 * i + Busy(o)

MostSteps == 3 * QueueCap + 2
Waits(c) == c \in Calls /\ calls[c].stage = "waiting"

\* Whoever waits has not been lost: its command is at its shell's goroutine or in the queue.
NoneLost ==
  \A c \in Calls : Waits(c) =>
    \E n \in 1 .. MostSteps : AnsweredIn(shells[calls[c].shell], c, n)

\* Each step of the goroutine brings the answers of all that wait nearer; no other call, nor
\* the end of the process or of the shell, puts one off.
AnswersComeNearer ==
  [][\A c \in Calls : \A n \in 1 .. MostSteps :
       LET s == calls[c].shell IN
       Waits(c) /\ AnsweredIn(shells[s], c, n) =>
         \/ calls'[c].stage = "over"
         \/ /\ calls'[c].stage = "waiting" /\ calls'[c].shell = s
            /\ \E m \in 1 .. n : AnsweredIn(shells'[s], c, m) /\ (Work(s) => m < n)]_shellVars
=============================================================================
