---------------------------- MODULE Integration ----------------------------
(***************************************************************************)
(* god/solo.go and god/integrator.go: missions that edit one working tree. *)
(* A mission leases its planned scopes, lets an angel read files and       *)
(* answer with Edit IR operations and a manifest, leases what the manifest *)
(* adds, reads the file clocks, validates, rebases, writes operation by    *)
(* operation, raises the clocks and logs.  Heaven appears as the lease     *)
(* holders and the clocks its endpoints promise.                           *)
(***************************************************************************)
EXTENDS EditIR

CONSTANTS
  Missions,   \* executions; each leases under a plan id of its own
  Phased,     \* those run by ExecutePhased; the others run by Execute
  Paths,      \* files of the tree
  Scopes,     \* lease scopes, among them FileScope[p] of every path
  FileScope,
  Planned,    \* mission -> scopes its planner asks for
  Answers,    \* what an angel may answer: operations and manifest
  InitialFiles,
  CallsFail,  \* whether calls of Heaven and of the provider may fail
  NoOne

Answered == [ops : Seq(Operations(Paths)), files : SUBSET Paths, symbols : SUBSET Scopes]

ASSUME MissionAssumption ==
  /\ NoOne \notin Missions
  /\ Phased \subseteq Missions
  /\ FileScope \in [Paths -> Scopes]
  /\ Planned \in [Missions -> SUBSET Scopes]
  /\ Answers \subseteq Answered
  /\ InitialFiles \in [Paths -> Content]
  /\ CallsFail \in BOOLEAN

VARIABLES
  file,       \* path -> its lines, or NoFile
  clock,      \* path -> file clock
  holder,     \* scope -> the mission whose plan owns its lease, or NoOne
  logged,     \* missions with an integration_complete event
  stage,      \* mission -> where its executor is
  view,       \* mission -> path -> content last read, written or removed
  answer,     \* mission -> operations and manifest it works with
  expected,   \* mission -> path -> the clock it expects, or Unknown
  rebased,    \* mission -> operations rebaseAnchors has gone through
  applied,    \* mission -> operations ApplyEditIR has gone through
  buffer      \* mission -> what it is about to write

tree == <<file, view>>
service == <<clock, holder, logged>>
local == <<answer, expected, rebased, applied, buffer>>
vars == <<tree, service, stage, local>>

Ended == {"integrated", "rejected", "conflict", "error", "dead"}
Stages == Ended \cup {"planning", "reading", "answered", "leased", "validating",
                      "unleased", "held", "rebasing", "applying", "truncating",
                      "filling", "counting", "logging"}

Unread == <<>>
NoAnswer == [ops |-> <<>>, files |-> {}, symbols |-> {}]
Unknown == -1
NoClocks == [p \in Paths |-> Unknown]

Init ==
  /\ file = InitialFiles
  /\ clock = [p \in Paths |-> 0]
  /\ holder = [k \in Scopes |-> NoOne]
  /\ logged = {}
  /\ stage = [m \in Missions |-> "planning"]
  /\ view = [m \in Missions |-> [p \in Paths |-> Unread]]
  /\ answer = [m \in Missions |-> NoAnswer]
  /\ expected = [m \in Missions |-> NoClocks]
  /\ rebased = [m \in Missions |-> 0]
  /\ applied = [m \in Missions |-> 0]
  /\ buffer = [m \in Missions |-> Unread]

Becomes(m, s) == stage' = [stage EXCEPT ![m] = s]

Ops(m) == answer[m].ops
NextOp(m) == Ops(m)[applied[m] + 1]

-----------------------------------------------------------------------------
(* Planning, the angel, and the leases its manifest adds *)

\* LeaseAcquire: one critical section for all scopes, those of others denied.
Granted(m, K) == [k \in Scopes |-> IF k \in K /\ holder[k] = NoOne THEN m ELSE holder[k]]

\* SoloPlanner.Plan: denied scopes are not an error, a failing call is.
Plan(m) ==
  /\ stage[m] = "planning"
  /\ \/ holder' = Granted(m, Planned[m]) /\ Becomes(m, "reading")
     \/ /\ CallsFail
        /\ \E K \in SUBSET Planned[m] : holder' = Granted(m, K)
        /\ Becomes(m, "error")
  /\ UNCHANGED <<tree, clock, logged, local>>

\* The angel pages a file in, through the pack or through page faults.
Read(m, p) ==
  /\ stage[m] = "reading"
  /\ view[m][p] = Unread /\ file[p] # NoFile
  /\ view' = [view EXCEPT ![m][p] = file[p]]
  /\ UNCHANGED <<file, service, stage, local>>

\* An angel edits what it has read; its anchors are those of what it read.
Written(m, op) ==
  IF op.kind \in Anchored THEN [op EXCEPT !.anchor = AnchorOf(view[m][op.path], op)] ELSE op

Answer(m) ==
  /\ stage[m] = "reading"
  /\ \E a \in Answers :
       /\ \A i \in DOMAIN a.ops : a.ops[i].kind \in Anchored =>
            /\ view[m][a.ops[i].path] \notin {Unread, NoFile}
            /\ Fits(view[m][a.ops[i].path], a.ops[i])
       /\ answer' = [answer EXCEPT ![m] =
            [a EXCEPT !.ops = [i \in DOMAIN a.ops |-> Written(m, a.ops[i])]]]
  /\ Becomes(m, "answered")
  /\ UNCHANGED <<tree, service, expected, rebased, applied, buffer>>

\* The provider fails or its answer is not Edit IR, which may be noticed only by
\* Integrate, after the leases and the clocks.
NoUsableAnswer(m) ==
  /\ CallsFail
  /\ stage[m] \in {"reading", "leased"}
  /\ Becomes(m, "error")
  /\ UNCHANGED <<tree, service, local>>

ManifestScopes(m) == {FileScope[p] : p \in answer[m].files} \cup answer[m].symbols

\* Supplemental leases: neither an error nor a denial is looked at.
Supplement(m) ==
  /\ stage[m] = "answered"
  /\ \E K \in IF CallsFail THEN SUBSET ManifestScopes(m) ELSE {ManifestScopes(m)} :
       holder' = Granted(m, K)
  /\ Becomes(m, "leased")
  /\ UNCHANGED <<tree, clock, logged, local>>

\* FileClockGet on the manifest's files; after an error no clocks are expected.
ReadClocks(m) ==
  /\ stage[m] = "leased"
  /\ \/ expected' = [expected EXCEPT ![m] =
          [p \in Paths |-> IF p \in answer[m].files THEN clock[p] ELSE Unknown]]
     \/ CallsFail /\ UNCHANGED expected
  /\ Becomes(m, IF m \in Phased THEN "validating" ELSE "applying")
  /\ UNCHANGED <<tree, service, answer, rebased, applied, buffer>>

-----------------------------------------------------------------------------
(* Integrate: validation and rebase, skipped with SkipLeaseCheck *)

\* Variant: one leased scope will do.
CheckSomeLease(m) ==
  /\ stage[m] = "validating"
  /\ Becomes(m, IF \E k \in ManifestScopes(m) : holder[k] = m THEN "held" ELSE "unleased")
  /\ UNCHANGED <<tree, service, local>>

\* handleValidateManifest, its lease half ...
CheckLeases(m) ==
  /\ stage[m] = "validating"
  /\ Becomes(m, IF \A k \in ManifestScopes(m) : holder[k] = m THEN "held" ELSE "unleased")
  /\ UNCHANGED <<tree, service, local>>

\* ... and its clock half, under another mutex; then Integrate's decision.
CheckClocks(m) ==
  /\ stage[m] \in {"held", "unleased"}
  /\ LET drift == \E p \in Paths : expected[m][p] \notin {Unknown, clock[p]}
     IN  \/ Becomes(m, IF stage[m] = "unleased" THEN "rejected"
                       ELSE IF drift THEN "rebasing" ELSE "applying")
         \/ CallsFail /\ Becomes(m, "error")
  /\ UNCHANGED <<tree, service, local>>

\* rebaseAnchors reads the file of each operation once, at the first operation
\* on it, and gives its lines to the later ones.
RebaseFile(m) ==
  LET p == Ops(m)[rebased[m] + 1].path
      mine == {i \in DOMAIN Ops(m) : Ops(m)[i].path = p /\ Ops(m)[i].kind # "add_file"}
  IN  /\ stage[m] = "rebasing" /\ rebased[m] < Len(Ops(m))
      /\ IF rebased[m] + 1 \notin mine \/ \E i \in mine : i <= rebased[m]
         THEN UNCHANGED <<stage, answer>>
         ELSE IF \E i \in mine : RebaseFails(file[p], Ops(m)[i])
         THEN Becomes(m, "conflict") /\ UNCHANGED answer
         ELSE /\ answer' = [answer EXCEPT ![m].ops =
                   [i \in DOMAIN @ |-> IF i \in mine THEN Rebased(file[p], @[i]) ELSE @[i]]]
              /\ UNCHANGED stage
      /\ rebased' = [rebased EXCEPT ![m] = @ + 1]
      /\ UNCHANGED <<tree, service, expected, applied, buffer>>

RebaseDone(m) ==
  /\ stage[m] = "rebasing" /\ rebased[m] = Len(Ops(m))
  /\ Becomes(m, "applying")
  /\ UNCHANGED <<tree, service, local>>
-----------------------------------------------------------------------------
(* ApplyEditIR, the clocks and the event *)

\* Variant: an operation that fails sends the mission back to the clocks.
RetryFailedOp(m) ==
  /\ stage[m] = "applying" /\ applied[m] < Len(Ops(m))
  /\ NextOp(m).kind # "delete_file"
  /\ LET op == NextOp(m)
     IN  IF Accepts(file[op.path], op)
         THEN /\ buffer' = [buffer EXCEPT ![m] = Applied(file[op.path], op)]
              /\ Becomes(m, "truncating")
         ELSE Becomes(m, "leased") /\ UNCHANGED buffer
  /\ UNCHANGED <<tree, service, answer, expected, rebased, applied>>

\* An operation reads its file and checks line numbers, symbol and anchor.  A
\* failure leaves the earlier operations on disk and yields a conflict mission.
ReadOp(m) ==
  /\ stage[m] = "applying" /\ applied[m] < Len(Ops(m))
  /\ NextOp(m).kind # "delete_file"
  /\ LET op == NextOp(m)
     IN  IF Accepts(file[op.path], op)
         THEN /\ buffer' = [buffer EXCEPT ![m] = Applied(file[op.path], op)]
              /\ Becomes(m, "truncating")
         ELSE Becomes(m, "conflict") /\ UNCHANGED buffer
  /\ UNCHANGED <<tree, service, answer, expected, rebased, applied>>

\* os.WriteFile first empties the file ...
Truncate(m) ==
  /\ stage[m] = "truncating"
  /\ file' = [file EXCEPT ![NextOp(m).path] = OnDisk(<<>>)]
  /\ Becomes(m, "filling")
  /\ UNCHANGED <<view, service, local>>

\* ... and then writes it.
Fill(m) ==
  /\ stage[m] = "filling"
  /\ file' = [file EXCEPT ![NextOp(m).path] = buffer[m]]
  /\ view' = [view EXCEPT ![m][NextOp(m).path] = buffer[m]]
  /\ applied' = [applied EXCEPT ![m] = @ + 1]
  /\ Becomes(m, "applying")
  /\ UNCHANGED <<service, answer, expected, rebased, buffer>>

\* delete_file is one system call.
DeleteFile(m) ==
  /\ stage[m] = "applying" /\ applied[m] < Len(Ops(m))
  /\ NextOp(m).kind = "delete_file"
  /\ IF Accepts(file[NextOp(m).path], NextOp(m))
     THEN /\ file' = [file EXCEPT ![NextOp(m).path] = NoFile]
          /\ view' = [view EXCEPT ![m][NextOp(m).path] = NoFile]
          /\ applied' = [applied EXCEPT ![m] = @ + 1]
          /\ UNCHANGED stage
     ELSE Becomes(m, "conflict") /\ UNCHANGED <<tree, applied>>
  /\ UNCHANGED <<service, answer, expected, rebased, buffer>>

ApplyDone(m) ==
  /\ stage[m] = "applying" /\ applied[m] = Len(Ops(m))
  /\ Becomes(m, "counting")
  /\ UNCHANGED <<tree, service, local>>

Raised(P) == [p \in Paths |-> IF p \in P THEN clock[p] + 1 ELSE clock[p]]

\* Variant: a failing increment is ignored like the failing append after it.
CountIgnoringErrors(m) ==
  /\ stage[m] = "counting"
  /\ \/ clock' = Raised(answer[m].files)
     \/ CallsFail /\ \E P \in SUBSET answer[m].files : clock' = Raised(P)
  /\ Becomes(m, "logging")
  /\ UNCHANGED <<tree, holder, logged, local>>

\* FileClockInc on the manifest's files.  A failed call has raised some of the
\* clocks or none; the response may be lost after all were.
CountFiles(m) ==
  /\ stage[m] = "counting"
  /\ \/ clock' = Raised(answer[m].files) /\ Becomes(m, "logging")
     \/ /\ CallsFail /\ answer[m].files # {}
        /\ \E P \in SUBSET answer[m].files : clock' = Raised(P)
        /\ Becomes(m, "error")
  /\ UNCHANGED <<tree, holder, logged, local>>

LogIntegration(m) ==
  /\ stage[m] = "logging"
  /\ \/ logged' = logged \cup {m}
     \/ CallsFail /\ UNCHANGED logged
  /\ Becomes(m, "integrated")
  /\ UNCHANGED <<tree, clock, holder, local>>

-----------------------------------------------------------------------------
(* The process that runs a mission dies; its leases stay. *)
Die(m) ==
  /\ stage[m] \notin Ended
  /\ Becomes(m, "dead")
  /\ UNCHANGED <<tree, service, local>>

\* The executor's own steps after the angel has answered.
Proceed(m) ==
  \/ Supplement(m) \/ ReadClocks(m) \/ CheckLeases(m) \/ CheckClocks(m)
  \/ RebaseFile(m) \/ RebaseDone(m)
  \/ ReadOp(m) \/ Truncate(m) \/ Fill(m) \/ DeleteFile(m) \/ ApplyDone(m)
  \/ CountFiles(m) \/ LogIntegration(m)

Next ==
  \E m \in Missions :
    \/ Plan(m) \/ Answer(m) \/ NoUsableAnswer(m) \/ Proceed(m) \/ Die(m)
    \/ \E p \in Paths : Read(m, p)

Spec == Init /\ [][Next]_vars

\* A goroutine that can run, runs, and Heaven answers its calls.
FairSpec == Spec /\ \A m \in Missions : WF_vars(Proceed(m))
=============================================================================
