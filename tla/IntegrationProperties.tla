----------------------- MODULE IntegrationProperties -----------------------
(* What missions may do to a shared working tree. *)
EXTENDS Integration

\* Every variable keeps its type, and a write is under way only for an
\* operation, and nothing is done before the angel has answered.
TypeOK ==
  /\ file \in [Paths -> Content]
  /\ clock \in [Paths -> Nat]
  /\ holder \in [Scopes -> Missions \cup {NoOne}]
  /\ logged \subseteq Missions
  /\ stage \in [Missions -> Stages]
  /\ view \in [Missions -> [Paths -> Content \cup {Unread}]]
  /\ answer \in [Missions -> Answered]
  /\ expected \in [Missions -> [Paths -> Nat \cup {Unknown}]]
  /\ rebased \in [Missions -> Nat]
  /\ applied \in [Missions -> Nat]
  /\ buffer \in [Missions -> Seq(Text)]
  /\ \A m \in Missions :
       /\ rebased[m] <= Len(Ops(m)) /\ applied[m] <= Len(Ops(m))
       /\ stage[m] \in {"truncating", "filling"} =>
            applied[m] < Len(Ops(m)) /\ buffer[m] # <<>>
       /\ stage[m] \in {"planning", "reading"} => rebased[m] = 0 /\ applied[m] = 0

\* Its next operation is on its way to the disk; a deletion is one step.
Writing(m) ==
  \/ stage[m] \in {"truncating", "filling"}
  \/ stage[m] = "applying" /\ applied[m] < Len(Ops(m)) /\ NextOp(m).kind = "delete_file"

\* A mission that validates its leases (ExecutePhased, integrator.go:78) holds the lease
\* on each file it writes or deletes whose name its manifest gives; architecture.md:441
\* asks it of every write.  Files the manifest leaves out are written without, and so
\* is every file by Execute, which skips the check (solo.go:452).
LeaseCoversWrites ==
  \A m \in Phased :
    Writing(m) /\ NextOp(m).path \in answer[m].files => holder[FileScope[NextOp(m).path]] = m

\* The mission replaces or removes the content of a path in this step.
Overwrites(m, p) ==
  /\ file'[p] # file[p]
  /\ \/ stage[m] = "truncating" /\ stage'[m] = "filling" /\ NextOp(m).path = p
     \/ stage[m] = "applying" /\ applied'[m] # applied[m] /\ NextOp(m).path = p

\* The mission's answer edits the path.
Edits(m, p) == \E i \in DOMAIN Ops(m) : Ops(m)[i].path = p

\* So far every answer that edits the path is that of a mission that validates its
\* leases, and names the path in its manifest.
Covered(p) == \A m \in Missions : Edits(m, p) => m \in Phased /\ p \in answer[m].files

\* No lost update on such a path: the content a mission overwrites is the content it
\* read, or wrote itself, whatever the others did in between (integrator.go:78-117).
\* Only add_file and delete_file, whose file nobody compares with anything
\* (edit_apply.go:48-64), may hit a file that the mission has never read.
WritesWhatItSaw ==
  [][\A m \in Missions, p \in Paths :
       Overwrites(m, p) /\ Covered(p) =>
         view[m][p] = file[p] \/ (view[m][p] = Unread /\ NextOp(m).kind \in FileKinds)]_vars

\* An integration_complete event tells the truth: every operation was applied and
\* the clock of every file of the manifest was raised past what the mission expected.
LoggedMeansDone ==
  \A m \in logged :
    /\ applied[m] = Len(Ops(m))
    /\ \A p \in answer[m].files : clock[p] > Greatest(expected[m][p], 0)

\* Every mission whose angel has answered comes to an end.
MissionsEnd == \A m \in Missions : stage[m] = "answered" ~> stage[m] \in Ended
-----------------------------------------------------------------------------
(* The inductive invariant *)

Validated == {"held", "rebasing", "applying", "truncating", "filling", "counting", "logging"}

\* A mission past the lease check holds every scope of its manifest.
LeasesValidated ==
  \A m \in Phased : stage[m] \in Validated => \A k \in ManifestScopes(m) : holder[k] = m

\* There is nothing to do before the angel has answered, and the angel has seen every
\* file it edits by lines or by symbols.
AnsweredFirst ==
  \A m \in Missions :
    /\ stage[m] \in {"planning", "reading"} => answer[m] = NoAnswer
    /\ \A i \in DOMAIN Ops(m) : Ops(m)[i].kind \in Anchored => view[m][Ops(m)[i].path] # Unread

\* What a mission knows of a file is on disk, unless somebody else can write the
\* file and it cannot, or it is between emptying and filling it.
ViewCurrent(m, p) ==
  \/ view[m][p] \in {Unread, file[p]}
  \/ holder[FileScope[p]] \notin {m, NoOne}
  \/ /\ holder[FileScope[p]] = m
     /\ stage[m] = "dead" \/ (stage[m] = "filling" /\ NextOp(m).path = p)

\* Leases, manifests and views fit together: what no other mission can have
\* changed, a mission still knows, on every path that is covered.
TreeInv ==
  /\ LeasesValidated
  /\ AnsweredFirst
  /\ \A p \in Paths : Covered(p) => \A m \in Missions : ViewCurrent(m, p)
-----------------------------------------------------------------------------

\* What a mission has done by the stage it has reached.
DoneInv ==
  /\ \A m \in Missions, p \in Paths : expected[m][p] <= clock[p]
  /\ \A m \in Missions :
       /\ stage[m] \in {"counting", "logging", "integrated"} => applied[m] = Len(Ops(m))
       /\ stage[m] \in {"logging", "integrated"} =>
            \A p \in answer[m].files : clock[p] > Greatest(expected[m][p], 0)
       /\ m \in logged => stage[m] = "integrated"
-----------------------------------------------------------------------------
(* How many steps of its own a mission has before it once its angel answered. *)

HasAnswer(m) == stage[m] \notin {"planning", "reading"}

\* A rebase and an apply go through the operations, the latter in three steps each.
StagesLeft ==
  [answered |-> 8, leased |-> 7, validating |-> 6, held |-> 5, unleased |-> 5, rebasing |-> 4,
   applying |-> 3, truncating |-> 2, filling |-> 1, counting |-> 2, logging |-> 1]

StepsLeft(m) ==
  IF stage[m] \in Ended THEN 0
  ELSE StagesLeft[stage[m]] + (Len(Ops(m)) - rebased[m]) + 3 * (Len(Ops(m)) - applied[m])

\* Each step of a mission brings its end nearer, and no step of another, no file that
\* drifts and no call that fails sends it back.
NeverSentBack ==
  [][\A m \in Missions : HasAnswer(m) =>
       /\ HasAnswer(m)' /\ StepsLeft(m)' <= StepsLeft(m)
       /\ Proceed(m) => StepsLeft(m)' < StepsLeft(m)]_vars
=============================================================================
