----------------------------- MODULE EditDrift -----------------------------
(***************************************************************************)
(* One Edit IR operation written against the file an angel read, applied   *)
(* to the file as others have changed it since: what an anchor that        *)
(* verifies says about the place the operation lands on.                   *)
(***************************************************************************)
EXTENDS EditIR

CONSTANTS
  Kinds,      \* kinds of operation the angel may answer with
  Contents,   \* new lines of an operation, or of somebody else's change
  MaxLines,   \* lines of the file that was read
  MaxDrift    \* changes made by others

ASSUME DriftAssumption ==
  /\ Kinds \subseteq Anchored /\ Contents \subseteq Seq(Text)
  /\ MaxLines \in Nat /\ MaxDrift \in Nat

VARIABLES
  seen,       \* the file as the angel read it
  disk,       \* the file on disk
  op,         \* the operation, with the anchor of the file it was read from
  drifts,     \* changes made by others so far
  status      \* "answered", "rebased", "applied" or "conflict"

driftVars == <<seen, disk, op, drifts, status>>

Files == UNION {[1 .. n -> Text] : n \in 1 .. MaxLines}

Shapes ==
  [kind : Kinds, path : {"f"}, first : 1 .. MaxLines + 1, last : 1 .. MaxLines,
   symbol : Symbols, content : Contents, anchor : {<<>>}]

\* One record per operation: fields its kind does not use are fixed.
Canonical(o) ==
  /\ o.kind \notin SpanKinds => o.last = 1
  /\ o.kind \in SymbolKinds => o.first = 1
  /\ o.kind \notin SymbolKinds => o.symbol = CHOOSE s \in Symbols : TRUE
  /\ o.kind = "delete_span" => o.content = <<>>

DriftInit ==
  /\ seen \in Files
  /\ disk = seen
  /\ op \in {[o EXCEPT !.anchor = AnchorOf(seen, o)] :
               o \in {p \in Shapes : Canonical(p) /\ Fits(seen, p)}}
  /\ drifts = 0
  /\ status = "answered"

\* Another mission, or the user's editor, changes a line or inserts before it.
Drift ==
  /\ status \in {"answered", "rebased"}
  /\ drifts < MaxDrift
  /\ \E i \in 1 .. Len(disk) + 1, gone \in 0 .. 1, new \in Contents :
       /\ i + gone <= Len(disk) + 1
       /\ disk' = OnDisk(SubSeq(disk, 1, i - 1) \o new \o SubSeq(disk, i + gone, Len(disk)))
  /\ drifts' = drifts + 1
  /\ UNCHANGED <<seen, op, status>>

\* Integrate after a manifest whose clocks drifted.
Rebase ==
  /\ status = "answered"
  /\ IF RebaseFails(disk, op)
     THEN status' = "conflict" /\ UNCHANGED op
     ELSE status' = "rebased" /\ op' = Rebased(disk, op)
  /\ UNCHANGED <<seen, disk, drifts>>

\* ApplyEditIR on this one operation.
Apply ==
  /\ status \in {"answered", "rebased"}
  /\ IF Accepts(disk, op)
     THEN status' = "applied" /\ disk' = Applied(disk, op)
     ELSE status' = "conflict" /\ UNCHANGED disk
  /\ UNCHANGED <<seen, op, drifts>>

DriftNext == Drift \/ Rebase \/ Apply

DriftSpec == DriftInit /\ [][DriftNext]_driftVars

-----------------------------------------------------------------------------
(* Properties *)

\* Types of all variables; a file never becomes one without lines.
DriftTypeOK ==
  /\ seen \in Files
  /\ disk \in Seq(Text) /\ disk # <<>>
  /\ op.kind \in Kinds /\ op \in Operations({"f"})
  /\ drifts \in 0 .. MaxDrift
  /\ status \in {"answered", "rebased", "applied", "conflict"}

Lands == status = "answered" /\ status' = "applied"

Around(lines, first, last) ==
  <<Slice(lines, first - Reach, first - 1), Slice(lines, last + 1, last + Reach)>>

\* The lines around the span an operation is anchored to.
Context(lines, o) == Around(lines, AnchorSpan(lines, o)[1], AnchorSpan(lines, o)[2])

\* Kinds that name the lines they cut by number, lines the file has.
Numbered == SpanKinds \cup {"replace_line"}

\* architecture.md:341: such an operation, applied without a rebase, finds the same
\* three lines before its span and the same three after it as in the file that was
\* read, although the hash runs the two contexts together.
ContextKept ==
  [][Lands /\ op.kind \in Numbered => Context(disk, op) = Context(seen, op)]_driftVars

\* A conflict mission is only ever made when others changed the file, and
\* without a rebase only while it differs from the one that was read.
NoFalseConflict ==
  [][status' = "conflict" => drifts > 0 /\ (status = "answered" => disk # seen)]_driftVars
=============================================================================
