------------------------------- MODULE EditIR -------------------------------
(***************************************************************************)
(* god/edit_apply.go and the rebase of god/integrator.go: what one Edit IR *)
(* operation does to a file.  A file is the sequence of its lines and is   *)
(* never empty: an empty file reads as one blank line, and a file left     *)
(* without lines is written as one.  SHA-256 is taken to be injective, so  *)
(* an anchor hash is the text it hashes.                                   *)
(***************************************************************************)
EXTENDS Integers, Sequences, FiniteSets

CONSTANTS
  Text,       \* what a line can hold
  Blank,      \* the empty line
  Symbols,    \* symbol names operations look for
  Mentions,   \* line -> the symbols it contains
  NoFile      \* the value of a path that does not exist

ASSUME TextAssumption ==
  Blank \in Text /\ Mentions \in [Text -> SUBSET Symbols] /\ NoFile \notin Seq(Text)

Content == (Seq(Text) \ {<<>>}) \cup {NoFile}

Reach == 3    \* lines of context on each side of an anchored span

SpanKinds   == {"replace_span", "delete_span"}
LineKinds   == {"replace_line", "insert_lines"}
SymbolKinds == {"insert_after_symbol", "insert_before_symbol", "template"}
FileKinds   == {"add_file", "delete_file"}
Anchored    == SpanKinds \cup LineKinds \cup SymbolKinds

\* EditOp: the fields of an operation; those its kind does not use are ignored.
Operations(P) ==
  [kind : Anchored \cup FileKinds, path : P, first : Int, last : Int,
   symbol : Symbols, content : Seq(Text), anchor : Seq(Text)]

Least(a, b)    == IF a < b THEN a ELSE b
Greatest(a, b) == IF a < b THEN b ELSE a

\* The lines from a to b that the file has.
Slice(lines, a, b) == SubSeq(lines, Greatest(a, 1), Least(b, Len(lines)))

\* Variant: the context before the span is one line short.
HashShort(lines, first, last) ==
  Slice(lines, first - 2, first - 1) \o Slice(lines, last + 1, last + Reach)

\* ComputeAnchorHash: the context before the span and the context after it, one
\* after the other, and nothing of the span itself.
ComputeAnchorHash(lines, first, last) ==
  Slice(lines, first - Reach, first - 1) \o Slice(lines, last + 1, last + Reach)

\* The first line that contains the symbol, 0 when none does.
SymbolLine(lines, s) ==
  LET hits == {i \in 1 .. Len(lines) : s \in Mentions[lines[i]]}
  IN  IF hits = {} THEN 0 ELSE CHOOSE i \in hits : \A j \in hits : i <= j

\* The checks before the anchor's: line numbers, end of file, symbol present.
Fits(lines, op) ==
  /\ op.kind \in SpanKinds => 1 <= op.first /\ op.first <= op.last /\ op.last <= Len(lines)
  /\ op.kind = "replace_line" => 1 <= op.first /\ op.first <= Len(lines)
  /\ op.kind = "insert_lines" => 1 <= op.first /\ op.first <= Len(lines) + 1
  /\ op.kind \in SymbolKinds => SymbolLine(lines, op.symbol) # 0

\* The span an operation's anchor surrounds, as <<first, last>>.
AnchorSpan(lines, op) ==
  LET at(i) == <<i, i>>
  IN  CASE op.kind \in SpanKinds      -> <<op.first, op.last>>
        [] op.kind = "replace_line"   -> at(op.first)
        [] op.kind = "insert_lines"   -> at(Least(op.first, Len(lines)))
        [] op.kind \in SymbolKinds    -> at(SymbolLine(lines, op.symbol))

AnchorOf(lines, op) ==
  LET span == AnchorSpan(lines, op) IN ComputeAnchorHash(lines, span[1], span[2])

\* The lines an operation replaces, as <<first, last>>; an insertion before
\* line i is <<i, i - 1>>.
Cut(lines, op) ==
  LET i == IF op.kind \in SymbolKinds THEN SymbolLine(lines, op.symbol) ELSE op.first
  IN  CASE op.kind \in SpanKinds                             -> <<i, op.last>>
        [] op.kind = "replace_line"                          -> <<i, i>>
        [] op.kind \in {"insert_lines", "insert_before_symbol"} -> <<i, i - 1>>
        [] op.kind \in {"insert_after_symbol", "template"}   -> <<i + 1, i>>

\* writeFileLines, and what readFileLines makes of it.
OnDisk(lines) == IF lines = <<>> THEN <<Blank>> ELSE lines

\* The lines an operation puts in their place.
NewLines(op) == IF op.kind = "delete_span" THEN <<>> ELSE op.content

Spliced(lines, op) ==
  LET cut == Cut(lines, op)
  IN  OnDisk(SubSeq(lines, 1, cut[1] - 1) \o NewLines(op) \o SubSeq(lines, cut[2] + 1, Len(lines)))

\* Variant: the anchor is taken around the operation's first line.
AcceptsAtFirst(file, op) ==
  CASE op.kind = "add_file"    -> TRUE
    [] op.kind = "delete_file" -> file # NoFile
    [] OTHER -> file # NoFile /\ Fits(file, op) /\ ComputeAnchorHash(file, op.first, op.first) = op.anchor

\* The operation goes through on this content of its file.  add_file writes
\* over whatever is there, delete_file removes it, neither looks at an anchor.
Accepts(file, op) ==
  CASE op.kind = "add_file"    -> TRUE
    [] op.kind = "delete_file" -> file # NoFile
    [] OTHER -> file # NoFile /\ Fits(file, op) /\ AnchorOf(file, op) = op.anchor

\* The file after it.
Applied(file, op) ==
  CASE op.kind = "add_file"    -> OnDisk(op.content)
    [] op.kind = "delete_file" -> NoFile
    [] OTHER                   -> Spliced(file, op)

-----------------------------------------------------------------------------
(* rebaseAnchors: new anchors from the file as it is now. *)

RebasedKinds == SpanKinds \cup {"insert_after_symbol"}

\* The rebase of one operation gives up.
RebaseFails(file, op) ==
  /\ op.kind # "add_file"
  /\ \/ file = NoFile
     \/ op.kind \in SpanKinds /\ op.last > Len(file)
     \/ op.kind = "insert_after_symbol" /\ SymbolLine(file, op.symbol) = 0

\* The other kinds keep the anchor they came with.
Rebased(file, op) ==
  IF op.kind \in RebasedKinds THEN [op EXCEPT !.anchor = AnchorOf(file, op)] ELSE op
=============================================================================
