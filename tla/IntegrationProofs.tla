------------------------- MODULE IntegrationProofs --------------------------
(***************************************************************************)
(* For every file, operation, set of missions and answers: what the Edit   *)
(* IR operators return and what an anchor that verifies says; what holds   *)
(* of the working tree of several missions, its leases and its clocks; and *)
(* where an operation lands when others have changed the file.             *)
(***************************************************************************)
EXTENDS IntegrationProperties, EditDrift, TLAPS, WellFoundedInduction, SequenceTheorems

USE TextAssumption

-----------------------------------------------------------------------------
(* The operators of Edit IR. *)

LEMMA SubSeqType ==
  ASSUME NEW T, NEW s \in Seq(T), NEW a \in Int, NEW b \in Int, 1 <= a, b <= Len(s)
  PROVE  SubSeq(s, a, b) \in Seq(T)
OBVIOUS

LEMMA SliceType ==
  ASSUME NEW lines \in Seq(Text), NEW a \in Int, NEW b \in Int
  PROVE  Slice(lines, a, b) \in Seq(Text)
BY SubSeqType DEF Slice, Least, Greatest

LEMMA AnchorHashType ==
  ASSUME NEW lines \in Seq(Text), NEW a \in Int, NEW b \in Int
  PROVE  ComputeAnchorHash(lines, a, b) \in Seq(Text)
<1>1. /\ Slice(lines, a - Reach, a - 1) \in Seq(Text)
      /\ Slice(lines, b + 1, b + Reach) \in Seq(Text)
  BY SliceType DEF Reach
<1>2. QED
  BY <1>1 DEF ComputeAnchorHash

LEMMA LeastNatural ==
  ASSUME NEW S, S \subseteq Nat, S # {}
  PROVE  \E n \in S : \A m \in S : n <= m
<1>1. \E n \in S : \A m \in S : <<m, n>> \notin OpToRel(<, Nat)
  BY NatLessThanWellFounded, WFMin, Zenon
<1>2. \A m, n \in Nat : <<m, n>> \notin OpToRel(<, Nat) => n <= m
  BY DEF OpToRel
<1>3. QED
  BY <1>1, <1>2

LEMMA SymbolLineType ==
  ASSUME NEW lines \in Seq(Text), NEW s
  PROVE  SymbolLine(lines, s) \in 0 .. Len(lines)
<1> DEFINE hits == {i \in 1 .. Len(lines) : s \in Mentions[lines[i]]}
<1>1. CASE hits = {}
  BY <1>1 DEF SymbolLine
<1>2. CASE hits # {}
  <2>1. hits \subseteq Nat
    OBVIOUS
  <2>2. \E n \in hits : \A m \in hits : n <= m
    BY <1>2, <2>1, LeastNatural
  <2> HIDE DEF hits
  <2>3. (CHOOSE i \in hits : \A j \in hits : i <= j) \in hits
    BY <2>2
  <2>4. SymbolLine(lines, s) \in hits
    BY <1>2, <2>3 DEF SymbolLine, hits
  <2>5. QED
    BY <2>4 DEF hits
<1>3. QED
  BY <1>1, <1>2

LEMMA AnchorSpanType ==
  ASSUME NEW P, NEW lines \in Seq(Text), NEW o \in Operations(P), o.kind \in Anchored
  PROVE  AnchorSpan(lines, o)[1] \in Int /\ AnchorSpan(lines, o)[2] \in Int
<1>1. SymbolLine(lines, o.symbol) \in Int /\ o.first \in Int /\ o.last \in Int
  BY SymbolLineType DEF Operations
<1>2. QED
  BY <1>1 DEF AnchorSpan, Anchored, SpanKinds, LineKinds, SymbolKinds, Least

LEMMA AnchorType ==
  ASSUME NEW P, NEW lines \in Seq(Text), NEW o \in Operations(P), o.kind \in Anchored
  PROVE  AnchorOf(lines, o) \in Seq(Text)
BY AnchorSpanType, AnchorHashType DEF AnchorOf

LEMMA RebasedType ==
  ASSUME NEW P, NEW lines \in Seq(Text), NEW o \in Operations(P)
  PROVE  /\ Rebased(lines, o) \in Operations(P)
         /\ Rebased(lines, o).path = o.path /\ Rebased(lines, o).kind = o.kind
<1>1. o.kind \in RebasedKinds => AnchorOf(lines, o) \in Seq(Text)
  BY AnchorType DEF RebasedKinds, Anchored, SymbolKinds
<1>2. QED
  BY <1>1 DEF Rebased, Operations

\* A file that an operation was accepted on is again a file.
LEMMA CutInside ==
  ASSUME NEW P, NEW lines \in Seq(Text), NEW o \in Operations(P), o.kind \in Anchored,
         lines # <<>>, Fits(lines, o)
  PROVE  /\ Cut(lines, o)[1] \in 1 .. Len(lines) + 1
         /\ Cut(lines, o)[2] \in 0 .. Len(lines)
<1>1. SymbolLine(lines, o.symbol) \in 0 .. Len(lines) /\ o.first \in Int /\ o.last \in Int
  BY SymbolLineType DEF Operations
<1>2. CASE o.kind \in SpanKinds
  BY <1>1, <1>2 DEF Cut, Fits, SpanKinds, SymbolKinds
<1>3. CASE o.kind \in LineKinds
  BY <1>1, <1>3 DEF Cut, Fits, LineKinds, SpanKinds, SymbolKinds
<1>4. CASE o.kind \in SymbolKinds
  BY <1>1, <1>4 DEF Cut, Fits, LineKinds, SpanKinds, SymbolKinds
<1>5. QED
  BY <1>2, <1>3, <1>4 DEF Anchored

LEMMA OnDiskType ==
  ASSUME NEW lines \in Seq(Text)
  PROVE  OnDisk(lines) \in Seq(Text) \ {<<>>}
BY DEF OnDisk

LEMMA AppliedType ==
  ASSUME NEW P, NEW f \in Content, NEW o \in Operations(P), Accepts(f, o)
  PROVE  /\ Applied(f, o) \in Content
         /\ o.kind # "delete_file" => Applied(f, o) \in Seq(Text) \ {<<>>}
<1>0. o.content \in Seq(Text) /\ o.kind \in Anchored \cup FileKinds
  BY DEF Operations
<1>. NewLines(o) \in Seq(Text)
  BY <1>0 DEF NewLines
<1>1. CASE o.kind = "add_file"
  BY <1>0, <1>1, OnDiskType DEF Applied, Content
<1>2. CASE o.kind = "delete_file"
  BY <1>2 DEF Applied, Content
<1>3. CASE o.kind \in Anchored
  <2>1. f \in Seq(Text) /\ f # <<>> /\ Fits(f, o)
    BY <1>3 DEF Accepts, Content, Anchored, SpanKinds, LineKinds, SymbolKinds
  <2>2. /\ SubSeq(f, 1, Cut(f, o)[1] - 1) \in Seq(Text)
        /\ SubSeq(f, Cut(f, o)[2] + 1, Len(f)) \in Seq(Text)
    BY <1>3, <2>1, CutInside, SubSeqType
  <2>. DEFINE kept == SubSeq(f, 1, Cut(f, o)[1] - 1)
             rest == SubSeq(f, Cut(f, o)[2] + 1, Len(f))
  <2>5. Spliced(f, o) = OnDisk(kept \o NewLines(o) \o rest)
    BY DEF Spliced
  <2>. HIDE DEF kept, rest
  <2>6. kept \o NewLines(o) \o rest \in Seq(Text)
    BY <1>0, <2>2 DEF kept, rest
  <2>3. Spliced(f, o) \in Seq(Text) \ {<<>>}
    BY <2>5, <2>6, OnDiskType
  <2>4. QED
    BY <1>3, <2>3 DEF Applied, Content, Anchored, SpanKinds, LineKinds, SymbolKinds
<1>4. QED
  BY <1>0, <1>1, <1>2, <1>3 DEF FileKinds
-----------------------------------------------------------------------------
(* What a matching anchor says. *)

LEMMA ConcatSplit ==
  ASSUME NEW T, NEW a \in Seq(T), NEW b \in Seq(T), NEW c \in Seq(T), NEW d \in Seq(T),
         Len(a) = Len(c), a \o b = c \o d
  PROVE  a = c /\ b = d
<1>1. \A i \in 1 .. Len(a) : a[i] = (a \o b)[i] /\ c[i] = (c \o d)[i]
  BY ConcatProperties
<1>2. a = c
  BY <1>1, SeqEqual
<1>3. Len(a \o b) = Len(a) + Len(b) /\ Len(c \o d) = Len(c) + Len(d)
  BY ConcatProperties
<1>4. Len(b) = Len(d) /\ Len(a) \in Nat /\ Len(b) \in Nat
  BY <1>3, LenProperties
<1>5. ASSUME NEW i \in 1 .. Len(b) PROVE b[i] = d[i]
  <2> DEFINE j == Len(a) + i
  <2>0. /\ j \in 1 .. (Len(a) + Len(b))
        /\ ~ (j <= Len(a))
        /\ j - Len(a) = i
    BY <1>4
  <2>1. \A n \in 1 .. (Len(a) + Len(b)) :
           (a \o b)[n] = IF n <= Len(a) THEN a[n] ELSE b[n - Len(a)]
    BY ConcatProperties
  <2>2. \A n \in 1 .. (Len(c) + Len(d)) :
           (c \o d)[n] = IF n <= Len(c) THEN c[n] ELSE d[n - Len(c)]
    BY ConcatProperties
  <2> HIDE DEF j
  <2>3. (a \o b)[j] = b[j - Len(a)]
    BY <2>0, <2>1, Zenon
  <2>4. (c \o d)[j] = d[j - Len(a)]
    BY <1>4, <2>0, <2>2
  <2>5. QED
    BY <2>0, <2>3, <2>4
<1>6. QED
  BY <1>2, <1>4, <1>5, SeqEqual

\* The anchor hash runs the context before a span and the context after it
\* together without a separator.  Nevertheless, two files that both reach up to
\* the span and have one hash for it have the same three lines before it and
\* the same three after it: how many lines precede the span follows from its
\* first line.  (edit_apply.go:98-119.)
THEOREM AnchorPinsContext ==
  ASSUME NEW lines \in Seq(Text), NEW other \in Seq(Text), NEW first \in Int, NEW last \in Int,
         1 <= first, first - 1 <= Len(lines), first - 1 <= Len(other),
         ComputeAnchorHash(lines, first, last) = ComputeAnchorHash(other, first, last)
  PROVE  /\ Slice(lines, first - Reach, first - 1) = Slice(other, first - Reach, first - 1)
         /\ Slice(lines, last + 1, last + Reach) = Slice(other, last + 1, last + Reach)
<1> DEFINE before(s) == Slice(s, first - Reach, first - 1)
           after(s)  == Slice(s, last + 1, last + Reach)
<1>1. \A s \in {lines, other} : before(s) \in Seq(Text) /\ after(s) \in Seq(Text)
  BY SliceType DEF Reach
<1>2. ASSUME NEW s \in {lines, other}
      PROVE  before(s) = SubSeq(s, Greatest(first - Reach, 1), first - 1)
  <2>1. Len(s) \in Nat /\ first - 1 <= Len(s)
    BY LenProperties
  <2>2. Least(first - 1, Len(s)) = first - 1
    BY <2>1 DEF Least
  <2>3. QED
    BY <2>2 DEF Slice
<1>3. \A s \in {lines, other} :
        Len(before(s)) = IF first - 1 < Greatest(first - Reach, 1) THEN 0
                         ELSE first - Greatest(first - Reach, 1)
  BY <1>2 DEF Greatest, Reach
<1>4. before(lines) \o after(lines) = before(other) \o after(other)
  BY DEF ComputeAnchorHash
<1> HIDE DEF before, after
<1>5. Len(before(lines)) = Len(before(other))
  BY <1>3
<1>6. before(lines) = before(other) /\ after(lines) = after(other)
  BY <1>1, <1>4, <1>5, ConcatSplit
<1>7. QED
  BY <1>6 DEF before, after
-----------------------------------------------------------------------------
(* The working tree of several missions. *)

USE MissionAssumption

(* Types *)

LEMMA OpsType ==
  ASSUME TypeOK, NEW m \in Missions
  PROVE  /\ answer[m] \in Answered /\ Ops(m) \in Seq(Operations(Paths)) /\ Len(Ops(m)) \in Nat
         /\ applied[m] \in Nat /\ rebased[m] \in Nat
         /\ applied[m] < Len(Ops(m)) =>
              NextOp(m) \in Operations(Paths) /\ NextOp(m).path \in Paths
<1>1. answer[m] \in Answered /\ applied[m] \in Nat /\ rebased[m] \in Nat
  BY DEF TypeOK
<1>2. Ops(m) \in Seq(Operations(Paths))
  BY <1>1 DEF Ops, Answered
<1>3. ASSUME applied[m] < Len(Ops(m)) PROVE NextOp(m) \in Operations(Paths)
  BY <1>1, <1>2, <1>3 DEF NextOp
<1>4. \A o \in Operations(Paths) : o.path \in Paths
  BY DEF Operations
<1>5. QED
  BY <1>1, <1>2, <1>3, <1>4

LEMMA TypeInit == Init => TypeOK
<1> SUFFICES ASSUME Init PROVE TypeOK
  OBVIOUS
<1>1. NoAnswer \in Answered /\ Len(NoAnswer.ops) = 0
  BY DEF NoAnswer, Answered
<1>2. NoClocks \in [Paths -> Nat \cup {Unknown}]
  BY DEF NoClocks
<1>3. QED
  BY <1>1, <1>2 DEF Init, TypeOK, Unread, Stages, Ops

\* What the steps of one mission leave to be checked.
Settled == Stages \ {"planning", "truncating", "filling"}

LEMMA LocalTypes ==
  ASSUME TypeOK, NEW m \in Missions,
         UNCHANGED <<answer, rebased, applied, buffer>>,
         NEW s \in Settled, Becomes(m, s), s = "reading" => stage[m] = "planning"
  PROVE  /\ stage' \in [Missions -> Stages]
         /\ \A n \in Missions :
              /\ rebased'[n] <= Len(Ops(n)') /\ applied'[n] <= Len(Ops(n)')
              /\ stage'[n] \in {"truncating", "filling"} =>
                   applied'[n] < Len(Ops(n)') /\ buffer'[n] # <<>>
              /\ stage'[n] \in {"planning", "reading"} => rebased'[n] = 0 /\ applied'[n] = 0
BY DEF TypeOK, Becomes, Ops, Settled

LEMMA AnswerType ==
  ASSUME TypeOK, NEW m \in Missions, Answer(m)
  PROVE  /\ answer' \in [Missions -> Answered]
         /\ \A n \in Missions \ {m} : answer'[n] = answer[n]
<1>1. PICK a \in Answers :
        /\ \A i \in DOMAIN a.ops : a.ops[i].kind \in Anchored =>
             /\ view[m][a.ops[i].path] \notin {Unread, NoFile}
             /\ Fits(view[m][a.ops[i].path], a.ops[i])
        /\ answer' = [answer EXCEPT ![m] =
             [a EXCEPT !.ops = [i \in DOMAIN a.ops |-> Written(m, a.ops[i])]]]
  BY DEF Answer
<1>2. a \in Answered /\ a.ops \in Seq(Operations(Paths))
  BY DEF Answered
<1>3. ASSUME NEW i \in DOMAIN a.ops
      PROVE  Written(m, a.ops[i]) \in Operations(Paths)
  <2>1. a.ops[i] \in Operations(Paths) /\ a.ops[i].path \in Paths
    <3>1. a.ops[i] \in Operations(Paths)
      BY <1>2, ElementOfSeq
    <3>2. QED
      BY <3>1 DEF Operations
  <2>2. CASE a.ops[i].kind \in Anchored
    <3>1. view[m][a.ops[i].path] \in Seq(Text)
      BY <1>1, <2>1, <2>2 DEF TypeOK, Content
    <3>2. QED
      BY <2>1, <2>2, <3>1, AnchorType DEF Written, Operations
  <2>3. CASE a.ops[i].kind \notin Anchored
    BY <2>1, <2>3 DEF Written
  <2>4. QED
    BY <2>2, <2>3
<1> DEFINE ops == [i \in DOMAIN a.ops |-> Written(m, a.ops[i])]
<1>4. ops \in Seq(Operations(Paths))
  BY <1>2, <1>3
<1> HIDE DEF ops
<1>5. [a EXCEPT !.ops = ops] \in Answered
  BY <1>2, <1>4 DEF Answered
<1>6. answer' = [answer EXCEPT ![m] = [a EXCEPT !.ops = ops]]
  BY <1>1 DEF ops
<1>7. QED
  BY <1>5, <1>6 DEF TypeOK

\* A rebase keeps the operations' number, types, kinds and paths.
LEMMA RebaseKeeps ==
  ASSUME TypeOK, NEW m \in Missions, RebaseFile(m)
  PROVE  /\ answer' \in [Missions -> Answered]
         /\ \A n \in Missions \ {m} : answer'[n] = answer[n]
         /\ answer'[m].files = answer[m].files /\ answer'[m].symbols = answer[m].symbols
         /\ Len(answer'[m].ops) = Len(answer[m].ops)
         /\ \A i \in DOMAIN answer[m].ops : /\ answer'[m].ops[i].path = answer[m].ops[i].path
                                           /\ answer'[m].ops[i].kind = answer[m].ops[i].kind
         /\ rebased[m] < Len(Ops(m)) /\ rebased' = [rebased EXCEPT ![m] = @ + 1]
         /\ stage' = stage \/ Becomes(m, "conflict")
<1>0. rebased[m] < Len(Ops(m)) /\ rebased' = [rebased EXCEPT ![m] = @ + 1]
  BY DEF RebaseFile
<1>1. CASE UNCHANGED answer
  <2>1. stage' = stage \/ Becomes(m, "conflict")
    BY <1>1 DEF RebaseFile
  <2>2. QED
    BY <1>0, <1>1, <2>1 DEF TypeOK
<1>2. CASE ~UNCHANGED answer
  <2> DEFINE p == Ops(m)[rebased[m] + 1].path
             mine == {i \in DOMAIN Ops(m) : Ops(m)[i].path = p /\ Ops(m)[i].kind # "add_file"}
             ops == [i \in DOMAIN Ops(m) |->
                       IF i \in mine THEN Rebased(file[p], Ops(m)[i]) ELSE Ops(m)[i]]
  <2>1. /\ ~\E i \in mine : RebaseFails(file[p], Ops(m)[i])
        /\ answer' = [answer EXCEPT ![m].ops = ops]
        /\ rebased[m] + 1 \in mine
        /\ UNCHANGED stage
    BY <1>2 DEF RebaseFile, Ops
  <2>2. Ops(m) \in Seq(Operations(Paths)) /\ answer[m] \in Answered
    BY OpsType
  <2>3. file[p] \in Seq(Text)
    <3>1. ~RebaseFails(file[p], Ops(m)[rebased[m] + 1]) /\ Ops(m)[rebased[m] + 1].kind # "add_file"
      BY <2>1
    <3>2. file[p] # NoFile
      BY <3>1 DEF RebaseFails
    <3>3. Ops(m)[rebased[m] + 1] \in Operations(Paths)
      BY <2>1, <2>2, ElementOfSeq
    <3>4. p \in Paths
      BY <3>3 DEF Operations
    <3>5. QED
      BY <3>2, <3>4 DEF TypeOK, Content
  <2>4. ASSUME NEW i \in DOMAIN Ops(m)
        PROVE  /\ ops[i] \in Operations(Paths)
               /\ ops[i].path = Ops(m)[i].path /\ ops[i].kind = Ops(m)[i].kind
    <3>1. Ops(m)[i] \in Operations(Paths)
      BY <2>2, ElementOfSeq
    <3> HIDE DEF mine, p
    <3>2. QED
      BY <2>3, <3>1, RebasedType
  <2> HIDE DEF ops
  <2>5. ops \in Seq(Operations(Paths)) /\ Len(ops) = Len(Ops(m))
    <3>1. DOMAIN ops = 1 .. Len(Ops(m))
      BY <2>2 DEF ops
    <3>2. QED
      BY <2>2, <2>4, <3>1 DEF ops
  <2>6. answer'[m] = [answer[m] EXCEPT !.ops = ops]
    BY <2>1 DEF TypeOK
  <2>7. answer'[m] \in Answered /\ answer'[m].ops = ops /\ answer'[m].files = answer[m].files
        /\ answer'[m].symbols = answer[m].symbols
    BY <2>2, <2>5, <2>6 DEF Answered
  <2>8. QED
    BY <1>0, <2>1, <2>4, <2>5, <2>7, SMTT(40) DEF TypeOK, Ops
<1>3. QED
  BY <1>1, <1>2

LEMMA TypeStep == TypeOK /\ [Next]_vars => TypeOK'
<1> SUFFICES ASSUME TypeOK, [Next]_vars PROVE TypeOK'
  OBVIOUS
<1>1. CASE UNCHANGED vars
  BY <1>1 DEF TypeOK, vars, tree, service, local, Ops
<1>2. ASSUME NEW m \in Missions, NEW s \in Settled, Becomes(m, s),
             s = "reading" => stage[m] = "planning",
             UNCHANGED <<tree, logged, answer, rebased, applied, buffer>>,
             clock' \in [Paths -> Nat], holder' \in [Scopes -> Missions \cup {NoOne}],
             expected' \in [Missions -> [Paths -> Nat \cup {Unknown}]]
      PROVE  TypeOK'
  BY <1>2, LocalTypes DEF TypeOK, tree
<1>3. ASSUME NEW m \in Missions, NEW s \in Settled, Becomes(m, s),
             s = "reading" => stage[m] = "planning",
             UNCHANGED <<tree, service, local>>
      PROVE  TypeOK'
  BY <1>2, <1>3 DEF TypeOK, service, local
<1>4. ASSUME NEW m \in Missions, Plan(m) PROVE TypeOK'
  <2>1. PICK s \in {"reading", "error"} : Becomes(m, s)
    BY <1>4 DEF Plan
  <2>2. s \in Settled
    BY DEF Settled, Stages, Ended
  <2>3. holder' \in [Scopes -> Missions \cup {NoOne}]
    BY <1>4 DEF Plan, Granted, TypeOK
  <2>4. QED
    BY <1>2, <1>4, <2>1, <2>2, <2>3 DEF Plan, local, TypeOK
<1>5. ASSUME NEW m \in Missions, NEW p \in Paths, Read(m, p) PROVE TypeOK'
  BY <1>5 DEF Read, TypeOK, service, local, Ops
<1>6. ASSUME NEW m \in Missions, Answer(m) PROVE TypeOK'
  <2>1. answer' \in [Missions -> Answered] /\ \A n \in Missions \ {m} : answer'[n] = answer[n]
    BY <1>6, AnswerType
  <2>2. Becomes(m, "answered") /\ UNCHANGED <<tree, service, expected, rebased, applied, buffer>>
    BY <1>6 DEF Answer
  <2>3. \A n \in Missions : rebased'[n] <= Len(Ops(n)') /\ applied'[n] <= Len(Ops(n)')
    <3>1. rebased[m] = 0 /\ applied[m] = 0
      BY <1>6 DEF Answer, TypeOK
    <3>2. Len(answer'[m].ops) \in Nat
      <4>1. answer'[m].ops \in Seq(Operations(Paths))
        BY <2>1 DEF Answered
      <4>2. QED
        BY <4>1
    <3>3. \A n \in Missions : Ops(n)' = answer'[n].ops
      BY DEF Ops
    <3>4. \A n \in Missions \ {m} : rebased[n] <= Len(answer'[n].ops) /\ applied[n] <= Len(answer'[n].ops)
      BY <2>1 DEF TypeOK, Ops
    <3>5. rebased[m] <= Len(answer'[m].ops) /\ applied[m] <= Len(answer'[m].ops)
      BY <3>1, <3>2
    <3>6. QED
      BY <2>2, <3>3, <3>4, <3>5
  <2>4. QED
    BY <2>1, <2>2, <2>3 DEF TypeOK, tree, service, Becomes, Stages, Ops
<1>7. ASSUME NEW m \in Missions, NoUsableAnswer(m) PROVE TypeOK'
  BY <1>3, <1>7 DEF NoUsableAnswer, Settled, Stages, Ended
<1>8. ASSUME NEW m \in Missions, Supplement(m) PROVE TypeOK'
  <2>1. holder' \in [Scopes -> Missions \cup {NoOne}]
    BY <1>8 DEF Supplement, Granted, TypeOK
  <2>2. QED
    BY <1>2, <1>8, <2>1 DEF Supplement, local, Settled, Stages, TypeOK
<1>9. ASSUME NEW m \in Missions, ReadClocks(m) PROVE TypeOK'
  <2>1. expected' \in [Missions -> [Paths -> Nat \cup {Unknown}]]
    <3> DEFINE now == [p \in Paths |-> IF p \in answer[m].files THEN clock[p] ELSE Unknown]
    <3>1. now \in [Paths -> Nat \cup {Unknown}]
      BY DEF TypeOK
    <3>2. expected' = [expected EXCEPT ![m] = now] \/ UNCHANGED expected
      BY <1>9 DEF ReadClocks
    <3> HIDE DEF now
    <3>3. QED
      BY <3>1, <3>2 DEF TypeOK
  <2>2. PICK s \in {"validating", "applying"} : Becomes(m, s)
    BY <1>9 DEF ReadClocks
  <2>3. s \in Settled
    BY DEF Settled, Stages
  <2>4. QED
    BY <1>2, <1>9, <2>1, <2>2, <2>3 DEF ReadClocks, service, TypeOK
<1>10. ASSUME NEW m \in Missions, CheckLeases(m) PROVE TypeOK'
  <2>1. PICK s \in {"held", "unleased"} : Becomes(m, s)
    BY <1>10 DEF CheckLeases
  <2>2. QED
    BY <1>3, <1>10, <2>1 DEF CheckLeases, Settled, Stages
<1>11. ASSUME NEW m \in Missions, CheckClocks(m) PROVE TypeOK'
  <2>1. PICK s \in {"rejected", "rebasing", "applying", "error"} : Becomes(m, s)
    BY <1>11 DEF CheckClocks
  <2>2. QED
    BY <1>3, <1>11, <2>1 DEF CheckClocks, Settled, Stages, Ended
<1>12. ASSUME NEW m \in Missions, RebaseFile(m) PROVE TypeOK'
  <2>1. UNCHANGED <<tree, service, expected, applied, buffer>>
    BY <1>12 DEF RebaseFile
  <2>2. stage' \in [Missions -> Stages] /\ stage[m] = "rebasing"
        /\ \A n \in Missions : stage'[n] = stage[n] \/ (n = m /\ stage'[n] = "conflict")
    <3>1. stage' = stage \/ Becomes(m, "conflict")
      BY <1>12, RebaseKeeps
    <3>2. stage[m] = "rebasing" /\ "conflict" \in Stages
      BY <1>12 DEF RebaseFile, Stages, Ended
    <3>3. CASE UNCHANGED stage
      BY <3>2, <3>3 DEF TypeOK
    <3>4. CASE Becomes(m, "conflict")
      BY <3>2, <3>4 DEF TypeOK, Becomes
    <3>5. QED
      BY <3>1, <3>3, <3>4
  <2>3. \A n \in Missions : Len(Ops(n)') = Len(Ops(n)) /\ rebased'[n] <= Len(Ops(n)')
    <3>1. rebased[m] \in Nat /\ Len(Ops(m)) \in Nat
      BY OpsType
    <3>2. /\ \A n \in Missions \ {m} : answer'[n] = answer[n]
          /\ Len(answer'[m].ops) = Len(answer[m].ops)
          /\ rebased[m] < Len(Ops(m)) /\ rebased' = [rebased EXCEPT ![m] = @ + 1]
      BY <1>12, RebaseKeeps
    <3>3. \A n \in Missions : Len(Ops(n)') = Len(Ops(n))
      BY <3>2 DEF Ops
    <3>4. \A n \in Missions : rebased'[n] <= Len(Ops(n))
      BY <3>1, <3>2 DEF TypeOK
    <3>5. QED
      BY <3>3, <3>4
  <2>4. rebased' \in [Missions -> Nat] /\ answer' \in [Missions -> Answered]
    <3>1. answer' \in [Missions -> Answered] /\ rebased' = [rebased EXCEPT ![m] = @ + 1]
      BY <1>12, RebaseKeeps
    <3>2. QED
      BY <3>1 DEF TypeOK
  <2>5. \A n \in Missions :
          /\ stage'[n] \in {"truncating", "filling"} =>
               applied'[n] < Len(Ops(n)') /\ buffer'[n] # <<>>
          /\ stage'[n] \in {"planning", "reading"} => rebased'[n] = 0 /\ applied'[n] = 0
    <3>1. rebased' = [rebased EXCEPT ![m] = @ + 1]
      BY <1>12, RebaseKeeps
    <3>2. \A n \in Missions : stage'[n] \in {"truncating", "filling", "planning", "reading"} =>
            n # m /\ stage[n] = stage'[n]
      BY <2>2
    <3>3. QED
      BY <2>1, <2>3, <3>1, <3>2 DEF TypeOK
  <2>6. QED
    BY <2>1, <2>2, <2>3, <2>4, <2>5 DEF TypeOK, tree, service
<1>13. ASSUME NEW m \in Missions, RebaseDone(m) PROVE TypeOK'
  BY <1>3, <1>13 DEF RebaseDone, Settled, Stages
<1>14. ASSUME NEW m \in Missions, ReadOp(m) PROVE TypeOK'
  <2>1. NextOp(m) \in Operations(Paths) /\ NextOp(m).path \in Paths /\ applied[m] < Len(Ops(m))
    BY <1>14, OpsType DEF ReadOp
  <2> DEFINE f == file[NextOp(m).path]
  <2>2. CASE Accepts(f, NextOp(m))
    <3>1. f \in Content
      BY <2>1 DEF TypeOK
    <3>2. Applied(f, NextOp(m)) \in Seq(Text) \ {<<>>}
      BY <1>14, <2>1, <2>2, <3>1, AppliedType DEF ReadOp
    <3>3. /\ buffer' = [buffer EXCEPT ![m] = Applied(f, NextOp(m))]
          /\ Becomes(m, "truncating")
          /\ UNCHANGED <<tree, service, answer, expected, rebased, applied>>
      BY <1>14, <2>2 DEF ReadOp
    <3> HIDE DEF f
    <3>4. QED
      BY <2>1, <3>2, <3>3 DEF TypeOK, tree, service, Becomes, Stages, Ops
  <2>3. CASE ~Accepts(f, NextOp(m))
    BY <1>3, <1>14, <2>3 DEF ReadOp, Settled, Stages, Ended, local
  <2>4. QED
    BY <2>2, <2>3
<1>15. ASSUME NEW m \in Missions, Truncate(m) PROVE TypeOK'
  <2>1. OnDisk(<<>>) \in Content
    <3>1. <<>> \in Seq(Text)
      OBVIOUS
    <3>2. QED
      BY <3>1, OnDiskType DEF Content
  <2>2. QED
    BY <1>15, <2>1 DEF Truncate, TypeOK, service, local, Becomes, Stages, Ops
<1>16. ASSUME NEW m \in Missions, Fill(m) PROVE TypeOK'
  <2>1. NextOp(m).path \in Paths /\ applied[m] < Len(Ops(m)) /\ applied[m] \in Nat
        /\ buffer[m] \in Seq(Text) \ {<<>>}
    BY <1>16, OpsType DEF Fill, TypeOK
  <2>2. buffer[m] \in Content
    BY <2>1 DEF Content
  <2>3. file' \in [Paths -> Content] /\ view' \in [Missions -> [Paths -> Content \cup {Unread}]]
    BY <1>16, <2>1, <2>2 DEF Fill, TypeOK
  <2>4. /\ applied' \in [Missions -> Nat]
        /\ \A n \in Missions : applied'[n] <= Len(Ops(n)')
        /\ \A n \in Missions \ {m} : applied'[n] = applied[n]
    <3>1. applied' = [applied EXCEPT ![m] = @ + 1] /\ UNCHANGED answer
      BY <1>16 DEF Fill
    <3>2. \A n \in Missions : Len(Ops(n)) \in Nat
      BY OpsType
    <3>3. QED
      BY <2>1, <3>1, <3>2 DEF TypeOK, Ops
  <2>5. QED
    BY <1>16, <2>3, <2>4 DEF Fill, TypeOK, service, Becomes, Stages, Ops
<1>17. ASSUME NEW m \in Missions, DeleteFile(m) PROVE TypeOK'
  <2>1. NextOp(m).path \in Paths /\ applied[m] < Len(Ops(m)) /\ applied[m] \in Nat
    BY <1>17, OpsType DEF DeleteFile
  <2>2. CASE Accepts(file[NextOp(m).path], NextOp(m))
    <3>1. file' \in [Paths -> Content] /\ view' \in [Missions -> [Paths -> Content \cup {Unread}]]
      <4>1. NoFile \in Content
        BY DEF Content
      <4>2. /\ file' = [file EXCEPT ![NextOp(m).path] = NoFile]
            /\ view' = [view EXCEPT ![m][NextOp(m).path] = NoFile]
        BY <1>17, <2>2 DEF DeleteFile
      <4>3. QED
        BY <2>1, <4>1, <4>2 DEF TypeOK
    <3>2. applied' = [applied EXCEPT ![m] = @ + 1]
          /\ UNCHANGED <<service, stage, answer, expected, rebased, buffer>>
      BY <1>17, <2>2 DEF DeleteFile
    <3>3. stage[m] = "applying"
      BY <1>17 DEF DeleteFile
    <3>4. /\ applied' \in [Missions -> Nat]
          /\ \A n \in Missions : applied'[n] <= Len(Ops(n)')
          /\ \A n \in Missions \ {m} : applied'[n] = applied[n]
      <4>1. \A n \in Missions : Len(Ops(n)) \in Nat
        BY OpsType
      <4>2. QED
        BY <2>1, <3>2, <4>1 DEF TypeOK, Ops
    <3>5. QED
      BY <3>1, <3>2, <3>3, <3>4 DEF TypeOK, service, Ops
  <2>3. CASE ~Accepts(file[NextOp(m).path], NextOp(m))
    BY <1>3, <1>17, <2>3 DEF DeleteFile, Settled, Stages, Ended, local
  <2>4. QED
    BY <2>2, <2>3
<1>18. ASSUME NEW m \in Missions, ApplyDone(m) PROVE TypeOK'
  BY <1>3, <1>18 DEF ApplyDone, Settled, Stages
<1>19. ASSUME NEW m \in Missions, CountFiles(m) PROVE TypeOK'
  <2>1. PICK s \in {"logging", "error"} : Becomes(m, s)
    BY <1>19 DEF CountFiles
  <2>2. clock' \in [Paths -> Nat]
    <3>1. PICK P : clock' = Raised(P)
      BY <1>19 DEF CountFiles
    <3>2. QED
      BY <3>1 DEF Raised, TypeOK
  <2>3. s \in Settled
    BY DEF Settled, Stages, Ended
  <2>4. QED
    BY <1>2, <1>19, <2>1, <2>2, <2>3 DEF CountFiles, local, TypeOK
<1>20. ASSUME NEW m \in Missions, LogIntegration(m) PROVE TypeOK'
  <2>1. logged' \subseteq Missions /\ "integrated" \in Settled
    BY <1>20 DEF Settled, LogIntegration, TypeOK, Stages, Ended
  <2>2. UNCHANGED <<tree, clock, holder, local>> /\ Becomes(m, "integrated")
    BY <1>20 DEF LogIntegration
  <2>3. QED
    BY <2>1, <2>2, LocalTypes DEF TypeOK, tree, local
<1>21. ASSUME NEW m \in Missions, Die(m) PROVE TypeOK'
  BY <1>3, <1>21 DEF Die, Settled, Stages, Ended
<1>22. QED
  BY <1>1, <1>4, <1>5, <1>6, <1>7, <1>8, <1>9, <1>10, <1>11, <1>12, <1>13, <1>14, <1>15,
     <1>16, <1>17, <1>18, <1>19, <1>20, <1>21 DEF Next, Proceed

\* Every variable of the missions and of their tree keeps its type: files never
\* become something readFileLines cannot return, operations never run out while
\* one is being written.
THEOREM TreeTypeCorrect == Spec => []TypeOK
<1>1. QED
  BY TypeInit, TypeStep, PTL DEF Spec

-----------------------------------------------------------------------------
(* What a step of one mission leaves alone *)

Acts(m) ==
  \/ Plan(m) \/ Answer(m) \/ NoUsableAnswer(m) \/ Proceed(m) \/ Die(m)
  \/ \E p \in Paths : Read(m, p)

LEMMA SomeoneActs == Next => \E m \in Missions : Acts(m)
BY DEF Next, Acts

\* The other missions' own state stays, and nobody loses a lease.
LEMMA Frame ==
  ASSUME TypeOK, NEW m \in Missions, Acts(m)
  PROVE  /\ \A n \in Missions \ {m} :
              /\ stage'[n] = stage[n] /\ answer'[n] = answer[n]
              /\ applied'[n] = applied[n] /\ view'[n] = view[n]
         /\ \A k \in Scopes : holder[k] # NoOne => holder'[k] = holder[k]
<1>1. \A n \in Missions \ {m} : answer'[n] = answer[n]
  <2>1. CASE Answer(m)
    BY <2>1, AnswerType
  <2>2. CASE RebaseFile(m)
    BY <2>2, RebaseKeeps, SMTT(40)
  <2>3. CASE ~Answer(m) /\ ~RebaseFile(m)
    <3>1. UNCHANGED answer
      BY <2>3, SMTT(40) DEF Acts, Proceed, Plan, NoUsableAnswer, Die, Read, Supplement, ReadClocks,
         CheckLeases, CheckClocks, RebaseDone, ReadOp, Truncate, Fill, DeleteFile, ApplyDone,
         CountFiles, LogIntegration, local
    <3>2. QED
      BY <3>1, SMTT(40)
  <2>4. QED
    BY <2>1, <2>2, <2>3
<1>2. UNCHANGED stage \/ \E s : Becomes(m, s)
  BY SMTT(40) DEF Acts, Proceed, Plan, Answer, NoUsableAnswer, Die, Read, Supplement, ReadClocks,
     CheckLeases, CheckClocks, RebaseFile, RebaseDone, ReadOp, Truncate, Fill, DeleteFile,
     ApplyDone, CountFiles, LogIntegration
<1>3. UNCHANGED applied \/ applied' = [applied EXCEPT ![m] = @ + 1]
  BY SMTT(40) DEF Acts, Proceed, Plan, Answer, NoUsableAnswer, Die, Read, Supplement, ReadClocks,
     CheckLeases, CheckClocks, RebaseFile, RebaseDone, ReadOp, Truncate, Fill, DeleteFile,
     ApplyDone, CountFiles, LogIntegration, local
<1>4. UNCHANGED view \/ \E p, c : view' = [view EXCEPT ![m][p] = c]
  BY DEF Acts, Proceed, Plan, Answer, NoUsableAnswer, Die, Read, Supplement, ReadClocks,
     CheckLeases, CheckClocks, RebaseFile, RebaseDone, ReadOp, Truncate, Fill, DeleteFile,
     ApplyDone, CountFiles, LogIntegration, tree
<1>5. UNCHANGED holder \/ \E K : holder' = Granted(m, K)
  BY DEF Acts, Proceed, Plan, Answer, NoUsableAnswer, Die, Read, Supplement, ReadClocks,
     CheckLeases, CheckClocks, RebaseFile, RebaseDone, ReadOp, Truncate, Fill, DeleteFile,
     ApplyDone, CountFiles, LogIntegration, service
<1>6. \A k \in Scopes : holder[k] # NoOne => holder'[k] = holder[k]
  BY <1>5 DEF Granted
<1>7. \A n \in Missions \ {m} : stage'[n] = stage[n]
  BY <1>2 DEF Becomes, TypeOK
<1>8. \A n \in Missions \ {m} : applied'[n] = applied[n]
  BY <1>3 DEF TypeOK
<1>9. \A n \in Missions \ {m} : view'[n] = view[n]
  BY <1>4 DEF TypeOK
<1>10. QED
  BY <1>1, <1>6, <1>7, <1>8, <1>9

\* A mission that validates its leases gets past the check through the check, and every
\* mission keeps its manifest from the angel's answer on.
LEMMA OwnStep ==
  ASSUME TypeOK, NEW m \in Missions, Acts(m)
  PROVE  /\ m \in Phased /\ stage'[m] \in Validated /\ stage[m] \notin Validated =>
              \A k \in ManifestScopes(m) : holder[k] = m
         /\ stage[m] = "reading" => stage'[m] \notin Validated
         /\ stage[m] # "reading" =>
              answer'[m].files = answer[m].files /\ answer'[m].symbols = answer[m].symbols
<1>1. CASE Answer(m)
  BY <1>1 DEF Answer, TypeOK, Becomes, Validated
<1>2. CASE RebaseFile(m)
  <2>1. stage[m] = "rebasing"
    BY <1>2 DEF RebaseFile
  <2>2. QED
    BY <1>2, <2>1, RebaseKeeps DEF Validated
<1>3. CASE CheckLeases(m)
  BY <1>3 DEF CheckLeases, TypeOK, Becomes, Validated, local
<1>4. CASE ReadClocks(m)
  BY <1>4 DEF ReadClocks, TypeOK, Becomes, Validated
<1>5. CASE Plan(m) \/ NoUsableAnswer(m) \/ Die(m) \/ Supplement(m) \/ \E p \in Paths : Read(m, p)
  BY <1>5 DEF Plan, NoUsableAnswer, Die, Supplement, Read, TypeOK, Becomes, Validated, local
<1>6. CASE \/ RebaseDone(m) \/ ReadOp(m) \/ Truncate(m) \/ Fill(m)
           \/ DeleteFile(m) \/ ApplyDone(m) \/ CountFiles(m) \/ LogIntegration(m)
  BY <1>6 DEF RebaseDone, ReadOp, Truncate, Fill, DeleteFile, ApplyDone, CountFiles,
     LogIntegration, Validated, local
<1>7. CASE CheckClocks(m)
  <2>1. UNCHANGED answer /\ stage[m] \in {"held", "unleased"}
    BY <1>7 DEF CheckClocks, local
  <2>2. CASE stage[m] = "unleased"
    <3>1. Becomes(m, "rejected") \/ Becomes(m, "error")
      BY <1>7, <2>2 DEF CheckClocks
    <3>2. QED
      BY <2>1, <2>2, <3>1 DEF Becomes, TypeOK, Validated
  <2>3. CASE stage[m] = "held"
    BY <2>1, <2>3 DEF Validated
  <2>4. QED
    BY <2>1, <2>2, <2>3
<1>8. QED
  BY <1>1, <1>2, <1>3, <1>4, <1>5, <1>6, <1>7 DEF Acts, Proceed

-----------------------------------------------------------------------------
(* The tree's invariant *)

LEMMA TreeInit == Init => TreeInv
<1> SUFFICES ASSUME Init PROVE TreeInv
  OBVIOUS
<1>1. LeasesValidated
  BY DEF Init, LeasesValidated, Validated, MissionAssumption
<1>2. AnsweredFirst
  BY DEF Init, AnsweredFirst, Ops, NoAnswer
<1>3. \A m \in Missions, p \in Paths : ViewCurrent(m, p)
  BY DEF Init, ViewCurrent
<1>4. QED
  BY <1>1, <1>2, <1>3 DEF TreeInv

LEMMA LeasesStep ==
  ASSUME TypeOK, LeasesValidated, NEW m \in Missions, Acts(m)
  PROVE  LeasesValidated'
<1> SUFFICES ASSUME NEW n \in Phased, stage'[n] \in Validated,
                    NEW k \in ManifestScopes(n)'
             PROVE  holder'[k] = n
  BY DEF LeasesValidated
<1>0. n \in Missions
  BY DEF MissionAssumption
<1>1. k \in ManifestScopes(n) /\ holder[k] = n
  <2>1. CASE n = m
    <3>1. stage[m] # "reading"
      BY <2>1, OwnStep
    <3>2. k \in ManifestScopes(m)
      BY <2>1, <3>1, OwnStep DEF ManifestScopes
    <3>3. QED
      BY <2>1, <3>2, OwnStep DEF LeasesValidated
  <2>2. CASE n # m
    <3>1. stage'[n] = stage[n] /\ answer'[n] = answer[n]
      BY <1>0, <2>2, Frame
    <3>2. QED
      BY <3>1 DEF LeasesValidated, ManifestScopes
  <2>3. QED
    BY <2>1, <2>2
<1>2. k \in Scopes
  <2>1. answer[n] \in Answered
    BY <1>0 DEF TypeOK
  <2>2. QED
    BY <1>1, <2>1 DEF ManifestScopes, Answered, MissionAssumption
<1>3. n # NoOne
  BY <1>0 DEF MissionAssumption
<1>4. QED
  BY <1>1, <1>2, <1>3, Frame

\* What a mission has to do stays the same from the angel's answer on, but for anchors.
LEMMA OpsStay ==
  ASSUME TypeOK, NEW m \in Missions, Acts(m), NEW n \in Missions, n # m \/ ~Answer(m)
  PROVE  /\ DOMAIN Ops(n)' = DOMAIN Ops(n) /\ answer'[n].files = answer[n].files
         /\ \A i \in DOMAIN Ops(n) : /\ Ops(n)'[i].path = Ops(n)[i].path
                                    /\ Ops(n)'[i].kind = Ops(n)[i].kind
<1>1. CASE answer'[n] = answer[n]
  BY <1>1 DEF Ops
<1>2. CASE n = m /\ RebaseFile(m)
  <2>1. /\ Len(answer'[m].ops) = Len(answer[m].ops) /\ answer' \in [Missions -> Answered]
        /\ answer'[m].files = answer[m].files
        /\ \A i \in DOMAIN answer[m].ops : /\ answer'[m].ops[i].path = answer[m].ops[i].path
                                          /\ answer'[m].ops[i].kind = answer[m].ops[i].kind
    BY <1>2, RebaseKeeps
  <2>2. DOMAIN answer'[m].ops = DOMAIN answer[m].ops
    BY <2>1 DEF TypeOK, Answered
  <2>3. QED
    BY <1>2, <2>1, <2>2 DEF Ops
<1>3. CASE n = m /\ ~Answer(m) /\ ~RebaseFile(m)
  <2>1. UNCHANGED answer
    BY <1>3, SMTT(40) DEF Acts, Proceed, Plan, NoUsableAnswer, Die, Read, Supplement, ReadClocks,
       CheckLeases, CheckClocks, RebaseDone, ReadOp, Truncate, Fill, DeleteFile, ApplyDone,
       CountFiles, LogIntegration, local
  <2>2. QED
    BY <1>1, <2>1
<1>4. QED
  BY <1>1, <1>2, <1>3, Frame

\* A mission that is answered has no answer yet.
LEMMA AnswerIsFirst ==
  ASSUME AnsweredFirst, NEW m \in Missions, Answer(m)
  PROVE  Ops(m) = <<>>
BY DEF Answer, AnsweredFirst, Ops, NoAnswer

\* A path that is covered was covered before.
LEMMA CoveredBefore ==
  ASSUME TypeOK, AnsweredFirst, NEW m \in Missions, Acts(m), NEW p \in Paths, Covered(p)'
  PROVE  Covered(p)
<1> SUFFICES ASSUME NEW n \in Missions, Edits(n, p) PROVE n \in Phased /\ p \in answer[n].files
  BY DEF Covered
<1>1. CASE n = m /\ Answer(m)
  <2>1. DOMAIN Ops(n) = {}
    BY <1>1, AnswerIsFirst
  <2>2. QED
    BY <2>1 DEF Edits
<1>2. CASE n # m \/ ~Answer(m)
  <2>1. Edits(n, p)' /\ answer'[n].files = answer[n].files
    BY <1>2, OpsStay DEF Edits
  <2>2. QED
    BY <2>1 DEF Covered
<1>3. QED
  BY <1>1, <1>2

\* What was seen is never unseen.
LEMMA SeenStays ==
  ASSUME TypeOK, NEW m \in Missions, Acts(m), NEW n \in Missions, NEW p \in Paths, view[n][p] # Unread
  PROVE  view'[n][p] # Unread
<1>1. Unread \notin Content
  <2>1. <<>> \in Seq(Text) /\ NoFile \notin Seq(Text)
    OBVIOUS
  <2>2. QED
    BY <2>1 DEF Unread, Content
<1>2. CASE UNCHANGED view
  BY <1>2
<1>3. CASE \E q \in Paths : Read(m, q)
  BY <1>1, <1>3 DEF Read, TypeOK
<1>4. CASE Fill(m)
  <2>1. buffer[m] # <<>> /\ view' = [view EXCEPT ![m][NextOp(m).path] = buffer[m]]
    BY <1>4 DEF Fill, TypeOK
  <2>2. QED
    BY <2>1 DEF TypeOK, Unread
<1>5. CASE DeleteFile(m)
  <2>1. UNCHANGED view \/ view' = [view EXCEPT ![m][NextOp(m).path] = NoFile]
    BY <1>5 DEF DeleteFile, tree
  <2>2. NoFile # Unread
    BY <1>1 DEF Content
  <2>3. CASE view' = [view EXCEPT ![m][NextOp(m).path] = NoFile]
    <3> DEFINE q == NextOp(m).path
    <3>1. view'[n][p] \in {view[n][p], NoFile}
      <4> HIDE DEF q
      <4>1. QED
        BY <2>3 DEF TypeOK
    <3>2. QED
      BY <2>2, <3>1
  <2>4. QED
    BY <2>1, <2>3
<1>6. QED
  BY <1>2, <1>3, <1>4, <1>5, SMTT(40) DEF Acts, Proceed, Plan, Answer, NoUsableAnswer, Die, Supplement,
     ReadClocks, CheckLeases, CheckClocks, RebaseFile, RebaseDone, ReadOp, Truncate, ApplyDone,
     CountFiles, LogIntegration, tree

LEMMA AnsweredStep ==
  ASSUME TypeOK, AnsweredFirst, NEW m \in Missions, Acts(m)
  PROVE  AnsweredFirst'
<1>1. ASSUME NEW n \in Missions, stage'[n] \in {"planning", "reading"} PROVE answer'[n] = NoAnswer
  <2>1. CASE n # m
    BY <1>1, <2>1, Frame DEF AnsweredFirst
  <2>2. CASE n = m
    <3>1. stage[m] \in {"planning", "reading"} /\ UNCHANGED answer
      <4>1. CASE RebaseFile(m)
        BY <1>1, <2>2, <4>1, RebaseKeeps DEF RebaseFile, Becomes, TypeOK
      <4>2. CASE ~RebaseFile(m)
        BY <1>1, <2>2, <4>2, SMTT(60) DEF Acts, Proceed, Plan, Answer, NoUsableAnswer, Die, Read, Supplement,
           ReadClocks, CheckLeases, CheckClocks, RebaseDone, ReadOp, Truncate, Fill,
           DeleteFile, ApplyDone, CountFiles, LogIntegration, local, Becomes, TypeOK, Ended
      <4>3. QED BY <4>1, <4>2
    <3>2. QED
      BY <2>2, <3>1 DEF AnsweredFirst
  <2>3. QED
    BY <2>1, <2>2
<1>2. ASSUME NEW n \in Missions, NEW i \in DOMAIN Ops(n)', Ops(n)'[i].kind \in Anchored
      PROVE  view'[n][Ops(n)'[i].path] # Unread
  <2>1. CASE n = m /\ Answer(m)
    <3>1. PICK a \in Answers :
            /\ \A j \in DOMAIN a.ops : a.ops[j].kind \in Anchored =>
                 view[m][a.ops[j].path] \notin {Unread, NoFile}
            /\ answer' = [answer EXCEPT ![m] =
                 [a EXCEPT !.ops = [j \in DOMAIN a.ops |-> Written(m, a.ops[j])]]]
      BY <2>1 DEF Answer
    <3>2. a \in Answered
      BY DEF MissionAssumption
    <3>3. answer'[m].ops = [j \in DOMAIN a.ops |-> Written(m, a.ops[j])]
      BY <3>1, <3>2 DEF TypeOK, Answered
    <3>4. i \in DOMAIN a.ops /\ Ops(n)'[i] = Written(m, a.ops[i])
      BY <2>1, <3>3 DEF Ops
    <3>5. a.ops[i] \in Operations(Paths)
      BY <3>2, <3>4, ElementOfSeq DEF Answered
    <3>6. Ops(n)'[i].kind = a.ops[i].kind /\ Ops(n)'[i].path = a.ops[i].path
      BY <3>4, <3>5 DEF Written, Operations
    <3>7. UNCHANGED view
      BY <2>1 DEF Answer, tree
    <3>8. QED
      BY <1>2, <2>1, <3>1, <3>4, <3>6, <3>7
  <2>2. CASE n # m \/ ~Answer(m)
    <3>1. i \in DOMAIN Ops(n) /\ Ops(n)'[i].path = Ops(n)[i].path /\ Ops(n)[i].kind \in Anchored
      BY <1>2, <2>2, OpsStay
    <3>2. view[n][Ops(n)[i].path] # Unread
      BY <3>1 DEF AnsweredFirst
    <3>3. Ops(n)[i].path \in Paths
      <4>1. Ops(n) \in Seq(Operations(Paths))
        BY OpsType
      <4>2. Ops(n)[i] \in Operations(Paths)
        BY <3>1, <4>1, ElementOfSeq
      <4>3. QED
        BY <4>2 DEF Operations
    <3>4. QED
      BY <3>1, <3>2, <3>3, SeenStays
  <2>3. QED
    BY <2>1, <2>2
<1>3. QED
  BY <1>1, <1>2 DEF AnsweredFirst

\* Whoever is about to apply an operation on a file of its manifest leases the file,
\* if it validates its leases; on a covered path it does.
LEMMA WriterHolds ==
  ASSUME TypeOK, LeasesValidated, NEW m \in Missions,
         stage[m] \in Validated, applied[m] < Len(Ops(m))
  PROVE  /\ NextOp(m).path \in Paths
         /\ Edits(m, NextOp(m).path)
         /\ m \in Phased /\ NextOp(m).path \in answer[m].files =>
              holder[FileScope[NextOp(m).path]] = m
         /\ Covered(NextOp(m).path) => holder[FileScope[NextOp(m).path]] = m
<1>1. applied[m] \in Nat /\ Len(Ops(m)) \in Nat /\ NextOp(m).path \in Paths
      /\ Ops(m) \in Seq(Operations(Paths))
  BY OpsType
<1>2. applied[m] + 1 \in DOMAIN Ops(m)
  BY <1>1
<1>3. Edits(m, NextOp(m).path)
  BY <1>2 DEF Edits, NextOp
<1>4. m \in Phased /\ NextOp(m).path \in answer[m].files => holder[FileScope[NextOp(m).path]] = m
  BY <1>1 DEF LeasesValidated, ManifestScopes
<1>5. QED
  BY <1>1, <1>3, <1>4 DEF Covered

\* A step that leaves the tree alone changes nobody's view of it.
LEMMA ViewsKept ==
  ASSUME TypeOK, NEW m \in Missions, Acts(m), UNCHANGED tree,
         stage[m] = "dead" => UNCHANGED stage,
         stage[m] = "filling" => stage'[m] = "dead",
         NEW n \in Missions, NEW p \in Paths, ViewCurrent(n, p)
  PROVE  ViewCurrent(n, p)'
<1>1. FileScope[p] \in Scopes /\ n # NoOne
  BY DEF MissionAssumption
<1>2. CASE view[n][p] \in {Unread, file[p]}
  BY <1>2 DEF ViewCurrent, tree
<1>3. CASE holder[FileScope[p]] \notin {n, NoOne}
  BY <1>1, <1>3, Frame DEF ViewCurrent
<1>4. CASE /\ holder[FileScope[p]] = n
           /\ stage[n] = "dead" \/ (stage[n] = "filling" /\ NextOp(n).path = p)
  <2>1. holder'[FileScope[p]] = n
    BY <1>1, <1>4, Frame
  <2>2. CASE n = m
    <3>1. stage'[n] = "dead"
      BY <1>4, <2>2
    <3>2. QED
      BY <2>1, <3>1 DEF ViewCurrent
  <2>3. CASE n # m
    <3>1. stage'[n] = stage[n] /\ NextOp(n)' = NextOp(n)
      BY <2>3, Frame DEF NextOp, Ops
    <3>2. QED
      BY <1>4, <2>1, <3>1 DEF ViewCurrent
  <2>4. QED
    BY <2>2, <2>3
<1>5. QED
  BY <1>2, <1>3, <1>4 DEF ViewCurrent

\* A step of the lease holder of a file that changes only this file and the
\* holder's view of it leaves the views of the others current.
LEMMA ViewsOfOthers ==
  ASSUME TypeOK, NEW m \in Missions, Acts(m), NEW q \in Paths, NEW p \in Paths,
         p = q => holder[FileScope[q]] = m,
         stage[m] \in {"truncating", "filling", "applying"},
         stage[m] = "filling" => NextOp(m).path = q,
         NEW n \in Missions, n # m \/ p # q,
         file'[p] = file[p] \/ p = q, view'[n][p] = view[n][p], ViewCurrent(n, p)
  PROVE  ViewCurrent(n, p)'
<1>1. FileScope[p] \in Scopes /\ FileScope[q] \in Scopes /\ n # NoOne /\ m # NoOne
  BY DEF MissionAssumption
<1>2. CASE p = q
  <2>1. holder'[FileScope[p]] = m /\ n # m
    BY <1>1, <1>2, Frame
  <2>2. QED
    BY <1>1, <2>1 DEF ViewCurrent
<1>3. CASE p # q
  <2>1. CASE view[n][p] \in {Unread, file[p]}
    BY <1>3, <2>1 DEF ViewCurrent
  <2>2. CASE holder[FileScope[p]] \notin {n, NoOne}
    BY <1>1, <2>2, Frame DEF ViewCurrent
  <2>3. CASE /\ holder[FileScope[p]] = n
             /\ stage[n] = "dead" \/ (stage[n] = "filling" /\ NextOp(n).path = p)
    <3>1. n # m
      BY <1>3, <2>3
    <3>2. stage'[n] = stage[n] /\ NextOp(n)' = NextOp(n) /\ holder'[FileScope[p]] = n
      BY <1>1, <2>3, <3>1, Frame DEF NextOp, Ops
    <3>3. QED
      BY <2>3, <3>2 DEF ViewCurrent
  <2>4. QED
    BY <2>1, <2>2, <2>3 DEF ViewCurrent
<1>4. QED
  BY <1>2, <1>3

LEMMA ViewsStep ==
  ASSUME TypeOK, TreeInv, NEW m \in Missions, Acts(m),
         NEW n \in Missions, NEW p \in Paths, Covered(p)
  PROVE  ViewCurrent(n, p)'
<1>0. ViewCurrent(n, p) /\ LeasesValidated
  BY DEF TreeInv
<1>1. CASE \/ Plan(m) \/ Answer(m) \/ NoUsableAnswer(m) \/ Die(m) \/ Supplement(m)
           \/ ReadClocks(m) \/ CheckLeases(m) \/ CheckClocks(m) \/ RebaseDone(m)
           \/ ReadOp(m) \/ ApplyDone(m) \/ CountFiles(m) \/ LogIntegration(m)
  <2>1. UNCHANGED tree
    BY <1>1 DEF Plan, Answer, NoUsableAnswer, Die, Supplement, ReadClocks, CheckLeases,
       CheckClocks, RebaseDone, ReadOp, ApplyDone, CountFiles, LogIntegration
  <2>2. stage[m] # "dead" /\ (stage[m] = "filling" => stage'[m] = "dead")
    BY <1>1 DEF Plan, Answer, NoUsableAnswer, Die, Supplement, ReadClocks, CheckLeases,
       CheckClocks, RebaseDone, ReadOp, ApplyDone, CountFiles, LogIntegration, Ended,
       Becomes, TypeOK
  <2>3. QED
    BY <1>0, <2>1, <2>2, ViewsKept
<1>2. CASE RebaseFile(m)
  <2>1. UNCHANGED tree /\ stage[m] = "rebasing"
    BY <1>2 DEF RebaseFile
  <2>2. QED
    BY <1>0, <2>1, ViewsKept
<1>3. ASSUME NEW q \in Paths, Read(m, q) PROVE ViewCurrent(n, p)'
  <2>1. view' = [view EXCEPT ![m][q] = file[q]] /\ UNCHANGED <<file, holder, stage>>
        /\ UNCHANGED <<answer, applied>>
    BY <1>3 DEF Read, service, local
  <2>2. CASE n = m /\ p = q
    BY <2>1, <2>2 DEF ViewCurrent, TypeOK
  <2>3. CASE n # m \/ p # q
    <3>1. view'[n][p] = view[n][p]
      BY <2>1, <2>3 DEF TypeOK
    <3>2. QED
      BY <1>0, <2>1, <3>1 DEF ViewCurrent, NextOp, Ops
  <2>4. QED
    BY <2>2, <2>3
<1> DEFINE q == NextOp(m).path
<1>4. CASE Truncate(m)
  <2>1. stage[m] = "truncating" /\ UNCHANGED view /\ file' = [file EXCEPT ![q] = OnDisk(<<>>)]
        /\ stage'[m] = "filling" /\ UNCHANGED <<answer, applied>>
    BY <1>4 DEF Truncate, Becomes, TypeOK, local
  <2>2. q \in Paths /\ (p = q => holder[FileScope[q]] = m)
    BY <1>0, <2>1, WriterHolds DEF Validated, TypeOK
  <2>3. CASE n # m \/ p # q
    BY <1>0, <2>1, <2>2, <2>3, ViewsOfOthers, SMTT(40) DEF TypeOK
  <2>4. CASE n = m /\ p = q
    <3>1. holder'[FileScope[q]] = m /\ NextOp(m)' = NextOp(m)
      BY <2>1, <2>2, <2>4, Frame DEF MissionAssumption, NextOp, Ops
    <3>2. QED
      BY <2>1, <2>4, <3>1 DEF ViewCurrent
  <2>5. QED
    BY <2>3, <2>4
<1>5. CASE Fill(m)
  <2>1. stage[m] = "filling" /\ file' = [file EXCEPT ![q] = buffer[m]]
        /\ view' = [view EXCEPT ![m][q] = buffer[m]]
    BY <1>5 DEF Fill
  <2>2. q \in Paths /\ (p = q => holder[FileScope[q]] = m)
    BY <1>0, <2>1, WriterHolds DEF Validated, TypeOK
  <2>3. CASE n # m \/ p # q
    <3>1. view'[n][p] = view[n][p] /\ (file'[p] = file[p] \/ p = q)
      BY <2>1, <2>2, <2>3 DEF TypeOK
    <3>2. QED
      BY <1>0, <2>1, <2>2, <2>3, <3>1, ViewsOfOthers
  <2>4. CASE n = m /\ p = q
    BY <2>1, <2>2, <2>4 DEF ViewCurrent, TypeOK
  <2>5. QED
    BY <2>3, <2>4
<1>6. CASE DeleteFile(m)
  <2>1. stage[m] = "applying" /\ applied[m] < Len(Ops(m))
    BY <1>6 DEF DeleteFile
  <2>2. q \in Paths /\ (p = q => holder[FileScope[q]] = m)
    BY <1>0, <2>1, WriterHolds DEF Validated
  <2>3. CASE UNCHANGED tree
    BY <1>0, <2>1, <2>3, ViewsKept
  <2>4. CASE file' = [file EXCEPT ![q] = NoFile] /\ view' = [view EXCEPT ![m][q] = NoFile]
    <3>1. CASE n # m \/ p # q
      <4>1. view'[n][p] = view[n][p] /\ (file'[p] = file[p] \/ p = q)
        BY <2>2, <2>4, <3>1 DEF TypeOK
      <4>2. QED
        BY <1>0, <2>1, <2>2, <3>1, <4>1, ViewsOfOthers
    <3>2. CASE n = m /\ p = q
      BY <2>2, <2>4, <3>2 DEF ViewCurrent, TypeOK
    <3>3. QED
      BY <3>1, <3>2
  <2>5. QED
    BY <1>6, <2>3, <2>4 DEF DeleteFile
<1>7. QED
  BY <1>1, <1>2, <1>3, <1>4, <1>5, <1>6 DEF Acts, Proceed

LEMMA TreeStep == TypeOK /\ TreeInv /\ [Next]_vars => TreeInv'
<1> SUFFICES ASSUME TypeOK, TreeInv, [Next]_vars PROVE TreeInv'
  OBVIOUS
<1>1. CASE UNCHANGED vars
  BY <1>1 DEF TreeInv, LeasesValidated, AnsweredFirst, ViewCurrent, Covered, Edits, ManifestScopes,
     NextOp, Ops, vars, tree, service, local
<1>2. ASSUME NEW m \in Missions, Acts(m) PROVE TreeInv'
  <2>1. LeasesValidated'
    BY <1>2, LeasesStep DEF TreeInv
  <2>2. AnsweredFirst'
    BY <1>2, AnsweredStep DEF TreeInv
  <2>3. ASSUME NEW p \in Paths, Covered(p)', NEW n \in Missions PROVE ViewCurrent(n, p)'
    <3>1. Covered(p)
      BY <1>2, <2>3, CoveredBefore DEF TreeInv
    <3>2. QED
      BY <1>2, <3>1, ViewsStep
  <2>4. QED
    BY <2>1, <2>2, <2>3 DEF TreeInv
<1>3. QED
  BY <1>1, <1>2, SomeoneActs

\* Leases, manifests and views of the tree stay consistent on every path that is edited
\* only under validated leases (integrator.go:78-117), whatever happens to other paths.
THEOREM TreeConsistent == Spec => []TreeInv
<1>1. Init => TypeOK /\ TreeInv
  BY TypeInit, TreeInit
<1>2. TypeOK /\ TreeInv /\ [Next]_vars => (TypeOK /\ TreeInv)'
  BY TypeStep, TreeStep
<1>3. QED
  BY <1>1, <1>2, PTL DEF Spec

\* Whoever validates its leases and is writing a file of its manifest holds its lease,
\* whatever the other missions validate and their manifests say.
THEOREM LeasesCoverWrites == Spec => []LeaseCoversWrites
<1>1. TypeOK /\ TreeInv => LeaseCoversWrites
  <2> SUFFICES ASSUME TypeOK, TreeInv, NEW m \in Phased, Writing(m), NextOp(m).path \in answer[m].files
               PROVE  holder[FileScope[NextOp(m).path]] = m
    BY DEF LeaseCoversWrites
  <2>1. m \in Missions
    BY DEF MissionAssumption
  <2>2. stage[m] \in Validated /\ applied[m] < Len(Ops(m))
    BY <2>1 DEF Writing, Validated, TypeOK
  <2>3. QED
    BY <2>1, <2>2, WriterHolds DEF TreeInv
<1>2. QED
  BY <1>1, TreeTypeCorrect, TreeConsistent, PTL

\* What a mission that applies an operation on a covered path has seen of it is on disk.
LEMMA WriterIsCurrent ==
  ASSUME TypeOK, TreeInv, NEW m \in Missions, Covered(NextOp(m).path),
         stage[m] \in {"applying", "truncating"}, applied[m] < Len(Ops(m))
  PROVE  \/ view[m][NextOp(m).path] = file[NextOp(m).path]
         \/ view[m][NextOp(m).path] = Unread /\ NextOp(m).kind \in FileKinds
<1>1. NextOp(m).path \in Paths /\ holder[FileScope[NextOp(m).path]] = m
  BY WriterHolds DEF TreeInv, Validated
<1>2. m # NoOne
  BY DEF MissionAssumption
<1>3. view[m][NextOp(m).path] \in {Unread, file[NextOp(m).path]}
  BY <1>1, <1>2 DEF TreeInv, ViewCurrent
<1>4. applied[m] + 1 \in DOMAIN Ops(m) /\ Ops(m)[applied[m] + 1] \in Operations(Paths)
  <2>1. applied[m] \in Nat /\ Len(Ops(m)) \in Nat /\ Ops(m) \in Seq(Operations(Paths))
    BY OpsType
  <2>2. applied[m] + 1 \in DOMAIN Ops(m)
    BY <2>1
  <2>3. QED
    BY <2>1, <2>2, ElementOfSeq
<1>5. NextOp(m).kind \in Anchored => view[m][NextOp(m).path] # Unread
  BY <1>4 DEF TreeInv, AnsweredFirst, NextOp
<1>6. NextOp(m).kind \in Anchored \cup FileKinds
  BY <1>4 DEF NextOp, Operations
<1>7. QED
  BY <1>3, <1>5, <1>6

\* On a path that is edited only under validated leases no update is lost, however the
\* missions' steps interleave, whichever calls fail and whoever dies.
THEOREM NoLostUpdate == Spec => WritesWhatItSaw
<1>1. ASSUME TypeOK, TreeInv, [Next]_vars, NEW m \in Missions, NEW p \in Paths,
             Overwrites(m, p), Covered(p)
      PROVE  view[m][p] = file[p] \/ (view[m][p] = Unread /\ NextOp(m).kind \in FileKinds)
  <2>1. CASE stage[m] = "truncating" /\ NextOp(m).path = p
    <3>1. applied[m] < Len(Ops(m)) /\ Covered(NextOp(m).path)
      BY <1>1, <2>1 DEF TypeOK
    <3>2. QED
      BY <1>1, <2>1, <3>1, WriterIsCurrent
  <2>2. CASE stage[m] = "applying" /\ applied'[m] # applied[m] /\ NextOp(m).path = p
    <3>1. PICK n \in Missions : Acts(n)
      BY <1>1, <2>2, SomeoneActs DEF vars, local
    <3>2. n = m
      BY <1>1, <2>2, <3>1, Frame, SMTT(40)
    <3>3. DeleteFile(m)
      BY <2>2, <3>1, <3>2 DEF Acts, Proceed, Plan, Answer, NoUsableAnswer, Die, Read,
         Supplement, ReadClocks, CheckLeases, CheckClocks, RebaseFile, RebaseDone, ReadOp,
         Truncate, Fill, ApplyDone, CountFiles, LogIntegration, local
    <3>4. applied[m] < Len(Ops(m))
      BY <3>3 DEF DeleteFile
    <3>5. QED
      BY <1>1, <2>2, <3>4, WriterIsCurrent
  <2>3. QED
    BY <1>1, <2>1, <2>2 DEF Overwrites
<1>2. TypeOK /\ TreeInv /\ [Next]_vars =>
        [\A m \in Missions, p \in Paths :
           Overwrites(m, p) /\ Covered(p) =>
             view[m][p] = file[p] \/ (view[m][p] = Unread /\ NextOp(m).kind \in FileKinds)]_vars
  BY <1>1
<1>3. QED
  BY <1>2, TreeTypeCorrect, TreeConsistent, PTL DEF Spec, WritesWhatItSaw
-----------------------------------------------------------------------------
(* What the event of an integration says *)

\* Clocks never fall, a mission learns its expectations when it reads the
\* clocks, and only the logging step logs.
LEMMA ServiceStep ==
  ASSUME TypeOK, NEW m \in Missions, Acts(m)
  PROVE  /\ \A p \in Paths : clock[p] <= clock'[p]
         /\ expected' = expected \/ (ReadClocks(m) /\ UNCHANGED clock)
         /\ logged' = logged \/ (LogIntegration(m) /\ logged' = logged \cup {m})
<1>1. UNCHANGED clock \/ \E P : clock' = Raised(P)
  BY SMTT(40) DEF Acts, Proceed, Plan, Answer, NoUsableAnswer, Die, Read, Supplement, ReadClocks,
     CheckLeases, CheckClocks, RebaseFile, RebaseDone, ReadOp, Truncate, Fill, DeleteFile,
     ApplyDone, CountFiles, LogIntegration, service
<1>2. \A p \in Paths : clock[p] \in Nat
  BY SMTT(40) DEF TypeOK
<1>3. \A p \in Paths : clock[p] <= clock'[p]
  BY <1>1, <1>2, SMTT(40) DEF Raised
<1>4. expected' = expected \/ (ReadClocks(m) /\ UNCHANGED clock)
  BY SMTT(40) DEF Acts, Proceed, Plan, Answer, NoUsableAnswer, Die, Read, Supplement, ReadClocks,
     CheckLeases, CheckClocks, RebaseFile, RebaseDone, ReadOp, Truncate, Fill, DeleteFile,
     ApplyDone, CountFiles, LogIntegration, local, service
<1>5. logged' = logged \/ (LogIntegration(m) /\ logged' = logged \cup {m})
  BY DEF Acts, Proceed, Plan, Answer, NoUsableAnswer, Die, Read, Supplement, ReadClocks,
     CheckLeases, CheckClocks, RebaseFile, RebaseDone, ReadOp, Truncate, Fill, DeleteFile,
     ApplyDone, CountFiles, LogIntegration, service
<1>6. QED
  BY <1>3, <1>4, <1>5, SMTT(40)

\* Nobody expects a clock that is ahead of Heaven's.
LEMMA ExpectStep ==
  ASSUME TypeOK, DoneInv, NEW m \in Missions, Acts(m), NEW n \in Missions, NEW p \in Paths
  PROVE  expected'[n][p] <= clock'[p]
<1>1. /\ expected[n][p] <= clock[p] /\ clock[p] <= clock'[p] /\ clock[p] \in Nat
      /\ expected[n][p] \in Nat \cup {Unknown}
  BY ServiceStep, SMTT(40) DEF DoneInv, TypeOK
<1>2. clock'[p] \in Nat
  <2>1. TypeOK'
    BY TypeStep DEF Next, Acts
  <2>2. QED
    BY <2>1 DEF TypeOK
<1>3. CASE expected' = expected
  BY <1>1, <1>2, <1>3 DEF Unknown
<1>4. CASE ReadClocks(m) /\ UNCHANGED clock
  <2> DEFINE now == [q \in Paths |-> IF q \in answer[m].files THEN clock[q] ELSE Unknown]
  <2>1. expected'[n][p] \in {expected[n][p], clock[p], Unknown}
    <3>1. now[p] \in {clock[p], Unknown}
      OBVIOUS
    <3>2. expected' = [expected EXCEPT ![m] = now] \/ UNCHANGED expected
      BY <1>4 DEF ReadClocks
    <3> HIDE DEF now
    <3>3. QED
      BY <3>1, <3>2 DEF TypeOK
  <2>2. QED
    BY <1>1, <1>4, <2>1 DEF Unknown
<1>5. QED
  BY <1>3, <1>4, ServiceStep

Done(m) ==
  /\ stage[m] \in {"counting", "logging", "integrated"} => applied[m] = Len(Ops(m))
  /\ stage[m] \in {"logging", "integrated"} =>
       \A p \in answer[m].files : clock[p] > Greatest(expected[m][p], 0)
  /\ m \in logged => stage[m] = "integrated"

LEMMA DoneOthers ==
  ASSUME TypeOK, NEW m \in Missions, Acts(m), NEW n \in Missions \ {m}, Done(n)
  PROVE  Done(n)'
<1>1. /\ stage'[n] = stage[n] /\ answer'[n] = answer[n] /\ applied'[n] = applied[n]
      /\ n \in logged' => n \in logged
  BY Frame, ServiceStep
<1>2. expected'[n] = expected[n]
  <2>1. CASE ReadClocks(m)
    BY <2>1 DEF ReadClocks, TypeOK
  <2>2. QED
    BY <2>1, ServiceStep
<1>3. ASSUME NEW p \in answer[n].files, clock[p] > Greatest(expected[n][p], 0)
      PROVE  clock'[p] > Greatest(expected[n][p], 0)
  <2>1. p \in Paths
    BY DEF TypeOK, Answered
  <2>2. /\ clock[p] \in Nat /\ clock[p] <= clock'[p]
        /\ expected[n][p] \in Nat \cup {Unknown}
    BY <2>1, ServiceStep DEF TypeOK
  <2>3. clock'[p] \in Nat
    <3>1. TypeOK'
      BY TypeStep DEF Next, Acts
    <3>2. QED
      BY <2>1, <3>1 DEF TypeOK
  <2>4. QED
    BY <1>3, <2>2, <2>3 DEF Greatest, Unknown
<1>4. QED
  BY <1>1, <1>2, <1>3 DEF Done, Ops

LEMMA DoneOwn ==
  ASSUME TypeOK, DoneInv, NEW m \in Missions, Acts(m)
  PROVE  Done(m)'
<1>0. Done(m)
  BY DEF DoneInv, Done
<1>1. CASE ApplyDone(m)
  <2>1. /\ stage'[m] = "counting" /\ stage[m] = "applying" /\ applied[m] = Len(Ops(m))
        /\ UNCHANGED <<logged, answer, applied>>
    BY <1>1 DEF ApplyDone, TypeOK, Becomes, service, local
  <2>2. QED
    BY <1>0, <2>1 DEF Done, Ops
<1>2. CASE CountFiles(m)
  <2>1. /\ stage[m] = "counting" /\ UNCHANGED <<logged, answer, applied, expected>>
        /\ applied[m] = Len(Ops(m)) /\ m \notin logged
    BY <1>0, <1>2 DEF CountFiles, Done, local
  <2>2. CASE stage'[m] = "error"
    BY <2>1, <2>2 DEF Done
  <2>3. CASE stage'[m] = "logging" /\ clock' = Raised(answer[m].files)
    <3>1. ASSUME NEW p \in answer[m].files PROVE clock'[p] > Greatest(expected[m][p], 0)
      <4>1. p \in Paths
        BY DEF TypeOK, Answered
      <4>2. /\ clock[p] \in Nat /\ expected[m][p] \in Nat \cup {Unknown}
            /\ expected[m][p] <= clock[p]
        BY <4>1 DEF TypeOK, DoneInv
      <4>3. clock'[p] = clock[p] + 1
        BY <2>3, <4>1 DEF Raised
      <4>4. QED
        BY <4>2, <4>3 DEF Greatest, Unknown
    <3>2. QED
      BY <2>1, <2>3, <3>1 DEF Done, Ops
  <2>4. QED
    BY <1>2, <2>2, <2>3 DEF CountFiles, TypeOK, Becomes
<1>3. CASE LogIntegration(m)
  <2>1. /\ stage[m] = "logging" /\ stage'[m] = "integrated"
        /\ UNCHANGED <<clock, answer, applied, expected>>
    BY <1>3, SMTT(40) DEF LogIntegration, TypeOK, Becomes, local
  <2>2. QED
    BY <1>0, <2>1, SMTT(40) DEF Done, Ops
<1>4. CASE ~ApplyDone(m) /\ ~CountFiles(m) /\ ~LogIntegration(m)
  <2>1. stage[m] \notin {"counting", "logging", "integrated"} \/ Die(m)
    BY <1>4 DEF Acts, Proceed, Plan, Answer, NoUsableAnswer, Read, Supplement, ReadClocks,
       CheckLeases, CheckClocks, RebaseFile, RebaseDone, ReadOp, Truncate, Fill, DeleteFile
  <2>2. stage[m] # "integrated"
    BY <2>1 DEF Die, Ended
  <2>3. logged' = logged /\ m \notin logged
    BY <1>0, <1>4, <2>2, ServiceStep DEF Done
  <2>4. stage'[m] \notin {"counting", "logging", "integrated"}
    <3>1. CASE Die(m)
      BY <3>1 DEF Die, TypeOK, Becomes
    <3>2. CASE RebaseFile(m)
      BY <3>2, RebaseKeeps DEF RebaseFile, TypeOK, Becomes
    <3>3. CASE ~Die(m) /\ ~RebaseFile(m)
      BY <1>4, <2>1, <3>3 DEF Acts, Proceed, Plan, Answer, NoUsableAnswer, Read, Supplement,
         ReadClocks, CheckLeases, CheckClocks, RebaseDone, ReadOp, Truncate, Fill, DeleteFile,
         TypeOK, Becomes
    <3>4. QED
      BY <3>1, <3>2, <3>3
  <2>5. QED
    BY <2>3, <2>4, SMTT(40) DEF Done
<1>5. QED
  BY <1>1, <1>2, <1>3, <1>4

\* An integration_complete event tells the truth whoever else integrates, with or
\* without the lease check, whatever calls fail: every operation was applied, and
\* every file of the manifest has a clock above the one the mission expected.
THEOREM EventsTellTheTruth == Spec => []LoggedMeansDone
<1>1. Init => DoneInv
  <2> SUFFICES ASSUME Init PROVE DoneInv
    OBVIOUS
  <2>1. \A m \in Missions, p \in Paths : expected[m][p] <= clock[p]
    BY DEF Init, NoClocks, Unknown
  <2>2. QED
    BY <2>1 DEF Init, DoneInv
<1>2. TypeOK /\ DoneInv /\ [Next]_vars => DoneInv'
  <2> SUFFICES ASSUME TypeOK, DoneInv, [Next]_vars PROVE DoneInv'
    OBVIOUS
  <2>1. CASE UNCHANGED vars
    BY <2>1 DEF DoneInv, Ops, vars, service, local
  <2>2. ASSUME NEW m \in Missions, Acts(m) PROVE DoneInv'
    <3>1. \A n \in Missions : Done(n)
      BY DEF DoneInv, Done
    <3>2. \A n \in Missions : Done(n)'
      BY <2>2, <3>1, DoneOwn, DoneOthers
    <3>3. \A n \in Missions, p \in Paths : expected'[n][p] <= clock'[p]
      BY <2>2, ExpectStep
    <3>4. QED
      BY <3>2, <3>3 DEF DoneInv, Done
  <2>3. QED
    BY <2>1, <2>2, SomeoneActs
<1>3. TypeOK /\ DoneInv => LoggedMeansDone
  BY DEF TypeOK, DoneInv, LoggedMeansDone
<1>4. QED
  BY <1>1, <1>2, <1>3, TreeTypeCorrect, PTL DEF Spec
-----------------------------------------------------------------------------
(* How a mission comes nearer its end *)

LEMMA StepsLeftType ==
  ASSUME TypeOK, NEW m \in Missions, HasAnswer(m)
  PROVE  /\ StepsLeft(m) \in 0 .. 8 + 4 * Len(Ops(m))
         /\ stage[m] \notin Ended =>
              /\ StagesLeft[stage[m]] \in Nat \ {0}
              /\ StepsLeft(m) # 0
<1>1. CASE stage[m] \in Ended
  BY <1>1, OpsType DEF StepsLeft
<1>2. CASE stage[m] \notin Ended
  <2>1. stage[m] \in Stages /\ stage[m] \notin {"planning", "reading"}
    BY DEF TypeOK, HasAnswer
  <2>2. StagesLeft[stage[m]] \in 1 .. 8
    BY <1>2, <2>1 DEF Stages, StagesLeft
  <2> DEFINE n == Len(Ops(m))
             r == n - rebased[m]
             a == n - applied[m]
             s == StagesLeft[stage[m]]
  <2>3. n \in Nat /\ r \in 0 .. n /\ a \in 0 .. n
    BY OpsType DEF TypeOK
  <2>4. s \in 1 .. 8 /\ StepsLeft(m) = s + r + 3 * a
    BY <1>2, <2>2 DEF StepsLeft
  <2> HIDE DEF n, r, a, s
  <2>5. StepsLeft(m) \in 0 .. 8 + 4 * n /\ StepsLeft(m) # 0
    BY <2>3, <2>4
  <2>6. QED
    BY <2>2, <2>5 DEF n
<1>3. QED
  BY <1>1, <1>2

LEMMA RebasedOfOthers ==
  ASSUME TypeOK, NEW m \in Missions, NEW n \in Missions \ {m}, Acts(n)
  PROVE  rebased'[m] = rebased[m]
<1>1. UNCHANGED rebased \/ rebased' = [rebased EXCEPT ![n] = @ + 1]
  BY SMTT(40) DEF Acts, Proceed, Plan, Answer, NoUsableAnswer, Die, Read, Supplement, ReadClocks,
     CheckLeases, CheckClocks, RebaseFile, RebaseDone, ReadOp, Truncate, Fill, DeleteFile,
     ApplyDone, CountFiles, LogIntegration, local
<1>2. QED
  BY <1>1 DEF TypeOK

\* A step that goes from one stage to a later one, and counts what it goes through.
LEMMA StepsFall ==
  ASSUME TypeOK, NEW m \in Missions, HasAnswer(m), stage[m] \notin Ended,
         Len(Ops(m))' = Len(Ops(m)), NEW r \in {0, 1}, NEW a \in {0, 1},
         rebased'[m] = rebased[m] + r, applied'[m] = applied[m] + a,
         stage'[m] \in Stages \ {"planning", "reading"},
         stage'[m] \notin Ended =>
           /\ StagesLeft[stage'[m]] \in Nat
           /\ StagesLeft[stage'[m]] < StagesLeft[stage[m]] + r + 3 * a
  PROVE  HasAnswer(m)' /\ StepsLeft(m)' < StepsLeft(m) /\ StepsLeft(m)' \in Int
<1>1. HasAnswer(m)'
  BY DEF HasAnswer
<1>2. StepsLeft(m) \in Nat \ {0}
  BY StepsLeftType
<1>3. CASE stage'[m] \in Ended
  <2>1. StepsLeft(m)' = 0
    BY <1>3 DEF StepsLeft
  <2>2. QED
    BY <1>1, <1>2, <2>1
<1>4. CASE stage'[m] \notin Ended
  <2> DEFINE n == Len(Ops(m))
             b == rebased[m]
             d == applied[m]
             s == StagesLeft[stage[m]]
             t == StagesLeft[stage'[m]]
  <2>1. n \in Nat /\ b \in Nat /\ d \in Nat /\ s \in Nat /\ t \in Nat /\ t < s + r + 3 * a
    BY <1>4, OpsType, StepsLeftType
  <2>2. /\ StepsLeft(m) = s + (n - b) + 3 * (n - d)
        /\ StepsLeft(m)' = t + (n - (b + r)) + 3 * (n - (d + a))
    BY <1>4 DEF StepsLeft
  <2> HIDE DEF n, b, d, s, t
  <2>3. QED
    BY <1>1, <2>1, <2>2
<1>5. QED
  BY <1>3, <1>4

LEMMA StepsStep ==
  ASSUME TypeOK, NEW m \in Missions, HasAnswer(m), Acts(m)
  PROVE  HasAnswer(m)' /\ StepsLeft(m)' < StepsLeft(m) /\ StepsLeft(m)' \in Int
<1>1. stage[m] \notin {"planning", "reading"} /\ stage[m] \in Stages
  BY DEF HasAnswer, TypeOK
<1>2. stage[m] \notin Ended
  BY <1>1 DEF Acts, Proceed, Plan, Answer, NoUsableAnswer, Die, Read, Supplement, ReadClocks,
     CheckLeases, CheckClocks, RebaseFile, RebaseDone, ReadOp, Truncate, Fill, DeleteFile,
     ApplyDone, CountFiles, LogIntegration, Ended
<1>3. rebased[m] \in Nat /\ applied[m] \in Nat /\ Len(Ops(m)) \in Nat
  BY OpsType
<1>4. CASE RebaseFile(m)
  <2>1. /\ rebased'[m] = rebased[m] + 1 /\ applied'[m] = applied[m] + 0
        /\ stage[m] = "rebasing" /\ stage'[m] \in {"rebasing", "conflict"}
    BY <1>3, <1>4, RebaseKeeps DEF RebaseFile, TypeOK, Becomes
  <2>2. Len(Ops(m))' = Len(Ops(m))
    BY <1>4, RebaseKeeps DEF Ops
  <2>3. QED
    BY <1>2, <2>1, <2>2, StepsFall DEF Stages, Ended, StagesLeft
<1>5. CASE Fill(m)
  <2>1. /\ rebased'[m] = rebased[m] + 0 /\ applied'[m] = applied[m] + 1
        /\ stage[m] = "filling" /\ stage'[m] = "applying" /\ UNCHANGED answer
    BY <1>3, <1>5 DEF Fill, TypeOK, Becomes
  <2>2. QED
    BY <1>2, <2>1, StepsFall DEF Stages, Ended, StagesLeft, Ops
<1>6. CASE DeleteFile(m)
  <2>1. /\ rebased'[m] = rebased[m] + 0 /\ UNCHANGED answer /\ stage[m] = "applying"
        /\ \/ applied'[m] = applied[m] + 1 /\ stage'[m] = "applying"
           \/ applied'[m] = applied[m] + 0 /\ stage'[m] = "conflict"
    BY <1>3, <1>6 DEF DeleteFile, TypeOK, Becomes
  <2>2. QED
    BY <1>2, <2>1, StepsFall DEF Stages, Ended, StagesLeft, Ops
<1>7. CASE ~RebaseFile(m) /\ ~Fill(m) /\ ~DeleteFile(m)
  <2>1. UNCHANGED <<answer, rebased, applied>>
    BY <1>1, <1>7 DEF Acts, Proceed, Plan, Answer, NoUsableAnswer, Die, Read, Supplement,
       ReadClocks, CheckLeases, CheckClocks, RebaseDone, ReadOp, Truncate, ApplyDone,
       CountFiles, LogIntegration, local
  <2>2. /\ rebased'[m] = rebased[m] + 0 /\ applied'[m] = applied[m] + 0
        /\ Len(Ops(m))' = Len(Ops(m))
    BY <1>3, <2>1 DEF Ops
  <2>3. \/ stage'[m] \in Ended
        \/ <<stage[m], stage'[m]>> \in
             {<<"answered", "leased">>, <<"leased", "validating">>, <<"leased", "applying">>,
              <<"validating", "held">>, <<"validating", "unleased">>,
              <<"held", "rebasing">>, <<"held", "applying">>, <<"rebasing", "applying">>,
              <<"applying", "truncating">>, <<"truncating", "filling">>,
              <<"applying", "counting">>, <<"counting", "logging">>}
    <3>1. CASE NoUsableAnswer(m) \/ Die(m) \/ LogIntegration(m)
      BY <3>1 DEF NoUsableAnswer, Die, LogIntegration, TypeOK, Becomes, Ended
    <3>2. CASE Supplement(m) \/ ReadClocks(m) \/ CheckLeases(m)
      BY <3>2 DEF Supplement, ReadClocks, CheckLeases, TypeOK, Becomes
    <3>3. CASE CheckClocks(m)
      <4>1. \/ stage[m] = "unleased" /\ (Becomes(m, "rejected") \/ Becomes(m, "error"))
            \/ stage[m] = "held" /\ \E s \in {"rebasing", "applying", "error"} : Becomes(m, s)
        BY <3>3 DEF CheckClocks
      <4>2. QED
        BY <4>1 DEF TypeOK, Becomes, Ended
    <3>4. CASE RebaseDone(m) \/ ReadOp(m) \/ Truncate(m) \/ ApplyDone(m) \/ CountFiles(m)
      BY <3>4 DEF RebaseDone, ReadOp, Truncate, ApplyDone, CountFiles, TypeOK, Becomes, Ended
    <3>5. QED
      BY <1>1, <1>7, <3>1, <3>2, <3>3, <3>4 DEF Acts, Proceed, Plan, Answer, Read
  <2>4. stage'[m] \in Stages \ {"planning", "reading"}
    BY <2>3 DEF Stages, Ended
  <2>5. stage'[m] \notin Ended =>
          /\ StagesLeft[stage'[m]] \in Nat
          /\ StagesLeft[stage'[m]] < StagesLeft[stage[m]] + 0 + 3 * 0
    BY <2>3 DEF StagesLeft
  <2>6. QED
    BY <1>2, <2>2, <2>4, <2>5, StepsFall
<1>8. QED
  BY <1>4, <1>5, <1>6, <1>7

\* Once its angel has answered, every step of a mission's own brings it nearer its end and
\* no step of another takes it further away: a mission with n operations makes
\* at most 8 + 4 * n steps, whatever the others do.  This is the part of MissionsEnd
\* that does not speak of fairness.
THEOREM MissionsNeverSentBack ==
  Spec => /\ NeverSentBack
          /\ [](\A m \in Missions : HasAnswer(m) => StepsLeft(m) \in 0 .. 8 + 4 * Len(Ops(m)))
<1>1. ASSUME TypeOK, [Next]_vars, NEW m \in Missions, HasAnswer(m)
      PROVE  /\ HasAnswer(m)' /\ StepsLeft(m)' <= StepsLeft(m)
             /\ ~UNCHANGED vars /\ Proceed(m) => StepsLeft(m)' < StepsLeft(m)
  <2>1. StepsLeft(m) \in Nat
    BY <1>1, StepsLeftType
  <2>2. CASE UNCHANGED vars
    BY <1>1, <2>1, <2>2 DEF HasAnswer, StepsLeft, Ops, vars, local
  <2>3. CASE Acts(m)
    <3>1. HasAnswer(m)' /\ StepsLeft(m)' < StepsLeft(m) /\ StepsLeft(m)' \in Int
      BY <1>1, <2>3, StepsStep
    <3>2. QED
      BY <2>1, <3>1
  <2>4. ASSUME NEW n \in Missions \ {m}, Acts(n), ~Acts(m)
        PROVE  HasAnswer(m)' /\ StepsLeft(m)' = StepsLeft(m)
    <3>1. stage'[m] = stage[m] /\ answer'[m] = answer[m] /\ applied'[m] = applied[m]
      BY <1>1, <2>4, Frame
    <3>2. rebased'[m] = rebased[m]
      BY <1>1, <2>4, RebasedOfOthers
    <3>3. QED
      BY <1>1, <3>1, <3>2 DEF HasAnswer, StepsLeft, Ops
  <2>5. QED
    BY <1>1, <2>1, <2>2, <2>3, <2>4, SomeoneActs DEF Acts
<1>2. TypeOK /\ [Next]_vars =>
        [\A m \in Missions : HasAnswer(m) =>
           /\ HasAnswer(m)' /\ StepsLeft(m)' <= StepsLeft(m)
           /\ Proceed(m) => StepsLeft(m)' < StepsLeft(m)]_vars
  BY <1>1
<1>3. TypeOK => \A m \in Missions : HasAnswer(m) => StepsLeft(m) \in 0 .. 8 + 4 * Len(Ops(m))
  BY StepsLeftType
<1>4. QED
  BY <1>2, <1>3, TreeTypeCorrect, PTL DEF Spec, NeverSentBack
-----------------------------------------------------------------------------
(* An operation by line number, and what it finds around its span when it is applied. *)

USE DriftAssumption

\* The files are sequences of lines, the operation fits the file it was read
\* from, and until a rebase it carries the anchor of that file.
DriftInv ==
  /\ seen \in Seq(Text) /\ disk \in Seq(Text) \ {<<>>}
  /\ op \in Operations({"f"}) /\ op.kind \in Kinds
  /\ Fits(seen, op)
  /\ status = "answered" => op.anchor = AnchorOf(seen, op)

LEMMA DriftHolds == DriftInit => DriftInv
<1> SUFFICES ASSUME DriftInit PROVE DriftInv
  OBVIOUS
<1>1. seen \in Seq(Text) /\ disk \in Seq(Text) \ {<<>>}
  <2>1. PICK n \in 1 .. MaxLines : seen \in [1 .. n -> Text]
    BY DEF DriftInit, Files
  <2>2. QED
    BY <2>1 DEF DriftInit
<1>2. PICK o \in Shapes : Canonical(o) /\ Fits(seen, o) /\ op = [o EXCEPT !.anchor = AnchorOf(seen, o)]
  BY DEF DriftInit
<1>3. o \in Operations({"f"}) /\ o.kind \in Kinds /\ o.kind \in Anchored
  <2>1. o \in Shapes
    BY <1>2
  <2>2. Kinds \subseteq Anchored \cup FileKinds /\ Contents \subseteq Seq(Text) /\ <<>> \in Seq(Text)
    OBVIOUS
  <2>3. Shapes \subseteq Operations({"f"})
    <3>1. 1 .. MaxLines + 1 \subseteq Int /\ 1 .. MaxLines \subseteq Int
      OBVIOUS
    <3>2. QED
      BY <2>2, <3>1 DEF Shapes, Operations
  <2>4. o.kind \in Kinds
    BY <2>1 DEF Shapes
  <2>5. QED
    BY <2>1, <2>3, <2>4
<1>4. AnchorOf(seen, o) \in Seq(Text)
  BY <1>1, <1>3, AnchorType
<1>5. op \in Operations({"f"})
  BY <1>2, <1>3, <1>4 DEF Operations
<1>6. /\ op.kind = o.kind /\ op.first = o.first /\ op.last = o.last /\ op.symbol = o.symbol
      /\ op.anchor = AnchorOf(seen, o)
  BY <1>2, <1>3 DEF Operations
<1>7. Fits(seen, op) /\ AnchorOf(seen, op) = AnchorOf(seen, o)
  BY <1>2, <1>6 DEF Fits, AnchorOf, AnchorSpan
<1>8. QED
  BY <1>1, <1>3, <1>5, <1>6, <1>7 DEF DriftInv

LEMMA SplicedType ==
  ASSUME NEW f \in Seq(Text), NEW new \in Seq(Text), NEW i \in 1 .. Len(f) + 1, NEW j \in Int,
         i <= j, j <= Len(f) + 1
  PROVE  OnDisk(SubSeq(f, 1, i - 1) \o new \o SubSeq(f, j, Len(f))) \in Seq(Text) \ {<<>>}
<1> DEFINE kept == SubSeq(f, 1, i - 1)
           rest == SubSeq(f, j, Len(f))
<1>1. kept \in Seq(Text) /\ rest \in Seq(Text)
  BY SubSeqType
<1> HIDE DEF kept, rest
<1>2. kept \o new \o rest \in Seq(Text)
  BY <1>1
<1>3. QED
  BY <1>2, OnDiskType DEF kept, rest

LEMMA DriftStep == DriftInv /\ [DriftNext]_driftVars => DriftInv'
<1> SUFFICES ASSUME DriftInv, [DriftNext]_driftVars PROVE DriftInv'
  OBVIOUS
<1> USE DEF DriftInv
<1>1. CASE Drift
  <2>1. PICK i \in 1 .. Len(disk) + 1, gone \in 0 .. 1, new \in Contents :
          /\ i + gone <= Len(disk) + 1
          /\ disk' = OnDisk(SubSeq(disk, 1, i - 1) \o new \o SubSeq(disk, i + gone, Len(disk)))
    BY <1>1 DEF Drift
  <2>2. new \in Seq(Text) /\ i + gone \in Int /\ i <= i + gone
    OBVIOUS
  <2>3. disk' \in Seq(Text) \ {<<>>}
    BY <2>1, <2>2, SplicedType
  <2>4. QED
    BY <1>1, <2>3 DEF Drift
<1>2. CASE Rebase
  <2>1. CASE RebaseFails(disk, op)
    BY <1>2, <2>1 DEF Rebase
  <2>2. CASE ~RebaseFails(disk, op)
    <3>1. op' = Rebased(disk, op) /\ status' = "rebased" /\ UNCHANGED <<seen, disk>>
      BY <1>2, <2>2 DEF Rebase
    <3>2. op' \in Operations({"f"})
      BY <3>1, RebasedType
    <3>3. op'.kind = op.kind /\ op'.first = op.first /\ op'.last = op.last /\ op'.symbol = op.symbol
      BY <3>1 DEF Rebased, Operations
    <3>4. Fits(seen, op)'
      BY <3>1, <3>3 DEF Fits
    <3>5. QED
      BY <3>1, <3>2, <3>3, <3>4
  <2>3. QED
    BY <2>1, <2>2
<1>3. CASE Apply
  <2>1. CASE Accepts(disk, op)
    <3>1. disk \in Content /\ op.kind # "delete_file"
      BY DEF Content, Anchored, SpanKinds, LineKinds, SymbolKinds
    <3>2. Applied(disk, op) \in Seq(Text) \ {<<>>}
      BY <2>1, <3>1, AppliedType
    <3>3. QED
      BY <1>3, <2>1, <3>2 DEF Apply
  <2>2. CASE ~Accepts(disk, op)
    BY <1>3, <2>2 DEF Apply
  <2>3. QED
    BY <2>1, <2>2
<1>4. CASE UNCHANGED driftVars
  BY <1>4 DEF driftVars
<1>5. QED
  BY <1>1, <1>2, <1>3, <1>4 DEF DriftNext

\* Types of EditDrift's variables, for files of every length (edit_apply.go:230-246).
THEOREM DriftTypeCorrect == DriftSpec => []DriftTypeOK
<1> DEFINE Counted == /\ seen \in Files /\ drifts \in 0 .. MaxDrift
                      /\ status \in {"answered", "rebased", "applied", "conflict"}
<1>1. DriftInit => Counted
  BY DEF DriftInit
<1>2. Counted /\ [DriftNext]_driftVars => Counted'
  BY DEF DriftNext, Drift, Rebase, Apply, driftVars
<1>3. Counted /\ DriftInv => DriftTypeOK
  BY DEF DriftInv, DriftTypeOK
<1> HIDE DEF Counted
<1>4. QED
  BY <1>1, <1>2, <1>3, DriftHolds, DriftStep, PTL DEF DriftSpec

\* An operation by line number, applied without a rebase, finds around its span
\* the three lines before and the three after that the angel saw there.
LEMMA LandsInContext ==
  ASSUME DriftInv, op.kind \in Numbered, DriftNext, Lands
  PROVE  Context(disk, op) = Context(seen, op)
<1>1. Apply /\ Accepts(disk, op) /\ status = "answered"
  BY DEF DriftNext, Drift, Rebase, Apply, Lands
<1>2. op.kind \in Numbered /\ op \in Operations({"f"}) /\ Fits(seen, op)
  BY DEF DriftInv
<1>3. Fits(disk, op) /\ AnchorOf(disk, op) = op.anchor
  BY <1>1, <1>2 DEF Accepts, Numbered, SpanKinds
<1>4. AnchorOf(disk, op) = AnchorOf(seen, op)
  BY <1>1, <1>3 DEF DriftInv
<1> DEFINE last == IF op.kind = "replace_line" THEN op.first ELSE op.last
<1>5. AnchorSpan(disk, op) = <<op.first, last>> /\ AnchorSpan(seen, op) = <<op.first, last>>
  <2>1. CASE op.kind \in SpanKinds
    BY <2>1 DEF AnchorSpan, SpanKinds, SymbolKinds
  <2>2. CASE op.kind = "replace_line"
    BY <2>2 DEF AnchorSpan, SpanKinds, SymbolKinds
  <2>3. QED
    BY <1>2, <2>1, <2>2 DEF Numbered
<1>6. /\ op.first \in Int /\ last \in Int
      /\ 1 <= op.first /\ op.first - 1 <= Len(seen) /\ op.first - 1 <= Len(disk)
  <2>1. op.first \in Int /\ op.last \in Int /\ Len(seen) \in Nat /\ Len(disk) \in Nat
    BY <1>2 DEF Operations, DriftInv
  <2>2. QED
    BY <1>2, <1>3, <2>1 DEF Fits, Numbered, SpanKinds
<1>7. ComputeAnchorHash(disk, op.first, last) = ComputeAnchorHash(seen, op.first, last)
  BY <1>4, <1>5 DEF AnchorOf
<1>8. /\ Slice(disk, op.first - Reach, op.first - 1) = Slice(seen, op.first - Reach, op.first - 1)
      /\ Slice(disk, last + 1, last + Reach) = Slice(seen, last + 1, last + Reach)
  <2> HIDE DEF last
  <2>1. seen \in Seq(Text) /\ disk \in Seq(Text)
    BY DEF DriftInv
  <2>2. QED
    BY <1>6, <1>7, <2>1, AnchorPinsContext
<1>9. QED
  BY <1>5, <1>8 DEF Context, Around

\* ContextKept for span and line operations, whatever the file and the drift
\* (edit_apply.go:98-119, 121-184, 299-331).
THEOREM LandsWhereWritten == DriftSpec => ContextKept
<1>1. DriftInv /\ [DriftNext]_driftVars => [Lands /\ op.kind \in Numbered => Context(disk, op) = Context(seen, op)]_driftVars
  BY LandsInContext
<1>2. QED
  BY <1>1, DriftHolds, DriftStep, PTL DEF DriftSpec, ContextKept

-----------------------------------------------------------------------------
(* Who is to blame for a conflict. *)

\* Until somebody else changes the file it is the one that was read, and the
\* operation, rebased or not, carries its anchor.
FreshInv ==
  /\ drifts \in Nat
  /\ drifts = 0 /\ status \in {"answered", "rebased"} =>
       disk = seen /\ op.anchor = AnchorOf(seen, op)

\* On the file it was written for an operation can be rebased and goes through.
LEMMA FitsGoesThrough ==
  ASSUME DriftInv, disk = seen, op.anchor = AnchorOf(seen, op)
  PROVE  Accepts(disk, op) /\ ~RebaseFails(disk, op)
<1>1. disk # NoFile
  BY DEF DriftInv
<1>2. op.kind \in Anchored /\ op.kind \notin FileKinds
  BY DEF DriftInv, Anchored, SpanKinds, LineKinds, SymbolKinds, FileKinds
<1>3. Accepts(disk, op)
  BY <1>1, <1>2 DEF Accepts, DriftInv, FileKinds
<1>4. op.kind \in SpanKinds => ~(op.last > Len(disk))
  BY DEF DriftInv, Fits, Operations
<1>5. op.kind = "insert_after_symbol" => SymbolLine(disk, op.symbol) # 0
  BY DEF DriftInv, Fits, SymbolKinds
<1>6. QED
  BY <1>1, <1>3, <1>4, <1>5 DEF RebaseFails

\* A rebase onto the unchanged file leaves the anchor as it was.
LEMMA RebaseKeepsAnchor ==
  ASSUME NEW P, NEW lines, NEW o \in Operations(P), o.anchor = AnchorOf(lines, o)
  PROVE  Rebased(lines, o).anchor = AnchorOf(lines, Rebased(lines, o))
<1> DEFINE r == Rebased(lines, o)
<1>1. /\ r.kind = o.kind /\ r.first = o.first /\ r.last = o.last /\ r.symbol = o.symbol
      /\ r.anchor = AnchorOf(lines, o)
  BY DEF Rebased, Operations
<1>2. AnchorOf(lines, r) = AnchorOf(lines, o)
  BY <1>1 DEF AnchorOf, AnchorSpan
<1>3. QED
  BY <1>1, <1>2

LEMMA FreshInit == DriftInit => FreshInv
<1> SUFFICES ASSUME DriftInit PROVE FreshInv
  OBVIOUS
<1>1. PICK o \in Shapes : op = [o EXCEPT !.anchor = AnchorOf(seen, o)]
  BY DEF DriftInit
<1>2. /\ op.kind = o.kind /\ op.first = o.first /\ op.last = o.last /\ op.symbol = o.symbol
      /\ op.anchor = AnchorOf(seen, o)
  BY <1>1 DEF Shapes
<1>3. AnchorOf(seen, op) = AnchorOf(seen, o)
  BY <1>2 DEF AnchorOf, AnchorSpan
<1>4. QED
  BY <1>2, <1>3 DEF DriftInit, FreshInv

LEMMA FreshStep == DriftInv /\ FreshInv /\ [DriftNext]_driftVars => FreshInv'
<1> SUFFICES ASSUME DriftInv, FreshInv, [DriftNext]_driftVars PROVE FreshInv'
  OBVIOUS
<1>1. CASE Drift
  BY <1>1 DEF Drift, FreshInv
<1>2. CASE Rebase
  <2>1. CASE RebaseFails(disk, op)
    BY <1>2, <2>1 DEF Rebase, FreshInv
  <2>2. CASE ~RebaseFails(disk, op)
    <3>1. op' = Rebased(disk, op) /\ status = "answered" /\ UNCHANGED <<seen, disk, drifts>>
      BY <1>2, <2>2 DEF Rebase
    <3>2. drifts = 0 => disk = seen /\ op'.anchor = AnchorOf(seen, op')
      BY <3>1, RebaseKeepsAnchor DEF FreshInv, DriftInv
    <3>3. QED
      BY <3>1, <3>2 DEF FreshInv, AnchorOf, AnchorSpan
  <2>3. QED
    BY <2>1, <2>2
<1>3. CASE Apply
  BY <1>3 DEF Apply, FreshInv
<1>4. CASE UNCHANGED driftVars
  BY <1>4 DEF driftVars, FreshInv, AnchorOf, AnchorSpan
<1>5. QED
  BY <1>1, <1>2, <1>3, <1>4 DEF DriftNext

LEMMA ConflictBlamesDrift ==
  ASSUME DriftInv, FreshInv, DriftNext, status' = "conflict"
  PROVE  drifts > 0 /\ (status = "answered" => disk # seen)
<1>1. /\ status \in {"answered", "rebased"}
      /\ status = "rebased" => ~Accepts(disk, op)
      /\ ~Accepts(disk, op) \/ RebaseFails(disk, op)
  BY DEF DriftNext, Drift, Rebase, Apply
<1>2. ~(disk = seen /\ op.anchor = AnchorOf(seen, op))
  BY <1>1, FitsGoesThrough
<1>3. drifts # 0
  BY <1>1, <1>2 DEF FreshInv
<1>4. status = "answered" => disk # seen
  BY <1>2 DEF DriftInv
<1>5. QED
  BY <1>3, <1>4 DEF FreshInv

\* NoFalseConflict for operations of every anchored kind, whatever the file and
\* the drift (edit_apply.go:98-331, integrator.go:161-213).
THEOREM ConflictsHaveACause == DriftSpec => NoFalseConflict
<1>1. DriftInv /\ FreshInv /\ [DriftNext]_driftVars
        => [status' = "conflict" => drifts > 0 /\ (status = "answered" => disk # seen)]_driftVars
  BY ConflictBlamesDrift
<1>2. QED
  BY <1>1, DriftHolds, DriftStep, FreshInit, FreshStep, PTL DEF DriftSpec, NoFalseConflict
=============================================================================
