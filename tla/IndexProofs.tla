----------------------------- MODULE IndexProofs -----------------------------
(***************************************************************************)
(* Proofs about the symbol index: what holds of it for any files,          *)
(* contents, builders and bounds.  The inductive invariant is IndexInv of  *)
(* IRIndex; it is taken apart here into what the tables hold, which only   *)
(* the transaction of indexFile disturbs, and what the builds know.        *)
(***************************************************************************)
EXTENDS IRIndex, FiniteSetTheorems, TLAPS

TreeTyped ==
  /\ clock \in Nat /\ content \in [Files -> Contents \cup {None}]
  /\ mtime \in [Files -> Nat] /\ twice \subseteq Files

\* What is so of the tables alone.
TablesTyped ==
  /\ files \in [Files -> Nat \cup {None}]
  /\ symbols \subseteq [id : 1 .. Len(made), name : Names, path : Files]
  /\ refs \subseteq [symbol : 1 .. Len(made), path : Files, name : Names]
  /\ made \in Seq(Files)
IdsUnique == \A s, t \in symbols : s.id = t.id => s = t
IdsMade == \A s \in symbols : made[s.id] = s.path

\* What is so of the builds.
Progress == [at : 0 .. Len(Order) + 1, seen : Nat \cup {None}, read : Contents \cup {None}]
BuildTyped ==
  /\ build \in [Builders -> Progress]
  /\ clean \subseteq Building /\ fresh \in BOOLEAN
OneClean == fresh \/ clean # {} => clean = Building
CleanKnows(b) ==
  /\ build[b].seen # None => build[b].seen = mtime[Order[build[b].at]]
  /\ build[b].read # None => build[b].read = content[Order[build[b].at]]
  /\ \A i \in DOMAIN Order : i < build[b].at => Whole(Order[i])

TableInv == TablesTyped /\ IdsUnique /\ IdsMade /\ CallersTruthful /\ DanglingIsOwn
Parts ==
  /\ TreeTyped /\ TableInv /\ BuildTyped /\ TimesInOrder
  /\ \A b \in Builders : BuildInOrder(b)
  /\ OneClean /\ (\A b \in clean : CleanKnows(b))
  /\ StaleIsNoticed /\ FreshIsWhole

LEMMA IndexParts == (IndexInv <=> Parts) /\ (IndexInv' <=> Parts')
  BY DEF IndexInv, Parts, TypeOK, TreeTyped, TablesTyped, BuildTyped, IdsUnique, IdsMade,
         TableInv, OneClean, CleanInOrder, CleanKnows, Progress

\* Every file is at a position of the walk.
LEMMA FilesOrdered ==
  /\ Order \in Seq(Files) /\ DOMAIN Order = 1 .. Len(Order) /\ Len(Order) \in Nat
  /\ \A i \in DOMAIN Order : Order[i] \in Files
  /\ \A f \in Files : \E i \in DOMAIN Order : Order[i] = f
  BY IndexAssumption DEF Files

LEMMA NoneApart == None \notin Contents /\ None \notin Nat
  BY IndexAssumption

-----------------------------------------------------------------------------
(* Steps that leave the tables alone. *)

LEMMA SameTables ==
  ASSUME TableInv, UNCHANGED tableVars
  PROVE  TableInv' /\ \A f \in Files : SymbolsOf(f)' = SymbolsOf(f)
<1>1. symbols' = symbols /\ refs' = refs /\ made' = made /\ files' = files
  BY DEF tableVars
<1>2. QED
  BY <1>1 DEF TableInv, TablesTyped, IdsUnique, IdsMade, CallersTruthful, DanglingIsOwn,
              Callers, Symdef, SymbolsOf

LEMMA SameWhole ==
  ASSUME NEW f \in Files, SymbolsOf(f)' = SymbolsOf(f),
         content'[f] = content[f], f \in twice' <=> f \in twice
  PROVE  (Reflects(f)' <=> Reflects(f)) /\ (Whole(f)' <=> Whole(f))
  BY DEF Reflects, Whole

LEMMA SameTree ==
  ASSUME Parts, UNCHANGED treeVars, UNCHANGED tableVars
  PROVE  /\ TreeTyped' /\ TableInv' /\ TimesInOrder' /\ StaleIsNoticed'
         /\ \A f \in Files : Whole(f)' <=> Whole(f)
<1>1. clock' = clock /\ content' = content /\ mtime' = mtime /\ twice' = twice /\ files' = files
  BY DEF treeVars, tableVars
<1>2. TableInv' /\ \A f \in Files : SymbolsOf(f)' = SymbolsOf(f)
  BY SameTables DEF Parts
<1>3. \A f \in Files : (Reflects(f)' <=> Reflects(f)) /\ (Whole(f)' <=> Whole(f))
  BY <1>1, <1>2, SameWhole
<1>4. TreeTyped' /\ TimesInOrder'
  BY <1>1 DEF Parts, TreeTyped, TimesInOrder
<1>5. StaleIsNoticed'
  BY <1>1, <1>3 DEF Parts, StaleIsNoticed
<1>6. QED
  BY <1>2, <1>3, <1>4, <1>5

\* What a build in order knows, and a clean one, stays so when nothing of it changes.
LEMMA SameBuild ==
  ASSUME NEW b \in Builders, build'[b] = build[b], UNCHANGED <<content, mtime, twice>>,
         BuildTyped, \A f \in Files : Whole(f) => Whole(f)'
  PROVE  (BuildInOrder(b) => BuildInOrder(b)') /\ (CleanKnows(b) => CleanKnows(b)')
  BY FilesOrdered DEF BuildInOrder, CleanKnows, BuildTyped

\* What a build is at is known of it.
LEMMA WalkType == \A i \in 0 .. Len(Order) + 1 :
  /\ Walk(i) \in Progress
  /\ Walk(i).at = i /\ Walk(i).seen = None /\ Walk(i).read = None
  BY DEF Walk, Progress

LEMMA InitHolds == Init => IndexInv
<1>1. SUFFICES ASSUME Init PROVE Parts
  BY IndexParts
<1>2. symbols = {} /\ refs = {} /\ made = <<>> /\ files = [f \in Files |-> None]
  BY <1>1 DEF Init
<1>3. TableInv
  BY <1>2 DEF TableInv, TablesTyped, IdsUnique, IdsMade, CallersTruthful, DanglingIsOwn,
              Callers, Symdef
<1>4. /\ TreeTyped /\ TimesInOrder /\ StaleIsNoticed /\ FreshIsWhole /\ clean = {} /\ fresh = FALSE
      /\ build = [b \in Builders |-> Walk(0)]
  BY <1>1, NoneApart DEF Init, TreeTyped, TimesInOrder, StaleIsNoticed, FreshIsWhole
<1>5. BuildTyped /\ OneClean /\ \A b \in Builders : BuildInOrder(b)
  <2>1. \A b \in Builders : build[b].at = 0 /\ build[b].seen = None /\ build[b].read = None
    BY <1>4 DEF Walk
  <2>2. BuildTyped
    <3>1. Walk(0) \in Progress
      BY WalkType, FilesOrdered
    <3>2. clean \subseteq Building /\ fresh \in BOOLEAN
      BY <1>4
    <3>3. build \in [Builders -> Progress]
      BY <1>4, <3>1
    <3>4. QED
      BY <3>2, <3>3 DEF BuildTyped
  <2>3. QED
    BY <1>4, <2>1, <2>2 DEF OneClean, BuildInOrder
<1>6. QED
  BY <1>3, <1>4, <1>5 DEF Parts

LEMMA TickStep ==
  ASSUME Parts, Tick
  PROVE  Parts'
<1>1. /\ clock' = clock + 1 /\ content' = content /\ mtime' = mtime /\ twice' = twice
      /\ UNCHANGED tableVars /\ build' = build /\ clean' = clean /\ fresh' = fresh
  BY DEF Tick
<1>2. TableInv' /\ files' = files /\ \A f \in Files : SymbolsOf(f)' = SymbolsOf(f)
  BY <1>1, SameTables DEF Parts, tableVars
<1>3. \A f \in Files : (Reflects(f)' <=> Reflects(f)) /\ (Whole(f)' <=> Whole(f))
  BY <1>1, <1>2, SameWhole
<1>4. TreeTyped' /\ TimesInOrder'
  BY <1>1, <1>2, NoneApart DEF Parts, TreeTyped, TimesInOrder, TableInv, TablesTyped
<1>5. StaleIsNoticed' /\ FreshIsWhole'
  BY <1>1, <1>2, <1>3 DEF Parts, StaleIsNoticed, FreshIsWhole
<1>6. BuildTyped' /\ OneClean'
  BY <1>1 DEF Parts, BuildTyped, OneClean, Building
<1>7. \A b \in Builders : BuildInOrder(b)'
  BY <1>1, <1>3, SameBuild DEF Parts
<1>8. \A b \in clean' : CleanKnows(b)'
  BY <1>1, <1>3, SameBuild DEF Parts, BuildTyped, Building
<1>9. QED
  BY <1>2, <1>4, <1>5, <1>6, <1>7, <1>8 DEF Parts

LEMMA ChangeStep ==
  ASSUME Parts, NEW f \in Files, NEW c \in Contents \cup {None}, Change(f, c)
  PROVE  Parts'
<1>1. /\ content' = [content EXCEPT ![f] = c] /\ mtime' = [mtime EXCEPT ![f] = clock]
      /\ twice' = IF mtime[f] = clock THEN twice \cup {f} ELSE twice \ {f}
      /\ fresh' = FALSE /\ clean' = {} /\ clock' = clock
      /\ UNCHANGED tableVars /\ build' = build
  BY DEF Change
<1>2. TableInv' /\ files' = files /\ \A g \in Files : SymbolsOf(g)' = SymbolsOf(g)
  BY <1>1, SameTables DEF Parts, tableVars
<1>3. /\ TreeTyped /\ TimesInOrder /\ BuildTyped /\ StaleIsNoticed
      /\ files \in [Files -> Nat \cup {None}]
  BY DEF Parts, TableInv, TablesTyped
<1>4. TreeTyped'
  BY <1>1, <1>3 DEF TreeTyped
<1>5. \A g \in Files \ {f} : /\ content'[g] = content[g] /\ mtime'[g] = mtime[g]
                             /\ g \in twice' <=> g \in twice
  BY <1>1, <1>3 DEF TreeTyped
<1>6. content'[f] = c /\ mtime'[f] = clock /\ (mtime[f] = clock => f \in twice')
  BY <1>1, <1>3 DEF TreeTyped
<1>7. clock \in Nat /\ \A g \in Files : mtime[g] \in Nat /\ mtime[g] <= clock
  BY <1>3 DEF TreeTyped, TimesInOrder
<1>8. \A g \in Files : files[g] # None => files[g] \in Nat /\ files[g] <= mtime[g]
  BY <1>3 DEF TimesInOrder
<1>9. TimesInOrder'
  <2>1. SUFFICES ASSUME NEW g \in Files
                 PROVE  mtime'[g] <= clock /\ (files[g] # None => files[g] <= mtime'[g])
    BY <1>1, <1>2 DEF TimesInOrder
  <2>2. QED
    BY <1>5, <1>6, <1>7, <1>8
<1>10. StaleIsNoticed'
  <2>1. SUFFICES ASSUME NEW g \in Files, content'[g] # None, files[g] = mtime'[g]
                 PROVE  Reflects(g)' \/ g \in twice'
    BY <1>2 DEF StaleIsNoticed
  <2>2. CASE g = f
    <3>1. files[f] \in Nat /\ files[f] # None /\ files[f] = clock
      BY <2>1, <2>2, <1>6, <1>7, NoneApart
    <3>2. mtime[f] = clock
      BY <3>1, <1>7, <1>8
    <3>3. QED
      BY <2>2, <3>2, <1>6
  <2>3. CASE g # f
    <3>1. Reflects(g)' <=> Reflects(g)
      BY <1>2, <1>5, <2>3, SameWhole
    <3>2. QED
      BY <1>3, <1>5, <2>1, <2>3, <3>1 DEF StaleIsNoticed
  <2>4. QED
    BY <2>2, <2>3
<1>11. BuildTyped' /\ OneClean' /\ FreshIsWhole' /\ \A b \in clean' : CleanKnows(b)'
  BY <1>1, <1>3 DEF BuildTyped, OneClean, FreshIsWhole, Building
<1>12. ASSUME NEW b \in Builders PROVE BuildInOrder(b)'
  <2>1. BuildInOrder(b) /\ build[b].seen \in Nat \cup {None}
    BY <1>3 DEF Parts, BuildTyped, Progress
  <2>2. CASE build[b].seen = None
    BY <1>1, <2>1, <2>2 DEF BuildInOrder
  <2>3. CASE build[b].seen # None
    <3>1. PICK g \in Files : g = Order[build[b].at]
      BY <2>1, <2>3, FilesOrdered DEF BuildInOrder
    <3>2. /\ build[b].at \in DOMAIN Order /\ build[b].seen \in Nat /\ build[b].seen <= mtime[g]
          /\ build[b].read # None /\ build[b].seen = mtime[g] =>
               build[b].read = content[g] \/ g \in twice
      BY <2>1, <2>3, <3>1 DEF BuildInOrder
    <3>3. /\ build[b].seen <= mtime'[g]
          /\ build[b].read # None /\ build[b].seen = mtime'[g] =>
               build[b].read = content'[g] \/ g \in twice'
      <4>1. CASE g = f
        BY <3>2, <4>1, <1>6, <1>7
      <4>2. CASE g # f
        BY <3>2, <4>2, <1>5
      <4>3. QED
        BY <4>1, <4>2
    <3>4. QED
      BY <1>1, <2>3, <3>1, <3>2, <3>3 DEF BuildInOrder
  <2>4. QED
    BY <2>2, <2>3
<1>13. QED
  BY <1>2, <1>4, <1>9, <1>10, <1>11, <1>12 DEF Parts
-----------------------------------------------------------------------------
(* The steps of a build that leave the tables alone. *)

\* One builder goes from where it was to record r; the others stay.
LEMMA OneBuild ==
  ASSUME BuildTyped, NEW b \in Builders,
         NEW r \in Progress,
         build' = [build EXCEPT ![b] = r]
  PROVE  /\ build' \in [Builders -> Progress]
         /\ build'[b] = r /\ \A d \in Builders \ {b} : build'[d] = build[d]
         /\ r.at = 0 => Building' = Building \ {b}
         /\ r.at # 0 => Building' = Building \cup {b}
  BY DEF BuildTyped, Building

LEMMA StillBuilding ==
  ASSUME BuildTyped, NEW b \in Building, NEW r \in Progress, r.at # 0,
         build' = [build EXCEPT ![b] = r]
  PROVE  build'[b] = r /\ Building' = Building
<1>1. b \in Builders
  BY DEF Building
<1>2. build'[b] = r /\ Building' = Building \cup {b}
  BY <1>1, OneBuild
<1>3. QED
  BY <1>2

\* What is to be shown of a step that leaves tree and tables alone.
LEMMA BuilderStep ==
  ASSUME Parts, UNCHANGED treeVars, UNCHANGED tableVars, NEW b \in Builders,
         NEW r \in Progress,
         build' = [build EXCEPT ![b] = r],
         clean' \subseteq Building', fresh' \in BOOLEAN, OneClean',
         clean' \subseteq clean \cup {b}, BuildInOrder(b)',
         b \in clean' => CleanKnows(b)', FreshIsWhole'
  PROVE  Parts'
<1>1. /\ TreeTyped' /\ TableInv' /\ TimesInOrder' /\ StaleIsNoticed'
      /\ \A f \in Files : Whole(f)' <=> Whole(f)
  BY SameTree
<1>2. BuildTyped /\ UNCHANGED <<content, mtime, twice>>
  BY DEF Parts, treeVars
<1>3. /\ build' \in [Builders -> Progress]
      /\ \A d \in Builders \ {b} : build'[d] = build[d]
  BY <1>2, OneBuild
<1>4. BuildTyped'
  BY <1>3 DEF BuildTyped
<1>5. \A d \in Builders : BuildInOrder(d)'
  BY <1>1, <1>2, <1>3, SameBuild DEF Parts
<1>6. \A d \in clean' : CleanKnows(d)'
  <2>1. clean \subseteq Builders
    BY <1>2 DEF BuildTyped, Building
  <2>2. QED
    BY <1>1, <1>2, <1>3, <2>1, SameBuild DEF Parts
<1>7. QED
  BY <1>1, <1>4, <1>5, <1>6 DEF Parts


LEMMA BeginStep ==
  ASSUME Parts, NEW b \in Builders, Begin(b)
  PROVE  Parts'
<1>1. /\ UNCHANGED treeVars /\ UNCHANGED tableVars /\ fresh' = fresh /\ b \notin Building
      /\ build' = [build EXCEPT ![b] = Walk(1)]
      /\ clean' = IF Building \subseteq clean THEN clean \cup {b} ELSE clean
  BY DEF Begin
<1>2. /\ Walk(1) \in Progress
      /\ Walk(1).at = 1 /\ Walk(1).seen = None /\ Walk(1).read = None
  BY WalkType, FilesOrdered
<1>3. BuildTyped /\ OneClean /\ FreshIsWhole
  BY DEF Parts
<1>4. build'[b] = Walk(1) /\ Building' = Building \cup {b}
  <2>1. Walk(1) \in Progress /\ build' = [build EXCEPT ![b] = Walk(1)] /\ Walk(1).at # 0
    BY <1>1, <1>2
  <2>2. QED
    BY <1>3, <2>1, OneBuild
<1>5. clean' \subseteq Building' /\ clean' \subseteq clean \cup {b} /\ fresh' \in BOOLEAN /\ OneClean'
  BY <1>1, <1>3, <1>4 DEF BuildTyped, OneClean
<1>6. BuildInOrder(b)' /\ CleanKnows(b)'
  BY <1>2, <1>4, FilesOrdered DEF BuildInOrder, CleanKnows
<1>7. FreshIsWhole'
  BY <1>1, <1>3, SameTree DEF FreshIsWhole, Whole
<1>8. QED
  BY <1>1, <1>2, <1>5, <1>6, <1>7, BuilderStep

LEMMA VisitStep ==
  ASSUME Parts, NEW b \in Builders, Visit(b)
  PROVE  Parts'
<1>1. /\ UNCHANGED treeVars /\ UNCHANGED tableVars /\ fresh' = fresh /\ clean' = clean
      /\ Walking(b) /\ build[b].seen = None
  BY DEF Visit
<1>2. BuildTyped /\ OneClean /\ FreshIsWhole /\ TreeTyped /\ StaleIsNoticed
      /\ mtime' = mtime /\ content' = content
  BY <1>1 DEF Parts, treeVars
<1>3. PICK i \in DOMAIN Order : i = build[b].at
  BY <1>1 DEF Walking
<1>4. /\ i \in Nat /\ i # 0 /\ i + 1 \in 0 .. Len(Order) + 1 /\ i \in 0 .. Len(Order) + 1
      /\ Order[i] \in Files /\ File(b) = Order[i] /\ b \in Building
  BY <1>3, FilesOrdered DEF File, Building
<1>5. BuildInOrder(b) /\ (b \in clean => CleanKnows(b)) /\ build[b].read = None
  BY <1>1, <1>2 DEF Parts, BuildInOrder, BuildTyped
<1>6. /\ FreshIsWhole' /\ fresh' \in BOOLEAN /\ \A f \in Files : Whole(f)' <=> Whole(f)
  BY <1>1, <1>2, SameTree DEF FreshIsWhole, Whole, BuildTyped
<1>7. CASE content[Order[i]] # None /\ FileNeedsReindex(Order[i])
  <2>1. DEFINE r == [at |-> i, seen |-> mtime[Order[i]], read |-> None]
  <2>2. /\ r \in Progress
        /\ r.at = i /\ r.seen = mtime[Order[i]] /\ r.read = None
    BY <1>2, <1>4 DEF TreeTyped, Progress
  <2>3. build' = [build EXCEPT ![b] = r]
    <3>1. build' = [build EXCEPT ![b].seen = mtime[Order[i]]]
      BY <1>4, <1>7 DEF Visit
    <3>2. build[b] \in Progress
      BY <1>2 DEF BuildTyped
    <3>3. [build[b] EXCEPT !.seen = mtime[Order[i]]] = r
      BY <1>3, <1>5, <3>2 DEF Progress
    <3>4. QED
      BY <3>1, <3>3
  <2> HIDE DEF r
  <2>4. build'[b] = r /\ Building' = Building
    BY <1>2, <1>4, <2>2, <2>3, StillBuilding
  <2>5. clean' \subseteq Building' /\ OneClean'
    BY <1>1, <1>2, <2>4 DEF BuildTyped, OneClean
  <2>6. BuildInOrder(b)'
    BY <1>2, <1>3, <1>4, <2>2, <2>4 DEF BuildInOrder, TreeTyped
  <2>7. b \in clean' => CleanKnows(b)'
    BY <1>1, <1>2, <1>3, <1>5, <1>6, <2>2, <2>4, FilesOrdered DEF CleanKnows
  <2>8. QED
    BY <1>1, <1>6, <2>2, <2>3, <2>5, <2>6, <2>7, BuilderStep
<1>8. CASE content[Order[i]] = None \/ ~FileNeedsReindex(Order[i])
  <2>1. build' = [build EXCEPT ![b] = Walk(i + 1)]
    BY <1>3, <1>4, <1>8 DEF Visit, Advance
  <2>2. /\ Walk(i + 1) \in Progress
        /\ Walk(i + 1).at = i + 1 /\ Walk(i + 1).seen = None /\ Walk(i + 1).read = None
    BY <1>4, WalkType
  <2>3. build'[b] = Walk(i + 1) /\ Building' = Building
    <3>1. i + 1 # 0
      BY <1>4
    <3>2. QED
      BY <1>2, <1>4, <2>1, <2>2, <3>1, StillBuilding
  <2>4. clean' \subseteq Building' /\ OneClean'
    BY <1>1, <1>2, <2>3 DEF BuildTyped, OneClean
  <2>5. BuildInOrder(b)'
    BY <2>2, <2>3 DEF BuildInOrder
  <2>6. Whole(Order[i])
    BY <1>2, <1>4, <1>8 DEF StaleIsNoticed, FileNeedsReindex, Whole
  <2>7. b \in clean' => CleanKnows(b)'
    <3>1. ASSUME b \in clean, NEW j \in DOMAIN Order, j < i + 1 PROVE Whole(Order[j])'
      <4>1. j = i \/ j < build[b].at
        BY <1>3, <1>4, <3>1, FilesOrdered
      <4>2. QED
        BY <1>5, <1>6, <2>6, <3>1, <4>1, FilesOrdered DEF CleanKnows
    <3>2. QED
      BY <1>1, <2>2, <2>3, <3>1 DEF CleanKnows
  <2>8. QED
    BY <1>1, <1>6, <2>1, <2>2, <2>4, <2>5, <2>7, BuilderStep
<1>9. QED
  BY <1>7, <1>8

LEMMA ReadFileStep ==
  ASSUME Parts, NEW b \in Builders, ReadFile(b)
  PROVE  Parts'
<1>1. /\ UNCHANGED treeVars /\ UNCHANGED tableVars /\ fresh' = fresh /\ clean' = clean
      /\ Walking(b) /\ build[b].seen # None /\ content[File(b)] # None
  BY DEF ReadFile
<1>2. BuildTyped /\ OneClean /\ FreshIsWhole /\ TreeTyped /\ mtime' = mtime /\ content' = content
  BY <1>1 DEF Parts, treeVars
<1>3. PICK i \in DOMAIN Order : i = build[b].at
  BY <1>1 DEF Walking
<1>4. PICK t \in Nat : t = build[b].seen
  BY <1>1, <1>2 DEF BuildTyped, Progress
<1>5. /\ i \in Nat /\ i # 0 /\ i \in 0 .. Len(Order) + 1
      /\ Order[i] \in Files /\ File(b) = Order[i] /\ b \in Building
  BY <1>3, FilesOrdered DEF File, Building
<1>6. BuildInOrder(b) /\ (b \in clean => CleanKnows(b))
  BY DEF Parts
<1>7. FreshIsWhole' /\ fresh' \in BOOLEAN /\ \A f \in Files : Whole(f)' <=> Whole(f)
  BY <1>1, <1>2, SameTree DEF FreshIsWhole, Whole, BuildTyped
<1>8. DEFINE r == [at |-> i, seen |-> t, read |-> content[Order[i]]]
<1>9. /\ r \in Progress
      /\ r.at = i /\ r.seen = t /\ r.read = content[Order[i]]
  BY <1>2, <1>5 DEF TreeTyped, Progress
<1>10. build' = [build EXCEPT ![b] = r]
  <2>1. build' = [build EXCEPT ![b].read = content[Order[i]]]
    BY <1>5 DEF ReadFile
  <2>2. build[b] \in Progress
    BY <1>2 DEF BuildTyped
  <2>3. [build[b] EXCEPT !.read = content[Order[i]]] = r
    BY <1>3, <1>4, <2>2 DEF Progress
  <2>4. QED
    BY <2>1, <2>3
<1> HIDE DEF r
<1>11. build'[b] = r /\ Building' = Building
  BY <1>2, <1>5, <1>9, <1>10, StillBuilding
<1>12. clean' \subseteq Building' /\ OneClean'
  BY <1>1, <1>2, <1>11 DEF BuildTyped, OneClean
<1>13. BuildInOrder(b)'
  BY <1>1, <1>2, <1>3, <1>4, <1>6, <1>9, <1>11 DEF BuildInOrder
<1>14. b \in clean' => CleanKnows(b)'
  BY <1>1, <1>2, <1>3, <1>4, <1>6, <1>7, <1>9, <1>11, FilesOrdered DEF CleanKnows
<1>15. QED
  BY <1>1, <1>7, <1>9, <1>10, <1>12, <1>13, <1>14, BuilderStep

\* A build that ends, one way or the other, waits for the next request.
LEMMA Stopped ==
  ASSUME Parts, NEW b \in Builders, build' = [build EXCEPT ![b] = Walk(0)]
  PROVE  /\ Walk(0) \in Progress
         /\ Building' = Building \ {b} /\ BuildInOrder(b)'
<1>1. /\ Walk(0) \in Progress
      /\ Walk(0).at = 0 /\ Walk(0).seen = None /\ Walk(0).read = None
  BY WalkType, FilesOrdered
<1>2. build'[b] = Walk(0) /\ Building' = Building \ {b}
  BY <1>1, OneBuild DEF Parts
<1>3. QED
  BY <1>1, <1>2 DEF BuildInOrder

LEMMA IndexFailsStep ==
  ASSUME Parts, NEW b \in Builders, IndexFails(b)
  PROVE  Parts'
<1>1. /\ UNCHANGED treeVars /\ UNCHANGED tableVars /\ fresh' = fresh /\ clean' = clean \ {b}
      /\ build' = [build EXCEPT ![b] = Walk(0)]
  BY DEF IndexFails
<1>2. BuildTyped /\ OneClean /\ FreshIsWhole
  BY DEF Parts
<1>3. /\ Walk(0) \in Progress
      /\ Building' = Building \ {b} /\ BuildInOrder(b)'
  BY <1>1, Stopped
<1>4. clean' \subseteq Building' /\ OneClean' /\ fresh' \in BOOLEAN
  BY <1>1, <1>2, <1>3 DEF BuildTyped, OneClean
<1>5. FreshIsWhole'
  BY <1>1, <1>2, SameTree DEF FreshIsWhole, Whole
<1>6. QED
  BY <1>1, <1>3, <1>4, <1>5, BuilderStep

LEMMA EndStep ==
  ASSUME Parts, NEW b \in Builders, End(b)
  PROVE  Parts'
<1>1. /\ UNCHANGED treeVars /\ UNCHANGED tableVars /\ build[b].at = Len(Order) + 1
      /\ fresh' = (fresh \/ b \in clean) /\ clean' = clean \ {b}
      /\ build' = [build EXCEPT ![b] = Walk(0)]
  BY DEF End
<1>2. BuildTyped /\ OneClean /\ FreshIsWhole /\ (b \in clean => CleanKnows(b))
  BY DEF Parts
<1>3. /\ Walk(0) \in Progress
      /\ Building' = Building \ {b} /\ BuildInOrder(b)'
  BY <1>1, Stopped
<1>4. clean' \subseteq Building' /\ OneClean' /\ fresh' \in BOOLEAN
  BY <1>1, <1>2, <1>3 DEF BuildTyped, OneClean
<1>5. ASSUME NEW f \in Files, b \in clean PROVE Whole(f)
  <2>1. PICK i \in DOMAIN Order : Order[i] = f
    BY FilesOrdered
  <2>2. i < build[b].at
    BY <1>1, FilesOrdered
  <2>3. QED
    BY <1>2, <1>5, <2>1, <2>2 DEF CleanKnows
<1>6. FreshIsWhole'
  <2>1. \A f \in Files : Whole(f)' <=> Whole(f)
    BY <1>1, SameTree
  <2>2. fresh' => \A f \in Files : Whole(f)
    BY <1>1, <1>2, <1>5 DEF FreshIsWhole, Whole
  <2>3. QED
    BY <2>1, <2>2 DEF FreshIsWhole, Whole
<1>7. QED
  BY <1>1, <1>3, <1>4, <1>6, BuilderStep
-----------------------------------------------------------------------------
(* The transaction of indexFile. *)

\* The rows of a file's definitions: as many as there are definitions, one for each, with
\* ids no symbol ever had.
Rows(f, c, order) == {[id |-> LastId + order[n], name |-> n, path |-> f] : n \in Defs[c]}

LEMMA RowsFacts ==
  ASSUME TableInv, NEW f \in Files, NEW c \in Contents,
         NEW order \in [Defs[c] -> 1 .. Cardinality(Defs[c])],
         \A n, m \in Defs[c] : order[n] = order[m] => n = m
  PROVE  /\ Cardinality(Rows(f, c, order)) = Cardinality(Defs[c]) /\ Cardinality(Defs[c]) \in Nat
         /\ \A s \in Rows(f, c, order) :
              /\ s.id \in Len(made) + 1 .. Len(made) + Cardinality(Defs[c])
              /\ s.name \in Defs[c] /\ s.name \in Names /\ s.path = f
              /\ s = [id |-> s.id, name |-> s.name, path |-> s.path]
         /\ \A s, t \in Rows(f, c, order) : s.id = t.id => s = t
         /\ {s.name : s \in Rows(f, c, order)} = Defs[c]
<1>1. IsFiniteSet(Defs[c]) /\ Cardinality(Defs[c]) \in Nat /\ Defs[c] \subseteq Names
  BY IndexAssumption, FS_CardinalityType DEF Names
<1>2. Len(made) \in Nat
  BY DEF TableInv, TablesTyped
<1>3. \A n \in Defs[c] : order[n] \in 1 .. Cardinality(Defs[c])
  OBVIOUS
<1>4. PICK k \in Nat : k = Cardinality(Defs[c])
  BY <1>1
<1>5. DEFINE row == [n \in Defs[c] |-> [id |-> Len(made) + order[n], name |-> n, path |-> f]]
<1>6. row \in Bijection(Defs[c], Rows(f, c, order))
  <2>1. /\ \A n \in Defs[c] : row[n] \in Rows(f, c, order) /\ row[n].name = n
        /\ \A s \in Rows(f, c, order) : \E n \in Defs[c] : row[n] = s
        /\ row = [n \in Defs[c] |-> row[n]]
    BY DEF Rows, LastId
  <2> HIDE DEF row
  <2>2. row \in [Defs[c] -> Rows(f, c, order)]
    BY <2>1
  <2>3. row \in Injection(Defs[c], Rows(f, c, order))
    BY <2>1, <2>2, SMTT(40) DEF Injection, IsInjective
  <2>4. row \in Surjection(Defs[c], Rows(f, c, order))
    BY <2>1, <2>2 DEF Surjection
  <2>5. QED
    BY <2>3, <2>4 DEF Bijection
<1>7. Cardinality(Rows(f, c, order)) = Cardinality(Defs[c])
  BY <1>1, <1>6, FS_Bijection DEF ExistsBijection
<1>8. ASSUME NEW s \in Rows(f, c, order)
      PROVE  /\ s.id \in Len(made) + 1 .. Len(made) + k
             /\ s.name \in Defs[c] /\ s.path = f
             /\ s = [id |-> s.id, name |-> s.name, path |-> s.path]
  <2>1. PICK n \in Defs[c] : s = [id |-> Len(made) + order[n], name |-> n, path |-> f]
    BY <1>8 DEF Rows, LastId
  <2>2. order[n] \in 1 .. k
    BY <1>3, <1>4
  <2>3. QED
    BY <1>2, <2>1, <2>2
<1>9. ASSUME NEW s \in Rows(f, c, order), NEW t \in Rows(f, c, order), s.id = t.id
      PROVE  s = t
  <2>1. PICK n \in Defs[c] : s = [id |-> Len(made) + order[n], name |-> n, path |-> f]
    BY <1>9 DEF Rows, LastId
  <2>2. PICK m \in Defs[c] : t = [id |-> Len(made) + order[m], name |-> m, path |-> f]
    BY <1>9 DEF Rows, LastId
  <2>3. order[n] \in Nat /\ order[m] \in Nat /\ Len(made) + order[n] = Len(made) + order[m]
    BY <1>1, <1>3, <1>9, <2>1, <2>2
  <2>4. order[n] = order[m]
    BY <1>2, <2>3
  <2>5. QED
    BY <2>1, <2>2, <2>4
<1>10. {s.name : s \in Rows(f, c, order)} = Defs[c]
  <2>1. ASSUME NEW n \in Defs[c] PROVE \E s \in Rows(f, c, order) : s.name = n
    <3>1. row[n] \in Rows(f, c, order) /\ row[n].name = n
      BY DEF Rows, LastId
    <3>2. QED
      BY <3>1
  <2>2. QED
    BY <1>8, <2>1
<1>11. QED
  BY <1>1, <1>4, <1>7, <1>8, <1>9, <1>10

\* made is extended by as many rows of the file.
LEMMA MadeGrows ==
  ASSUME made \in Seq(Files), NEW f \in Files, NEW k \in Nat,
         made' = made \o [i \in 1 .. k |-> f]
  PROVE  /\ made' \in Seq(Files) /\ Len(made') = Len(made) + k /\ Len(made) \in Nat
         /\ \A i \in 1 .. Len(made) : i \in 1 .. Len(made') /\ made'[i] = made[i]
         /\ \A i \in Len(made) + 1 .. Len(made) + k : i \in 1 .. Len(made') /\ made'[i] = f
<1>1. DEFINE more == [i \in 1 .. k |-> f]
<1>2. more \in Seq(Files) /\ Len(more) = k /\ \A i \in 1 .. k : more[i] = f
  OBVIOUS
<1>3. made' = made \o more
  OBVIOUS
<1> HIDE DEF more
<1>4. QED
  BY <1>2, <1>3

LEMMA IndexTables ==
  ASSUME TableInv, NEW f \in Files, NEW c \in Contents, NEW time \in Nat, Index(f, c, time)
  PROVE  /\ TableInv' /\ files' = [files EXCEPT ![f] = time]
         /\ {s.name : s \in SymbolsOf(f)'} = Defs[c]
         /\ Cardinality(SymbolsOf(f)') = Cardinality(Defs[c])
         /\ \A g \in Files \ {f} : SymbolsOf(g)' = SymbolsOf(g)
<1>1. PICK order \in [Defs[c] -> 1 .. Cardinality(Defs[c])] :
        /\ \A n, m \in Defs[c] : order[n] = order[m] => n = m
        /\ symbols' = Kept(f).symbols \cup Rows(f, c, order)
        /\ refs' = Kept(f).refs \cup
             UNION {{[symbol |-> i, path |-> f, name |-> n] : i \in Target(n, Rows(f, c, order))} :
                    n \in Uses[c]}
        /\ made' = made \o [i \in 1 .. Cardinality(Rows(f, c, order)) |-> f]
        /\ files' = [files EXCEPT ![f] = time]
  BY DEF Index, Rows
<1>2. PICK own : own = Rows(f, c, order)
  OBVIOUS
<1>3. PICK k \in Nat : k = Cardinality(Defs[c])
  BY <1>1, RowsFacts
<1>4. /\ Cardinality(own) = k
      /\ \A s \in own : /\ s.id \in Len(made) + 1 .. Len(made) + k
                        /\ s.name \in Names /\ s.path = f
                        /\ s = [id |-> s.id, name |-> s.name, path |-> s.path]
      /\ \A s, t \in own : s.id = t.id => s = t
      /\ {s.name : s \in own} = Defs[c]
  BY <1>1, <1>2, <1>3, RowsFacts
<1>5. /\ made' \in Seq(Files) /\ Len(made') = Len(made) + k /\ Len(made) \in Nat
      /\ \A i \in 1 .. Len(made) : i \in 1 .. Len(made') /\ made'[i] = made[i]
      /\ \A i \in Len(made) + 1 .. Len(made) + k : i \in 1 .. Len(made') /\ made'[i] = f
  <2>1. made' = made \o [i \in 1 .. k |-> f]
    BY <1>1, <1>2, <1>4
  <2>2. made \in Seq(Files)
    BY DEF TableInv, TablesTyped
  <2>3. QED
    BY <2>1, <2>2, MadeGrows
<1>6. /\ symbols \subseteq [id : 1 .. Len(made), name : Names, path : Files]
      /\ refs \subseteq [symbol : 1 .. Len(made), path : Files, name : Names]
      /\ \A s \in symbols : s.id \in 1 .. Len(made)
  BY DEF TableInv, TablesTyped
<1>7. symbols' = (symbols \ SymbolsOf(f)) \cup own
  BY <1>1, <1>2 DEF Kept
\* Old ids and new ones are apart, so that an id still is that of one symbol.
<1>8. \A s, t \in symbols \cup own : s.id = t.id => s = t
  <2>1. \A s \in symbols, t \in own : s.id # t.id
    <3>1. SUFFICES ASSUME NEW s \in symbols, NEW t \in own PROVE s.id # t.id
      OBVIOUS
    <3>2. s.id \in 1 .. Len(made) /\ t.id \in Len(made) + 1 .. Len(made) + k
      BY <1>4, <1>6
    <3>3. QED
      BY <1>5, <3>2
  <2>2. QED
    BY <1>4, <2>1 DEF TableInv, IdsUnique
\* A new reference is to a symbol of its name, of the file or of the database before.
<1>9. ASSUME NEW r \in refs'
      PROVE  \/ /\ r \in refs /\ r.path # f
                /\ \A s \in SymbolsOf(f) : r.symbol # s.id
             \/ /\ r.path = f /\ r.name \in Names
                /\ r = [symbol |-> r.symbol, path |-> f, name |-> r.name]
                /\ \E t \in symbols \cup own : r.symbol = t.id /\ r.name = t.name
  <2>1. CASE r \in Kept(f).refs
    BY <2>1 DEF Kept
  <2>2. CASE r \notin Kept(f).refs
    <3>1. PICK n \in Uses[c] :
            \E i \in Target(n, own) : r = [symbol |-> i, path |-> f, name |-> n]
      BY <1>1, <1>2, <1>9, <2>2
    <3>2. PICK i \in Target(n, own) : r = [symbol |-> i, path |-> f, name |-> n]
      BY <3>1
    <3>3. \E t \in symbols \cup own : i = t.id /\ n = t.name
      BY <3>2 DEF Target, Symdef
    <3>4. n \in Names
      BY DEF Names
    <3>5. QED
      BY <3>2, <3>3, <3>4
  <2>3. QED
    BY <2>1, <2>2
<1>10. TablesTyped'
  <2>1. files' \in [Files -> Nat \cup {None}]
    BY <1>1 DEF TableInv, TablesTyped
  <2>2. symbols' \subseteq [id : 1 .. Len(made'), name : Names, path : Files]
    <3>1. SUFFICES ASSUME NEW s \in symbols'
                   PROVE  s \in [id : 1 .. Len(made'), name : Names, path : Files]
      OBVIOUS
    <3>2. CASE s \in symbols
      BY <1>5, <1>6, <3>2
    <3>3. CASE s \in own
      BY <1>4, <1>5, <3>3
    <3>4. QED
      BY <1>7, <3>2, <3>3
  <2>3. refs' \subseteq [symbol : 1 .. Len(made'), path : Files, name : Names]
    <3>1. SUFFICES ASSUME NEW r \in refs'
                   PROVE  r \in [symbol : 1 .. Len(made'), path : Files, name : Names]
      OBVIOUS
    <3>2. CASE r \in refs
      BY <1>5, <1>6, <3>2
    <3>3. CASE r \notin refs
      <4>1. PICK t \in symbols \cup own : r = [symbol |-> t.id, path |-> f, name |-> r.name]
        BY <1>9, <3>3
      <4>2. t.id \in 1 .. Len(made')
        BY <1>4, <1>5, <1>6
      <4>3. r.name \in Names
        BY <1>9, <3>3
      <4>4. QED
        BY <4>1, <4>2, <4>3
    <3>4. QED
      BY <3>2, <3>3
  <2>4. QED
    BY <1>5, <2>1, <2>2, <2>3 DEF TablesTyped
<1>11. IdsUnique' /\ IdsMade'
  <2>1. \A s \in symbols : made[s.id] = s.path
    BY DEF TableInv, IdsMade
  <2>2. IdsMade'
    BY <1>4, <1>5, <1>6, <1>7, <2>1 DEF IdsMade
  <2>3. QED
    BY <1>7, <1>8, <2>2 DEF IdsUnique
<1>12. CallersTruthful'
  <2>1. SUFFICES ASSUME NEW s \in symbols', NEW r \in refs', r.symbol = s.id
                 PROVE  r.name = s.name
    BY DEF CallersTruthful, Callers, Symdef
  <2>2. CASE r \in refs
    <3>1. r.symbol \in 1 .. Len(made)
      BY <1>6, <2>2
    <3>2. s \in symbols /\ s.name \in Names
      BY <1>4, <1>5, <1>6, <1>7, <2>1, <3>1
    <3>3. QED
      BY <2>1, <2>2, <3>2 DEF TableInv, CallersTruthful, Callers, Symdef
  <2>3. CASE r \notin refs
    BY <1>7, <1>8, <1>9, <2>1, <2>3
  <2>4. QED
    BY <2>2, <2>3
<1>13. DanglingIsOwn'
  <2>1. SUFFICES ASSUME NEW r \in refs', \A s \in symbols' : s.id # r.symbol
                 PROVE  made'[r.symbol] = r.path
    BY DEF DanglingIsOwn
  <2>2. CASE /\ r \in refs /\ r.path # f /\ \A s \in SymbolsOf(f) : r.symbol # s.id
    <3>1. \A s \in symbols : s.id # r.symbol
      BY <1>7, <2>1, <2>2
    <3>2. made[r.symbol] = r.path /\ r.symbol \in 1 .. Len(made)
      BY <1>6, <2>2, <3>1 DEF TableInv, DanglingIsOwn
    <3>3. QED
      BY <1>5, <3>2
  <2>3. CASE r.path = f /\ \E t \in symbols \cup own : r.symbol = t.id /\ r.name = t.name
    <3>1. PICK t \in symbols \cup own : r.symbol = t.id
      BY <2>3
    <3>2. t \in SymbolsOf(f)
      BY <1>7, <2>1, <3>1
    <3>3. made[t.id] = f /\ t.id \in 1 .. Len(made)
      BY <1>6, <3>2 DEF SymbolsOf, TableInv, IdsMade
    <3>4. QED
      BY <1>5, <2>3, <3>1, <3>3
  <2>4. QED
    BY <1>9, <2>2, <2>3
<1>14. SymbolsOf(f)' = own /\ \A g \in Files \ {f} : SymbolsOf(g)' = SymbolsOf(g)
  BY <1>4, <1>7 DEF SymbolsOf
<1>15. QED
  <2>1. TableInv'
    BY <1>10, <1>11, <1>12, <1>13 DEF TableInv
  <2>2. QED
    BY <1>1, <1>3, <1>4, <1>14, <2>1

LEMMA IndexFileStep ==
  ASSUME Parts, NEW b \in Builders, IndexFile(b)
  PROVE  Parts'
<1>1. /\ UNCHANGED treeVars /\ fresh' = fresh /\ clean' = clean /\ Walking(b)
      /\ build[b].read # None /\ Index(File(b), build[b].read, build[b].seen)
  BY DEF IndexFile, RecordedTime
<1>2. /\ BuildTyped /\ OneClean /\ FreshIsWhole /\ TreeTyped /\ StaleIsNoticed /\ TimesInOrder
      /\ TableInv /\ files \in [Files -> Nat \cup {None}]
      /\ mtime' = mtime /\ content' = content /\ clock' = clock /\ twice' = twice
  BY <1>1 DEF Parts, treeVars, TableInv, TablesTyped
<1>3. PICK i \in DOMAIN Order : i = build[b].at
  BY <1>1 DEF Walking
<1>4. PICK f \in Files : f = Order[i] /\ f = File(b)
  BY <1>3, FilesOrdered DEF File
<1>5. /\ i \in Nat /\ i # 0 /\ i + 1 \in 0 .. Len(Order) + 1 /\ i + 1 # 0 /\ b \in Building
  BY <1>3, FilesOrdered DEF Building
<1>6. BuildInOrder(b) /\ (b \in clean => CleanKnows(b))
  BY DEF Parts
<1>7. build[b].read \in Contents /\ build[b].seen \in Nat
  BY <1>1, <1>2, <1>6 DEF BuildTyped, BuildInOrder, Progress
<1>8. PICK c \in Contents, time \in Nat : c = build[b].read /\ time = build[b].seen
  BY <1>7
<1>9. /\ time <= mtime[f]
      /\ time = mtime[f] => c = content[f] \/ f \in twice
      /\ b \in clean => time = mtime[f] /\ c = content[f]
  BY <1>1, <1>3, <1>4, <1>6, <1>7, <1>8, NoneApart DEF BuildInOrder, CleanKnows
<1>10. /\ TableInv' /\ files' = [files EXCEPT ![f] = time]
       /\ {s.name : s \in SymbolsOf(f)'} = Defs[c]
       /\ Cardinality(SymbolsOf(f)') = Cardinality(Defs[c])
       /\ \A g \in Files \ {f} : SymbolsOf(g)' = SymbolsOf(g)
  BY <1>1, <1>2, <1>4, <1>8, IndexTables
\* The file is indexed as the content that was read; the others as before.
<1>11. c = content[f] => Reflects(f)' /\ Whole(f)'
  BY <1>2, <1>10 DEF Reflects, Whole
<1>12. \A g \in Files \ {f} : (Reflects(g)' <=> Reflects(g)) /\ (Whole(g)' <=> Whole(g))
  BY <1>2, <1>10, SameWhole
<1>13. b \in clean => \A g \in Files : Whole(g) => Whole(g)'
  BY <1>9, <1>11, <1>12
<1>14. TreeTyped' /\ TimesInOrder'
  <2>1. TreeTyped'
    BY <1>2 DEF TreeTyped
  <2>2. ASSUME NEW g \in Files
        PROVE  mtime'[g] <= clock' /\ (files'[g] # None => files'[g] <= mtime'[g])
    BY <1>2, <1>9, <1>10 DEF TimesInOrder
  <2>3. QED
    BY <2>1, <2>2 DEF TimesInOrder
<1>15. StaleIsNoticed'
  <2>1. SUFFICES ASSUME NEW g \in Files, content'[g] # None, files'[g] = mtime'[g]
                 PROVE  Reflects(g)' \/ g \in twice'
    BY DEF StaleIsNoticed
  <2>2. CASE g = f
    BY <1>2, <1>9, <1>10, <1>11, <2>1, <2>2
  <2>3. CASE g # f
    BY <1>2, <1>10, <1>12, <2>1, <2>3 DEF StaleIsNoticed
  <2>4. QED
    BY <2>2, <2>3
\* With a clean build under way or ended, this one is clean too.
<1>16. fresh \/ clean # {} => b \in clean
  BY <1>2, <1>5 DEF OneClean
<1>17. FreshIsWhole' /\ fresh' \in BOOLEAN
  <2>1. fresh => \A g \in Files : Whole(g)
    BY <1>2 DEF FreshIsWhole, Whole
  <2>2. fresh => \A g \in Files : Whole(g)'
    BY <1>13, <1>16, <2>1
  <2>3. QED
    BY <1>1, <1>2, <2>2 DEF FreshIsWhole, Whole, BuildTyped
<1>18. build' = [build EXCEPT ![b] = Walk(i + 1)]
  BY <1>3 DEF IndexFile, Advance
<1>19. /\ Walk(i + 1) \in Progress
       /\ Walk(i + 1).at = i + 1 /\ Walk(i + 1).seen = None /\ Walk(i + 1).read = None
  BY <1>5, WalkType
<1>20. /\ build'[b] = Walk(i + 1) /\ Building' = Building
       /\ build' \in [Builders -> Progress] /\ \A d \in Builders \ {b} : build'[d] = build[d]
  <2>1. b \in Builders /\ Walk(i + 1) \in Progress /\ Walk(i + 1).at # 0
    BY <1>5, <1>19
  <2>2. build'[b] = Walk(i + 1) /\ Building' = Building
    BY <1>2, <1>5, <1>18, <2>1, StillBuilding
  <2>3. build' \in [Builders -> Progress] /\ \A d \in Builders \ {b} : build'[d] = build[d]
    BY <1>2, <1>18, <2>1, OneBuild
  <2>4. QED
    BY <2>2, <2>3
<1>21. BuildTyped' /\ OneClean'
  BY <1>1, <1>2, <1>20 DEF BuildTyped, OneClean
<1>22. ASSUME NEW d \in Builders PROVE BuildInOrder(d)'
  <2>1. CASE d = b
    BY <1>19, <1>20, <2>1 DEF BuildInOrder
  <2>2. CASE d # b
    <3>1. build'[d] = build[d] /\ BuildInOrder(d)
      BY <1>20, <2>2 DEF Parts
    <3>2. QED
      BY <1>2, <3>1 DEF BuildInOrder
  <2>3. QED
    BY <2>1, <2>2
<1>23. ASSUME NEW d \in clean' PROVE CleanKnows(d)'
  <2>1. d \in clean /\ d \in Builders /\ CleanKnows(d) /\ b \in clean
    BY <1>1, <1>2, <1>16, <1>23 DEF Parts, BuildTyped, Building
  <2>2. \A g \in Files : Whole(g) => Whole(g)'
    BY <1>13, <2>1
  <2>3. CASE d # b
    BY <1>2, <1>20, <2>1, <2>2, <2>3, SameBuild
  <2>4. CASE d = b
    <3>1. ASSUME NEW j \in DOMAIN Order, j < i + 1 PROVE Whole(Order[j])'
      <4>1. CASE j = i
        BY <1>4, <1>9, <1>11, <2>1, <4>1
      <4>2. CASE j # i
        <5>1. j < build[b].at
          BY <1>3, <1>5, <3>1, <4>2, FilesOrdered
        <5>2. Whole(Order[j]) /\ Order[j] \in Files
          BY <2>1, <2>4, <5>1, FilesOrdered DEF CleanKnows
        <5>3. QED
          BY <2>2, <5>2
      <4>3. QED
        BY <4>1, <4>2
    <3>2. QED
      BY <1>19, <1>20, <2>4, <3>1 DEF CleanKnows
  <2>5. QED
    BY <2>3, <2>4
<1>24. QED
  BY <1>10, <1>14, <1>15, <1>17, <1>21, <1>22, <1>23 DEF Parts
-----------------------------------------------------------------------------
(* The theorems. *)

\* IndexInv is an invariant: types, and what tables, builds and clean builds have to do
\* with the tree (irindex.go:86-195, irparse.go:66-100).
THEOREM IndexInvariant == Spec => []IndexInv
<1>1. Init => IndexInv
  BY InitHolds
<1>2. IndexInv /\ [Next]_vars => IndexInv'
  <2>1. SUFFICES ASSUME Parts, [Next]_vars PROVE Parts'
    BY IndexParts
  <2>2. CASE Tick
    BY <2>1, <2>2, TickStep
  <2>3. ASSUME NEW f \in Files, NEW c \in Contents \cup {None}, Change(f, c) PROVE Parts'
    BY <2>1, <2>3, ChangeStep
  <2>4. ASSUME NEW b \in Builders,
               Begin(b) \/ Visit(b) \/ ReadFile(b) \/ IndexFile(b) \/ IndexFails(b) \/ End(b)
        PROVE  Parts'
    BY <2>1, <2>4, BeginStep, VisitStep, ReadFileStep, IndexFileStep, IndexFailsStep, EndStep
  <2>5. CASE UNCHANGED vars
    <3>1. UNCHANGED treeVars /\ UNCHANGED tableVars /\ build' = build
          /\ clean' = clean /\ fresh' = fresh
      BY <2>5 DEF vars
    <3>2. /\ TreeTyped' /\ TableInv' /\ TimesInOrder' /\ StaleIsNoticed'
          /\ \A f \in Files : Whole(f)' <=> Whole(f)
      BY <2>1, <3>1, SameTree
    <3>3. BuildTyped' /\ OneClean' /\ FreshIsWhole'
      BY <2>1, <3>1, <3>2 DEF Parts, BuildTyped, OneClean, Building, FreshIsWhole, Whole
    <3>4. UNCHANGED <<content, mtime, twice>> /\ BuildTyped
      BY <2>1, <3>1 DEF treeVars, Parts
    <3>5. \A b \in Builders : BuildInOrder(b)'
      BY <2>1, <3>1, <3>2, <3>4, SameBuild DEF Parts
    <3>6. \A b \in clean' : CleanKnows(b)'
      BY <2>1, <3>1, <3>2, <3>4, SameBuild DEF Parts, BuildTyped, Building
    <3>7. QED
      BY <3>2, <3>3, <3>5, <3>6 DEF Parts
  <2>6. QED
    BY <2>1, <2>2, <2>3, <2>4, <2>5 DEF Next
<1>3. QED
  BY <1>1, <1>2, PTL DEF Spec

\* A file that the next build would pass over is indexed as it is, and after a build that
\* nothing overlapped every file is, unless it changed twice within a second, whatever
\* builds ran before or beside it (irindex.go:115-128, irparse.go:66-100).
THEOREM IndexIsFollowed == Spec => []IndexFollows
  BY IndexInvariant, PTL DEF IndexInv, IndexFollows

\* The callers that the index gives of a name do refer to it, and a reference whose symbol
\* is gone is a file's own to what it defined before, for any files that share names
\* and in any order of builds (irindex.go:145-195).
THEOREM ReferencesTrue == Spec => []RefsTruthful
  BY IndexInvariant, PTL DEF IndexInv, RefsTruthful
=============================================================================
