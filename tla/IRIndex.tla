------------------------------- MODULE IRIndex -------------------------------
(***************************************************************************)
(* Heaven's symbol index (src/heaven/irindex.go, irparse.go) and the tree  *)
(* of files it is built from.  A build walks the tree and indexes a file   *)
(* whose modification time, in seconds, is not the recorded one.  A file   *)
(* is read, and then written to the index in one transaction; a symbol of  *)
(* another file is looked up outside of that transaction, in the state the *)
(* database had before it.  Nothing keeps two builds apart, and the files  *)
(* change at any time.                                                     *)
(***************************************************************************)
EXTENDS Naturals, Sequences, FiniteSets

CONSTANTS Order,      \* the files, in the order the walk meets them
          Contents,   \* what a file may hold
          Defs, Uses, \* the names a content defines, and refers to
          Builders,   \* goroutines of POST /ir/build
          None,
          MaxTime, MaxEdits, MaxBuilds \* bounds: seconds, changes, builds

Files == {Order[i] : i \in DOMAIN Order}
Names == UNION {Defs[c] \cup Uses[c] : c \in Contents}

ASSUME IndexAssumption ==
  /\ Order \in Seq(Files) /\ None \notin Contents \cup Nat
  /\ Defs \in [Contents -> SUBSET Names] /\ Uses \in [Contents -> SUBSET Names]
  /\ \A c \in Contents : IsFiniteSet(Defs[c])
  /\ MaxTime \in Nat /\ MaxEdits \in Nat /\ MaxBuilds \in Nat

VARIABLES
  clock, content, mtime,  \* the second; of a file its content (None: deleted) and its time
  files,     \* table files: the recorded time of a file, or None
  symbols,   \* table symbols: id, name and path
  refs,      \* table refs: the symbol's id and the path; name is a ghost, what is referred to
  made,      \* the paths of all symbols ever inserted: its length is the AUTOINCREMENT counter
  build,     \* of a goroutine: the file its walk is at (0: no build), the time it saw of
             \* a file that needs indexing and the content it read, or None
  edits, builds,
  twice,     \* ghost: the files that changed again in the second of their last change
  clean,     \* ghost: builds under way with no change, and no build, from before their start
  fresh      \* ghost: a clean build has ended since the last change

treeVars == <<clock, content, mtime, edits, twice>>
tableVars == <<files, symbols, refs, made>>
vars == <<treeVars, tableVars, build, builds, clean, fresh>>

Walk(i) == [at |-> i, seen |-> None, read |-> None]

Init ==
  /\ clock = 1 /\ edits = 0 /\ builds = 0
  /\ content \in [Files -> Contents] /\ mtime = [f \in Files |-> 0]
  /\ files = [f \in Files |-> None] /\ symbols = {} /\ refs = {} /\ made = <<>>
  /\ build = [b \in Builders |-> Walk(0)]
  /\ twice = {} /\ clean = {} /\ fresh = FALSE
-----------------------------------------------------------------------------
(* The tree. *)

Tick ==
  /\ clock < MaxTime /\ clock' = clock + 1
  /\ UNCHANGED <<content, mtime, edits, twice, tableVars, build, builds, clean, fresh>>

\* A file is rewritten, or deleted for good.
Change(f, c) ==
  /\ edits < MaxEdits /\ edits' = edits + 1
  /\ content[f] \notin {None, c}
  /\ content' = [content EXCEPT ![f] = c]
  /\ mtime' = [mtime EXCEPT ![f] = clock]
  /\ twice' = IF mtime[f] = clock THEN twice \cup {f} ELSE twice \ {f}
  /\ fresh' = FALSE /\ clean' = {}
  /\ UNCHANGED <<clock, tableVars, build, builds>>
-----------------------------------------------------------------------------
(* The tables. *)

Symdef(name) == {s \in symbols : s.name = name}
Callers(name) == {r \in refs : \E s \in Symdef(name) : r.symbol = s.id}
SymbolsOf(f) == {s \in symbols : s.path = f}

\* Variant: numbers follow the rows that are left, as without AUTOINCREMENT.
CountRows == Cardinality(symbols)
\* The id after which new symbols are numbered.
LastId == Len(made)

\* The symbol that a reference is linked to: one of the file itself, or else the first
\* row of that name in the database as it was before the transaction.
Target(name, own) ==
  LET mine == {s \in own : s.name = name}
      rows == IF mine # {} THEN mine ELSE Symdef(name)
  IN  {s.id : s \in {t \in rows : \A u \in rows : t.id <= u.id}}

\* BeginFileTx: what is left of the tables without a file.
Kept(f) ==
  [symbols |-> symbols \ SymbolsOf(f),
   refs |-> {r \in refs : r.path # f /\ \A s \in SymbolsOf(f) : r.symbol # s.id}]

\* The transaction of indexFile: the file's definitions, in any order, and its references.
Index(f, c, time) ==
  \E order \in [Defs[c] -> 1 .. Cardinality(Defs[c])] :
    LET own == {[id |-> LastId + order[n], name |-> n, path |-> f] : n \in Defs[c]} IN
    /\ \A n, m \in Defs[c] : order[n] = order[m] => n = m
    /\ symbols' = Kept(f).symbols \cup own
    /\ refs' = Kept(f).refs \cup
         UNION {{[symbol |-> i, path |-> f, name |-> n] : i \in Target(n, own)} : n \in Uses[c]}
    /\ made' = made \o [i \in 1 .. Cardinality(own) |-> f]
    /\ files' = [files EXCEPT ![f] = time]
-----------------------------------------------------------------------------
(* A build. *)

Building == {b \in Builders : build[b].at # 0}
Walking(b) == build[b].at \in DOMAIN Order
File(b) == Order[build[b].at]
Advance(b) == build' = [build EXCEPT ![b] = Walk(@.at + 1)]

Begin(b) ==
  /\ b \notin Building /\ builds < MaxBuilds /\ builds' = builds + 1
  /\ build' = [build EXCEPT ![b] = Walk(1)]
  /\ clean' = IF Building \subseteq clean THEN clean \cup {b} ELSE clean
  /\ UNCHANGED <<treeVars, tableVars, fresh>>

FileNeedsReindex(f) == files[f] # mtime[f]

\* The walk looks at its next file; a deleted one is passed over.
Visit(b) ==
  /\ Walking(b) /\ build[b].seen = None
  /\ IF content[File(b)] # None /\ FileNeedsReindex(File(b))
       THEN build' = [build EXCEPT ![b].seen = mtime[File(b)]]
       ELSE Advance(b)
  /\ UNCHANGED <<treeVars, tableVars, builds, clean, fresh>>

\* The file is read as it is now, whatever time was seen.
ReadFile(b) ==
  /\ Walking(b) /\ build[b].seen # None /\ build[b].read = None
  /\ content[File(b)] # None
  /\ build' = [build EXCEPT ![b].read = content[File(b)]]
  /\ UNCHANGED <<treeVars, tableVars, builds, clean, fresh>>

\* Variant: the time the file has when it is written to the index.
TimeNow(b) == mtime[File(b)]
RecordedTime(b) == build[b].seen

IndexFile(b) ==
  /\ Walking(b) /\ build[b].read # None
  /\ Index(File(b), build[b].read, RecordedTime(b))
  /\ Advance(b)
  /\ UNCHANGED <<treeVars, builds, clean, fresh>>

\* The file cannot be read, or the database stays locked: the build ends there.
IndexFails(b) ==
  /\ Walking(b) /\ build[b].seen # None
  /\ build' = [build EXCEPT ![b] = Walk(0)]
  /\ clean' = clean \ {b}
  /\ UNCHANGED <<treeVars, tableVars, builds, fresh>>

End(b) ==
  /\ build[b].at = Len(Order) + 1
  /\ build' = [build EXCEPT ![b] = Walk(0)]
  /\ fresh' = (fresh \/ b \in clean) /\ clean' = clean \ {b}
  /\ UNCHANGED <<treeVars, tableVars, builds>>

Next ==
  \/ Tick
  \/ \E f \in Files, c \in Contents \cup {None} : Change(f, c)
  \/ \E b \in Builders :
       Begin(b) \/ Visit(b) \/ ReadFile(b) \/ IndexFile(b) \/ IndexFails(b) \/ End(b)

Spec == Init /\ [][Next]_vars
-----------------------------------------------------------------------------
(* What holds of it. *)

\* Types of all variables; an id is the primary key of symbols.
TypeOK ==
  /\ clock \in Nat /\ content \in [Files -> Contents \cup {None}]
  /\ mtime \in [Files -> Nat] /\ files \in [Files -> Nat \cup {None}]
  /\ symbols \subseteq [id : 1 .. Len(made), name : Names, path : Files]
  /\ \A s, t \in symbols : s.id = t.id => s = t
  /\ refs \subseteq [symbol : 1 .. Len(made), path : Files, name : Names]
  /\ made \in Seq(Files)
  /\ build \in [Builders -> [at : 0 .. Len(Order) + 1, seen : Nat \cup {None},
                             read : Contents \cup {None}]]
  /\ twice \subseteq Files /\ clean \subseteq Building /\ fresh \in BOOLEAN

\* The index has each definition of a file's present content once, and nothing else of it.
Reflects(f) ==
  /\ {s.name : s \in SymbolsOf(f)} = Defs[content[f]]
  /\ Cardinality(SymbolsOf(f)) = Cardinality(Defs[content[f]])

\* A file that the next build would pass over is indexed as it is: a build reads the time
\* before the content (BuildIndex, indexFile), so that a change in between is noticed
\* later, and only a second change within one second goes unseen.
StaleIsNoticed ==
  \A f \in Files :
    (content[f] # None /\ files[f] = mtime[f]) => (Reflects(f) \/ f \in twice)

\* A build that no change and no older build overlaps leaves every file of the tree
\* indexed as it is, whatever builds ran before it or run beside it.
FreshIsWhole ==
  fresh => \A f \in Files : content[f] = None \/ Reflects(f) \/ f \in twice

\* A reference that Callers gives for a name is to that name, however often the files of
\* the symbol and of the reference were indexed again.
CallersTruthful == \A n \in Names : \A r \in Callers(n) : r.name = n

\* A reference whose symbol is gone is one that a file made to a definition it had itself
\* before it was indexed again; other files' references go with the symbol (BeginFileTx).
DanglingIsOwn ==
  \A r \in refs : (\A s \in symbols : s.id # r.symbol) => made[r.symbol] = r.path

\* What the index says of a file follows the file (irindex.go:115-128, irparse.go:66-100).
IndexFollows == StaleIsNoticed /\ FreshIsWhole

\* What the index says of references is so, or known to be gone (irindex.go:145-195).
RefsTruthful == TypeOK /\ CallersTruthful /\ DanglingIsOwn
-----------------------------------------------------------------------------
(* The inductive invariant. *)

\* What a file is indexed as is what it holds, as far as a build can know.
Whole(f) == content[f] = None \/ Reflects(f) \/ f \in twice

TimesInOrder ==
  \A f \in Files : mtime[f] <= clock /\ (files[f] # None => files[f] <= mtime[f])

\* What a build read of a file whose time is still the one it saw is what the file holds.
BuildInOrder(b) ==
  LET o == build[b] IN
  /\ o.read # None => o.seen # None
  /\ o.seen # None => o.at \in DOMAIN Order /\ o.seen <= mtime[Order[o.at]]
  /\ o.read # None /\ o.seen = mtime[Order[o.at]] =>
       o.read = content[Order[o.at]] \/ Order[o.at] \in twice

\* As long as a clean build is under way, or since one has ended, all builds under way are
\* clean; a clean build saw and read what is still so, and leaves its files whole.
CleanInOrder ==
  /\ fresh \/ clean # {} => clean = Building
  /\ \A b \in clean :
       LET o == build[b] IN
       /\ o.seen # None => o.seen = mtime[Order[o.at]]
       /\ o.read # None => o.read = content[Order[o.at]]
       /\ \A i \in DOMAIN Order : i < o.at => Whole(Order[i])

IndexInv ==
  /\ TypeOK /\ TimesInOrder /\ (\A b \in Builders : BuildInOrder(b)) /\ CleanInOrder
  /\ StaleIsNoticed /\ FreshIsWhole
  /\ (\A s \in symbols : made[s.id] = s.path) /\ CallersTruthful /\ DanglingIsOwn
=============================================================================
