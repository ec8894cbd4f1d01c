--------------------------- MODULE MCIntegration ---------------------------
(* Instances of Integration for TLC: two missions, two files, a few answers. *)
EXTENDS IntegrationProperties

CONSTANTS m1, m2, f1, f2, fn, x, y

MCMentions == [t \in Text |-> IF t = y THEN {fn} ELSE {}]
MCFileScope == [p \in Paths |-> p]
MCInitialFiles == [p \in Paths |-> IF p = f1 THEN <<x, y>> ELSE <<y>>]

\* What the planners' searches found: m1's task is about f1, m2's about a symbol.
MCPlanned == [m \in Missions |-> IF m = m1 THEN {f1} ELSE {fn}]

Op(kind, path, first, content) ==
  [kind |-> kind, path |-> path, first |-> first, last |-> first, symbol |-> fn,
   content |-> content, anchor |-> <<>>]

Reply(ops, files, symbols) == [ops |-> ops, files |-> files, symbols |-> symbols]

OneSpan   == <<Op("replace_span", f1, 1, <<y>>)>>
TwoFiles  == <<Op("replace_line", f1, 2, <<x>>), Op("insert_after_symbol", f2, 1, <<x>>)>>
Move      == <<Op("delete_file", f2, 1, <<>>), Op("add_file", f1, 1, <<x>>)>>
SameFile  == <<Op("delete_span", f1, 1, <<>>), Op("replace_span", f1, 1, <<x>>)>>
Emptied   == <<Op("delete_span", f2, 1, <<>>)>>

\* Manifests that list every file the operations name.
HonestAnswers ==
  {Reply(OneSpan, {f1}, {}), Reply(TwoFiles, {f1, f2}, {fn}), Reply(Move, {f1, f2}, {}),
   Reply(SameFile, {f1}, {}), Reply(Emptied, {f2}, {})}

\* With them two whose manifests leave a file out.
AllAnswers == HonestAnswers \cup {Reply(OneSpan, {}, {}), Reply(TwoFiles, {f1}, {fn})}
=============================================================================
