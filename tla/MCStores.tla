------------------------------ MODULE MCStores ------------------------------
EXTENDS PageFaultProperties, TLC

CONSTANTS w1, w2, p1, p2, b1, b2, m1, symdef, callers

\* The second prompt changes the first section and adds one.
MCSections == (p1 :> <<"x", "y">>) @@ (p2 :> <<"z", "y", "x">>)

\* PF_SYMDEF answers with the definition and, prefetched, the callers; PF_CALLERS with
\* the callers, which before an indexing are another blob.
MCAnswers == (symdef :> {<<b1, b2>>}) @@ (callers :> {<<b2>>, <<p1>>})
MCSize == [b \in Blobs |-> 1]
=============================================================================
