----------------------------- MODULE MCPreserve -----------------------------
(* Two services; a may later deliver a second scan of the same size.       *)
EXTENDS Preserve, TLC

CONSTANTS a, b, a1, a2, b1

MCServiceOf == [i \in Image |-> i]
MCScans     == (a :> {a1, a2}) @@ (b :> {b1})
MCSizeOf    == [s \in {a1, a2, b1} |-> 1]

\* A page, and an edition that adds another before it.
MCEditions == {<<a>>, <<b, a>>}
=============================================================================
