------------------------------ MODULE MCIngest ------------------------------
(* A root collection that lists a manifest and a second collection, which  *)
(* lists a second manifest and the root.                                   *)
EXTENDS Ingest

CONSTANTS c1, c2, m1, m2, m3

MCCollection == {c1, c2}
\* No document lists m3.
MCManifest == {m1, m2, m3}

Doc(ms, cs) == [manifests |-> ms, collections |-> cs]

\* The server adds a manifest to the root and withdraws the other one.
EditedDocuments ==
  [c \in MCCollection |-> IF c = c1 THEN {Doc({m1}, {c2}), Doc({m2}, {})}
                                    ELSE {Doc({m2}, {c1})}]

OneLegacy == {m1}
MixedLegacy == {m1, m3}
=============================================================================
