------------------------ MODULE MCCollectionFrontier ------------------------
(* Three collections that list each other in a cycle, one of them edited   *)
(* by the server between two fetches, and three manifests of which one is  *)
(* listed twice.                                                           *)
EXTENDS CollectionFrontier

CONSTANTS c1, c2, c3, m1, m2, m3

MCCollection == {c1, c2, c3}
MCManifest == {m1, m2, m3}

Doc(ms, cs) == [manifests |-> ms, collections |-> cs]

MCDocuments ==
  [c \in MCCollection |->
     CASE c = c1 -> {Doc({m1}, {c2}), Doc({m1, m3}, {c2, c3})}
       [] c = c2 -> {Doc({m1, m2}, {c1, c3})}
       [] c = c3 -> {Doc({m3}, {c2, c3}), Doc({}, {})}]
=============================================================================
