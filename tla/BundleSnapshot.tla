--------------------------- MODULE BundleSnapshot ---------------------------
(***************************************************************************)
(* What the library promises of one bundle: it shows no edition of the     *)
(* manifest or a whole one, and an edition is only ever replaced by one    *)
(* that still presents every image of it (preserve.ErrRefreshRemovesImages *)
(* and the comment above it).                                              *)
(***************************************************************************)
EXTENDS Naturals, FiniteSets, Sequences

CONSTANTS
  Image,      \* an image of a canvas
  ServiceOf,  \* its image service, which is its identity
  Editions,   \* the manifests a library may serve, as sequences of images
  None

VARIABLE committed   \* the edition shown, or None

Presented(edition, service) ==
  Cardinality({i \in DOMAIN edition : ServiceOf[edition[i]] = service})

Keeps(edition, former) ==
  \A i \in DOMAIN former :
    LET service == ServiceOf[former[i]]
    IN Presented(edition, service) >= Presented(former, service)

Init == committed = None

Commit(edition) ==
  /\ committed = None \/ Keeps(edition, committed)
  /\ committed' = edition

Next == \E edition \in Editions : Commit(edition)

Spec == Init /\ [][Next]_committed
=============================================================================
