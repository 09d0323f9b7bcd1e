--------------------------- MODULE MCFileJournal ----------------------------
(* Two URLs of which the first is a prefix of the second, as page numbers  *)
(* are, so that a torn record of the second can read as the first.         *)
EXTENDS FileJournal

CONSTANTS u1, u10

MCURL == {u1, u10}
MCTorn == [u \in MCURL |-> IF u = u10 THEN {Garbage, u1} ELSE {Garbage}]
=============================================================================
