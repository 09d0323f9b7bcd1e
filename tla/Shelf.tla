------------------------------- MODULE Shelf -------------------------------
(* What the parts of a library have in common: its bundles.                *)
CONSTANTS
  Bundle,  \* the bundle directories of the library
  None
=============================================================================
