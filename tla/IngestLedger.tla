---------------------------- MODULE IngestLedger ----------------------------
(***************************************************************************)
(* What a resumable collection ingest promises, whatever happens to the    *)
(* processes that run it (SOURCE_INGESTION.md, slices 2 and 3): the set of *)
(* manifests it knows only grows, a manifest gets its final disposition    *)
(* only after it is known, a disposition is never undone, and only -fresh  *)
(* forgets, the known manifests before the dispositions.  Completions of   *)
(* a former journal are imported as they are.                              *)
(***************************************************************************)
CONSTANTS
  Manifest,
  Legacy      \* the completions recorded in the former -journal file

VARIABLES
  known,      \* manifests the ingest has durably discovered
  disposed    \* manifests whose final disposition is durable

ledgerVars == <<known, disposed>>

Init ==
  /\ known = {}
  /\ disposed = {}

Discover(S) ==
  /\ known' = known \cup S
  /\ UNCHANGED disposed

Dispose(m) ==
  /\ m \in known
  /\ disposed' = disposed \cup {m}
  /\ UNCHANGED known

Import(m) ==
  /\ m \in Legacy
  /\ disposed' = disposed \cup {m}
  /\ UNCHANGED known

ForgetKnown ==
  /\ known' = {}
  /\ UNCHANGED disposed

ForgetDisposed ==
  /\ known = {}
  /\ disposed' = {}
  /\ UNCHANGED known

Next ==
  \/ \E S \in SUBSET Manifest : Discover(S)
  \/ \E m \in Manifest : Dispose(m) \/ Import(m)
  \/ ForgetKnown
  \/ ForgetDisposed

Spec == Init /\ [][Next]_ledgerVars
=============================================================================
