------------------------------- MODULE Doctor -------------------------------
(***************************************************************************)
(* The library doctor (internal/serve/doctor.go) on a bundle: what         *)
(* DiagnoseLibrary reports of the linked resources that Preserve recorded, *)
(* whose state it reads.  Its computation for a pyramid is in TilePlan.    *)
(***************************************************************************)
EXTENDS LinkedResources

\* The references of the active manifest that have no record.
Missing == {r \in active : r.url \notin DOMAIN linked}

\* recommendManifestRerun.
RerunRecommended == failures # {} \/ Missing # {}

\* Records whose file is missing, or not of the recorded digest.
Broken == {u \in DOMAIN linked : files[linked[u].file] # linked[u].content}

-----------------------------------------------------------------------------
(* Properties.                                                             *)

Follows(u) ==
  IF u \in DOMAIN linked /\ linked[u].kind = "annotation"
       /\ linked[u].content.form = "graph"
  THEN Urls(linked[u].content.refs) ELSE {}

\* What the active manifest leads to through the annotations on record.
Reached ==
  {u \in Resource :
     \A S \in SUBSET Resource :
       Urls(active) \subseteq S /\ (\A v \in S : Follows(v) \subseteq S) => u \in S}

\* linked.go:218-317, doctor.go:146-228: if anything the manifest leads to,
\* however indirectly, has no record, a rerun is recommended: failures, the
\* bound, kills, reuse and later manifests included.
GapsAreReported ==
  active # None => Reached \subseteq DOMAIN linked \/ RerunRecommended

\* linked.go:230-317, preserve.go:366-398: a commit takes a record away only
\* if it reports the resource as failed, whatever the new manifest refers to;
\* if it reports none and no file was lost, all the manifest leads to is whole.
CommitAccountsForAll ==
  [][linked' # linked =>
       /\ \A u \in DOMAIN linked \ DOMAIN linked' : u \in failures'
       /\ losses' = 0 /\ failures' = {} => Broken' \cap Reached' = {}]_vars
=============================================================================
