------------------------------ MODULE Catalog ------------------------------
(***************************************************************************)
(* The catalogue of the bundles in a library (internal/serve/catalog.go):  *)
(* the entries a serving process keeps in memory, the sidecar file it      *)
(* saves them to, and the refreshes that reconcile them with the tree.     *)
(*                                                                         *)
(* An entry is what decides about it: the stamp of its manifest and        *)
(* provenance, and the fields its researcher wrote.  Titles read from the  *)
(* manifest, page counts and byte totals are left out; a stamp is the      *)
(* edition the bundle shows, so two editions never share one.  A step is   *)
(* what the code does under c.mu, the read of the tree a step of its own.  *)
(***************************************************************************)
EXTENDS Shelf, Naturals

CONSTANTS
  Text,       \* what a researcher may write as title or notes
  Tag,        \* tags, compared without case
  Blank,      \* no text
  Editions,   \* bounds the editions of a bundle
  Refresher   \* the ticker and the handlers of the refresh route

ASSUME CatalogAssumption == Blank \notin Text /\ Editions \in Nat \ {0}

VARIABLES
  tree,       \* what is on disk of a bundle
  file,       \* catalog.json
  entries,    \* the entries in memory
  loadErr,    \* catalog.json could not be read: it is not written either
  foreign,    \* catalog.json is not the one this process read or wrote last
  refresh,    \* where each refresh stands and what it scanned
  outdated,   \* history: refreshes whose scan is older than the last install
  acked       \* history: the research last reported as saved

catalogFiles  == <<tree, file>>
catalogMemory == <<entries, loadErr, foreign, refresh, outdated>>
catalogVars   == <<catalogFiles, catalogMemory, acked>>

\* The disk: nothing, a bundle without provenance, or its n-th edition.
Absent  == 0
Partial == 1
Committed(stamp) == stamp > Partial

Research   == [title : Text \cup {Blank}, tags : SUBSET Tag]
NoResearch == [title |-> Blank, tags |-> {}]

Entry     == [stamp : Nat, research : Research]
Unlisted  == [stamp |-> Absent, research |-> NoResearch]
Listed(e) == e.stamp # Absent
NoEntries == [b \in Bundle |-> Unlisted]

Idle == [at |-> "idle", fresh |-> NoEntries]

CatalogTypeOK ==
  /\ tree \in [Bundle -> 0..(Partial + Editions)]
  /\ file \in [Bundle -> Entry]
  /\ entries \in [Bundle -> Entry]
  /\ loadErr \in BOOLEAN
  /\ foreign \in BOOLEAN
  /\ refresh \in [Refresher -> [at : {"idle", "scan", "install"},
                                fresh : [Bundle -> Entry]]]
  /\ outdated \subseteq Refresher
  /\ acked \in [Bundle -> Research]

CatalogInit ==
  /\ tree \in [Bundle -> {Absent, Partial, Partial + 1}]
  /\ file = NoEntries
  /\ entries = NoEntries
  /\ loadErr = FALSE
  /\ foreign = FALSE
  /\ refresh = [r \in Refresher |-> Idle]
  /\ outdated = {}
  /\ acked = [b \in Bundle |-> NoResearch]

-----------------------------------------------------------------------------
(* The library on disk, changed by iiifpreserve and by hand.               *)

BundleGrows(b) ==
  /\ tree[b] < Partial + Editions
  /\ tree' = [tree EXCEPT ![b] = @ + 1]
  /\ UNCHANGED <<file, catalogMemory, acked>>

-----------------------------------------------------------------------------
(* Reading and writing the index.                                          *)

\* What newCatalog makes of the disk; an unreadable tree counts as an empty
\* one, an unreadable index leaves the researcher's fields blank.
NewCatalog(scanned, readable) ==
  [b \in Bundle |->
    IF scanned /\ Committed(tree[b])
    THEN [stamp |-> tree[b],
          research |-> IF readable THEN file[b].research ELSE NoResearch]
    ELSE Unlisted]

Open(scanned, readable) ==
  /\ entries' = NewCatalog(scanned, readable)
  /\ loadErr' = ~readable
  /\ foreign' = FALSE
  /\ refresh' = [r \in Refresher |-> Idle]
  /\ outdated' = {}
  /\ UNCHANGED <<catalogFiles, acked>>

Save(written) ==
  IF written /\ ~loadErr
  THEN file' = entries' /\ foreign' = FALSE
  ELSE UNCHANGED <<file, foreign>>

\* A failed save is rolled back: it leaves no trace.
Update(b, research) ==
  /\ Listed(entries[b])
  /\ ~loadErr
  /\ entries' = [entries EXCEPT ![b].research = research]
  /\ Save(TRUE)
  /\ acked' = [acked EXCEPT ![b] = research]
  /\ UNCHANGED <<tree, loadErr, refresh, outdated>>

SaveSizes(written) ==
  /\ entries' = entries
  /\ Save(written)
  /\ UNCHANGED <<tree, loadErr, refresh, outdated, acked>>

-----------------------------------------------------------------------------
(* A refresh: reload the index if another process wrote it, scan, install. *)

Reloaded ==
  [b \in Bundle |->
    IF Listed(entries[b]) /\ Listed(file[b])
    THEN [entries[b] EXCEPT !.research = file[b].research]
    ELSE entries[b]]

Reload(r, readable) ==
  /\ refresh[r].at = "idle"
  /\ refresh' = [refresh EXCEPT ![r].at = "scan"]
  /\ \/ /\ ~foreign
        /\ UNCHANGED <<entries, loadErr, foreign>>
     \/ /\ foreign /\ readable
        /\ entries' = Reloaded
        /\ loadErr' = FALSE
        /\ foreign' = FALSE
     \/ /\ foreign /\ ~readable
        /\ loadErr' = TRUE
        /\ UNCHANGED <<entries, foreign>>
  /\ UNCHANGED <<catalogFiles, outdated, acked>>

\* An unfinished bundle keeps the entry it had, if it had one.
Scanned ==
  [b \in Bundle |->
    CASE tree[b] = Absent -> Unlisted
      [] tree[b] = Partial \/ entries[b].stamp = tree[b] -> entries[b]
      [] OTHER -> [stamp |-> tree[b], research |-> NoResearch]]

Scan(r) ==
  /\ refresh[r].at = "scan"
  /\ refresh' = [refresh EXCEPT ![r] = [at |-> "install", fresh |-> Scanned]]
  /\ UNCHANGED <<catalogFiles, entries, loadErr, foreign, outdated, acked>>

\* Mutant of ScanFails: the scan that failed is installed as an empty one.
ScanFailsEmpty(r) ==
  /\ refresh[r].at = "scan"
  /\ refresh' = [refresh EXCEPT ![r] = [at |-> "install", fresh |-> NoEntries]]
  /\ UNCHANGED <<catalogFiles, entries, loadErr, foreign, outdated, acked>>

ScanFails(r) ==
  /\ refresh[r].at = "scan"
  /\ refresh' = [refresh EXCEPT ![r] = Idle]
  /\ UNCHANGED <<catalogFiles, entries, loadErr, foreign, outdated, acked>>

\* Mutant of Installed: the fields are those of the snapshot.
InstalledAsScanned(r) == refresh[r].fresh

Installed(r) ==
  LET fresh == refresh[r].fresh IN
  [b \in Bundle |->
    IF Listed(fresh[b]) /\ Listed(entries[b])
    THEN [fresh[b] EXCEPT !.research = entries[b].research]
    ELSE fresh[b]]

Changes(r) == Installed(r) # entries

Install(r, written) ==
  /\ refresh[r].at = "install"
  /\ refresh' = [refresh EXCEPT ![r] = Idle]
  /\ entries' = Installed(r)
  /\ IF Changes(r) THEN Save(written) ELSE UNCHANGED <<file, foreign>>
  /\ outdated' =
       {s \in Refresher \ {r} : refresh[s].at = "install" /\ Changes(r)}
         \cup (outdated \ {r})
  /\ UNCHANGED <<tree, loadErr, acked>>
=============================================================================
