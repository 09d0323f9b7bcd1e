---------------------------- MODULE Comparisons ----------------------------
(***************************************************************************)
(* The saved comparisons of a library (internal/serve/comparison_store.go) *)
(* and which selection of manuscripts may become one (comparison.go).  A   *)
(* change is made and saved under one lock; a failed save is rolled back.  *)
(***************************************************************************)
EXTENDS Shelf, FiniteSets, Naturals, Sequences

CONSTANTS
  Comparison,   \* the comparisons somebody may save
  NameOf,       \* their names, trimmed, compared without case
  DocsOf,       \* the manuscripts they show, as sequences
  InitialOf,    \* the canvas each opens at, None if not given
  CanvasIds,    \* the canvases of each bundle's manifest
  MaxSaved      \* maxSavedComparisons

ASSUME ComparisonsAssumption ==
  /\ MaxSaved \in Nat
  /\ \A c \in Comparison : DocsOf[c] \in Seq(Bundle)

VARIABLES
  sets,        \* the comparisons in memory
  setsErr,     \* comparisons.json could not be read: it is not written either
  setsFile,    \* comparisons.json
  setsForeign, \* history: an import wrote the file since memory was read
  compared     \* history: the comparisons reported as saved and not deleted

setsVars == <<sets, setsErr, setsFile, setsForeign, compared>>

ComparisonsTypeOK ==
  /\ sets \subseteq Comparison
  /\ setsErr \in BOOLEAN
  /\ setsFile \subseteq Comparison
  /\ setsForeign \in BOOLEAN
  /\ compared \subseteq Comparison

ComparisonsInit ==
  /\ sets = {}
  /\ setsErr = FALSE
  /\ setsFile = {}
  /\ setsForeign = FALSE
  /\ compared = {}

\* Two to four known manuscripts, none twice, no canvas of two of them, and
\* every initial canvas one of its own manuscript's.
Selectable(c, known) ==
  LET docs == DocsOf[c]
      At   == DOMAIN docs
  IN /\ Len(docs) \in 2..4
     /\ \A i \in At : docs[i] \in known
     /\ \A i, j \in At :
          i # j => /\ docs[i] # docs[j]
                   /\ CanvasIds[docs[i]] \cap CanvasIds[docs[j]] = {}
     /\ \A i \in At : InitialOf[c][i] \in CanvasIds[docs[i]] \cup {None}

NameFree(c, saved) == \A d \in saved : NameOf[d] # NameOf[c]

Room(saved) == Cardinality(saved) < MaxSaved

OpenSets(readable) ==
  /\ sets' = IF readable THEN setsFile ELSE {}
  /\ setsErr' = ~readable
  /\ setsForeign' = FALSE
  /\ UNCHANGED <<setsFile, compared>>

\* Mutant of AddSet: a comparison that was not saved stays in memory.
AddSetKept(c, saved) ==
  /\ ~setsErr
  /\ Room(sets)
  /\ NameFree(c, sets)
  /\ sets' = sets \cup {c}
  /\ IF saved
     THEN setsFile' = sets' /\ compared' = compared \cup {c}
     ELSE UNCHANGED <<setsFile, compared>>
  /\ UNCHANGED <<setsErr, setsForeign>>

AddSet(c, saved) ==
  /\ ~setsErr
  /\ Room(sets)
  /\ NameFree(c, sets)
  /\ IF saved
     THEN /\ sets' = sets \cup {c}
          /\ setsFile' = sets'
          /\ compared' = compared \cup {c}
     ELSE UNCHANGED <<sets, setsFile, compared>>
  /\ UNCHANGED <<setsErr, setsForeign>>

DeleteSet(c, saved) ==
  /\ ~setsErr
  /\ c \in sets
  /\ IF saved
     THEN /\ sets' = sets \ {c}
          /\ setsFile' = sets'
          /\ compared' = compared \ {c}
     ELSE UNCHANGED <<sets, setsFile, compared>>
  /\ UNCHANGED <<setsErr, setsForeign>>

\* An import reads the file and adds to it; the local one keeps its name, and
\* one that cannot be saved is passed over.
MergeSet(c, saved, serving) ==
  /\ Room(setsFile)
  /\ NameFree(c, setsFile)
  /\ IF saved
     THEN /\ setsFile' = setsFile \cup {c}
          /\ setsForeign' = serving
          /\ compared' = compared \cup {c}
     ELSE UNCHANGED <<setsFile, setsForeign, compared>>
  /\ UNCHANGED <<sets, setsErr>>
=============================================================================
