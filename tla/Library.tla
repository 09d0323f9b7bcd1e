------------------------------ MODULE Library ------------------------------
(***************************************************************************)
(* A library while it is served, preserved into and imported into          *)
(* (internal/serve: New, Serve, the mutating handlers, the background      *)
(* refresh, ImportResearchMetadata and the library lock): the composition  *)
(* of the catalogue, the annotation pages and the saved comparisons with   *)
(* the life of the serving process and of an importing one.                *)
(*                                                                         *)
(* New is one step, and so is the merge of one bundle's fields, of its     *)
(* annotations, and of one comparison; a process may be killed between any *)
(* two steps.  Requests the origin guard or the form checks refuse, dry    *)
(* runs, exports and pages change no state and are no steps.               *)
(***************************************************************************)
EXTENDS Catalog, Annotations, Comparisons

CONSTANTS
  Tick,                \* the refresher that is the background goroutine
  ArchiveFields,       \* what the archive to import says of each bundle
  ArchiveNotes,        \* its annotations
  ArchiveComparisons,  \* its comparisons
  MaxStarts,           \* bounds the serving and importing processes
  MaxRequests,         \* bounds the requests
  MaxChurn,            \* bounds the changes of the tree
  MaxFaults            \* bounds the reads and writes that fail

ASSUME LibraryAssumption ==
  /\ Tick \in Refresher
  /\ ArchiveFields \in [Bundle -> Research]
  /\ ArchiveNotes \in [Bundle -> Seq(Note)]
  /\ ArchiveComparisons \subseteq Comparison
  /\ {MaxStarts, MaxRequests, MaxChurn, MaxFaults} \subseteq Nat

VARIABLES
  phase,       \* where the serving process stands
  background,  \* where its background goroutine stands
  lock,        \* who holds research.lock
  importer,    \* the importing process
  used,        \* what the bounds have let pass
  removed,     \* history: bundles that were ever deleted
  crossed      \* history: the races a library does not survive

process == <<phase, background, lock, importer>>
vars    == <<catalogVars, notesVars, setsVars, process, used, removed, crossed>>

Race == {"blind start", "overlapping refreshes", "unseen import",
         "handler beside import"}

NoImport ==
  [at |-> "none", current |-> None, entries |-> NoEntries, todo |-> {},
   sets |-> {}]

Init ==
  /\ CatalogInit
  /\ AnnotationsInit
  /\ ComparisonsInit
  /\ phase = "down"
  /\ background = "off"
  /\ lock = "free"
  /\ importer = NoImport
  /\ used = [starts |-> 0, requests |-> 0, churn |-> 0, faults |-> 0]
  /\ removed = {}
  /\ crossed = {}

Bound == [starts |-> MaxStarts, requests |-> MaxRequests, churn |-> MaxChurn,
          faults |-> MaxFaults]

Spend(spent) ==
  /\ used' = spent
  /\ \A kind \in DOMAIN Bound : spent[kind] <= Bound[kind]

Fault(ok) == IF ok THEN 0 ELSE 1

Works(ok) == Spend([used EXCEPT !.faults = @ + Fault(ok)])

Use(kind, ok) == Spend([used EXCEPT ![kind] = @ + 1, !.faults = @ + Fault(ok)])

Crossing(race, happens) ==
  crossed' = IF happens THEN crossed \cup {race} ELSE crossed

Handling == phase \in {"serving", "stopping", "draining"}

-----------------------------------------------------------------------------
(* The bundle tree.                                                        *)

PreserveWrites(b) ==
  /\ Use("churn", TRUE)
  /\ BundleGrows(b)
  /\ UNCHANGED <<notesVars, setsVars, process, removed, crossed>>

BundleRemoved(b) ==
  /\ tree[b] # Absent
  /\ Use("churn", TRUE)
  /\ tree' = [tree EXCEPT ![b] = Absent]
  /\ notes' = [notes EXCEPT ![b] = <<>>]
  /\ removed' = removed \cup {b}
  /\ UNCHANGED <<file, catalogMemory, acked, handler, noted, setsVars,
                 process, crossed>>

-----------------------------------------------------------------------------
(* The serving process.                                                    *)

\* New reads the catalogue and the comparisons without the lock.
New(scanned, readable, setsReadable) ==
  /\ phase = "down"
  /\ Use("starts", scanned /\ readable /\ setsReadable)
  /\ Open(scanned, readable)
  /\ OpenSets(setsReadable)
  /\ phase' = "loaded"
  /\ Crossing("blind start", ~scanned)
  /\ UNCHANGED <<notesVars, background, lock, importer, removed>>

\* When the library is busy it ends with an error: ServerEnds.
Serve ==
  /\ phase = "loaded"
  /\ lock = "free"
  /\ phase' = "serving"
  /\ background' = "sizing"
  /\ lock' = "server"
  /\ UNCHANGED <<catalogVars, notesVars, setsVars, importer, used, removed,
                 crossed>>

\* The context is cancelled: the listener closes and Serve returns at once.
Cancel ==
  /\ phase = "serving"
  /\ phase' = "stopping"
  /\ UNCHANGED <<catalogVars, notesVars, setsVars, background, lock, importer,
                 used, removed, crossed>>

\* catalog.wait, then the lock; handlers may still be running.
Unlock ==
  /\ phase = "stopping"
  /\ background = "off"
  /\ phase' = "draining"
  /\ lock' = "free"
  /\ UNCHANGED <<catalogVars, notesVars, setsVars, background, importer, used,
                 removed, crossed>>

\* The end of main, or a kill: the memory and the handlers are gone.
ServerEnds ==
  /\ phase # "down"
  /\ phase' = "down"
  /\ background' = "off"
  /\ lock' = IF lock = "server" THEN "free" ELSE lock
  /\ entries' = NoEntries
  /\ loadErr' = FALSE
  /\ foreign' = FALSE
  /\ refresh' = [r \in Refresher |-> Idle]
  /\ outdated' = {}
  /\ handler' = [h \in Handler |-> None]
  /\ sets' = {}
  /\ setsErr' = FALSE
  /\ setsForeign' = FALSE
  /\ UNCHANGED <<catalogFiles, acked, notes, noted, setsFile, compared,
                 importer, used, removed, crossed>>

-----------------------------------------------------------------------------
(* Its background goroutine.                                               *)

\* The index is saved over one that an import wrote and nobody reloaded.
Overwrites == foreign /\ file' # file

\* refreshSizes ends with a save, unless it was cancelled.
SizesKnown(written) ==
  /\ background = "sizing"
  /\ Works(written)
  /\ SaveSizes(written)
  /\ background' = "waiting"
  /\ Crossing("unseen import", Overwrites)
  /\ UNCHANGED <<notesVars, setsVars, phase, lock, importer, removed>>

BackgroundEnds ==
  /\ phase = "stopping"
  /\ background \in {"sizing", "waiting"}
  /\ background' = "off"
  /\ UNCHANGED <<catalogVars, notesVars, setsVars, phase, lock, importer,
                 used, removed, crossed>>

StartRefresh(r, readable) ==
  /\ \/ /\ r = Tick
        /\ background = "waiting"
        /\ background' = "refreshing"
        /\ Works(readable)
     \/ /\ r # Tick
        /\ Handling
        /\ Use("requests", readable)
        /\ UNCHANGED background
  /\ Reload(r, readable)
  /\ Crossing("unseen import",
              foreign /\ readable /\ \E b \in Bundle :
                Listed(file[b]) /\ ~Listed(entries[b]))
  /\ UNCHANGED <<notesVars, setsVars, phase, lock, importer, removed>>

RefreshScans(r) ==
  /\ Scan(r)
  /\ UNCHANGED <<notesVars, setsVars, process, used, removed, crossed>>

RefreshFails(r) ==
  /\ ScanFails(r)
  /\ Works(FALSE)
  /\ background' = IF r = Tick THEN "waiting" ELSE background
  /\ UNCHANGED <<notesVars, setsVars, phase, lock, importer, removed, crossed>>

RefreshInstalls(r, written) ==
  /\ Install(r, written)
  /\ Works(written)
  /\ background' = IF r # Tick THEN background
                   ELSE IF Changes(r) THEN "sizing" ELSE "waiting"
  /\ crossed' = crossed
       \cup {race \in {"overlapping refreshes"} : r \in outdated}
       \cup {race \in {"unseen import"} : Overwrites}
  /\ UNCHANGED <<notesVars, setsVars, phase, lock, importer, removed>>

-----------------------------------------------------------------------------
(* Its handlers.                                                           *)

\* A handler that outlives the lock writes beside an import.
Beside == phase = "draining" /\ lock = "import"

EditFields(b, research) ==
  /\ Handling
  /\ Use("requests", TRUE)
  /\ Update(b, research)
  /\ crossed' = crossed
       \cup {race \in {"unseen import"} : Overwrites}
       \cup {race \in {"handler beside import"} : Beside}
  /\ UNCHANGED <<notesVars, setsVars, process, removed>>

AnnotationRequest(h, request) ==
  /\ Handling
  /\ tree[request.bundle] # Absent
  /\ Use("requests", TRUE)
  /\ LoadPage(h, request)
  /\ UNCHANGED <<catalogVars, setsVars, process, removed, crossed>>

AnnotationSaved(h) ==
  /\ SavePage(h)
  /\ UNCHANGED <<catalogVars, setsVars, process, used, removed, crossed>>

AnnotationFails(h) ==
  /\ SavePageFails(h)
  /\ Works(FALSE)
  /\ UNCHANGED <<catalogVars, setsVars, process, removed, crossed>>

ComparisonCrossing(saved) ==
  crossed' = crossed
    \cup {race \in {"unseen import"} : saved /\ setsForeign}
    \cup {race \in {"handler beside import"} : saved /\ Beside}

\* A failed save is rolled back and reported.
SaveComparison(c, saved) ==
  /\ Handling
  /\ Use("requests", saved)
  /\ Selectable(c, {b \in Bundle : Listed(entries[b]) /\ tree[b] # Absent})
  /\ AddSet(c, saved)
  /\ ComparisonCrossing(saved)
  /\ UNCHANGED <<catalogVars, notesVars, process, removed>>

DeleteComparison(c, saved) ==
  /\ Handling
  /\ Use("requests", saved)
  /\ DeleteSet(c, saved)
  /\ ComparisonCrossing(saved)
  /\ UNCHANGED <<catalogVars, notesVars, process, removed>>

-----------------------------------------------------------------------------
(* An import.  It has a catalogue of its own, read under the lock.         *)

Merge(local, incoming) ==
  [title |-> IF local.title = Blank THEN incoming.title ELSE local.title,
   tags  |-> local.tags \cup incoming.tags]

ImportStarts(scanned) ==
  LET own == NewCatalog(scanned, TRUE) IN
  /\ importer.at = "none"
  /\ lock = "free"
  /\ Use("starts", scanned)
  /\ lock' = "import"
  /\ importer' = [at |-> "fields", current |-> None, entries |-> own,
                  todo |-> {b \in Bundle : Listed(own[b])},
                  sets |-> ArchiveComparisons]
  /\ UNCHANGED <<catalogVars, notesVars, setsVars, phase, background, removed,
                 crossed>>

\* Fields that could not be saved are rolled back, and the import goes on.
ImportFields(b, saved) ==
  LET merged == Merge(importer.entries[b].research, ArchiveFields[b])
      own    == IF saved
                THEN [importer.entries EXCEPT ![b].research = merged]
                ELSE importer.entries
  IN /\ importer.at = "fields"
     /\ b \in importer.todo
     /\ Works(saved)
     /\ importer' = [importer EXCEPT !.at = "notes", !.current = b,
                                     !.entries = own, !.todo = @ \ {b}]
     /\ IF own # importer.entries
        THEN /\ file' = own
             /\ foreign' = (phase # "down")
             /\ acked' = [acked EXCEPT ![b] = Merge(@, ArchiveFields[b])]
        ELSE UNCHANGED <<file, foreign, acked>>
     /\ UNCHANGED <<tree, entries, loadErr, refresh, outdated, notesVars,
                    setsVars, phase, background, lock, removed, crossed>>

\* A page that cannot be read or saved stays as it is, with a warning.
ImportNotes(saved) ==
  LET b == importer.current IN
  /\ importer.at = "notes"
  /\ Works(saved)
  /\ importer' = [importer EXCEPT
       !.at = IF importer.todo = {} THEN "comparisons" ELSE "fields"]
  /\ IF saved
     THEN MergeAnnotations(b, ArchiveNotes[b])
     ELSE UNCHANGED notesVars
  /\ Crossing("handler beside import", saved /\ Locked(b))
  /\ UNCHANGED <<catalogVars, setsVars, phase, background, lock, removed>>

ImportSet(c, saved) ==
  /\ importer.at = "comparisons"
  /\ c \in importer.sets
  /\ Selectable(c, {b \in Bundle : Listed(importer.entries[b])
                                  /\ tree[b] # Absent})
  /\ Works(saved)
  /\ MergeSet(c, saved, phase # "down")
  /\ importer' = [importer EXCEPT !.sets = @ \ {c}]
  /\ UNCHANGED <<catalogVars, notesVars, phase, background, lock, removed,
                 crossed>>

\* It is done, an error stopped it, or it was killed.
ImportEnds ==
  /\ importer.at # "none"
  /\ importer' = NoImport
  /\ lock' = "free"
  /\ UNCHANGED <<catalogVars, notesVars, setsVars, phase, background, used,
                 removed, crossed>>

-----------------------------------------------------------------------------

Process ==
  \/ \E scanned, readable, setsReadable \in BOOLEAN :
       New(scanned, readable, setsReadable)
  \/ Serve \/ Cancel \/ Unlock \/ ServerEnds \/ BackgroundEnds
  \/ \E written \in BOOLEAN : SizesKnown(written)

Refreshing == \E r \in Refresher :
  \/ \E readable \in BOOLEAN : StartRefresh(r, readable)
  \/ RefreshScans(r)
  \/ RefreshFails(r)
  \/ \E written \in BOOLEAN : RefreshInstalls(r, written)

Handlers ==
  \/ \E b \in Bundle, research \in Research : EditFields(b, research)
  \/ \E h \in Handler :
       \/ \E request \in Request : AnnotationRequest(h, request)
       \/ AnnotationSaved(h)
       \/ AnnotationFails(h)
  \/ \E c \in Comparison, saved \in BOOLEAN :
       SaveComparison(c, saved) \/ DeleteComparison(c, saved)

Importing ==
  \/ \E scanned \in BOOLEAN : ImportStarts(scanned)
  \/ \E b \in Bundle, saved \in BOOLEAN : ImportFields(b, saved)
  \/ \E saved \in BOOLEAN : ImportNotes(saved)
  \/ \E c \in Comparison, saved \in BOOLEAN : ImportSet(c, saved)
  \/ ImportEnds

Tree == \E b \in Bundle : PreserveWrites(b) \/ BundleRemoved(b)

\* The bounds are used up and nothing runs.
Quiet ==
  /\ phase = "down" /\ importer.at = "none"
  /\ UNCHANGED vars

Next == Process \/ Refreshing \/ Handlers \/ Importing \/ Tree \/ Quiet

Spec == Init /\ [][Next]_vars

-----------------------------------------------------------------------------
(* Properties.                                                             *)

\* The variables keep their types.
TypeOK ==
  /\ CatalogTypeOK
  /\ AnnotationsTypeOK
  /\ ComparisonsTypeOK
  /\ phase \in {"down", "loaded", "serving", "stopping", "draining"}
  /\ background \in {"off", "sizing", "waiting", "refreshing"}
  /\ lock \in {"free", "server", "import"}
  /\ importer.at \in {"none", "fields", "notes", "comparisons"}
  /\ removed \subseteq Bundle
  /\ crossed \subseteq Race

\* catalog.go:25-28, 262-265: what an edit or an import reported as saved of
\* a bundle that was never deleted is in the index, whatever refreshes,
\* restarts and failures follow.  Four races are excluded, and each of them
\* does lose research: a start whose scan failed, a scan installed after
\* that of another refresh, a save over an import that was not reloaded, and
\* an edit by a handler that outlives the lock while an import runs.
NothingSavedIsLost ==
  crossed = {} => \A b \in Bundle \ removed : file[b].research = acked[b]

\* serve.go:274-277: overlapping requests and imports lose no annotation:
\* the body last saved under an identifier is there, a deleted one is not.
\* Excluded is an import beside a handler that outlives the lock.
AnnotationsKept ==
  "handler beside import" \notin crossed =>
    \A b \in Bundle \ removed, i \in NoteId :
      IF noted[b][i] = None
      THEN i \notin Ids(notes[b])
      ELSE [id |-> i, body |-> noted[b][i]] \in
             {notes[b][k] : k \in DOMAIN notes[b]}

\* comparison_store.go: the comparisons saved and not deleted are on file, and
\* no other: at most maxSavedComparisons and no two of one name, whatever
\* saves fail and whoever adds them, a request or an import.  Excluded are a
\* save over an import that memory has not seen and one beside an import.
ComparisonsKept ==
  crossed \cap {"unseen import", "handler beside import"} = {} =>
    /\ setsFile = compared
    /\ Cardinality(setsFile) <= MaxSaved
    /\ \A c, d \in setsFile : c # d => NameOf[c] # NameOf[d]

\* catalog.go:262-272: while a process serves, a bundle that is not deleted
\* never leaves its catalogue nor goes back to a former edition, and it is
\* listed from its first whole edition on only.
EntriesMoveForward ==
  [][\A b \in Bundle \ removed' :
       phase' # "down" /\ crossed' = {} =>
         /\ entries'[b].stamp >= entries[b].stamp
         /\ entries'[b].stamp # Partial]_vars
=============================================================================
