--------------------------- MODULE LibraryProofs ---------------------------
(***************************************************************************)
(* Proofs about a library, for every set of bundles, fields, annotations   *)
(* and comparisons, and any number of processes, refreshes, requests and   *)
(* faults.                                                                 *)
(*                                                                         *)
(* The argument: the memory of a process that has read the index agrees    *)
(* with what was acknowledged unless the index is unreadable or an import  *)
(* wrote it, in which case nothing is saved or a race is recorded.  Only   *)
(* the entry of a bundle without a committed edition is missing from a     *)
(* scan, and such a bundle has no research yet.  An importer holds the     *)
(* lock, so nobody else acknowledges anything while its copy is good.      *)
(***************************************************************************)
EXTENDS Library, FiniteSetTheorems, WellFoundedInduction, TLAPS

Importer ==
  [at : {"none", "fields", "notes", "comparisons"}, current : Bundle \cup {None},
   entries : [Bundle -> Entry], todo : SUBSET Bundle, sets : SUBSET Comparison]

ProcessTypes ==
  /\ phase \in {"down", "loaded", "serving", "stopping", "draining"}
  /\ background \in {"off", "sizing", "waiting", "refreshing"}
  /\ lock \in {"free", "server", "import"}

\* Who runs and who holds the lock.
ProcessInv ==
  /\ lock = "server" <=> phase \in {"serving", "stopping"}
  /\ lock = "import" <=> importer.at # "none"
  /\ background # "off" => phase \in {"serving", "stopping"}
  /\ refresh[Tick].at # "idle" => background = "refreshing"
  /\ phase = "down" =>
       /\ entries = NoEntries
       /\ refresh = [r \in Refresher |-> Idle]

\* An entry that is not listed says nothing, and none shows a bundle that is
\* not finished.
Proper(catalog) ==
  \A b \in Bundle :
    /\ ~Listed(catalog[b]) => catalog[b].research = NoResearch
    /\ catalog[b].stamp # Partial

ProperInv ==
  /\ Proper(file) /\ Proper(entries) /\ Proper(importer.entries)
  /\ \A r \in Refresher : Proper(refresh[r].fresh)
  /\ importer.at = "none" => importer.todo = {}
  /\ importer.at = "notes" => importer.current \in Bundle
  /\ \A b \in importer.todo : Listed(importer.entries[b])

CatalogInv == CatalogTypeOK /\ importer \in Importer /\ ProperInv

\* Stamps never run ahead of the tree nor fall behind a scan in flight.
StampsInv ==
  \A b \in Bundle \ removed :
    /\ entries[b].stamp <= tree[b] /\ importer.entries[b].stamp <= tree[b]
    /\ acked[b] # NoResearch => Committed(tree[b])
    /\ \A r \in Refresher : refresh[r].at = "install" =>
         /\ refresh[r].fresh[b].stamp <= tree[b]
         /\ r \notin outdated =>
              /\ entries[b].stamp <= refresh[r].fresh[b].stamp
              /\ ~Listed(entries[b]) => refresh[r].fresh[b].research = NoResearch

\* What was acknowledged is on file, in a memory that is up to date, and in
\* the importer's copy.
ResearchInv ==
  crossed = {} =>
    \A b \in Bundle \ removed :
      /\ file[b].research = acked[b]
      /\ phase # "down" /\ ~loadErr /\ ~foreign => entries[b].research = acked[b]
      /\ acked[b] = NoResearch => entries[b].research = NoResearch
      /\ importer.todo # {} => importer.entries[b].research = acked[b]

\* A handler that has a page has the only one, and the page is as it read it.
HandlerInv ==
  /\ \A h \in Handler : handler[h] # None =>
       /\ handler[h].request.op # "post" =>
            handler[h].request.note.id \in Ids(handler[h].page)
       /\ "handler beside import" \notin crossed =>
            LET b == handler[h].request.bundle
            IN b \notin removed => handler[h].page = notes[b]
  /\ \A h, g \in Handler :
       handler[h] # None /\ handler[g] # None /\ h # g =>
         handler[h].request.bundle # handler[g].request.bundle

NotesOn(page) == {page[k] : k \in DOMAIN page}

\* A page says what was last saved under every identifier.
Tells(page, saved) ==
  \A i \in NoteId :
    IF saved[i] = None
    THEN i \notin Ids(page)
    ELSE [id |-> i, body |-> saved[i]] \in NotesOn(page)

Told ==
  "handler beside import" \notin crossed =>
    \A b \in Bundle \ removed : Tells(notes[b], noted[b])

HandlersType ==
  /\ DOMAIN handler = Handler
  /\ \A h \in Handler : handler[h] # None =>
       handler[h].page \in Seq(Note) /\ handler[h].request \in Request

NotesInv == AnnotationsTypeOK /\ HandlersType /\ HandlerInv /\ Told

\* The file holds what was saved, at most MaxSaved of them, no name twice.
SetsInv ==
  crossed \cap {"unseen import", "handler beside import"} = {} =>
    /\ setsFile = compared
    /\ IsFiniteSet(setsFile)
    /\ Cardinality(setsFile) <= MaxSaved
    /\ \A c, d \in setsFile : c # d => NameOf[c] # NameOf[d]

\* Memory is the file, unless an import wrote it since.
SetsSeen == phase # "down" /\ ~setsErr /\ ~setsForeign => sets = setsFile

Inv ==
  /\ removed \subseteq Bundle /\ crossed \subseteq Race
  /\ CatalogInv
  /\ ProcessTypes /\ ProcessInv
  /\ StampsInv
  /\ ResearchInv
  /\ NotesInv
  /\ ComparisonsTypeOK /\ SetsInv /\ SetsSeen

-----------------------------------------------------------------------------
(* The catalogues that are read, scanned, reloaded and installed.          *)

LEMMA EmptyCatalog == NoEntries \in [Bundle -> Entry] /\ Proper(NoEntries)
BY DEF NoEntries, Unlisted, NoResearch, Entry, Research, Proper, Listed, Absent,
  Partial

LEMMA NewCatalogIsProper ==
  ASSUME CatalogTypeOK, NEW scanned \in BOOLEAN, NEW readable \in BOOLEAN
  PROVE  /\ NewCatalog(scanned, readable) \in [Bundle -> Entry]
         /\ Proper(NewCatalog(scanned, readable))
         /\ \A b \in Bundle :
              /\ NewCatalog(scanned, readable)[b].stamp <= tree[b]
              /\ NewCatalog(scanned, readable)[b].research \in {NoResearch, file[b].research}
              /\ scanned /\ readable /\ Committed(tree[b]) =>
                   NewCatalog(scanned, readable)[b].research = file[b].research
              /\ ~Committed(tree[b]) =>
                   NewCatalog(scanned, readable)[b].research = NoResearch
<1> DEFINE new == NewCatalog(scanned, readable)
<1>1. ASSUME NEW b \in Bundle
      PROVE  /\ new[b] \in Entry
             /\ ~Listed(new[b]) => new[b].research = NoResearch
             /\ new[b].stamp # Partial
             /\ new[b].stamp <= tree[b]
             /\ new[b].research \in {NoResearch, file[b].research}
             /\ scanned /\ readable /\ Committed(tree[b]) =>
                  new[b].research = file[b].research
             /\ ~Committed(tree[b]) => new[b].research = NoResearch
  <2>1. tree[b] \in Nat /\ file[b].research \in Research /\ NoResearch \in Research
    BY DEF CatalogTypeOK, Entry, NoResearch, Research, Partial
  <2>2. CASE scanned /\ Committed(tree[b])
    <3>1. new[b] = [stamp |-> tree[b],
                    research |-> IF readable THEN file[b].research ELSE NoResearch]
      BY <2>2 DEF NewCatalog
    <3>2. tree[b] > Partial /\ tree[b] # Absent /\ tree[b] # Partial
      BY <2>1, <2>2 DEF Committed, Absent, Partial
    <3>3. new[b] \in Entry /\ new[b].stamp = tree[b]
          /\ (readable => new[b].research = file[b].research)
          /\ (~readable => new[b].research = NoResearch)
      BY <2>1, <3>1 DEF Entry
    <3> HIDE DEF new
    <3> QED
      BY <2>1, <2>2, <3>2, <3>3 DEF Listed
  <2>3. CASE ~(scanned /\ Committed(tree[b]))
    <3>1. new[b] = Unlisted
      BY <2>3 DEF NewCatalog
    <3> QED
      BY <2>1, <2>3, <3>1 DEF Unlisted, Entry, Listed, Absent, Partial
  <2> QED
    BY <2>2, <2>3
<1>2. DOMAIN new = Bundle /\ new = [b \in Bundle |-> new[b]]
  BY DEF NewCatalog
<1> HIDE DEF new
<1>3. new \in [Bundle -> Entry]
  BY <1>1, <1>2
<1> QED
  BY <1>1, <1>3 DEF new, Proper

LEMMA ReloadedIsProper ==
  ASSUME CatalogTypeOK, Proper(file), Proper(entries)
  PROVE  /\ Reloaded \in [Bundle -> Entry] /\ Proper(Reloaded)
         /\ \A b \in Bundle :
              /\ Reloaded[b].stamp = entries[b].stamp
              /\ Reloaded[b].research =
                   IF Listed(entries[b]) /\ Listed(file[b])
                   THEN file[b].research ELSE entries[b].research
<1>1. ASSUME NEW b \in Bundle
      PROVE  /\ Reloaded[b] \in Entry
             /\ Reloaded[b].stamp = entries[b].stamp
             /\ Reloaded[b].research =
                  IF Listed(entries[b]) /\ Listed(file[b])
                  THEN file[b].research ELSE entries[b].research
  BY DEF CatalogTypeOK, Reloaded, Entry
<1>2. Reloaded \in [Bundle -> Entry]
  BY <1>1 DEF Reloaded
<1>3. Proper(Reloaded)
  BY <1>1 DEF Proper, Listed
<1> QED
  BY <1>1, <1>2, <1>3

LEMMA ScannedIsProper ==
  ASSUME CatalogTypeOK, Proper(entries)
  PROVE  /\ Scanned \in [Bundle -> Entry] /\ Proper(Scanned)
         /\ \A b \in Bundle :
              /\ entries[b].stamp <= tree[b] =>
                   entries[b].stamp <= Scanned[b].stamp /\ Scanned[b].stamp <= tree[b]
              /\ ~Listed(entries[b]) => Scanned[b].research = NoResearch
<1>1. ASSUME NEW b \in Bundle
      PROVE  /\ Scanned[b] \in Entry
             /\ ~Listed(Scanned[b]) => Scanned[b].research = NoResearch
             /\ Scanned[b].stamp # Partial
             /\ entries[b].stamp <= tree[b] =>
                  entries[b].stamp <= Scanned[b].stamp /\ Scanned[b].stamp <= tree[b]
             /\ ~Listed(entries[b]) => Scanned[b].research = NoResearch
  <2>1. /\ tree[b] \in Nat /\ entries[b] \in Entry /\ entries[b].stamp \in Nat
        /\ NoResearch \in Research
    BY DEF CatalogTypeOK, Entry, NoResearch, Research, Partial
  <2>2. CASE tree[b] = Absent
    <3>1. Scanned[b] = Unlisted
      <4>1. entries[b].stamp = tree[b] => entries[b] = Unlisted
        BY <2>1, <2>2 DEF Proper, Listed, Unlisted, Entry
      <4>2. tree[b] # Partial
        BY <2>2 DEF Absent, Partial
      <4> QED
        BY <2>2, <4>1, <4>2 DEF Scanned
    <3> QED
      BY <2>1, <2>2, <3>1 DEF Unlisted, Entry, Listed, Absent, Partial
  <2>3. CASE tree[b] # Absent /\ (tree[b] = Partial \/ entries[b].stamp = tree[b])
    <3>1. Scanned[b] = entries[b]
      BY <2>3 DEF Scanned
    <3> QED
      BY <2>1, <2>3, <3>1 DEF Proper
  <2>4. CASE tree[b] \notin {Absent, Partial} /\ entries[b].stamp # tree[b]
    <3>1. Scanned[b] = [stamp |-> tree[b], research |-> NoResearch]
      BY <2>4 DEF Scanned
    <3> QED
      BY <2>1, <2>4, <3>1 DEF Entry, Listed
  <2> QED
    BY <2>2, <2>3, <2>4
<1>2. Scanned \in [Bundle -> Entry]
  BY <1>1 DEF Scanned
<1> QED
  BY <1>1, <1>2 DEF Proper

LEMMA InstalledIsProper ==
  ASSUME CatalogTypeOK, NEW r \in Refresher, Proper(refresh[r].fresh)
  PROVE  /\ Installed(r) \in [Bundle -> Entry] /\ Proper(Installed(r))
         /\ \A b \in Bundle :
              /\ Installed(r)[b].stamp = refresh[r].fresh[b].stamp
              /\ Installed(r)[b].research =
                   IF Listed(refresh[r].fresh[b]) /\ Listed(entries[b])
                   THEN entries[b].research ELSE refresh[r].fresh[b].research
<1>1. refresh[r].fresh \in [Bundle -> Entry]
  BY DEF CatalogTypeOK
<1>2. ASSUME NEW b \in Bundle
      PROVE  /\ Installed(r)[b] \in Entry
             /\ Installed(r)[b].stamp = refresh[r].fresh[b].stamp
             /\ Installed(r)[b].research =
                  IF Listed(refresh[r].fresh[b]) /\ Listed(entries[b])
                  THEN entries[b].research ELSE refresh[r].fresh[b].research
  BY <1>1 DEF CatalogTypeOK, Installed, Entry
<1>3. Installed(r) \in [Bundle -> Entry]
  BY <1>2 DEF Installed
<1>4. Proper(Installed(r))
  BY <1>2 DEF Proper, Listed
<1> QED
  BY <1>2, <1>3, <1>4

LEMMA SaveWritesAProperFile ==
  ASSUME CatalogTypeOK, Proper(file), NEW written \in BOOLEAN, Save(written),
         entries' \in [Bundle -> Entry], Proper(entries')
  PROVE  file' \in [Bundle -> Entry] /\ Proper(file') /\ foreign' \in BOOLEAN
<1>1. CASE written /\ ~loadErr
  BY <1>1, Zenon DEF Save
<1>2. CASE ~(written /\ ~loadErr)
  BY <1>2, Zenon DEF Save, CatalogTypeOK
<1> QED
  BY <1>1, <1>2

LEMMA UpdatedIsProper ==
  ASSUME NEW catalog \in [Bundle -> Entry], Proper(catalog), NEW b \in Bundle,
         Listed(catalog[b]), NEW research \in Research
  PROVE  LET updated == [catalog EXCEPT ![b].research = research]
         IN /\ updated \in [Bundle -> Entry] /\ Proper(updated)
            /\ \A d \in Bundle :
                 /\ updated[d].stamp = catalog[d].stamp
                 /\ d # b => updated[d] = catalog[d]
            /\ updated[b].research = research
<1> DEFINE updated == [catalog EXCEPT ![b].research = research]
<1>1. /\ DOMAIN updated = Bundle /\ updated[b] = [catalog[b] EXCEPT !.research = research]
      /\ \A d \in Bundle : d # b => updated[d] = catalog[d]
  OBVIOUS
<1>2. /\ updated[b] \in Entry /\ updated[b].stamp = catalog[b].stamp
      /\ updated[b].research = research
  BY <1>1 DEF Entry
<1>3. updated = [d \in Bundle |-> updated[d]]
  OBVIOUS
<1> HIDE DEF updated
<1>4. updated \in [Bundle -> Entry]
  <2>1. \A d \in Bundle : updated[d] \in Entry
    BY <1>1, <1>2
  <2> QED
    BY <1>3, <2>1
<1>5. Proper(updated)
  BY <1>1, <1>2 DEF Proper, Listed
<1> QED
  BY <1>1, <1>2, <1>4, <1>5 DEF updated

LEMMA MergeKeepsTheType ==
  ASSUME NEW local \in Research, NEW incoming \in Research
  PROVE  /\ Merge(local, incoming) \in Research
         /\ Merge(local, incoming) = NoResearch => local = NoResearch
BY DEF Merge, Research, NoResearch

-----------------------------------------------------------------------------
(* The catalogue, the importer and their entries.                          *)

LEMMA CatalogFrame ==
  ASSUME CatalogInv, UNCHANGED <<catalogVars, importer>>
  PROVE  CatalogInv'
BY DEF CatalogInv, catalogVars, catalogFiles, catalogMemory, CatalogTypeOK,
  Importer, ProperInv, Proper

LEMMA ProcessKeepsTheCatalog ==
  ASSUME CatalogInv, Process
  PROVE  CatalogInv'
<1>1. ASSUME NEW scanned \in BOOLEAN, NEW readable \in BOOLEAN,
             NEW setsReadable \in BOOLEAN, New(scanned, readable, setsReadable)
      PROVE  CatalogInv'
  <2>1. Open(scanned, readable) /\ importer' = importer
    BY <1>1 DEF New
  <2>2. entries' \in [Bundle -> Entry] /\ Proper(entries')
    BY <2>1, NewCatalogIsProper DEF Open, CatalogInv
  <2>3. loadErr' \in BOOLEAN /\ foreign' \in BOOLEAN
    BY <2>1 DEF Open
  <2>4. /\ refresh' = [r \in Refresher |-> Idle] /\ outdated' = {}
        /\ UNCHANGED <<tree, file, acked>>
    BY <2>1 DEF Open, catalogFiles
  <2>5. Idle \in [at : {"idle", "scan", "install"}, fresh : [Bundle -> Entry]]
        /\ Proper(Idle.fresh)
    BY EmptyCatalog DEF Idle
  <2>6. CatalogTypeOK'
    BY <2>2, <2>3, <2>4, <2>5 DEF CatalogTypeOK, CatalogInv
  <2>7. ProperInv'
    BY <2>1, <2>2, <2>4, <2>5 DEF CatalogInv, ProperInv, Proper
  <2> QED
    BY <2>1, <2>6, <2>7 DEF CatalogInv, Importer
<1>2. CASE ServerEnds
  <2>1. /\ entries' = NoEntries /\ loadErr' = FALSE /\ foreign' = FALSE
        /\ refresh' = [r \in Refresher |-> Idle] /\ outdated' = {}
        /\ UNCHANGED <<tree, file, acked, importer>>
    BY <1>2 DEF ServerEnds, catalogFiles
  <2>2. Idle \in [at : {"idle", "scan", "install"}, fresh : [Bundle -> Entry]]
        /\ Proper(Idle.fresh)
    BY EmptyCatalog DEF Idle
  <2>3. CatalogTypeOK'
    BY <2>1, <2>2, EmptyCatalog DEF CatalogTypeOK, CatalogInv
  <2>4. ProperInv'
    BY <2>1, <2>2, EmptyCatalog DEF CatalogInv, ProperInv, Proper
  <2> QED
    BY <2>1, <2>3, <2>4 DEF CatalogInv, Importer
<1>3. ASSUME NEW written \in BOOLEAN, SizesKnown(written)
      PROVE  CatalogInv'
  <2>1. /\ entries' = entries /\ Save(written)
        /\ UNCHANGED <<tree, loadErr, refresh, outdated, acked, importer>>
    BY <1>3 DEF SizesKnown, SaveSizes
  <2>2. file' \in [Bundle -> Entry] /\ Proper(file') /\ foreign' \in BOOLEAN
    BY <2>1, SaveWritesAProperFile DEF CatalogInv, CatalogTypeOK, ProperInv, Proper
  <2>3. CatalogTypeOK'
    BY <2>1, <2>2 DEF CatalogTypeOK, CatalogInv
  <2>4. ProperInv'
    BY <2>1, <2>2 DEF CatalogInv, ProperInv, Proper
  <2> QED
    BY <2>1, <2>3, <2>4 DEF CatalogInv, Importer
<1>4. CASE Serve \/ Cancel \/ Unlock \/ BackgroundEnds
  BY <1>4, CatalogFrame DEF Serve, Cancel, Unlock, BackgroundEnds
<1> QED
  BY <1>1, <1>2, <1>3, <1>4 DEF Process

LEMMA RefreshingKeepsTheCatalog ==
  ASSUME CatalogInv, Refreshing
  PROVE  CatalogInv'
<1> PICK r \in Refresher :
      \/ \E readable \in BOOLEAN : StartRefresh(r, readable)
      \/ RefreshScans(r)
      \/ RefreshFails(r)
      \/ \E written \in BOOLEAN : RefreshInstalls(r, written)
  BY DEF Refreshing
<1> USE DEF CatalogInv
<1>a. /\ refresh[r] \in [at : {"idle", "scan", "install"}, fresh : [Bundle -> Entry]]
      /\ Proper(refresh[r].fresh)
  BY DEF CatalogTypeOK, ProperInv
<1>1. ASSUME NEW readable \in BOOLEAN, StartRefresh(r, readable)
      PROVE  CatalogInv'
  <2>1. Reload(r, readable) /\ importer' = importer
    BY <1>1 DEF StartRefresh
  <2>2. /\ UNCHANGED <<tree, file, acked, outdated>>
        /\ refresh' = [refresh EXCEPT ![r].at = "scan"]
    BY <2>1 DEF Reload, catalogFiles
  <2>3. entries' \in [Bundle -> Entry] /\ Proper(entries')
    <3>1. entries' = entries \/ entries' = Reloaded
      BY <2>1 DEF Reload
    <3> QED
      BY <3>1, ReloadedIsProper DEF CatalogTypeOK, ProperInv
  <2>4. loadErr' \in BOOLEAN /\ foreign' \in BOOLEAN
    <3>1. \/ loadErr' = loadErr /\ foreign' = foreign
          \/ loadErr' = FALSE /\ foreign' = FALSE
          \/ loadErr' = TRUE /\ foreign' = foreign
      BY <2>1 DEF Reload
    <3> QED
      BY <3>1, Zenon DEF CatalogTypeOK
  <2>5. /\ refresh' \in [Refresher -> [at : {"idle", "scan", "install"},
                                       fresh : [Bundle -> Entry]]]
        /\ \A s \in Refresher : refresh'[s].fresh = refresh[s].fresh
    BY <1>a, <2>2 DEF CatalogTypeOK
  <2>6. CatalogTypeOK'
    BY <2>2, <2>3, <2>4, <2>5 DEF CatalogTypeOK
  <2>7. ProperInv'
    BY <2>1, <2>2, <2>3, <2>5 DEF ProperInv, Proper
  <2> QED
    BY <2>1, <2>6, <2>7 DEF Importer
<1>2. ASSUME NEW new \in [at : {"idle", "scan", "install"}, fresh : [Bundle -> Entry]],
             Proper(new.fresh), refresh' = [refresh EXCEPT ![r] = new],
             entries' \in [Bundle -> Entry], Proper(entries'),
             file' \in [Bundle -> Entry], Proper(file'), foreign' \in BOOLEAN,
             outdated' \subseteq Refresher, UNCHANGED <<tree, acked, loadErr, importer>>
      PROVE  CatalogInv'
  <2>1. /\ refresh' \in [Refresher -> [at : {"idle", "scan", "install"},
                                       fresh : [Bundle -> Entry]]]
        /\ \A s \in Refresher : Proper(refresh'[s].fresh)
    BY <1>2 DEF CatalogTypeOK, ProperInv
  <2>2. CatalogTypeOK'
    BY <1>2, <2>1 DEF CatalogTypeOK
  <2>3. ProperInv'
    BY <1>2, <2>1 DEF ProperInv, Proper
  <2> QED
    BY <1>2, <2>2, <2>3 DEF Importer
<1>b. /\ Idle \in [at : {"idle", "scan", "install"}, fresh : [Bundle -> Entry]]
      /\ Proper(Idle.fresh)
  BY EmptyCatalog DEF Idle
<1>3. CASE RefreshScans(r)
  <2>1. /\ refresh' = [refresh EXCEPT ![r] = [at |-> "install", fresh |-> Scanned]]
        /\ UNCHANGED <<tree, file, acked, entries, loadErr, foreign, outdated, importer>>
    BY <1>3 DEF RefreshScans, Scan, catalogFiles, process
  <2> DEFINE new == [at |-> "install", fresh |-> Scanned]
  <2>2. new \in [at : {"idle", "scan", "install"}, fresh : [Bundle -> Entry]]
        /\ Proper(new.fresh)
    BY ScannedIsProper DEF ProperInv
  <2>3. foreign \in BOOLEAN /\ outdated \subseteq Refresher
    BY Zenon DEF CatalogTypeOK
  <2>4. /\ entries' \in [Bundle -> Entry] /\ Proper(entries')
        /\ file' \in [Bundle -> Entry] /\ Proper(file')
    BY <2>1 DEF CatalogTypeOK, ProperInv
  <2>5. refresh' = [refresh EXCEPT ![r] = new] /\ foreign' \in BOOLEAN
    <3>1. foreign' = foreign
      BY <2>1
    <3>2. foreign' \in BOOLEAN
      BY <2>3, <3>1, Zenon
    <3> QED
      BY <2>1, <3>2
  <2> HIDE DEF CatalogInv, new
  <2> QED
    BY <1>2, <2>1, <2>2, <2>3, <2>4, <2>5
<1>4. CASE RefreshFails(r)
  <2>1. /\ refresh' = [refresh EXCEPT ![r] = Idle]
        /\ UNCHANGED <<tree, file, acked, entries, loadErr, foreign, outdated, importer>>
    BY <1>4 DEF RefreshFails, ScanFails, catalogFiles
  <2>2. foreign \in BOOLEAN /\ outdated \subseteq Refresher
    BY Zenon DEF CatalogTypeOK
  <2>3. /\ entries' \in [Bundle -> Entry] /\ Proper(entries')
        /\ file' \in [Bundle -> Entry] /\ Proper(file')
    BY <2>1 DEF CatalogTypeOK, ProperInv
  <2> HIDE DEF CatalogInv
  <2> QED
    BY <1>2, <1>b, <2>1, <2>2, <2>3
<1>5. ASSUME NEW written \in BOOLEAN, RefreshInstalls(r, written)
      PROVE  CatalogInv'
  <2>1. /\ refresh' = [refresh EXCEPT ![r] = Idle] /\ entries' = Installed(r)
        /\ IF Changes(r) THEN Save(written) ELSE UNCHANGED <<file, foreign>>
        /\ UNCHANGED <<tree, acked, loadErr, importer>>
    BY <1>5 DEF RefreshInstalls, Install
  <2>2. outdated' \subseteq Refresher
    <3>1. outdated \subseteq Refresher
      BY DEF CatalogTypeOK
    <3>2. outdated' = {s \in Refresher \ {r} : refresh[s].at = "install" /\ Changes(r)}
                        \cup (outdated \ {r})
      BY <1>5 DEF RefreshInstalls, Install
    <3> HIDE DEF Changes, CatalogInv
    <3> QED
      BY <3>1, <3>2
  <2>3. entries' \in [Bundle -> Entry] /\ Proper(entries')
    BY <2>1, <1>a, InstalledIsProper
  <2>4. file' \in [Bundle -> Entry] /\ Proper(file') /\ foreign' \in BOOLEAN
    <3>1. CASE Changes(r)
      BY <3>1, <2>1, <2>3, SaveWritesAProperFile DEF ProperInv
    <3>2. CASE ~Changes(r)
      <4>1. file' = file /\ foreign' = foreign
        BY <3>2, <2>1
      <4>2. foreign' \in BOOLEAN
        BY <4>1, Zenon DEF CatalogTypeOK
      <4> QED
        BY <4>1, <4>2 DEF CatalogTypeOK, ProperInv
    <3> QED
      BY <3>1, <3>2
  <2> HIDE DEF CatalogInv
  <2> QED
    BY <1>2, <1>b, <2>1, <2>2, <2>3, <2>4
<1> QED
  BY <1>1, <1>3, <1>4, <1>5

LEMMA HandlersKeepTheCatalog ==
  ASSUME CatalogInv, Handlers
  PROVE  CatalogInv'
<1>1. ASSUME NEW b \in Bundle, NEW research \in Research, EditFields(b, research)
      PROVE  CatalogInv'
  <2>1. /\ Listed(entries[b]) /\ Save(TRUE)
        /\ entries' = [entries EXCEPT ![b].research = research]
        /\ acked' = [acked EXCEPT ![b] = research]
        /\ UNCHANGED <<tree, loadErr, refresh, outdated, importer>>
    BY <1>1 DEF EditFields, Update, process
  <2>2. entries' \in [Bundle -> Entry] /\ Proper(entries')
    BY <2>1, UpdatedIsProper DEF CatalogInv, CatalogTypeOK, ProperInv
  <2>3. file' \in [Bundle -> Entry] /\ Proper(file') /\ foreign' \in BOOLEAN
    BY <2>1, <2>2, SaveWritesAProperFile DEF CatalogInv, ProperInv
  <2>4. CatalogTypeOK'
    BY <2>1, <2>2, <2>3 DEF CatalogTypeOK, CatalogInv
  <2>5. ProperInv'
    BY <2>1, <2>2, <2>3 DEF CatalogInv, ProperInv, Proper
  <2> QED
    BY <2>1, <2>4, <2>5 DEF CatalogInv, Importer
<1>2. CASE ~\E b \in Bundle, research \in Research : EditFields(b, research)
  BY <1>2, CatalogFrame DEF Handlers, AnnotationRequest, AnnotationSaved,
    AnnotationFails, SaveComparison, DeleteComparison, process
<1> QED
  BY <1>1, <1>2

LEMMA ImportingKeepsTheCatalog ==
  ASSUME CatalogInv, Importing
  PROVE  CatalogInv'
<1> USE DEF CatalogInv
<1>1. ASSUME NEW own \in Importer, Proper(own.entries), importer' = own,
             own.at = "none" => own.todo = {},
             own.at = "notes" => own.current \in Bundle,
             \A b \in own.todo : Listed(own.entries[b]),
             file' \in [Bundle -> Entry], Proper(file'), foreign' \in BOOLEAN,
             acked' \in [Bundle -> Research],
             UNCHANGED <<tree, entries, loadErr, refresh, outdated>>
      PROVE  CatalogInv'
  <2>1. CatalogTypeOK'
    BY <1>1 DEF CatalogTypeOK
  <2>2. ProperInv'
    BY <1>1 DEF ProperInv, Proper
  <2> QED
    BY <1>1, <2>1, <2>2 DEF Importer
<1>2. UNCHANGED catalogVars =>
        /\ file' \in [Bundle -> Entry] /\ Proper(file') /\ foreign' \in BOOLEAN
        /\ acked' \in [Bundle -> Research]
        /\ UNCHANGED <<tree, entries, loadErr, refresh, outdated>>
  <2>1. foreign \in BOOLEAN
    BY Zenon DEF CatalogTypeOK
  <2>2. UNCHANGED foreign => foreign' \in BOOLEAN
    BY <2>1, Zenon
  <2> QED
    BY <2>2 DEF catalogVars, catalogFiles, catalogMemory, CatalogTypeOK, ProperInv,
      Proper
<1>3. ASSUME NEW scanned \in BOOLEAN, ImportStarts(scanned)
      PROVE  CatalogInv'
  <2> DEFINE read == NewCatalog(scanned, TRUE)
             own  == [at |-> "fields", current |-> None, entries |-> read,
                      todo |-> {b \in Bundle : Listed(read[b])},
                      sets |-> ArchiveComparisons]
  <2>1. importer' = own /\ UNCHANGED catalogVars
    BY <1>3 DEF ImportStarts
  <2>2. read \in [Bundle -> Entry] /\ Proper(read)
    BY NewCatalogIsProper
  <2> HIDE DEF read
  <2>3. own \in Importer
    BY <2>2, LibraryAssumption DEF Importer
  <2>4. Proper(own.entries) /\ own.at = "fields"
        /\ \A b \in own.todo : Listed(own.entries[b])
    BY <2>2
  <2> HIDE DEF own, CatalogInv
  <2> QED
    BY <1>1, <1>2, <2>1, <2>3, <2>4
<1>4. ASSUME NEW b \in Bundle, NEW saved \in BOOLEAN, ImportFields(b, saved)
      PROVE  CatalogInv'
  <2> DEFINE merged == Merge(importer.entries[b].research, ArchiveFields[b])
             read   == IF saved THEN [importer.entries EXCEPT ![b].research = merged]
                       ELSE importer.entries
             own    == [importer EXCEPT !.at = "notes", !.current = b,
                                        !.entries = read, !.todo = @ \ {b}]
  <2>1. /\ importer.at = "fields" /\ b \in importer.todo /\ importer' = own
        /\ IF read # importer.entries
           THEN /\ file' = read
                /\ foreign' = (phase # "down")
                /\ acked' = [acked EXCEPT ![b] = Merge(@, ArchiveFields[b])]
           ELSE UNCHANGED <<file, foreign, acked>>
        /\ UNCHANGED <<tree, entries, loadErr, refresh, outdated>>
    BY <1>4 DEF ImportFields
  <2>2. /\ importer.entries \in [Bundle -> Entry] /\ Proper(importer.entries)
        /\ Listed(importer.entries[b]) /\ acked[b] \in Research
        /\ ArchiveFields[b] \in Research
    BY <2>1, LibraryAssumption DEF Importer, ProperInv, CatalogTypeOK
  <2>3. merged \in Research /\ Merge(acked[b], ArchiveFields[b]) \in Research
    BY <2>2, MergeKeepsTheType DEF Entry
  <2> HIDE DEF merged
  <2>4. /\ read \in [Bundle -> Entry] /\ Proper(read)
        /\ \A d \in Bundle : read[d].stamp = importer.entries[d].stamp
    <3>1. CASE saved
      BY <2>2, <2>3, <3>1, UpdatedIsProper
    <3>2. CASE ~saved
      BY <2>2, <3>2
    <3> QED
      BY <3>1, <3>2
  <2> HIDE DEF read
  <2>5. /\ own \in Importer /\ Proper(own.entries) /\ own.current \in Bundle
        /\ own.at = "notes" /\ own.todo = importer.todo \ {b} /\ own.entries = read
    BY <2>4 DEF Importer
  <2>6. \A d \in own.todo : Listed(own.entries[d])
    BY <2>4, <2>5 DEF Listed, ProperInv, Importer
  <2>7. /\ file' \in [Bundle -> Entry] /\ Proper(file') /\ foreign' \in BOOLEAN
        /\ acked' \in [Bundle -> Research]
    <3>1. CASE read # importer.entries
      <4>1. /\ file' = read /\ foreign' = (phase # "down")
            /\ acked' = [acked EXCEPT ![b] = Merge(@, ArchiveFields[b])]
        BY <2>1, <3>1
      <4> QED
        BY <2>3, <2>4, <4>1 DEF CatalogTypeOK
    <3>2. CASE read = importer.entries
      <4>1. file' = file /\ foreign' = foreign /\ acked' = acked
        BY <2>1, <3>2
      <4>2. foreign' \in BOOLEAN
        BY <4>1, Zenon DEF CatalogTypeOK
      <4> QED
        BY <4>1, <4>2 DEF CatalogTypeOK, ProperInv
    <3> QED
      BY <3>1, <3>2
  <2> HIDE DEF own, CatalogInv
  <2> QED
    BY <1>1, <2>1, <2>5, <2>6, <2>7
<1>5. CASE \/ \E saved \in BOOLEAN : ImportNotes(saved)
           \/ \E c \in Comparison, saved \in BOOLEAN : ImportSet(c, saved)
  <2>1. PICK own : /\ importer' = own /\ own \in Importer
                   /\ own.entries = importer.entries /\ own.todo = importer.todo
                   /\ own.at \in {"fields", "comparisons"} /\ UNCHANGED catalogVars
    <3>1. CASE \E saved \in BOOLEAN : ImportNotes(saved)
      <4> DEFINE own == [importer EXCEPT
             !.at = IF importer.todo = {} THEN "comparisons" ELSE "fields"]
      <4>1. importer' = own /\ UNCHANGED catalogVars
        BY <3>1 DEF ImportNotes
      <4> QED
        BY <4>1 DEF Importer
    <3>2. ASSUME NEW c \in Comparison, NEW saved \in BOOLEAN, ImportSet(c, saved)
          PROVE  \E own : /\ importer' = own /\ own \in Importer
                   /\ own.entries = importer.entries /\ own.todo = importer.todo
                   /\ own.at \in {"fields", "comparisons"} /\ UNCHANGED catalogVars
      <4> DEFINE own == [importer EXCEPT !.sets = @ \ {c}]
      <4>1. importer.at = "comparisons" /\ importer' = own /\ UNCHANGED catalogVars
        BY <3>2 DEF ImportSet
      <4> QED
        BY <4>1 DEF Importer
    <3> QED
      BY <1>5, <3>1, <3>2
  <2>2. Proper(own.entries) /\ \A b \in own.todo : Listed(own.entries[b])
    BY <2>1 DEF ProperInv
  <2> HIDE DEF CatalogInv
  <2> QED
    BY <1>1, <1>2, <2>1, <2>2
<1>6. CASE ImportEnds
  <2>1. importer' = NoImport /\ UNCHANGED catalogVars
    BY <1>6 DEF ImportEnds
  <2>2. /\ NoImport \in Importer /\ Proper(NoImport.entries)
        /\ NoImport.at = "none" /\ NoImport.todo = {}
    BY EmptyCatalog DEF NoImport, Importer
  <2> HIDE DEF CatalogInv
  <2> QED
    BY <1>1, <1>2, <2>1, <2>2
<1> QED
  BY <1>3, <1>4, <1>5, <1>6 DEF Importing

LEMMA TreeKeepsTheCatalog ==
  ASSUME CatalogInv, Tree
  PROVE  CatalogInv'
<1> PICK b \in Bundle : PreserveWrites(b) \/ BundleRemoved(b)
  BY DEF Tree
<1>1. UNCHANGED <<file, catalogMemory, acked, importer>>
  BY DEF PreserveWrites, BundleRemoved, BundleGrows, process
<1>2. tree' \in [Bundle -> 0..(Partial + Editions)]
  <2>1. /\ tree[b] \in 0..(Partial + Editions)
        /\ Absent \in 0..(Partial + Editions)
    BY CatalogAssumption DEF CatalogInv, CatalogTypeOK, Absent, Partial
  <2>2. CASE PreserveWrites(b)
    <3>1. /\ tree[b] < Partial + Editions
          /\ tree' = [tree EXCEPT ![b] = @ + 1]
      BY <2>2 DEF PreserveWrites, BundleGrows
    <3>2. tree[b] + 1 \in 0..(Partial + Editions)
      BY <2>1, <3>1, CatalogAssumption DEF Partial
    <3> QED
      BY <3>1, <3>2 DEF CatalogInv, CatalogTypeOK
  <2>3. CASE BundleRemoved(b)
    BY <2>1, <2>3 DEF BundleRemoved, CatalogInv, CatalogTypeOK
  <2> QED
    BY <2>2, <2>3
<1> QED
  BY <1>1, <1>2 DEF CatalogInv, catalogMemory, CatalogTypeOK, Importer, ProperInv,
    Proper

\* The catalogues keep their types, and their entries stay proper.
LEMMA CatalogStep ==
  ASSUME CatalogInv, Next
  PROVE  CatalogInv'
<1>1. CASE Quiet
  BY <1>1, CatalogFrame DEF Quiet, vars, process
<1> QED
  BY <1>1, ProcessKeepsTheCatalog, RefreshingKeepsTheCatalog, HandlersKeepTheCatalog,
    ImportingKeepsTheCatalog, TreeKeepsTheCatalog DEF Next

-----------------------------------------------------------------------------
(* The processes and the histories.                                        *)

\* What was crossed stays crossed, and what was removed stays removed.
LEMMA HistoryGrows ==
  ASSUME Next
  PROVE  /\ crossed \subseteq crossed' /\ removed \subseteq removed'
         /\ (crossed \subseteq Race => crossed' \subseteq Race)
         /\ (removed \subseteq Bundle => removed' \subseteq Bundle)
<1>1. \/ crossed' = crossed
      \/ \E races \in SUBSET Race : crossed' = crossed \cup races
  <2>1. CASE Process
    BY <2>1, Zenon DEF Process, New, Serve, Cancel, Unlock, ServerEnds, BackgroundEnds,
      SizesKnown, Crossing, Race
  <2>2. CASE Refreshing
    <3> PICK r \in Refresher :
          \/ \E readable \in BOOLEAN : StartRefresh(r, readable)
          \/ RefreshScans(r)
          \/ RefreshFails(r)
          \/ \E written \in BOOLEAN : RefreshInstalls(r, written)
      BY <2>2 DEF Refreshing
    <3>1. CASE \E readable \in BOOLEAN : StartRefresh(r, readable)
      BY <3>1 DEF StartRefresh, Crossing, Race
    <3>2. CASE RefreshScans(r) \/ RefreshFails(r)
      BY <3>2 DEF RefreshScans, RefreshFails
    <3>3. CASE \E written \in BOOLEAN : RefreshInstalls(r, written)
      <4> DEFINE races == {race \in {"overlapping refreshes"} : r \in outdated}
                            \cup {race \in {"unseen import"} : Overwrites}
      <4>1. crossed' = crossed \cup races
        BY <3>3 DEF RefreshInstalls
      <4>2. races \in SUBSET Race
        BY DEF Race
      <4> HIDE DEF races
      <4> QED
        BY <4>1, <4>2
    <3> QED
      BY <3>1, <3>2, <3>3
  <2>3. CASE Handlers
    <3>1. ASSUME NEW b \in Bundle, NEW research \in Research, EditFields(b, research)
          PROVE  \E races \in SUBSET Race : crossed' = crossed \cup races
      <4> DEFINE races == {race \in {"unseen import"} : Overwrites}
                            \cup {race \in {"handler beside import"} : Beside}
      <4>1. crossed' = crossed \cup races
        BY <3>1 DEF EditFields
      <4>2. races \in SUBSET Race
        BY DEF Race
      <4> HIDE DEF races
      <4> QED
        BY <4>1, <4>2
    <3>2. ASSUME NEW saved \in BOOLEAN, ComparisonCrossing(saved)
          PROVE  \E races \in SUBSET Race : crossed' = crossed \cup races
      <4> DEFINE races == {race \in {"unseen import"} : saved /\ setsForeign}
              \cup {race \in {"handler beside import"} : saved /\ Beside}
      <4>1. crossed' = crossed \cup races
        BY <3>2 DEF ComparisonCrossing
      <4>2. races \in SUBSET Race
        BY DEF Race
      <4> HIDE DEF races
      <4> QED
        BY <4>1, <4>2
    <3> QED
      BY <2>3, <3>1, <3>2 DEF Handlers, AnnotationRequest, AnnotationSaved,
        AnnotationFails, SaveComparison, DeleteComparison
  <2>4. CASE Importing
    BY <2>4, Zenon DEF Importing, ImportStarts, ImportFields, ImportNotes, ImportSet,
      ImportEnds, Crossing, Race
  <2>5. CASE Tree \/ Quiet
    BY <2>5 DEF Tree, PreserveWrites, BundleRemoved, Quiet, vars
  <2> QED
    BY <2>1, <2>2, <2>3, <2>4, <2>5 DEF Next
<1>2. removed' = removed \/ \E b \in Bundle : removed' = removed \cup {b}
  <2>1. CASE Process \/ Quiet
    BY <2>1 DEF Process, New, Serve, Cancel, Unlock, ServerEnds, BackgroundEnds,
      SizesKnown, Quiet, vars
  <2>2. CASE Refreshing
    BY <2>2 DEF Refreshing, StartRefresh, RefreshScans, RefreshFails, RefreshInstalls
  <2>3. CASE Handlers
    BY <2>3 DEF Handlers, EditFields, AnnotationRequest, AnnotationSaved,
        AnnotationFails, SaveComparison, DeleteComparison
  <2>4. CASE Importing
    BY <2>4 DEF Importing, ImportStarts, ImportFields, ImportNotes, ImportSet,
      ImportEnds
  <2>5. CASE Tree
    BY <2>5 DEF Tree, PreserveWrites, BundleRemoved
  <2> QED
    BY <2>1, <2>2, <2>3, <2>4, <2>5 DEF Next
<1> QED
  BY <1>1, <1>2

\* One process holds the lock at a time, and a goroutine only runs in one
\* that serves.
LEMMA ProcessStep ==
  ASSUME CatalogInv, ProcessTypes, ProcessInv, Next
  PROVE  ProcessTypes' /\ ProcessInv'
<1> USE DEF ProcessTypes, ProcessInv
<1>1. CASE Process
  <2>1. ASSUME NEW scanned \in BOOLEAN, NEW readable \in BOOLEAN,
               NEW setsReadable \in BOOLEAN, New(scanned, readable, setsReadable)
        PROVE  ProcessTypes' /\ ProcessInv'
    <3>1. /\ phase = "down" /\ phase' = "loaded" /\ UNCHANGED <<background, lock, importer>>
          /\ refresh' = [r \in Refresher |-> Idle]
      BY <2>1 DEF New, Open
    <3> QED
      BY <3>1, LibraryAssumption DEF Idle
  <2>2. CASE Serve \/ Cancel \/ Unlock \/ BackgroundEnds
    BY <2>2 DEF Serve, Cancel, Unlock, BackgroundEnds, catalogVars, catalogMemory
  <2>3. CASE ServerEnds
    <3>1. /\ phase' = "down" /\ background' = "off" /\ UNCHANGED importer
          /\ lock' = IF lock = "server" THEN "free" ELSE lock
          /\ entries' = NoEntries /\ refresh' = [r \in Refresher |-> Idle]
      BY <2>3 DEF ServerEnds
    <3> QED
      BY <3>1, LibraryAssumption DEF Idle
  <2>4. ASSUME NEW written \in BOOLEAN, SizesKnown(written)
        PROVE  ProcessTypes' /\ ProcessInv'
    BY <2>4 DEF SizesKnown, SaveSizes
  <2> QED
    BY <1>1, <2>1, <2>2, <2>3, <2>4 DEF Process
<1>2. CASE Refreshing
  <2> PICK r \in Refresher :
        \/ \E readable \in BOOLEAN : StartRefresh(r, readable)
        \/ RefreshScans(r)
        \/ RefreshFails(r)
        \/ \E written \in BOOLEAN : RefreshInstalls(r, written)
    BY <1>2 DEF Refreshing
  <2>1. UNCHANGED <<phase, lock, importer>>
    BY DEF StartRefresh, RefreshScans, RefreshFails, RefreshInstalls, process
  <2>2. phase # "down"
    <3>1. CASE \E readable \in BOOLEAN : StartRefresh(r, readable)
      BY <3>1 DEF StartRefresh, Handling
    <3>2. CASE ~\E readable \in BOOLEAN : StartRefresh(r, readable)
      <4>1. refresh[r].at # "idle"
        BY <3>2 DEF RefreshScans, RefreshFails, RefreshInstalls, Scan, ScanFails, Install
      <4> QED
        BY <4>1 DEF Idle
    <3> QED
      BY <3>1, <3>2
  <2>3. refresh \in [Refresher -> [at : {"idle", "scan", "install"},
                                   fresh : [Bundle -> Entry]]] /\ Tick \in Refresher
    BY LibraryAssumption DEF CatalogInv, CatalogTypeOK
  <2>4. CASE \E readable \in BOOLEAN : StartRefresh(r, readable)
    <3>1. /\ refresh' = [refresh EXCEPT ![r].at = "scan"]
          /\ \/ r = Tick /\ background = "waiting" /\ background' = "refreshing"
             \/ r # Tick /\ background' = background
      BY <2>4 DEF StartRefresh, Reload
    <3> QED
      BY <2>1, <2>2, <2>3, <3>1
  <2>5. CASE RefreshScans(r)
    <3>1. /\ refresh' = [refresh EXCEPT ![r] = [at |-> "install", fresh |-> Scanned]]
          /\ refresh[r].at = "scan" /\ background' = background
      BY <2>5 DEF RefreshScans, Scan, process
    <3> HIDE DEF Scanned
    <3> QED
      BY <2>1, <2>2, <2>3, <3>1
  <2>6. ASSUME refresh[r].at # "idle", refresh' = [refresh EXCEPT ![r] = Idle],
               r # Tick => background' = background,
               r = Tick => background' \in {"sizing", "waiting"}
        PROVE  ProcessTypes' /\ ProcessInv'
    BY <2>1, <2>2, <2>3, <2>6 DEF Idle
  <2>7. CASE RefreshFails(r) \/ \E written \in BOOLEAN : RefreshInstalls(r, written)
    <3>1. refresh[r].at # "idle" /\ refresh' = [refresh EXCEPT ![r] = Idle]
      BY <2>7 DEF RefreshFails, ScanFails, RefreshInstalls, Install
    <3>2. /\ r # Tick => background' = background
          /\ r = Tick => background' \in {"sizing", "waiting"}
      <4>1. CASE RefreshFails(r)
        BY <4>1 DEF RefreshFails
      <4>2. ASSUME NEW written \in BOOLEAN, RefreshInstalls(r, written)
            PROVE  /\ r # Tick => background' = background
                   /\ r = Tick => background' \in {"sizing", "waiting"}
        <5>1. background' = IF r # Tick THEN background
                            ELSE IF Changes(r) THEN "sizing" ELSE "waiting"
          BY <4>2 DEF RefreshInstalls
        <5> HIDE DEF Changes
        <5> QED
          BY <5>1
      <4> QED
        BY <2>7, <4>1, <4>2
    <3> HIDE DEF ProcessTypes, ProcessInv
    <3> QED
      BY <3>1, <3>2, <2>6
  <2> HIDE DEF ProcessTypes, ProcessInv
  <2> QED
    BY <2>4, <2>5, <2>7
<1>3. CASE Handlers
  <2>1. UNCHANGED <<phase, background, lock, importer, refresh>>
        /\ (entries' # entries => phase # "down")
    BY <1>3 DEF Handlers, EditFields, AnnotationRequest, AnnotationSaved,
      AnnotationFails, SaveComparison, DeleteComparison, Handling, Update, process,
      catalogVars, catalogMemory
  <2> QED
    BY <2>1
<1>4. CASE Importing
  <2>1. UNCHANGED <<phase, background, entries, refresh>>
    BY <1>4 DEF Importing, ImportStarts, ImportFields, ImportNotes, ImportSet,
      ImportEnds, catalogVars, catalogMemory
  <2>2. \/ lock = "free" /\ lock' = "import" /\ importer'.at = "fields"
        \/ lock = "import" /\ lock' = "free" /\ importer'.at = "none"
        \/ lock = "import" /\ lock' = "import" /\ importer'.at # "none"
    <3>1. importer \in Importer
      BY DEF CatalogInv
    <3>2. CASE \E scanned \in BOOLEAN : ImportStarts(scanned)
      BY <3>2 DEF ImportStarts
    <3>3. CASE \E b \in Bundle, saved \in BOOLEAN : ImportFields(b, saved)
      BY <3>1, <3>3 DEF ImportFields, Importer
    <3>4. CASE \E saved \in BOOLEAN : ImportNotes(saved)
      BY <3>1, <3>4 DEF ImportNotes, Importer
    <3>5. CASE \E c \in Comparison, saved \in BOOLEAN : ImportSet(c, saved)
      BY <3>1, <3>5 DEF ImportSet, Importer
    <3>6. CASE ImportEnds
      BY <3>6 DEF ImportEnds, NoImport
    <3> QED
      BY <1>4, <3>2, <3>3, <3>4, <3>5, <3>6 DEF Importing
  <2> QED
    BY <2>1, <2>2
<1>5. CASE Tree \/ Quiet
  <2>1. UNCHANGED process /\ UNCHANGED <<entries, refresh>>
    BY <1>5 DEF Tree, PreserveWrites, BundleGrows, BundleRemoved, Quiet, vars, process,
      catalogVars, catalogMemory
  <2> QED
    BY <2>1 DEF process
<1> QED
  BY <1>1, <1>2, <1>3, <1>4, <1>5 DEF Next

-----------------------------------------------------------------------------
(* The comparisons.                                                        *)

LEMMA SetsFrame ==
  ASSUME ComparisonsTypeOK, SetsInv, crossed \subseteq crossed',
         UNCHANGED <<setsFile, compared>>, sets' \subseteq Comparison,
         setsErr' \in BOOLEAN, setsForeign' \in BOOLEAN
  PROVE  ComparisonsTypeOK' /\ SetsInv'
BY DEF ComparisonsTypeOK, SetsInv

LEMMA OneMoreFits ==
  ASSUME NEW m \in Nat, NEW n \in Nat, n < m
  PROVE  n + 1 <= m
OBVIOUS

LEMMA OneLessFits ==
  ASSUME NEW m \in Nat, NEW n \in Nat, n <= m
  PROVE  n - 1 <= m
OBVIOUS

\* A comparison joins the file only beside others of other names, and only
\* while there is room.
LEMMA SetsGrow ==
  ASSUME ComparisonsTypeOK, SetsInv, crossed \subseteq crossed', NEW c \in Comparison,
         Room(setsFile), NameFree(c, setsFile), setsFile' = setsFile \cup {c},
         compared' = compared \cup {c}
  PROVE  SetsInv'
<1> SUFFICES ASSUME crossed' \cap {"unseen import", "handler beside import"} = {}
             PROVE  /\ setsFile' = compared'
                    /\ IsFiniteSet(setsFile')
                    /\ Cardinality(setsFile') <= MaxSaved
                    /\ \A d, e \in setsFile' : d # e => NameOf[d] # NameOf[e]
  BY DEF SetsInv
<1>1. /\ setsFile = compared /\ IsFiniteSet(setsFile)
      /\ \A d, e \in setsFile : d # e => NameOf[d] # NameOf[e]
  BY DEF SetsInv
<1>2. c \notin setsFile
  BY DEF NameFree
<1>3. /\ IsFiniteSet(setsFile') /\ Cardinality(setsFile') = Cardinality(setsFile) + 1
  BY <1>1, <1>2, FS_AddElement
<1>4. Cardinality(setsFile) \in Nat /\ Cardinality(setsFile) < MaxSaved
  BY <1>1, FS_CardinalityType DEF Room
<1>5. Cardinality(setsFile') <= MaxSaved
  <2>1. MaxSaved \in Nat
    BY ComparisonsAssumption
  <2> QED
    BY <1>3, <1>4, <2>1, OneMoreFits
<1>6. \A d, e \in setsFile' : d # e => NameOf[d] # NameOf[e]
  <2>1. \A d \in setsFile : d # c => NameOf[d] # NameOf[c]
    BY DEF NameFree
  <2> QED
    BY <1>1, <2>1
<1> QED
  BY <1>1, <1>3, <1>5, <1>6

LEMMA SetsSteps ==
  ASSUME Next
  PROVE  \/ UNCHANGED setsVars /\ (phase = "down" => phase' = "down")
         \/ ServerEnds
         \/ \E scanned, readable, setsReadable \in BOOLEAN :
              New(scanned, readable, setsReadable)
         \/ \E c \in Comparison, saved \in BOOLEAN :
              \/ SaveComparison(c, saved) \/ DeleteComparison(c, saved)
              \/ ImportSet(c, saved)
<1>1. CASE Process
  BY <1>1 DEF Process, Serve, Cancel, Unlock, BackgroundEnds, SizesKnown
<1>2. CASE Refreshing
  BY <1>2
  DEF Refreshing, StartRefresh, RefreshScans, RefreshFails, RefreshInstalls, process
<1>3. CASE Handlers
  BY <1>3 DEF Handlers, EditFields, AnnotationRequest, AnnotationSaved,
    AnnotationFails, process
<1>4. CASE Importing
  BY <1>4 DEF Importing, ImportStarts, ImportFields, ImportNotes, ImportEnds
<1>5. CASE Tree \/ Quiet
  BY <1>5 DEF Tree, PreserveWrites, BundleRemoved, Quiet, vars, process
<1> QED
  BY <1>1, <1>2, <1>3, <1>4, <1>5 DEF Next

\* What a request or an import does with the file of comparisons.
LEMMA SetsSaved ==
  ASSUME NEW c \in Comparison, NEW saved \in BOOLEAN
  PROVE  /\ SaveComparison(c, saved) \/ DeleteComparison(c, saved) =>
              /\ phase # "down" /\ phase' = phase /\ ~setsErr
              /\ UNCHANGED <<setsErr, setsForeign>>
              /\ saved /\ setsForeign => "unseen import" \in crossed'
         /\ SaveComparison(c, saved) =>
              IF saved
              THEN /\ Room(sets) /\ NameFree(c, sets) /\ sets' = sets \cup {c}
                   /\ setsFile' = sets' /\ compared' = compared \cup {c}
              ELSE UNCHANGED <<sets, setsFile, compared>>
         /\ DeleteComparison(c, saved) =>
              IF saved
              THEN /\ c \in sets /\ sets' = sets \ {c}
                   /\ setsFile' = sets' /\ compared' = compared \ {c}
              ELSE UNCHANGED <<sets, setsFile, compared>>
         /\ ImportSet(c, saved) =>
              /\ UNCHANGED <<phase, sets, setsErr>>
              /\ IF saved
                 THEN /\ Room(setsFile) /\ NameFree(c, setsFile)
                      /\ setsFile' = setsFile \cup {c}
                      /\ setsForeign' = (phase # "down")
                      /\ compared' = compared \cup {c}
                 ELSE UNCHANGED <<setsFile, setsForeign, compared>>
<1>1. CASE saved
  BY <1>1 DEF SaveComparison, DeleteComparison, ImportSet, AddSet, DeleteSet,
    MergeSet, ComparisonCrossing, Handling, process
<1>2. CASE ~saved
  BY <1>2 DEF SaveComparison, DeleteComparison, ImportSet, AddSet, DeleteSet,
    MergeSet, Handling, process
<1> QED
  BY <1>1, <1>2

LEMMA SetsSeenStep ==
  ASSUME SetsSeen, Next
  PROVE  SetsSeen'
<1>1. CASE UNCHANGED setsVars /\ (phase = "down" => phase' = "down")
  BY <1>1 DEF SetsSeen, setsVars
<1>2. CASE ServerEnds
  BY <1>2 DEF SetsSeen, ServerEnds
<1>3. ASSUME NEW scanned \in BOOLEAN, NEW readable \in BOOLEAN,
             NEW setsReadable \in BOOLEAN, New(scanned, readable, setsReadable)
      PROVE  SetsSeen'
  BY <1>3 DEF SetsSeen, New, OpenSets
<1>4. ASSUME NEW c \in Comparison, NEW saved \in BOOLEAN,
             \/ SaveComparison(c, saved) \/ DeleteComparison(c, saved)
             \/ ImportSet(c, saved)
      PROVE  SetsSeen'
  <2>1. CASE saved
    BY <1>4, <2>1, SetsSaved DEF SetsSeen
  <2>2. CASE ~saved
    BY <1>4, <2>2, SetsSaved DEF SetsSeen
  <2> QED
    BY <2>1, <2>2
<1> QED
  BY <1>1, <1>2, <1>3, <1>4, SetsSteps

LEMMA SetsStep ==
  ASSUME ComparisonsTypeOK, SetsInv, SetsSeen, Next
  PROVE  ComparisonsTypeOK' /\ SetsInv'
<1>0. crossed \subseteq crossed'
  BY HistoryGrows
<1>1. CASE UNCHANGED setsVars
  BY <1>0, <1>1, SetsFrame DEF setsVars, ComparisonsTypeOK
<1>2. CASE ServerEnds \/ \E scanned, readable, setsReadable \in BOOLEAN :
                           New(scanned, readable, setsReadable)
  BY <1>0, <1>2, SetsFrame DEF New, OpenSets, ServerEnds, ComparisonsTypeOK
<1>3. ASSUME NEW c \in Comparison, SaveComparison(c, TRUE)
      PROVE  ComparisonsTypeOK' /\ SetsInv'
  <2>1. /\ Room(sets) /\ NameFree(c, sets) /\ setsFile' = sets \cup {c}
        /\ sets' = setsFile' /\ compared' = compared \cup {c}
        /\ UNCHANGED <<setsErr, setsForeign>>
        /\ phase # "down" /\ ~setsErr
        /\ setsForeign => "unseen import" \in crossed'
    BY <1>3, SetsSaved
  <2>2. ComparisonsTypeOK'
    <3>1. setsErr' \in BOOLEAN /\ setsForeign' \in BOOLEAN
      BY <2>1, Zenon DEF ComparisonsTypeOK
    <3> QED
      BY <2>1, <3>1 DEF ComparisonsTypeOK
  <2>3. CASE sets = setsFile
    BY <1>0, <2>1, <2>2, <2>3, SetsGrow
  <2>4. CASE sets # setsFile
    <3>1. "unseen import" \in crossed'
      BY <2>1, <2>4 DEF SetsSeen
    <3> QED
      BY <2>2, <3>1 DEF SetsInv
  <2> QED
    BY <2>3, <2>4
<1>4. ASSUME NEW c \in Comparison, DeleteComparison(c, TRUE)
      PROVE  ComparisonsTypeOK' /\ SetsInv'
  <2>1. /\ c \in sets /\ setsFile' = sets \ {c}
        /\ sets' = setsFile' /\ compared' = compared \ {c}
        /\ UNCHANGED <<setsErr, setsForeign>>
        /\ phase # "down" /\ ~setsErr
        /\ setsForeign => "unseen import" \in crossed'
    BY <1>4, SetsSaved
  <2>2. ComparisonsTypeOK'
    <3>1. setsErr' \in BOOLEAN /\ setsForeign' \in BOOLEAN
      BY <2>1, Zenon DEF ComparisonsTypeOK
    <3> QED
      BY <2>1, <3>1 DEF ComparisonsTypeOK
  <2>3. ASSUME crossed' \cap {"unseen import", "handler beside import"} = {}
        PROVE  /\ setsFile' = compared'
               /\ IsFiniteSet(setsFile')
               /\ Cardinality(setsFile') <= MaxSaved
               /\ \A d, e \in setsFile' : d # e => NameOf[d] # NameOf[e]
    <3>1. sets = setsFile
      BY <2>1, <2>3 DEF SetsSeen
    <3>2. /\ setsFile = compared /\ IsFiniteSet(setsFile)
          /\ Cardinality(setsFile) <= MaxSaved
          /\ \A d, e \in setsFile : d # e => NameOf[d] # NameOf[e]
      BY <1>0, <2>3 DEF SetsInv
    <3>3. IsFiniteSet(setsFile') /\ Cardinality(setsFile') = Cardinality(setsFile) - 1
      BY <2>1, <3>1, <3>2, FS_RemoveElement
    <3>4. Cardinality(setsFile) \in Nat /\ MaxSaved \in Nat
      BY <3>2, FS_CardinalityType, ComparisonsAssumption
    <3>5. Cardinality(setsFile') <= MaxSaved
      BY <3>2, <3>3, <3>4, OneLessFits
    <3>6. setsFile' = compared'
      BY <2>1, <3>1, <3>2
    <3>7. \A d, e \in setsFile' : d # e => NameOf[d] # NameOf[e]
      BY <2>1, <3>1, <3>2
    <3> QED
      BY <3>3, <3>5, <3>6, <3>7
  <2> QED
    BY <2>2, <2>3 DEF SetsInv
<1>5. ASSUME NEW c \in Comparison, ImportSet(c, TRUE)
      PROVE  ComparisonsTypeOK' /\ SetsInv'
  <2>1. /\ Room(setsFile) /\ NameFree(c, setsFile) /\ setsFile' = setsFile \cup {c}
        /\ compared' = compared \cup {c} /\ UNCHANGED <<sets, setsErr>>
        /\ setsForeign' \in BOOLEAN
    BY <1>5, SetsSaved
  <2>2. ComparisonsTypeOK'
    BY <2>1 DEF ComparisonsTypeOK
  <2> QED
    BY <1>0, <2>1, <2>2, SetsGrow
<1>6. ASSUME NEW c \in Comparison, \/ SaveComparison(c, FALSE)
                                  \/ DeleteComparison(c, FALSE)
                                  \/ ImportSet(c, FALSE)
      PROVE  UNCHANGED setsVars
  <2>1. UNCHANGED <<sets, setsErr, setsFile, setsForeign, compared>>
    BY <1>6, SetsSaved
  <2> QED
    BY <2>1 DEF setsVars
<1> QED
  BY <1>1, <1>2, <1>3, <1>4, <1>5, <1>6, SetsSteps

-----------------------------------------------------------------------------
(* What the operations on annotation pages do.                             *)

LEMMA NotesOnPages ==
  ASSUME NEW page \in Seq(Note)
  PROVE  /\ NotesOn(page) \subseteq Note
         /\ Ids(page) = {x.id : x \in NotesOn(page)}
         /\ \A note \in Note :
              /\ Append(page, note) \in Seq(Note)
              /\ NotesOn(Append(page, note)) = NotesOn(page) \cup {note}
         /\ \A other \in Seq(Note) :
              /\ page \o other \in Seq(Note)
              /\ NotesOn(page \o other) = NotesOn(page) \cup NotesOn(other)
<1>1. NotesOn(page) \subseteq Note
  BY DEF NotesOn
<1>2. Ids(page) = {x.id : x \in NotesOn(page)}
  BY DEF Ids, NotesOn
<1>3. ASSUME NEW note \in Note
      PROVE  /\ Append(page, note) \in Seq(Note)
             /\ NotesOn(Append(page, note)) = NotesOn(page) \cup {note}
  <2> DEFINE longer == Append(page, note)
  <2>1. /\ longer \in Seq(Note) /\ DOMAIN longer = DOMAIN page \cup {Len(page) + 1}
        /\ \A k \in DOMAIN page : longer[k] = page[k]
        /\ longer[Len(page) + 1] = note
    OBVIOUS
  <2> HIDE DEF longer
  <2>2. NotesOn(longer) = NotesOn(page) \cup {note}
    BY <2>1 DEF NotesOn
  <2> QED
    BY <2>1, <2>2 DEF longer
<1>4. ASSUME NEW other \in Seq(Note)
      PROVE  /\ page \o other \in Seq(Note)
             /\ NotesOn(page \o other) = NotesOn(page) \cup NotesOn(other)
  <2> DEFINE both == page \o other
  <2>1. /\ both \in Seq(Note) /\ Len(page) \in Nat /\ Len(other) \in Nat
        /\ DOMAIN both = 1..(Len(page) + Len(other))
        /\ DOMAIN page = 1..Len(page) /\ DOMAIN other = 1..Len(other)
        /\ \A k \in 1..Len(page) : both[k] = page[k]
        /\ \A k \in 1..Len(other) : both[Len(page) + k] = other[k]
    OBVIOUS
  <2> HIDE DEF both
  <2>2. \A k \in DOMAIN both : both[k] \in NotesOn(page) \cup NotesOn(other)
    <3> TAKE k \in DOMAIN both
    <3>1. CASE k <= Len(page)
      BY <2>1, <3>1 DEF NotesOn
    <3>2. CASE k > Len(page)
      <4>1. k - Len(page) \in 1..Len(other) /\ k = Len(page) + (k - Len(page))
        BY <2>1, <3>2
      <4>2. both[k] = other[k - Len(page)]
        BY <2>1, <4>1
      <4> QED
        BY <2>1, <4>1, <4>2 DEF NotesOn
    <3> QED
      BY <2>1, <3>1, <3>2
  <2>3. \A k \in DOMAIN page : k \in DOMAIN both /\ both[k] = page[k]
    BY <2>1
  <2>4. \A k \in DOMAIN other : Len(page) + k \in DOMAIN both
                                /\ both[Len(page) + k] = other[k]
    BY <2>1
  <2>5. NotesOn(both) = NotesOn(page) \cup NotesOn(other)
    BY <2>2, <2>3, <2>4 DEF NotesOn
  <2> QED
    BY <2>1, <2>5 DEF both
<1> QED
  BY <1>1, <1>2, <1>3, <1>4

\* There is a smallest of some natural numbers.
LEMMA SmallestOf ==
  ASSUME NEW T, T \subseteq Nat, T # {}
  PROVE  \E x \in T : \A y \in T : x <= y
<1>1. PICK x \in T : \A y \in T : ~(<<y, x>> \in OpToRel(<, Nat))
  BY NatLessThanWellFounded, WFMin
<1>2. \A y \in T : ~(y < x) /\ x \in Nat /\ y \in Nat
  BY <1>1 DEF OpToRel
<1> QED
  BY <1>2

\* A loop over a page that makes the next page of the last one runs to its end.
LEMMA LoopRuns ==
  ASSUME NEW n \in Nat, NEW next \in [(1..n) \X Seq(Note) -> Seq(Note)]
  PROVE  \E f \in [0..n -> Seq(Note)] :
           f[0] = <<>> /\ \A k \in 1..n : f[k] = next[<<k, f[k - 1]>>]
<1> DEFINE Runs(m, f) == /\ f \in [0..m -> Seq(Note)] /\ f[0] = <<>>
                         /\ \A k \in 1..m : f[k] = next[<<k, f[k - 1]>>]
           Stuck      == {m \in Nat : m <= n /\ ~\E f : Runs(m, f)}
<1>1. Stuck = {}
  <2> SUFFICES ASSUME Stuck # {} PROVE FALSE
    OBVIOUS
  <2>1. PICK m \in Stuck : \A k \in Stuck : m <= k
    BY SmallestOf
  <2>2. CASE m = 0
    <3> DEFINE f == [k \in 0..0 |-> <<>>]
    <3>1. <<>> \in Seq(Note)
      OBVIOUS
    <3>2. Runs(0, f)
      BY <3>1
    <3> HIDE DEF f, Runs
    <3> QED
      BY <2>2, <3>2
  <2>3. CASE m # 0
    <3>1. m \in 1..n /\ m - 1 \in Nat /\ m - 1 <= n /\ ~(m <= m - 1)
      BY <2>3
    <3>2. PICK f : Runs(m - 1, f)
      <4>1. m - 1 \notin Stuck
        BY <2>1, <3>1
      <4> HIDE DEF Runs
      <4> QED
        BY <3>1, <4>1
    <3> DEFINE g == [k \in 0..m |-> IF k = m THEN next[<<m, f[m - 1]>>] ELSE f[k]]
    <3>3. /\ \A k \in 0..(m - 1) : g[k] = f[k] /\ f[k] \in Seq(Note)
          /\ g[m] = next[<<m, f[m - 1]>>] /\ g[m] \in Seq(Note)
      BY <3>1, <3>2
    <3>4. 0..m = 0..(m - 1) \cup {m} /\ 1..m = 1..(m - 1) \cup {m}
      BY <3>1
    <3>5. g \in [0..m -> Seq(Note)]
      BY <3>3, <3>4
    <3>6. \A k \in 1..m : g[k] = next[<<k, g[k - 1]>>]
      <4>1. g[m - 1] = f[m - 1]
        BY <3>1, <3>3
      <4>2. ASSUME NEW k \in 1..(m - 1) PROVE g[k] = next[<<k, g[k - 1]>>]
        <5>1. k \in 0..(m - 1) /\ k - 1 \in 0..(m - 1)
          BY <3>1
        <5>2. g[k] = f[k] /\ g[k - 1] = f[k - 1] /\ f[k] = next[<<k, f[k - 1]>>]
          BY <3>2, <3>3, <5>1
        <5> QED
          BY <5>2
      <4> HIDE DEF g
      <4> QED
        BY <3>3, <3>4, <4>1, <4>2
    <3>7. g[0] = <<>>
      BY <3>1, <3>2, <3>3
    <3> HIDE DEF g
    <3>8. Runs(m, g)
      BY <3>5, <3>6, <3>7
    <3> HIDE DEF Runs
    <3> QED
      BY <3>8
  <2> QED
    BY <2>2, <2>3
<1>2. \E f : Runs(n, f)
  <2> HIDE DEF Runs
  <2>1. ASSUME ~\E f : Runs(n, f) PROVE n \in Stuck
    BY <2>1
  <2> HIDE DEF Stuck
  <2>2. n \notin Stuck
    BY <1>1
  <2> QED
    BY <2>1, <2>2
<1> QED
  BY <1>2

\* The loops of Selected and Missing, up to each of their rounds.
Selecting(page, ids) ==
  LET selected[k \in 0..Len(page)] ==
        IF k = 0 THEN <<>>
        ELSE IF page[k].id \in ids
             THEN Append(selected[k - 1], page[k])
             ELSE selected[k - 1]
  IN selected

Adding(page, incoming) ==
  LET missing[k \in 0..Len(incoming)] ==
        IF k = 0 THEN <<>>
        ELSE IF incoming[k].id \in Ids(page) \cup Ids(missing[k - 1])
             THEN missing[k - 1]
             ELSE Append(missing[k - 1], incoming[k])
  IN missing

LEMMA SelectingUnfolds ==
  ASSUME NEW page \in Seq(Note), NEW ids
  PROVE  /\ Selecting(page, ids) =
              [k \in 0..Len(page) |->
                IF k = 0 THEN <<>>
                ELSE IF page[k].id \in ids
                     THEN Append(Selecting(page, ids)[k - 1], page[k])
                     ELSE Selecting(page, ids)[k - 1]]
         /\ Selected(page, ids) = Selecting(page, ids)[Len(page)]
<1> DEFINE n    == Len(page)
           next == [p \in (1..n) \X Seq(Note) |->
                      IF page[p[1]].id \in ids THEN Append(p[2], page[p[1]]) ELSE p[2]]
<1>1. n \in Nat /\ \A k \in 1..n : page[k] \in Note
  OBVIOUS
<1>2. next \in [(1..n) \X Seq(Note) -> Seq(Note)]
  BY <1>1
<1>3. \A k \in 1..n, made \in Seq(Note) :
        next[<<k, made>>] = IF page[k].id \in ids THEN Append(made, page[k]) ELSE made
  OBVIOUS
<1> HIDE DEF next, n
<1>4. PICK f \in [0..n -> Seq(Note)] :
        f[0] = <<>> /\ \A k \in 1..n : f[k] = next[<<k, f[k - 1]>>]
  BY <1>1, <1>2, LoopRuns
<1>5. \A k \in 0..n :
        f[k] = IF k = 0 THEN <<>>
               ELSE IF page[k].id \in ids THEN Append(f[k - 1], page[k]) ELSE f[k - 1]
  <2> TAKE k \in 0..n
  <2>1. CASE k = 0
    BY <1>4, <2>1
  <2>2. CASE k # 0
    <3>1. k \in 1..n /\ k - 1 \in 0..n
      BY <1>1, <2>2
    <3>2. f[k - 1] \in Seq(Note) /\ f[k] = next[<<k, f[k - 1]>>]
      BY <1>4, <3>1
    <3> QED
      BY <1>3, <2>2, <3>1, <3>2
  <2> QED
    BY <2>1, <2>2
<1>6. \E g : g = [k \in 0..Len(page) |->
                   IF k = 0 THEN <<>>
                   ELSE IF page[k].id \in ids THEN Append(g[k - 1], page[k]) ELSE g[k - 1]]
  <2>1. f = [k \in 0..n |->
               IF k = 0 THEN <<>>
               ELSE IF page[k].id \in ids THEN Append(f[k - 1], page[k]) ELSE f[k - 1]]
    BY <1>5
  <2> QED
    BY <2>1 DEF n
<1> QED
  BY <1>6 DEF Selecting, Selected

LEMMA AddingUnfolds ==
  ASSUME NEW page \in Seq(Note), NEW incoming \in Seq(Note)
  PROVE  /\ Adding(page, incoming) =
              [k \in 0..Len(incoming) |->
                IF k = 0 THEN <<>>
                ELSE IF incoming[k].id \in
                          Ids(page) \cup Ids(Adding(page, incoming)[k - 1])
                     THEN Adding(page, incoming)[k - 1]
                     ELSE Append(Adding(page, incoming)[k - 1], incoming[k])]
         /\ Missing(page, incoming) = Adding(page, incoming)[Len(incoming)]
<1> DEFINE n    == Len(incoming)
           next == [p \in (1..n) \X Seq(Note) |->
                      IF incoming[p[1]].id \in Ids(page) \cup Ids(p[2])
                      THEN p[2] ELSE Append(p[2], incoming[p[1]])]
<1>1. n \in Nat /\ \A k \in 1..n : incoming[k] \in Note
  OBVIOUS
<1>2. next \in [(1..n) \X Seq(Note) -> Seq(Note)]
  BY <1>1
<1>3. \A k \in 1..n, made \in Seq(Note) :
        next[<<k, made>>] = IF incoming[k].id \in Ids(page) \cup Ids(made)
                        THEN made ELSE Append(made, incoming[k])
  OBVIOUS
<1> HIDE DEF next, n
<1>4. PICK f \in [0..n -> Seq(Note)] :
        f[0] = <<>> /\ \A k \in 1..n : f[k] = next[<<k, f[k - 1]>>]
  BY <1>1, <1>2, LoopRuns
<1>5. \A k \in 0..n :
        f[k] = IF k = 0 THEN <<>>
               ELSE IF incoming[k].id \in Ids(page) \cup Ids(f[k - 1])
                    THEN f[k - 1] ELSE Append(f[k - 1], incoming[k])
  <2> TAKE k \in 0..n
  <2>1. CASE k = 0
    BY <1>4, <2>1
  <2>2. CASE k # 0
    <3>1. k \in 1..n /\ k - 1 \in 0..n
      BY <1>1, <2>2
    <3>2. f[k - 1] \in Seq(Note) /\ f[k] = next[<<k, f[k - 1]>>]
      BY <1>4, <3>1
    <3> QED
      BY <1>3, <2>2, <3>1, <3>2
  <2> QED
    BY <2>1, <2>2
<1>6. \E g : g = [k \in 0..Len(incoming) |->
                   IF k = 0 THEN <<>>
                   ELSE IF incoming[k].id \in Ids(page) \cup Ids(g[k - 1])
                        THEN g[k - 1] ELSE Append(g[k - 1], incoming[k])]
  <2>1. f = [k \in 0..n |->
               IF k = 0 THEN <<>>
               ELSE IF incoming[k].id \in Ids(page) \cup Ids(f[k - 1])
                    THEN f[k - 1] ELSE Append(f[k - 1], incoming[k])]
    BY <1>5
  <2> QED
    BY <2>1 DEF n
<1> QED
  BY <1>6 DEF Adding, Missing

\* The filter keeps the annotations under those identifiers and no others.
LEMMA SelectedNotes ==
  ASSUME NEW page \in Seq(Note), NEW ids
  PROVE  /\ Selected(page, ids) \in Seq(Note)
         /\ NotesOn(Selected(page, ids)) = {x \in NotesOn(page) : x.id \in ids}
<1> DEFINE S       == Selecting(page, ids)
           Done(k) == {page[i] : i \in 1..k}
           Good(k) == /\ S[k] \in Seq(Note)
                      /\ NotesOn(S[k]) = {x \in Done(k) : x.id \in ids}
           Bad     == {k \in Nat : k <= Len(page) /\ ~Good(k)}
<1>1. S = [k \in 0..Len(page) |->
             IF k = 0 THEN <<>>
             ELSE IF page[k].id \in ids THEN Append(S[k - 1], page[k]) ELSE S[k - 1]]
  BY SelectingUnfolds
<1> HIDE DEF S
<1>2. Bad = {}
  <2> SUFFICES ASSUME Bad # {} PROVE FALSE
    OBVIOUS
  <2>1. PICK k \in Bad : \A m \in Bad : k <= m
    BY SmallestOf
  <2>2. CASE k = 0
    <3>1. S[0] = <<>>
      BY <1>1
    <3>2. <<>> \in Seq(Note)
      OBVIOUS
    <3>3. NotesOn(<<>>) = {} /\ Done(0) = {}
      BY DEF NotesOn
    <3>4. Good(0)
      BY <3>1, <3>2, <3>3
    <3> QED
      BY <2>2, <3>4
  <2>3. CASE k # 0
    <3>1. k - 1 \in Nat /\ k \in 1..Len(page) /\ Good(k - 1)
      <4>1. k \in Nat /\ k <= Len(page) /\ Len(page) \in Nat
        OBVIOUS
      <4>2. k - 1 \in Nat /\ ~(k <= k - 1) /\ k - 1 <= Len(page) /\ k \in 1..Len(page)
        BY <2>3, <4>1
      <4> HIDE DEF Good
      <4> QED
        BY <2>1, <4>1, <4>2
    <3>2. S[k] = IF page[k].id \in ids THEN Append(S[k - 1], page[k]) ELSE S[k - 1]
      <4>1. k \in 0..Len(page) /\ k # 0
        BY <3>1
      <4> HIDE DEF Good, Bad
      <4> QED
        BY <1>1, <4>1
    <3>3. page[k] \in Note /\ Done(k) = Done(k - 1) \cup {page[k]}
      <4>1. 1..k = 1..(k - 1) \cup {k} /\ k \in DOMAIN page
        BY <3>1
      <4> HIDE DEF Good, Bad
      <4> QED
        BY <4>1
    <3>4. S[k - 1] \in Seq(Note) /\ NotesOn(S[k - 1]) = {x \in Done(k - 1) : x.id \in ids}
      BY <3>1
    <3>5. Good(k)
      <4> HIDE DEF Done, Bad
      <4>1. CASE page[k].id \in ids
        <5>1. S[k] \in Seq(Note) /\ NotesOn(S[k]) = NotesOn(S[k - 1]) \cup {page[k]}
          BY <3>2, <3>3, <3>4, <4>1, NotesOnPages
        <5> QED
          BY <3>3, <3>4, <4>1, <5>1
      <4>2. CASE page[k].id \notin ids
        BY <3>2, <3>3, <3>4, <4>2
      <4> QED
        BY <4>1, <4>2
    <3> QED
      BY <3>5
  <2> QED
    BY <2>2, <2>3
<1>3. Good(Len(page))
  <2>1. Len(page) \in Nat
    OBVIOUS
  <2> HIDE DEF Good
  <2> QED
    BY <1>2, <2>1
<1>4. Done(Len(page)) = NotesOn(page)
  BY DEF NotesOn
<1> QED
  BY <1>3, <1>4, SelectingUnfolds DEF S

\* A merge adds annotations of the archive, each identifier once, and no
\* identifier that is there.
LEMMA MissingNotes ==
  ASSUME NEW page \in Seq(Note), NEW incoming \in Seq(Note)
  PROVE  /\ Missing(page, incoming) \in Seq(Note)
         /\ NotesOn(Missing(page, incoming)) \subseteq NotesOn(incoming)
         /\ Ids(Missing(page, incoming)) = Ids(incoming) \ Ids(page)
<1> DEFINE S       == Adding(page, incoming)
           Done(k) == {incoming[i] : i \in 1..k}
           Good(k) == /\ S[k] \in Seq(Note)
                      /\ NotesOn(S[k]) \subseteq Done(k)
                      /\ Ids(S[k]) = {x.id : x \in Done(k)} \ Ids(page)
           Bad     == {k \in Nat : k <= Len(incoming) /\ ~Good(k)}
<1>1. S = [k \in 0..Len(incoming) |->
             IF k = 0 THEN <<>>
             ELSE IF incoming[k].id \in Ids(page) \cup Ids(S[k - 1])
                  THEN S[k - 1] ELSE Append(S[k - 1], incoming[k])]
  BY AddingUnfolds
<1> HIDE DEF S
<1>2. Bad = {}
  <2> SUFFICES ASSUME Bad # {} PROVE FALSE
    OBVIOUS
  <2>1. PICK k \in Bad : \A m \in Bad : k <= m
    BY SmallestOf
  <2>2. CASE k = 0
    <3>1. S[0] = <<>>
      BY <1>1
    <3>2. <<>> \in Seq(Note)
      OBVIOUS
    <3>3. NotesOn(<<>>) = {} /\ Ids(<<>>) = {} /\ Done(0) = {}
      BY DEF NotesOn, Ids
    <3>4. Good(0)
      BY <3>1, <3>2, <3>3
    <3> QED
      BY <2>2, <3>4
  <2>3. CASE k # 0
    <3>1. k - 1 \in Nat /\ k \in 1..Len(incoming) /\ Good(k - 1)
      <4>1. k \in Nat /\ k <= Len(incoming) /\ Len(incoming) \in Nat
        OBVIOUS
      <4>2. /\ k - 1 \in Nat /\ ~(k <= k - 1) /\ k - 1 <= Len(incoming)
            /\ k \in 1..Len(incoming)
        BY <2>3, <4>1
      <4> HIDE DEF Good
      <4> QED
        BY <2>1, <4>1, <4>2
    <3>2. S[k] = IF incoming[k].id \in Ids(page) \cup Ids(S[k - 1])
                 THEN S[k - 1] ELSE Append(S[k - 1], incoming[k])
      <4>1. k \in 0..Len(incoming) /\ k # 0
        BY <3>1
      <4> HIDE DEF Good, Bad
      <4> QED
        BY <1>1, <4>1
    <3>3. incoming[k] \in Note /\ Done(k) = Done(k - 1) \cup {incoming[k]}
      <4>1. 1..k = 1..(k - 1) \cup {k} /\ k \in DOMAIN incoming
        BY <3>1
      <4> HIDE DEF Good, Bad
      <4> QED
        BY <4>1
    <3>4. /\ S[k - 1] \in Seq(Note) /\ NotesOn(S[k - 1]) \subseteq Done(k - 1)
          /\ Ids(S[k - 1]) = {x.id : x \in Done(k - 1)} \ Ids(page)
      BY <3>1
    <3>5. Good(k)
      <4> HIDE DEF Done, Bad
      <4>1. CASE incoming[k].id \notin Ids(page) \cup Ids(S[k - 1])
        <5>1. S[k] \in Seq(Note) /\ NotesOn(S[k]) = NotesOn(S[k - 1]) \cup {incoming[k]}
          BY <3>2, <3>3, <3>4, <4>1, NotesOnPages
        <5>2. Ids(S[k]) = Ids(S[k - 1]) \cup {incoming[k].id}
          <6>1. /\ Ids(S[k]) = {x.id : x \in NotesOn(S[k])}
                /\ Ids(S[k - 1]) = {x.id : x \in NotesOn(S[k - 1])}
            BY <3>4, <5>1, NotesOnPages
          <6> QED
            BY <5>1, <6>1
        <5> QED
          BY <3>3, <3>4, <4>1, <5>1, <5>2
      <4>2. CASE incoming[k].id \in Ids(page) \cup Ids(S[k - 1])
        BY <3>2, <3>3, <3>4, <4>2
      <4> QED
        BY <4>1, <4>2
    <3> QED
      BY <3>5
  <2> QED
    BY <2>2, <2>3
<1>3. Good(Len(incoming))
  <2>1. Len(incoming) \in Nat
    OBVIOUS
  <2> HIDE DEF Good
  <2> QED
    BY <1>2, <2>1
<1>4. Done(Len(incoming)) = NotesOn(incoming)
  BY DEF NotesOn
<1>5. Ids(incoming) = {x.id : x \in NotesOn(incoming)}
  BY NotesOnPages
<1> HIDE DEF Done
<1> QED
  BY <1>3, <1>4, <1>5, AddingUnfolds DEF S

\* An edited page tells what was saved before, and the edit.
LEMMA EditedTells ==
  ASSUME NEW page \in Seq(Note), NEW saved \in [NoteId -> Body \cup {None}],
         NEW request \in Request,
         request.op # "post" => request.note.id \in Ids(page)
  PROVE  LET said == IF request.op = "delete" THEN None ELSE request.note.body
         IN /\ Edited(page, request) \in Seq(Note)
            /\ [saved EXCEPT ![request.note.id] = said] \in [NoteId -> Body \cup {None}]
            /\ Tells(page, saved) =>
                 Tells(Edited(page, request), [saved EXCEPT ![request.note.id] = said])
<1> DEFINE id   == request.note.id
           said == IF request.op = "delete" THEN None ELSE request.note.body
           new  == [saved EXCEPT ![id] = said]
<1>1. /\ id \in NoteId /\ request.op \in {"post", "put", "delete"}
      /\ request.op # "delete" => request.note \in Note /\ said \in Body
  BY DEF Request, Note
<1>2. new \in [NoteId -> Body \cup {None}] /\ new[id] = said
      /\ \A i \in NoteId \ {id} : new[i] = saved[i]
  BY <1>1
<1> HIDE DEF new
<1>3. CASE request.op = "post"
  <2>1. Edited(page, request) = Append(page, request.note)
    BY <1>3 DEF Edited, Add
  <2>2. /\ Edited(page, request) \in Seq(Note)
        /\ NotesOn(Edited(page, request)) = NotesOn(page) \cup {request.note}
    BY <1>1, <1>3, <2>1, NotesOnPages
  <2>3. Tells(page, saved) => Tells(Edited(page, request), new)
    <3> SUFFICES ASSUME Tells(page, saved), NEW i \in NoteId
                 PROVE  IF new[i] = None
                        THEN i \notin {x.id : x \in NotesOn(Edited(page, request))}
                        ELSE [id |-> i, body |-> new[i]] \in NotesOn(Edited(page, request))
      BY <2>2, NotesOnPages DEF Tells
    <3>1. CASE i = id
      <4>1. [id |-> i, body |-> new[i]] = request.note /\ new[i] # None
        BY <1>1, <1>2, <1>3, <3>1, AnnotationsAssumption DEF Note
      <4> QED
        BY <2>2, <4>1
    <3>2. CASE i # id
      <4>1. IF saved[i] = None
            THEN i \notin {x.id : x \in NotesOn(page)}
            ELSE [id |-> i, body |-> saved[i]] \in NotesOn(page)
        BY NotesOnPages DEF Tells
      <4> QED
        BY <1>2, <2>2, <3>2, <4>1
    <3> QED
      BY <3>1, <3>2
  <2> QED
    BY <1>2, <2>2, <2>3 DEF new
<1>4. CASE request.op = "put"
  <2> DEFINE first == CHOOSE i \in DOMAIN page :
                        /\ page[i].id = request.note.id
                        /\ \A j \in 1..(i - 1) : page[j].id # request.note.id
             edited == [page EXCEPT ![first] = request.note]
  <2>1. Edited(page, request) = edited
    BY <1>4 DEF Edited, UpdateFirst
  <2>2. first \in DOMAIN page /\ page[first].id = id
    <3> DEFINE T == {i \in DOMAIN page : page[i].id = id}
    <3>1. T # {} /\ T \subseteq Nat
      BY <1>4 DEF Ids
    <3>2. PICK i \in T : \A j \in T : i <= j
      BY <3>1, SmallestOf
    <3>3. \A j \in 1..(i - 1) : page[j].id # request.note.id
      <4> SUFFICES ASSUME NEW j \in 1..(i - 1), page[j].id = id PROVE FALSE
        OBVIOUS
      <4>1. j \in DOMAIN page /\ ~(i <= j)
        BY <3>1, <3>2
      <4> QED
        BY <3>2, <4>1
    <3> QED
      BY <3>2, <3>3
  <2> HIDE DEF first
  <2>3. /\ edited \in Seq(Note) /\ DOMAIN edited = DOMAIN page
        /\ edited[first] = request.note
        /\ \A k \in DOMAIN page : k # first => edited[k] = page[k]
    BY <1>1, <1>4, <2>2
  <2> HIDE DEF edited
  <2>4. Tells(page, saved) => Tells(edited, new)
    <3> SUFFICES ASSUME Tells(page, saved), NEW i \in NoteId
                 PROVE  IF new[i] = None
                        THEN i \notin Ids(edited)
                        ELSE [id |-> i, body |-> new[i]] \in NotesOn(edited)
      BY DEF Tells
    <3>1. CASE i = id
      <4>1. [id |-> i, body |-> new[i]] = request.note /\ new[i] # None
        BY <1>1, <1>2, <1>4, <3>1, AnnotationsAssumption DEF Note
      <4> QED
        BY <2>2, <2>3, <4>1 DEF NotesOn
    <3>2. CASE i # id /\ new[i] = None
      <4>1. i \notin Ids(page)
        BY <1>2, <3>2 DEF Tells
      <4>2. \A k \in DOMAIN edited : edited[k].id # i
        BY <2>3, <3>2, <4>1 DEF Ids
      <4> QED
        BY <3>2, <4>2 DEF Ids
    <3>3. CASE i # id /\ new[i] # None
      <4>1. PICK k \in DOMAIN page : page[k] = [id |-> i, body |-> new[i]]
        BY <1>2, <3>3 DEF Tells, NotesOn
      <4>2. k # first
        BY <2>2, <3>3, <4>1
      <4> QED
        BY <2>3, <3>3, <4>1, <4>2 DEF NotesOn
    <3> QED
      BY <3>1, <3>2, <3>3
  <2> QED
    BY <1>2, <2>1, <2>3, <2>4 DEF new
<1>5. CASE request.op = "delete"
  <2> DEFINE edited == Selected(page, NoteId \ {id})
  <2>1. Edited(page, request) = edited
    BY <1>5 DEF Edited, Delete
  <2>2. /\ edited \in Seq(Note)
        /\ NotesOn(edited) = {x \in NotesOn(page) : x.id \in NoteId \ {id}}
    BY SelectedNotes
  <2> HIDE DEF edited
  <2>3. Tells(page, saved) => Tells(edited, new)
    <3> SUFFICES ASSUME Tells(page, saved), NEW i \in NoteId
                 PROVE  IF new[i] = None
                        THEN i \notin {x.id : x \in NotesOn(edited)}
                        ELSE [id |-> i, body |-> new[i]] \in NotesOn(edited)
      BY <2>2, NotesOnPages DEF Tells
    <3>1. CASE i = id
      BY <1>2, <1>5, <2>2, <3>1
    <3>2. CASE i # id
      <4>1. IF saved[i] = None
            THEN i \notin {x.id : x \in NotesOn(page)}
            ELSE [id |-> i, body |-> saved[i]] \in NotesOn(page)
        BY NotesOnPages DEF Tells
      <4> QED
        BY <1>2, <2>2, <3>2, <4>1
    <3> QED
      BY <3>1, <3>2
  <2> QED
    BY <1>2, <2>1, <2>2, <2>3 DEF new
<1> QED
  BY <1>1, <1>3, <1>4, <1>5

\* What is saved once an archive's annotations are merged into a page.
MergedRow(page, saved, incoming) ==
  LET added == Missing(page, incoming)
  IN [i \in NoteId |->
       IF i \in Ids(added)
       THEN added[CHOOSE k \in DOMAIN added : added[k].id = i].body
       ELSE saved[i]]

\* A page with an archive's annotations merged into it tells what was saved
\* before, and them.
LEMMA MergedTells ==
  ASSUME NEW page \in Seq(Note), NEW saved \in [NoteId -> Body \cup {None}],
         NEW incoming \in Seq(Note)
  PROVE  /\ page \o Missing(page, incoming) \in Seq(Note)
         /\ MergedRow(page, saved, incoming) \in [NoteId -> Body \cup {None}]
         /\ Tells(page, saved) =>
              Tells(page \o Missing(page, incoming), MergedRow(page, saved, incoming))
<1> DEFINE added  == Missing(page, incoming)
           merged == [i \in NoteId |->
             IF i \in Ids(added)
             THEN added[CHOOSE k \in DOMAIN added : added[k].id = i].body
             ELSE saved[i]]
<1>1. added \in Seq(Note)
  BY MissingNotes
<1> HIDE DEF added
<1>2. /\ page \o added \in Seq(Note)
      /\ NotesOn(page \o added) = NotesOn(page) \cup NotesOn(added)
  BY <1>1, NotesOnPages
<1>3. \A i \in NoteId :
        IF i \in Ids(added)
        THEN [id |-> i, body |-> merged[i]] \in NotesOn(added) /\ merged[i] \in Body
        ELSE merged[i] = saved[i]
  <2> TAKE i \in NoteId
  <2>1. CASE i \in Ids(added)
    <3> DEFINE k == CHOOSE k \in DOMAIN added : added[k].id = i
    <3>1. k \in DOMAIN added /\ added[k].id = i
      BY <2>1 DEF Ids
    <3>2. merged[i] = added[k].body
      BY <2>1
    <3> HIDE DEF k, merged
    <3>3. added[k] \in Note
      BY <1>1, <3>1
    <3>4. added[k] = [id |-> i, body |-> merged[i]] /\ merged[i] \in Body
      BY <3>1, <3>2, <3>3 DEF Note
    <3> QED
      BY <2>1, <3>1, <3>4 DEF NotesOn
  <2>2. CASE i \notin Ids(added)
    BY <2>2
  <2> QED
    BY <2>1, <2>2
<1>4. merged \in [NoteId -> Body \cup {None}]
  <2>1. \A i \in NoteId : merged[i] \in Body \cup {None}
    <3> HIDE DEF merged
    <3> QED
      BY <1>3
  <2> QED
    BY <2>1
<1> HIDE DEF merged
<1>5. ASSUME Tells(page, saved)
      PROVE  Tells(page \o added, merged)
  <2> SUFFICES ASSUME NEW i \in NoteId
               PROVE  IF merged[i] = None
                      THEN i \notin {x.id : x \in NotesOn(page \o added)}
                      ELSE [id |-> i, body |-> merged[i]] \in NotesOn(page \o added)
    BY <1>2, NotesOnPages DEF Tells
  <2>1. CASE i \in Ids(added)
    BY <1>2, <1>3, <2>1, AnnotationsAssumption
  <2>2. CASE i \notin Ids(added)
    <3>1. merged[i] = saved[i] /\ i \notin {x.id : x \in NotesOn(added)}
      BY <1>1, <1>3, <2>2, NotesOnPages
    <3>2. IF saved[i] = None
          THEN i \notin {x.id : x \in NotesOn(page)}
          ELSE [id |-> i, body |-> saved[i]] \in NotesOn(page)
      BY <1>5, NotesOnPages DEF Tells
    <3> QED
      BY <1>2, <3>1, <3>2
  <2> QED
    BY <2>1, <2>2
<1> QED
  BY <1>2, <1>4, <1>5 DEF merged, added, MergedRow

-----------------------------------------------------------------------------
(* The annotations and their handlers.                                     *)

LEMMA ToldMeansKept == Told <=> AnnotationsKept
BY DEF AnnotationsKept, Told, Tells, NotesOn

LEMMA NotesFrame ==
  ASSUME NotesInv, UNCHANGED <<notes, noted>>, crossed \subseteq crossed',
         removed \subseteq removed',
         DOMAIN handler' = Handler,
         \A h \in Handler : handler'[h] = None \/ handler'[h] = handler[h]
  PROVE  NotesInv'
<1>1. AnnotationsTypeOK' /\ HandlersType'
  BY DEF NotesInv, AnnotationsTypeOK, HandlersType
<1>2. HandlerInv'
  <2>1. HandlerInv /\ \A h \in Handler : handler'[h] # None => handler'[h] = handler[h]
    BY DEF NotesInv
  <2>2. ASSUME NEW h \in Handler, handler'[h] # None
        PROVE  /\ handler'[h].request.op # "post" =>
                    handler'[h].request.note.id \in Ids(handler'[h].page)
               /\ "handler beside import" \notin crossed' =>
                    LET b == handler'[h].request.bundle
                    IN b \notin removed' => handler'[h].page = notes'[b]
    BY <2>1, <2>2 DEF HandlerInv
  <2>3. \A h, g \in Handler :
          handler'[h] # None /\ handler'[g] # None /\ h # g =>
            handler'[h].request.bundle # handler'[g].request.bundle
    <3>1. \A h, g \in Handler :
            handler[h] # None /\ handler[g] # None /\ h # g =>
              handler[h].request.bundle # handler[g].request.bundle
      BY <2>1 DEF HandlerInv
    <3> QED
      BY <2>1, <3>1
  <2> QED
    BY <2>2, <2>3 DEF HandlerInv
<1>3. Told'
  BY DEF NotesInv, Told
<1> QED
  BY <1>1, <1>2, <1>3 DEF NotesInv

LEMMA NotesStep ==
  ASSUME CatalogInv, NotesInv, Next
  PROVE  NotesInv'
<1> USE DEF NotesInv
<1>0. crossed \subseteq crossed' /\ removed \subseteq removed'
  BY HistoryGrows
<1>1. ASSUME NEW h \in Handler, NEW request \in Request, AnnotationRequest(h, request)
      PROVE  NotesInv'
  <2> DEFINE page == notes[request.bundle]
             new  == [request |-> request, page |-> page]
  <2>1. /\ ~Locked(request.bundle)
        /\ request.op = "post" \/ request.note.id \in Ids(page)
        /\ handler' = [handler EXCEPT ![h] = new]
        /\ UNCHANGED <<notes, noted, removed, crossed>>
    BY <1>1 DEF AnnotationRequest, LoadPage
  <2>2. request.bundle \in Bundle /\ page \in Seq(Note)
    BY DEF Request, AnnotationsTypeOK
  <2>3. handler'[h] = new /\ \A g \in Handler \ {h} : handler'[g] = handler[g]
        /\ DOMAIN handler' = Handler
    BY <2>1 DEF HandlersType
  <2>4. AnnotationsTypeOK' /\ HandlersType'
    BY <2>1, <2>2, <2>3 DEF AnnotationsTypeOK, HandlersType
  <2>5. HandlerInv'
    <3>1. /\ new.request = request /\ new.page = page
          /\ \A g \in Handler : handler[g] # None =>
               handler[g].request.bundle # request.bundle
      BY <2>1 DEF Locked
    <3> HIDE DEF new
    <3>2. ASSUME NEW g \in Handler, handler'[g] # None
          PROVE  /\ handler'[g].request.op # "post" =>
                      handler'[g].request.note.id \in Ids(handler'[g].page)
                 /\ "handler beside import" \notin crossed' =>
                      LET b == handler'[g].request.bundle
                      IN b \notin removed' => handler'[g].page = notes'[b]
      <4>1. CASE g = h
        BY <2>1, <2>3, <3>1, <4>1
      <4>2. CASE g # h
        <5>1. /\ handler'[g] = handler[g] /\ handler[g] # None
              /\ UNCHANGED <<notes, removed, crossed>>
          BY <2>1, <2>3, <3>2, <4>2
        <5> QED
          BY <5>1 DEF HandlerInv
      <4> QED
        BY <4>1, <4>2
    <3>3. \A f, g \in Handler :
            handler'[f] # None /\ handler'[g] # None /\ f # g =>
              handler'[f].request.bundle # handler'[g].request.bundle
      <4>1. \A f, g \in Handler :
              handler[f] # None /\ handler[g] # None /\ f # g =>
                handler[f].request.bundle # handler[g].request.bundle
        BY DEF HandlerInv
      <4>2. \A g \in Handler \ {h} : handler'[g] # None =>
              handler'[g].request.bundle # handler'[h].request.bundle
        BY <2>3, <3>1
      <4> QED
        BY <2>3, <4>1, <4>2
    <3> QED
      BY <3>2, <3>3 DEF HandlerInv
  <2>6. Told'
    BY <2>1 DEF Told
  <2> QED
    BY <2>4, <2>5, <2>6
<1>2. ASSUME NEW h \in Handler, AnnotationSaved(h)
      PROVE  NotesInv'
  <2> DEFINE request == handler[h].request
             b       == request.bundle
             said    == IF request.op = "delete" THEN None ELSE request.note.body
             page    == Edited(handler[h].page, request)
             row     == [noted[b] EXCEPT ![request.note.id] = said]
  <2>1. /\ handler[h] # None
        /\ notes' = [notes EXCEPT ![b] = page]
        /\ noted' = [noted EXCEPT ![b] = row]
        /\ handler' = [handler EXCEPT ![h] = None]
        /\ UNCHANGED <<removed, crossed>>
    BY <1>2 DEF AnnotationSaved, SavePage
  <2>2. /\ request \in Request /\ handler[h].page \in Seq(Note) /\ b \in Bundle
        /\ noted[b] \in [NoteId -> Body \cup {None}]
        /\ request.op # "post" => request.note.id \in Ids(handler[h].page)
    BY <2>1 DEF HandlersType, AnnotationsTypeOK, HandlerInv, Request
  <2>3. /\ page \in Seq(Note) /\ row \in [NoteId -> Body \cup {None}]
        /\ Tells(handler[h].page, noted[b]) => Tells(page, row)
    BY <2>2, EditedTells
  <2>4. /\ handler'[h] = None /\ \A g \in Handler \ {h} : handler'[g] = handler[g]
        /\ DOMAIN handler' = Handler
    BY <2>1 DEF HandlersType
  <2>5. /\ notes'[b] = page /\ noted'[b] = row
        /\ \A d \in Bundle \ {b} : notes'[d] = notes[d] /\ noted'[d] = noted[d]
    BY <2>1, <2>2 DEF AnnotationsTypeOK
  <2>6. AnnotationsTypeOK' /\ HandlersType'
    <3>1. /\ notes' \in [Bundle -> Seq(Note)]
          /\ noted' \in [Bundle -> [NoteId -> Body \cup {None}]]
      <4> HIDE DEF page, row, b
      <4> QED
        BY <2>1, <2>2, <2>3 DEF AnnotationsTypeOK
    <3> HIDE DEF page, row
    <3> QED
      BY <2>4, <3>1 DEF AnnotationsTypeOK, HandlersType
  <2>7. HandlerInv'
    <3> HIDE DEF page, row
    <3>1. ASSUME NEW g \in Handler, handler'[g] # None
          PROVE  /\ g # h /\ handler'[g] = handler[g]
                 /\ handler[g].request.bundle # b
                 /\ handler[g].request.bundle \in Bundle
      BY <2>1, <2>4, <3>1 DEF HandlerInv, HandlersType, Request
    <3> HIDE DEF b
    <3>2. ASSUME NEW g \in Handler, handler'[g] # None,
                 "handler beside import" \notin crossed'
          PROVE  LET d == handler'[g].request.bundle
                 IN d \notin removed' => handler'[g].page = notes'[d]
      <4>1. crossed' = crossed /\ removed' = removed
        BY <2>1
      <4>2. handler'[g] = handler[g] /\ handler[g].request.bundle \in Bundle \ {b}
        BY <3>1, <3>2
      <4>3. handler[g].request.bundle \notin removed =>
              handler[g].page = notes[handler[g].request.bundle]
        BY <3>2, <4>1, <4>2 DEF HandlerInv
      <4> QED
        BY <2>5, <4>1, <4>2, <4>3
    <3>3. ASSUME NEW g \in Handler, handler'[g] # None
          PROVE  handler'[g].request.op # "post" =>
                   handler'[g].request.note.id \in Ids(handler'[g].page)
      <4>1. handler'[g] = handler[g] /\ handler[g] # None
        BY <3>1, <3>3
      <4>2. handler[g].request.op # "post" =>
              handler[g].request.note.id \in Ids(handler[g].page)
        BY <4>1 DEF HandlerInv
      <4> QED
        BY <4>1, <4>2
    <3>4. \A f, g \in Handler :
            handler'[f] # None /\ handler'[g] # None /\ f # g =>
              handler'[f].request.bundle # handler'[g].request.bundle
      <4>1. \A f, g \in Handler :
              handler[f] # None /\ handler[g] # None /\ f # g =>
                handler[f].request.bundle # handler[g].request.bundle
        BY DEF HandlerInv
      <4>2. \A g \in Handler : handler'[g] # None => handler'[g] = handler[g]
        BY <3>1
      <4> HIDE DEF NotesInv
      <4> QED
        BY <4>1, <4>2
    <3> QED
      BY <3>2, <3>3, <3>4 DEF HandlerInv
  <2>8. Told'
    <3> SUFFICES ASSUME "handler beside import" \notin crossed', NEW d \in Bundle \ removed'
                 PROVE  Tells(notes[d], noted[d])'
      BY DEF Told
    <3>1. Tells(notes[d], noted[d])
      BY <2>1 DEF Told
    <3>2. CASE d = b
      <4>1. handler[h].page = notes[b]
        BY <2>1, <3>2 DEF HandlerInv
      <4>2. Tells(page, row)
        BY <2>3, <3>1, <3>2, <4>1
      <4> HIDE DEF page, row
      <4> QED
        BY <2>5, <3>2, <4>2
    <3>3. CASE d # b
      BY <2>5, <3>1, <3>3
    <3> QED
      BY <3>2, <3>3
  <2> QED
    BY <2>6, <2>7, <2>8
<1>3. CASE ImportNotes(TRUE)
  <2> DEFINE b      == importer.current
             page   == notes[b] \o Missing(notes[b], ArchiveNotes[b])
             row    == MergedRow(notes[b], noted[b], ArchiveNotes[b])
  <2>1. b \in Bundle /\ ArchiveNotes[b] \in Seq(Note) /\ notes[b] \in Seq(Note)
        /\ noted[b] \in [NoteId -> Body \cup {None}]
    BY <1>3, LibraryAssumption DEF ImportNotes, CatalogInv, ProperInv, AnnotationsTypeOK
  <2>2. /\ notes' = [notes EXCEPT ![b] = page]
        /\ noted' = [noted EXCEPT ![b] = row]
        /\ handler' = handler /\ removed' = removed
        /\ Locked(b) => "handler beside import" \in crossed'
    BY <1>3, <2>1 DEF ImportNotes, MergeAnnotations, MergedRow, Crossing,
      AnnotationsTypeOK
  <2>3. /\ page \in Seq(Note) /\ row \in [NoteId -> Body \cup {None}]
        /\ Tells(notes[b], noted[b]) => Tells(page, row)
    BY <2>1, MergedTells
  <2>4. /\ notes'[b] = page /\ noted'[b] = row
        /\ \A d \in Bundle \ {b} : notes'[d] = notes[d] /\ noted'[d] = noted[d]
    <3> HIDE DEF page, row, b
    <3> QED
      BY <2>1, <2>2 DEF AnnotationsTypeOK
  <2> HIDE DEF page, row, b
  <2>5. AnnotationsTypeOK' /\ HandlersType'
    BY <2>1, <2>2, <2>3 DEF AnnotationsTypeOK, HandlersType
  <2>6. HandlerInv'
    <3>1. ASSUME "handler beside import" \notin crossed'
          PROVE  \A g \in Handler : handler[g] # None => handler[g].request.bundle # b
      BY <2>2, <3>1 DEF Locked
    <3>2. \A g \in Handler : handler[g] # None => handler[g].request.bundle \in Bundle
      BY DEF HandlersType, Request
    <3> QED
      BY <1>0, <2>2, <2>4, <3>1, <3>2 DEF HandlerInv
  <2>7. Told'
    <3> SUFFICES ASSUME "handler beside import" \notin crossed', NEW d \in Bundle \ removed'
                 PROVE  Tells(notes[d], noted[d])'
      BY DEF Told
    <3>1. Tells(notes[d], noted[d])
      BY <1>0, <2>2 DEF Told
    <3>2. CASE d = b
      BY <2>3, <2>4, <3>1, <3>2
    <3>3. CASE d # b
      BY <2>4, <3>1, <3>3
    <3> QED
      BY <3>2, <3>3
  <2> QED
    BY <2>5, <2>6, <2>7
<1>4. ASSUME NEW b \in Bundle, BundleRemoved(b)
      PROVE  NotesInv'
  <2>1. /\ notes' = [notes EXCEPT ![b] = <<>>] /\ removed' = removed \cup {b}
        /\ UNCHANGED <<noted, handler, crossed>>
    BY <1>4 DEF BundleRemoved
  <2>2. <<>> \in Seq(Note)
    OBVIOUS
  <2>3. AnnotationsTypeOK' /\ HandlersType'
    BY <2>1, <2>2 DEF AnnotationsTypeOK, HandlersType
  <2>4. \A d \in Bundle \ removed' : d \notin removed /\ notes'[d] = notes[d]
    BY <2>1 DEF AnnotationsTypeOK
  <2>5. \A h \in Handler : handler[h] # None => handler[h].request.bundle \in Bundle
    BY DEF HandlersType, Request
  <2>6. HandlerInv'
    BY <2>1, <2>4, <2>5 DEF HandlerInv
  <2>7. Told'
    BY <2>1, <2>4 DEF Told
  <2> QED
    BY <2>3, <2>6, <2>7
<1>5. \/ UNCHANGED notesVars
      \/ UNCHANGED <<notes, noted>> /\ handler' = [h \in Handler |-> None]
      \/ \E h \in Handler : /\ UNCHANGED <<notes, noted>>
                            /\ handler' = [handler EXCEPT ![h] = None]
      \/ \E h \in Handler : \/ \E request \in Request : AnnotationRequest(h, request)
                            \/ AnnotationSaved(h)
      \/ ImportNotes(TRUE)
      \/ \E b \in Bundle : BundleRemoved(b)
  <2>1. CASE Process
    BY <2>1 DEF Process, New, Serve, Cancel, Unlock, ServerEnds, BackgroundEnds,
      SizesKnown
  <2>2. CASE Refreshing
    BY <2>2 DEF Refreshing, StartRefresh, RefreshScans, RefreshFails, RefreshInstalls
  <2>3. CASE Handlers
    BY <2>3 DEF Handlers, EditFields, AnnotationFails, SavePageFails, SaveComparison,
      DeleteComparison
  <2>4. CASE Importing
    <3>1. CASE ImportNotes(FALSE)
      BY <3>1 DEF ImportNotes
    <3> QED
      BY <2>4, <3>1 DEF Importing, ImportStarts, ImportFields, ImportSet, ImportEnds
  <2>5. CASE Tree \/ Quiet
    BY <2>5 DEF Tree, PreserveWrites, Quiet, vars
  <2> QED
    BY <2>1, <2>2, <2>3, <2>4, <2>5 DEF Next
<1> HIDE DEF NotesInv
<1>6. CASE UNCHANGED notesVars
  <2>1. UNCHANGED <<notes, noted, handler>> /\ DOMAIN handler' = Handler
    BY <1>6 DEF notesVars, NotesInv, HandlersType
  <2> QED
    BY <1>0, <2>1, NotesFrame
<1>7. CASE UNCHANGED <<notes, noted>> /\ handler' = [h \in Handler |-> None]
  BY <1>0, <1>7, NotesFrame
<1>8. ASSUME NEW h \in Handler, UNCHANGED <<notes, noted>>,
             handler' = [handler EXCEPT ![h] = None]
      PROVE  NotesInv'
  <2>1. /\ DOMAIN handler' = Handler
        /\ \A g \in Handler : handler'[g] = None \/ handler'[g] = handler[g]
    BY <1>8 DEF NotesInv, HandlersType
  <2> QED
    BY <1>0, <1>8, <2>1, NotesFrame
<1> QED
  BY <1>1, <1>2, <1>3, <1>4, <1>5, <1>6, <1>7, <1>8

-----------------------------------------------------------------------------
(* The editions the catalogues show.                                       *)

LEMMA StampTypes ==
  ASSUME CatalogInv, NEW b \in Bundle
  PROVE  /\ tree[b] \in Nat /\ entries[b].stamp \in Nat /\ file[b].stamp \in Nat
         /\ importer.entries[b].stamp \in Nat
         /\ \A r \in Refresher : refresh[r].fresh[b].stamp \in Nat
BY CatalogAssumption DEF CatalogInv, CatalogTypeOK, Importer, Entry, Partial

\* A listed bundle whose entry is not ahead of the tree is committed there.
LEMMA ListedIsCommitted ==
  ASSUME CatalogInv, NEW catalog, Proper(catalog), NEW b \in Bundle,
         catalog[b].stamp \in Nat, catalog[b].stamp <= tree[b], Listed(catalog[b])
  PROVE  Committed(tree[b])
<1>1. tree[b] \in Nat /\ catalog[b].stamp # 0 /\ catalog[b].stamp # 1
  BY StampTypes DEF Listed, Proper, Absent, Partial
<1> QED
  BY <1>1 DEF Committed, Partial

\* What a refresh installs keeps the entries of the bundles that are still
\* there, unless another refresh installed since it scanned.
LEMMA InstalledKeepsResearch ==
  ASSUME CatalogInv, StampsInv, NEW r \in Refresher, refresh[r].at = "install",
         r \notin outdated, NEW b \in Bundle \ removed
  PROVE  /\ Installed(r)[b].research = entries[b].research
         /\ Installed(r)[b].stamp >= entries[b].stamp
<1>1. /\ Installed(r)[b].stamp = refresh[r].fresh[b].stamp
      /\ Installed(r)[b].research =
           IF Listed(refresh[r].fresh[b]) /\ Listed(entries[b])
           THEN entries[b].research ELSE refresh[r].fresh[b].research
  BY InstalledIsProper DEF CatalogInv, ProperInv
<1>2. /\ entries[b].stamp <= refresh[r].fresh[b].stamp
      /\ ~Listed(entries[b]) => refresh[r].fresh[b].research = NoResearch
  BY DEF StampsInv
<1>3. entries[b].stamp \in Nat /\ refresh[r].fresh[b].stamp \in Nat
  BY StampTypes
<1>4. Listed(entries[b]) => Listed(refresh[r].fresh[b])
  BY <1>2, <1>3 DEF Listed, Absent
<1>5. ~Listed(entries[b]) => entries[b].research = NoResearch
  BY DEF CatalogInv, ProperInv, Proper
<1> QED
  BY <1>1, <1>2, <1>3, <1>4, <1>5

LEMMA StampsFrame ==
  ASSUME CatalogInv, StampsInv, removed \subseteq removed',
         UNCHANGED <<tree, acked, outdated>>,
         \A b \in Bundle :
           /\ entries'[b].stamp = entries[b].stamp
           /\ importer'.entries[b].stamp <= tree[b]
                \/ importer'.entries[b].stamp = importer.entries[b].stamp,
         \A r \in Refresher :
           refresh'[r].at = "install" => refresh'[r] = refresh[r]
  PROVE  StampsInv'
BY DEF StampsInv, Listed

LEMMA StampsStep ==
  ASSUME CatalogInv, CatalogInv', StampsInv, ProcessInv, Next
  PROVE  StampsInv'
<1>0. removed \subseteq removed'
  BY HistoryGrows
<1>t. \A r \in Refresher : r \in DOMAIN refresh
  BY DEF CatalogInv, CatalogTypeOK
<1>1. CASE Process
  <2>1. ASSUME \A r \in Refresher : refresh'[r].at = "idle",
               \A b \in Bundle : entries'[b].stamp <= tree[b],
               UNCHANGED <<tree, acked, importer, removed>>
        PROVE  StampsInv'
    BY <2>1 DEF StampsInv
  <2>2. ASSUME NEW scanned \in BOOLEAN, NEW readable \in BOOLEAN,
               NEW setsReadable \in BOOLEAN, New(scanned, readable, setsReadable)
        PROVE  StampsInv'
    <3>1. /\ entries' = NewCatalog(scanned, readable)
          /\ refresh' = [r \in Refresher |-> Idle]
          /\ UNCHANGED <<tree, acked, importer, removed>>
      BY <2>2 DEF New, Open, catalogFiles
    <3>2. \A b \in Bundle : entries'[b].stamp <= tree[b]
      BY <3>1, NewCatalogIsProper DEF CatalogInv
    <3>3. \A r \in Refresher : refresh'[r].at = "idle"
      BY <3>1 DEF Idle
    <3> QED
      BY <2>1, <3>1, <3>2, <3>3
  <2>3. CASE ServerEnds
    <3>1. /\ entries' = NoEntries /\ refresh' = [r \in Refresher |-> Idle]
          /\ UNCHANGED <<tree, acked, importer, removed>>
      BY <2>3 DEF ServerEnds, catalogFiles
    <3>2. \A b \in Bundle : entries'[b].stamp <= tree[b]
      BY <3>1, StampTypes DEF NoEntries, Unlisted, Absent
    <3>3. \A r \in Refresher : refresh'[r].at = "idle"
      BY <3>1 DEF Idle
    <3> QED
      BY <2>1, <3>1, <3>2, <3>3
  <2>4. CASE Serve \/ Cancel \/ Unlock \/ BackgroundEnds
             \/ \E written \in BOOLEAN : SizesKnown(written)
    <3>1. UNCHANGED <<tree, entries, acked, outdated, refresh, importer, removed>>
      BY <2>4 DEF Serve, Cancel, Unlock, BackgroundEnds, SizesKnown, SaveSizes,
        catalogVars, catalogFiles, catalogMemory
    <3> QED
      BY <3>1, StampsFrame
  <2> QED
    BY <1>1, <2>2, <2>3, <2>4 DEF Process
<1>2. CASE Refreshing
  <2> PICK r \in Refresher :
        \/ \E readable \in BOOLEAN : StartRefresh(r, readable)
        \/ RefreshScans(r)
        \/ RefreshFails(r)
        \/ \E written \in BOOLEAN : RefreshInstalls(r, written)
    BY <1>2 DEF Refreshing
  <2>1. CASE \E readable \in BOOLEAN : StartRefresh(r, readable)
    <3>1. /\ refresh[r].at = "idle" /\ refresh' = [refresh EXCEPT ![r].at = "scan"]
          /\ UNCHANGED <<tree, acked, outdated, importer, removed>>
          /\ entries' = entries \/ entries' = Reloaded
      BY <2>1 DEF StartRefresh, Reload, catalogFiles
    <3>2. \A b \in Bundle : entries'[b].stamp = entries[b].stamp
      BY <3>1, ReloadedIsProper DEF CatalogInv, ProperInv
    <3>3. \A s \in Refresher : refresh'[s].at = "install" => refresh'[s] = refresh[s]
      <4>1. refresh'[r].at = "scan" /\ \A s \in Refresher \ {r} : refresh'[s] = refresh[s]
        BY <3>1, <1>t DEF CatalogInv, CatalogTypeOK
      <4> QED
        BY <4>1
    <3> QED
      BY <3>1, <3>2, <3>3, StampsFrame
  <2>2. CASE RefreshScans(r)
    <3>1. /\ refresh' = [refresh EXCEPT ![r] = [at |-> "install", fresh |-> Scanned]]
          /\ UNCHANGED <<tree, entries, acked, outdated, importer, removed>>
      BY <2>2 DEF RefreshScans, Scan, catalogFiles, process
    <3>2. /\ refresh'[r].fresh = Scanned
          /\ \A s \in Refresher \ {r} : refresh'[s] = refresh[s]
      BY <3>1, <1>t
    <3>3. \A b \in Bundle \ removed :
            /\ entries[b].stamp <= Scanned[b].stamp /\ Scanned[b].stamp <= tree[b]
            /\ ~Listed(entries[b]) => Scanned[b].research = NoResearch
      BY ScannedIsProper DEF CatalogInv, ProperInv, StampsInv
    <3> HIDE DEF Scanned
    <3>4. SUFFICES ASSUME NEW b \in Bundle \ removed, NEW s \in Refresher,
                          refresh'[s].at = "install"
                   PROVE  /\ refresh'[s].fresh[b].stamp <= tree[b]
                          /\ s \notin outdated =>
                               /\ entries[b].stamp <= refresh'[s].fresh[b].stamp
                               /\ ~Listed(entries[b]) =>
                                    refresh'[s].fresh[b].research = NoResearch
      BY <3>1 DEF StampsInv
    <3>5. CASE s = r
      BY <3>2, <3>3, <3>5
    <3>6. CASE s # r
      BY <3>2, <3>4, <3>6 DEF StampsInv
    <3> QED
      BY <3>5, <3>6
  <2>3. CASE RefreshFails(r)
    <3>1. /\ refresh' = [refresh EXCEPT ![r] = Idle]
          /\ UNCHANGED <<tree, entries, acked, outdated, importer, removed>>
      BY <2>3 DEF RefreshFails, ScanFails, catalogFiles
    <3>2. \A s \in Refresher : refresh'[s].at = "install" => refresh'[s] = refresh[s]
      BY <3>1, <1>t DEF Idle
    <3> QED
      BY <3>1, <3>2, StampsFrame
  <2>4. CASE \E written \in BOOLEAN : RefreshInstalls(r, written)
    <3>1. /\ refresh[r].at = "install" /\ refresh' = [refresh EXCEPT ![r] = Idle]
          /\ entries' = Installed(r)
          /\ UNCHANGED <<tree, acked, importer, removed>>
      BY <2>4 DEF RefreshInstalls, Install
    <3>2. \A s \in Refresher :
            refresh'[s].at = "install" => s # r /\ refresh'[s] = refresh[s]
      BY <3>1, <1>t DEF Idle
    <3>3. \A s \in Refresher :
            s \notin outdated' /\ refresh'[s].at = "install" =>
              s \notin outdated /\ ~Changes(r)
      <4>1. outdated' = {s \in Refresher \ {r} : refresh[s].at = "install" /\ Changes(r)}
                          \cup (outdated \ {r})
        BY <2>4 DEF RefreshInstalls, Install
      <4> HIDE DEF Changes
      <4> QED
        BY <3>2, <4>1
    <3>4. ~Changes(r) => entries' = entries
      BY <3>1 DEF Changes
    <3>5. \A b \in Bundle \ removed : entries'[b].stamp <= tree[b]
      <4>1. \A b \in Bundle : entries'[b].stamp = refresh[r].fresh[b].stamp
        BY <3>1, InstalledIsProper DEF CatalogInv, ProperInv
      <4> QED
        BY <3>1, <4>1 DEF StampsInv
    <3> HIDE DEF Changes
    <3>6. SUFFICES ASSUME NEW b \in Bundle \ removed, NEW s \in Refresher,
                          refresh'[s].at = "install"
                   PROVE  /\ refresh'[s].fresh[b].stamp <= tree[b]
                          /\ s \notin outdated' =>
                               /\ entries'[b].stamp <= refresh'[s].fresh[b].stamp
                               /\ ~Listed(entries'[b]) =>
                                    refresh'[s].fresh[b].research = NoResearch
      BY <3>1, <3>5 DEF StampsInv
    <3>7. refresh'[s] = refresh[s] /\ refresh[s].at = "install"
      BY <3>2, <3>6
    <3> QED
      BY <3>3, <3>4, <3>6, <3>7 DEF StampsInv
  <2> QED
    BY <2>1, <2>2, <2>3, <2>4
<1>3. CASE Handlers
  <2>1. ASSUME NEW b \in Bundle, NEW research \in Research, EditFields(b, research)
        PROVE  StampsInv'
    <3>1. /\ Listed(entries[b]) /\ entries' = [entries EXCEPT ![b].research = research]
          /\ acked' = [acked EXCEPT ![b] = research]
          /\ UNCHANGED <<tree, refresh, outdated, importer, removed>>
      BY <2>1 DEF EditFields, Update, process
    <3>2. \A d \in Bundle : entries'[d].stamp = entries[d].stamp
      BY <3>1, UpdatedIsProper DEF CatalogInv, CatalogTypeOK, ProperInv
    <3>3. b \notin removed => Committed(tree[b])
      BY <3>1, ListedIsCommitted, StampTypes DEF StampsInv, CatalogInv, ProperInv
    <3>4. \A d \in Bundle \ {b} : acked'[d] = acked[d]
      BY <3>1 DEF CatalogInv, CatalogTypeOK
    <3> QED
      BY <3>1, <3>2, <3>3, <3>4 DEF StampsInv, Listed
  <2>2. CASE ~\E b \in Bundle, research \in Research : EditFields(b, research)
    <3>1. UNCHANGED <<tree, entries, acked, outdated, refresh, importer, removed>>
      BY <1>3, <2>2 DEF Handlers, AnnotationRequest, AnnotationSaved, AnnotationFails,
        SaveComparison, DeleteComparison, process, catalogVars, catalogFiles,
        catalogMemory
    <3> QED
      BY <3>1, StampsFrame
  <2> QED
    BY <2>1, <2>2
<1>4. CASE Importing
  <2>1. ASSUME NEW b \in Bundle, NEW saved \in BOOLEAN, ImportFields(b, saved)
        PROVE  StampsInv'
    <3> DEFINE merged == Merge(importer.entries[b].research, ArchiveFields[b])
               own    == IF saved THEN [importer.entries EXCEPT ![b].research = merged]
                         ELSE importer.entries
    <3>1. /\ importer.at = "fields" /\ b \in importer.todo
          /\ importer' = [importer EXCEPT !.at = "notes", !.current = b,
                                          !.entries = own, !.todo = @ \ {b}]
          /\ acked' = acked \/ acked' = [acked EXCEPT ![b] = Merge(@, ArchiveFields[b])]
          /\ UNCHANGED <<tree, entries, refresh, outdated, removed>>
      BY <2>1 DEF ImportFields
    <3>2. /\ importer.entries \in [Bundle -> Entry] /\ Proper(importer.entries)
          /\ Listed(importer.entries[b])
      BY <3>1 DEF CatalogInv, Importer, ProperInv
    <3>3. merged \in Research
      BY <3>2, MergeKeepsTheType, LibraryAssumption DEF Entry
    <3> HIDE DEF merged
    <3>4. \A d \in Bundle : own[d].stamp = importer.entries[d].stamp
      <4>1. CASE saved
        BY <3>2, <3>3, <4>1, UpdatedIsProper
      <4>2. CASE ~saved
        BY <4>2
      <4> QED
        BY <4>1, <4>2
    <3> HIDE DEF own
    <3>5. importer'.entries = own
      BY <3>1 DEF CatalogInv, Importer
    <3>6. b \notin removed => Committed(tree[b])
      BY <3>2, ListedIsCommitted, StampTypes DEF StampsInv
    <3>7. \A d \in Bundle \ {b} : acked'[d] = acked[d]
      BY <3>1 DEF CatalogInv, CatalogTypeOK
    <3> QED
      BY <3>1, <3>4, <3>5, <3>6, <3>7 DEF StampsInv, Listed
  <2>2. CASE ~\E b \in Bundle, saved \in BOOLEAN : ImportFields(b, saved)
    <3>1. /\ UNCHANGED <<tree, entries, acked, outdated, refresh, removed>>
          /\ \/ importer'.entries = importer.entries
             \/ \E scanned \in BOOLEAN : importer'.entries = NewCatalog(scanned, TRUE)
             \/ importer'.entries = NoEntries
      <4>1. UNCHANGED <<tree, entries, acked, outdated, refresh, removed>>
        BY <1>4, <2>2 DEF Importing, ImportStarts, ImportNotes, ImportSet, ImportEnds,
          catalogVars, catalogFiles, catalogMemory
      <4>2. CASE \/ \E saved \in BOOLEAN : ImportNotes(saved)
                 \/ \E c \in Comparison, saved \in BOOLEAN : ImportSet(c, saved)
        BY <4>1, <4>2 DEF ImportNotes, ImportSet, CatalogInv, Importer
      <4>3. CASE ImportEnds
        BY <4>1, <4>3 DEF ImportEnds, NoImport
      <4>4. ASSUME NEW scanned \in BOOLEAN, ImportStarts(scanned)
            PROVE  importer'.entries = NewCatalog(scanned, TRUE)
        <5> DEFINE read == NewCatalog(scanned, TRUE)
        <5>1. importer' = [at |-> "fields", current |-> None, entries |-> read,
                           todo |-> {b \in Bundle : Listed(read[b])},
                           sets |-> ArchiveComparisons]
          BY <4>4 DEF ImportStarts
        <5> HIDE DEF read
        <5>2. importer'.entries = read
          BY <5>1
        <5> QED
          BY <5>2 DEF read
      <4> QED
        BY <1>4, <2>2, <4>1, <4>2, <4>3, <4>4 DEF Importing
    <3>2. \A b \in Bundle : NoEntries[b].stamp <= tree[b]
      BY StampTypes DEF NoEntries, Unlisted, Absent
    <3>3. \A b \in Bundle : \/ importer'.entries[b].stamp <= tree[b]
                            \/ importer'.entries[b].stamp = importer.entries[b].stamp
      BY <3>1, <3>2, NewCatalogIsProper DEF CatalogInv
    <3> QED
      BY <3>1, <3>3, StampsFrame
  <2> QED
    BY <2>1, <2>2
<1>5. CASE Tree
  <2> PICK b \in Bundle : PreserveWrites(b) \/ BundleRemoved(b)
    BY <1>5 DEF Tree
  <2>1. UNCHANGED <<entries, acked, outdated, refresh, importer>>
    BY DEF PreserveWrites, BundleRemoved, BundleGrows, catalogMemory, process
  <2>2. \A d \in Bundle \ removed' : d \notin removed /\ tree[d] <= tree'[d]
    <3>1. tree \in [Bundle -> 0..(Partial + Editions)] /\ \A d \in Bundle : tree[d] \in Nat
      BY StampTypes DEF CatalogInv, CatalogTypeOK
    <3>2. CASE PreserveWrites(b)
      BY <3>1, <3>2, <1>0 DEF PreserveWrites, BundleGrows
    <3>3. CASE BundleRemoved(b)
      BY <3>1, <3>3 DEF BundleRemoved
    <3> QED
      BY <3>2, <3>3
  <2>3. \A d \in Bundle : tree'[d] \in Nat
    BY CatalogAssumption DEF CatalogInv, CatalogTypeOK, Partial
  <2> SUFFICES ASSUME NEW d \in Bundle \ removed'
               PROVE  /\ entries[d].stamp <= tree'[d]
                      /\ importer.entries[d].stamp <= tree'[d]
                      /\ acked[d] # NoResearch => Committed(tree'[d])
                      /\ \A r \in Refresher : refresh[r].at = "install" =>
                           refresh[r].fresh[d].stamp <= tree'[d]
    BY <2>1, <2>2 DEF StampsInv
  <2>4. d \notin removed /\ tree[d] <= tree'[d] /\ tree[d] \in Nat /\ tree'[d] \in Nat
    BY <2>2, <2>3, StampTypes
  <2> QED
    BY <2>4, StampTypes DEF StampsInv, Committed, Partial
<1>6. CASE Quiet
  <2>1. UNCHANGED <<tree, entries, acked, outdated, refresh, importer, removed>>
    BY <1>6 DEF Quiet, vars, process, catalogVars, catalogFiles, catalogMemory
  <2> QED
    BY <2>1, StampsFrame
<1> QED
  BY <1>1, <1>2, <1>3, <1>4, <1>5, <1>6 DEF Next

-----------------------------------------------------------------------------
(* What was acknowledged.                                                  *)

LEMMA ResearchFrame ==
  ASSUME ResearchInv, crossed \subseteq crossed', removed \subseteq removed',
         UNCHANGED <<file, loadErr, foreign, acked>>,
         crossed' = {} => \A b \in Bundle \ removed :
                            entries'[b].research = entries[b].research,
         importer'.todo # {} => /\ importer'.todo = importer.todo
                                /\ importer'.entries = importer.entries,
         phase = "down" => phase' = "down"
  PROVE  ResearchInv'
BY DEF ResearchInv

\* An index is saved whose entries still say what the memory said: unless it
\* overwrites what an import wrote, nothing acknowledged is lost.
LEMMA SavedResearch ==
  ASSUME CatalogInv, ResearchInv, phase # "down", removed' = removed,
         crossed \subseteq crossed', UNCHANGED <<loadErr, acked, importer>>,
         NEW written \in BOOLEAN, Save(written),
         crossed' = {} => /\ ~Overwrites
                          /\ \A b \in Bundle \ removed :
                               entries'[b].research = entries[b].research
  PROVE  ResearchInv'
<1> SUFFICES ASSUME crossed' = {}, NEW b \in Bundle \ removed
             PROVE  /\ file'[b].research = acked[b]
                    /\ ~loadErr /\ ~foreign' => entries'[b].research = acked[b]
                    /\ acked[b] = NoResearch => entries'[b].research = NoResearch
                    /\ importer.todo # {} => importer.entries[b].research = acked[b]
  BY DEF ResearchInv
<1>1. /\ file[b].research = acked[b]
      /\ ~loadErr /\ ~foreign => entries[b].research = acked[b]
      /\ acked[b] = NoResearch => entries[b].research = NoResearch
      /\ importer.todo # {} => importer.entries[b].research = acked[b]
      /\ entries'[b].research = entries[b].research
      /\ foreign => file' = file
  BY DEF ResearchInv, Overwrites
<1>2. CASE written /\ ~loadErr
  <2>1. file' = entries' /\ foreign' = FALSE
    BY <1>2 DEF Save
  <2> QED
    BY <1>1, <1>2, <2>1
<1>3. CASE ~(written /\ ~loadErr)
  <2>1. file' = file /\ foreign' = foreign
    BY <1>3 DEF Save
  <2> QED
    BY <1>1, <2>1
<1> QED
  BY <1>2, <1>3

LEMMA ProcessKeepsResearch ==
  ASSUME CatalogInv, ProcessInv, StampsInv, ResearchInv, Process,
         crossed \subseteq crossed'
  PROVE  ResearchInv'
<1>1. ASSUME NEW scanned \in BOOLEAN, NEW readable \in BOOLEAN,
             NEW setsReadable \in BOOLEAN, New(scanned, readable, setsReadable)
      PROVE  ResearchInv'
  <2>1. /\ entries' = NewCatalog(scanned, readable) /\ loadErr' = ~readable
        /\ crossed' = IF ~scanned THEN crossed \cup {"blind start"} ELSE crossed
        /\ UNCHANGED <<file, acked, importer, removed>>
    BY <1>1 DEF New, Open, catalogFiles, Crossing
  <2> SUFFICES ASSUME crossed' = {}, NEW b \in Bundle \ removed
               PROVE  /\ file[b].research = acked[b]
                      /\ readable => entries'[b].research = acked[b]
                      /\ acked[b] = NoResearch => entries'[b].research = NoResearch
                      /\ importer.todo # {} => importer.entries[b].research = acked[b]
    BY <2>1 DEF ResearchInv
  <2>2. /\ file[b].research = acked[b]
        /\ importer.todo # {} => importer.entries[b].research = acked[b]
        /\ acked[b] # NoResearch => Committed(tree[b])
    BY DEF ResearchInv, StampsInv
  <2>3. /\ scanned
        /\ entries'[b].research \in {NoResearch, file[b].research}
        /\ readable /\ Committed(tree[b]) => entries'[b].research = file[b].research
        /\ ~Committed(tree[b]) => entries'[b].research = NoResearch
    BY <2>1, NewCatalogIsProper DEF CatalogInv
  <2> QED
    BY <2>2, <2>3
<1>2. CASE ServerEnds
  <2>1. /\ entries' = NoEntries /\ phase' = "down"
        /\ UNCHANGED <<file, acked, importer, removed>>
    BY <1>2 DEF ServerEnds, catalogFiles
  <2>2. \A b \in Bundle : entries'[b].research = NoResearch
    BY <2>1 DEF NoEntries, Unlisted
  <2> QED
    BY <2>1, <2>2 DEF ResearchInv
<1>3. ASSUME NEW written \in BOOLEAN, SizesKnown(written)
      PROVE  ResearchInv'
  <2>1. /\ background = "sizing" /\ entries' = entries /\ Save(written)
        /\ Overwrites => crossed' = crossed \cup {"unseen import"}
        /\ UNCHANGED <<loadErr, acked, importer, removed>>
    BY <1>3 DEF SizesKnown, SaveSizes, Crossing
  <2>2. phase # "down"
    BY <2>1 DEF ProcessInv
  <2>3. crossed' = {} => ~Overwrites
    BY <2>1
  <2> QED
    BY <2>1, <2>2, <2>3, SavedResearch
<1>4. CASE Serve \/ Cancel \/ Unlock \/ BackgroundEnds
  <2>1. /\ UNCHANGED <<file, loadErr, foreign, acked, entries, importer, removed>>
        /\ phase = "down" => phase' = "down"
    BY <1>4 DEF Serve, Cancel, Unlock, BackgroundEnds, catalogVars, catalogFiles,
      catalogMemory
  <2> QED
    BY <2>1, ResearchFrame
<1> QED
  BY <1>1, <1>2, <1>3, <1>4 DEF Process

LEMMA RefreshingKeepsResearch ==
  ASSUME CatalogInv, ProcessInv, StampsInv, ResearchInv, Refreshing,
         crossed \subseteq crossed'
  PROVE  ResearchInv'
<1> PICK r \in Refresher :
      \/ \E readable \in BOOLEAN : StartRefresh(r, readable)
      \/ RefreshScans(r)
      \/ RefreshFails(r)
      \/ \E written \in BOOLEAN : RefreshInstalls(r, written)
  BY DEF Refreshing
<1>1. CASE RefreshScans(r) \/ RefreshFails(r)
  <2>1. UNCHANGED <<file, loadErr, foreign, acked, entries, importer, phase, removed>>
    BY <1>1 DEF RefreshScans, RefreshFails, Scan, ScanFails, catalogFiles, process
  <2> QED
    BY <2>1, ResearchFrame
<1>2. ASSUME NEW readable \in BOOLEAN, StartRefresh(r, readable)
      PROVE  ResearchInv'
  <2>1. /\ UNCHANGED <<file, acked, phase, importer, removed>>
        /\ \/ ~foreign /\ UNCHANGED <<entries, loadErr, foreign>>
           \/ foreign /\ readable /\ entries' = Reloaded
           \/ loadErr' = TRUE /\ UNCHANGED <<entries, foreign>>
    BY <1>2 DEF StartRefresh, Reload, catalogFiles
  <2>2. CASE ~foreign /\ UNCHANGED <<entries, loadErr, foreign>>
    BY <2>1, <2>2, ResearchFrame
  <2>3. CASE loadErr' = TRUE /\ UNCHANGED <<entries, foreign>>
    BY <2>1, <2>3 DEF ResearchInv
  <2>4. CASE foreign /\ readable /\ entries' = Reloaded
    <3>1. crossed' = {} => \A b \in Bundle : Listed(file[b]) => Listed(entries[b])
      BY <1>2, <2>4 DEF StartRefresh, Crossing
    <3> SUFFICES ASSUME crossed' = {}, NEW b \in Bundle \ removed
                 PROVE  /\ file[b].research = acked[b]
                        /\ entries'[b].research = acked[b]
                        /\ importer.todo # {} => importer.entries[b].research = acked[b]
      BY <2>1 DEF ResearchInv
    <3>2. /\ file[b].research = acked[b]
          /\ acked[b] = NoResearch => entries[b].research = NoResearch
          /\ importer.todo # {} => importer.entries[b].research = acked[b]
      BY DEF ResearchInv
    <3>3. /\ entries'[b].research = IF Listed(entries[b]) /\ Listed(file[b])
                                   THEN file[b].research ELSE entries[b].research
          /\ ~Listed(file[b]) => file[b].research = NoResearch
      BY <2>4, ReloadedIsProper DEF CatalogInv, ProperInv, Proper
    <3> QED
      BY <3>1, <3>2, <3>3
  <2> QED
    BY <2>1, <2>2, <2>3, <2>4
<1>3. ASSUME NEW written \in BOOLEAN, RefreshInstalls(r, written)
      PROVE  ResearchInv'
  <2>1. /\ refresh[r].at = "install" /\ entries' = Installed(r)
        /\ IF Changes(r) THEN Save(written) ELSE UNCHANGED <<file, foreign>>
        /\ crossed' = crossed
             \cup {race \in {"overlapping refreshes"} : r \in outdated}
             \cup {race \in {"unseen import"} : Overwrites}
        /\ UNCHANGED <<loadErr, acked, importer, phase, removed>>
    BY <1>3 DEF RefreshInstalls, Install
  <2>2. crossed' = {} => r \notin outdated /\ ~Overwrites
    <3> HIDE DEF Changes
    <3> QED
      BY <2>1 DEF Overwrites
  <2>3. crossed' = {} => \A b \in Bundle \ removed :
                           entries'[b].research = entries[b].research
    BY <2>1, <2>2, InstalledKeepsResearch
  <2>4. phase # "down"
    <3>1. phase = "down" => refresh[r] = Idle
      BY DEF ProcessInv
    <3>2. refresh[r].at = "install" /\ Idle.at = "idle"
      BY <2>1 DEF Idle
    <3> QED
      BY <3>1, <3>2
  <2>5. CASE Changes(r)
    BY <2>1, <2>2, <2>3, <2>4, <2>5, SavedResearch
  <2>6. CASE ~Changes(r)
    BY <2>1, <2>3, <2>6, ResearchFrame
  <2> QED
    BY <2>5, <2>6
<1> QED
  BY <1>1, <1>2, <1>3

LEMMA HandlersKeepResearch ==
  ASSUME CatalogInv, ProcessInv, ResearchInv, Handlers, crossed \subseteq crossed'
  PROVE  ResearchInv'
<1>1. ASSUME NEW b \in Bundle, NEW research \in Research, EditFields(b, research)
      PROVE  ResearchInv'
  <2>1. /\ Handling /\ ~loadErr
        /\ entries' = [entries EXCEPT ![b].research = research]
        /\ file' = entries' /\ foreign' = FALSE
        /\ acked' = [acked EXCEPT ![b] = research]
        /\ UNCHANGED <<phase, importer, removed>>
        /\ crossed' = crossed
             \cup {race \in {"unseen import"} : Overwrites}
             \cup {race \in {"handler beside import"} : Beside}
    BY <1>1 DEF EditFields, Update, Save, process
  <2>2. /\ entries'[b].research = research /\ acked'[b] = research
        /\ \A d \in Bundle \ {b} : entries'[d] = entries[d] /\ acked'[d] = acked[d]
    <3>1. /\ entries \in [Bundle -> Entry] /\ acked \in [Bundle -> Research]
          /\ entries[b] \in Entry
      BY DEF CatalogInv, CatalogTypeOK
    <3>2. entries'[b] = [entries[b] EXCEPT !.research = research]
      BY <2>1, <3>1
    <3>3. entries'[b].research = research
      BY <3>1, <3>2 DEF Entry
    <3> QED
      BY <2>1, <3>1, <3>3
  <2>3. crossed' = {} => ~Beside /\ (foreign => file' = file)
    BY <2>1 DEF Overwrites
  <2>4. crossed' = {} => importer.todo = {}
    <3>1. Beside \/ importer.at = "none"
      BY <2>1 DEF ProcessInv, Handling, Beside
    <3> QED
      BY <2>3, <3>1 DEF CatalogInv, ProperInv
  <2> SUFFICES ASSUME crossed' = {}, NEW d \in Bundle \ removed
               PROVE  entries'[d].research = acked'[d]
    BY <2>1, <2>4 DEF ResearchInv
  <2>5. CASE d = b
    BY <2>2, <2>5
  <2>6. CASE d # b
    <3>1. /\ file[d].research = acked[d]
          /\ ~foreign => entries[d].research = acked[d]
      BY <2>1 DEF ResearchInv, Handling
    <3>2. foreign => entries'[d].research = file[d].research
      BY <2>1, <2>3
    <3> QED
      BY <2>2, <2>6, <3>1, <3>2
  <2> QED
    BY <2>5, <2>6
<1>2. CASE ~\E b \in Bundle, research \in Research : EditFields(b, research)
  <2>1. UNCHANGED <<file, loadErr, foreign, acked, entries, importer, phase, removed>>
    BY <1>2 DEF Handlers, AnnotationRequest, AnnotationSaved, AnnotationFails,
      SaveComparison, DeleteComparison, process, catalogVars, catalogFiles, catalogMemory
  <2> QED
    BY <2>1, ResearchFrame
<1> QED
  BY <1>1, <1>2

LEMMA ImportingKeepsResearch ==
  ASSUME CatalogInv, StampsInv, ResearchInv, Importing, crossed \subseteq crossed'
  PROVE  ResearchInv'
<1>1. ASSUME NEW scanned \in BOOLEAN, ImportStarts(scanned)
      PROVE  ResearchInv'
  <2> DEFINE read == NewCatalog(scanned, TRUE)
  <2>1. /\ importer' = [at |-> "fields", current |-> None, entries |-> read,
                        todo |-> {b \in Bundle : Listed(read[b])},
                        sets |-> ArchiveComparisons]
        /\ UNCHANGED <<file, loadErr, foreign, acked, entries, phase, removed>>
    BY <1>1 DEF ImportStarts, catalogVars, catalogFiles, catalogMemory
  <2>2. /\ \A b \in Bundle :
             /\ Committed(tree[b]) /\ scanned => read[b].research = file[b].research
             /\ ~Committed(tree[b]) => read[b].research = NoResearch
        /\ ~scanned => \A b \in Bundle : ~Listed(read[b])
    <3>1. ~scanned => \A b \in Bundle : ~Listed(read[b])
      BY DEF NewCatalog, Listed, Unlisted
    <3> QED
      BY <3>1, NewCatalogIsProper DEF CatalogInv
  <2> HIDE DEF read
  <2>3. importer'.entries = read /\ importer'.todo = {b \in Bundle : Listed(read[b])}
    BY <2>1
  <2>4. importer'.todo # {} => scanned
    BY <2>2, <2>3
  <2> SUFFICES ASSUME crossed' = {}, NEW b \in Bundle \ removed, scanned
               PROVE  read[b].research = acked[b]
    BY <2>1, <2>3, <2>4 DEF ResearchInv
  <2>5. file[b].research = acked[b] /\ (acked[b] # NoResearch => Committed(tree[b]))
    BY DEF ResearchInv, StampsInv
  <2> QED
    BY <2>2, <2>5
<1>2. ASSUME NEW b \in Bundle, NEW saved \in BOOLEAN, ImportFields(b, saved)
      PROVE  ResearchInv'
  <2> DEFINE merged == Merge(importer.entries[b].research, ArchiveFields[b])
             own    == IF saved THEN [importer.entries EXCEPT ![b].research = merged]
                       ELSE importer.entries
  <2>1. /\ importer.at = "fields" /\ b \in importer.todo
        /\ importer' = [importer EXCEPT !.at = "notes", !.current = b,
                                        !.entries = own, !.todo = @ \ {b}]
        /\ IF own # importer.entries
           THEN /\ file' = own
                /\ foreign' = (phase # "down")
                /\ acked' = [acked EXCEPT ![b] = Merge(@, ArchiveFields[b])]
           ELSE UNCHANGED <<file, foreign, acked>>
        /\ UNCHANGED <<entries, loadErr, phase, removed>>
    BY <1>2 DEF ImportFields
  <2>2. /\ importer.entries \in [Bundle -> Entry]
        /\ acked \in [Bundle -> Research] /\ ArchiveFields[b] \in Research
    BY LibraryAssumption DEF CatalogInv, CatalogTypeOK, Importer
  <2>3. /\ own # importer.entries => own[b].research = merged
        /\ \A d \in Bundle \ {b} : own[d] = importer.entries[d]
    <3> HIDE DEF merged
    <3> QED
      BY <2>2 DEF Entry
  <2>4. importer'.entries = own
    <3> HIDE DEF own, merged
    <3> QED
      BY <2>1 DEF CatalogInv, Importer
  <2> SUFFICES ASSUME crossed' = {}, NEW d \in Bundle \ removed
               PROVE  /\ file'[d].research = acked'[d]
                      /\ phase # "down" /\ ~loadErr /\ ~foreign' =>
                           entries[d].research = acked'[d]
                      /\ acked'[d] = NoResearch => entries[d].research = NoResearch
                      /\ own[d].research = acked'[d]
    <3> HIDE DEF own, merged
    <3> QED
      BY <2>1, <2>4 DEF ResearchInv
  <2>5. /\ file[d].research = acked[d]
        /\ phase # "down" /\ ~loadErr /\ ~foreign => entries[d].research = acked[d]
        /\ acked[d] = NoResearch => entries[d].research = NoResearch
        /\ importer.entries[d].research = acked[d]
    BY <2>1 DEF ResearchInv
  <2>6. d = b => merged = Merge(acked[b], ArchiveFields[b])
    BY <2>5
  <2>7. CASE own # importer.entries
    <3>1. /\ file' = own /\ foreign' = (phase # "down")
          /\ acked' = [acked EXCEPT ![b] = Merge(@, ArchiveFields[b])]
      BY <2>1, <2>7
    <3>2. acked'[b] = Merge(acked[b], ArchiveFields[b])
          /\ \A e \in Bundle \ {b} : acked'[e] = acked[e]
      BY <2>2, <3>1
    <3>3. acked'[b] = NoResearch => acked[b] = NoResearch
      BY <2>2, <3>2, MergeKeepsTheType
    <3> HIDE DEF own, merged
    <3>4. own[d].research = acked'[d]
      BY <2>3, <2>5, <2>6, <2>7, <3>2
    <3>5. acked'[d] = NoResearch => entries[d].research = NoResearch
      BY <2>5, <3>2, <3>3
    <3> QED
      BY <3>1, <3>4, <3>5
  <2>8. CASE own = importer.entries
    <3> HIDE DEF own
    <3> QED
      BY <2>1, <2>5, <2>8
  <2> QED
    BY <2>7, <2>8
<1>3. CASE \/ \E saved \in BOOLEAN : ImportNotes(saved)
           \/ \E c \in Comparison, saved \in BOOLEAN : ImportSet(c, saved)
  <2>1. /\ UNCHANGED <<file, loadErr, foreign, acked, entries, phase, removed>>
        /\ importer'.todo = importer.todo /\ importer'.entries = importer.entries
    <3>1. UNCHANGED <<file, loadErr, foreign, acked, entries, phase, removed>>
      BY <1>3 DEF ImportNotes, ImportSet, catalogVars, catalogFiles, catalogMemory
    <3> QED
      BY <1>3, <3>1 DEF ImportNotes, ImportSet, CatalogInv, Importer
  <2> QED
    BY <2>1, ResearchFrame
<1>4. CASE ImportEnds
  <2>1. /\ UNCHANGED <<file, loadErr, foreign, acked, entries, phase, removed>>
        /\ importer'.todo = {}
    BY <1>4 DEF ImportEnds, NoImport, catalogVars, catalogFiles, catalogMemory
  <2> QED
    BY <2>1, ResearchFrame
<1> QED
  BY <1>1, <1>2, <1>3, <1>4 DEF Importing

LEMMA ResearchStep ==
  ASSUME CatalogInv, ProcessInv, StampsInv, ResearchInv, Next
  PROVE  ResearchInv'
<1>1. crossed \subseteq crossed' /\ removed \subseteq removed'
  BY HistoryGrows
<1>2. CASE Tree \/ Quiet
  <2>1. UNCHANGED <<file, loadErr, foreign, acked, entries, importer, phase>>
    BY <1>2 DEF Tree, PreserveWrites, BundleGrows, BundleRemoved, Quiet, vars, process,
      catalogVars, catalogFiles, catalogMemory
  <2> QED
    BY <1>1, <2>1, ResearchFrame
<1> QED
  BY <1>1, <1>2, ProcessKeepsResearch, RefreshingKeepsResearch, HandlersKeepResearch,
    ImportingKeepsResearch DEF Next

-----------------------------------------------------------------------------
(* The theorems.                                                           *)

LEMMA InvInit == Init => Inv
<1> SUFFICES ASSUME Init PROVE Inv
  OBVIOUS
<1> USE DEF Init
<1>1. CatalogInv
  <2>1. CatalogTypeOK
    <3>1. tree \in [Bundle -> 0..(Partial + Editions)]
      <4>1. {Absent, Partial, Partial + 1} \subseteq 0..(Partial + Editions)
        BY CatalogAssumption DEF Absent, Partial
      <4> QED
        BY <4>1 DEF CatalogInit
    <3>2. NoResearch \in Research
      BY DEF NoResearch, Research
    <3>3. Idle \in [at : {"idle", "scan", "install"}, fresh : [Bundle -> Entry]]
      BY EmptyCatalog DEF Idle
    <3> QED
      BY <3>1, <3>2, <3>3, EmptyCatalog DEF CatalogInit, CatalogTypeOK
  <2>2. importer \in Importer
    BY EmptyCatalog DEF NoImport, Importer
  <2>3. ProperInv
    BY EmptyCatalog DEF CatalogInit, ProperInv, Idle, NoImport
  <2> QED
    BY <2>1, <2>2, <2>3 DEF CatalogInv
<1>2. ProcessTypes /\ ProcessInv
  BY LibraryAssumption DEF ProcessTypes, ProcessInv, CatalogInit, Idle, NoImport
<1>3. StampsInv
  <2>1. /\ \A b \in Bundle : /\ entries[b].stamp = 0 /\ importer.entries[b].stamp = 0
                             /\ acked[b] = NoResearch
        /\ \A r \in Refresher : refresh[r].at = "idle"
    BY DEF CatalogInit, NoEntries, Unlisted, Absent, NoImport, Idle
  <2>2. \A b \in Bundle : entries[b].stamp <= tree[b] /\ importer.entries[b].stamp <= tree[b]
    <3> HIDE DEF Init
    <3> TAKE b \in Bundle
    <3>1. tree[b] \in Nat
      BY <1>1, StampTypes
    <3>2. entries[b].stamp = 0 /\ importer.entries[b].stamp = 0
      BY <2>1
    <3>3. 0 <= tree[b]
      BY <3>1
    <3> QED
      BY <3>2, <3>3
  <2> HIDE DEF Init
  <2> QED
    BY <2>1, <2>2 DEF StampsInv
<1>4. ResearchInv
  BY DEF ResearchInv, CatalogInit, NoEntries, Unlisted, NoImport
<1>5. NotesInv
  <2>1. <<>> \in Seq(Note) /\ Ids(<<>>) = {}
    BY DEF Ids
  <2>2. AnnotationsTypeOK /\ HandlersType
    BY <2>1 DEF AnnotationsInit, AnnotationsTypeOK, HandlersType
  <2>3. HandlerInv
    BY DEF AnnotationsInit, HandlerInv
  <2>4. Told
    BY <2>1 DEF AnnotationsInit, Told, Tells
  <2> QED
    BY <2>2, <2>3, <2>4 DEF NotesInv
<1>6. ComparisonsTypeOK /\ SetsInv /\ SetsSeen
  <2>1. IsFiniteSet({}) /\ Cardinality({}) = 0 /\ MaxSaved \in Nat
    BY FS_EmptySet, ComparisonsAssumption
  <2>2. /\ sets = {} /\ setsErr = FALSE /\ setsFile = {} /\ compared = {}
        /\ setsForeign = FALSE
    BY DEF ComparisonsInit
  <2>3. Cardinality(setsFile) <= MaxSaved /\ IsFiniteSet(setsFile)
    BY <2>1, <2>2
  <2> HIDE DEF Init
  <2> QED
    BY <2>2, <2>3 DEF ComparisonsTypeOK, SetsInv, SetsSeen
<1> QED
  BY <1>1, <1>2, <1>3, <1>4, <1>5, <1>6 DEF Inv

LEMMA InvStep == Inv /\ [Next]_vars => Inv'
<1> SUFFICES ASSUME Inv, [Next]_vars PROVE Inv'
  OBVIOUS
<1>1. CASE Next
  BY <1>1, HistoryGrows, CatalogStep, ProcessStep, StampsStep, ResearchStep, NotesStep,
    SetsStep, SetsSeenStep DEF Inv
<1>2. CASE UNCHANGED vars
  <2>1. /\ UNCHANGED <<catalogVars, importer, phase, background, lock, removed, crossed>>
        /\ UNCHANGED <<tree, file, entries, loadErr, foreign, refresh, outdated, acked>>
        /\ UNCHANGED <<notes, handler, noted>>
        /\ UNCHANGED <<sets, setsErr, setsFile, setsForeign, compared>>
    BY <1>2 DEF vars, process, catalogVars, catalogFiles, catalogMemory, notesVars,
      setsVars
  <2>2. CatalogInv'
    BY <2>1, CatalogFrame DEF Inv
  <2>3. ProcessTypes' /\ ProcessInv'
    BY <2>1 DEF Inv, ProcessTypes, ProcessInv
  <2>4. StampsInv'
    BY <2>1, StampsFrame DEF Inv
  <2>5. ResearchInv'
    BY <2>1, ResearchFrame DEF Inv
  <2>6. NotesInv'
    BY <2>1, NotesFrame DEF Inv, NotesInv, HandlersType
  <2>7. ComparisonsTypeOK' /\ SetsInv' /\ SetsSeen'
    BY <2>1 DEF Inv, ComparisonsTypeOK, SetsInv, SetsSeen
  <2> QED
    BY <2>1, <2>2, <2>3, <2>4, <2>5, <2>6, <2>7 DEF Inv
<1> QED
  BY <1>1, <1>2

\* The inductive invariant of a library and the types of its variables.
THEOREM InvHolds == Spec => [](Inv /\ TypeOK)
<1>1. Inv => TypeOK
  BY DEF Inv, CatalogInv, ProcessTypes, NotesInv, HandlersType, AnnotationsTypeOK,
    Importer, TypeOK
<1> QED
  BY <1>1, InvInit, InvStep, PTL DEF Spec

\* catalog.go: no refresh, restart, import or failed write loses what was
\* reported as saved, but for the four races.
THEOREM SavedResearchStands == Spec => []NothingSavedIsLost
<1>1. Inv => NothingSavedIsLost
  BY DEF Inv, ResearchInv, NothingSavedIsLost
<1> QED
  BY <1>1, InvHolds, PTL

\* serve.go, research_metadata.go: overlapping requests and imports keep each
\* other's annotations.
THEOREM SavedNotesStand == Spec => []AnnotationsKept
<1>1. Inv => AnnotationsKept
  BY ToldMeansKept DEF Inv, NotesInv
<1> QED
  BY <1>1, InvHolds, PTL

\* comparison_store.go: the file holds the comparisons that were saved, no
\* more than it may, and no two of one name, whatever saves fail; but for the
\* two races of an import with a server.
THEOREM SavedComparisonsStand == Spec => []ComparisonsKept
<1>1. Inv => ComparisonsKept
  BY DEF Inv, SetsInv, ComparisonsKept
<1> QED
  BY <1>1, InvHolds, PTL

\* catalog.go: while a process serves, its catalogue follows the bundles
\* forward: none that is there drops out or falls back, none is listed early.
THEOREM CatalogMovesForward == Spec => EntriesMoveForward
<1> DEFINE Forward ==
      \A b \in Bundle \ removed' :
        phase' # "down" /\ crossed' = {} =>
          /\ entries'[b].stamp >= entries[b].stamp
          /\ entries'[b].stamp # Partial
<1>1. ASSUME Inv, Inv', [Next]_vars PROVE Forward
  <2> SUFFICES ASSUME NEW b \in Bundle \ removed', phase' # "down", crossed' = {}
               PROVE  entries'[b].stamp >= entries[b].stamp
    BY <1>1 DEF Inv, CatalogInv, ProperInv, Proper
  <2>1. entries[b].stamp \in Nat /\ entries'[b].stamp \in Nat
    BY <1>1, StampTypes DEF Inv, CatalogInv, CatalogTypeOK, Entry
  <2>2. CASE UNCHANGED entries
    BY <2>1, <2>2
  <2>3. ASSUME NEW scanned \in BOOLEAN, NEW readable \in BOOLEAN,
               NEW setsReadable \in BOOLEAN, New(scanned, readable, setsReadable)
        PROVE  entries'[b].stamp >= entries[b].stamp
    <3>1. entries = NoEntries
      BY <1>1, <2>3 DEF New, Inv, ProcessInv
    <3>2. entries[b].stamp = 0
      BY <3>1 DEF NoEntries, Unlisted, Absent
    <3> QED
      BY <2>1, <3>2
  <2>4. ASSUME NEW r \in Refresher, NEW readable \in BOOLEAN, StartRefresh(r, readable)
        PROVE  entries'[b].stamp >= entries[b].stamp
    <3>1. entries' = entries \/ entries' = Reloaded
      BY <2>4 DEF StartRefresh, Reload
    <3>2. entries'[b].stamp = entries[b].stamp
      BY <1>1, <3>1, ReloadedIsProper DEF Inv, CatalogInv, ProperInv
    <3> QED
      BY <2>1, <3>2
  <2>5. ASSUME NEW r \in Refresher, NEW written \in BOOLEAN, RefreshInstalls(r, written)
        PROVE  entries'[b].stamp >= entries[b].stamp
    <3>1. /\ refresh[r].at = "install" /\ entries' = Installed(r) /\ removed' = removed
          /\ r \in outdated => "overlapping refreshes" \in crossed'
      BY <2>5 DEF RefreshInstalls, Install
    <3> QED
      BY <1>1, <3>1, InstalledKeepsResearch DEF Inv
  <2>6. ASSUME NEW d \in Bundle, NEW research \in Research, EditFields(d, research)
        PROVE  entries'[b].stamp >= entries[b].stamp
    <3>1. Listed(entries[d]) /\ entries' = [entries EXCEPT ![d].research = research]
      BY <2>6 DEF EditFields, Update
    <3>2. entries'[b].stamp = entries[b].stamp
      BY <1>1, <3>1, UpdatedIsProper DEF Inv, CatalogInv, CatalogTypeOK, ProperInv
    <3> QED
      BY <2>1, <3>2
  <2>7. CASE Next
    <3>1. CASE Process
      BY <3>1, <2>2, <2>3 DEF Process, Serve, Cancel, Unlock, ServerEnds, BackgroundEnds,
        SizesKnown, SaveSizes, catalogVars, catalogMemory
    <3>2. CASE Refreshing
      BY <3>2, <2>2, <2>4, <2>5 DEF Refreshing, RefreshScans, RefreshFails, Scan,
        ScanFails
    <3>3. CASE Handlers
      BY <3>3, <2>2, <2>6 DEF Handlers, AnnotationRequest, AnnotationSaved,
        AnnotationFails, SaveComparison, DeleteComparison, catalogVars, catalogMemory
    <3>4. CASE Importing
      BY <3>4, <2>2 DEF Importing, ImportStarts, ImportFields, ImportNotes, ImportSet,
        ImportEnds, catalogVars, catalogMemory
    <3>5. CASE Tree \/ Quiet
      BY <3>5, <2>2 DEF Tree, PreserveWrites, BundleGrows, BundleRemoved, Quiet, vars,
        catalogVars, catalogMemory
    <3> QED
      BY <2>7, <3>1, <3>2, <3>3, <3>4, <3>5 DEF Next
  <2> QED
    BY <1>1, <2>2, <2>7 DEF vars, catalogVars, catalogMemory
<1>2. [Next]_vars /\ Inv /\ Inv' => [Forward]_vars
  BY <1>1
<1> HIDE DEF Forward
<1>3. Spec => [][Forward]_vars
  BY <1>2, InvHolds, PTL DEF Spec
<1> QED
  BY <1>3 DEF EntriesMoveForward, Forward
=============================================================================
