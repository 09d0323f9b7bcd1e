---------------------------- MODULE ServedBundle ----------------------------
(***************************************************************************)
(* A bundle that is read while it is preserved again (internal/serve):     *)
(* serveManifest with its cache of localized manifests, and summaryFor     *)
(* with the refresh that asks for it.  Every read of a file is a step, so  *)
(* a commit may fall between any two.                                      *)
(*                                                                         *)
(* The bundle is what BundleSnapshot promises of it: manifest.json may be  *)
(* replaced until the first provenance is written, a later edition has a   *)
(* file of its own, and the provenance names it.  A stamp is what it       *)
(* identifies: the edition in the manifest file it was taken of, and the   *)
(* provenance.  A body is localized from one manifest and one provenance.  *)
(***************************************************************************)
EXTENDS Naturals

CONSTANTS
  Request,     \* requests for the manifest that may overlap
  MaxEdition,  \* bounds the editions the bundle ever shows
  MaxCommits   \* bounds the provenances written

ASSUME ServedBundleAssumption ==
  MaxEdition \in Nat \ {0} /\ MaxCommits \in Nat

VARIABLES
  root,      \* the edition in manifest.json
  newest,    \* the last edition any manifest file holds
  commit,    \* provenance.json: its serial number, zero if there is none
  active,    \* the edition whose file it names
  request,   \* where each request stands, and what it has read
  cache,     \* manifestCache: one base URL
  summary,   \* where the reading of a summary stands, and what it has read
  entry      \* the bundle in the catalogue

bundle == <<root, newest, commit, active>>
vars   == <<bundle, request, cache, summary, entry>>

None == 0

\* The manifest file a provenance selects, and what it holds.
Selected(serial, edition) == IF serial = None THEN root ELSE edition

CurrentStamp == <<Selected(commit, active), commit>>

\* What a reader has so far: the provenance and the manifest it read, the
\* provenance read for the pages, the stamp.
Nothing ==
  [at |-> "idle", serial |-> None, names |-> None, manifest |-> None,
   pages |-> None, stamp |-> <<None, None>>]

NoBody ==
  [serial |-> None, manifest |-> None, pages |-> None, stamp |-> <<None, None>>]

Body(read, stamp) ==
  [serial |-> read.serial, manifest |-> read.manifest, pages |-> read.pages,
   stamp |-> stamp]

Init ==
  /\ root = 1
  /\ newest = 1
  /\ commit = None
  /\ active = None
  /\ request = [r \in Request |-> Nothing]
  /\ cache = NoBody
  /\ summary = Nothing
  /\ entry = NoBody

-----------------------------------------------------------------------------
(* Preserve.                                                               *)

\* A restarted first acquisition replaces manifest.json.
Draft ==
  /\ commit = None
  /\ newest < MaxEdition
  /\ newest' = newest + 1
  /\ root' = newest'
  /\ UNCHANGED <<commit, active, request, cache, summary, entry>>

\* The first commit names what is in manifest.json; a later one the same
\* manifest again or one stored beside it.
Commit(edition) ==
  /\ commit < MaxCommits
  /\ edition \in IF commit = None THEN {root} ELSE {active, newest + 1}
  /\ edition <= MaxEdition
  /\ commit' = commit + 1
  /\ active' = edition
  /\ newest' = IF edition > newest THEN edition ELSE newest
  /\ UNCHANGED <<root, request, cache, summary, entry>>

-----------------------------------------------------------------------------
(* serveManifest: the stamp, the cache, then the content.                  *)

Reads(r, from, to, read) ==
  /\ request[r].at = from
  /\ request' = [request EXCEPT ![r] = [read EXCEPT !.at = to]]
  /\ UNCHANGED <<bundle, cache, summary, entry>>

\* activeManifestStamp: which manifest, its stamp, the provenance's stamp.
StampSelects(r) ==
  Reads(r, "idle", "stamp manifest",
        [Nothing EXCEPT !.serial = commit, !.names = active])

StampsManifest(r) ==
  Reads(r, "stamp manifest", "stamp provenance",
        [request[r] EXCEPT
           !.stamp = <<Selected(request[r].serial, request[r].names), None>>])

StampsProvenance(r) ==
  Reads(r, "stamp provenance", "lookup",
        [Nothing EXCEPT !.stamp = <<request[r].stamp[1], commit>>])

Hit(r) ==
  /\ cache # NoBody /\ cache.stamp = request[r].stamp
  /\ Reads(r, "lookup", "send",
           [Nothing EXCEPT !.manifest = cache.manifest, !.pages = cache.pages])

\* activeManifest: the provenance, then the manifest it selects.
Misses(r) ==
  /\ cache = NoBody \/ cache.stamp # request[r].stamp
  /\ Reads(r, "lookup", "read manifest",
           [request[r] EXCEPT !.serial = commit, !.names = active])

\* Mutant of ReadsManifest: the version a provenance names is not followed.
ReadsRoot(r) ==
  Reads(r, "read manifest", "put",
        [Nothing EXCEPT !.manifest = root, !.pages = request[r].names,
                        !.stamp = request[r].stamp])

ReadsManifest(r) ==
  Reads(r, "read manifest", "put",
        [Nothing EXCEPT
           !.manifest = Selected(request[r].serial, request[r].names),
           !.pages = request[r].names,
           !.stamp = request[r].stamp])

\* Mutant of Puts: the stamp is taken after the content was read.
PutsStamping(r) ==
  /\ request[r].at = "put"
  /\ request' = [request EXCEPT ![r].at = "send",
                                ![r].stamp = <<None, None>>]
  /\ cache' = Body(request[r], CurrentStamp)
  /\ UNCHANGED <<bundle, summary, entry>>

Puts(r) ==
  /\ request[r].at = "put"
  /\ request' = [request EXCEPT ![r].at = "send",
                                ![r].stamp = <<None, None>>]
  /\ cache' = Body(request[r], request[r].stamp)
  /\ UNCHANGED <<bundle, summary, entry>>

Sends(r) == Reads(r, "send", "idle", Nothing)

-----------------------------------------------------------------------------
(* The catalogue's entry: newCatalog reads every bundle, refreshSources    *)
(* one whose stamp has changed; summaryFor reads content, then stamps.     *)

Summarises(from, to, read) ==
  /\ summary.at = from
  /\ summary' = [read EXCEPT !.at = to]
  /\ UNCHANGED <<bundle, request, cache, entry>>

\* newCatalog asks for no stamp before.
Opens ==
  /\ entry = NoBody
  /\ Summarises("idle", "manifest",
                [Nothing EXCEPT !.serial = commit, !.names = active])

\* Mutant of NoticesChange: an entry is read once.
NoticesNew ==
  /\ commit # None
  /\ entry = NoBody
  /\ Summarises("idle", "provenance", Nothing)

\* The stamp of the bundle differs from its entry's, and it has provenance.
NoticesChange ==
  /\ commit # None
  /\ entry.stamp # CurrentStamp
  /\ Summarises("idle", "provenance", Nothing)

SummaryReadsProvenance ==
  Summarises("provenance", "manifest",
             [summary EXCEPT !.serial = commit, !.names = active])

SummaryReadsManifest ==
  Summarises("manifest", "pages",
             [summary EXCEPT
                !.manifest = Selected(summary.serial, summary.names)])

SummaryReadsPages ==
  Summarises("pages", "stamp manifest", [summary EXCEPT !.pages = active])

SummaryStampsManifest ==
  Summarises("stamp manifest", "stamp provenance",
             [summary EXCEPT
                !.stamp = <<Selected(summary.serial, summary.names), None>>])

\* Mutant of SummaryDone: the stamp is the bundle's, not what was read.
SummaryDoneRestamped ==
  /\ summary.at = "stamp provenance"
  /\ entry' = Body(summary, CurrentStamp)
  /\ summary' = Nothing
  /\ UNCHANGED <<bundle, request, cache>>

\* A bundle without provenance gets no entry.
SummaryDone ==
  /\ summary.at = "stamp provenance"
  /\ entry' = IF commit = None THEN entry
              ELSE Body(summary, <<summary.stamp[1], commit>>)
  /\ summary' = Nothing
  /\ UNCHANGED <<bundle, request, cache>>

-----------------------------------------------------------------------------

Preserving == Draft \/ \E edition \in 1..MaxEdition : Commit(edition)

Serving == \E r \in Request :
  \/ StampSelects(r) \/ StampsManifest(r) \/ StampsProvenance(r)
  \/ Hit(r) \/ Misses(r) \/ ReadsManifest(r) \/ Puts(r) \/ Sends(r)

Summarising ==
  \/ NoticesChange \/ SummaryReadsProvenance \/ SummaryReadsManifest
  \/ SummaryReadsPages \/ SummaryStampsManifest \/ SummaryDone

Next == Preserving \/ Serving \/ Opens \/ Summarising

Spec == Init /\ [][Next]_vars

\* The ticker fires again and again, and a refresh takes its time only.
FairSpec == Spec /\ WF_vars(Summarising)

-----------------------------------------------------------------------------
(* Properties.                                                             *)

\* manifest_cache.go:10-12: a cached body whose stamp is the bundle's stamp
\* is what the bundle shows, whatever was committed while it was made.
CacheIsCurrent ==
  cache # NoBody /\ cache.stamp = CurrentStamp =>
    /\ cache.manifest = Selected(commit, active)
    /\ cache.pages = active

\* rewrite.go:38-40: a manifest is sent with the pages of its own provenance,
\* or as it came from the library while there is none.
BodyIsOneEdition ==
  \A r \in Request :
    request[r].at = "send" => request[r].pages \in {None, request[r].manifest}

\* viewer.go:395-397: a catalogue entry with the bundle's stamp shows the
\* bundle's manifest and the pages of its provenance, if it was read from a
\* bundle with provenance.  newCatalog reads others too: a first commit that
\* falls into that reading leaves an entry of a former draft, or without
\* pages and source, under the stamp of the bundle.
Informed == entry.serial # None

EntryIsCurrent ==
  Informed /\ entry.stamp = CurrentStamp =>
    /\ entry.manifest = Selected(commit, active)
    /\ entry.pages = active

\* catalog.go:400-401: once nothing is committed any more, the entry gets to
\* the bundle's manifest and keeps it, except where a misread one has the
\* bundle's stamp.
EntryCatchesUp ==
  <>[](commit # None => \/ entry.manifest = Selected(commit, active)
                        \/ ~Informed /\ entry.stamp = CurrentStamp)
=============================================================================
