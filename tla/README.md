# A verification project for go-iiif

go-iiif preserves IIIF manuscripts. `iiifpreserve` walks a IIIF collection,
classifies each manifest by its metadata, stores every page image of a match
with a tile pyramid and its linked resources, and serves the resulting library
to a browser together with a researcher's catalogue, comparisons and
annotations. A run takes days under the rate limits of the libraries, so the
program is built to be stopped anywhere and started again. That is what this
project is mostly about.

Run a model with `tlc -config X.cfg M` and the proofs with `tlapm M.tla`.
`PROJECT.json` lists components, runs, mutants, source map, findings, hazards
and theorems.

## 1. The system

| part | source | state it keeps | operations | interacts with | what makes it correct |
|---|---|---|---|---|---|
| discovery frontier | `internal/source/frontier.go` | one JSON file (pending and visited collections, manifests) and its copy in memory | open, yield, fetch, save, adopt | fetcher below it, journal filter above it | nothing a saved document listed is forgotten; nothing unsaved is yielded; the walk ends |
| completion journal | `internal/source/resumable.go` | append-only file of completed manifest URLs, `done` map | open (cut the torn tail), `MarkDone`, `Entries` | read by `ResumableSource`, written by `crawl` | acknowledged completions survive everything; nothing else is ever taken for one |
| pipeline | `internal/pipeline/pipeline.go` | two channels, a wait group, a context | producer, workers, closer, consumer loop | pulls the source, calls the fetcher, is ranged over by `crawl` | every item yields one result; it always ends, and all goroutines with it |
| ingest command | `cmd/iiifpreserve/main.go`, `ingest_state.go`, `ingest_failures.go` | the three files of a query, the exit status | `-fresh`, `-journal` import, crawl loop, exit status | composes all of the above with the bundle store | an unfinished manifest is never skipped; exit 0 is true; reruns finish |
| bundle preservation | `internal/preserve` (`preserve.go`, `enumerate.go`, `fetch.go`, `blobstore.go`) | per bundle: manifest, page files, pyramids, provenance | `Preserve` (first time, resume, refresh) | fetcher, blob store; read by the server | provenance commits a whole bundle; a refresh never damages the committed one |
| linked resources | `preserve/linked.go` | files under `resources/`, entries of the provenance | breadth-first walk with a bound | called by `Preserve` | bounded, best effort, keeps what it had |
| tile pyramids | `preserve/tile.go` | tiles and `info.json` | plan, render | called by `Preserve`, checked by doctor and server | every pixel at every scale is covered; `info.json` is written last |
| other sources | `source/collection.go`, `changestream.go`, `dedup.go` | visited set | recursive walk | `-dry-run`, taster | terminates; the last two are called by no command |
| polite fetcher | `source/polite.go`, `ratepolicy.go` | slots, one limiter per host | `Fetch` with retries | wraps the HTTP fetcher | slots are returned; the retry bound holds |
| HTTP fetcher and cache | `source/http.go`, `conditional.go`, `loc_manifest.go` | one record per URL | `Fetch`, conditional GET | network, cache directory | a 304 is answered with the body its validator belongs to |
| catalogue | `serve/catalog.go` | entries in memory, index file | edit, background refresh, size scan | bundle tree, request handlers | a researcher's fields are never lost |
| server, manifest cache | `serve/serve.go`, `manifest_cache.go`, `mutations.go`, `rewrite.go` | cache, library lock | handlers, shutdown | all stores | one writer per library; a cached manifest matches its bundle |
| comparisons | `serve/comparison*.go` | list, file | add, delete | handlers | capped, unique, memory equals file |
| research metadata | `serve/research_metadata.go`, `library_lock_*.go` | the stores of the library | export, import under the lock | catalogue, comparisons, annotations | import merges and loses nothing |
| doctor | `serve/doctor.go` | none | audit | bundle tree | every gap of a bundle is reported |
| annotations | `internal/annotation`, `serve/annotations.go` | one page per bundle | add, update, delete, merge | handlers, import | no lost update |
| metadata and filter | `internal/metadata`, `internal/institution` | none | extract, normalise, classify | pipeline | pure functions |

The hard behaviours: kills between any two writes of several files that
together mean something; failed saves that leave memory and disk different;
goroutines that share unbuffered channels and a context; a server that edits a
collection or a manifest between two fetches; an exit status computed from
counts; and, in the server, background work over snapshots that requests
change. `PROJECT.json` lists each at its line under "hazards".

## 2. Modules

| module | models | extends or instantiates |
|---|---|---|
| `CollectionFrontier` | frontier.go: file, memory and position of the iteration, one action per step between two durable or visible events | |
| `CompletionJournal` | what a journal promises | |
| `FileJournal` | resumable.go: lines, torn tail, synced prefix of the file | refines `CompletionJournal` |
| `ResultStream` | what `Pipeline.Run` promises | |
| `Pipeline` | runConcurrent: producer, workers, closer, consumer | refines `ResultStream` |
| `IngestLedger` | what a resumable ingest promises over all its process lives | |
| `Ingest` | run, openIngestState, migrateLegacy, crawl, exit status | extends `CollectionFrontier`, composes it with `CompletionJournal`; refines `IngestLedger` |
| `BundleSnapshot` | what the library promises of one bundle | |
| `Preserve` | Preserve, FetchImage, renderTilePyramid: the files of one bundle and the call that writes them | refines `BundleSnapshot` |
| `LinkedResources` | linked.go: the breadth-first walk with reuse, failures and the bound, and the records it commits | |
| `Doctor` | what doctor.go reports of linked resources | extends `LinkedResources` |
| `Fetching` | loc_manifest.go around polite.go around http.go and conditional.go, and the servers | |
| `Shelf` | the library as the stores see it: bundles, processes, identifiers | |
| `Catalog` | catalog.go: entries and index, edits, reloads, refreshes, sizes | extends `Shelf` |
| `Annotations` | annotation pages under the lock per bundle | extends `Shelf` |
| `Comparisons` | comparison_store.go and the checks of a selection | extends `Shelf` |
| `Library` | serve.go, mutations.go, research_metadata.go, library_lock: the serving process, its handlers and background goroutine, the importing process, the bundle tree | composes `Catalog`, `Annotations`, `Comparisons` |
| `ServedBundle` | serveManifest with manifest_cache.go, summaryFor with a refresh, both while the bundle is preserved again | |
| `TilePlan` | tile.go's plan and what the doctor expects of it | |
| `WorkFilter` | dates, field mapping and filter | |
| `PureAlgorithms` | the inputs of the last two as states | extends `TilePlan`, `WorkFilter` |
| `IngestProofs`, `FileJournalProofs`, `PipelineProofs`, `PreserveProofs`, `DoctorProofs`, `FetchingProofs`, `LibraryProofs`, `ServedBundleProofs` | theorems | extend the module they are about; `IngestProofs` is also about `CollectionFrontier`, `PipelineProofs` about `Pipeline` and `PureAlgorithms` |
| `MC*` | constants for TLC | extend the module they check |

**How they fit.** `Ingest` extends the frontier's module, whose specification
alone is `FrontierSpec`, and its actions contain the frontier's, so that every
step of `Ingest` is a step of the frontier or leaves it alone (proved:
`FrontierStep`). It uses the journal through its promise `CompletionJournal`,
which `FileJournal` is proved to implement at the level of bytes. Workers fetch and classify in one
step with the receipt of the result; `Pipeline` shows what their channels do in
between. With `Workers = 1` the source only moves while the consumer waits, as
the nested iterators of `runSequential` do. `Ingest` sees a call of `Preserve`
as `PreserveSucceeds` or `PreserveFails`; `Preserve` stores the pages,
`LinkedResources` what follows before the same provenance is written, and
`Fetching` is what either asks for a document. On the reading side `Library`
sees a bundle as an edition number and reads it in one step; `ServedBundle`
takes that step apart, one file after the other.

**Correspondence.** The variables carry the names of the code where it has
one: `state`, `emitted` (frontier.go), `done`, `recorded` for the journal's
map and file, `failures` and `failureFile` for the map and file of
`ingestFailures`. `phase` is the position in `run`, `step` the position in the
body of `crawl`'s loop, `walker` the position in `Manifests`. A variable marked
"history" in its declaration is not in the program.

*Preserve.* `manifest`, `staged`, `provenance`, `files`, `tiles` and `info`
are the files of a bundle; `incoming`, `page`, `pages` and `failed` are what a
call holds (`manifestBytes`, `i`, `prov.Images`, `sum.Failures`). An edition of
the manifest is the sequence of its images, a JPEG is one of the scans its
service may deliver, and a pyramid is the scan its tiles were cut from. The
queues of `previousByService` pair the n-th page of a service with the n-th
stored one, which is `Rank`.

*LinkedResources.* `active`, `linked` and `failures` are the manifest in force
and the two lists in `provenance.json`, `files` is `resources/`, and `walk` is
what `preserveLinkedResources` holds: `queue`, `seen`, the entries `kept` and
the URLs `failed`. A document is the set of its references; `discover` walks Go
maps, so their order, and the kind of a URL met twice, is a choice.

*Fetching.* `slots` is the semaphore's capacity, `call` the position of each
`Fetch` and what it holds (slot, attempt, cached record, body), `record` the
conditional store. A body is a URL and the version the server had, which is
what a validator identifies. A limiter grants at some time; its schedule is
left out. `derivations` is what LOCManifestFetcher remembers of the manifests
it derived from an item.

*Library.* `tree` is the edition each bundle is at (0 absent, 1 without
provenance, 2 and above committed), `entries` and `file` are the catalogue's
map and index, `refresh` the snapshot and the scan each refresher holds,
`handler` the page an annotation handler has read under its lock, `sets` and
`setsFile` the comparisons (`setsForeign`: an import wrote the file since).
`phase` is the position in `New` and `Serve`, `background` that of the goroutine `Serve` starts, `lock` is `research.lock`,
`importer` the state of `ImportResearchMetadata`. `acked`, `noted` and
`compared` are histories of what was reported as saved. `crossed` collects
races after which a loss is real (section 4); the properties state what holds
as long as none of them has happened, and they are named so that a fifth one
would show.

*ServedBundle.* Every read of a file is a step. A stamp (name, size and time of
two files) is what it identifies: the edition in the manifest file it was taken
of, and the serial number of the provenance. A localized body or an entry is
the pair of manifest and provenance it was made from.

*TilePlan, WorkFilter.* Operators over numbers and sets; a state of
`InputSpec` is one input to them, either an image or a work with a query
(`NoInput` is the one that is absent). The loops over `s` in `tilePlan` and over
the digits in `romanToInt` are the functions `Doubling` and `Tally`, by the
number of rounds. A text is what the parser recognises in it: a date is the form
that matches with its numbers, a language value its code.

**What an action is.** Everything between two points at which a kill, another
goroutine or the disk can tell a difference is one action. So `Save` ends at
the rename and `Adopt` is a separate step, and `ClearFailure` and
`MarkJournal` are separate, while reading and decoding a document is part of
`Fetch`. What the catalogue does under its mutex is one action, and so is what
a handler does between two requests for a lock.

**Left for later**, in this order: two ingest processes on one query; the
dry-run walk; the status report.

## 3. Runs

| run | question | instance |
|---|---|---|
| `collection_frontier` | does the walk keep, yield and finish what it must under kills, failures and edits? | 3 collections in a cycle, two of them with two versions, 3 manifests, one listed twice |
| `file_journal` | is nothing but a completion ever restored, and, unless a write stopped short of its record, is every acknowledged one? | 2 URLs, one a prefix of the other; at most 4 lines; disks that cut a write and disks that do not |
| `pipeline` | is every item yielded once, and does everything exit? | 3 URLs, 1 source error, 2 workers |
| `pipeline_panic` | finding | same |
| `ingest_concurrent` | is an unfinished manifest ever skipped, is work ever undiscovered, is -fresh ever taken for complete, is the ledger kept? | 2 collections (one edited), 3 manifests, former journal, 2 workers |
| `ingest_rerun` | is exit status 0 true, can anything but an import make a manifest both done and failed, do reruns finish? | the same with 1 worker; the former journal has an entry of the collection and a foreign one |
| `preserve` | is a committed bundle whole, right and stable, and is a first acquisition ever committed? | 2 services, one with two scans; editions of 1 and 2 pages, the second shifting the first; 1 damaged JPEG |
| `doctor` | is anything a manifest leads to missing without the doctor recommending a rerun, and does a record ever disappear unreported? | 4 resources (a page that leads to another, which leads back and on), 3 of them within the bound, 2 manifests, 1 lost file |
| `fetching` | is a body a version its server had while it was asked, is its derivation true, does every fetch end? | 2 calls at once and 3 in all, 1 or 2 slots, 2 attempts, a manifest and its item with 2 versions each |
| `library` | what of the edits, annotations and comparisons reported as saved is ever lost? | a bundle that grows and is deleted and one beside it, 2 annotation handlers, 4 comparisons, two of them of one name, with room for 2, 2 refreshers, an archive that lists an annotation twice; 2 processes, 2 requests, 1 change, 1 fault (a scan, a read or a write, also of a comparison or an import) |
| `served_bundle` | does a cached manifest, a sent one or a catalogue entry ever mix two editions? | 2 overlapping requests and a refresh, 2 editions, 2 commits |
| `pure_algorithms` | do tiles cover every image, and does the filter exclude only what it should? | every image up to 9 by 9 with tiles up to 3, every work of up to 2 entries |

**Why the bounds suffice.** A cycle of collections needs two, a collection
discovered by two others three. Loss, duplication and reordering in the
pipeline need two items in flight and one behind them. The ingest is not
bounded in process lives: kills, interrupts, `-fresh`, `-journal` and reruns
happen any number of times, and the state is finite because files hold sets.
`MaxLines` in `FileJournal` is four: two completions, a garbage line and a
repeated one. `-max` is the choice `ReachMax` after any result, so it covers
every value. In `Preserve` the two editions shift a page to another position
and add one before it, which is what tells ordinals, identities and refreshed
names apart; the second scan is what makes an old pyramid differ from a new
JPEG. `MaxLosses` bounds how often a JPEG becomes unreadable, `MaxPages` the
pages. Not reached with them: an edition that presents one service twice; the
theorems of `PreserveProofs` have no bound and cover it.

In `LinkedResources` calls, kills and failures are unbounded; a bound of 3 with
4 resources is reached by one manifest and not by the other. In `Fetching` two
calls suffice for a 304 that races a store, the third for one that comes after
both. In `Library` a loss needs at most a start, an import, a request and a
fault, or two requests and a refresh; each of the four races in `crossed`
happens in the run, and with any one of them allowed `NothingSavedIsLost` fails.
The constraint `OnlyCodexChanges` leaves the second bundle alone: bundles share
nothing but the index, and two are there for the comparisons.
Of the comparisons three have different names, so that without the limit the
file would exceed it; two have the same one, and after a save that failed
another can follow in the same process. Without the limit or the check of names,
in a request or in an import, and without the rollback of a request,
`ComparisonsKept` fails.
`EndsAtTotalLoss` follows a behaviour no further than a start that saw no
bundle or a write beside an import; after these nothing is promised of the
index. In `ServedBundle` a reader takes
part in at most one commit that matters between two of its reads; with two
editions and two commits there is a draft, a first commit, a refresh that keeps
the manifest and one that replaces it. In `TilePlan` a side of 9 with a tile of
3 has remainders 0, 1 and 2 at three scales; a tile of 1 pixel (`MinTileSize`)
has the most scales. Works of two entries show what a second date or origin
does to the first; `PipelineProofs` has no bound on either.

**Fairness.** `CollectionFrontier`: weak fairness of the walk only; opening,
failing and dying are the environment's. `Pipeline`: each goroutine that can
take a step eventually does, which is what the Go scheduler gives; a `select`
with two ready cases may always take the same one, so it is not strong
fairness. `Ingest`: a live process keeps running and the operator reruns an
ingest that has not reported completion, as its message asks. The liveness
property assumes, as its premise, that from some time on nothing fails and
nobody interferes, and that no foreign journal entry makes a run report
completion early (see section 4).

`Preserve`: calls are repeated and run on
(weak fairness), and a page position that is asked for again and again is
delivered on some call (strong fairness), while any single call may fail on any
page. The premise of `FirstAcquisitionCompletes` is that kills, damage and read
errors of the disk end. It says nothing of refreshes, and could not: their new
pages are not reused before the commit, so each call starts over.

`ServedBundle`: weak fairness of the refresh, which a ticker starts again and
again and which only reads files. `Fetching`: weak fairness of each call: the
client's timeout ends a request, and the waits for a limiter and a backoff are
finite. A slot is fair in the same way because every holder of one gives it
back after finitely many attempts, and calls are finitely many.

**Deadlock** is checked in every run. `Pipeline` states its final state
explicitly (`Ended`), `Library` and `Fetching` a step that changes nothing when
their bounds are used up (`Quiet`, `AllDone`).

## 4. Findings

`pipeline_panic` is a run TLC ends with a counterexample: on a cancelled
context the producer can send the context's error on `results` after the closer
has closed it.

Seen while modelling, and without a run of their own. Properties that would be
violated by them are stated with the exemption they need.

*Ingest.*
- Journal entries that are not completions of discovered manifests (left by an
  interrupted `-fresh`, or imported) are subtracted from the discovered ones,
  so they hide pending manifests from the exit status (main.go:430).
- With several workers the counts for the exit status are read while the
  producer may be replacing the frontier (frontier.go:46, main.go:429).
- `migrateLegacy` imports a completion without clearing the failure record of
  the manifest (ingest_state.go:240); the ingest can then never end with
  status 0, although main.go:432 says "rerun to resume". It happens in
  `ingest_rerun`; `OnlyImportsStick` exempts the import in its statement.
- `Run` can return while the producer is still in the source (the comment at
  pipeline.go:141 says every goroutine has exited).
- The failure record of a no-match is cleared before its completion is durable
  (SOURCE_INGESTION.md:83), and an interrupted `-fresh` can keep the failure
  record of a manifest the collection no longer lists.
- After an append that stopped half-way a process that goes on joins its next
  journal record to it (resumable.go:109; the comment at resumable.go:76-78
  excludes that). `NoPoisonedRecord` and `ImplementsJournal` hold on a disk
  that does not cut a write.

*Preserve.*
- A first acquisition that is killed and restarted from an edition with another
  page order commits JPEGs of the wrong images (preserve.go:278).
  `PagesMatchIfOneDraft` has the exemption in its name.
- A refresh that is killed fetches its new pages again (SOURCE_INGESTION.md:232
  asks for zero requests). Provenance is kept during a refresh although
  SOURCE_INGESTION.md:25 says it is invalidated first (the code and DESIGN.md
  agree with each other).
- A JPEG replaced by another scan of the same size keeps the old pyramid if the
  call is killed before the new one is finished: the old `info.json` matches.
- Linked resources: which of two kinds a URL gets that is referred to twice
  depends on the order of a Go map; one first met as `seeAlso` is not looked
  into. A stored file whose kind changed may be overwritten before the commit; if
  that call is killed and the resource fails in a later one, no digest on record
  need match the file. `CommitAccountsForAll` promises whole files of commits
  without failures only.
  The failure for the bound is reported also if the rest of the queue was seen
  before. What a record leads to that nothing refers to any more is not
  followed. `GapsAreReported` is about what the manifest leads to.

- The name of a refreshed page is made of the image and its position
  (preserve.go:417), and the pages of one service are matched in their order
  (preserve.go:253). So a refresh from an edition that presents a service twice
  may fetch the second page into the name a committed page has, and overwrite
  it before the commit. `SnapshotStands` is about refreshes without such an
  edition (`Repeats`).

*Server.*
- `newCatalog` ignores a failed scan (catalog.go:69). The catalogue is then
  empty, and the save at the end of `refreshSizes`, which is unconditional,
  erases all research from the index. `"blind start"` in `crossed`.
- `refreshSources` works on a snapshot taken before the scan; when two
  refreshes overlap the older scan may be installed last and drop an entry, and
  with it the edits made meanwhile (catalog.go:268-318). `"overlapping
  refreshes"`.
- The catalogue is read before the lock is taken (serve.go:46, :460), so an
  import in between is overwritten by the next save; `reload` leaves out bundles
  that are not in memory yet but takes the file as seen (catalog.go:342-354).
  `"unseen import"`.
- `Serve` returns as soon as `Shutdown` has begun (serve.go:457, :476-484): the
  lock is free while handlers drain, and one of them may write beside an
  import. `"handler beside import"`.
- A repeated POST of one annotation gives two of the same identifier; an update
  then reaches the first of them only, a deletion removes both.
- `newCatalog` reads a bundle's content before its stamps and does not check
  them first (viewer.go:402-428): if the first commit falls between, the entry
  of a former draft has the current stamp. `Informed` in `EntryIsCurrent`.

*Filter.*
- `-from` alone gives the range from that year to 0, which excludes every dated
  work (main.go:127, :241; main.go:154 and DESIGN.md:100-101 describe open
  ranges). `ExcludedOnlyOnData` exempts such queries in its statement
  (`FromAlone`).
- `romanToInt` takes "iiii" for 4 although date.go:37-38 says 0; "1450-60" is
  the range 60 to 1450; of several dates the last one decides.

## 5. Proofs

The theorems hold for every value of the constants under the named assumptions
of the modules, and for behaviours of any length. Each proof has the same form:
an inductive invariant that strengthens the property, one step per action, and
the property from the invariant.

**IngestProofs**, the frontier: for every set of collections and manifests and
every behaviour of the server (`Documents` gives any set of bodies per
collection; `FrontierAssumption`: the root is a collection, `None` is not a
frontier). The inductive invariant says that the file is what the memory says,
or one expansion ahead of it between `Save` and `Adopt`; that the expansion is
the one of the current document; that what is yielded and what is left to yield
partition the manifests of the memory; and that pending and visited are
disjoint. Without the first part a kill between `Save` and `Adopt` could not be
related to what was listed; without the third, `EverythingSavedIsYielded` would
not follow at `Exhausted`. Proved from it: `FrontierTypeCorrect`, `ListedIsKept`,
`SavedBeforeYielded`, `FileStaysConsistent`, `WholeFileIsYielded`, `FileGrows`.

**IngestProofs**, the ingest: for any number of process lives (`IngestAssumption`: the
manifests are finitely many, for the counts in the exit status, and there is at
least one worker). `FrontierStep` shows that each step of the ingest is a step
of the frontier or leaves it alone, which imports the invariant above. Added to
it are the place of the manifest at hand in each phase (`Placement`), that a
completion follows a disposition (`Disposal`), that the root stays pending
after a reset (`RootIsPending`), and how the failure file may differ from its
map (`FailuresFollow`). From it: `DoneIsDisposed`, `WorkIsOnFile`,
`FreshIsReread`, `FailuresOutliveRetries` and the refinement
`IngestKeepsLedger`. Two theorems need more. `ZeroIsTrue` assumes one worker
and adds that source and consumer alternate (`Lockstep`); with more workers it
is false, because the counts are read while the producer moves (section 4).
`NothingElseSticks` adds that whatever memory and disk disagree on has passed
through this process and is not in hand, and that of what is done memory holds
no failure that is not on file, since the next save would write it (`Apart`).
An import keeps that, although it makes manifests both done and failed
(section 4): then memory and file have the failure both.

**ServedBundleProofs**, for any set of requests and any number of editions and
commits (`ServedBundleAssumption`). Two orders of reading carry the argument. A
manifest request takes the stamp before the content, so what it caches under a
stamp is at least as new as the stamp; since the serial number of the
provenance only grows, a stamp that is still the bundle's present one leaves no
room for anything newer (`CacheShowsTheBundle`). Before the first commit there
is no serial number, and the edition in the root manifest, which only grows
too, plays its part. A refresh takes the stamp after the content, so this
argument fails for it; what saves it is that its stamp includes the manifest
file it has read, and that the editions named by later provenances do not go
back: manifest, pages and bundle are in this order, and a stamp that is the
bundle's makes the first equal to the last (`EntryShowsTheBundle`). The invariant therefore says, for each reader and each
position in its reads, what it knows of the provenance it has read.
`OneEditionIsSent` follows from the same parts.

**DoctorProofs**, for every finite set of resources, every set of manifests and
every bound (`LinkedResourcesAssumption`; a document of finitely many references
has them all on some queue). Everything a walk has met is taken or on its
queue; everything taken is kept or failed; and what a kept annotation refers to
has been met. At the end of a walk the queue is empty or the bound is a
failure, so without failures what is kept is closed under reference. The
commit makes that a fact about the files on disk: the records of a bundle
without failures are closed. `GapsShow` follows by comparing this closed set
with the least one, `CommitsAccount` from the kept records of each commit.

**FileJournalProofs**, for files of any length and any way a part of a record
may read (`JournalAssumption`: a garbage line is no URL, `Torn` says which lines
a part of a record may be taken for). `OnlyAttemptsAreAnswered` needs only that
opening the file cuts the tail. The rest is about a disk that does not cut a
write. There an open file ends at a newline (`EndsAtNewline`), so a record is
always a line of its own; and what was acknowledged stands among the synced
lines (`AcknowledgedIsSynced`), which are the ones a power loss leaves. Neither
is a property of a single step: the first is what `Open` restores, the second
what `MarkDone` must have done before it answers. `FileKeepsThePromise` maps
each step of the file to a step of `CompletionJournal` or to none.

**PreserveProofs**, for every set of images, services and scans, editions of any
length and any number of calls (`PreserveAssumption`: two services deliver no
scan in common; an edition is a finite sequence). The invariant says where a
call stands and what it may rely on there (`CallInv`), that the pages it has are
those of the edition so far unless one failed (`PagesFollow`), and of every
page, recorded or committed, that its file is stored, that it has an `info.json`
if it counts as tiled, and that a name made of an image is of the page's own
service (`Sound`); an `info.json` stands only beside whole tiles (`PyramidInv`).
From these follow `CommitsAreWhole` and `PyramidsShowTheirPages`. Which image a
file holds cannot be said by its page alone, because an ordinal name says
nothing: as long as one edition was acquired before the first commit, that
edition tells (`Owner`), and every stored file holds a scan of its owner
(`DraftsInv`). `PagesShowTheirImages` follows for any number of refreshes after
it, in any order. `FormerSnapshotStands` needs that two pages of an edition that
presents no service twice have two files. `BundleIsASnapshot` maps the commit to
the one step of `BundleSnapshot` and every other step to none; its lemma is that
a refresh which passes `RemovesNothing` presents each image as often.

**FetchingProofs**, for any number of calls, documents, versions, attempts and
slots (`FetchingAssumption`). While an answer is awaited the window holds the
current version, and between the answer and the return it does not change; a
record is of the URL it is kept for, also after it was damaged and fetched
again. So what a 304 confirms is the body its validator stands for
(`BodiesAreTheServers`). A derived manifest and a document are different values
and what is derived stays known (`DerivationsAreTrue`). A call holds a slot
from the limiter to the store and in the backoff, and at no other place, which
with the count of the holders gives `RequestsAreBounded`.

**LibraryProofs**, for any number of bundles, refreshers, handlers, comparisons,
processes, requests and faults (`CatalogAssumption`, `AnnotationsAssumption`,
`ComparisonsAssumption`, `LibraryAssumption`; the bounds are any numbers). What
is acknowledged is in the index; it is in a memory that could read the index and
whose index no import has replaced since; and it is in the copy of an importer
that has still to write (`ResearchInv`). It survives the installation of a
refresh because only an entry of a bundle without a whole edition can be missing
from a scan that no later one has overtaken, and such a bundle has no research
yet; this relates the stamps in memory, in the scan, in the importer's copy and
in the tree (`StampsInv`). An import keeps its copy good because it holds the
lock, and nobody without it acknowledges anything (`ProcessInv`) except a
handler that outlives it, which is one of the four races. From these follow
`SavedResearchStands` and `CatalogMovesForward`. For the annotations a handler
that has a page has the only one of its bundle, unchanged since it was read
(`HandlerInv`), and a page tells what was last saved under each identifier
(`Told`); the lemmas about `UpdateFirst`, `Delete` and `Missing`, which are
loops over a page, are proved by the smallest round that would fail
(`SmallestOf`, `LoopRuns`). `SavedComparisonsStand` is its own invariant with
the finiteness of the file;
that the next save writes what was on file follows from what memory shows,
which is the file unless an import wrote it since (`SetsSeen`).

**PipelineProofs**, the pipeline: for every set of items and any number of
workers but none (`PipelineAssumption`; without a worker the results would be
closed before the first URL is taken). The refinement needs two facts at the
moment the results are seen closed, neither of which is inductive alone. An item
is at one place at a time, and until the context is cancelled it is at some
place: with the source, in the hands of a goroutine, or with the caller
(`HeldOnce`, `NothingDropped`). And nobody leaves before its predecessor: the
closer not before the workers, a worker not before the producer has closed the
URLs, the producer not before the source is empty (`Leaving`). Together they
say that a caller who sees the end without having cancelled has everything.
`RunIsAStream` maps the yields, the stop, the cancellation and the end to the
steps of `ResultStream` and all channel operations to none.

**PipelineProofs**, the computations: for images of any size and works of any
number of entries (`InputAssumption`: `ceilDiv(MaxSide, MinTileSize)` squared is
at most the doctor's limit of 10,000,000 files a scale; a JPEG has at most 65535
pixels a side and tiles have 512, which makes 16384). A loop is a recursive
function here, and that it is defined in every round, what it bounds and what it
keeps is proved without induction, by the smallest round that would fail
(`LoopRuns`, `SmallestOf`). `Doubling` exceeds the number of its round, so some
factor fits the image in one tile, and it is the last one (`LastFactor`). The
offsets of a side are the multiples of the step below its length
(`OffsetsAre`), which is what the doctor enumerates and the plan counts up; a
pixel is in exactly the piece that starts at the last of them before it
(`CoveredOnce`). So the tiles partition the image, the last scale is one tile
and doctor and plan name the same files (`PyramidsAreComplete`). The range of a
date is the set of years its form denotes, is never empty and does not end
before the year 0 (`DateIsItsYears`), also for a Roman numeral that is not well
formed; so a range that does not meet the one asked for has no year between the
bounds given, unless only the lower one was. From it follow
`DatesDecideByYears` and, with the entry each part of a work's record is
taken from (`RecordOfWork`), `OnlyDataExcludes`.

**Only model-checked.** Liveness (`WalkEnds`, `EventuallyOver`,
`EventuallyComplete`, `FirstAcquisitionCompletes`, `EntryCatchesUp`,
`EveryFetchEnds`): fairness and ENABLED are out of the prover's reach. Every
other property of a passing run is a theorem.

## 6. Not modelled

- `-dry-run` and the taster: they open no state and write none, and walk the
  collection with `collection.go`, whose visited set is kept nowhere.
- `changestream.go` and `dedup.go`: no command uses them.
- The status report, which reads the three files of a query without a lock.
- A broken standard output makes `crawl` stop before the result is counted; for
  the files this is a kill at that point, which is modelled.
- Two ingest processes on one query at the same time: nothing in the code
  prevents it, and the three files would be overwritten by either.
- Power loss for the frontier and failure files and in a bundle, whose files
  are renamed into place without an fsync; a provenance that does not parse
  counts as none. `FileJournal` models power loss for the journal, whose code
  claims durability. `Preserve` has kills and unreadable JPEGs.
- The license in `Preserve`; a stored manifest that cannot be read; a manifest
  without images, which is committed as an empty bundle. Two bundles whose
  names map to one directory.
- Scaling and coding of tiles; coercion of JSON values to text and the table of
  language names in front of the filter.
- When a limiter grants: its rates. URL policy, size limits and user agents,
  which make a call fail, as the model's failures do.
- Pages, and the rewriting of manifests for display; export and dry runs of
  research metadata; they change no state. Checks of the doctor that read one
  file each.
- Order of URL lists, URL normalisation, JSON layout, messages, flags.
- The components marked `not_modelled` or `partly` in `PROJECT.json`, with the
  reason there.
