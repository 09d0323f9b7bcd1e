------------------------------ MODULE Preserve ------------------------------
(***************************************************************************)
(* The preservation of one bundle over any number of calls (internal/      *)
(* preserve: Preserve, FetchImage, renderTilePyramid, LocalBlobStore): the *)
(* first acquisition, its restarts, and the refreshes of a committed       *)
(* bundle from later editions of the manifest.                             *)
(*                                                                         *)
(* Every Put is one atomic rename, so each is a step of its own and a call *)
(* may be killed between any two.  The provenance is read at the start and *)
(* written by nobody else; the model reads it where the code reads its     *)
(* copy.  A cancelled context ends a call as a kill does.  Linked          *)
(* resources and the license never decide what happens here.               *)
(***************************************************************************)
EXTENDS Naturals, FiniteSets, Sequences

CONSTANTS
  Image,      \* an image of a canvas: a service identifier and a canvas
  Service,    \* image services
  ServiceOf,  \* the service of an image
  Editions,   \* the manifests the library may serve, as sequences of images
  Scans,      \* what each service may deliver for its image, now or later
  Size,       \* dimensions, all that info.json says of a page
  SizeOf,     \* the dimensions of a scan
  MaxLosses,  \* bounds the JPEGs that become unreadable
  MaxPages,   \* bounds the pages of an edition
  Mixed,      \* tiles of several scans, or not all of them
  None

Scan     == UNION {Scans[s] : s \in Service}
Position == 1..MaxPages
File     == (Image \cup {None}) \X Position
Page     == [file : File, image : Image, tiled : BOOLEAN]
At       == {"idle", "manifest", "page", "tiles", "stage", "commit"}

Provenance == [manifest : Editions \cup {None}, pages : Seq(Page)]

ASSUME PreserveAssumption ==
  /\ ServiceOf \in [Image -> Service]
  /\ MaxPages \in Nat
  /\ Editions \subseteq Seq(Image)
  /\ \A edition \in Editions : Len(edition) <= MaxPages
  /\ \A s, t \in Service : s # t => Scans[s] \cap Scans[t] = {}
  /\ SizeOf \in [Scan -> Size]
  /\ None \notin Image \cup Editions \cup Scan
  /\ None \notin Size
  /\ None \notin Provenance
  /\ Mixed \notin Scan \cup {None}
  /\ MaxLosses \in Nat

VARIABLES
  manifest,    \* the edition in manifest.json
  staged,      \* the editions under manifest-versions/
  provenance,  \* provenance.json: which of them is active, and the pages
  files,       \* the JPEG under each name
  damaged,     \* the JPEGs that are no longer readable
  tiles,       \* the scan the tiles beside a JPEG were cut from
  info,        \* the dimensions in the info.json beside a JPEG
  at,          \* where the call stands
  incoming,    \* the manifest it preserves
  page,        \* the page it is at
  pages,       \* prov.Images: the pages it has so far
  failed,      \* sum.Failures is not empty
  drafts,      \* history: editions acquired before the first commit
  replaced,    \* history: JPEGs replaced by another scan
  losses       \* history: how often a JPEG became unreadable

store   == <<manifest, staged, provenance, files, damaged, tiles, info>>
call    == <<at, incoming, page, pages, failed>>
history == <<drafts, replaced, losses>>
vars    == <<store, call, history>>

Init ==
  /\ manifest = None
  /\ staged = {}
  /\ provenance = None
  /\ files = [f \in File |-> None]
  /\ damaged = {}
  /\ tiles = [f \in File |-> None]
  /\ info = [f \in File |-> None]
  /\ at = "idle"
  /\ incoming = <<>>
  /\ page = 1
  /\ pages = <<>>
  /\ failed = FALSE
  /\ drafts = {}
  /\ replaced = {}
  /\ losses = 0

-----------------------------------------------------------------------------
(* Which stored page an incoming one is.                                   *)

HadCommitted == provenance # None

Images(ps) == [i \in DOMAIN ps |-> ps[i].image]

Previous == IF HadCommitted THEN provenance.pages ELSE <<>>

Active ==
  IF provenance.manifest = None THEN manifest ELSE provenance.manifest

\* Pages of one service are matched first to first, second to second.
Rank(edition, i) ==
  Cardinality({j \in 1..i : ServiceOf[edition[j]] = ServiceOf[edition[i]]})

SamePage(edition, i, former, j) ==
  /\ ServiceOf[edition[i]] = ServiceOf[former[j]]
  /\ Rank(edition, i) = Rank(former, j)

Matches(i) ==
  {j \in DOMAIN Previous : SamePage(incoming, i, Images(Previous), j)}

IdentityMatch(i) == Matches(i) # {}

Ordinal(i) == <<None, i>>

RefreshedName(i) == <<incoming[i], i>>

\* Mutant of FileOf: a refresh numbers its new pages like a first run.
FileOfOrdinal(i) ==
  IF IdentityMatch(i)
  THEN Previous[CHOOSE j \in Matches(i) : TRUE].file
  ELSE Ordinal(i)

FileOf(i) ==
  CASE IdentityMatch(i) -> Previous[CHOOSE j \in Matches(i) : TRUE].file
    [] ~IdentityMatch(i) /\ HadCommitted -> RefreshedName(i)
    [] OTHER -> Ordinal(i)

Stored(f) == files[f] # None

\* Mutant of Reusable: only a committed page is ever reused.
ReusableIfCommitted(i) ==
  /\ Stored(FileOf(i))
  /\ IdentityMatch(i)
  /\ FileOf(i) \notin damaged

Reusable(i) ==
  /\ Stored(FileOf(i))
  /\ IdentityMatch(i) \/ ~HadCommitted
  /\ FileOf(i) \notin damaged

PyramidComplete(f) == info[f] = SizeOf[files[f]]

-----------------------------------------------------------------------------
(* A call.                                                                 *)

EndCall ==
  /\ at' = "idle"
  /\ incoming' = <<>>
  /\ page' = 1
  /\ pages' = <<>>
  /\ failed' = FALSE

RemovesNothing(edition) ==
  \A j \in DOMAIN Previous :
    \E i \in DOMAIN edition : SamePage(edition, i, Images(Previous), j)

\* Mutant of Start: a refresh may drop committed images.
StartUnchecked(edition) ==
  /\ at = "idle"
  /\ incoming' = edition
  /\ at' = IF HadCommitted THEN "page" ELSE "manifest"
  /\ UNCHANGED <<store, page, pages, failed, history>>

\* Mutant of Start: a refresh stores its manifest as a first run does.
StartStoringManifest(edition) ==
  /\ at = "idle"
  /\ RemovesNothing(edition)
  /\ incoming' = edition
  /\ at' = "manifest"
  /\ UNCHANGED <<store, page, pages, failed, history>>

\* An edition that misses a committed image is refused and changes nothing.
Start(edition) ==
  /\ at = "idle"
  /\ RemovesNothing(edition)
  /\ incoming' = edition
  /\ at' = IF HadCommitted THEN "page" ELSE "manifest"
  /\ UNCHANGED <<store, page, pages, failed, history>>

PutManifest ==
  /\ at = "manifest"
  /\ manifest' = incoming
  /\ drafts' = drafts \cup {incoming}
  /\ at' = "page"
  /\ UNCHANGED <<staged, provenance, files, damaged, tiles, info, incoming,
                 page, pages, failed, replaced, losses>>

AtPage == at = "page" /\ page <= Len(incoming)

\* The page is in the bundle, with or without a pyramid; on to the next.
Record(tiled) ==
  /\ pages' = Append(pages, [file |-> FileOf(page),
                             image |-> incoming[page],
                             tiled |-> tiled])
  /\ page' = page + 1
  /\ at' = "page"
  /\ UNCHANGED <<incoming, failed>>

Skip ==
  /\ AtPage
  /\ Reusable(page)
  /\ PyramidComplete(FileOf(page))
  /\ Record(TRUE)
  /\ UNCHANGED <<store, history>>

Repair ==
  /\ AtPage
  /\ Reusable(page)
  /\ ~PyramidComplete(FileOf(page))
  /\ at' = "tiles"
  /\ UNCHANGED <<store, incoming, page, pages, failed, history>>

\* The service delivers one of its scans and the JPEG is renamed into place.
StorePage(scan) ==
  /\ AtPage
  /\ ~Reusable(page)
  /\ scan \in Scans[ServiceOf[incoming[page]]]
  /\ LET f == FileOf(page)
     IN /\ files' = [files EXCEPT ![f] = scan]
        /\ damaged' = damaged \ {f}
        /\ replaced' = IF files[f] \in {None, scan}
                       THEN replaced ELSE replaced \cup {f}
  /\ at' = "tiles"
  /\ UNCHANGED <<manifest, staged, provenance, tiles, info, incoming, page,
                 pages, failed, drafts, losses>>

\* No variant delivers a JPEG after all retries, or one of the lookups
\* before it or the Put after it fails.
FetchFails ==
  /\ AtPage
  /\ ~Reusable(page)
  /\ failed' = TRUE
  /\ page' = page + 1
  /\ UNCHANGED <<store, at, incoming, pages, history>>

\* A JPEG that could be reused cannot be looked up or read now.
ReadFails ==
  /\ AtPage
  /\ Reusable(page)
  /\ failed' = TRUE
  /\ page' = page + 1
  /\ UNCHANGED <<store, at, incoming, pages, history>>

\* Mutant of PutTile: info.json is written before the tiles.
PutTileAfterInfo ==
  /\ at = "tiles"
  /\ LET f == FileOf(page)
     IN /\ tiles[f] \notin {files[f], Mixed}
        /\ tiles' = [tiles EXCEPT ![f] = Mixed]
        /\ info' = [info EXCEPT ![f] = SizeOf[files[f]]]
  /\ UNCHANGED <<manifest, staged, provenance, files, damaged, call, history>>

\* Tiles are put one by one over what is there.
PutTile ==
  /\ at = "tiles"
  /\ LET f == FileOf(page)
     IN /\ tiles[f] \notin {files[f], Mixed}
        /\ tiles' = [tiles EXCEPT ![f] = Mixed]
  /\ UNCHANGED <<manifest, staged, provenance, files, damaged, info, call,
                 history>>

\* The last tile, then info.json: without it, whole tiles count as some.
PutInfo ==
  /\ at = "tiles"
  /\ LET f == FileOf(page)
     IN /\ tiles' = [tiles EXCEPT ![f] = files[f]]
        /\ info' = [info EXCEPT ![f] = SizeOf[files[f]]]
  /\ Record(TRUE)
  /\ UNCHANGED <<manifest, staged, provenance, files, damaged, history>>

\* The flat JPEG is enough: a failed pyramid does not fail the page.
TilingFails ==
  /\ at = "tiles"
  /\ Record(FALSE)
  /\ UNCHANGED <<store, history>>

PagesDone == at = "page" /\ page > Len(incoming)

Incomplete ==
  /\ PagesDone
  /\ failed
  /\ EndCall
  /\ UNCHANGED <<store, history>>

\* Mutant of AllStored: the refreshed manifest is not staged.
AllStoredUnstaged ==
  /\ PagesDone
  /\ ~failed
  /\ at' = "commit"
  /\ UNCHANGED <<store, incoming, page, pages, failed, history>>

AllStored ==
  /\ PagesDone
  /\ ~failed
  /\ at' = IF HadCommitted /\ Active # incoming THEN "stage" ELSE "commit"
  /\ UNCHANGED <<store, incoming, page, pages, failed, history>>

Stage ==
  /\ at = "stage"
  /\ staged' = staged \cup {incoming}
  /\ at' = "commit"
  /\ UNCHANGED <<manifest, provenance, files, damaged, tiles, info, incoming,
                 page, pages, failed, history>>

ManifestFile ==
  CASE ~HadCommitted -> None
    [] HadCommitted /\ Active = incoming -> provenance.manifest
    [] OTHER -> incoming

Commit ==
  /\ at = "commit"
  /\ provenance' = [manifest |-> ManifestFile, pages |-> pages]
  /\ EndCall
  /\ UNCHANGED <<manifest, staged, files, damaged, tiles, info, history>>

\* Killed or cancelled, or one of the Puts that end the call fails.
Killed ==
  /\ at # "idle"
  /\ EndCall
  /\ UNCHANGED <<store, history>>

\* The file system loses a stored JPEG: it is there but unreadable.
Damage(f) ==
  /\ Stored(f)
  /\ f \notin damaged
  /\ losses < MaxLosses
  /\ losses' = losses + 1
  /\ damaged' = damaged \cup {f}
  /\ UNCHANGED <<manifest, staged, provenance, files, tiles, info, call,
                 drafts, replaced>>

Step ==
  \/ PutManifest
  \/ Skip \/ Repair
  \/ \E scan \in Scan : StorePage(scan)
  \/ PutTile \/ PutInfo \/ TilingFails
  \/ Incomplete \/ AllStored \/ Stage \/ Commit

Next ==
  \/ \E edition \in Editions : Start(edition)
  \/ Step
  \/ FetchFails \/ ReadFails
  \/ Killed
  \/ \E f \in File : Damage(f)

Spec == Init /\ [][Next]_vars

-----------------------------------------------------------------------------
(* Fairness: the operator calls again and a call goes on by itself.  Every *)
(* page number that is asked for again and again is delivered in the end,  *)
(* on some call; which calls fail is left open.                            *)

Fairness ==
  /\ WF_vars((\E edition \in Editions : Start(edition)) \/ Step \/ FetchFails)
  /\ \A i \in Position :
       SF_vars(at = "page" /\ page = i /\ \E scan \in Scan : StorePage(scan))

FairSpec == Spec /\ Fairness

-----------------------------------------------------------------------------
(* Properties.                                                             *)

TypeOK ==
  /\ manifest \in Editions \cup {None}
  /\ staged \subseteq Editions
  /\ provenance \in Provenance \cup {None}
  /\ files \in [File -> Scan \cup {None}]
  /\ damaged \subseteq {f \in File : Stored(f)}
  /\ tiles \in [File -> Scan \cup {None, Mixed}]
  /\ info \in [File -> Size \cup {None}]
  /\ at \in At
  /\ incoming \in Editions \cup {<<>>}
  /\ page \in 1..(Len(incoming) + 1)
  /\ pages \in Seq(Page)
  /\ Len(pages) < page
  /\ failed \in BOOLEAN
  /\ drafts \subseteq Editions
  /\ replaced \subseteq File
  /\ losses \in 0..MaxLosses

\* Whatever was killed or failed, committed provenance names a manifest that
\* is stored, one page for each of its images, in its order, and a JPEG that
\* exists for each of them (preserve.go:217-221 and 356-398).
CommittedIsWhole ==
  HadCommitted =>
    /\ Active = manifest \/ Active \in staged
    /\ Images(provenance.pages) = Active
    /\ \A i \in DOMAIN Active : Stored(provenance.pages[i].file)

\* The JPEG of every committed page came from the service of its image.
PagesMatch ==
  HadCommitted =>
    \A i \in DOMAIN provenance.pages :
      LET p == provenance.pages[i]
      IN files[p.file] \in Scans[ServiceOf[p.image]]

\* If the library served one edition until the first commit, every committed
\* page shows its own image for ever after, through any refreshes that
\* reorder, add or repeat images (preserve.go:252-268: reuse by service,
\* ordinals before the commit, names by content after it).
PagesMatchIfOneDraft == Cardinality(drafts) <= 1 => PagesMatch

\* A page with a committed pyramid whose JPEG was never replaced by another
\* scan has all its tiles, cut from that JPEG: info.json marks a finished
\* pyramid although tiles are put one by one (preserve.go:448-451).
PyramidShowsPage ==
  HadCommitted =>
    \A i \in DOMAIN provenance.pages :
      LET p == provenance.pages[i]
      IN p.tiled /\ p.file \notin replaced => tiles[p.file] = files[p.file]

Repeats(edition) ==
  \E i, j \in DOMAIN edition :
    i # j /\ ServiceOf[edition[i]] = ServiceOf[edition[j]]

\* Until the next commit the former manifest and its readable pages stay as
\* they are, byte for byte, while a refresh runs, fails or is killed
\* (preserve.go:214-217), as long as the refresh presents no service twice: the
\* second page of a service may get the name a committed page of it has.
SnapshotStands ==
  [][HadCommitted /\ provenance' = provenance =>
       /\ manifest' = manifest
       /\ staged \subseteq staged'
       /\ \A i \in DOMAIN provenance.pages :
            LET f == provenance.pages[i].file
            IN f \notin damaged /\ ~Repeats(incoming) => files'[f] = files[f]]_vars

Snapshot == INSTANCE BundleSnapshot WITH
  committed <- IF HadCommitted THEN Images(provenance.pages) ELSE None

\* The bundle shows nothing or a whole edition, and a later edition only if
\* it presents every image of the former (preserve.go:198-213).
ImplementsSnapshot == Snapshot!Spec

\* The end of an incomplete call looks like a kill but is none.
Disturbance == (Killed /\ ~Incomplete) \/ ReadFails \/ \E f \in File : Damage(f)

\* A first acquisition is committed at last although every single call may
\* fail on some page: stored pages of failed calls are kept and reused
\* (ErrIncomplete, preserve.go:33-36).
FirstAcquisitionCompletes ==
  <>[][~Disturbance]_vars => <>HadCommitted
=============================================================================
