--------------------------- MODULE PreserveProofs ---------------------------
(***************************************************************************)
(* Proofs about the preservation of a bundle, for every set of images,     *)
(* services and scans, editions of any length, and any number of calls,    *)
(* kills and unreadable files.                                             *)
(*                                                                         *)
(* The argument: every page a call has recorded has a JPEG, an info.json   *)
(* if its pyramid counts as made, and, in a name made of an image, an      *)
(* image of its own service.  So a file tells the service it belongs to,   *)
(* by its name or, before the first commit, by its place in the one        *)
(* edition acquired; and the pages of a call follow its edition unless     *)
(* one failed.                                                             *)
(***************************************************************************)
EXTENDS Preserve, FiniteSetTheorems, WellFoundedInduction, TLAPS

\* What a call knows at each of its places.
CallInv ==
  /\ at = "idle" =>
       incoming = <<>> /\ page = 1 /\ pages = <<>> /\ failed = FALSE
  /\ at # "idle" => incoming \in Editions
  /\ at = "manifest" =>
       ~HadCommitted /\ page = 1 /\ pages = <<>> /\ failed = FALSE
  /\ at \notin {"idle", "manifest"} /\ ~HadCommitted => manifest = incoming
  /\ at = "tiles" => page <= Len(incoming) /\ Stored(FileOf(page))
  /\ at \in {"stage", "commit"} => ~failed /\ page = Len(incoming) + 1
  /\ at = "stage" => HadCommitted
  /\ at = "commit" /\ HadCommitted => Active = incoming \/ incoming \in staged
  /\ at # "idle" /\ HadCommitted => RemovesNothing(incoming)

\* Without a failure a call has a page for each image so far.
PagesFollow ==
  ~failed =>
    /\ Len(pages) = page - 1
    /\ \A i \in DOMAIN pages : pages[i].image = incoming[i]

\* What a recorded page can rely on.
Sound(p) ==
  /\ Stored(p.file)
  /\ p.tiled => info[p.file] # None
  /\ p.file[1] # None => ServiceOf[p.file[1]] = ServiceOf[p.image]

AllSound(ps) == \A i \in DOMAIN ps : Sound(ps[i])

\* info.json stands beside whole tiles of the JPEG, and never without one.
PyramidInv ==
  \A f \in File :
    /\ ~Stored(f) => info[f] = None
    /\ info[f] # None /\ f \notin replaced => tiles[f] = files[f]

Owner(draft, f) == ServiceOf[IF f[1] = None THEN draft[f[2]] ELSE f[1]]

\* Each page has a file of the service of its image.
Owned(draft, ps) ==
  \A i \in DOMAIN ps : Owner(draft, ps[i].file) = ServiceOf[ps[i].image]

\* With one draft, every stored file holds a scan of its owner.
DraftsInv ==
  /\ IsFiniteSet(drafts)
  /\ at \notin {"idle", "manifest"} /\ ~HadCommitted => incoming \in drafts
  /\ drafts = {} =>
       /\ ~HadCommitted /\ at \in {"idle", "manifest"}
       /\ \A f \in File : ~Stored(f)
  /\ \A draft \in drafts : drafts = {draft} =>
       /\ \A f \in File : Stored(f) => files[f] \in Scans[Owner(draft, f)]
       /\ Owned(draft, pages)
       /\ Owned(draft, Previous)

Inv ==
  /\ TypeOK
  /\ CallInv
  /\ PagesFollow
  /\ AllSound(pages)
  /\ AllSound(Previous)
  /\ PyramidInv
  /\ DraftsInv
  /\ CommittedIsWhole

-----------------------------------------------------------------------------
(* The file of a page.                                                     *)

LEMMA PreviousPages ==
  ASSUME TypeOK
  PROVE  /\ Previous \in Seq(Page)
         /\ HadCommitted =>
              Previous = provenance.pages /\ provenance.pages \in Seq(Page)
         /\ \A j \in DOMAIN Previous : HadCommitted /\ Previous[j] \in Page
<1>1. CASE HadCommitted
  BY <1>1 DEF TypeOK, Provenance, HadCommitted, Previous
<1>2. CASE ~HadCommitted
  BY <1>2 DEF Previous
<1> QED
  BY <1>1, <1>2

LEMMA SameFile ==
  ASSUME UNCHANGED <<incoming, page, provenance>>
  PROVE  /\ FileOf(page)' = FileOf(page)
         /\ Previous' = Previous
         /\ HadCommitted' = HadCommitted
<1>1. Previous' = Previous /\ HadCommitted' = HadCommitted
  BY DEF Previous, HadCommitted
<1>2. Matches(page)' = Matches(page)
  BY <1>1 DEF Matches, SamePage, Rank, Images
<1> QED
  BY <1>1, <1>2 DEF FileOf, IdentityMatch, RefreshedName, Ordinal

LEMMA PageInRange ==
  ASSUME PreserveAssumption, Inv, at # "idle", page <= Len(incoming)
  PROVE  /\ page \in DOMAIN incoming
         /\ incoming \in Seq(Image)
         /\ incoming[page] \in Image
         /\ page \in Position
         /\ None \notin Image
<1>1. incoming \in Editions
  BY DEF Inv, CallInv
<1>2. incoming \in Seq(Image) /\ Len(incoming) <= MaxPages
  BY <1>1 DEF PreserveAssumption
<1>3. page \in 1..Len(incoming)
  BY <1>2 DEF Inv, TypeOK
<1> QED
  BY <1>2, <1>3 DEF PreserveAssumption, Position

LEMMA FileOfPage ==
  ASSUME PreserveAssumption, Inv, at # "idle", page <= Len(incoming)
  PROVE  /\ FileOf(page) \in File
         /\ IdentityMatch(page) =>
              \E j \in DOMAIN Previous :
                /\ SamePage(incoming, page, Images(Previous), j)
                /\ FileOf(page) = Previous[j].file
                /\ ServiceOf[incoming[page]] = ServiceOf[Previous[j].image]
         /\ ~IdentityMatch(page) /\ HadCommitted =>
              FileOf(page) = <<incoming[page], page>>
         /\ ~HadCommitted =>
              ~IdentityMatch(page) /\ FileOf(page) = <<None, page>>
<1>1. CASE IdentityMatch(page)
  <2>1. PICK j \in DOMAIN Previous :
          /\ SamePage(incoming, page, Images(Previous), j)
          /\ FileOf(page) = Previous[j].file
    BY <1>1 DEF IdentityMatch, FileOf, Matches
  <2>2. HadCommitted /\ Previous[j] \in Page
    BY <2>1, PreviousPages DEF Inv
  <2> QED
    BY <1>1, <2>1, <2>2 DEF SamePage, Images, Page
<1>2. CASE ~IdentityMatch(page)
  BY <1>2, PageInRange DEF FileOf, RefreshedName, Ordinal, File
<1>3. ~HadCommitted => ~IdentityMatch(page)
  BY DEF IdentityMatch, Matches, Previous
<1> QED
  BY <1>1, <1>2, <1>3, PageInRange DEF FileOf, RefreshedName, Ordinal, File

\* A page belongs to the service of its image.
LEMMA FileOfPageIsOwned ==
  ASSUME PreserveAssumption, Inv, at \notin {"idle", "manifest"},
         page <= Len(incoming)
  PROVE  /\ FileOf(page)[1] # None =>
              ServiceOf[FileOf(page)[1]] = ServiceOf[incoming[page]]
         /\ \A draft \in drafts : drafts = {draft} =>
              Owner(draft, FileOf(page)) = ServiceOf[incoming[page]]
<1>1. CASE IdentityMatch(page)
  <2>1. PICK j \in DOMAIN Previous :
          /\ FileOf(page) = Previous[j].file
          /\ ServiceOf[incoming[page]] = ServiceOf[Previous[j].image]
    BY <1>1, FileOfPage
  <2> QED
    BY <2>1 DEF Inv, AllSound, Sound, DraftsInv, Owned
<1>2. CASE ~IdentityMatch(page) /\ HadCommitted
  BY <1>2, FileOfPage, PageInRange DEF Owner
<1>3. CASE ~HadCommitted
  <2>1. incoming \in drafts
    BY <1>3 DEF Inv, DraftsInv
  <2> QED
    BY <1>3, <2>1, FileOfPage DEF Owner
<1> QED
  BY <1>1, <1>2, <1>3


-----------------------------------------------------------------------------
(* The end of a call, and the steps that change no more than where it is.  *)

LEMMA InitInv == PreserveAssumption /\ Init => Inv
<1> SUFFICES ASSUME PreserveAssumption, Init PROVE Inv
  OBVIOUS
<1>1. ~HadCommitted /\ Previous = <<>>
  BY DEF Init, HadCommitted, Previous
<1>2. TypeOK
  <2>1. /\ pages \in Seq(Page) /\ Len(pages) < page
        /\ page \in 1..(Len(incoming) + 1)
    BY DEF Init
  <2>2. /\ files \in [File -> Scan \cup {None}]
        /\ tiles \in [File -> Scan \cup {None, Mixed}]
        /\ info \in [File -> Size \cup {None}]
    BY DEF Init
  <2>3. losses \in 0..MaxLosses
    BY DEF Init, PreserveAssumption
  <2> QED
    BY <1>1, <2>1, <2>2, <2>3 DEF Init, TypeOK, At
<1>3. IsFiniteSet(drafts)
  BY FS_EmptySet DEF Init
<1>4. PagesFollow /\ AllSound(pages) /\ AllSound(Previous)
  BY <1>1 DEF Init, PagesFollow, AllSound
<1> QED
  BY <1>1, <1>2, <1>3, <1>4
  DEF Init, Inv, CallInv, PyramidInv, DraftsInv, CommittedIsWhole, Stored

LEMMA EndCallKeepsInv ==
  ASSUME PreserveAssumption, Inv, EndCall, UNCHANGED <<store, history>>
  PROVE  Inv'
<1>1. HadCommitted' = HadCommitted /\ Previous' = Previous
  BY DEF HadCommitted, Previous, store
<1>2. TypeOK'
  <2>1. /\ pages' \in Seq(Page) /\ Len(pages') < page'
        /\ page' \in 1..(Len(incoming') + 1)
    BY DEF EndCall
  <2> QED
    BY <1>1, <2>1 DEF EndCall, store, history, Inv, TypeOK, At, Stored
<1>3. PagesFollow' /\ AllSound(pages)'
  BY DEF EndCall, PagesFollow, AllSound
<1>4. AllSound(Previous)'
  BY <1>1 DEF Inv, AllSound, Sound, Stored, store
<1>5. PyramidInv' /\ CommittedIsWhole'
  BY <1>1 DEF Inv, PyramidInv, CommittedIsWhole, Stored, Active, Images, store, history
<1>6. DraftsInv'
  <2>1. drafts = {} => at' = "idle"
    BY DEF EndCall
  <2>2. \A draft : Owned(draft, pages')
    BY DEF EndCall, Owned
  <2> QED
    BY <1>1, <2>1, <2>2 DEF EndCall, Inv, DraftsInv, Stored, store, history, Owned, Owner
<1> QED
  BY <1>1, <1>2, <1>3, <1>4, <1>5, <1>6 DEF Inv, CallInv, EndCall

\* Nothing but the call's position and its failures changes.
LEMMA CallStepKeepsInv ==
  ASSUME PreserveAssumption, Inv, UNCHANGED <<store, history, pages>>,
         TypeOK', CallInv', PagesFollow',
         at' \notin {"idle", "manifest"} => at \notin {"idle", "manifest"}
                        \/ HadCommitted,
         at \notin {"idle", "manifest"} => incoming' = incoming,
         drafts = {} => at' \in {"idle", "manifest"}
  PROVE  Inv'
<1>1. HadCommitted' = HadCommitted /\ Previous' = Previous
  BY DEF HadCommitted, Previous, store
<1>2. AllSound(Previous)' /\ AllSound(pages)'
  BY <1>1 DEF Inv, AllSound, Sound, Stored, store
<1>3. PyramidInv' /\ CommittedIsWhole'
  BY <1>1 DEF Inv, PyramidInv, CommittedIsWhole, Stored, Active, Images, store, history
<1>4. DraftsInv'
  BY <1>1 DEF Inv, DraftsInv, Stored, store, history, Owned, Owner
<1> QED
  BY <1>2, <1>3, <1>4 DEF Inv

LEMMA StartKeepsInv ==
  ASSUME PreserveAssumption, NEW edition \in Editions, Inv, Start(edition)
  PROVE  Inv'
<1>1. HadCommitted' = HadCommitted /\ Previous' = Previous /\ Active' = Active
  BY DEF Start, HadCommitted, Previous, Active, store
<1>2. incoming' \in Editions /\ incoming' \in Seq(Image) /\ incoming = <<>>
      /\ page = 1 /\ pages = <<>> /\ failed = FALSE
  BY DEF Start, Inv, CallInv, PreserveAssumption
<1>3. TypeOK'
  <2>1. Len(incoming') \in Nat /\ Len(pages') = 0
    BY <1>2 DEF Start
  <2>2. at' \in At
    BY DEF Start, At
  <2> QED
    BY <1>1, <1>2, <2>1, <2>2 DEF Start, store, history, Inv, TypeOK, Stored
<1>4. RemovesNothing(incoming)'
  <2>1. Images(Previous)' = Images(Previous)
    BY <1>1 DEF Images
  <2>2. \A i, j : SamePage(incoming, i, Images(Previous), j)'
                  <=> SamePage(edition, i, Images(Previous), j)
    BY <2>1 DEF Start, SamePage, Rank
  <2> QED
    BY <1>1, <2>2 DEF Start, RemovesNothing
<1>5. CallInv'
  BY <1>1, <1>2, <1>4 DEF Start, CallInv, history
<1>6. PagesFollow'
  BY <1>2 DEF Start, PagesFollow
<1>7. drafts = {} => at' = "manifest"
  BY DEF Start, Inv, DraftsInv
<1> QED
  BY <1>3, <1>5, <1>6, <1>7, CallStepKeepsInv DEF Start

LEMMA SameRefusals ==
  ASSUME UNCHANGED <<incoming, provenance>>
  PROVE  RemovesNothing(incoming)' <=> RemovesNothing(incoming)
<1>1. Previous' = Previous
  BY DEF Previous, HadCommitted
<1>2. Images(Previous)' = Images(Previous)
  BY <1>1 DEF Images
<1>3. \A i, j : SamePage(incoming, i, Images(Previous), j)'
                <=> SamePage(incoming, i, Images(Previous), j)
  BY <1>2 DEF SamePage, Rank
<1> QED
  BY <1>1, <1>3 DEF RemovesNothing

LEMMA FailuresKeepInv ==
  ASSUME PreserveAssumption, Inv, Repair \/ FetchFails \/ ReadFails
  PROVE  Inv'
<1>1. /\ at = "page" /\ page <= Len(incoming) /\ incoming \in Editions
      /\ Len(incoming) \in Nat /\ page \in Nat
      /\ UNCHANGED <<store, history, pages, incoming>>
  BY DEF Repair, FetchFails, ReadFails, AtPage, Inv, CallInv, TypeOK,
    PreserveAssumption
<1>2. HadCommitted' = HadCommitted /\ Active' = Active /\ ManifestFile' = ManifestFile
  BY <1>1 DEF HadCommitted, Active, ManifestFile, store
<1>3. RemovesNothing(incoming)' <=> RemovesNothing(incoming)
  BY <1>1, SameRefusals DEF store
<1>4. drafts # {}
  BY <1>1 DEF Inv, DraftsInv
<1>5. CASE Repair
  <2>1. FileOf(page)' = FileOf(page) /\ Stored(FileOf(page))
    BY <1>1, <1>5, SameFile DEF Repair, Reusable, store
  <2>2. CallInv'
    BY <1>1, <1>2, <1>3, <1>5, <2>1 DEF Repair, Inv, CallInv, Stored, store
  <2>3. TypeOK'
    BY <1>1, <1>2, <1>5 DEF Repair, Inv, TypeOK, At, Stored, store, history
  <2>4. PagesFollow'
    BY <1>5 DEF Repair, Inv, PagesFollow
  <2> QED
    BY <1>1, <1>4, <1>5, <2>2, <2>3, <2>4, CallStepKeepsInv DEF Repair
<1>6. CASE FetchFails \/ ReadFails
  <2>1. at' = at /\ failed' = TRUE /\ page' = page + 1
    BY <1>6 DEF FetchFails, ReadFails
  <2>2. CallInv'
    BY <1>1, <1>2, <1>3, <2>1 DEF Inv, CallInv, store
  <2>3. TypeOK'
    <3>1. page' \in 1..(Len(incoming') + 1) /\ Len(pages') < page'
      BY <1>1, <2>1 DEF Inv, TypeOK
    <3> QED
      BY <1>1, <1>2, <2>1, <3>1 DEF Inv, TypeOK, Stored, store, history
  <2>4. PagesFollow'
    BY <2>1 DEF PagesFollow
  <2> QED
    BY <1>1, <1>4, <2>1, <2>2, <2>3, <2>4, CallStepKeepsInv
<1> QED
  BY <1>5, <1>6

LEMMA AllStoredKeepsInv ==
  ASSUME PreserveAssumption, Inv, AllStored
  PROVE  Inv'
<1>1. /\ at = "page" /\ ~failed /\ incoming \in Editions
      /\ page = Len(incoming) + 1
      /\ UNCHANGED <<store, history, pages, incoming, page, failed>>
  BY DEF AllStored, PagesDone, Inv, CallInv, TypeOK, PreserveAssumption
<1>2. HadCommitted' = HadCommitted /\ Active' = Active
  BY <1>1 DEF HadCommitted, Active, store
<1>3. RemovesNothing(incoming)' <=> RemovesNothing(incoming)
  BY <1>1, SameRefusals DEF store
<1>4. drafts # {}
  BY <1>1 DEF Inv, DraftsInv
<1>5. at' = IF HadCommitted /\ Active # incoming THEN "stage" ELSE "commit"
  BY DEF AllStored
<1>6. CallInv'
  BY <1>1, <1>2, <1>3, <1>5 DEF Inv, CallInv, store, history
<1>7. TypeOK'
  BY <1>1, <1>2, <1>5 DEF Inv, TypeOK, At, Stored, store, history
<1>8. PagesFollow'
  BY <1>1 DEF Inv, PagesFollow
<1> QED
  BY <1>1, <1>4, <1>5, <1>6, <1>7, <1>8, CallStepKeepsInv

-----------------------------------------------------------------------------
(* The steps that write.                                                   *)

LEMMA PutManifestKeepsInv ==
  ASSUME PreserveAssumption, Inv, PutManifest
  PROVE  Inv'
<1>1. /\ ~HadCommitted /\ ~HadCommitted'
      /\ page = 1 /\ pages = <<>> /\ failed = FALSE
      /\ incoming \in Editions
      /\ Previous = <<>> /\ Previous' = <<>>
      /\ UNCHANGED <<incoming, page, pages, failed, files, info, tiles, replaced>>
  BY DEF PutManifest, HadCommitted, Previous, Inv, CallInv
<1>2. TypeOK'
  BY <1>1 DEF PutManifest, Inv, TypeOK, At, Stored, HadCommitted
<1>3. CallInv'
  BY <1>1 DEF PutManifest, Inv, CallInv
<1>4. PagesFollow' /\ AllSound(pages)' /\ AllSound(Previous)' /\ CommittedIsWhole'
  BY <1>1 DEF PagesFollow, AllSound, CommittedIsWhole, Inv
<1>5. PyramidInv'
  BY <1>1 DEF Inv, PyramidInv, Stored
<1>6. DraftsInv'
  <2>1. IsFiniteSet(drafts')
    BY FS_AddElement DEF PutManifest, Inv, DraftsInv
  <2>2. incoming \in drafts' /\ drafts \subseteq drafts'
    BY DEF PutManifest
  <2>3. ASSUME NEW draft, drafts' = {draft}
        PROVE  /\ \A f \in File : Stored(f)' => files'[f] \in Scans[Owner(draft, f)]
               /\ Owned(draft, pages') /\ Owned(draft, Previous')
    <3>1. drafts = {} \/ drafts = {draft}
      BY <2>2, <2>3
    <3> QED
      BY <1>1, <3>1 DEF Inv, DraftsInv, Owned, Owner, Stored
  <2> QED
    BY <1>1, <2>1, <2>2, <2>3 DEF DraftsInv
<1> QED
  BY <1>2, <1>3, <1>4, <1>5, <1>6 DEF Inv

\* A page is added to the call's pages.
LEMMA RecordKeepsInv ==
  ASSUME PreserveAssumption, Inv, NEW tiled \in BOOLEAN,
         at \in {"page", "tiles"}, page <= Len(incoming), Record(tiled),
         Stored(FileOf(page)), tiled => info'[FileOf(page)] # None,
         UNCHANGED <<manifest, staged, provenance, files, damaged, history>>,
         tiles' \in [File -> Scan \cup {None, Mixed}],
         info' \in [File -> Size \cup {None}],
         \A f \in File : info[f] # None => info'[f] # None,
         PyramidInv'
  PROVE  Inv'
<1>1. HadCommitted' = HadCommitted /\ Active' = Active /\ Previous' = Previous
  BY DEF HadCommitted, Active, Previous
<1>2. PICK new \in Page : new = [file |-> FileOf(page),
                               image |-> incoming[page],
                               tiled |-> tiled]
  BY FileOfPage, PageInRange DEF Page
<1>3. /\ pages' = Append(pages, new) /\ page' = page + 1 /\ at' = "page"
      /\ UNCHANGED <<incoming, failed>>
  BY <1>2 DEF Record
<1>4. pages \in Seq(Page) /\ page \in Nat /\ Len(incoming) \in Nat
      /\ Len(pages) < page /\ page \in 1..Len(incoming) /\ incoming \in Editions
  BY PageInRange DEF Inv, TypeOK, CallInv
<1>5. /\ pages' \in Seq(Page) /\ Len(pages') = Len(pages) + 1
      /\ DOMAIN pages' = 1..(Len(pages) + 1) /\ DOMAIN pages = 1..Len(pages)
      /\ \A i \in DOMAIN pages : pages'[i] = pages[i]
      /\ pages'[Len(pages) + 1] = new
  BY <1>2, <1>3, <1>4
<1>6. TypeOK'
  <2>1. page' \in 1..(Len(incoming') + 1) /\ Len(pages') < page'
    BY <1>3, <1>4, <1>5
  <2> QED
    BY <1>1, <1>3, <1>5, <2>1 DEF Inv, TypeOK, At, Stored, history
<1>7. CallInv'
  <2>1. RemovesNothing(incoming)' <=> RemovesNothing(incoming)
    BY <1>3, SameRefusals
  <2> QED
    BY <1>1, <1>3, <1>4, <2>1 DEF Inv, CallInv
<1>8. PagesFollow'
  <2>1. new.image = incoming[page]
    BY <1>2
  <2> QED
    BY <1>3, <1>4, <1>5, <2>1 DEF Inv, PagesFollow
<1>9. \A p \in Page : Sound(p) => Sound(p)'
  BY DEF Sound, Stored, Page
<1>10. AllSound(pages)'
  <2>1. Sound(new)'
    <3>1. new.file = FileOf(page) /\ new.image = incoming[page]
          /\ new.tiled = tiled
      BY <1>2
    <3>2. at \notin {"idle", "manifest"}
      OBVIOUS
    <3>3. new.file[1] # None =>
            ServiceOf[new.file[1]] = ServiceOf[new.image]
      BY <3>1, <3>2, FileOfPageIsOwned
    <3> QED
      BY <3>1, <3>3 DEF Sound, Stored
  <2> QED
    BY <1>4, <1>5, <1>9, <2>1 DEF Inv, AllSound
<1>11. AllSound(Previous)'
  BY <1>1, <1>9, PreviousPages DEF Inv, AllSound
<1>12. CommittedIsWhole'
  BY <1>1 DEF Inv, CommittedIsWhole, Stored, Images
<1>13. DraftsInv'
  <2>1. \A draft \in drafts : drafts = {draft} =>
          Owner(draft, new.file) = ServiceOf[new.image]
    BY <1>2, FileOfPageIsOwned
  <2>2. \A draft \in drafts : drafts = {draft} => Owned(draft, pages')
    BY <1>4, <1>5, <2>1 DEF Inv, DraftsInv, Owned
  <2>3. drafts' = drafts /\ drafts # {}
    BY DEF history, Inv, DraftsInv
  <2> QED
    BY <1>1, <1>3, <2>2, <2>3 DEF Inv, DraftsInv, Stored
<1> QED
  BY <1>6, <1>7, <1>8, <1>10, <1>11, <1>12, <1>13 DEF Inv

LEMMA RecordingKeepsInv ==
  ASSUME PreserveAssumption, Inv, Skip \/ PutInfo \/ TilingFails
  PROVE  Inv'
<1>1. /\ at \in {"page", "tiles"} /\ page <= Len(incoming)
      /\ FileOf(page) \in File /\ Stored(FileOf(page))
  <2>1. at \in {"page", "tiles"} /\ page <= Len(incoming)
    BY DEF Skip, AtPage, PutInfo, TilingFails, Inv, CallInv
  <2> QED
    BY <2>1, FileOfPage DEF Skip, Reusable, PutInfo, TilingFails, Inv, CallInv
<1>2. /\ files[FileOf(page)] \in Scan
      /\ SizeOf[files[FileOf(page)]] \in Size
      /\ None \notin Size
  BY <1>1 DEF Inv, TypeOK, Stored, PreserveAssumption, Scan
<1>3. CASE Skip
  <2>1. info[FileOf(page)] # None
    BY <1>2, <1>3 DEF Skip, PyramidComplete
  <2>2. PyramidInv'
    BY <1>3 DEF Skip, store, history, Inv, PyramidInv, Stored
  <2> QED
    BY <1>1, <1>3, <2>1, <2>2, RecordKeepsInv DEF Skip, store, Inv, TypeOK
<1>4. CASE TilingFails
  <2>1. PyramidInv'
    BY <1>4 DEF TilingFails, store, history, Inv, PyramidInv, Stored
  <2> QED
    BY <1>1, <1>4, <2>1, RecordKeepsInv DEF TilingFails, store, Inv, TypeOK
<1>5. CASE PutInfo
  <2>1. PICK f \in File : f = FileOf(page)
    BY <1>1
  <2>2. /\ tiles' = [tiles EXCEPT ![f] = files[f]]
        /\ info' = [info EXCEPT ![f] = SizeOf[files[f]]]
        /\ UNCHANGED <<manifest, staged, provenance, files, damaged, history>>
    BY <1>5, <2>1 DEF PutInfo
  <2>3. tiles' \in [File -> Scan \cup {None, Mixed}]
        /\ info' \in [File -> Size \cup {None}]
    BY <1>2, <2>1, <2>2 DEF Inv, TypeOK
  <2>4. info'[f] # None /\ \A g \in File : info[g] # None => info'[g] # None
    BY <1>2, <2>1, <2>2 DEF Inv, TypeOK
  <2>5. PyramidInv'
    BY <1>1, <2>1, <2>2 DEF Inv, TypeOK, PyramidInv, Stored, history
  <2>6. Record(TRUE)
    BY <1>5 DEF PutInfo
  <2> QED
    BY <1>1, <2>1, <2>2, <2>3, <2>4, <2>5, <2>6, RecordKeepsInv
<1> QED
  BY <1>3, <1>4, <1>5

\* Scans of different services differ, so a scan tells its service.
LEMMA StorePageKeepsInv ==
  ASSUME PreserveAssumption, Inv, NEW scan \in Scan, StorePage(scan)
  PROVE  Inv'
<1>1. /\ at = "page" /\ page <= Len(incoming)
      /\ scan \in Scans[ServiceOf[incoming[page]]] /\ scan # None
  BY DEF StorePage, AtPage, Scan, PreserveAssumption
<1>2. PICK f \in File : f = FileOf(page)
  BY <1>1, FileOfPage
<1>3. /\ files' = [files EXCEPT ![f] = scan]
      /\ damaged' = damaged \ {f}
      /\ replaced' = IF files[f] \in {None, scan} THEN replaced ELSE replaced \cup {f}
      /\ at' = "tiles"
      /\ UNCHANGED <<manifest, staged, provenance, tiles, info, incoming, page,
                     pages, failed, drafts, losses>>
  BY <1>2 DEF StorePage
<1>4. /\ HadCommitted' = HadCommitted /\ Active' = Active
      /\ Previous' = Previous /\ FileOf(page)' = f
  BY <1>2, <1>3, SameFile DEF HadCommitted, Active
<1>5. files' \in [File -> Scan \cup {None}] /\ files'[f] = scan
      /\ \A g \in File \ {f} : files'[g] = files[g]
  BY <1>3 DEF Inv, TypeOK
<1>6. \A g \in File : Stored(g) => Stored(g)'
  BY <1>1, <1>5 DEF Stored
<1>7. TypeOK'
  <2>1. damaged' \subseteq {g \in File : Stored(g)'}
    BY <1>3, <1>6 DEF Inv, TypeOK
  <2> QED
    BY <1>3, <1>4, <1>5, <2>1 DEF Inv, TypeOK, At
<1>8. CallInv'
  <2>1. RemovesNothing(incoming)' <=> RemovesNothing(incoming)
    BY <1>3, SameRefusals
  <2>2. Stored(FileOf(page))'
    BY <1>1, <1>4, <1>5 DEF Stored
  <2> QED
    BY <1>1, <1>3, <1>4, <2>1, <2>2 DEF Inv, CallInv
<1>9. PagesFollow'
  BY <1>3 DEF Inv, PagesFollow
<1>10. \A p \in Page : Sound(p) => Sound(p)'
  BY <1>3, <1>6 DEF Sound, Page
<1>11. AllSound(pages)' /\ AllSound(Previous)'
  BY <1>3, <1>4, <1>10, PreviousPages DEF Inv, TypeOK, AllSound
<1>12. PyramidInv'
  BY <1>1, <1>3, <1>5 DEF Inv, TypeOK, PyramidInv, Stored
<1>13. DraftsInv'
  <2>1. \A draft \in drafts : drafts = {draft} =>
          Owner(draft, f) = ServiceOf[incoming[page]]
    BY <1>1, <1>2, FileOfPageIsOwned
  <2>2. \A draft \in drafts : drafts = {draft} =>
          \A g \in File : Stored(g)' => files'[g] \in Scans[Owner(draft, g)]
    BY <1>1, <1>5, <2>1 DEF Inv, DraftsInv, Stored
  <2>3. drafts # {}
    BY <1>1 DEF Inv, DraftsInv
  <2>4. \A draft \in drafts : drafts = {draft} =>
          Owned(draft, pages') /\ Owned(draft, Previous')
    BY <1>3, <1>4 DEF Inv, DraftsInv
  <2>5. /\ IsFiniteSet(drafts')
        /\ at' \notin {"idle", "manifest"} /\ ~HadCommitted' => incoming' \in drafts'
    BY <1>1, <1>3, <1>4 DEF Inv, DraftsInv
  <2> QED
    BY <1>3, <2>2, <2>3, <2>4, <2>5 DEF DraftsInv
<1>14. CommittedIsWhole'
  <2>1. HadCommitted => provenance.pages \in Seq(Page)
    BY PreviousPages DEF Inv
  <2>2. ASSUME HadCommitted, NEW i \in DOMAIN provenance.pages
        PROVE  provenance.pages[i].file \in File
    <3>1. provenance.pages[i] \in Page
      BY <2>1, <2>2
    <3> QED
      BY <3>1 DEF Page
  <2>3. HadCommitted => DOMAIN Active = DOMAIN provenance.pages
    BY DEF Inv, CommittedIsWhole, Images
  <2> QED
    BY <1>3, <1>4, <1>6, <2>2, <2>3 DEF Inv, CommittedIsWhole, Images
<1> QED
  BY <1>7, <1>8, <1>9, <1>11, <1>12, <1>13, <1>14 DEF Inv

LEMMA PutTileKeepsInv ==
  ASSUME PreserveAssumption, Inv, PutTile
  PROVE  Inv'
<1>1. at = "tiles" /\ page <= Len(incoming)
  BY DEF PutTile, Inv, CallInv
<1>2. PICK f \in File : f = FileOf(page)
  BY <1>1, FileOfPage
<1>3. /\ tiles[f] # files[f]
      /\ tiles' = [tiles EXCEPT ![f] = Mixed]
      /\ UNCHANGED <<manifest, staged, provenance, files, damaged, info, call,
                     history>>
  BY <1>2 DEF PutTile
<1>4. /\ HadCommitted' = HadCommitted /\ Active' = Active
      /\ Previous' = Previous /\ FileOf(page)' = FileOf(page)
  BY <1>3, SameFile DEF HadCommitted, Active, call
<1>5. TypeOK'
  BY <1>3, <1>4 DEF Inv, TypeOK, Stored, call, history
<1>6. CallInv'
  <2>1. RemovesNothing(incoming)' <=> RemovesNothing(incoming)
    BY <1>3, SameRefusals DEF call
  <2> QED
    BY <1>3, <1>4, <2>1 DEF Inv, CallInv, Stored, call
<1>7. PagesFollow' /\ AllSound(pages)' /\ AllSound(Previous)'
  BY <1>3, <1>4 DEF Inv, PagesFollow, AllSound, Sound, Stored, call
<1>8. PyramidInv'
  BY <1>3 DEF Inv, TypeOK, PyramidInv, Stored, history
<1>9. CommittedIsWhole' /\ DraftsInv'
  BY <1>3, <1>4 DEF Inv, CommittedIsWhole, Images, DraftsInv, Owned, Stored,
    call, history
<1> QED
  BY <1>5, <1>6, <1>7, <1>8, <1>9 DEF Inv

LEMMA StageKeepsInv ==
  ASSUME PreserveAssumption, Inv, Stage
  PROVE  Inv'
<1>1. /\ staged' = staged \cup {incoming} /\ at = "stage" /\ at' = "commit"
      /\ UNCHANGED <<manifest, provenance, files, damaged, tiles, info,
                     incoming, page, pages, failed, history>>
      /\ incoming \in Editions /\ HadCommitted
      /\ ~failed /\ page = Len(incoming) + 1
  BY DEF Stage, Inv, CallInv
<1>2. /\ HadCommitted' = HadCommitted /\ Active' = Active
      /\ Previous' = Previous
  BY <1>1 DEF HadCommitted, Active, Previous
<1>3. TypeOK'
  BY <1>1, <1>2 DEF Inv, TypeOK, At, Stored, history
<1>4. CallInv'
  <2>1. RemovesNothing(incoming)' <=> RemovesNothing(incoming)
    BY <1>1, SameRefusals
  <2> QED
    BY <1>1, <1>2, <2>1 DEF Inv, CallInv
<1>5. PagesFollow' /\ AllSound(pages)' /\ AllSound(Previous)' /\ PyramidInv'
  BY <1>1, <1>2 DEF Inv, PagesFollow, AllSound, Sound, PyramidInv, Stored, history
<1>6. CommittedIsWhole' /\ DraftsInv'
  BY <1>1, <1>2 DEF Inv, CommittedIsWhole, Images, DraftsInv, Owned, Stored, history
<1> QED
  BY <1>3, <1>4, <1>5, <1>6 DEF Inv

\* What a commit shows: the incoming edition, stored, with all its pages.
LEMMA CommitShowsIncoming ==
  ASSUME PreserveAssumption, Inv, Commit
  PROVE  /\ HadCommitted'
         /\ Previous' = pages /\ provenance'.pages = pages
         /\ Active' = incoming
         /\ Images(pages) = incoming
         /\ manifest = incoming \/ incoming \in staged
         /\ provenance' \in Provenance
<1>1. provenance' = [manifest |-> ManifestFile, pages |-> pages]
      /\ manifest' = manifest /\ at = "commit"
      /\ incoming \in Editions
      /\ ~failed /\ page = Len(incoming) + 1
  BY DEF Commit, Inv, CallInv
<1>2. incoming # None
  BY <1>1 DEF PreserveAssumption
<1>3. HadCommitted' /\ provenance' \in Provenance
  <2>1. pages \in Seq(Page) /\ ManifestFile \in Editions \cup {None}
    BY <1>1 DEF ManifestFile, Inv, TypeOK, Provenance, HadCommitted
  <2>2. provenance' \in Provenance
    BY <1>1, <2>1 DEF Provenance
  <2> QED
    BY <2>2 DEF HadCommitted, PreserveAssumption
<1>4. Active' = incoming
  BY <1>1, <1>2 DEF Active, ManifestFile, Inv, CallInv
<1>5. Images(pages) = incoming
  <2>1. incoming \in Seq(Image) /\ pages \in Seq(Page)
    BY <1>1 DEF Inv, TypeOK, PreserveAssumption
  <2>2. Len(pages) = Len(incoming) /\ DOMAIN pages = 1..Len(incoming)
        /\ \A i \in DOMAIN pages : pages[i].image = incoming[i]
    BY <1>1, <2>1 DEF Inv, PagesFollow
  <2>3. incoming = [i \in 1..Len(incoming) |-> incoming[i]]
    BY <2>1
  <2> QED
    BY <2>2, <2>3 DEF Images
<1>6. manifest = incoming \/ incoming \in staged
  BY <1>1 DEF Inv, CallInv, CommittedIsWhole
<1> QED
  BY <1>1, <1>3, <1>4, <1>5, <1>6 DEF Previous

LEMMA CommitKeepsInv ==
  ASSUME PreserveAssumption, Inv, Commit
  PROVE  Inv'
<1>1. /\ HadCommitted' /\ Previous' = pages /\ provenance'.pages = pages
      /\ Active' = incoming /\ Images(pages) = incoming
      /\ manifest = incoming \/ incoming \in staged
      /\ provenance' \in Provenance
  BY CommitShowsIncoming
<1>2. EndCall /\ UNCHANGED <<manifest, staged, files, damaged, tiles, info, history>>
      /\ at = "commit"
  BY DEF Commit
<1>3. TypeOK'
  <2>1. /\ pages' \in Seq(Page) /\ Len(pages') < page'
        /\ page' \in 1..(Len(incoming') + 1)
    BY <1>2 DEF EndCall
  <2> QED
    BY <1>1, <1>2, <2>1 DEF EndCall, history, Inv, TypeOK, At, Stored
<1>4. CallInv' /\ PagesFollow' /\ AllSound(pages)'
  BY <1>2 DEF EndCall, CallInv, PagesFollow, AllSound
<1>5. AllSound(Previous)'
  BY <1>1, <1>2 DEF Inv, AllSound, Sound, Stored
<1>6. PyramidInv'
  BY <1>2 DEF Inv, PyramidInv, Stored, history
<1>7. CommittedIsWhole'
  <2>1. \A i \in DOMAIN incoming : files'[pages[i].file] # None
    <3>1. DOMAIN incoming = DOMAIN pages
      BY <1>1 DEF Images
    <3> QED
      BY <1>2, <3>1 DEF Inv, AllSound, Sound, Stored
  <2>2. Images(provenance.pages)' = incoming
    BY <1>1 DEF Images
  <2> QED
    BY <1>1, <1>2, <2>1, <2>2 DEF CommittedIsWhole, Stored
<1>8. DraftsInv'
  BY <1>1, <1>2 DEF EndCall, history, Inv, DraftsInv, Owned, Stored
<1> QED
  BY <1>3, <1>4, <1>5, <1>6, <1>7, <1>8 DEF Inv

LEMMA UntouchedKeepsInv ==
  ASSUME PreserveAssumption, Inv, (\E f \in File : Damage(f)) \/ UNCHANGED vars
  PROVE  Inv'
<1>1. /\ UNCHANGED <<manifest, staged, provenance, files, tiles, info, call,
                     drafts, replaced>>
      /\ damaged' \subseteq {f \in File : Stored(f)}
      /\ losses' \in 0..MaxLosses
  BY DEF Damage, vars, store, history, Inv, TypeOK, PreserveAssumption
<1>2. /\ HadCommitted' = HadCommitted /\ Active' = Active
      /\ Previous' = Previous /\ FileOf(page)' = FileOf(page)
  BY <1>1, SameFile DEF HadCommitted, Active, call
<1>3. TypeOK'
  BY <1>1, <1>2 DEF Inv, TypeOK, Stored, call
<1>4. CallInv'
  <2>1. RemovesNothing(incoming)' <=> RemovesNothing(incoming)
    BY <1>1, SameRefusals DEF call
  <2> QED
    BY <1>1, <1>2, <2>1 DEF Inv, CallInv, Stored, call
<1>5. PagesFollow' /\ AllSound(pages)' /\ AllSound(Previous)' /\ PyramidInv'
  BY <1>1, <1>2 DEF Inv, PagesFollow, AllSound, Sound, PyramidInv, Stored, call
<1>6. CommittedIsWhole' /\ DraftsInv'
  BY <1>1, <1>2 DEF Inv, CommittedIsWhole, Images, DraftsInv, Owned, Stored, call
<1> QED
  BY <1>3, <1>4, <1>5, <1>6 DEF Inv

LEMMA StepKeepsInv ==
  ASSUME PreserveAssumption, Inv, [Next]_vars
  PROVE  Inv'
<1>1. CASE Incomplete \/ Killed
  BY <1>1, EndCallKeepsInv DEF Incomplete, Killed
<1>2. CASE Step
  BY <1>1, <1>2, PutManifestKeepsInv, RecordingKeepsInv, FailuresKeepInv,
    StorePageKeepsInv, PutTileKeepsInv, AllStoredKeepsInv, StageKeepsInv,
    CommitKeepsInv DEF Step
<1> QED
  BY <1>1, <1>2, StartKeepsInv, FailuresKeepInv, UntouchedKeepsInv DEF Next

-----------------------------------------------------------------------------
(* The invariants the runs check.                                          *)

\* The inductive invariant: where a call stands, which pages it has, that
\* each has a file of its own service with the info.json it records, that
\* info.json stands only beside whole tiles of the scan, and, while one
\* edition was acquired before the first commit, whose image each file shows.
THEOREM InvHolds == Spec => []Inv
<1>1. Init => Inv
  BY InitInv, PreserveAssumption
<1>2. Inv /\ [Next]_vars => Inv'
  BY StepKeepsInv, PreserveAssumption
<1> QED
  BY <1>1, <1>2, PTL DEF Spec

\* preserve.go:217-221 and 356-398: whatever is killed or fails, the committed
\* provenance names a stored manifest and a JPEG for each of its images.
THEOREM CommitsAreWhole == Spec => []CommittedIsWhole
<1>1. Inv => CommittedIsWhole
  BY DEF Inv
<1> QED
  BY InvHolds, <1>1, PTL

LEMMA OneDraft ==
  ASSUME IsFiniteSet(drafts), Cardinality(drafts) <= 1
  PROVE  drafts = {} \/ \E draft : drafts = {draft}
<1>1. Cardinality(drafts) \in {0, 1}
  BY FS_CardinalityType
<1> QED
  BY <1>1, FS_EmptySet, FS_Singleton

\* preserve.go:252-268: if one edition was served until the first commit, any
\* number of refreshes, in any order of their images, leaves every committed
\* page with a scan of its own service.
THEOREM PagesShowTheirImages == Spec => []PagesMatchIfOneDraft
<1>1. Inv => PagesMatchIfOneDraft
  <2> SUFFICES ASSUME Inv, Cardinality(drafts) <= 1, HadCommitted,
                      NEW i \in DOMAIN provenance.pages
               PROVE  files[provenance.pages[i].file]
                        \in Scans[ServiceOf[provenance.pages[i].image]]
    BY DEF PagesMatchIfOneDraft, PagesMatch
  <2>1. PICK draft : drafts = {draft}
    BY OneDraft DEF Inv, DraftsInv
  <2>2. i \in DOMAIN Previous /\ Previous[i] = provenance.pages[i]
        /\ Previous[i] \in Page
    BY PreviousPages DEF Inv
  <2>3. Stored(Previous[i].file) /\ Previous[i].file \in File
    BY <2>2 DEF Inv, AllSound, Sound, Page
  <2>4. files[Previous[i].file] \in Scans[Owner(draft, Previous[i].file)]
    BY <2>1, <2>3 DEF Inv, DraftsInv
  <2>5. Owner(draft, Previous[i].file) = ServiceOf[Previous[i].image]
    BY <2>1, <2>2 DEF Inv, DraftsInv, Owned
  <2> QED
    BY <2>2, <2>4, <2>5
<1> QED
  BY InvHolds, <1>1, PTL

\* preserve.go:448-451: a committed pyramid of a page whose scan was never
\* replaced is whole and cut from that scan.
THEOREM PyramidsShowTheirPages == Spec => []PyramidShowsPage
<1>1. Inv => PyramidShowsPage
  <2> SUFFICES ASSUME Inv, HadCommitted, NEW i \in DOMAIN provenance.pages,
                      provenance.pages[i].tiled,
                      provenance.pages[i].file \notin replaced
               PROVE  tiles[provenance.pages[i].file]
                        = files[provenance.pages[i].file]
    BY DEF PyramidShowsPage
  <2>1. i \in DOMAIN Previous /\ Previous[i] = provenance.pages[i]
        /\ Previous[i] \in Page
    BY PreviousPages DEF Inv
  <2> QED
    BY <2>1 DEF Inv, AllSound, Sound, Page, PyramidInv
<1> QED
  BY InvHolds, <1>1, PTL

-----------------------------------------------------------------------------
(* What a refresh leaves alone.                                            *)

\* Only a download writes a JPEG; only a first call writes the manifest.
LEMMA StoreChanges ==
  ASSUME PreserveAssumption, Inv, [Next]_vars, HadCommitted
  PROVE  /\ manifest' = manifest
         /\ staged \subseteq staged'
         /\ files' # files => \E scan \in Scan : StorePage(scan)
<1>1. at # "manifest"
  BY DEF Inv, CallInv
<1>2. CASE Step
  BY <1>1, <1>2 DEF Step, PutManifest, Skip, Repair, StorePage, PutTile, PutInfo,
    TilingFails, Incomplete, AllStored, Stage, Commit, store
<1> QED
  BY <1>2 DEF Next, Start, FetchFails, ReadFails, Killed, Damage, vars, store

\* preserve.go:214-217: until the next commit the committed manifest and the
\* readable pages stay as they are, as long as the refresh presents no service
\* twice.
THEOREM FormerSnapshotStands == Spec => SnapshotStands
<1>1. ASSUME Inv, [Next]_vars, HadCommitted, provenance' = provenance,
             NEW i \in DOMAIN provenance.pages,
             provenance.pages[i].file \notin damaged,
             ~Repeats(incoming)
      PROVE  files'[provenance.pages[i].file] = files[provenance.pages[i].file]
  <2> DEFINE f == provenance.pages[i].file
  <2>0. f \in File
    BY <1>1, PreviousPages DEF Inv, Page
  <2> SUFFICES ASSUME NEW scan \in Scan, StorePage(scan), FileOf(page) = f
               PROVE  FALSE
    BY <1>1, <2>0, StoreChanges, PreserveAssumption DEF StorePage, Inv, TypeOK
  <2>1. /\ at = "page" /\ page <= Len(incoming) /\ ~Reusable(page)
        /\ page \in DOMAIN incoming
    BY <1>1, PageInRange, PreserveAssumption DEF StorePage, AtPage
  <2>2. /\ i \in DOMAIN Previous /\ Previous[i] = provenance.pages[i]
        /\ Sound(Previous[i]) /\ Previous[i] \in Page
    BY <1>1, PreviousPages DEF Inv, AllSound
  <2>3. ~IdentityMatch(page)
    BY <1>1, <2>1, <2>2 DEF Reusable, Sound
  <2>4. f = <<incoming[page], page>> /\ incoming[page] # None
    BY <1>1, <2>1, <2>3, FileOfPage, PageInRange, PreserveAssumption
  <2>5. ServiceOf[incoming[page]] = ServiceOf[Previous[i].image]
    BY <2>2, <2>4 DEF Sound
  <2>6. PICK k \in DOMAIN incoming : SamePage(incoming, k, Images(Previous), i)
    BY <1>1, <2>1, <2>2 DEF Inv, CallInv, RemovesNothing
  <2>7. ServiceOf[incoming[k]] = ServiceOf[Previous[i].image]
    BY <2>2, <2>6 DEF SamePage, Images
  <2>8. k = page
    BY <1>1, <2>1, <2>5, <2>7 DEF Repeats
  <2> QED
    BY <2>2, <2>3, <2>6, <2>8 DEF IdentityMatch, Matches
<1>2. Inv /\ [Next]_vars =>
        [HadCommitted /\ provenance' = provenance =>
           /\ manifest' = manifest
           /\ staged \subseteq staged'
           /\ \A i \in DOMAIN provenance.pages :
                LET f == provenance.pages[i].file
                IN f \notin damaged /\ ~Repeats(incoming)
                     => files'[f] = files[f]]_vars
  BY <1>1, StoreChanges, PreserveAssumption
<1> QED
  BY InvHolds, <1>2, PTL DEF Spec, SnapshotStands

-----------------------------------------------------------------------------
(* The refinement.                                                         *)

LEMMA LargestElement ==
  ASSUME NEW n \in Nat, NEW K, K \subseteq 1..n, K # {}
  PROVE  \E m \in K : \A k \in K : k <= m
<1> DEFINE Left == {l \in Nat : \E k \in K : l + k = n}
<1>1. \A k \in K : k \in 1..n
  OBVIOUS
<1>2. \A k \in K : n - k \in Left /\ n - k \in Nat
  BY <1>1
<1>3. Left # {} /\ Left \subseteq Nat
  BY <1>2
<1> HIDE DEF Left
<1>4. PICK x \in Left : \A y \in Left : ~(<<y, x>> \in OpToRel(<, Nat))
  BY <1>3, NatLessThanWellFounded, WFMin
<1>5. \A y \in Left : ~(y < x)
  BY <1>3, <1>4 DEF OpToRel
<1>6. PICK m \in K : x + m = n
  BY <1>4 DEF Left
<1>7. ASSUME NEW k \in K PROVE k <= m
  <2>1. ~(n - k < x) /\ n - k \in Nat
    BY <1>2, <1>5
  <2>2. k \in Nat /\ m \in Nat /\ x \in Nat
    BY <1>1, <1>3
  <2> QED
    BY <1>6, <2>1, <2>2
<1> QED
  BY <1>7

\* The rank of a service's last page is how often it is presented.
LEMMA KeepsWhatIsMatched ==
  ASSUME PreserveAssumption, Inv, HadCommitted, NEW edition \in Editions,
         RemovesNothing(edition)
  PROVE  Snapshot!Keeps(edition, Images(Previous))
<1> DEFINE former == Images(Previous)
<1> SUFFICES ASSUME NEW i \in DOMAIN former
             PROVE  Snapshot!Presented(edition, ServiceOf[former[i]])
                      >= Snapshot!Presented(former, ServiceOf[former[i]])
  BY DEF Snapshot!Keeps
<1> DEFINE s == ServiceOf[former[i]]
           K == {k \in DOMAIN former : ServiceOf[former[k]] = s}
           E == {k \in DOMAIN edition : ServiceOf[edition[k]] = s}
<1>1. DOMAIN former = 1..Len(Previous) /\ Len(Previous) \in Nat
      /\ DOMAIN former = DOMAIN Previous
  BY PreviousPages DEF Images, Inv
<1>2. DOMAIN edition = 1..Len(edition) /\ Len(edition) \in Nat
  BY DEF PreserveAssumption
<1>3. PICK m \in K : \A k \in K : k <= m
  BY <1>1, LargestElement
<1>4. Rank(former, m) = Cardinality(K)
  <2>1. {j \in 1..m : ServiceOf[former[j]] = ServiceOf[former[m]]} = K
    BY <1>1, <1>3
  <2> QED
    BY <2>1 DEF Rank
<1>5. PICK e \in DOMAIN edition : SamePage(edition, e, former, m)
  BY <1>1, <1>3 DEF RemovesNothing
<1>6. ServiceOf[edition[e]] = s /\ Rank(edition, e) = Cardinality(K)
  BY <1>3, <1>4, <1>5 DEF SamePage
<1>7. {j \in 1..e : ServiceOf[edition[j]] = ServiceOf[edition[e]]} \subseteq E
  BY <1>2, <1>6
<1>8. IsFiniteSet(E) /\ IsFiniteSet(K)
  <2>1. E \in SUBSET (1..Len(edition)) /\ K \in SUBSET (1..Len(Previous))
    BY <1>1, <1>2
  <2>2. IsFiniteSet(1..Len(edition)) /\ IsFiniteSet(1..Len(Previous))
    BY <1>1, <1>2, FS_Interval
  <2> QED
    BY <2>1, <2>2, FS_Subset
<1>9. Rank(edition, e) <= Cardinality(E)
  BY <1>7, <1>8, FS_Subset DEF Rank
<1>10. Cardinality(E) \in Nat /\ Cardinality(K) \in Nat
  BY <1>8, FS_CardinalityType
<1>11. /\ Snapshot!Presented(edition, s) = Cardinality(E)
       /\ Snapshot!Presented(former, s) = Cardinality(K)
  <2>1. \A S : Snapshot!Cardinality(S) = Cardinality(S)
    BY DEF Snapshot!Cardinality, Cardinality
  <2> QED
    BY <2>1 DEF Snapshot!Presented
<1> QED
  BY <1>6, <1>9, <1>10, <1>11

\* preserve.go:198-213: the bundle shows nothing or a whole edition, and a
\* later one only if it presents every image of the former as often.
THEOREM BundleIsASnapshot == Spec => ImplementsSnapshot
<1> DEFINE shown == IF HadCommitted THEN Images(provenance.pages) ELSE None
<1>1. Init => Snapshot!Init
  BY DEF Init, HadCommitted, Snapshot!Init
<1>2. ASSUME Inv, [Next]_vars PROVE [Snapshot!Next]_shown
  <2>1. CASE Commit
    <3>1. shown' = incoming /\ incoming \in Editions
      BY <1>2, <2>1, CommitShowsIncoming, PreserveAssumption
      DEF Images, Commit, Inv, CallInv
    <3>2. HadCommitted => Snapshot!Keeps(incoming, shown)
      BY <1>2, <2>1, <3>1, KeepsWhatIsMatched, PreviousPages, PreserveAssumption
      DEF Commit, Inv, CallInv
    <3>3. Snapshot!Commit(incoming)
      BY <3>1, <3>2 DEF Snapshot!Commit
    <3> QED
      BY <3>1, <3>3 DEF Snapshot!Next
  <2>2. CASE ~Commit
    <3>1. provenance' = provenance
      BY <1>2, <2>2 DEF Next, Start, Step, PutManifest, Skip, Repair, StorePage,
        PutTile, PutInfo, TilingFails, Incomplete, AllStored, Stage, FetchFails,
        ReadFails, Killed, Damage, vars, store
    <3> QED
      BY <3>1 DEF HadCommitted, Images
  <2> QED
    BY <2>1, <2>2
<1> QED
  BY InvHolds, <1>1, <1>2, PTL DEF Spec, ImplementsSnapshot, Snapshot!Spec
=============================================================================
