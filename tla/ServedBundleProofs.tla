------------------------- MODULE ServedBundleProofs -------------------------
(***************************************************************************)
(* Proofs of the safety properties of ServedBundle, for every set of       *)
(* requests and any number of editions and commits.                        *)
(*                                                                         *)
(* The argument: readers take the stamp before the content, so a content   *)
(* is never older than its stamp; serial numbers of commits only grow, so  *)
(* a stamp that is still the bundle's was taken after the last commit, and *)
(* the content with it.  Before the first commit the edition in            *)
(* manifest.json plays the part of the serial number.  A summary is        *)
(* stamped last, but for the manifest file it has read, and the editions   *)
(* provenance names never go back.                                         *)
(***************************************************************************)
EXTENDS ServedBundle, TLAPS

Place ==
  {"idle", "stamp manifest", "stamp provenance", "lookup", "read manifest",
   "put", "send", "provenance", "manifest", "pages"}

Stamp  == Nat \X Nat
Reader == [at : Place, serial : Nat, names : Nat, manifest : Nat, pages : Nat,
           stamp : Stamp]
Bodies == [serial : Nat, manifest : Nat, pages : Nat, stamp : Stamp]

\* The variables keep their types.
TypeOK ==
  /\ root \in Nat /\ newest \in Nat /\ commit \in Nat /\ active \in Nat
  /\ request \in [Request -> Reader]
  /\ cache \in Bodies
  /\ summary \in Reader
  /\ entry \in Bodies

BundleInv ==
  /\ root <= newest /\ active <= newest
  /\ 1 <= root
  /\ commit = None <=> active = None

\* What a reader knows of the provenance it has read.
Knows(read) ==
  /\ read.serial <= commit
  /\ read.serial = commit => read.names = active
  /\ read.serial = None => read.names = None
  /\ read.serial # None => 1 <= read.names /\ read.names <= active

\* A stamp that was taken before now.
Past(stamp) ==
  /\ stamp[2] <= commit
  /\ commit = None => stamp[1] <= root

\* A content that was read after its stamp was taken.
Fresh(body) ==
  /\ body.stamp[2] <= commit
  /\ body.pages \in {None, body.manifest}
  /\ body.stamp[2] = commit =>
       /\ body.pages = active
       /\ commit # None => body.manifest = active
       /\ commit = None =>
            body.stamp[1] <= body.manifest /\ body.manifest <= root

RequestInv(read) ==
  /\ read.at = "stamp manifest" => Knows(read)
  /\ read.at = "stamp provenance" => (commit = None => read.stamp[1] <= root)
  /\ read.at = "lookup" => Past(read.stamp)
  /\ read.at = "read manifest" =>
       Past(read.stamp) /\ Knows(read) /\ read.stamp[2] <= read.serial
  /\ read.at = "put" => Fresh(read)
  /\ read.at = "send" => read.pages \in {None, read.manifest}

\* A content of a bundle with provenance, read before its stamp was taken.
Followed(body) ==
  body.serial # None =>
    /\ body.serial <= commit
    /\ body.stamp[1] = body.manifest
    /\ body.manifest <= body.pages /\ body.pages <= active

SummaryInv ==
  /\ summary.at \in {"manifest", "pages", "stamp manifest"} => Knows(summary)
  /\ summary.at \in {"pages", "stamp manifest"} /\ summary.serial # None =>
       summary.manifest = summary.names
  /\ summary.at = "stamp manifest" /\ summary.serial # None =>
       summary.manifest <= summary.pages /\ summary.pages <= active
  /\ summary.at = "stamp provenance" => Followed(summary)

Inv ==
  /\ TypeOK
  /\ BundleInv
  /\ \A r \in Request : RequestInv(request[r])
  /\ cache # NoBody => Fresh(cache)
  /\ SummaryInv
  /\ Followed(entry)

-----------------------------------------------------------------------------
LEMMA InitInv == Init => Inv
<1> SUFFICES ASSUME Init PROVE Inv
  OBVIOUS
<1>1. Nothing \in Reader /\ NoBody \in Bodies
  BY DEF Nothing, NoBody, Reader, Bodies, Place, Stamp, None
<1>2. TypeOK
  BY <1>1 DEF Init, TypeOK, None
<1>3. BundleInv
  BY DEF Init, BundleInv, None
<1>4. \A r \in Request : RequestInv(request[r])
  BY DEF Init, RequestInv, Nothing
<1>5. SummaryInv /\ Followed(entry)
  BY DEF Init, SummaryInv, Followed, Nothing, NoBody
<1> QED
  BY <1>2, <1>3, <1>4, <1>5 DEF Init, Inv


-----------------------------------------------------------------------------
(* The bundle moves on: what readers know stays true.                      *)

LEMMA LeqTransitive ==
  \A a, b, c \in Nat : a <= b /\ b <= c => a <= c
OBVIOUS

\* Commits are counted, and neither a draft nor a commit goes back.
MovesOn ==
  /\ commit <= commit' /\ root <= root'
  /\ commit' = commit => active' = active
  /\ commit # None => active <= active'

LEMMA PreservingMovesOn ==
  ASSUME Inv, Preserving
  PROVE  /\ root' \in Nat /\ newest' \in Nat /\ commit' \in Nat /\ active' \in Nat
         /\ BundleInv'
         /\ MovesOn
<1> USE DEF None
<1>1. /\ root \in Nat /\ newest \in Nat /\ commit \in Nat /\ active \in Nat
      /\ BundleInv
  BY DEF Inv, TypeOK
<1>2. CASE Draft
  BY <1>1, <1>2 DEF Draft, BundleInv, MovesOn
<1>3. CASE \E edition \in 1..MaxEdition : Commit(edition)
  <2>1. PICK edition \in 1..MaxEdition : Commit(edition)
    BY <1>3
  <2>2. edition \in Nat /\ 1 <= edition
    BY ServedBundleAssumption
  <2>3. CASE commit = None
    BY <1>1, <2>1, <2>2, <2>3 DEF Commit, BundleInv, MovesOn
  <2>4. CASE commit # None
    <3>1. edition = active \/ edition = newest + 1
      BY <2>1, <2>4 DEF Commit
    <3> QED
      BY <1>1, <2>1, <2>2, <2>4, <3>1 DEF Commit, BundleInv, MovesOn
  <2> QED
    BY <2>3, <2>4
<1> QED
  BY <1>2, <1>3 DEF Preserving

LEMMA KnowsStays ==
  ASSUME TypeOK, BundleInv, commit' \in Nat, active' \in Nat, BundleInv',
         MovesOn, NEW read \in Reader, Knows(read)
  PROVE  /\ read.serial <= commit'
         /\ read.serial = commit' => read.names = active'
         /\ read.serial = None => read.names = None
         /\ read.serial # None => 1 <= read.names /\ read.names <= active'
<1>1. read.serial \in Nat /\ read.names \in Nat
  BY DEF Reader
<1>2. commit \in Nat /\ active \in Nat
  BY DEF TypeOK
<1> QED
  BY <1>1, <1>2 DEF Knows, BundleInv, MovesOn, None

LEMMA FreshStays ==
  ASSUME TypeOK, BundleInv, commit' \in Nat, active' \in Nat, root' \in Nat,
         MovesOn,
         NEW pages \in Nat, NEW manifest \in Nat, NEW stamp \in Stamp,
         NEW body, body.pages = pages, body.manifest = manifest,
         body.stamp = stamp, Fresh(body)
  PROVE  /\ body.stamp[2] <= commit'
         /\ body.pages \in {None, body.manifest}
         /\ body.stamp[2] = commit' =>
              /\ body.pages = active'
              /\ commit' # None => body.manifest = active'
              /\ commit' = None =>
                   body.stamp[1] <= body.manifest /\ body.manifest <= root'
<1>1. stamp[1] \in Nat /\ stamp[2] \in Nat
  BY DEF Stamp
<1>2. commit \in Nat /\ active \in Nat /\ root \in Nat
  BY DEF TypeOK
<1> QED
  BY <1>1, <1>2 DEF Fresh, MovesOn, None

LEMMA RequestInvStays ==
  ASSUME TypeOK, BundleInv, commit' \in Nat, active' \in Nat, root' \in Nat,
         BundleInv', MovesOn, NEW r \in Request, RequestInv(request[r]),
         request' = request
  PROVE  RequestInv(request[r])'
<1> DEFINE read == request[r]
<1>1. read \in Reader /\ read' = read
  BY DEF TypeOK
<1>2. /\ read.stamp \in Stamp /\ read.pages \in Nat /\ read.manifest \in Nat
      /\ read.stamp[1] \in Nat /\ read.stamp[2] \in Nat
  BY <1>1 DEF Reader, Stamp
<1>3. commit \in Nat /\ root \in Nat
  BY DEF TypeOK
<1>4. read.at \in {"stamp manifest", "read manifest"} => Knows(read)'
  <2> HAVE read.at \in {"stamp manifest", "read manifest"}
  <2>1. Knows(read)
    BY DEF RequestInv
  <2> HIDE DEF read
  <2> QED
    BY <1>1, <2>1, KnowsStays DEF Knows
<1>5. read.at = "put" => Fresh(read)'
  <2> HAVE read.at = "put"
  <2>1. Fresh(read)
    BY DEF RequestInv
  <2> HIDE DEF read
  <2> QED
    BY <1>1, <1>2, <2>1, FreshStays DEF Fresh
<1>6. /\ read.at \in {"lookup", "read manifest"} => Past(read.stamp)'
      /\ read.at = "stamp provenance" => (commit' = None => read.stamp[1] <= root')
  <2>1. /\ read.at \in {"lookup", "read manifest"} => Past(read.stamp)
        /\ read.at = "stamp provenance" => (commit = None => read.stamp[1] <= root)
    BY DEF RequestInv
  <2>2. commit' = None => commit = None
    BY <1>3 DEF MovesOn, None
  <2> HIDE DEF read
  <2>3. Past(read.stamp) => Past(read.stamp)'
    BY <1>1, <1>2, <1>3, <2>2 DEF Past, MovesOn
  <2>4. commit' = None /\ read.stamp[1] <= root => read.stamp[1] <= root'
    BY <1>2, <1>3 DEF MovesOn
  <2> QED
    BY <2>1, <2>2, <2>3, <2>4
<1>7. /\ read.at = "read manifest" => read.stamp[2] <= read.serial
      /\ read.at = "send" => read.pages \in {None, read.manifest}
  BY DEF RequestInv
<1> QED
  BY <1>1, <1>4, <1>5, <1>6, <1>7 DEF RequestInv

LEMMA FollowedStays ==
  ASSUME commit \in Nat, active \in Nat, commit' \in Nat, active' \in Nat,
         MovesOn,
         NEW serial \in Nat, NEW manifest \in Nat, NEW pages \in Nat,
         NEW body, body.serial = serial, body.manifest = manifest,
         body.pages = pages, Followed(body)
  PROVE  body.serial # None =>
           /\ body.serial <= commit'
           /\ body.stamp[1] = body.manifest
           /\ body.manifest <= body.pages /\ body.pages <= active'
BY DEF Followed, MovesOn, None

LEMMA PreservingInv ==
  ASSUME Inv, Preserving
  PROVE  Inv'
<1>1. TypeOK /\ BundleInv
  BY DEF Inv
<1>2. /\ root' \in Nat /\ newest' \in Nat /\ commit' \in Nat /\ active' \in Nat
      /\ BundleInv' /\ MovesOn
  BY PreservingMovesOn
<1>3. UNCHANGED <<request, cache, summary, entry>>
  BY DEF Preserving, Draft, Commit
<1>4. TypeOK'
  BY <1>1, <1>2, <1>3 DEF TypeOK
<1>5. \A r \in Request : RequestInv(request[r])'
  BY <1>1, <1>2, <1>3, RequestInvStays DEF Inv
<1>6. (cache # NoBody => Fresh(cache))'
  <2>1. cache \in Bodies /\ cache' = cache
    BY <1>1, <1>3 DEF TypeOK
  <2>2. cache # NoBody => Fresh(cache)
    BY DEF Inv
  <2>3. cache.stamp \in Stamp /\ cache.pages \in Nat /\ cache.manifest \in Nat
    BY <2>1 DEF Bodies
  <2>4. Fresh(cache) => Fresh(cache)'
    BY <1>1, <1>2, <2>1, <2>3, FreshStays DEF Fresh
  <2> QED
    BY <2>1, <2>2, <2>4 DEF NoBody
<1>7. SummaryInv'
  <2>1. summary \in Reader /\ summary' = summary
    BY <1>1, <1>3 DEF TypeOK
  <2>2. SummaryInv
    BY DEF Inv
  <2>3. /\ summary.serial \in Nat /\ summary.manifest \in Nat
        /\ summary.pages \in Nat
    BY <2>1 DEF Reader
  <2>4. Knows(summary) => Knows(summary)'
    BY <1>1, <1>2, <2>1, KnowsStays DEF Knows
  <2>5. commit \in Nat /\ active \in Nat
    BY <1>1 DEF TypeOK
  <2>6. Followed(summary) => Followed(summary)'
    BY <1>2, <2>1, <2>3, <2>5, FollowedStays DEF Followed
  <2>7. Knows(summary) /\ summary.serial # None => active <= active'
    <3> HAVE Knows(summary) /\ summary.serial # None
    <3>1. commit # None
      BY <2>3, <2>5 DEF Knows, None
    <3> QED
      BY <1>2, <3>1 DEF MovesOn
  <2>8. summary.at = "stamp manifest" /\ summary.serial # None =>
          summary.manifest <= summary.pages /\ summary.pages <= active'
    <3> HAVE summary.at = "stamp manifest" /\ summary.serial # None
    <3>0. Knows(summary)
      BY <2>2 DEF SummaryInv
    <3>1. summary.manifest <= summary.pages /\ summary.pages <= active
      BY <2>2 DEF SummaryInv
    <3>2. active <= active' /\ active' \in Nat
      BY <1>2, <2>7, <3>0
    <3>3. summary.pages \in Nat /\ active \in Nat
      BY <2>3, <2>5
    <3>4. summary.pages <= active'
      BY <3>1, <3>2, <3>3, LeqTransitive
    <3> QED
      BY <3>1, <3>4
  <2> QED
    BY <2>1, <2>2, <2>4, <2>6, <2>8 DEF SummaryInv
<1>8. Followed(entry)'
  <2>1. entry \in Bodies /\ entry' = entry
    BY <1>1, <1>3 DEF TypeOK
  <2>2. entry.serial \in Nat /\ entry.manifest \in Nat /\ entry.pages \in Nat
    BY <2>1 DEF Bodies
  <2>3. commit \in Nat /\ active \in Nat /\ Followed(entry)
    BY <1>1 DEF TypeOK, Inv
  <2> QED
    BY <1>2, <2>1, <2>2, <2>3, FollowedStays DEF Followed
<1> QED
  BY <1>2, <1>4, <1>5, <1>6, <1>7, <1>8 DEF Inv


-----------------------------------------------------------------------------
(* Requests.                                                               *)

\* A request that reads leaves everything else alone.
LEMMA ReadsInv ==
  ASSUME Inv, NEW r \in Request, NEW read \in Reader, RequestInv(read),
         request' = [request EXCEPT ![r] = read],
         UNCHANGED <<bundle, cache, summary, entry>>
  PROVE  Inv'
<1>1. /\ TypeOK /\ BundleInv /\ \A q \in Request : RequestInv(request[q])
      /\ cache # NoBody => Fresh(cache)
      /\ SummaryInv /\ Followed(entry)
  BY DEF Inv
<1>2. /\ root' = root /\ newest' = newest /\ commit' = commit
      /\ active' = active /\ cache' = cache /\ summary' = summary
      /\ entry' = entry
  BY DEF bundle
<1>3. request' \in [Request -> Reader]
  BY <1>1 DEF TypeOK
<1>4. \A q \in Request : RequestInv(request'[q])
  BY <1>1 DEF TypeOK
<1>5. (\A q \in Request : RequestInv(request[q]))'
  BY <1>2, <1>4, ZenonT(30) DEF RequestInv, Knows, Past, Fresh
<1>6. TypeOK'
  BY <1>1, <1>2, <1>3 DEF TypeOK
<1>7. BundleInv' /\ (cache # NoBody => Fresh(cache))'
  BY <1>1, <1>2 DEF BundleInv, Fresh, NoBody
<1>8. SummaryInv' /\ Followed(entry)'
  BY <1>1, <1>2 DEF SummaryInv, Followed, Knows
<1> QED
  BY <1>5, <1>6, <1>7, <1>8 DEF Inv

\* Who has just read the provenance knows it.
LEMMA KnowsNow ==
  ASSUME commit \in Nat, active \in Nat, commit = None <=> active = None,
         NEW read, read.serial = commit, read.names = active
  PROVE  Knows(read)
<1>1. active # 0 => 1 <= active
  OBVIOUS
<1>2. commit <= commit /\ active <= active
  OBVIOUS
<1> QED
  BY <1>1, <1>2, Zenon DEF Knows, None

LEMMA ServingInv ==
  ASSUME Inv, NEW r \in Request,
         \/ StampSelects(r) \/ StampsManifest(r) \/ StampsProvenance(r)
         \/ Hit(r) \/ Misses(r) \/ ReadsManifest(r) \/ Puts(r) \/ Sends(r)
  PROVE  Inv'
<1> DEFINE read == request[r]
<1>1. /\ root \in Nat /\ commit \in Nat /\ active \in Nat
      /\ commit = None <=> active = None
      /\ 1 <= root
  BY DEF Inv, TypeOK, BundleInv
<1>2. read \in Reader /\ RequestInv(read)
  BY DEF Inv, TypeOK
<1>3. /\ read.serial \in Nat /\ read.names \in Nat /\ read.manifest \in Nat
      /\ read.pages \in Nat /\ read.stamp \in Stamp
      /\ read.stamp[1] \in Nat /\ read.stamp[2] \in Nat
  BY <1>2 DEF Reader, Stamp
<1>4. Nothing \in Reader
  BY DEF Nothing, Reader, Place, Stamp, None
<1>5. ASSUME NEW from, NEW to \in Place, NEW next \in Reader,
             Reads(r, from, to, next), RequestInv([next EXCEPT !.at = to])
      PROVE  Inv'
  <2>1. [next EXCEPT !.at = to] \in Reader
    BY DEF Reader
  <2> QED
    BY <1>5, <2>1, ReadsInv DEF Reads
<1> HIDE DEF read
<1>6. CASE StampSelects(r)
  <2> DEFINE next == [Nothing EXCEPT !.serial = commit, !.names = active]
  <2>1. next \in Reader
    BY <1>1, <1>4 DEF Reader
  <2>2. Reads(r, "idle", "stamp manifest", next)
    BY <1>6 DEF StampSelects
  <2>3. next.serial = commit /\ next.names = active
    BY DEF Nothing
  <2> HIDE DEF next
  <2> DEFINE placed == [next EXCEPT !.at = "stamp manifest"]
  <2>4. /\ placed.at = "stamp manifest"
        /\ placed.serial = next.serial /\ placed.names = next.names
    BY <2>1 DEF Reader
  <2> HIDE DEF placed
  <2>5. Knows(placed)
    BY <1>1, <2>3, <2>4, KnowsNow
  <2>6. RequestInv(placed)
    BY <2>4, <2>5 DEF RequestInv
  <2> QED
    BY <1>5, <2>1, <2>2, <2>6 DEF Place, placed
<1>7. CASE StampsManifest(r)
  <2> DEFINE next ==
        [read EXCEPT !.stamp = <<Selected(read.serial, read.names), None>>]
  <2>1. Selected(read.serial, read.names) \in Nat
    BY <1>1, <1>3 DEF Selected
  <2>2. next \in Reader /\ next.stamp[1] = Selected(read.serial, read.names)
    BY <1>2, <2>1 DEF Reader, Stamp, None
  <2>3. read.at = "stamp manifest"
        /\ Reads(r, "stamp manifest", "stamp provenance", next)
    BY <1>7 DEF StampsManifest, Reads, read
  <2>4. commit = None => Selected(read.serial, read.names) <= root
    <3>1. Knows(read)
      BY <1>2, <2>3 DEF RequestInv
    <3> QED
      BY <1>1, <1>3, <3>1 DEF Knows, Selected, None
  <2> HIDE DEF next
  <2>5. [next EXCEPT !.at = "stamp provenance"].stamp = next.stamp
        /\ [next EXCEPT !.at = "stamp provenance"].at = "stamp provenance"
    BY <2>2 DEF Reader
  <2>6. RequestInv([next EXCEPT !.at = "stamp provenance"])
    BY <2>2, <2>4, <2>5 DEF RequestInv
  <2> QED
    BY <1>5, <2>2, <2>3, <2>6 DEF Place
<1>8. CASE StampsProvenance(r)
  <2> DEFINE next == [Nothing EXCEPT !.stamp = <<read.stamp[1], commit>>]
  <2>1. next \in Reader /\ next.stamp = <<read.stamp[1], commit>>
    BY <1>1, <1>3, <1>4 DEF Reader, Stamp
  <2>2. read.at = "stamp provenance"
        /\ Reads(r, "stamp provenance", "lookup", next)
    BY <1>8 DEF StampsProvenance, Reads, read
  <2>3. commit = None => read.stamp[1] <= root
    BY <1>2, <2>2 DEF RequestInv
  <2> HIDE DEF next
  <2>4. [next EXCEPT !.at = "lookup"].stamp = next.stamp
        /\ [next EXCEPT !.at = "lookup"].at = "lookup"
    BY <2>1 DEF Reader
  <2>5. RequestInv([next EXCEPT !.at = "lookup"])
    BY <1>1, <1>3, <2>1, <2>3, <2>4 DEF RequestInv, Past
  <2> QED
    BY <1>5, <2>1, <2>2, <2>5 DEF Place
<1>9. CASE Hit(r)
  <2> DEFINE next ==
        [Nothing EXCEPT !.manifest = cache.manifest, !.pages = cache.pages]
  <2>1. cache \in Bodies /\ Fresh(cache)
    BY <1>9 DEF Hit, Inv, TypeOK
  <2>2. next \in Reader /\ next.pages \in {None, next.manifest}
    BY <1>4, <2>1 DEF Reader, Bodies, Fresh
  <2>3. Reads(r, "lookup", "send", next)
    BY <1>9 DEF Hit
  <2> HIDE DEF next
  <2>4. /\ [next EXCEPT !.at = "send"].at = "send"
        /\ [next EXCEPT !.at = "send"].pages = next.pages
        /\ [next EXCEPT !.at = "send"].manifest = next.manifest
    BY <2>2 DEF Reader
  <2>5. RequestInv([next EXCEPT !.at = "send"])
    BY <2>2, <2>4 DEF RequestInv
  <2> QED
    BY <1>5, <2>2, <2>3, <2>5 DEF Place
<1>10. CASE Misses(r)
  <2> DEFINE next == [read EXCEPT !.serial = commit, !.names = active]
  <2>1. /\ next \in Reader /\ next.stamp = read.stamp
        /\ next.serial = commit /\ next.names = active
    BY <1>1, <1>2 DEF Reader
  <2>2. read.at = "lookup" /\ Reads(r, "lookup", "read manifest", next)
    BY <1>10 DEF Misses, Reads, read
  <2>3. Past(read.stamp)
    BY <1>2, <2>2 DEF RequestInv
  <2> HIDE DEF next
  <2> DEFINE placed == [next EXCEPT !.at = "read manifest"]
  <2>4. /\ placed.at = "read manifest" /\ placed.stamp = next.stamp
        /\ placed.serial = next.serial /\ placed.names = next.names
    BY <2>1 DEF Reader
  <2> HIDE DEF placed
  <2>5. Past(placed.stamp) /\ placed.stamp[2] <= placed.serial
    BY <1>1, <1>3, <2>1, <2>3, <2>4 DEF Past
  <2>6. Knows(placed)
    BY <1>1, <2>1, <2>4, KnowsNow
  <2>7. RequestInv(placed)
    BY <2>4, <2>5, <2>6 DEF RequestInv
  <2> QED
    BY <1>5, <2>1, <2>2, <2>7 DEF Place, placed
<1>11. CASE ReadsManifest(r)
  <2> DEFINE next == [Nothing EXCEPT
               !.manifest = Selected(read.serial, read.names),
               !.pages = read.names, !.stamp = read.stamp]
  <2>1. Selected(read.serial, read.names) \in Nat
    BY <1>1, <1>3 DEF Selected
  <2>2. /\ next \in Reader /\ next.stamp = read.stamp
        /\ next.manifest = Selected(read.serial, read.names)
        /\ next.pages = read.names
    BY <1>3, <1>4, <2>1 DEF Reader
  <2>3. read.at = "read manifest" /\ Reads(r, "read manifest", "put", next)
    BY <1>11 DEF ReadsManifest, Reads, read
  <2>4. Past(read.stamp) /\ Knows(read) /\ read.stamp[2] <= read.serial
    BY <1>2, <2>3 DEF RequestInv
  <2> HIDE DEF next
  <2> DEFINE placed == [next EXCEPT !.at = "put"]
  <2>5. /\ placed.at = "put" /\ placed.stamp = next.stamp
        /\ placed.manifest = next.manifest /\ placed.pages = next.pages
    BY <2>2 DEF Reader
  <2> HIDE DEF placed
  <2>6. Fresh(placed)
    BY <1>1, <1>3, <2>2, <2>4, <2>5 DEF Fresh, Past, Knows, Selected, None
  <2>7. RequestInv(placed)
    BY <2>5, <2>6 DEF RequestInv
  <2> QED
    BY <1>5, <2>2, <2>3, <2>7 DEF Place, placed
<1>12. CASE Puts(r)
  <2> DEFINE next == [read EXCEPT !.at = "send", !.stamp = <<None, None>>]
  <2>1. read.at = "put" /\ request' = [request EXCEPT ![r] = next]
        /\ cache' = Body(read, read.stamp)
        /\ UNCHANGED <<bundle, summary, entry>>
    BY <1>12 DEF Puts, read
  <2>2. Fresh(read)
    BY <1>2, <2>1 DEF RequestInv
  <2>3. /\ cache' \in Bodies /\ cache'.stamp = read.stamp
        /\ cache'.manifest = read.manifest /\ cache'.pages = read.pages
    BY <1>3, <2>1 DEF Body, Bodies
  <2>4. /\ next \in Reader /\ next.at = "send"
        /\ next.pages = read.pages /\ next.manifest = read.manifest
    BY <1>2 DEF Reader, Place, Stamp, None
  <2> HIDE DEF next
  <2>5. RequestInv(next)
    BY <2>2, <2>4 DEF RequestInv, Fresh
  <2>6. /\ root' = root /\ newest' = newest /\ commit' = commit
        /\ active' = active /\ summary' = summary /\ entry' = entry
    BY <2>1 DEF bundle
  <2>7. Fresh(cache)'
    BY <2>2, <2>3, <2>6 DEF Fresh
  <2>8. /\ TypeOK /\ BundleInv /\ \A q \in Request : RequestInv(request[q])
        /\ SummaryInv /\ Followed(entry)
    BY DEF Inv
  <2>9. request' \in [Request -> Reader]
        /\ \A q \in Request : RequestInv(request'[q])
    BY <2>1, <2>4, <2>5, <2>8 DEF TypeOK
  <2>10. TypeOK'
    BY <2>3, <2>6, <2>8, <2>9 DEF TypeOK
  <2>11. (\A q \in Request : RequestInv(request[q]))'
    BY <2>6, <2>9 DEF RequestInv, Knows, Past, Fresh
  <2>12. BundleInv' /\ SummaryInv' /\ Followed(entry)'
    BY <2>6, <2>8 DEF BundleInv, SummaryInv, Followed, Knows
  <2> QED
    BY <2>7, <2>10, <2>11, <2>12 DEF Inv
<1>13. CASE Sends(r)
  <2>1. RequestInv([Nothing EXCEPT !.at = "idle"])
    BY <1>4 DEF RequestInv, Reader
  <2>2. Reads(r, "send", "idle", Nothing)
    BY <1>13 DEF Sends
  <2> QED
    BY <1>4, <1>5, <2>1, <2>2 DEF Place
<1> QED
  BY <1>6, <1>7, <1>8, <1>9, <1>10, <1>11, <1>12, <1>13

-----------------------------------------------------------------------------
(* Summaries.                                                              *)

\* The conjunct of SummaryInv, of a reader.
SummaryOf(read) ==
  /\ read.at \in {"manifest", "pages", "stamp manifest"} => Knows(read)
  /\ read.at \in {"pages", "stamp manifest"} /\ read.serial # None =>
       read.manifest = read.names
  /\ read.at = "stamp manifest" /\ read.serial # None =>
       read.manifest <= read.pages /\ read.pages <= active
  /\ read.at = "stamp provenance" => Followed(read)

LEMMA SummarisesInv ==
  ASSUME Inv, NEW from, NEW to \in Place, NEW read \in Reader,
         Summarises(from, to, read), SummaryOf([read EXCEPT !.at = to])
  PROVE  Inv'
<1>1. /\ TypeOK /\ BundleInv /\ \A q \in Request : RequestInv(request[q])
      /\ cache # NoBody => Fresh(cache)
      /\ Followed(entry)
  BY DEF Inv
<1>2. /\ root' = root /\ newest' = newest /\ commit' = commit
      /\ active' = active /\ cache' = cache /\ request' = request
      /\ entry' = entry /\ summary' = [read EXCEPT !.at = to]
  BY DEF bundle, Summarises
<1>3. summary' \in Reader
  BY <1>2 DEF Reader
<1>4. TypeOK'
  BY <1>1, <1>2, <1>3 DEF TypeOK
<1>5. (\A q \in Request : RequestInv(request[q]))'
  BY <1>1, <1>2 DEF RequestInv, Knows, Past, Fresh
<1>6. BundleInv' /\ (cache # NoBody => Fresh(cache))' /\ Followed(entry)'
  BY <1>1, <1>2 DEF BundleInv, Fresh, NoBody, Followed
<1>7. SummaryOf(summary')
  BY <1>2
<1>8. SummaryInv'
  BY <1>2, <1>7 DEF SummaryInv, SummaryOf, Knows, Followed
<1> QED
  BY <1>4, <1>5, <1>6, <1>8 DEF Inv

LEMMA SummarisingInv ==
  ASSUME Inv, Opens \/ Summarising
  PROVE  Inv'
<1>1. /\ root \in Nat /\ commit \in Nat /\ active \in Nat
      /\ commit = None <=> active = None
  BY DEF Inv, TypeOK, BundleInv
<1>2. summary \in Reader /\ SummaryOf(summary)
  BY DEF Inv, TypeOK, SummaryInv, SummaryOf
<1>3. /\ summary.serial \in Nat /\ summary.names \in Nat
      /\ summary.manifest \in Nat /\ summary.pages \in Nat
      /\ summary.stamp \in Stamp
      /\ summary.stamp[1] \in Nat /\ summary.stamp[2] \in Nat
  BY <1>2 DEF Reader, Stamp
<1>4. Nothing \in Reader
  BY DEF Nothing, Reader, Place, Stamp, None
<1>5. CASE Opens
  <2> DEFINE next == [Nothing EXCEPT !.serial = commit, !.names = active]
  <2>1. next \in Reader /\ next.serial = commit /\ next.names = active
    BY <1>1, <1>4 DEF Reader, Nothing
  <2>2. Summarises("idle", "manifest", next)
    BY <1>5 DEF Opens
  <2> HIDE DEF next
  <2> DEFINE placed == [next EXCEPT !.at = "manifest"]
  <2>3. /\ placed.at = "manifest"
        /\ placed.serial = commit /\ placed.names = active
    BY <2>1 DEF Reader
  <2> HIDE DEF placed
  <2>4. Knows(placed)
    BY <1>1, <2>3, KnowsNow
  <2>5. SummaryOf(placed)
    BY <2>3, <2>4 DEF SummaryOf
  <2> QED
    BY <2>1, <2>2, <2>5, SummarisesInv DEF Place, placed
<1>6. CASE NoticesChange
  <2>1. Summarises("idle", "provenance", Nothing)
    BY <1>6 DEF NoticesChange
  <2>2. SummaryOf([Nothing EXCEPT !.at = "provenance"])
    BY DEF SummaryOf, Nothing
  <2> QED
    BY <1>4, <2>1, <2>2, SummarisesInv DEF Place
<1>7. CASE SummaryReadsProvenance
  <2> DEFINE next == [summary EXCEPT !.serial = commit, !.names = active]
  <2>1. next \in Reader /\ next.serial = commit /\ next.names = active
    BY <1>1, <1>2 DEF Reader
  <2>2. Summarises("provenance", "manifest", next)
    BY <1>7 DEF SummaryReadsProvenance
  <2> HIDE DEF next
  <2> DEFINE placed == [next EXCEPT !.at = "manifest"]
  <2>3. /\ placed.at = "manifest"
        /\ placed.serial = commit /\ placed.names = active
    BY <2>1 DEF Reader
  <2> HIDE DEF placed
  <2>4. Knows(placed)
    BY <1>1, <2>3, KnowsNow
  <2>5. SummaryOf(placed)
    BY <2>3, <2>4 DEF SummaryOf
  <2> QED
    BY <2>1, <2>2, <2>5, SummarisesInv DEF Place, placed
<1>8. CASE SummaryReadsManifest
  <2> DEFINE next == [summary EXCEPT
                        !.manifest = Selected(summary.serial, summary.names)]
  <2>1. /\ next \in Reader /\ next.serial = summary.serial
        /\ next.names = summary.names
        /\ next.manifest = Selected(summary.serial, summary.names)
    BY <1>1, <1>2, <1>3 DEF Reader, Selected
  <2>2. summary.at = "manifest" /\ Summarises("manifest", "pages", next)
    BY <1>8 DEF SummaryReadsManifest, Summarises
  <2>3. Knows(summary)
    BY <1>2, <2>2 DEF SummaryOf
  <2> HIDE DEF next
  <2> DEFINE placed == [next EXCEPT !.at = "pages"]
  <2>4. /\ placed.at = "pages" /\ placed.serial = summary.serial
        /\ placed.names = summary.names
        /\ placed.serial # None => placed.manifest = placed.names
    BY <2>1 DEF Reader, Selected
  <2> HIDE DEF placed
  <2>5. Knows(placed)
    BY <2>3, <2>4, Zenon DEF Knows
  <2>6. SummaryOf(placed)
    BY <2>4, <2>5 DEF SummaryOf
  <2> QED
    BY <2>1, <2>2, <2>6, SummarisesInv DEF Place, placed
<1>9. CASE SummaryReadsPages
  <2> DEFINE next == [summary EXCEPT !.pages = active]
  <2>1. /\ next \in Reader /\ next.serial = summary.serial
        /\ next.names = summary.names /\ next.manifest = summary.manifest
        /\ next.pages = active
    BY <1>1, <1>2 DEF Reader
  <2>2. summary.at = "pages" /\ Summarises("pages", "stamp manifest", next)
    BY <1>9 DEF SummaryReadsPages, Summarises
  <2>3. Knows(summary) /\ (summary.serial # None => summary.manifest = summary.names)
    BY <1>2, <2>2 DEF SummaryOf
  <2>4. summary.serial # None => summary.manifest <= active
    BY <1>3, <2>3 DEF Knows
  <2> HIDE DEF next
  <2> DEFINE placed == [next EXCEPT !.at = "stamp manifest"]
  <2>5. /\ placed.at = "stamp manifest" /\ placed.serial = summary.serial
        /\ placed.names = summary.names /\ placed.manifest = summary.manifest
        /\ placed.pages = active
    BY <2>1 DEF Reader
  <2> HIDE DEF placed
  <2>6. Knows(placed)
    BY <2>3, <2>5, Zenon DEF Knows
  <2>7. active <= active
    BY <1>1
  <2>8. SummaryOf(placed)
    BY <2>3, <2>4, <2>5, <2>6, <2>7, Zenon DEF SummaryOf
  <2> QED
    BY <2>1, <2>2, <2>8, SummarisesInv DEF Place, placed
<1>10. CASE SummaryStampsManifest
  <2> DEFINE next == [summary EXCEPT
               !.stamp = <<Selected(summary.serial, summary.names), None>>]
  <2>1. /\ next \in Reader /\ next.serial = summary.serial
        /\ next.manifest = summary.manifest /\ next.pages = summary.pages
        /\ next.stamp[1] = Selected(summary.serial, summary.names)
    BY <1>1, <1>2, <1>3 DEF Reader, Selected, Stamp, None
  <2>2. /\ summary.at = "stamp manifest"
        /\ Summarises("stamp manifest", "stamp provenance", next)
    BY <1>10 DEF SummaryStampsManifest, Summarises
  <2>3. /\ Knows(summary)
        /\ summary.serial # None =>
             /\ summary.manifest = summary.names
             /\ summary.manifest <= summary.pages /\ summary.pages <= active
    BY <1>2, <2>2 DEF SummaryOf
  <2>4. summary.serial <= commit
    BY <2>3 DEF Knows
  <2> HIDE DEF next
  <2> DEFINE placed == [next EXCEPT !.at = "stamp provenance"]
  <2>5. /\ placed.at = "stamp provenance" /\ placed.serial = summary.serial
        /\ placed.manifest = summary.manifest /\ placed.pages = summary.pages
        /\ placed.serial # None => placed.stamp[1] = summary.names
    BY <2>1 DEF Reader, Selected
  <2> HIDE DEF placed
  <2>6. Followed(placed)
    BY <2>3, <2>4, <2>5, Zenon DEF Followed
  <2>7. SummaryOf(placed)
    BY <2>5, <2>6 DEF SummaryOf
  <2> QED
    BY <2>1, <2>2, <2>7, SummarisesInv DEF Place, placed
<1>11. CASE SummaryDone
  <2>1. /\ TypeOK /\ BundleInv /\ \A q \in Request : RequestInv(request[q])
        /\ cache # NoBody => Fresh(cache)
        /\ Followed(entry)
    BY DEF Inv
  <2>2. /\ root' = root /\ newest' = newest /\ commit' = commit
        /\ active' = active /\ cache' = cache /\ request' = request
        /\ summary' = Nothing /\ summary.at = "stamp provenance"
    BY <1>11 DEF bundle, SummaryDone
  <2>3. Followed(summary)
    BY <1>2, <2>2 DEF SummaryOf
  <2>4. entry' \in Bodies /\ Followed(entry')
    <3>1. CASE commit = None
      BY <1>11, <2>1, <3>1 DEF SummaryDone, TypeOK
    <3>2. CASE commit # None
      <4>1. entry' = Body(summary, <<summary.stamp[1], commit>>)
        BY <1>11, <3>2 DEF SummaryDone
      <4>2. /\ entry' \in Bodies /\ entry'.serial = summary.serial
            /\ entry'.manifest = summary.manifest
            /\ entry'.pages = summary.pages
            /\ entry'.stamp[1] = summary.stamp[1]
        BY <1>1, <1>3, <4>1 DEF Body, Bodies, Stamp
      <4> QED
        BY <2>3, <4>2, Zenon DEF Followed
    <3> QED
      BY <3>1, <3>2
  <2>5. TypeOK'
    BY <1>4, <2>1, <2>2, <2>4 DEF TypeOK
  <2>6. (\A q \in Request : RequestInv(request[q]))'
    BY <2>1, <2>2 DEF RequestInv, Knows, Past, Fresh
  <2>7. BundleInv' /\ (cache # NoBody => Fresh(cache))'
    BY <2>1, <2>2 DEF BundleInv, Fresh, NoBody
  <2>8. Followed(entry)'
    BY <2>2, <2>4 DEF Followed
  <2>9. SummaryInv'
    BY <2>2 DEF SummaryInv, Nothing
  <2> QED
    BY <2>5, <2>6, <2>7, <2>8, <2>9 DEF Inv
<1> QED
  BY <1>5, <1>6, <1>7, <1>8, <1>9, <1>10, <1>11 DEF Summarising

-----------------------------------------------------------------------------
(* The theorems.                                                           *)

\* The inductive invariant: what a reader knows of the provenance it read,
\* and that contents are no older than the stamps they are kept under.
THEOREM InvHolds == Spec => []Inv
<1>1. Inv /\ [Next]_vars => Inv'
  <2> SUFFICES ASSUME Inv, [Next]_vars PROVE Inv'
    OBVIOUS
  <2>1. CASE Preserving
    BY <2>1, PreservingInv
  <2>2. CASE Serving
    BY <2>2, ServingInv DEF Serving
  <2>3. CASE Opens \/ Summarising
    BY <2>3, SummarisingInv
  <2>4. CASE UNCHANGED vars
    <3>1. /\ root' = root /\ newest' = newest /\ commit' = commit
          /\ active' = active /\ cache' = cache /\ request' = request
          /\ summary' = summary /\ entry' = entry
      BY <2>4 DEF vars, bundle
    <3>2. /\ TypeOK /\ BundleInv /\ \A q \in Request : RequestInv(request[q])
          /\ cache # NoBody => Fresh(cache)
          /\ SummaryInv /\ Followed(entry)
      BY DEF Inv
    <3>3. TypeOK' /\ BundleInv' /\ (cache # NoBody => Fresh(cache))'
      BY <3>1, <3>2 DEF TypeOK, BundleInv, Fresh, NoBody
    <3>4. (\A q \in Request : RequestInv(request[q]))'
      BY <3>1, <3>2 DEF RequestInv, Knows, Past, Fresh
    <3>5. SummaryInv' /\ Followed(entry)'
      BY <3>1, <3>2 DEF SummaryInv, Followed, Knows
    <3> QED
      BY <3>3, <3>4, <3>5 DEF Inv
  <2> QED
    BY <2>1, <2>2, <2>3, <2>4 DEF Next
<1> QED
  BY InitInv, <1>1, PTL DEF Spec

\* manifest_cache.go:10-12: what is cached under the bundle's present stamp is
\* what the bundle shows, however requests and commits overlap.
THEOREM CacheShowsTheBundle == Spec => []CacheIsCurrent
<1>1. Inv => CacheIsCurrent
  <2> SUFFICES ASSUME Inv, cache # NoBody, cache.stamp = CurrentStamp
               PROVE  cache.manifest = Selected(commit, active)
                      /\ cache.pages = active
    BY DEF CacheIsCurrent
  <2>1. Fresh(cache) /\ cache \in Bodies /\ root \in Nat
    BY DEF Inv, TypeOK
  <2>2. cache.stamp[1] = Selected(commit, active) /\ cache.stamp[2] = commit
    BY DEF CurrentStamp
  <2>3. cache.manifest \in Nat
    BY <2>1 DEF Bodies
  <2>4. CASE commit = None
    <3>1. cache.stamp[1] = root
      BY <2>2, <2>4 DEF Selected
    <3>2. root <= cache.manifest /\ cache.manifest <= root /\ cache.pages = active
      BY <2>1, <2>2, <2>4, <3>1 DEF Fresh
    <3>3. cache.manifest = root
      BY <2>1, <2>3, <3>2
    <3> QED
      BY <2>4, <3>2, <3>3 DEF Selected
  <2>5. CASE commit # None
    BY <2>1, <2>2, <2>5 DEF Fresh, Selected
  <2> QED
    BY <2>4, <2>5
<1> QED
  BY InvHolds, <1>1, PTL

\* rewrite.go:38-40: no request is answered with the manifest of one edition
\* and the pages of another.
THEOREM OneEditionIsSent == Spec => []BodyIsOneEdition
<1>1. Inv => BodyIsOneEdition
  BY DEF Inv, RequestInv, BodyIsOneEdition
<1> QED
  BY InvHolds, <1>1, PTL

\* viewer.go:395-397: an entry under the bundle's present stamp, read from a
\* bundle with provenance, shows the bundle.
THEOREM EntryShowsTheBundle == Spec => []EntryIsCurrent
<1>1. Inv => EntryIsCurrent
  <2> SUFFICES ASSUME Inv, entry.serial # None, entry.stamp = CurrentStamp
               PROVE  entry.manifest = Selected(commit, active)
                      /\ entry.pages = active
    BY DEF EntryIsCurrent, Informed
  <2>1. /\ Followed(entry) /\ entry \in Bodies
        /\ commit \in Nat /\ active \in Nat
    BY DEF Inv, TypeOK
  <2>2. /\ entry.serial \in Nat /\ entry.manifest \in Nat
        /\ entry.pages \in Nat
    BY <2>1 DEF Bodies
  <2>3. /\ entry.serial <= commit /\ entry.stamp[1] = entry.manifest
        /\ entry.manifest <= entry.pages /\ entry.pages <= active
    BY <2>1 DEF Followed
  <2>4. commit # None
    BY <2>1, <2>2, <2>3 DEF None
  <2>5. entry.stamp[1] = active /\ Selected(commit, active) = active
    BY <2>4 DEF CurrentStamp, Selected
  <2>6. entry.manifest = active
    BY <2>3, <2>5
  <2>7. entry.pages = active
    BY <2>1, <2>2, <2>3, <2>6
  <2> QED
    BY <2>5, <2>6, <2>7
<1> QED
  BY InvHolds, <1>1, PTL
=============================================================================
