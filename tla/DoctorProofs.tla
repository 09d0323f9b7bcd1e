---------------------------- MODULE DoctorProofs ----------------------------
(***************************************************************************)
(* Proofs of the properties of Doctor, for every set of resources, every   *)
(* manifest and answer of the servers, and every bound.                    *)
(*                                                                         *)
(* The argument: as long as nothing has failed, what was taken off the     *)
(* queue is kept, and what the kept documents refer to has been taken or   *)
(* is still on the queue.  A walk that ends without a failure has an empty *)
(* queue, so the resources it took are closed under references.            *)
(***************************************************************************)
EXTENDS Doctor, FiniteSetTheorems, TLAPS

\* A record: its file is one of its URL.
Record == [file : File, kind : Kind, content : Content]

Records(f) ==
  /\ DOMAIN f \subseteq Resource
  /\ \A u \in DOMAIN f : f[u] \in Record /\ f[u].file[1] = u

\* The variables keep their types.
TypeOK ==
  /\ active # None => active \in SUBSET Reference
  /\ Records(linked)
  /\ files \in [File -> Content \cup {None}]
  /\ walk = [at |-> walk.at, incoming |-> walk.incoming, queue |-> walk.queue,
              seen |-> walk.seen, kept |-> walk.kept, failed |-> walk.failed]
  /\ walk.at \in {"idle", "walk", "commit"}
  /\ walk.incoming \in SUBSET Reference
  /\ walk.queue \in Seq(Reference)
  /\ walk.seen \in SUBSET Resource
  /\ Records(walk.kept)
  /\ losses \in Nat

\* What the records f say the resource u refers to.
Refers(f, u) ==
  IF f[u].kind = "annotation" /\ f[u].content.form = "graph"
  THEN Urls(f[u].content.refs) ELSE {}

\* S is on record, holds the references refs and all it refers to itself.
Closed(S, refs, f) ==
  /\ S \subseteq DOMAIN f
  /\ Urls(refs) \subseteq S
  /\ \A u \in S : Refers(f, u) \subseteq S

Matches(f, S) == \A u \in S : files[f[u].file] = f[u].content

Queued == {walk.queue[i].url : i \in DOMAIN walk.queue}

\* What the walk has met and not yet taken is on the queue.
WalkInv ==
  walk.at = "walk" =>
    /\ walk.seen \subseteq DOMAIN walk.kept \cup walk.failed
    /\ DOMAIN walk.kept \subseteq walk.seen
    /\ Urls(walk.incoming) \subseteq walk.seen \cup Queued
    /\ \A u \in DOMAIN walk.kept : Refers(walk.kept, u) \subseteq walk.seen \cup Queued
    /\ losses = 0 => Matches(walk.kept, DOMAIN walk.kept)

\* The walk to be committed.
CommitInv ==
  walk.at = "commit" =>
    /\ DOMAIN linked \subseteq DOMAIN walk.kept \cup walk.failed
    /\ walk.failed = {} =>
         \E S \in SUBSET Resource :
           /\ Closed(S, walk.incoming, walk.kept)
           /\ losses = 0 => Matches(walk.kept, S)

CommittedInv ==
  active # None /\ failures = {} =>
    \E S \in SUBSET Resource : Closed(S, active, linked)

Inv == TypeOK /\ WalkInv /\ CommitInv /\ CommittedInv

-----------------------------------------------------------------------------
\* A sequence of a finite set's elements, each once, has them all.
LEMMA SeqOfSetHasAll ==
  ASSUME NEW S, IsFiniteSet(S), NEW s \in SetToSeqs(S)
  PROVE  /\ s \in Seq(S)
         /\ \A x \in S : \E i \in DOMAIN s : s[i] = x
<1> DEFINE n == Cardinality(S)
<1>1. n \in Nat
  BY FS_CardinalityType
<1>2. s \in Injection(1..n, S)
  BY DEF SetToSeqs, Injection, IsInjective
<1>3. Cardinality(1..n) = n /\ IsFiniteSet(1..n)
  BY <1>1, FS_Interval
<1>4. s \in Surjection(1..n, S)
  BY <1>2, <1>3, FS_Injection
<1>5. s \in [1..n -> S]
  BY <1>2 DEF Injection
<1>6. s \in Seq(S)
  BY <1>1, <1>5
<1> QED
  BY <1>4, <1>5, <1>6 DEF Surjection

\* Discovery finds every URL that is referred to, and no other.
LEMMA DiscoveredFindsAll ==
  ASSUME NEW refs \in SUBSET Reference, NEW found \in Discovered(refs)
  PROVE  /\ found \in Seq(Reference)
         /\ Urls(refs) \subseteq {found[i].url : i \in DOMAIN found}
<1>1. PICK kind \in [Urls(refs) -> Kind] :
        /\ \A u \in Urls(refs) : [url |-> u, kind |-> kind[u]] \in refs
        /\ found \in SetToSeqs({[url |-> u, kind |-> kind[u]] : u \in Urls(refs)})
  BY DEF Discovered
<1> DEFINE T == {[url |-> u, kind |-> kind[u]] : u \in Urls(refs)}
           f == [u \in Urls(refs) |-> [url |-> u, kind |-> kind[u]]]
<1>0. found \in SetToSeqs(T)
  BY <1>1
<1>2. Urls(refs) \subseteq Resource
  BY DEF Urls, Reference
<1>3. IsFiniteSet(Urls(refs))
  BY <1>2, FS_Subset, LinkedResourcesAssumption
<1>4. f \in Surjection(Urls(refs), T)
  BY DEF Surjection
<1>5. IsFiniteSet(T)
  BY <1>3, <1>4, FS_Surjection
<1>6. T \subseteq Reference
  BY <1>1
<1> HIDE DEF T
<1>7. found \in Seq(T) /\ \A x \in T : \E i \in DOMAIN found : found[i] = x
  BY <1>0, <1>5, SeqOfSetHasAll
<1>8. found \in Seq(Reference)
  BY <1>6, <1>7
<1>9. ASSUME NEW u \in Urls(refs)
      PROVE  \E i \in DOMAIN found : found[i].url = u
  <2>1. [url |-> u, kind |-> kind[u]] \in T
    BY DEF T
  <2>2. PICK i \in DOMAIN found : found[i] = [url |-> u, kind |-> kind[u]]
    BY <1>7, <2>1
  <2> QED
    BY <2>2
<1> QED
  BY <1>8, <1>9

LEMMA InitInv == Init => Inv
<1> SUFFICES ASSUME Init PROVE Inv
  OBVIOUS
<1>1. DOMAIN <<>> = {}
  OBVIOUS
<1>2. Records(<<>>)
  BY <1>1 DEF Records
<1>3. /\ walk = Idle /\ active = None /\ linked = <<>> /\ losses = 0
      /\ files = [f \in File |-> None]
  BY DEF Init
<1>4. TypeOK
  BY <1>2, <1>3 DEF TypeOK, Idle
<1> QED
  BY <1>3, <1>4 DEF Inv, WalkInv, CommitInv, CommittedInv, Idle

-----------------------------------------------------------------------------
LEMMA BesideHasBoth ==
  ASSUME NEW f, NEW g
  PROVE  /\ DOMAIN Beside(f, g) = DOMAIN f \cup DOMAIN g
         /\ \A u \in DOMAIN f : Beside(f, g)[u] = f[u]
         /\ \A u \in DOMAIN g \ DOMAIN f : Beside(f, g)[u] = g[u]
         /\ Records(f) /\ Records(g) => Records(Beside(f, g))
<1>1. /\ DOMAIN Beside(f, g) = DOMAIN f \cup DOMAIN g
      /\ \A u \in DOMAIN f : Beside(f, g)[u] = f[u]
      /\ \A u \in DOMAIN g \ DOMAIN f : Beside(f, g)[u] = g[u]
  BY DEF Beside
<1>2. ASSUME Records(f), Records(g) PROVE Records(Beside(f, g))
  BY <1>1, <1>2 DEF Records
<1> QED
  BY <1>1, <1>2

\* What a document refers to by its record is what is put on the queue.
LEMMA NestedIsReferred ==
  ASSUME NEW r \in Reference, NEW content \in Content,
         NEW nested \in Nested(r, content)
  PROVE  /\ nested \in Seq(Reference)
         /\ r.kind = "annotation" /\ content.form = "graph" =>
              Urls(content.refs) \subseteq {nested[i].url : i \in DOMAIN nested}
<1>1. CASE r.kind = "annotation" /\ content.form = "graph"
  <2>1. nested \in Discovered(content.refs) /\ content.refs \in SUBSET Reference
    BY <1>1 DEF Nested, Content
  <2> QED
    BY <2>1, DiscoveredFindsAll
<1>2. CASE ~(r.kind = "annotation" /\ content.form = "graph")
  <2>1. nested = <<>>
    BY <1>2 DEF Nested
  <2>2. <<>> \in Seq(Reference)
    OBVIOUS
  <2> QED
    BY <1>2, <2>1, <2>2
<1> QED
  BY <1>1, <1>2

LEMMA QueueMoves ==
  ASSUME NEW q \in Seq(Reference), q # <<>>, NEW s \in Seq(Reference)
  PROVE  LET urls(t) == {t[i].url : i \in DOMAIN t} IN
         /\ Head(q) \in Reference
         /\ Tail(q) \in Seq(Reference)
         /\ Tail(q) \o s \in Seq(Reference)
         /\ urls(q) \subseteq {Head(q).url} \cup urls(Tail(q))
         /\ urls(Tail(q)) \cup urls(s) \subseteq urls(Tail(q) \o s)
<1> DEFINE urls(t) == {t[i].url : i \in DOMAIN t}
<1>1. Head(q) \in Reference /\ Tail(q) \in Seq(Reference)
  OBVIOUS
<1>2. Tail(q) \o s \in Seq(Reference)
  BY <1>1
<1>3. urls(q) \subseteq {Head(q).url} \cup urls(Tail(q))
  <2>1. ASSUME NEW i \in DOMAIN q
        PROVE  q[i].url \in {Head(q).url} \cup urls(Tail(q))
    <3>1. CASE i = 1
      BY <3>1
    <3>2. CASE i # 1
      <4>1. i - 1 \in DOMAIN Tail(q) /\ Tail(q)[i - 1] = q[i]
        BY <3>2
      <4> QED
        BY <4>1
    <3> QED
      BY <3>1, <3>2
  <2> QED
    BY <2>1
<1>4. urls(Tail(q)) \subseteq urls(Tail(q) \o s)
  <2> DEFINE t == Tail(q)
  <2>1. ASSUME NEW t1 \in Seq(Reference), NEW i \in DOMAIN t1
        PROVE  i \in DOMAIN (t1 \o s) /\ (t1 \o s)[i] = t1[i]
    OBVIOUS
  <2>2. ASSUME NEW i \in DOMAIN t PROVE t[i].url \in urls(t \o s)
    <3> HIDE DEF t
    <3>1. t \in Seq(Reference)
      BY <1>1 DEF t
    <3>2. i \in DOMAIN (t \o s) /\ (t \o s)[i] = t[i]
      BY <2>1, <3>1
    <3> QED
      BY <3>2
  <2> QED
    BY <2>2
<1>5. urls(s) \subseteq urls(Tail(q) \o s)
  <2> DEFINE t == Tail(q)
  <2>1. ASSUME NEW t1 \in Seq(Reference), NEW i \in DOMAIN s
        PROVE  Len(t1) + i \in DOMAIN (t1 \o s) /\ (t1 \o s)[Len(t1) + i] = s[i]
    OBVIOUS
  <2>2. ASSUME NEW i \in DOMAIN s PROVE s[i].url \in urls(t \o s)
    <3> HIDE DEF t
    <3>1. t \in Seq(Reference)
      BY <1>1 DEF t
    <3>2. Len(t) + i \in DOMAIN (t \o s) /\ (t \o s)[Len(t) + i] = s[i]
      BY <2>1, <3>1
    <3> QED
      BY <3>2
  <2> QED
    BY <2>2
<1> QED
  BY <1>1, <1>2, <1>3, <1>4, <1>5

-----------------------------------------------------------------------------
(* The walk.                                                               *)

\* Only the walk moves: the commit it works for is not touched.
LEMMA CommittedStays ==
  ASSUME CommittedInv, UNCHANGED <<active, linked, failures>>
  PROVE  CommittedInv'
<1>1. active' = active /\ linked' = linked /\ failures' = failures
  OBVIOUS
<1> QED
  BY <1>1 DEF CommittedInv, Closed, Refers

\* A resource that is kept, reused or fetched.
LEMMA KeepInv ==
  ASSUME Inv, NEW r \in Reference, Takes(r),
         NEW entry \in Record, entry.file[1] = r.url, entry.kind = r.kind,
         Keep(r, entry),
         files' \in [File -> Content \cup {None}],
         files'[entry.file] = entry.content,
         \A file \in File : file[1] # r.url => files'[file] = files[file],
         UNCHANGED <<active, linked, failures, losses>>
  PROVE  Inv'
<1>1. PICK nested \in Nested(r, entry.content) :
        walk' = [walk EXCEPT !.queue = Tail(@) \o nested,
                             !.seen = @ \cup {r.url},
                             !.kept = Beside([u \in {r.url} |-> entry], @)]
  BY DEF Keep
<1> DEFINE one == [u \in {r.url} |-> entry]
           kept == Beside(one, walk.kept)
           urls(t) == {t[i].url : i \in DOMAIN t}
<1>2. TypeOK /\ WalkInv /\ CommittedInv
  BY DEF Inv
<1>3. /\ walk.at = "walk" /\ walk.queue # <<>> /\ walk.queue \in Seq(Reference)
      /\ r = Head(walk.queue) /\ r.url \notin walk.seen
  BY <1>2 DEF Takes, More, TypeOK
<1>4. r.url \in Resource /\ entry.content \in Content
  BY DEF Reference, Record
<1>5. /\ nested \in Seq(Reference)
      /\ r.kind = "annotation" /\ entry.content.form = "graph" =>
           Urls(entry.content.refs) \subseteq urls(nested)
  BY <1>4, NestedIsReferred
<1>6. /\ Tail(walk.queue) \o nested \in Seq(Reference)
      /\ urls(walk.queue) \subseteq {r.url} \cup urls(Tail(walk.queue))
      /\ urls(Tail(walk.queue)) \cup urls(nested)
           \subseteq urls(Tail(walk.queue) \o nested)
  BY <1>3, <1>5, QueueMoves
<1>7. Records(one)
  BY <1>4 DEF Records
<1>8. Records(walk.kept)
  BY <1>2 DEF TypeOK
<1>9. /\ DOMAIN one = {r.url} /\ one[r.url] = entry
  OBVIOUS
<1>10. r.url \notin DOMAIN walk.kept
  BY <1>2, <1>3 DEF WalkInv
<1> HIDE DEF one
<1>11. /\ DOMAIN kept = {r.url} \cup DOMAIN walk.kept
       /\ kept[r.url] = entry
       /\ \A u \in DOMAIN walk.kept : kept[u] = walk.kept[u]
       /\ Records(kept)
  <2>1. /\ DOMAIN kept = DOMAIN one \cup DOMAIN walk.kept
        /\ \A u \in DOMAIN one : kept[u] = one[u]
        /\ \A u \in DOMAIN walk.kept \ DOMAIN one : kept[u] = walk.kept[u]
    BY BesideHasBoth, ZenonT(30)
  <2>2. Records(kept)
    BY <1>7, <1>8, BesideHasBoth
  <2> HIDE DEF kept
  <2> QED
    BY <1>9, <1>10, <2>1, <2>2
<1>12. walk' = [at |-> walk.at, incoming |-> walk.incoming,
                queue |-> Tail(walk.queue) \o nested,
                seen |-> walk.seen \cup {r.url}, kept |-> kept,
                failed |-> walk.failed]
  BY <1>1, <1>2 DEF TypeOK, one
<1> HIDE DEF kept
<1>13. /\ walk'.at = walk.at /\ walk'.incoming = walk.incoming
       /\ walk'.queue = Tail(walk.queue) \o nested
       /\ walk'.seen = walk.seen \cup {r.url} /\ walk'.kept = kept
       /\ walk'.failed = walk.failed
       /\ walk' = [at |-> walk'.at, incoming |-> walk'.incoming,
                   queue |-> walk'.queue, seen |-> walk'.seen,
                   kept |-> walk'.kept, failed |-> walk'.failed]
  BY <1>12
<1>14. TypeOK'
  BY <1>2, <1>4, <1>6, <1>11, <1>13 DEF TypeOK, Records
<1>15. WalkInv'
  <2>1. /\ walk.seen \subseteq DOMAIN walk.kept \cup walk.failed
        /\ DOMAIN walk.kept \subseteq walk.seen
        /\ Urls(walk.incoming) \subseteq walk.seen \cup urls(walk.queue)
        /\ \A u \in DOMAIN walk.kept :
             Refers(walk.kept, u) \subseteq walk.seen \cup urls(walk.queue)
        /\ losses = 0 => Matches(walk.kept, DOMAIN walk.kept)
    BY <1>2, <1>3 DEF WalkInv, Queued
  <2>2. Queued' = urls(Tail(walk.queue) \o nested)
    BY <1>13 DEF Queued
  <2>3. walk.seen \cup urls(walk.queue) \subseteq walk'.seen \cup Queued'
    BY <1>6, <1>13, <2>2
  <2>4. walk'.seen \subseteq DOMAIN walk'.kept \cup walk'.failed
        /\ DOMAIN walk'.kept \subseteq walk'.seen
    BY <1>11, <1>13, <2>1
  <2>5. Urls(walk'.incoming) \subseteq walk'.seen \cup Queued'
    BY <1>13, <2>1, <2>3
  <2>6. ASSUME NEW u \in DOMAIN kept
        PROVE  Refers(kept, u) \subseteq walk'.seen \cup Queued'
    <3>1. CASE u = r.url
      <4>1. Refers(kept, u) \subseteq urls(nested)
        BY <1>5, <1>11, <3>1 DEF Refers
      <4> QED
        BY <1>6, <2>2, <4>1
    <3>2. CASE u \in DOMAIN walk.kept
      <4>1. Refers(kept, u) = Refers(walk.kept, u)
        BY <1>11, <3>2 DEF Refers
      <4> QED
        BY <2>1, <2>3, <3>2, <4>1
    <3> QED
      BY <1>11, <3>1, <3>2
  <2>7. ASSUME losses' = 0, NEW u \in DOMAIN kept
        PROVE  files'[kept[u].file] = kept[u].content
    <3>1. CASE u = r.url
      BY <1>11, <3>1
    <3>2. CASE u \in DOMAIN walk.kept
      <4>1. /\ kept[u] = walk.kept[u] /\ kept[u].file[1] = u
            /\ kept[u].file \in File /\ u # r.url
        BY <1>10, <1>11, <3>2 DEF Records, Record
      <4>2. files[kept[u].file] = kept[u].content
        BY <2>1, <2>7, <3>2, <4>1 DEF Matches
      <4> QED
        BY <4>1, <4>2
    <3> QED
      BY <1>11, <3>1, <3>2
  <2> QED
    BY <1>13, <2>4, <2>5, <2>6, <2>7 DEF WalkInv, Refers, Matches, Urls
<1>16. CommitInv'
  BY <1>3, <1>13 DEF CommitInv
<1>17. CommittedInv'
  BY <1>2, CommittedStays
<1> QED
  BY <1>14, <1>15, <1>16, <1>17 DEF Inv

LEMMA StartInv ==
  ASSUME Inv, NEW edition \in Editions, Start(edition)
  PROVE  Inv'
<1>1. TypeOK /\ CommittedInv
  BY DEF Inv
<1>2. edition \in SUBSET Reference
  BY LinkedResourcesAssumption
<1>3. PICK found \in Discovered(edition) :
        walk' = [Idle EXCEPT !.at = "walk", !.incoming = edition, !.queue = found]
  BY DEF Start
<1>4. /\ active' = active /\ linked' = linked /\ failures' = failures
      /\ files' = files /\ losses' = losses
  BY DEF Start
<1>5. /\ found \in Seq(Reference)
      /\ Urls(edition) \subseteq {found[i].url : i \in DOMAIN found}
  BY <1>2, DiscoveredFindsAll
<1>6. walk' = [at |-> "walk", incoming |-> edition, queue |-> found,
               seen |-> {}, kept |-> <<>>, failed |-> {}]
  BY <1>3 DEF Idle
<1>7. DOMAIN <<>> = {} /\ Records(<<>>)
  BY DEF Records
<1>8. Records(linked)' /\ Records(walk.kept)'
  <2>1. Records(linked)
    BY <1>1 DEF TypeOK
  <2> QED
    BY <1>4, <1>6, <1>7, <2>1 DEF Records
<1>9. TypeOK'
  BY <1>1, <1>2, <1>4, <1>5, <1>6, <1>8 DEF TypeOK
<1>10. WalkInv'
  <2>1. Queued' = {found[i].url : i \in DOMAIN found}
    BY <1>6 DEF Queued
  <2> QED
    BY <1>5, <1>6, <1>7, <2>1 DEF WalkInv, Matches, Urls
<1>11. CommitInv'
  BY <1>6 DEF CommitInv
<1>12. CommittedInv'
  BY <1>1, <1>4, CommittedStays
<1> QED
  BY <1>9, <1>10, <1>11, <1>12 DEF Inv

\* The next resource leaves the queue and is not kept: it was taken before,
\* or it failed.
Drops(failed) ==
  walk' = [walk EXCEPT !.queue = Tail(@),
                       !.seen = @ \cup {Head(walk.queue).url},
                       !.failed = failed]

LEMMA DropInv ==
  ASSUME Inv, walk.at = "walk", More, NEW failed, Drops(failed),
         walk.failed \subseteq failed,
         Head(walk.queue).url \in walk.seen \cup failed,
         UNCHANGED <<active, linked, failures, files, losses>>
  PROVE  Inv'
<1>1. TypeOK /\ WalkInv /\ CommittedInv
  BY DEF Inv
<1>2. walk.queue # <<>> /\ walk.queue \in Seq(Reference)
  BY <1>1 DEF More, TypeOK
<1> DEFINE url == Head(walk.queue).url
           urls(t) == {t[i].url : i \in DOMAIN t}
<1>3. <<>> \in Seq(Reference)
  OBVIOUS
<1>4. /\ Tail(walk.queue) \in Seq(Reference) /\ url \in Resource
      /\ urls(walk.queue) \subseteq {url} \cup urls(Tail(walk.queue))
  BY <1>2, <1>3, QueueMoves DEF Reference
<1>5. walk' = [at |-> walk.at, incoming |-> walk.incoming,
               queue |-> Tail(walk.queue), seen |-> walk.seen \cup {url},
               kept |-> walk.kept, failed |-> failed]
  BY <1>1 DEF TypeOK, Drops
<1>6. /\ active' = active /\ linked' = linked /\ failures' = failures
      /\ files' = files /\ losses' = losses
  OBVIOUS
<1> HIDE DEF url
<1>7. /\ walk'.at = walk.at /\ walk'.incoming = walk.incoming
      /\ walk'.queue = Tail(walk.queue)
      /\ walk'.seen = walk.seen \cup {url} /\ walk'.kept = walk.kept
      /\ walk'.failed = failed
      /\ walk' = [at |-> walk'.at, incoming |-> walk'.incoming,
                  queue |-> walk'.queue, seen |-> walk'.seen,
                  kept |-> walk'.kept, failed |-> walk'.failed]
  BY <1>5
<1>8. TypeOK'
  BY <1>1, <1>4, <1>6, <1>7 DEF TypeOK, Records
<1>9. WalkInv'
  <2>1. /\ walk.seen \subseteq DOMAIN walk.kept \cup walk.failed
        /\ DOMAIN walk.kept \subseteq walk.seen
        /\ Urls(walk.incoming) \subseteq walk.seen \cup urls(walk.queue)
        /\ \A u \in DOMAIN walk.kept :
             Refers(walk.kept, u) \subseteq walk.seen \cup urls(walk.queue)
        /\ losses = 0 => Matches(walk.kept, DOMAIN walk.kept)
    BY <1>1 DEF WalkInv, Queued
  <2>2. Queued' = urls(Tail(walk.queue))
    BY <1>7 DEF Queued
  <2>3. walk.seen \cup urls(walk.queue) \subseteq walk'.seen \cup Queued'
    BY <1>4, <1>7, <2>2
  <2>4. url \in walk.seen \cup failed
    BY DEF url
  <2>5. /\ walk'.seen \subseteq DOMAIN walk'.kept \cup walk'.failed
        /\ DOMAIN walk'.kept \subseteq walk'.seen
    BY <1>7, <2>1, <2>4
  <2>6. Urls(walk'.incoming) \subseteq walk'.seen \cup Queued'
    BY <1>7, <2>1, <2>3
  <2>7. \A u \in DOMAIN walk.kept :
          Refers(walk.kept, u) \subseteq walk'.seen \cup Queued'
    BY <2>1, <2>3
  <2>8. losses' = 0 =>
          \A u \in DOMAIN walk.kept :
            files'[walk.kept[u].file] = walk.kept[u].content
    BY <1>6, <2>1 DEF Matches
  <2> QED
    BY <1>7, <2>5, <2>6, <2>7, <2>8 DEF WalkInv, Refers, Matches, Urls
<1>10. CommitInv'
  BY <1>7 DEF CommitInv
<1>11. CommittedInv'
  BY <1>1, CommittedStays
<1> QED
  BY <1>8, <1>9, <1>10, <1>11 DEF Inv

LEMMA SkipSeenInv == Inv /\ SkipSeen => Inv'
<1> SUFFICES ASSUME Inv, SkipSeen PROVE Inv'
  OBVIOUS
<1>1. /\ walk.at = "walk" /\ More /\ Head(walk.queue).url \in walk.seen
      /\ walk' = [walk EXCEPT !.queue = Tail(@)]
      /\ UNCHANGED <<active, linked, failures, files, losses>>
  BY DEF SkipSeen
<1>2. Drops(walk.failed)
  <2>1. walk.seen \cup {Head(walk.queue).url} = walk.seen
    BY <1>1
  <2>2. walk = [at |-> walk.at, incoming |-> walk.incoming,
                queue |-> walk.queue, seen |-> walk.seen,
                kept |-> walk.kept, failed |-> walk.failed]
    BY DEF Inv, TypeOK
  <2> QED
    BY <1>1, <2>1, <2>2 DEF Drops
<1> QED
  BY <1>1, <1>2, DropInv

LEMMA FetchFailsInv ==
  ASSUME Inv, NEW r \in Reference, FetchFails(r)
  PROVE  Inv'
<1>1. /\ walk.at = "walk" /\ More /\ r = Head(walk.queue)
      /\ walk' = [walk EXCEPT !.queue = Tail(@), !.seen = @ \cup {r.url},
                              !.failed = @ \cup {r.url}]
      /\ UNCHANGED <<active, linked, failures, files, losses>>
  BY DEF FetchFails, Takes
<1>2. Drops(walk.failed \cup {r.url})
  BY <1>1 DEF Drops
<1>3. /\ walk.failed \subseteq walk.failed \cup {r.url}
      /\ Head(walk.queue).url \in walk.seen \cup (walk.failed \cup {r.url})
  BY <1>1
<1> QED
  BY <1>1, <1>2, <1>3, DropInv

LEMMA FileIsKnown ==
  ASSUME TypeOK, NEW r \in Reference
  PROVE  /\ FileOf(r) \in File /\ FileOf(r)[1] = r.url
         /\ Known(r).file \in File /\ Known(r).file[1] = r.url
<1>1. r.url \in Resource
  BY DEF Reference
<1>2. FileOf(r) \in File /\ FileOf(r)[1] = r.url
  BY <1>1 DEF FileOf, File
<1>3. CASE r.url \in DOMAIN linked
  <2>1. linked[r.url] \in Record /\ linked[r.url].file[1] = r.url
    BY <1>3 DEF TypeOK, Records
  <2> QED
    BY <1>2, <1>3, <2>1 DEF Known, Record
<1>4. CASE r.url \notin DOMAIN linked
  BY <1>2, <1>4 DEF Known, Entry
<1> QED
  BY <1>2, <1>3, <1>4

LEMMA ReuseInv ==
  ASSUME Inv, NEW r \in Reference, Reuse(r)
  PROVE  Inv'
<1> DEFINE file == Known(r).file
           entry == Entry(r, file, files[file])
<1>1. TypeOK
  BY DEF Inv
<1>2. file \in File /\ file[1] = r.url
  BY <1>1, FileIsKnown
<1>3. /\ Takes(r) /\ files[file] # None /\ Keep(r, entry)
      /\ UNCHANGED <<active, linked, failures, files, losses>>
  BY DEF Reuse, Reusable
<1> HIDE DEF file
<1>4. files \in [File -> Content \cup {None}] /\ files[file] \in Content
  BY <1>1, <1>2, <1>3 DEF TypeOK
<1>5. /\ entry \in Record /\ entry.file = file /\ entry.kind = r.kind
      /\ entry.content = files[file]
  BY <1>2, <1>4 DEF Entry, Record, Reference
<1> HIDE DEF entry
<1>6. entry.file[1] = r.url
  BY <1>2, <1>5
<1>7. files' = files
  BY <1>3
<1>8. /\ files' \in [File -> Content \cup {None}]
      /\ files'[entry.file] = entry.content
      /\ \A f \in File : f[1] # r.url => files'[f] = files[f]
  BY <1>4, <1>5, <1>7
<1>9. UNCHANGED <<active, linked, failures, losses>>
  BY <1>3
<1> QED
  BY <1>3, <1>5, <1>6, <1>8, <1>9, KeepInv

LEMMA FetchInv ==
  ASSUME Inv, NEW r \in Reference, NEW content \in Served[r.url],
         Fetch(r, content)
  PROVE  Inv'
<1> DEFINE entry == Entry(r, FileOf(r), content)
<1>1. TypeOK
  BY DEF Inv
<1>2. FileOf(r) \in File /\ FileOf(r)[1] = r.url
  BY <1>1, FileIsKnown
<1>3. content \in Content
  BY LinkedResourcesAssumption DEF Reference
<1>4. /\ Takes(r) /\ Keep(r, entry)
      /\ files' = [files EXCEPT ![FileOf(r)] = content]
      /\ UNCHANGED <<active, linked, failures, losses>>
  BY DEF Fetch
<1>5. /\ entry \in Record /\ entry.file = FileOf(r) /\ entry.kind = r.kind
      /\ entry.content = content
  BY <1>2, <1>3 DEF Entry, Record, Reference
<1> HIDE DEF entry
<1>6. /\ files' \in [File -> Content \cup {None}]
      /\ files'[entry.file] = entry.content
      /\ \A f \in File : f[1] # r.url => files'[f] = files[f]
  BY <1>1, <1>2, <1>3, <1>4, <1>5 DEF TypeOK
<1>7. entry.file[1] = r.url
  BY <1>2, <1>5
<1> QED
  BY <1>4, <1>5, <1>6, <1>7, KeepInv

\* The resources a walk without failures has taken are closed.
LEMMA EndWalkInv == Inv /\ EndWalk => Inv'
<1> SUFFICES ASSUME Inv, EndWalk PROVE Inv'
  OBVIOUS
<1> DEFINE rest == [u \in DOMAIN linked \ walk.seen |-> linked[u]]
           kept == Beside(walk.kept, rest)
           bound == IF walk.queue # <<>> THEN {None} ELSE {}
<1>1. TypeOK /\ WalkInv /\ CommittedInv
  BY DEF Inv
<1>2. /\ walk.at = "walk"
      /\ walk' = [walk EXCEPT !.at = "commit", !.failed = @ \cup bound,
                              !.kept = kept]
      /\ active' = active /\ linked' = linked /\ failures' = failures
      /\ files' = files /\ losses' = losses
  BY DEF EndWalk
<1>3. Records(rest) /\ DOMAIN rest = DOMAIN linked \ walk.seen
  BY <1>1 DEF TypeOK, Records
<1>4. Records(kept)
  BY <1>1, <1>3, BesideHasBoth DEF TypeOK
<1>5. /\ DOMAIN kept = DOMAIN walk.kept \cup (DOMAIN linked \ walk.seen)
      /\ \A u \in DOMAIN walk.kept : kept[u] = walk.kept[u]
  BY <1>3, BesideHasBoth
<1> HIDE DEF rest, kept
<1>6. walk' = [at |-> "commit", incoming |-> walk.incoming,
               queue |-> walk.queue, seen |-> walk.seen, kept |-> kept,
               failed |-> walk.failed \cup bound]
  BY <1>1, <1>2 DEF TypeOK
<1>7. /\ walk'.at = "commit" /\ walk'.incoming = walk.incoming
      /\ walk'.queue = walk.queue /\ walk'.seen = walk.seen
      /\ walk'.kept = kept /\ walk'.failed = walk.failed \cup bound
      /\ walk' = [at |-> walk'.at, incoming |-> walk'.incoming,
                  queue |-> walk'.queue, seen |-> walk'.seen,
                  kept |-> walk'.kept, failed |-> walk'.failed]
  BY <1>6
<1>8. TypeOK'
  BY <1>1, <1>2, <1>4, <1>7 DEF TypeOK, Records
<1>9. WalkInv'
  BY <1>7 DEF WalkInv
<1>10. CommitInv'
  <2>1. /\ walk.seen \subseteq DOMAIN walk.kept \cup walk.failed
        /\ Urls(walk.incoming) \subseteq walk.seen \cup Queued
        /\ \A u \in DOMAIN walk.kept :
             Refers(walk.kept, u) \subseteq walk.seen \cup Queued
        /\ losses = 0 => Matches(walk.kept, DOMAIN walk.kept)
    BY <1>1, <1>2 DEF WalkInv
  <2>2. DOMAIN linked \subseteq DOMAIN kept \cup (walk.failed \cup bound)
    BY <1>5, <2>1
  <2>3. ASSUME walk.failed \cup bound = {}
        PROVE  /\ Closed(walk.seen, walk.incoming, kept)
               /\ losses = 0 => Matches(kept, walk.seen)
    <3>1. walk.queue = <<>> /\ walk.failed = {}
      BY <2>3
    <3>2. Queued = {}
      BY <3>1 DEF Queued
    <3>3. walk.seen \subseteq DOMAIN walk.kept
      BY <2>1, <3>1
    <3>4. \A u \in walk.seen : Refers(kept, u) \subseteq walk.seen
      BY <1>5, <2>1, <3>2, <3>3 DEF Refers
    <3>5. losses = 0 => Matches(kept, walk.seen)
      BY <1>5, <2>1, <3>3 DEF Matches
    <3> QED
      BY <1>5, <2>1, <3>2, <3>3, <3>4, <3>5 DEF Closed
  <2>4. walk.seen \in SUBSET Resource
    BY <1>1 DEF TypeOK
  <2>5. walk'.failed = {} =>
          \E S \in SUBSET Resource :
            /\ Closed(S, walk'.incoming, walk'.kept)
            /\ losses' = 0 => \A u \in S : files'[walk'.kept[u].file] = walk'.kept[u].content
    BY <1>2, <1>7, <2>3, <2>4 DEF Matches
  <2> QED
    BY <1>2, <1>7, <2>2, <2>5 DEF CommitInv, Closed, Refers, Matches, Urls
<1>11. CommittedInv'
  BY <1>1, <1>2, CommittedStays
<1> QED
  BY <1>8, <1>9, <1>10, <1>11 DEF Inv

LEMMA IdleIsTyped ==
  ASSUME TypeOK, walk' = Idle, Records(linked)', active' # None => active' \in SUBSET Reference,
         files' = files, losses' = losses
  PROVE  TypeOK' /\ WalkInv' /\ CommitInv'
<1>1. DOMAIN <<>> = {} /\ Records(<<>>)
  BY DEF Records
<1>2. walk' = [at |-> "idle", incoming |-> {}, queue |-> <<>>, seen |-> {},
               kept |-> <<>>, failed |-> {}]
  BY DEF Idle
<1>3. Records(walk.kept)'
  BY <1>1, <1>2 DEF Records
<1>4. TypeOK'
  BY <1>2, <1>3 DEF TypeOK
<1> QED
  BY <1>2, <1>4 DEF WalkInv, CommitInv

LEMMA CommitStepInv == Inv /\ Commit => Inv'
<1> SUFFICES ASSUME Inv, Commit PROVE Inv'
  OBVIOUS
<1>1. TypeOK /\ CommitInv
  BY DEF Inv
<1>2. /\ walk.at = "commit" /\ walk' = Idle
      /\ active' = walk.incoming /\ linked' = walk.kept
      /\ failures' = walk.failed /\ files' = files /\ losses' = losses
  BY DEF Commit
<1>3. Records(linked)' /\ active' \in SUBSET Reference
  BY <1>1, <1>2 DEF TypeOK, Records
<1>4. TypeOK' /\ WalkInv' /\ CommitInv'
  BY <1>1, <1>2, <1>3, IdleIsTyped
<1>5. CommittedInv'
  <2>1. failures' = {} =>
          \E S \in SUBSET Resource : Closed(S, walk.incoming, walk.kept)
    BY <1>1, <1>2 DEF CommitInv
  <2> QED
    BY <1>2, <2>1 DEF CommittedInv, Closed, Refers, Urls
<1> QED
  BY <1>4, <1>5 DEF Inv

LEMMA KilledInv == Inv /\ Killed => Inv'
<1> SUFFICES ASSUME Inv, Killed PROVE Inv'
  OBVIOUS
<1>1. TypeOK /\ CommittedInv
  BY DEF Inv
<1>2. /\ walk' = Idle /\ active' = active /\ linked' = linked
      /\ failures' = failures /\ files' = files /\ losses' = losses
  BY DEF Killed
<1>3. Records(linked)' /\ (active' # None => active' \in SUBSET Reference)
  BY <1>1, <1>2 DEF TypeOK, Records
<1>4. TypeOK' /\ WalkInv' /\ CommitInv'
  BY <1>1, <1>2, <1>3, IdleIsTyped
<1>5. CommittedInv'
  BY <1>1, <1>2, CommittedStays
<1> QED
  BY <1>4, <1>5 DEF Inv

LEMMA LostInv ==
  ASSUME Inv, NEW file \in File, Lost(file)
  PROVE  Inv'
<1>1. TypeOK /\ WalkInv /\ CommitInv /\ CommittedInv
  BY DEF Inv
<1>2. /\ files' = [files EXCEPT ![file] = None] /\ losses' = losses + 1
      /\ active' = active /\ linked' = linked /\ failures' = failures
      /\ walk' = walk
  BY DEF Lost
<1>3. losses \in Nat /\ losses' \in Nat /\ losses' # 0
  BY <1>1, <1>2 DEF TypeOK
<1>4. TypeOK'
  BY <1>1, <1>2, <1>3 DEF TypeOK, Records
<1>5. WalkInv'
  BY <1>1, <1>2, <1>3 DEF WalkInv, Queued, Refers, Urls
<1>6. CommitInv'
  BY <1>1, <1>2, <1>3 DEF CommitInv, Closed, Refers, Urls
<1>7. CommittedInv'
  BY <1>1, <1>2, CommittedStays
<1> QED
  BY <1>4, <1>5, <1>6, <1>7 DEF Inv

LEMMA StutterInv == Inv /\ UNCHANGED vars => Inv'
<1> SUFFICES ASSUME Inv, UNCHANGED vars PROVE Inv'
  OBVIOUS
<1>1. /\ active' = active /\ linked' = linked /\ failures' = failures
      /\ files' = files /\ walk' = walk /\ losses' = losses
  BY DEF vars
<1>2. TypeOK /\ WalkInv /\ CommitInv /\ CommittedInv
  BY DEF Inv
<1>3. TypeOK' /\ WalkInv'
  BY <1>1, <1>2 DEF TypeOK, Records, WalkInv, Queued, Refers, Matches, Urls
<1>4. CommitInv'
  BY <1>1, <1>2 DEF CommitInv, Closed, Refers, Matches, Urls
<1>5. CommittedInv'
  BY <1>1, <1>2, CommittedStays
<1> QED
  BY <1>3, <1>4, <1>5 DEF Inv

-----------------------------------------------------------------------------
(* The theorems.                                                           *)

\* The inductive invariant: what a walk has met and not taken is on its queue,
\* what it has taken is kept or failed, and a commit without failures has a
\* closed set of records.
THEOREM InvHolds == Spec => []Inv
<1>1. Inv /\ [Next]_vars => Inv'
  <2> SUFFICES ASSUME Inv, [Next]_vars PROVE Inv'
    OBVIOUS
  <2>1. CASE \E edition \in Editions : Start(edition)
    BY <2>1, StartInv
  <2>2. CASE SkipSeen \/ EndWalk \/ Commit \/ Killed
    BY <2>2, SkipSeenInv, EndWalkInv, CommitStepInv, KilledInv
  <2>3. CASE \E r \in Reference :
               \/ Reuse(r) \/ FetchFails(r)
               \/ \E content \in Served[r.url] : Fetch(r, content)
    BY <2>3, ReuseInv, FetchFailsInv, FetchInv
  <2>4. CASE \E file \in File : Lost(file)
    BY <2>4, LostInv
  <2>5. CASE UNCHANGED vars
    BY <2>5, StutterInv
  <2> QED
    BY <2>1, <2>2, <2>3, <2>4, <2>5 DEF Next
<1> QED
  BY InitInv, <1>1, PTL DEF Spec

\* A closed set holds what the manifest leads to.
LEMMA ClosedHoldsReached ==
  ASSUME active # None, NEW S \in SUBSET Resource, Closed(S, active, linked)
  PROVE  Reached \subseteq S
<1>1. Urls(active) \subseteq S /\ \A u \in S : Follows(u) \subseteq S
  BY DEF Closed, Refers, Follows
<1> QED
  BY <1>1 DEF Reached

\* linked.go:218-317, doctor.go:146-228: whatever the manifest leads to is on
\* record, or the doctor recommends a rerun.
THEOREM GapsShow == Spec => []GapsAreReported
<1>1. Inv => GapsAreReported
  <2> SUFFICES ASSUME Inv, active # None, failures = {}
               PROVE  Reached \subseteq DOMAIN linked
    BY DEF GapsAreReported, RerunRecommended
  <2>1. PICK S \in SUBSET Resource : Closed(S, active, linked)
    BY DEF Inv, CommittedInv
  <2>2. Reached \subseteq S
    BY <2>1, ClosedHoldsReached
  <2> QED
    BY <2>1, <2>2 DEF Closed
<1> QED
  BY InvHolds, <1>1, PTL

\* linked.go:230-317, preserve.go:366-398: no record disappears unreported,
\* and a commit without failures leaves all it leads to whole.
THEOREM CommitsAccount == Spec => CommitAccountsForAll
<1> DEFINE Accounts == linked' # linked =>
      /\ \A u \in DOMAIN linked \ DOMAIN linked' : u \in failures'
      /\ losses' = 0 /\ failures' = {} => Broken' \cap Reached' = {}
<1>1. Inv /\ Inv' /\ [Next]_vars => Accounts
  <2> SUFFICES ASSUME Inv, Inv', [Next]_vars, linked' # linked
               PROVE  /\ \A u \in DOMAIN linked \ DOMAIN linked' : u \in failures'
                      /\ losses' = 0 /\ failures' = {} => Broken' \cap Reached' = {}
    OBVIOUS
  <2>1. Commit
    BY DEF Next, vars, Start, SkipSeen, EndWalk, Killed, Reuse, FetchFails,
           Fetch, Lost
  <2>2. /\ walk.at = "commit"
        /\ active' = walk.incoming /\ linked' = walk.kept
        /\ failures' = walk.failed /\ files' = files /\ losses' = losses
    BY <2>1 DEF Commit
  <2>3. CommitInv /\ TypeOK
    BY DEF Inv
  <2>4. \A u \in DOMAIN linked \ DOMAIN linked' : u \in failures'
    BY <2>2, <2>3 DEF CommitInv
  <2>5. ASSUME losses' = 0, failures' = {}
        PROVE  Broken' \cap Reached' = {}
    <3>1. PICK S \in SUBSET Resource :
            /\ Closed(S, walk.incoming, walk.kept)
            /\ Matches(walk.kept, S)
      BY <2>2, <2>3, <2>5 DEF CommitInv
    <3>2. /\ S \subseteq DOMAIN linked' /\ Urls(active') \subseteq S
          /\ \A u \in S : Follows(u)' \subseteq S
      BY <2>2, <3>1 DEF Closed, Refers, Follows, Urls
    <3>3. Reached' \subseteq S
      BY <3>2 DEF Reached, Urls
    <3>4. \A u \in S : u \notin Broken'
      BY <2>2, <3>1 DEF Matches, Broken
    <3> QED
      BY <3>3, <3>4
  <2> QED
    BY <2>4, <2>5
<1>2. Spec => [][Accounts]_vars
  BY InvHolds, <1>1, PTL DEF Spec
<1> QED
  BY <1>2 DEF CommitAccountsForAll
=============================================================================
