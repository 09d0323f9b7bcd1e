-------------------------- MODULE LinkedResources --------------------------
(***************************************************************************)
(* The linked resources of one bundle over any number of calls of Preserve *)
(* (internal/preserve/linked.go), and their records in provenance.json.    *)
(*                                                                         *)
(* A step takes one resource off the queue.  A document is the set of its  *)
(* references: discovery goes through Go maps, so its order, and which of  *)
(* two kinds of one URL it keeps, may differ from call to call.  A digest  *)
(* is the content it belongs to.  The call may be killed or cancelled      *)
(* between any two steps; whatever makes a fetch, a validation or a Put    *)
(* fail is one failure.                                                    *)
(***************************************************************************)
EXTENDS Naturals, Sequences, FiniteSets, SequencesExt

CONSTANTS
  Resource,   \* URLs
  Named,      \* those whose path or format gives the extension of the file
  Editions,   \* the manifests the library may serve, as sets of references
  Served,     \* what the server of a resource may answer, now or later
  Bound,      \* maxLinkedResourcesPerBundle
  MaxLosses,  \* bounds the files that become unreadable
  None

Kind      == {"annotation", "seeAlso", "content"}
Reference == [url : Resource, kind : Kind]
\* An annotation page, list or collection; other JSON; anything else.
Content   == [form : {"graph", "json", "other"}, refs : SUBSET Reference]
File      == Resource \X {"own", "json", "bin"}

ASSUME LinkedResourcesAssumption ==
  /\ IsFiniteSet(Resource)
  /\ Named \subseteq Resource
  /\ Editions \subseteq SUBSET Reference
  /\ Served \in [Resource -> SUBSET Content]
  /\ {Bound, MaxLosses} \subseteq Nat
  /\ None \notin Resource

VARIABLES
  active,      \* the active manifest, None before the first commit
  linked,      \* linked_resources, by URL
  failures,    \* linked_failures: URLs, and None for the bound
  files,       \* the content under resources/, None if unreadable
  walk,        \* preserveLinkedResources: where it stands and its results
  losses

vars == <<active, linked, failures, files, walk, losses>>

Entry(r, file, content) == [file |-> file, kind |-> r.kind, content |-> content]

Idle == [at |-> "idle", incoming |-> {}, queue |-> <<>>, seen |-> {},
         kept |-> <<>>, failed |-> {}]

Init ==
  /\ active = None
  /\ linked = <<>>
  /\ failures = {}
  /\ files = [f \in File |-> None]
  /\ walk = Idle
  /\ losses = 0

Urls(refs) == {r.url : r \in refs}

\* discoverLinkedResources: each URL once, with the kind it is met with first.
Discovered(refs) ==
  UNION {SetToSeqs({[url |-> u, kind |-> kind[u]] : u \in Urls(refs)}) :
           kind \in {k \in [Urls(refs) -> Kind] :
                       \A u \in Urls(refs) : [url |-> u, kind |-> k[u]] \in refs}}

FileOf(r) ==
  <<r.url, IF r.url \in Named THEN "own"
           ELSE IF r.kind = "annotation" THEN "json" ELSE "bin">>

Valid(r, content) == r.kind = "annotation" => content.form # "other"

\* Only an annotation document is looked into.
Nested(r, content) ==
  IF r.kind = "annotation" /\ content.form = "graph"
  THEN Discovered(content.refs) ELSE {<<>>}

-----------------------------------------------------------------------------

\* The images are stored: the walk begins with the manifest's references.
Start(edition) ==
  /\ walk = Idle
  /\ \E found \in Discovered(edition) :
       walk' = [Idle EXCEPT !.at = "walk", !.incoming = edition, !.queue = found]
  /\ UNCHANGED <<active, linked, failures, files, losses>>

More == walk.queue # <<>> /\ Cardinality(walk.seen) < Bound

\* The next resource, met for the first time.
Takes(r) ==
  /\ walk.at = "walk" /\ More
  /\ r = Head(walk.queue)
  /\ r.url \notin walk.seen

SkipSeen ==
  /\ walk.at = "walk" /\ More
  /\ Head(walk.queue).url \in walk.seen
  /\ walk' = [walk EXCEPT !.queue = Tail(@)]
  /\ UNCHANGED <<active, linked, failures, files, losses>>

Known(r) ==
  IF r.url \in DOMAIN linked THEN linked[r.url] ELSE Entry(r, FileOf(r), None)

\* Without a record of its digest an existing file is taken as it is.
Reusable(r) ==
  LET content == files[Known(r).file] IN
  /\ content # None
  /\ Known(r).content \in {None, content}
  /\ Valid(r, content)

\* The records of f, and those g has beside them.
Beside(f, g) ==
  [u \in DOMAIN f \cup DOMAIN g |-> IF u \in DOMAIN f THEN f[u] ELSE g[u]]

Keep(r, entry) ==
  \E nested \in Nested(r, entry.content) :
    walk' = [walk EXCEPT !.queue = Tail(@) \o nested,
                         !.seen = @ \cup {r.url},
                         !.kept = Beside([u \in {r.url} |-> entry], @)]

\* Mutant of Reuse: what a reused document refers to is not followed.
ReuseAlone(r) ==
  /\ Takes(r) /\ Reusable(r)
  /\ walk' = [walk EXCEPT !.queue = Tail(@), !.seen = @ \cup {r.url},
       !.kept = Beside([u \in {r.url} |->
                  Entry(r, Known(r).file, files[Known(r).file])], @)]
  /\ UNCHANGED <<active, linked, failures, files, losses>>

\* The file stays where it is recorded, also when the kind has changed.
Reuse(r) ==
  /\ Takes(r) /\ Reusable(r)
  /\ Keep(r, Entry(r, Known(r).file, files[Known(r).file]))
  /\ UNCHANGED <<active, linked, failures, files, losses>>

Fetch(r, content) ==
  /\ Takes(r) /\ ~Reusable(r)
  /\ Valid(r, content)
  /\ files' = [files EXCEPT ![FileOf(r)] = content]
  /\ Keep(r, Entry(r, FileOf(r), content))
  /\ UNCHANGED <<active, linked, failures, losses>>

FetchFails(r) ==
  /\ Takes(r) /\ ~Reusable(r)
  /\ walk' = [walk EXCEPT !.queue = Tail(@), !.seen = @ \cup {r.url},
                          !.failed = @ \cup {r.url}]
  /\ UNCHANGED <<active, linked, failures, files, losses>>

\* Mutant of EndWalk: the records of this walk are all there is.
EndWalkAlone ==
  /\ walk.at = "walk" /\ ~More
  /\ walk' = [walk EXCEPT !.at = "commit",
       !.failed = @ \cup IF walk.queue # <<>> THEN {None} ELSE {}]
  /\ UNCHANGED <<active, linked, failures, files, losses>>

\* What is left when the bound is reached is one failure; a resource that is
\* no longer referred to stays on record.
EndWalk ==
  /\ walk.at = "walk" /\ ~More
  /\ walk' = [walk EXCEPT
       !.at = "commit",
       !.failed = @ \cup IF walk.queue # <<>> THEN {None} ELSE {},
       !.kept = Beside(@, [u \in DOMAIN linked \ walk.seen |-> linked[u]])]
  /\ UNCHANGED <<active, linked, failures, files, losses>>

\* Preserve writes provenance.json, in one rename.
Commit ==
  /\ walk.at = "commit"
  /\ active' = walk.incoming
  /\ linked' = walk.kept
  /\ failures' = walk.failed
  /\ walk' = Idle
  /\ UNCHANGED <<files, losses>>

Killed ==
  /\ walk # Idle
  /\ walk' = Idle
  /\ UNCHANGED <<active, linked, failures, files, losses>>

Lost(file) ==
  /\ losses < MaxLosses
  /\ files[file] # None
  /\ files' = [files EXCEPT ![file] = None]
  /\ losses' = losses + 1
  /\ UNCHANGED <<active, linked, failures, walk>>

Next ==
  \/ \E edition \in Editions : Start(edition)
  \/ SkipSeen \/ EndWalk \/ Commit \/ Killed
  \/ \E r \in Reference :
       \/ Reuse(r) \/ FetchFails(r)
       \/ \E content \in Served[r.url] : Fetch(r, content)
  \/ \E file \in File : Lost(file)

Spec == Init /\ [][Next]_vars
=============================================================================
