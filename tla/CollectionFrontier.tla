------------------------- MODULE CollectionFrontier -------------------------
(***************************************************************************)
(* The durable discovery frontier of a collection ingest                   *)
(* (internal/source/frontier.go).                                          *)
(*                                                                         *)
(* One JSON file holds the collections still to be fetched, the            *)
(* collections already expanded and the manifests they listed.  A process  *)
(* opens the file, yields every manifest it already holds, then fetches    *)
(* pending collections one at a time.  Each expansion is saved by an       *)
(* atomic rename before it replaces the in-memory state and before any     *)
(* manifest it added is yielded.  The process may be killed between any    *)
(* two steps and the server may edit a collection between two fetches.     *)
(*                                                                         *)
(* The URL lists of the code are sets here: the code never holds a URL     *)
(* twice, and leaving the order open only adds behaviours to the first-in- *)
(* first-out ones.                                                         *)
(***************************************************************************)
EXTENDS Naturals, FiniteSets

CONSTANTS
  Collection,   \* collection URLs
  Manifest,     \* manifest URLs
  Root,         \* the URL given with -collection
  Documents,    \* Documents[c]: the bodies the server may return for c
  None          \* no frontier file

Document == [manifests : SUBSET Manifest, collections : SUBSET Collection]

Frontier == [pending   : SUBSET Collection,
             visited   : SUBSET Collection,
             manifests : SUBSET Manifest,
             complete  : BOOLEAN]

ASSUME FrontierAssumption ==
  /\ Root \in Collection
  /\ Documents \in [Collection -> SUBSET Document]
  /\ None \notin Frontier

VARIABLES
  frontierFile,  \* the file: None or a Frontier
  state,         \* s.state of the open source
  current,       \* the collection being expanded
  body,          \* its fetched document
  toYield,       \* what the running loop (replay or new manifests) has left
  emitted,       \* the emitted map: manifests this iteration yielded
  walker,        \* where the Manifests iteration stands
  listed         \* history: every reference of a document saved so far

frontierVars ==
  <<frontierFile, state, current, body, toYield, emitted, walker, listed>>

WalkerState == {"closed", "iterating", "fetched", "saved", "ended"}

InitialFrontier ==
  [pending |-> {Root}, visited |-> {}, manifests |-> {}, complete |-> FALSE]

NoReferences == [manifests |-> {}, collections |-> {}]

FrontierInit ==
  /\ frontierFile = None
  /\ state = InitialFrontier
  /\ current = Root
  /\ body = NoReferences
  /\ toYield = {}
  /\ emitted = {}
  /\ walker = "closed"
  /\ listed = NoReferences

-----------------------------------------------------------------------------
(* Building the next frontier: the loop body after a successful fetch.     *)

Seen(f) == f.visited \cup f.pending

\* Mutant of Expand: the seen map is not consulted.
ExpandUnfiltered(f, c, doc) ==
  LET waiting == (f.pending \ {c}) \cup doc.collections
  IN  [pending   |-> waiting,
       visited   |-> f.visited \cup {c},
       manifests |-> f.manifests \cup doc.manifests,
       complete  |-> waiting = {}]

\* Mutant of Expand: the new manifests replace the former ones.
ExpandReplacing(f, c, doc) ==
  LET waiting == (f.pending \ {c}) \cup (doc.collections \ Seen(f))
  IN  [pending   |-> waiting,
       visited   |-> f.visited \cup {c},
       manifests |-> doc.manifests,
       complete  |-> waiting = {}]

Expand(f, c, doc) ==
  LET waiting == (f.pending \ {c}) \cup (doc.collections \ Seen(f))
  IN  [pending   |-> waiting,
       visited   |-> f.visited \cup {c},
       manifests |-> f.manifests \cup doc.manifests,
       complete  |-> waiting = {}]

NextFrontier == Expand(state, current, body)

\* The checks of loadCollectionFrontier on a file that decodes.
Loadable(f) == ~(f.complete /\ f.pending # {})

-----------------------------------------------------------------------------
\* Mutant of Open: the manifests of the file are not replayed.
OpenWithoutReplay ==
  /\ walker = "closed"
  /\ LET f == IF frontierFile = None THEN InitialFrontier ELSE frontierFile
     IN  /\ frontierFile' = f
         /\ state' = f
  /\ toYield' = {}
  /\ emitted' = {}
  /\ walker' = "iterating"
  /\ UNCHANGED <<current, body, listed>>

(* OpenCollectionFrontierSource, then the first lines of Manifests: load   *)
(* the file, or create it with the root pending, and start the replay.     *)
Open ==
  /\ walker = "closed"
  /\ frontierFile # None => Loadable(frontierFile)
  /\ LET f == IF frontierFile = None THEN InitialFrontier ELSE frontierFile
     IN  /\ frontierFile' = f
         /\ state' = f
         /\ toYield' = f.manifests
  /\ emitted' = {}
  /\ walker' = "iterating"
  /\ UNCHANGED <<current, body, listed>>

\* yield(manifestURL, nil) returned true.
Yield(m) ==
  /\ walker = "iterating"
  /\ m \in toYield
  /\ toYield' = toYield \ {m}
  /\ emitted' = emitted \cup {m}
  /\ UNCHANGED <<frontierFile, state, current, body, walker, listed>>

\* yield returned false: the consumer wants no more.
Stop ==
  /\ walker = "iterating"
  /\ walker' = "ended"
  /\ UNCHANGED <<frontierFile, state, current, body, toYield, emitted, listed>>

AtLoopHead == walker = "iterating" /\ toYield = {}

Fetch(c, doc) ==
  /\ AtLoopHead
  /\ c \in state.pending
  /\ doc \in Documents[c]
  /\ current' = c
  /\ body' = doc
  /\ walker' = "fetched"
  /\ UNCHANGED <<frontierFile, state, toYield, emitted, listed>>

\* A cancelled context, a failed fetch or an undecodable body: the error is
\* yielded and the iteration returns with the collection still pending.
FetchFails ==
  /\ AtLoopHead
  /\ state.pending # {}
  /\ walker' = "ended"
  /\ UNCHANGED <<frontierFile, state, current, body, toYield, emitted, listed>>

\* Mutant of Save: the expansion stays in memory.
SaveSkipped ==
  /\ walker = "fetched"
  /\ listed' = [manifests   |-> listed.manifests \cup body.manifests,
                collections |-> listed.collections \cup body.collections]
  /\ walker' = "saved"
  /\ UNCHANGED <<frontierFile, state, current, body, toYield, emitted>>

\* Mutant of Save: the collection is dropped from pending, and nothing else.
SaveUnexpanded ==
  /\ walker = "fetched"
  /\ frontierFile' = Expand(state, current, NoReferences)
  /\ listed' = [manifests   |-> listed.manifests \cup body.manifests,
                collections |-> listed.collections \cup body.collections]
  /\ walker' = "saved"
  /\ UNCHANGED <<state, current, body, toYield, emitted>>

\* saveCollectionFrontier(s.path, next) up to and including the rename.
Save ==
  /\ walker = "fetched"
  /\ frontierFile' = NextFrontier
  /\ listed' = [manifests   |-> listed.manifests \cup body.manifests,
                collections |-> listed.collections \cup body.collections]
  /\ walker' = "saved"
  /\ UNCHANGED <<state, current, body, toYield, emitted>>

\* The save fails before the rename: the error is yielded and the iteration
\* returns; neither the file nor s.state moved.
SaveFails ==
  /\ walker = "fetched"
  /\ walker' = "ended"
  /\ UNCHANGED <<frontierFile, state, current, body, toYield, emitted, listed>>

\* s.state = next, then the loop over newlyDiscovered.
Adopt ==
  /\ walker = "saved"
  /\ state' = NextFrontier
  /\ toYield' = (NextFrontier.manifests \ state.manifests) \ emitted
  /\ walker' = "iterating"
  /\ UNCHANGED <<frontierFile, current, body, emitted, listed>>

\* len(s.state.Pending) = 0.
Exhausted ==
  /\ AtLoopHead
  /\ state.pending = {}
  /\ walker' = "ended"
  /\ UNCHANGED <<frontierFile, state, current, body, toYield, emitted, listed>>

\* The process ends or is killed: the file stays, the memory goes.  The
\* dead memory is reset so that states differ only where the code does.
Close ==
  /\ walker' = "closed"
  /\ state' = InitialFrontier
  /\ current' = Root
  /\ body' = NoReferences
  /\ toYield' = {}
  /\ emitted' = {}
  /\ UNCHANGED <<frontierFile, listed>>

\* -fresh removes the file (openIngestState); no source is open then.
RemoveFile ==
  /\ walker = "closed"
  /\ frontierFile' = None
  /\ listed' = NoReferences
  /\ UNCHANGED <<state, current, body, toYield, emitted, walker>>

Walk ==
  \/ \E m \in Manifest : Yield(m)
  \/ \E c \in Collection : \E doc \in Documents[c] : Fetch(c, doc)
  \/ Save
  \/ Adopt
  \/ Exhausted

FrontierNext ==
  \/ Open
  \/ Walk
  \/ Stop
  \/ FetchFails
  \/ SaveFails
  \/ Close
  \/ RemoveFile

\* The goroutine that ranges over Manifests keeps running; opening, failing
\* and being killed are the environment's choice and get no fairness.
FrontierSpec == FrontierInit /\ [][FrontierNext]_frontierVars /\ WF_frontierVars(Walk)

-----------------------------------------------------------------------------
FrontierTypeOK ==
  /\ frontierFile \in Frontier \cup {None}
  /\ state \in Frontier
  /\ current \in Collection
  /\ body \in Document
  /\ toYield \in SUBSET Manifest
  /\ emitted \in SUBSET Manifest
  /\ walker \in WalkerState
  /\ listed \in Document

\* Every reference of a document whose collection is no longer pending is
\* in the file: a manifest is known, a collection is pending or visited.
\* Whatever step a kill interrupts, a saved expansion loses nothing that the
\* collection listed (SOURCE_INGESTION.md: each document is committed before
\* its manifests are yielded).
NothingListedIsLost ==
  frontierFile # None =>
    /\ listed.manifests \subseteq frontierFile.manifests
    /\ listed.collections \subseteq Seen(frontierFile)

\* No manifest reaches the consumer before it is in the file, so a manifest
\* the pipeline has worked on is never forgotten by a kill.
YieldedOnlyWhatIsSaved ==
  emitted # {} => /\ frontierFile # None
                  /\ emitted \subseteq frontierFile.manifests

\* The file is marked complete exactly when no collection is pending, so the
\* consistency check in loadCollectionFrontier never rejects a file this
\* program wrote, and a visited collection is never queued again: the walk
\* ends on cyclic collections.
FileIsConsistent ==
  frontierFile # None =>
    /\ frontierFile.complete <=> frontierFile.pending = {}
    /\ frontierFile.pending \cap frontierFile.visited = {}
    /\ Root \in Seen(frontierFile)

\* A walk whose frontier holds no pending collection when it ends by itself
\* has yielded every manifest the file holds, in this process: replaying
\* after a restart and discovering are the same to the consumer.
EverythingSavedIsYielded ==
  [][Exhausted => emitted = frontierFile.manifests]_frontierVars

\* Between two resets no manifest and no visited collection leaves the file.
FileOnlyGrows ==
  [][frontierFile # None /\ frontierFile' # None =>
       /\ frontierFile.manifests \subseteq frontierFile'.manifests
       /\ frontierFile.visited \subseteq frontierFile'.visited]_frontierVars

\* Every iteration ends, also when collections list each other in a cycle.
WalkEnds == (walker = "iterating") ~> (walker \in {"ended", "closed"})
=============================================================================
