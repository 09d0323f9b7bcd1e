---------------------------- MODULE IngestProofs ----------------------------
(***************************************************************************)
(* Proofs of the safety properties of the discovery frontier and of the    *)
(* ingest command that walks it, for every set of collections and          *)
(* manifests, every server, every former journal and any number of workers *)
(* (the exit status: for one worker).                                      *)
(*                                                                         *)
(* The frontier comes first, as the system it is by itself: the file and   *)
(* the memory agree except between a save and the assignment that follows  *)
(* it, when the file is one expansion ahead; and an expansion keeps every  *)
(* reference its predecessor held.  Ingest keeps that invariant, because   *)
(* each of its steps is a step of the frontier or leaves it alone.  What   *)
(* is added relates the phase of the process, the place of the manifest at *)
(* hand, and the files.                                                    *)
(***************************************************************************)
EXTENDS Ingest, FiniteSetTheorems, TLAPS

-----------------------------------------------------------------------------
(* The frontier.                                                           *)

\* A frontier that is complete when nothing is pending, and on which no
\* collection is both pending and visited.
Consistent(f) ==
  /\ f.complete <=> f.pending = {}
  /\ f.pending \cap f.visited = {}
  /\ Root \in Seen(f)

\* Where the iteration stands decides how the file relates to the memory.
FileFollowsState ==
  /\ walker = "closed" => state = InitialFrontier /\ emitted = {}
  /\ walker # "closed" => frontierFile # None
  /\ walker \in {"iterating", "fetched", "ended"} => frontierFile = state
  /\ walker = "saved" => frontierFile = NextFrontier
  /\ walker \in {"fetched", "saved"} =>
       /\ current \in state.pending
       /\ body \in Document
       /\ toYield = {}

\* What was yielded and what is left to yield are the known manifests.
YieldIsPartial ==
  /\ emitted \subseteq state.manifests
  /\ emitted \cap toYield = {}
  /\ walker \in {"iterating", "fetched", "saved"} =>
       emitted \cup toYield = state.manifests

NothingListedWithoutFile == frontierFile = None => listed = NoReferences

FrontierInv ==
  /\ FrontierTypeOK
  /\ Consistent(state)
  /\ frontierFile # None => Consistent(frontierFile)
  /\ FileFollowsState
  /\ YieldIsPartial
  /\ NothingListedWithoutFile
  /\ NothingListedIsLost

LEMMA InitialFrontierIsConsistent ==
  InitialFrontier \in Frontier /\ Consistent(InitialFrontier)
BY FrontierAssumption DEF InitialFrontier, Frontier, Consistent, Seen

\* An expansion is a consistent frontier and keeps what it extends.
LEMMA ExpandKeeps ==
  ASSUME NEW f \in Frontier, NEW c \in f.pending, NEW doc \in Document
  PROVE  LET e == Expand(f, c, doc)
         IN  /\ e \in Frontier
             /\ Consistent(f) => Consistent(e)
             /\ f.manifests \cup doc.manifests \subseteq e.manifests
             /\ f.visited \subseteq e.visited
             /\ Seen(f) \cup doc.collections \subseteq Seen(e)
<1> DEFINE e == Expand(f, c, doc)
<1>1. /\ f.pending \in SUBSET Collection
      /\ f.visited \in SUBSET Collection
      /\ f.manifests \in SUBSET Manifest
      /\ doc.manifests \in SUBSET Manifest
      /\ doc.collections \in SUBSET Collection
  BY DEF Frontier, Document
<1>2. /\ e.pending = (f.pending \ {c}) \cup (doc.collections \ Seen(f))
      /\ e.visited = f.visited \cup {c}
      /\ e.manifests = f.manifests \cup doc.manifests
      /\ e.complete = (e.pending = {})
  BY DEF Expand
<1>3. e \in Frontier
  BY <1>1 DEF Expand, Frontier
<1>4. Consistent(f) => Consistent(e)
  BY <1>1, <1>2 DEF Consistent, Seen
<1>5. Seen(f) \cup doc.collections \subseteq Seen(e)
  BY <1>1, <1>2 DEF Seen
<1> QED
  BY <1>2, <1>3, <1>4, <1>5

LEMMA FrontierInitInv == FrontierInit => FrontierInv
<1> SUFFICES ASSUME FrontierInit PROVE FrontierInv
  OBVIOUS
<1>1. FrontierTypeOK
  BY InitialFrontierIsConsistent, FrontierAssumption
  DEF FrontierInit, FrontierTypeOK, WalkerState, NoReferences, Document
<1> QED
  BY <1>1, InitialFrontierIsConsistent
  DEF FrontierInit, FrontierInv, FileFollowsState, YieldIsPartial,
      NothingListedWithoutFile, NothingListedIsLost, InitialFrontier

-----------------------------------------------------------------------------
LEMMA FrontierNextKeepsInv ==
  FrontierInv /\ [FrontierNext]_frontierVars => FrontierInv'
<1> SUFFICES ASSUME FrontierInv, [FrontierNext]_frontierVars PROVE FrontierInv'
  OBVIOUS
<1> USE DEF FrontierInv
<1>0. InitialFrontier \in Frontier /\ Consistent(InitialFrontier)
  BY InitialFrontierIsConsistent
<1>1. CASE Open
  <2> DEFINE f == IF frontierFile = None THEN InitialFrontier ELSE frontierFile
  <2>1. f \in Frontier /\ Consistent(f) /\ f # None
    BY <1>0, FrontierAssumption DEF FrontierTypeOK
  <2>2. /\ frontierFile' = f /\ state' = f /\ toYield' = f.manifests
        /\ emitted' = {} /\ walker' = "iterating"
        /\ UNCHANGED <<current, body, listed>>
    BY <1>1 DEF Open
  <2>3. FrontierTypeOK'
    BY <2>1, <2>2 DEF FrontierTypeOK, WalkerState, Frontier
  <2>4. NothingListedIsLost' /\ NothingListedWithoutFile'
    BY <2>1, <2>2
    DEF NothingListedIsLost, NothingListedWithoutFile, NoReferences
  <2>5. Consistent(state)' /\ (frontierFile # None => Consistent(frontierFile))'
    BY <2>1, <2>2 DEF Consistent, Seen
  <2> QED
    BY <2>1, <2>2, <2>3, <2>4, <2>5 DEF FileFollowsState, YieldIsPartial
<1>2. CASE \E m \in Manifest : Yield(m)
  <2> PICK m \in Manifest : Yield(m)
    BY <1>2
  <2> QED
    BY DEF Yield, FrontierTypeOK, Consistent, Seen, FileFollowsState,
           NextFrontier, YieldIsPartial, NothingListedWithoutFile,
           NothingListedIsLost
<1>3. CASE \E c \in Collection : \E doc \in Documents[c] : Fetch(c, doc)
  <2> PICK c \in Collection : \E doc \in Documents[c] : Fetch(c, doc)
    BY <1>3
  <2> PICK doc \in Documents[c] : Fetch(c, doc)
    OBVIOUS
  <2>1. doc \in Document
    BY FrontierAssumption
  <2> QED
    BY <2>1
    DEF Fetch, AtLoopHead, FrontierTypeOK, WalkerState, Consistent,
        Seen, FileFollowsState, YieldIsPartial, NothingListedWithoutFile,
        NothingListedIsLost
<1>4. CASE Save
  <2>1. /\ walker = "fetched" /\ walker' = "saved"
        /\ frontierFile = state /\ frontierFile' = NextFrontier
        /\ UNCHANGED <<state, current, body, toYield, emitted>>
        /\ NextFrontier' = NextFrontier
    BY <1>4 DEF Save, FileFollowsState, NextFrontier
  <2>2. /\ NextFrontier \in Frontier
        /\ Consistent(NextFrontier)
        /\ state.manifests \cup body.manifests \subseteq NextFrontier.manifests
        /\ Seen(state) \cup body.collections \subseteq Seen(NextFrontier)
    BY <2>1, ExpandKeeps DEF NextFrontier, FileFollowsState, FrontierTypeOK
  <2>3. /\ listed'.manifests = listed.manifests \cup body.manifests
        /\ listed'.collections = listed.collections \cup body.collections
        /\ listed' \in Document
    BY <1>4 DEF Save, FrontierTypeOK, Document
  <2>4. frontierFile # None /\ frontierFile' # None
    BY <2>1, <2>2, FrontierAssumption DEF FileFollowsState
  <2>5. FrontierTypeOK'
    BY <2>1, <2>2, <2>3 DEF FrontierTypeOK, WalkerState
  <2>6. NothingListedIsLost' /\ NothingListedWithoutFile'
    BY <2>1, <2>2, <2>3, <2>4
    DEF NothingListedIsLost, NothingListedWithoutFile
  <2>7. Consistent(state)' /\ Consistent(frontierFile)'
    BY <2>1, <2>2 DEF Consistent, Seen
  <2> QED
    BY <2>1, <2>4, <2>5, <2>6, <2>7 DEF FileFollowsState, YieldIsPartial
<1>5. CASE Adopt
  <2>1. /\ walker = "saved" /\ walker' = "iterating"
        /\ state' = NextFrontier /\ frontierFile = NextFrontier
        /\ toYield' = (NextFrontier.manifests \ state.manifests) \ emitted
        /\ UNCHANGED <<frontierFile, current, body, emitted, listed>>
    BY <1>5 DEF Adopt, FileFollowsState
  <2>2. /\ NextFrontier \in Frontier
        /\ state.manifests \subseteq NextFrontier.manifests
    BY <2>1, ExpandKeeps DEF NextFrontier, FileFollowsState, FrontierTypeOK
  <2>3. frontierFile # None /\ Consistent(NextFrontier)
    BY <2>1, <2>2, FrontierAssumption
  <2>4. emitted = state.manifests
    BY <2>1 DEF FileFollowsState, YieldIsPartial
  <2>5. FrontierTypeOK'
    BY <2>1, <2>2 DEF FrontierTypeOK, WalkerState, Frontier
  <2>6. NothingListedIsLost' /\ NothingListedWithoutFile'
    BY <2>1, <2>3 DEF NothingListedIsLost, NothingListedWithoutFile, Seen
  <2>7. Consistent(state)' /\ Consistent(frontierFile)'
    BY <2>1, <2>3 DEF Consistent, Seen
  <2> QED
    BY <2>1, <2>2, <2>3, <2>4, <2>5, <2>6, <2>7
    DEF FileFollowsState, YieldIsPartial
<1>6. CASE Exhausted \/ Stop \/ FetchFails \/ SaveFails
  BY <1>6
  DEF Exhausted, Stop, FetchFails, SaveFails, AtLoopHead,
      FrontierTypeOK, WalkerState, Consistent, Seen, FileFollowsState,
      YieldIsPartial, NothingListedWithoutFile, NothingListedIsLost
<1>7. CASE Close
  <2>1. /\ walker' = "closed" /\ state' = InitialFrontier
        /\ current' = Root /\ body' = NoReferences
        /\ toYield' = {} /\ emitted' = {}
        /\ UNCHANGED <<frontierFile, listed>>
    BY <1>7 DEF Close
  <2>2. FrontierTypeOK'
    BY <2>1, <1>0, FrontierAssumption
    DEF FrontierTypeOK, WalkerState, NoReferences, Document
  <2>3. Consistent(state)' /\ (frontierFile # None => Consistent(frontierFile))'
    BY <2>1, <1>0 DEF Consistent, Seen
  <2> QED
    BY <2>1, <2>2, <2>3
    DEF FileFollowsState, YieldIsPartial, NothingListedWithoutFile,
        NothingListedIsLost, Seen
<1>8. CASE RemoveFile
  <2>1. FrontierTypeOK'
    BY <1>8 DEF RemoveFile, FrontierTypeOK, NoReferences, Document
  <2> QED
    BY <1>8, <2>1
    DEF RemoveFile, Consistent, Seen, FileFollowsState, YieldIsPartial,
        NothingListedWithoutFile, NothingListedIsLost
<1>9. CASE UNCHANGED frontierVars
  BY <1>9
  DEF frontierVars, FrontierTypeOK, Consistent, Seen, FileFollowsState,
      NextFrontier, YieldIsPartial, NothingListedWithoutFile,
      NothingListedIsLost
<1> QED
  BY <1>1, <1>2, <1>3, <1>4, <1>5, <1>6, <1>7, <1>8, <1>9 DEF FrontierNext, Walk

LEMMA YieldedIsSaved == FrontierInv => YieldedOnlyWhatIsSaved
<1> SUFFICES ASSUME FrontierInv, emitted # {}
             PROVE  frontierFile # None /\ emitted \subseteq frontierFile.manifests
  BY DEF YieldedOnlyWhatIsSaved
<1>1. walker \in WalkerState \ {"closed"} /\ frontierFile # None
  BY DEF FrontierInv, FrontierTypeOK, FileFollowsState
<1>2. CASE walker = "saved"
  <2>1. state.manifests \subseteq NextFrontier.manifests
    BY <1>2, ExpandKeeps DEF FrontierInv, NextFrontier, FileFollowsState,
                             FrontierTypeOK
  <2> QED
    BY <1>1, <1>2, <2>1 DEF FrontierInv, FileFollowsState, YieldIsPartial
<1>3. CASE walker \in {"iterating", "fetched", "ended"}
  BY <1>1, <1>3 DEF FrontierInv, FileFollowsState, YieldIsPartial
<1> QED
  BY <1>1, <1>2, <1>3 DEF WalkerState

LEMMA FrontierGrows ==
  ASSUME FrontierInv, FrontierNext, frontierFile # None, frontierFile' # None
  PROVE  /\ frontierFile.manifests \subseteq frontierFile'.manifests
         /\ frontierFile.visited \subseteq frontierFile'.visited
<1>1. CASE Save
  <2>1. /\ frontierFile = state /\ frontierFile' = NextFrontier
        /\ current \in state.pending /\ body \in Document
        /\ state \in Frontier
    BY <1>1 DEF FrontierInv, Save, FileFollowsState, FrontierTypeOK
  <2>2. /\ state.manifests \subseteq NextFrontier.manifests
        /\ state.visited \subseteq NextFrontier.visited
    BY <2>1, ExpandKeeps DEF NextFrontier
  <2> QED
    BY <2>1, <2>2
<1>2. CASE ~Save
  <2>1. frontierFile' = frontierFile
    BY <1>2
    DEF FrontierNext, Walk, Open, Yield, Fetch, Adopt, Exhausted,
        Stop, FetchFails, SaveFails, Close, RemoveFile
  <2> QED
    BY <2>1
<1> QED
  BY <1>1, <1>2

\* The frontier's inductive invariant: the file is consistent and is what the
\* memory holds, or one expansion ahead of it.
THEOREM FrontierInvHolds == FrontierSpec => []FrontierInv
<1>1. FrontierInit => FrontierInv
  BY FrontierInitInv
<1>2. FrontierInv /\ [FrontierNext]_frontierVars => FrontierInv'
  BY FrontierNextKeepsInv
<1> QED
  BY <1>1, <1>2, PTL DEF FrontierSpec

-----------------------------------------------------------------------------
\* Every variable of the frontier keeps its type.
THEOREM FrontierTypeCorrect == FrontierSpec => []FrontierTypeOK
<1>1. FrontierInv => FrontierTypeOK
  BY DEF FrontierInv
<1> QED
  BY <1>1, FrontierInvHolds, PTL

\* No reference of an expanded collection is lost from the frontier file
\* (Manifests and saveCollectionFrontier), wherever a kill falls.
THEOREM ListedIsKept == FrontierSpec => []NothingListedIsLost
<1>1. FrontierInv => NothingListedIsLost
  BY DEF FrontierInv
<1> QED
  BY <1>1, FrontierInvHolds, PTL

\* A manifest is in the file before it is yielded to the pipeline.
THEOREM SavedBeforeYielded == FrontierSpec => []YieldedOnlyWhatIsSaved
<1> QED
  BY YieldedIsSaved, FrontierInvHolds, PTL

\* The file is complete exactly when nothing is pending, so
\* loadCollectionFrontier accepts every file the program wrote, and no
\* visited collection is queued again.
THEOREM FileStaysConsistent == FrontierSpec => []FileIsConsistent
<1>1. FrontierInv => FileIsConsistent
  BY DEF FrontierInv, FileIsConsistent, Consistent
<1> QED
  BY <1>1, FrontierInvHolds, PTL

\* An iteration that ends by itself has yielded every manifest of the file.
THEOREM WholeFileIsYielded == FrontierSpec => EverythingSavedIsYielded
<1>1. FrontierInv /\ [FrontierNext]_frontierVars
        => [Exhausted => emitted = frontierFile.manifests]_frontierVars
  BY DEF FrontierInv, Exhausted, AtLoopHead, FileFollowsState,
         YieldIsPartial
<1> QED
  BY <1>1, FrontierInvHolds, PTL DEF FrontierSpec, EverythingSavedIsYielded

\* No step but a reset takes a manifest or a visited collection from the file.
THEOREM FileGrows == FrontierSpec => FileOnlyGrows
<1>1. FrontierInv /\ [FrontierNext]_frontierVars
        => [frontierFile # None /\ frontierFile' # None =>
              /\ frontierFile.manifests \subseteq frontierFile'.manifests
              /\ frontierFile.visited \subseteq frontierFile'.visited]_frontierVars
  BY FrontierGrows
<1> QED
  BY <1>1, FrontierInvHolds, PTL DEF FrontierSpec, FileOnlyGrows

-----------------------------------------------------------------------------
(* The ingest.                                                             *)

AtWork == {"preserve", "clear", "mark"}

\* What a process holds in each phase, and where the manifest at hand is.
Placement ==
  /\ phase \in {"crawl", "report"} => walker # "closed"
  /\ phase \notin {"crawl", "report"} =>
       /\ walker = "closed" /\ step = "receive" /\ handed = {} /\ quit = 0
       /\ ~failed
  /\ phase \in {"rmJournal", "rmFailures"} => frontierFile = None
  /\ phase # "down" => exit = "none"
  /\ step \in AtWork => phase = "crawl" /\ manifest \in emitted
  /\ step \notin AtWork => manifest = None
  /\ handed \subseteq emitted

\* A completion follows the disposition.
Disposal ==
  /\ done \subseteq recorded
  /\ DoneMeansDisposed
  /\ step \in {"clear", "mark"} => manifest \in bundles \cup rejected

\* Until the root is expanded again it stays pending.
RootIsPending ==
  rereadOwed =>
    /\ exit # "complete"
    /\ frontierFile # None => Root \in frontierFile.pending
    /\ walker = "saved" => current # Root

\* Beyond the map of a running process the failure file holds only records
\* of manifests that got their verdict, and then this run has failed.
FailuresFollow ==
  phase \in {"migrate", "open", "crawl", "report"} =>
    /\ failureFile \ failures \subseteq bundles \cup rejected
    /\ ~failed => failureFile = failures

Inv ==
  /\ FrontierInv
  /\ TypeOK
  /\ Placement
  /\ Disposal
  /\ RootIsPending
  /\ FailuresFollow

-----------------------------------------------------------------------------
\* Every step of Ingest is a step of the frontier or leaves it alone.
LEMMA FrontierStep == [Next]_vars => [FrontierNext]_frontierVars
<1> SUFFICES ASSUME [Next]_vars
             PROVE  FrontierNext \/ UNCHANGED frontierVars
  OBVIOUS
<1>1. CASE UNCHANGED vars
  BY <1>1 DEF vars
<1>2. ASSUME NEW m \in Mode, Start(m)
      PROVE  UNCHANGED frontierVars
  BY <1>2 DEF Start
<1>3. CASE StartUp
  BY <1>3
  DEF FrontierNext, Walk, StartUp, RemoveFrontier, RemoveJournal,
      RemoveFailures, Load, Migrate, Migrated, OpenFrontier
<1>4. CASE Source
  BY <1>4
  DEF FrontierNext, Walk, Source, Hand, FetchCollection, SaveFrontier,
      AdoptFrontier, SourceExhausted
<1>5. CASE Consume \/ ReachMax
  BY <1>5
  DEF FrontierNext, Walk, Consume, ReachMax, ReceiveNoMatch, ReceiveMatch,
      PreserveSucceeds, ClearFailure, MarkJournal, NextResult, CrawlEnds,
      Report, EndProcess, crawlFrame
<1>6. CASE Shutdown
  BY <1>6
  DEF FrontierNext, Shutdown, WorkerQuits, Drain, ProducerQuits, crawlFrame
<1>7. CASE Killed \/ Interrupt \/ SourceFails
  BY <1>7 DEF FrontierNext, Killed, EndProcess, Interrupt, SourceFails
<1>8. CASE \/ \E m \in Manifest : ReceiveError(m)
           \/ PreserveFails \/ ClearFails \/ MarkFails
  BY <1>8 DEF ReceiveError, PreserveFails, ClearFails, MarkFails, crawlFrame
<1> QED
  BY <1>1, <1>2, <1>3, <1>4, <1>5, <1>6, <1>7, <1>8
  DEF Next, Disturbance, Mode

LEMMA FrontierInvKept == FrontierInv /\ [Next]_vars => FrontierInv'
BY FrontierStep, FrontierAssumption, FrontierNextKeepsInv

LEMMA InitImpliesInv == Init => Inv
<1> SUFFICES ASSUME Init PROVE Inv
  OBVIOUS
<1>1. FrontierInv
  <2>1. FrontierInit
    BY DEF Init, FrontierInit, FrontierInit, InitialFrontier, InitialFrontier,
           NoReferences, NoReferences
  <2> QED
    BY <2>1, FrontierAssumption, FrontierInitInv
<1>2. TypeOK
  BY <1>1
  DEF FrontierInv, Init, TypeOK, J!Init, J!TypeOK, Phase, Mode, Step, Exit
<1> QED
  BY <1>1, <1>2
  DEF Inv, Init, FrontierInit, J!Init, Placement, Disposal, DoneMeansDisposed,
      RootIsPending, FailuresFollow, AtWork

\* Each group of actions keeps what Ingest adds to the frontier.
Own == TypeOK /\ Placement /\ Disposal /\ RootIsPending /\ FailuresFollow

LEMMA StartUpKeeps ==
  ASSUME Inv, FrontierInv', StartUp \/ (\E m \in Mode : Start(m))
  PROVE  Own'
<1> USE DEF Inv, Own, Placement, Disposal, DoneMeansDisposed, RootIsPending,
            FailuresFollow, AtWork
<1>0. FrontierTypeOK' /\ TypeOK
  BY DEF FrontierInv
<1>1. ASSUME NEW m \in Mode, Start(m)
      PROVE  Own'
  BY <1>0, <1>1
  DEF Start, TypeOK, J!TypeOK, Phase, Mode, Step, Exit, frontierVars,
      journalVars, failureVars, consumerVars, historyVars
<1>2. CASE RemoveFrontier
  BY <1>0, <1>2
  DEF RemoveFrontier, RemoveFile, TypeOK, J!TypeOK, Phase, Step, Exit,
      journalVars, failureVars, consumerVars
<1>3. CASE RemoveJournal
  BY <1>0, <1>3
  DEF RemoveJournal, J!Remove, TypeOK, J!TypeOK, Phase, Step, Exit,
      frontierVars, failureVars, consumerVars, historyVars
<1>4. CASE RemoveFailures
  BY <1>0, <1>4
  DEF RemoveFailures, TypeOK, J!TypeOK, Phase, Step, Exit, frontierVars,
      journalVars, consumerVars, historyVars
<1>5. CASE Load
  BY <1>0, <1>5
  DEF Load, J!Open, TypeOK, J!TypeOK, Phase, Step, Exit, frontierVars,
      consumerVars, historyVars
<1>6. ASSUME NEW m \in Manifest, Migrate(m)
      PROVE  Own'
  BY <1>0, <1>6
  DEF Migrate, J!MarkDone, TypeOK, J!TypeOK, Phase, Step, Exit, frontierVars,
      failureVars, consumerVars, historyVars
<1>7. CASE Migrated
  BY <1>0, <1>7
  DEF Migrated, TypeOK, J!TypeOK, Phase, Step, Exit, frontierVars,
      journalVars, failureVars, consumerVars, historyVars
<1>8. CASE OpenFrontier
  BY <1>0, <1>8
  DEF OpenFrontier, Open, InitialFrontier, TypeOK, J!TypeOK, Phase,
      Step, Exit, journalVars, failureVars, consumerVars, historyVars
<1> QED
  BY <1>1, <1>2, <1>3, <1>4, <1>5, <1>6, <1>7, <1>8 DEF StartUp

LEMMA SourceKeeps ==
  ASSUME Inv, FrontierInv', Source \/ SourceFails
  PROVE  Own'
<1> USE DEF Inv, Own, Placement, Disposal, DoneMeansDisposed, RootIsPending,
            FailuresFollow, AtWork, TypeOK, J!TypeOK, Phase, Mode, Step, Exit,
            producerFrame, SourceMayRun, journalVars, failureVars, historyVars
<1>0. FrontierTypeOK'
  BY DEF FrontierInv
<1>1. ASSUME NEW m \in Manifest, Hand(m)
      PROVE  Own'
  BY <1>0, <1>1 DEF Hand, Yield
<1>2. ASSUME NEW c \in Collection, NEW doc \in Documents[c],
             FetchCollection(c, doc)
      PROVE  Own'
  BY <1>0, <1>2 DEF FetchCollection, Fetch
<1>3. CASE SaveFrontier
  <2>1. /\ walker = "fetched" /\ walker' = "saved"
        /\ frontierFile' = NextFrontier
        /\ rereadOwed' = (rereadOwed /\ current # Root)
        /\ UNCHANGED <<state, current, body, toYield, emitted, handed, failed>>
        /\ producerFrame
    BY <1>3 DEF SaveFrontier, Save
  <2>2. frontierFile = state /\ frontierFile # None
    BY <2>1 DEF FrontierInv, FileFollowsState
  <2>3. rereadOwed /\ current # Root => Root \in NextFrontier.pending
    BY <2>2 DEF NextFrontier, Expand
  <2>4. TypeOK' /\ FailuresFollow'
    BY <1>0, <2>1
  <2>5. RootIsPending'
    BY <2>1, <2>3
  <2> QED
    BY <2>1, <2>4, <2>5
<1>4. CASE AdoptFrontier
  BY <1>0, <1>4 DEF AdoptFrontier, Adopt
<1>5. CASE SourceExhausted
  BY <1>0, <1>5 DEF SourceExhausted, Exhausted
<1>6. CASE SourceFails
  <2>1. /\ walker' = "ended"
        /\ UNCHANGED <<frontierFile, emitted>>
        /\ UNCHANGED <<journalVars, failureVars, bundles, phase, mode, handed,
                       quit, manifest, cancelled, exit, historyVars>>
    BY <1>6 DEF SourceFails, FetchFails, SaveFails
  <2>2. \/ step = "receive" /\ step' = "tail" /\ failed'
        \/ UNCHANGED <<step, failed>>
    BY <1>6 DEF SourceFails
  <2>3. phase = "crawl"
    BY <1>6 DEF SourceFails
  <2>4. TypeOK'
    BY <1>0, <2>1, <2>2, <1>6 DEF SourceFails
  <2>5. Placement' /\ FailuresFollow'
    BY <2>1, <2>2, <2>3
  <2>6. Disposal' /\ RootIsPending'
    BY <2>1, <2>2
  <2> QED
    BY <2>4, <2>5, <2>6
<1> QED
  BY <1>1, <1>2, <1>3, <1>4, <1>5, <1>6 DEF Source

LEMMA ConsumeKeeps ==
  ASSUME Inv, FrontierInv', NEW m,
         \/ ReceiveError(m) \/ ReceiveNoMatch(m) \/ ReceiveMatch(m)
         \/ PreserveSucceeds \/ PreserveFails
         \/ ClearFailure \/ ClearFails \/ MarkJournal \/ MarkFails
         \/ NextResult \/ ReachMax \/ CrawlEnds
         \/ WorkerQuits(m) \/ Drain(m) \/ Interrupt
  PROVE  Own'
<1> USE DEF crawlFrame, frontierVars, journalVars, failureVars, consumerVars,
            historyVars
<1>0. FrontierTypeOK' /\ FrontierTypeOK /\ None \notin Manifest
  BY IngestAssumption DEF Inv, FrontierInv
<1>1. step \in AtWork => manifest \in Manifest
  BY <1>0 DEF Inv, Placement, FrontierTypeOK
<1>2. TypeOK'
  <2> USE <1>0, <1>1
          DEF Inv, TypeOK, J!TypeOK, Phase, Mode, Step, Exit, AtWork
  <2>1. CASE ReceiveError(m)
    BY <2>1 DEF ReceiveError, RecordFailure, CountCancelled
  <2>2. CASE ReceiveNoMatch(m) \/ ReceiveMatch(m)
    BY <2>2 DEF ReceiveNoMatch, ReceiveMatch
  <2>3. CASE PreserveSucceeds
    BY <2>3 DEF PreserveSucceeds
  <2>4. CASE PreserveFails
    BY <2>4 DEF PreserveFails, RecordFailure, CountCancelled
  <2>5. CASE ClearFailure \/ ClearFails
    BY <2>5 DEF ClearFailure, ClearFails
  <2>6. CASE MarkJournal \/ MarkFails
    BY <2>6 DEF MarkJournal, MarkFails, J!MarkDone, J!MarkDoneFails
  <2>7. CASE NextResult \/ ReachMax
    BY <2>7 DEF NextResult, ReachMax
  <2>8. CASE CrawlEnds
    BY <2>8 DEF CrawlEnds
  <2>9. CASE WorkerQuits(m)
    BY <2>9 DEF WorkerQuits
  <2>10. CASE Drain(m) \/ Interrupt
    BY <2>10, ZenonT(30) DEF Drain, Interrupt
  <2> QED
    BY <2>1, <2>2, <2>3, <2>4, <2>5, <2>6, <2>7, <2>8, <2>9, <2>10
<1>3. Placement' /\ Disposal' /\ RootIsPending' /\ FailuresFollow'
  <2> USE <1>0, <1>1
          DEF Inv, Placement, Disposal, DoneMeansDisposed, RootIsPending,
              FailuresFollow, AtWork
  <2>1. CASE ReceiveError(m)
    BY <2>1 DEF ReceiveError, RecordFailure, CountCancelled
  <2>2. CASE ReceiveNoMatch(m) \/ ReceiveMatch(m)
    BY <2>2 DEF ReceiveNoMatch, ReceiveMatch
  <2>3. CASE PreserveSucceeds
    BY <2>3 DEF PreserveSucceeds
  <2>4. CASE PreserveFails
    BY <2>4 DEF PreserveFails, RecordFailure, CountCancelled
  <2>5. CASE ClearFailure \/ ClearFails
    BY <2>5 DEF ClearFailure, ClearFails
  <2>6. CASE MarkJournal \/ MarkFails
    BY <2>6 DEF MarkJournal, MarkFails, J!MarkDone, J!MarkDoneFails
  <2>7. CASE NextResult \/ ReachMax
    BY <2>7 DEF NextResult, ReachMax
  <2>8. CASE CrawlEnds
    BY <2>8 DEF CrawlEnds
  <2>9. CASE WorkerQuits(m)
    BY <2>9 DEF WorkerQuits
  <2>10. CASE Drain(m) \/ Interrupt
    BY <2>10 DEF Drain, Interrupt
  <2> QED
    BY <2>1, <2>2, <2>3, <2>4, <2>5, <2>6, <2>7, <2>8, <2>9, <2>10
<1> QED
  BY <1>2, <1>3 DEF Own

LEMMA ProducerQuitsKeeps ==
  ASSUME Inv, FrontierInv', ProducerQuits
  PROVE  Own'
BY DEF FrontierInv, Inv, Own, Placement, Disposal, DoneMeansDisposed,
    RootIsPending, FailuresFollow, AtWork, TypeOK, J!TypeOK, Phase, Mode,
    Step, Exit, journalVars, failureVars, historyVars, ProducerQuits,
    producerFrame, Stop

\* Whatever the unlocked read returns, the root is still pending in it when
\* its expansion is owed.
LEMMA OwedRootIsRead ==
  ASSUME Inv, rereadOwed, phase = "report", NEW g \in ReadState
  PROVE  Root \in g.pending
<1>1. /\ walker \in {"iterating", "fetched", "ended", "saved"}
      /\ frontierFile # None /\ Root \in frontierFile.pending
  BY DEF Inv, FrontierInv, FrontierTypeOK, WalkerState, FileFollowsState,
         Placement, RootIsPending
<1>2. CASE walker # "saved"
  BY <1>1, <1>2 DEF ReadState, Inv, FrontierInv, FileFollowsState
<1>3. CASE walker = "saved"
  <2>1. /\ frontierFile = NextFrontier
        /\ current # Root
        /\ Root \in Seen(state)
    BY <1>1, <1>3
    DEF Inv, RootIsPending, FrontierInv, FileFollowsState, Consistent
  <2>2. Root \in state.pending
    BY <1>1, <2>1 DEF NextFrontier, Expand, Seen
  <2> QED
    BY <1>1, <1>3, <2>1, <2>2 DEF ReadState
<1> QED
  BY <1>2, <1>3

LEMMA EndKeeps ==
  ASSUME Inv, FrontierInv', Killed \/ Report
  PROVE  Own'
<1> USE DEF Inv, Own, Placement, Disposal, DoneMeansDisposed, RootIsPending,
            FailuresFollow, AtWork, TypeOK, J!TypeOK, Phase, Mode, Step, Exit,
            EndProcess, Close, historyVars, J!Close
<1>0. FrontierTypeOK'
  BY DEF FrontierInv
<1>1. CASE Killed
  BY <1>0, <1>1 DEF Killed, J!CloseInMarkDone
<1>2. CASE Report
  <2>1. PICK f \in ReadState, g \in ReadState : exit' = ExitStatus(f, g)
    BY <1>2 DEF Report
  <2>2. exit' \in Exit /\ (exit' = "complete" => g.pending = {})
    BY <2>1 DEF ExitStatus
  <2>3. rereadOwed => exit' # "complete"
    BY <1>2, <2>2, OwedRootIsRead DEF Report
  <2> QED
    BY <1>0, <1>2, <2>2, <2>3 DEF Report
<1> QED
  BY <1>1, <1>2

LEMMA NextKeepsInv == Inv /\ [Next]_vars => Inv'
<1> SUFFICES ASSUME Inv, [Next]_vars PROVE Inv'
  OBVIOUS
<1>1. FrontierInv'
  BY FrontierInvKept DEF Inv
<1>2. CASE UNCHANGED vars
  <2>1. FrontierTypeOK'
    BY <1>1 DEF FrontierInv
  <2> QED
    BY <1>1, <1>2, <2>1
    DEF Inv, vars, frontierVars, journalVars, failureVars, consumerVars,
        historyVars, TypeOK, J!TypeOK, Placement, Disposal, DoneMeansDisposed,
        RootIsPending, FailuresFollow
<1>3. CASE Next
  <2> SUFFICES Own'
    BY <1>1 DEF Inv, Own
  <2>1. CASE StartUp \/ Start("plain") \/ Start("fresh") \/ Start("journal")
    BY <1>1, <2>1, StartUpKeeps DEF Mode
  <2>2. CASE Source \/ SourceFails
    BY <1>1, <2>2, SourceKeeps
  <2>3. CASE Killed \/ Report
    BY <1>1, <2>3, EndKeeps
  <2>4. CASE \E m \in Manifest :
               \/ ReceiveError(m) \/ ReceiveNoMatch(m) \/ ReceiveMatch(m)
               \/ WorkerQuits(m) \/ Drain(m)
    BY <1>1, <2>4, ConsumeKeeps
  <2>5. CASE \/ PreserveSucceeds \/ PreserveFails
             \/ ClearFailure \/ ClearFails \/ MarkJournal \/ MarkFails
             \/ NextResult \/ ReachMax \/ CrawlEnds \/ Interrupt
    BY <1>1, <2>5, ConsumeKeeps
  <2>6. CASE ProducerQuits
    BY <1>1, <2>6, ProducerQuitsKeeps
  <2> QED
    BY <1>3, <2>1, <2>2, <2>3, <2>4, <2>5, <2>6
    DEF Next, Consume, Shutdown, Disturbance
<1> QED
  BY <1>2, <1>3

THEOREM InvHolds == Spec => []Inv
<1> QED
  BY InitImpliesInv, NextKeepsInv, PTL DEF Spec

\* Every variable keeps its type (the declarations of run, crawl and the
\* sources it uses).
THEOREM TypeCorrect == Spec => []TypeOK
BY InvHolds, PTL DEF Inv

\* A manifest the journal records as done has its bundle committed, was
\* classified as no match, or came from the former journal: whatever step a
\* kill interrupts, ResumableSource never skips an unfinished manifest.
THEOREM DoneIsDisposed == Spec => []DoneMeansDisposed
<1>1. Inv => DoneMeansDisposed
  BY DEF Inv, Disposal
<1> QED
  BY <1>1, InvHolds, PTL

\* Every manifest a worker or the consumer holds is in the frontier file.
THEOREM WorkIsOnFile == Spec => []WorkIsDiscovered
<1>1. Inv => WorkIsDiscovered
  <2> SUFFICES ASSUME Inv PROVE WorkIsDiscovered
    OBVIOUS
  <2>1. handed \subseteq emitted /\ (manifest # None => manifest \in emitted)
    BY DEF Inv, Placement
  <2>2. YieldedOnlyWhatIsSaved
    BY FrontierAssumption, YieldedIsSaved DEF Inv
  <2> QED
    BY <2>1, <2>2
    DEF WorkIsDiscovered, YieldedOnlyWhatIsSaved, InHand
<1> QED
  BY <1>1, InvHolds, PTL

\* Once -fresh has begun to reset, no run ends with status 0 before the root
\* collection was fetched and saved again.
THEOREM FreshIsReread == Spec => []FreshRereadsTheRoot
<1>1. Inv => FreshRereadsTheRoot
  BY DEF Inv, RootIsPending, FreshRereadsTheRoot
<1> QED
  BY <1>1, InvHolds, PTL

\* Which steps touch the failure file, and how.
LEMMA FailureFileSteps ==
  ASSUME [Next]_vars
  PROVE  \/ UNCHANGED failureFile
         \/ RemoveFailures
         \/ phase = "crawl" /\ \E m : RecordFailure(m)
         \/ ClearFailure
<1> USE DEF failureVars
<1>1. CASE UNCHANGED vars
  BY <1>1 DEF vars
<1>2. CASE StartUp \/ \E m \in Mode : Start(m)
  BY <1>2
  DEF StartUp, Start, RemoveFrontier, RemoveJournal, Load, Migrate, Migrated,
      OpenFrontier
<1>3. CASE Source \/ SourceFails
  BY <1>3
  DEF Source, SourceFails, Hand, FetchCollection, SaveFrontier, AdoptFrontier,
      SourceExhausted, producerFrame
<1>4. CASE Shutdown \/ Interrupt \/ Killed \/ ReachMax
  BY <1>4
  DEF Shutdown, WorkerQuits, Drain, ProducerQuits, producerFrame, Interrupt,
      Killed, EndProcess, ReachMax
<1>5. CASE Consume
  BY <1>5
  DEF Consume, ReceiveNoMatch, ReceiveMatch, PreserveSucceeds, MarkJournal,
      NextResult, CrawlEnds, Report, EndProcess
<1>6. CASE \/ \E m \in Manifest : ReceiveError(m)
           \/ PreserveFails \/ ClearFails \/ MarkFails
  BY <1>6 DEF ReceiveError, PreserveFails, ClearFails, MarkFails,
              CountCancelled
<1> QED
  BY <1>1, <1>2, <1>3, <1>4, <1>5, <1>6 DEF Next, Disturbance, Mode

\* A failure record leaves the file only by -fresh or when its manifest has
\* a verdict: its bundle is committed or it was classified as no match.
THEOREM FailuresOutliveRetries == Spec => FailureOutlivesRetry
<1>1. ASSUME Inv, [Next]_vars, phase # "rmFailures"
      PROVE  failureFile \ failureFile' \subseteq bundles \cup rejected
  <2>1. CASE UNCHANGED failureFile
    BY <2>1
  <2>2. CASE phase = "crawl" /\ \E m : RecordFailure(m)
    BY <1>1, <2>2 DEF RecordFailure, Inv, FailuresFollow
  <2>3. CASE ClearFailure
    BY <1>1, <2>3 DEF ClearFailure, Inv, FailuresFollow, Disposal
  <2> QED
    BY <1>1, <2>1, <2>2, <2>3, FailureFileSteps DEF RemoveFailures
<1> QED
  BY <1>1, InvHolds, PTL DEF Spec, FailureOutlivesRetry

-----------------------------------------------------------------------------
(* The ingest keeps the ledger's promise.                                  *)

\* Which steps touch the journal, and how.
LEMMA JournalSteps ==
  ASSUME Inv, [Next]_vars
  PROVE  \/ UNCHANGED recorded
         \/ RemoveJournal
         \/ \E m \in Manifest : Migrate(m)
         \/ /\ step = "mark"
            /\ recorded' = recorded \cup {manifest}
            /\ UNCHANGED frontierFile
<1> USE DEF journalVars
<1>1. CASE UNCHANGED vars
  BY <1>1 DEF vars
<1>2. CASE StartUp \/ \E m \in Mode : Start(m)
  BY <1>2
  DEF StartUp, Start, RemoveFrontier, RemoveFailures, Load, J!Open, Migrated,
      OpenFrontier
<1>3. CASE Source \/ SourceFails
  BY <1>3
  DEF Source, SourceFails, Hand, FetchCollection, SaveFrontier, AdoptFrontier,
      SourceExhausted, producerFrame
<1>4. CASE Shutdown \/ Interrupt \/ ReachMax
  BY <1>4
  DEF Shutdown, WorkerQuits, Drain, ProducerQuits, producerFrame, Interrupt,
      ReachMax
<1>5. CASE Killed
  BY <1>5 DEF Killed, EndProcess, Close, J!CloseInMarkDone, J!Close
<1>6. CASE MarkJournal \/ MarkFails
  BY <1>6
  DEF MarkJournal, MarkFails, J!MarkDone, J!MarkDoneFails, crawlFrame,
      frontierVars
<1>7. CASE Report
  BY <1>7 DEF Report, J!Close
<1>8. CASE Consume /\ ~MarkJournal /\ ~Report
  BY <1>8
  DEF Consume, ReceiveNoMatch, ReceiveMatch, PreserveSucceeds, ClearFailure,
      NextResult, CrawlEnds
<1>9. CASE \/ \E m \in Manifest : ReceiveError(m)
           \/ PreserveFails \/ ClearFails
  BY <1>9 DEF ReceiveError, PreserveFails, ClearFails
<1> QED
  BY <1>1, <1>2, <1>3, <1>4, <1>5, <1>6, <1>7, <1>8, <1>9
  DEF Next, Disturbance, Mode

Known == IF frontierFile = None THEN {} ELSE frontierFile.manifests

\* The known manifests grow or are forgotten at once.
LEMMA KnownSteps ==
  ASSUME Inv, Inv', [Next]_vars
  PROVE  /\ Known' \in SUBSET Manifest
         /\ Known \subseteq Known' \/ Known' = {}
<1>1. Known' \in SUBSET Manifest
  BY DEF Known, Inv, FrontierInv, FrontierTypeOK, Frontier
<1>2. CASE frontierFile = None \/ frontierFile' = None
  BY <1>1, <1>2 DEF Known
<1>3. CASE UNCHANGED frontierFile
  BY <1>1, <1>3 DEF Known
<1>4. CASE frontierFile # None /\ frontierFile' # None /\ FrontierNext
  BY <1>1, <1>4, FrontierAssumption, FrontierGrows DEF Known, Inv
<1> QED
  BY <1>1, <1>2, <1>3, <1>4, FrontierStep DEF frontierVars

\* Over all its process lives the ingest discovers before it disposes, and
\* forgets what it knows before what it has disposed of.
THEOREM IngestKeepsLedger == Spec => ImplementsLedger
<1>1. Init => Ledger!Init
  BY DEF Init, FrontierInit, J!Init, Ledger!Init
<1>2. ASSUME Inv, Inv', [Next]_vars
      PROVE  [Ledger!Next]_(Ledger!ledgerVars)
  <2>1. CASE UNCHANGED recorded
    <3>1. CASE Known \subseteq Known'
      <4>1. Known' = Known \cup Known'
        BY <3>1
      <4>2. Ledger!Discover(Known')
        BY <2>1, <4>1 DEF Ledger!Discover, Known
      <4> QED
        BY <4>2, <1>2, KnownSteps DEF Ledger!Next
    <3>2. CASE Known' = {}
      BY <2>1, <3>2 DEF Ledger!Next, Ledger!ForgetKnown, Known
    <3> QED
      BY <3>1, <3>2, <1>2, KnownSteps
  <2>2. CASE RemoveJournal
    BY <2>2, <1>2
    DEF RemoveJournal, J!Remove, frontierVars, Inv, Placement,
        Ledger!Next, Ledger!ForgetDisposed
  <2>3. ASSUME NEW m \in Manifest, Migrate(m)
        PROVE  Ledger!Next
    BY <2>3
    DEF Migrate, J!MarkDone, frontierVars, Ledger!Next, Ledger!Import
  <2>4. CASE /\ step = "mark"
             /\ recorded' = recorded \cup {manifest}
             /\ UNCHANGED frontierFile
    <3>1. manifest \in emitted
      BY <2>4, <1>2 DEF Inv, Placement, AtWork
    <3>2. frontierFile # None /\ manifest \in frontierFile.manifests
      BY <3>1, <1>2, FrontierAssumption, YieldedIsSaved
      DEF Inv, YieldedOnlyWhatIsSaved
    <3>3. manifest \in Manifest
      BY <3>1, <1>2 DEF Inv, FrontierInv, FrontierTypeOK
    <3> QED
      BY <2>4, <3>2, <3>3 DEF Ledger!Next, Ledger!Dispose
  <2> QED
    BY <2>1, <2>2, <2>3, <2>4, <1>2, JournalSteps
<1>3. ImplementsLedger <=> Ledger!Init /\ [][Ledger!Next]_(Ledger!ledgerVars)
  BY DEF ImplementsLedger, Ledger!Spec
<1> QED
  BY <1>1, <1>2, <1>3, InvHolds, PTL DEF Spec

-----------------------------------------------------------------------------
(* The exit status, with the default of one worker: source, fetches and    *)
(* consumer run in lockstep, so nothing is being saved when Stats() reads. *)

Lockstep ==
  Workers = 1 =>
    /\ quit = 0
    /\ phase = "report" \/ handed # {} \/ step # "receive" =>
         walker \in {"iterating", "ended"}

LEMMA LockstepKept == Inv /\ Lockstep /\ [Next]_vars => Lockstep'
<1> SUFFICES ASSUME Inv, Lockstep, [Next]_vars, Workers = 1
             PROVE  Lockstep'
  BY DEF Lockstep
<1> USE DEF Lockstep, consumerVars, frontierVars
<1>1. CASE UNCHANGED vars
  BY <1>1 DEF vars
<1>2. CASE StartUp \/ \E m \in Mode : Start(m)
  BY <1>2
  DEF StartUp, Start, RemoveFrontier, RemoveJournal, RemoveFailures, Load,
      Migrate, Migrated, OpenFrontier, Inv, Placement
<1>3. CASE Source
  BY <1>3
  DEF Source, Hand, Yield, FetchCollection, SaveFrontier, AdoptFrontier,
      SourceExhausted, Exhausted, Adopt, producerFrame, SourceMayRun
<1>4. CASE SourceFails
  BY <1>4 DEF SourceFails, FetchFails, SaveFails
<1>5. CASE Shutdown \/ Interrupt \/ ReachMax
  BY <1>5
  DEF Shutdown, WorkerQuits, Drain, ProducerQuits, Interrupt, ReachMax,
      crawlFrame
<1>6. CASE Killed \/ Report
  BY <1>6 DEF Killed, Report, EndProcess
<1>7. CASE \/ \E m \in Manifest :
                ReceiveError(m) \/ ReceiveNoMatch(m) \/ ReceiveMatch(m)
           \/ PreserveSucceeds \/ PreserveFails
  BY <1>7
  DEF ReceiveError, ReceiveNoMatch, ReceiveMatch, PreserveSucceeds,
      PreserveFails, crawlFrame
<1>8. CASE ClearFailure \/ ClearFails \/ MarkJournal \/ MarkFails
  BY <1>8 DEF ClearFailure, ClearFails, MarkJournal, MarkFails, crawlFrame
<1>9. CASE NextResult \/ CrawlEnds
  BY <1>9 DEF NextResult, CrawlEnds, crawlFrame
<1> QED
  BY <1>1, <1>2, <1>3, <1>4, <1>5, <1>6, <1>7, <1>8, <1>9
  DEF Next, Disturbance, Consume, Mode

\* Equal counts stand for equal sets when the journal holds nothing else.
LEMMA CountsCompare ==
  ASSUME NEW A \in SUBSET Manifest, NEW B \in SUBSET Manifest, B \subseteq A,
         ~(Cardinality(A) > Cardinality(B))
  PROVE  A = B
<1>1. IsFiniteSet(A) /\ IsFiniteSet(B)
  BY IngestAssumption, FS_Subset
<1>2. Cardinality(A) \in Nat /\ Cardinality(B) \in Nat
  BY <1>1, FS_CardinalityType
<1>3. Cardinality(B) <= Cardinality(A) /\ (Cardinality(B) = Cardinality(A) => A = B)
  BY <1>1, FS_Subset
<1> QED
  BY <1>2, <1>3

LEMMA ReportIsTrue ==
  ASSUME Inv, Lockstep, Workers = 1, Report
  PROVE  ZeroIsTrueIfMatched'
<1> SUFFICES ASSUME exit' = "complete", frontierFile' # None,
                    recorded' \subseteq frontierFile'.manifests
             PROVE  /\ frontierFile'.pending = {}
                    /\ frontierFile'.manifests \subseteq recorded'
                    /\ failureFile' = {}
  BY DEF ZeroIsTrueIfMatched, JournalMatchesFrontier, ZeroMeansComplete
<1>1. UNCHANGED <<frontierFile, recorded, failureFile>> /\ phase = "report"
  BY DEF Report, EndProcess, Close, J!Close
<1>2. ReadState = {state} /\ state = frontierFile
  BY <1>1
  DEF Lockstep, ReadState, Inv, FrontierInv, FileFollowsState
<1>3. exit' = ExitStatus(state, state)
  BY <1>2 DEF Report
<1>4. /\ ~failed
      /\ ~(PendingManifests(state) > 0)
      /\ state.pending = {}
      /\ failures = {}
  BY <1>3 DEF ExitStatus
<1>5. failureFile = {}
  BY <1>1, <1>4 DEF Inv, FailuresFollow
<1>6. /\ done \subseteq recorded
      /\ done \in SUBSET Manifest
      /\ state.manifests \in SUBSET Manifest
  BY DEF Inv, Disposal, TypeOK, J!TypeOK, FrontierInv, FrontierTypeOK, Frontier
<1>7. ~(Cardinality(state.manifests) > Cardinality(done))
  <2>1. /\ Cardinality(state.manifests) \in Nat
        /\ Cardinality(done) \in Nat
    BY <1>6, IngestAssumption, FS_Subset, FS_CardinalityType
  <2> QED
    BY <1>4, <2>1 DEF PendingManifests
<1>8. state.manifests = done
  BY <1>1, <1>2, <1>6, <1>7, CountsCompare
<1> QED
  BY <1>1, <1>2, <1>4, <1>5, <1>6, <1>8

\* A process is gone only after its report or when killed.
LEMMA ProcessEnds ==
  ASSUME Inv, Next, phase' = "down"
  PROVE  Report \/ Killed
<1>1. CASE StartUp \/ \E m \in Mode : Start(m)
  BY <1>1
  DEF StartUp, Start, RemoveFrontier, RemoveJournal, RemoveFailures, Load,
      Migrate, Migrated, OpenFrontier
<1>2. CASE Source \/ SourceFails
  BY <1>2
  DEF Source, SourceFails, Hand, FetchCollection, SaveFrontier, AdoptFrontier,
      SourceExhausted, producerFrame, SourceMayRun
<1>3. CASE Shutdown \/ Interrupt \/ ReachMax
  BY <1>3
  DEF Shutdown, WorkerQuits, Drain, ProducerQuits, Interrupt, ReachMax,
      producerFrame, crawlFrame
<1>4. CASE \/ \E m \in Manifest :
                ReceiveError(m) \/ ReceiveNoMatch(m) \/ ReceiveMatch(m)
           \/ PreserveSucceeds \/ PreserveFails
  BY <1>4
  DEF ReceiveError, ReceiveNoMatch, ReceiveMatch, PreserveSucceeds,
      PreserveFails, crawlFrame
<1>5. CASE \/ ClearFailure \/ ClearFails \/ MarkJournal \/ MarkFails
           \/ NextResult \/ CrawlEnds
  BY <1>5
  DEF ClearFailure, ClearFails, MarkJournal, MarkFails, NextResult, CrawlEnds,
      crawlFrame
<1> QED
  BY <1>1, <1>2, <1>3, <1>4, <1>5 DEF Next, Disturbance, Consume, Mode

\* With one worker exit status 0 is true whenever every journal entry is a
\* completion of a manifest the frontier has discovered: nothing is pending,
\* every discovered manifest is done and no failure is on record.
THEOREM ZeroIsTrue ==
  ASSUME Workers = 1
  PROVE  Spec => []ZeroIsTrueIfMatched
<1>1. Init => Lockstep /\ ZeroIsTrueIfMatched
  BY DEF Init, Lockstep, ZeroIsTrueIfMatched, ZeroMeansComplete
<1>2. ASSUME Inv, Inv', Lockstep, ZeroIsTrueIfMatched, [Next]_vars
      PROVE  Lockstep' /\ ZeroIsTrueIfMatched'
  <2>1. Lockstep'
    BY <1>2, LockstepKept
  <2>2. CASE UNCHANGED vars
    BY <1>2, <2>1, <2>2
    DEF vars, frontierVars, journalVars, failureVars, ZeroIsTrueIfMatched,
        JournalMatchesFrontier, ZeroMeansComplete
  <2>3. CASE Report
    BY <1>2, <2>1, <2>3, ReportIsTrue
  <2>4. CASE Killed
    BY <2>1, <2>4 DEF Killed, ZeroIsTrueIfMatched, ZeroMeansComplete
  <2>5. CASE phase' # "down"
    BY <2>1, <2>5 DEF ZeroIsTrueIfMatched, ZeroMeansComplete
  <2> QED
    BY <1>2, <2>2, <2>3, <2>4, <2>5, ProcessEnds
<1> QED
  BY <1>1, <1>2, InvHolds, PTL DEF Spec

-----------------------------------------------------------------------------
(* Nothing becomes both done and failed, unless it is imported.             *)

\* Of the manifests in hand none is recorded done, what memory and disk
\* disagree on has already passed through this process, and of what is done
\* memory holds no failure that is not on file.
Apart ==
  /\ InHand \cap recorded = {}
  /\ manifest \notin handed
  /\ phase \in {"migrate", "open"} => done = recorded /\ failureFile = failures
  /\ phase \in {"crawl", "report"} =>
       /\ recorded \ done \subseteq emitted
       /\ failureFile \ failures \subseteq emitted \ InHand
       /\ failures \cap recorded \subseteq failureFile
  /\ step = "mark" => manifest \notin failureFile \cup failures

LEMMA InitApart == Init => Apart
BY IngestAssumption DEF Init, J!Init, Apart, InHand

LEMMA StartUpKeepsApart ==
  ASSUME Inv, Apart,
         StartUp \/ (\E m \in Mode : Start(m)) \/ Killed \/ Report
  PROVE  Apart'
<1> USE DEF Apart, InHand, frontierVars, journalVars, failureVars, consumerVars
<1>1. phase \notin {"crawl", "report"} =>
        handed = {} /\ manifest = None /\ step = "receive"
  BY DEF Inv, Placement, AtWork
<1>2. ASSUME NEW m \in Mode, Start(m)
      PROVE  Apart'
  BY <1>1, <1>2 DEF Start
<1>3. CASE RemoveFrontier
  BY <1>1, <1>3 DEF RemoveFrontier
<1>4. CASE RemoveJournal
  BY <1>1, <1>4 DEF RemoveJournal, J!Remove
<1>5. CASE RemoveFailures
  BY <1>1, <1>5 DEF RemoveFailures
<1>6. CASE Load
  BY <1>1, <1>6 DEF Load, J!Open
<1>7. CASE Migrated
  BY <1>1, <1>7 DEF Migrated
<1>8. CASE OpenFrontier
  BY <1>1, <1>8 DEF OpenFrontier
<1>9. CASE Report
  BY <1>9 DEF Report, EndProcess, J!Close
<1>10. CASE Killed
  BY <1>10 DEF Killed, EndProcess, J!Close, J!CloseInMarkDone
<1>11. ASSUME NEW m \in Manifest, Migrate(m)
       PROVE  Apart'
  BY <1>1, <1>11 DEF Migrate, J!MarkDone
<1> QED
  BY <1>2, <1>3, <1>4, <1>5, <1>6, <1>7, <1>8, <1>9, <1>10, <1>11 DEF StartUp

LEMMA SourceKeepsApart ==
  ASSUME Inv, Apart, Source \/ SourceFails
  PROVE  Apart'
<1> USE DEF Apart, InHand, journalVars, failureVars, producerFrame,
            SourceMayRun
<1>0. /\ None \notin Manifest
      /\ step \in AtWork => manifest \in emitted
      /\ step \notin AtWork => manifest = None
      /\ emitted \in SUBSET Manifest
  BY IngestAssumption DEF Inv, FrontierInv, Placement, FrontierTypeOK
<1>1. ASSUME NEW m \in Manifest, Hand(m)
      PROVE  Apart'
  <2>1. /\ phase = "crawl" /\ emitted' = emitted \cup {m}
        /\ handed' = handed \/ (m \notin done /\ handed' = handed \cup {m})
        /\ producerFrame
    BY <1>1 DEF Hand, Yield
  <2>2. m \notin emitted
    BY <1>1 DEF Hand, Yield, Inv, FrontierInv, YieldIsPartial
  <2>3. m # manifest
    BY <1>0, <2>2
  <2>4. m \notin recorded \ done /\ m \notin failureFile \ failures
    BY <2>1, <2>2
  <2> QED
    BY <2>1, <2>2, <2>3, <2>4
<1>2. ASSUME NEW c \in Collection, NEW doc \in Documents[c],
             FetchCollection(c, doc)
      PROVE  Apart'
  BY <1>2 DEF FetchCollection, Fetch
<1>3. CASE SaveFrontier
  BY <1>3 DEF SaveFrontier, Save
<1>4. CASE AdoptFrontier
  BY <1>4 DEF AdoptFrontier, Adopt
<1>5. CASE SourceExhausted
  BY <1>5 DEF SourceExhausted, Exhausted
<1>6. CASE SourceFails
  BY <1>0, <1>6 DEF SourceFails, FetchFails, SaveFails
<1> QED
  BY <1>1, <1>2, <1>3, <1>4, <1>5, <1>6 DEF Source

LEMMA ConsumeKeepsApart ==
  ASSUME Inv, Apart, NEW m,
         \/ ReceiveError(m) \/ ReceiveNoMatch(m) \/ ReceiveMatch(m)
         \/ PreserveSucceeds \/ PreserveFails
         \/ ClearFailure \/ ClearFails \/ MarkJournal \/ MarkFails
         \/ NextResult \/ ReachMax \/ CrawlEnds
         \/ WorkerQuits(m) \/ Drain(m) \/ ProducerQuits \/ Interrupt
  PROVE  Apart'
<1> USE DEF Apart, InHand, crawlFrame, frontierVars, journalVars, failureVars,
            consumerVars
<1>0. /\ None \notin Manifest
      /\ step \in AtWork => manifest \in emitted /\ manifest \in Manifest
      /\ step \notin AtWork => manifest = None
      /\ handed \subseteq emitted /\ handed \subseteq Manifest
  BY IngestAssumption DEF Inv, Placement, TypeOK, FrontierInv, FrontierTypeOK
<1>1. CASE ReceiveError(m)
  BY <1>0, <1>1 DEF ReceiveError, RecordFailure, CountCancelled, AtWork
<1>2. CASE ReceiveNoMatch(m) \/ ReceiveMatch(m)
  BY <1>0, <1>2 DEF ReceiveNoMatch, ReceiveMatch, AtWork
<1>3. CASE PreserveSucceeds
  BY <1>0, <1>3 DEF PreserveSucceeds, AtWork
<1>4. CASE PreserveFails
  BY <1>0, <1>4 DEF PreserveFails, RecordFailure, CountCancelled, AtWork
<1>5. CASE ClearFailure \/ ClearFails
  BY <1>0, <1>5 DEF ClearFailure, ClearFails, AtWork
<1>6. CASE MarkJournal \/ MarkFails
  BY <1>0, <1>6
  DEF MarkJournal, MarkFails, J!MarkDone, J!MarkDoneFails, AtWork
<1>7. CASE NextResult \/ ReachMax \/ CrawlEnds
  BY <1>0, <1>7 DEF NextResult, ReachMax, CrawlEnds
<1>8. CASE WorkerQuits(m) \/ Drain(m) \/ Interrupt
  BY <1>0, <1>8 DEF WorkerQuits, Drain, Interrupt
<1>9. CASE ProducerQuits
  BY <1>0, <1>9 DEF ProducerQuits, Stop, producerFrame
<1> QED
  BY <1>1, <1>2, <1>3, <1>4, <1>5, <1>6, <1>7, <1>8, <1>9

\* A step that is no import records nothing as failed that is done, nor as
\* done what has a failure on file.
LEMMA StepKeepsApart ==
  ASSUME Inv, Apart, [Next]_vars, phase # "migrate"
  PROVE  failureFile' \cap recorded' \subseteq failureFile \cap recorded
<1> USE DEF Apart, InHand, frontierVars, journalVars, failureVars,
            consumerVars, crawlFrame, producerFrame
<1>1. /\ step \in AtWork => manifest \in Manifest
      /\ None \notin Manifest
  BY IngestAssumption DEF Inv, Placement, FrontierInv, FrontierTypeOK
<1>2. ASSUME NEW m, ReceiveError(m)
      PROVE  failureFile' \cap recorded' \subseteq failureFile \cap recorded
  BY <1>2 DEF ReceiveError, RecordFailure, CountCancelled
<1>3. CASE PreserveFails
  BY <1>1, <1>3 DEF PreserveFails, RecordFailure, CountCancelled, AtWork
<1>4. CASE ClearFailure \/ ClearFails
  BY <1>4 DEF ClearFailure, ClearFails
<1>5. CASE MarkJournal \/ MarkFails
  BY <1>5 DEF MarkJournal, MarkFails, J!MarkDone, J!MarkDoneFails
<1>6. CASE Killed
  BY <1>6 DEF Killed, EndProcess, J!Close, J!CloseInMarkDone
<1>7. CASE RemoveJournal \/ RemoveFailures
  BY <1>7 DEF RemoveJournal, J!Remove, RemoveFailures
<1>8. CASE UNCHANGED <<failureFile, recorded>>
  BY <1>8
<1>9. CASE Source \/ SourceFails
  BY <1>8, <1>9
  DEF Source, Hand, FetchCollection, SaveFrontier, AdoptFrontier,
      SourceExhausted, SourceFails
<1>10. CASE \/ \E m \in Mode : Start(m)
            \/ RemoveFrontier \/ Load \/ Migrated \/ OpenFrontier
  BY <1>8, <1>10
  DEF Start, RemoveFrontier, Load, J!Open, Migrated, OpenFrontier
<1>11. CASE \/ \E m \in Manifest : \/ ReceiveNoMatch(m) \/ ReceiveMatch(m)
                                   \/ WorkerQuits(m) \/ Drain(m)
            \/ PreserveSucceeds \/ NextResult \/ ReachMax \/ CrawlEnds
            \/ ProducerQuits \/ Interrupt \/ Report
  BY <1>8, <1>11
  DEF ReceiveNoMatch, ReceiveMatch, WorkerQuits, Drain, PreserveSucceeds,
      NextResult, ReachMax, CrawlEnds, ProducerQuits, Interrupt, Report,
      EndProcess, J!Close
<1>12. ~\E m \in Manifest : Migrate(m)
  BY DEF Migrate
<1> QED
  BY <1>2, <1>3, <1>4, <1>5, <1>6, <1>7, <1>8, <1>9, <1>10, <1>11, <1>12
  DEF Next, StartUp, Consume, Shutdown, Disturbance, Mode, vars

\* Whatever saves fail and wherever the process is killed: only the import of
\* a former journal makes a manifest both done and failed on disk.
THEOREM NothingElseSticks == Spec => OnlyImportsStick
<1>1. ASSUME Inv, Apart, [Next]_vars
      PROVE  Apart'
  <2>1. CASE UNCHANGED vars
    BY <1>1, <2>1
    DEF vars, frontierVars, journalVars, failureVars, consumerVars, Apart,
        InHand
  <2>2. CASE StartUp \/ (\E m \in Mode : Start(m)) \/ Killed \/ Report
    BY <1>1, <2>2, StartUpKeepsApart
  <2>3. CASE Source \/ SourceFails
    BY <1>1, <2>3, SourceKeepsApart
  <2>4. CASE \E m \in Manifest :
               \/ ReceiveError(m) \/ ReceiveNoMatch(m) \/ ReceiveMatch(m)
               \/ WorkerQuits(m) \/ Drain(m)
    BY <1>1, <2>4, ConsumeKeepsApart
  <2>5. CASE \/ PreserveSucceeds \/ PreserveFails
             \/ ClearFailure \/ ClearFails \/ MarkJournal \/ MarkFails
             \/ NextResult \/ ReachMax \/ CrawlEnds \/ ProducerQuits
             \/ Interrupt
    BY <1>1, <2>5, ConsumeKeepsApart
  <2> QED
    BY <1>1, <2>1, <2>2, <2>3, <2>4, <2>5
    DEF Next, Consume, Shutdown, Disturbance, Mode
<1>2. Inv /\ Apart /\ [Next]_vars =>
        [phase # "migrate" =>
           failureFile' \cap recorded' \subseteq failureFile \cap recorded]_vars
  BY StepKeepsApart
<1> QED
  BY <1>1, <1>2, InitApart, InvHolds, PTL DEF Spec, OnlyImportsStick
=============================================================================
