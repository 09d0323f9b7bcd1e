------------------------------- MODULE Ingest -------------------------------
(***************************************************************************)
(* A collection ingest over any number of process lives                    *)
(* (cmd/iiifpreserve: run, crawl, openIngestState, ingestFailures; with    *)
(* the frontier and the journal of internal/source and the results of      *)
(* internal/pipeline).                                                     *)
(*                                                                         *)
(* Durable: the frontier file, the completion journal, the failure file    *)
(* and the committed bundles.  A process opens them (after removing them   *)
(* one by one under -fresh, or after importing a former journal), walks    *)
(* the frontier, hands manifests to the workers, and for each result first *)
(* preserves, then clears the failure record, then marks the journal.  It  *)
(* ends by -max, by running out of work, by an error, or killed anywhere.  *)
(*                                                                         *)
(* What the source does to the frontier (Open, Yield, Fetch, Save, Adopt   *)
(* and so on) are the actions of CollectionFrontier.                       *)
(*                                                                         *)
(* Worker fetches and classification are one step with the receipt of the  *)
(* result; Pipeline models the goroutines and channels between them.  A    *)
(* start-up error ends the process as a kill does, so Killed stands for    *)
(* both.                                                                   *)
(***************************************************************************)
EXTENDS CollectionFrontier

CONSTANTS
  Legacy,   \* completions in the deprecated -journal file
  Workers   \* the -workers flag; 1 runs the pipeline sequentially

VARIABLES
  recorded, acked, done,
  failureFile,   \* URLs with a record in the failures file
  failures,      \* the ingestFailures map of the process
  bundles,       \* manifests whose bundle is committed in the store
  phase,         \* where the process stands in run()
  mode,          \* the flags that matter: plain, -fresh or -journal
  handed,        \* manifests at the workers, result not yet consumed
  quit,          \* workers that left on a cancelled context
  step,          \* where the consumer stands in the body of crawl's loop
  manifest,      \* r.ManifestURL of the result it is at
  failed,        \* crawl's failures count is not zero
  cancelled,     \* the context is cancelled (SIGINT or SIGTERM)
  exit,          \* how the last process ended
  rejected,      \* history: manifests classified as no match
  rereadOwed     \* history: -fresh began, the root not expanded since

J == INSTANCE CompletionJournal WITH URL <- Manifest

ASSUME IngestAssumption ==
  /\ None \notin Manifest
  /\ IsFiniteSet(Manifest)
  /\ Legacy \subseteq Manifest
  /\ Workers \in Nat \ {0}

journalVars  == <<recorded, acked, done>>
failureVars  == <<failureFile, failures>>
consumerVars == <<handed, quit, step, manifest, failed, cancelled>>
historyVars  == <<rejected, rereadOwed>>
vars == <<frontierVars, journalVars, failureVars, bundles, phase, mode,
          consumerVars, exit, historyVars>>

Phase == {"down", "rmFrontier", "rmJournal", "rmFailures", "load", "migrate",
          "open", "crawl", "report"}
Mode  == {"plain", "fresh", "journal"}
Step  == {"receive", "preserve", "clear", "mark", "tail", "drain"}
Exit  == {"none", "complete", "failures", "incomplete"}

Init ==
  /\ FrontierInit
  /\ J!Init
  /\ failureFile = {}
  /\ failures = {}
  /\ bundles = {}
  /\ phase = "down"
  /\ mode = "plain"
  /\ handed = {}
  /\ quit = 0
  /\ step = "receive"
  /\ manifest = None
  /\ failed = FALSE
  /\ cancelled = FALSE
  /\ exit = "none"
  /\ rejected = {}
  /\ rereadOwed = FALSE

-----------------------------------------------------------------------------
(* The beginning and the end of a process.                                 *)

\* Mutant of Start: -fresh spares the frontier.
StartSparingFrontier(m) ==
  /\ phase = "down"
  /\ mode' = m
  /\ phase' = IF m = "fresh" THEN "rmJournal" ELSE "load"
  /\ exit' = "none"
  /\ UNCHANGED <<frontierVars, journalVars, failureVars, bundles,
                 consumerVars, historyVars>>

Start(m) ==
  /\ phase = "down"
  /\ mode' = m
  /\ phase' = IF m = "fresh" THEN "rmFrontier" ELSE "load"
  /\ exit' = "none"
  /\ UNCHANGED <<frontierVars, journalVars, failureVars, bundles,
                 consumerVars, historyVars>>

\* Everything a process holds goes with it.
EndProcess ==
  /\ Close
  /\ failures' = {}
  /\ phase' = "down"
  /\ mode' = "plain"
  /\ handed' = {}
  /\ quit' = 0
  /\ step' = "receive"
  /\ manifest' = None
  /\ failed' = FALSE
  /\ cancelled' = FALSE
  /\ UNCHANGED <<failureFile, bundles, historyVars>>

\* Killed at any point, inside MarkDone included; or ended by a start-up
\* error.
Killed ==
  /\ phase # "down"
  /\ EndProcess
  /\ exit' = "none"
  /\ IF step = "mark"
     THEN J!CloseInMarkDone(manifest)
     ELSE J!Close

-----------------------------------------------------------------------------
(* openIngestState, migrateLegacy and OpenCollectionFrontierSource.        *)

\* Mutant of RemoveFrontier: the removal is forgotten.
KeepFrontier ==
  /\ phase = "rmFrontier"
  /\ phase' = "rmJournal"
  /\ rereadOwed' = TRUE
  /\ UNCHANGED <<frontierVars, journalVars, failureVars, bundles, mode,
                 consumerVars, exit, rejected>>

\* -fresh removes the frontier, then the journal, then the failures.
RemoveFrontier ==
  /\ phase = "rmFrontier"
  /\ RemoveFile
  /\ phase' = "rmJournal"
  /\ rereadOwed' = TRUE
  /\ UNCHANGED <<journalVars, failureVars, bundles, mode, consumerVars, exit,
                 rejected>>

RemoveJournal ==
  /\ phase = "rmJournal"
  /\ J!Remove
  /\ phase' = "rmFailures"
  /\ UNCHANGED <<frontierVars, failureVars, bundles, mode, consumerVars, exit,
                 historyVars>>

RemoveFailures ==
  /\ phase = "rmFailures"
  /\ failureFile' = {}
  /\ phase' = "load"
  /\ UNCHANGED <<frontierVars, journalVars, failures, bundles, mode,
                 consumerVars, exit, historyVars>>

\* OpenFileJournal and openIngestFailures.
Load ==
  /\ phase = "load"
  /\ J!Open
  /\ failures' = failureFile
  /\ phase' = IF mode = "journal" THEN "migrate" ELSE "open"
  /\ UNCHANGED <<frontierVars, failureFile, bundles, mode, consumerVars, exit,
                 historyVars>>

\* migrateLegacy marks every completion of the former journal.
Migrate(m) ==
  /\ phase = "migrate"
  /\ m \in Legacy
  /\ J!MarkDone(m)
  /\ UNCHANGED <<frontierVars, failureVars, bundles, phase, mode,
                 consumerVars, exit, historyVars>>

Migrated ==
  /\ phase = "migrate"
  /\ Legacy \subseteq done
  /\ phase' = "open"
  /\ UNCHANGED <<frontierVars, journalVars, failureVars, bundles, mode,
                 consumerVars, exit, historyVars>>

OpenFrontier ==
  /\ phase = "open"
  /\ Open
  /\ phase' = "crawl"
  /\ UNCHANGED <<journalVars, failureVars, bundles, mode, consumerVars, exit,
                 historyVars>>

-----------------------------------------------------------------------------
(* The producer: the frontier's Manifests behind ResumableSource.          *)

\* With one worker the iterators run in lockstep: the source moves only
\* while crawl asks for its next result.  Otherwise it has a goroutine.
SourceMayRun ==
  /\ phase = "crawl"
  /\ Workers = 1 => handed = {} /\ step = "receive"

producerFrame ==
  UNCHANGED <<journalVars, failureVars, bundles, phase, mode, quit, step,
              manifest, cancelled, exit, rejected>>

\* Mutant of Hand: a manifest with a failure record is skipped too.
HandUnfailed(m) ==
  /\ SourceMayRun
  /\ Yield(m)
  /\ IF m \in done \cup failures
     THEN UNCHANGED handed
     ELSE /\ Cardinality(handed) + quit < Workers
          /\ handed' = handed \cup {m}
  /\ producerFrame
  /\ UNCHANGED <<failed, rereadOwed>>

\* A yielded manifest that is done is skipped; another goes to a free worker.
Hand(m) ==
  /\ SourceMayRun
  /\ Yield(m)
  /\ IF m \in done
     THEN UNCHANGED handed
     ELSE /\ Cardinality(handed) + quit < Workers
          /\ handed' = handed \cup {m}
  /\ producerFrame
  /\ UNCHANGED <<failed, rereadOwed>>

FetchCollection(c, doc) ==
  /\ SourceMayRun
  /\ Fetch(c, doc)
  /\ producerFrame
  /\ UNCHANGED <<handed, failed, rereadOwed>>

\* Once the consumer has left, a producer goroutine may still finish a save.
SaveFrontier ==
  /\ SourceMayRun \/ (phase = "report" /\ Workers > 1)
  /\ Save
  /\ rereadOwed' = (rereadOwed /\ current # Root)
  /\ producerFrame
  /\ UNCHANGED <<handed, failed>>

AdoptFrontier ==
  /\ SourceMayRun \/ (phase = "report" /\ Workers > 1)
  /\ Adopt
  /\ producerFrame
  /\ UNCHANGED <<handed, failed, rereadOwed>>

SourceExhausted ==
  /\ SourceMayRun
  /\ Exhausted
  /\ producerFrame
  /\ UNCHANGED <<handed, failed, rereadOwed>>

\* A discovery error is a result without a URL: crawl counts it and records
\* nothing.  On a cancelled context a producer goroutine may drop it.
SourceFails ==
  /\ SourceMayRun
  /\ FetchFails \/ SaveFails
  /\ \/ step = "receive" /\ step' = "tail" /\ failed' = TRUE
     \/ cancelled /\ Workers > 1 /\ UNCHANGED <<step, failed>>
  /\ UNCHANGED <<journalVars, failureVars, bundles, phase, mode, handed, quit,
                 manifest, cancelled, exit, historyVars>>

-----------------------------------------------------------------------------
(* Cancellation.                                                           *)

Interrupt ==
  /\ phase = "crawl"
  /\ ~cancelled
  /\ cancelled' = TRUE
  /\ UNCHANGED <<frontierVars, journalVars, failureVars, bundles, phase, mode,
                 handed, quit, step, manifest, failed, exit, historyVars>>

\* A worker or the producer goroutine takes ctx.Done instead of sending.
WorkerQuits(m) ==
  /\ phase = "crawl"
  /\ cancelled
  /\ Workers > 1
  /\ m \in handed
  /\ handed' = handed \ {m}
  /\ quit' = quit + 1
  /\ UNCHANGED <<frontierVars, journalVars, failureVars, bundles, phase, mode,
                 step, manifest, failed, cancelled, exit, historyVars>>

ProducerQuits ==
  /\ phase = "crawl"
  /\ cancelled
  /\ Workers > 1
  /\ Stop
  /\ producerFrame
  /\ UNCHANGED <<handed, failed, rereadOwed>>

-----------------------------------------------------------------------------
(* The consumer: the body of crawl's loop.                                 *)

crawlFrame ==
  UNCHANGED <<frontierVars, bundles, phase, mode, quit, cancelled, exit,
              historyVars>>

\* ingestFailures.MarkFailed: the map, then the file unless the save fails.
\* Either way the result counts as a failure.
RecordFailure(m) ==
  /\ failures' = failures \cup {m}
  /\ failureFile' \in {failures', failureFile}
  /\ failed' = TRUE

\* A cancelled operation counts but is not recorded.
CountCancelled ==
  /\ cancelled
  /\ failed' = TRUE
  /\ UNCHANGED failureVars

\* The fetch or the metadata extraction of a manifest failed.
ReceiveError(m) ==
  /\ phase = "crawl" /\ step = "receive"
  /\ m \in handed
  /\ handed' = handed \ {m}
  /\ RecordFailure(m) \/ CountCancelled
  /\ step' = "tail"
  /\ crawlFrame
  /\ UNCHANGED <<journalVars, manifest>>

ReceiveNoMatch(m) ==
  /\ phase = "crawl" /\ step = "receive"
  /\ m \in handed
  /\ handed' = handed \ {m}
  /\ manifest' = m
  /\ rejected' = rejected \cup {m}
  /\ step' = "clear"
  /\ UNCHANGED <<frontierVars, journalVars, failureVars, bundles, phase, mode,
                 quit, failed, cancelled, exit, rereadOwed>>

\* Mutant of ReceiveMatch: the retry clears the record beforehand.
ReceiveMatchClearing(m) ==
  /\ phase = "crawl" /\ step = "receive"
  /\ m \in handed
  /\ handed' = handed \ {m}
  /\ manifest' = m
  /\ failures' = failures \ {m}
  /\ failureFile' = IF m \in failures THEN failures' ELSE failureFile
  /\ step' = "preserve"
  /\ crawlFrame
  /\ UNCHANGED <<journalVars, failed>>

ReceiveMatch(m) ==
  /\ phase = "crawl" /\ step = "receive"
  /\ m \in handed
  /\ handed' = handed \ {m}
  /\ manifest' = m
  /\ step' = "preserve"
  /\ crawlFrame
  /\ UNCHANGED <<journalVars, failureVars, failed>>

\* Mutant of PreserveSucceeds: the failure record is not cleared.
PreserveWithoutClearing ==
  /\ phase = "crawl" /\ step = "preserve"
  /\ bundles' = bundles \cup {manifest}
  /\ step' = "mark"
  /\ UNCHANGED <<frontierVars, journalVars, failureVars, phase, mode, handed,
                 quit, manifest, failed, cancelled, exit, historyVars>>

\* preserve.Preserve returned nil: provenance.json is in place.
PreserveSucceeds ==
  /\ phase = "crawl" /\ step = "preserve"
  /\ bundles' = bundles \cup {manifest}
  /\ step' = "clear"
  /\ UNCHANGED <<frontierVars, journalVars, failureVars, phase, mode, handed,
                 quit, manifest, failed, cancelled, exit, historyVars>>

\* Mutant of PreserveFails: the manifest counts as completed.
PreserveFailsCompleted ==
  /\ phase = "crawl" /\ step = "preserve"
  /\ RecordFailure(manifest) \/ CountCancelled
  /\ step' = "clear"
  /\ crawlFrame
  /\ UNCHANGED <<journalVars, handed, manifest>>

PreserveFails ==
  /\ phase = "crawl" /\ step = "preserve"
  /\ RecordFailure(manifest) \/ CountCancelled
  /\ manifest' = None
  /\ step' = "tail"
  /\ crawlFrame
  /\ UNCHANGED <<journalVars, handed>>

\* ingestFailures.ClearFailure: nothing without a record; else the map and
\* the file, which holds the whole map.
ClearFailure ==
  /\ phase = "crawl" /\ step = "clear"
  /\ failures' = failures \ {manifest}
  /\ failureFile' = IF manifest \in failures THEN failures' ELSE failureFile
  /\ step' = "mark"
  /\ crawlFrame
  /\ UNCHANGED <<journalVars, handed, manifest, failed>>

\* Mutant of ClearFails: completed stays true.
ClearFailsCompleted ==
  /\ phase = "crawl" /\ step = "clear"
  /\ manifest \in failures
  /\ failures' = failures \ {manifest}
  /\ failed' = TRUE
  /\ step' = "mark"
  /\ crawlFrame
  /\ UNCHANGED <<journalVars, failureFile, handed, manifest>>

\* The save fails: the manifest is not marked done.
ClearFails ==
  /\ phase = "crawl" /\ step = "clear"
  /\ manifest \in failures
  /\ failures' = failures \ {manifest}
  /\ failed' = TRUE
  /\ manifest' = None
  /\ step' = "tail"
  /\ crawlFrame
  /\ UNCHANGED <<journalVars, failureFile, handed>>

MarkJournal ==
  /\ phase = "crawl" /\ step = "mark"
  /\ J!MarkDone(manifest)
  /\ manifest' = None
  /\ step' = "tail"
  /\ crawlFrame
  /\ UNCHANGED <<failureVars, handed, failed>>

MarkFails ==
  /\ phase = "crawl" /\ step = "mark"
  /\ J!MarkDoneFails(manifest)
  /\ failed' = TRUE
  /\ manifest' = None
  /\ step' = "tail"
  /\ crawlFrame
  /\ UNCHANGED <<failureVars, handed>>

\* The end of the loop body: -max is reached, or the next result is awaited.
NextResult ==
  /\ phase = "crawl" /\ step = "tail"
  /\ step' = "receive"
  /\ crawlFrame
  /\ UNCHANGED <<journalVars, failureVars, handed, manifest, failed>>

ReachMax ==
  /\ phase = "crawl" /\ step = "tail"
  /\ step' = "drain"
  /\ cancelled' = TRUE
  /\ UNCHANGED <<frontierVars, journalVars, failureVars, bundles, phase, mode,
                 handed, quit, manifest, failed, exit, historyVars>>

\* The pipeline drains the results that still come.
Drain(m) ==
  /\ phase = "crawl" /\ step = "drain"
  /\ m \in handed
  /\ handed' = handed \ {m}
  /\ crawlFrame
  /\ UNCHANGED <<journalVars, failureVars, step, manifest, failed>>

\* The results channel is closed: every worker has left, on a cancelled
\* context or because the producer is gone.  A sequential iteration is over
\* when the source is or the consumer wants no more.
CrawlEnds ==
  /\ phase = "crawl" /\ step \in {"receive", "drain"}
  /\ handed = {}
  /\ \/ walker = "ended"
     \/ quit = Workers
     \/ Workers = 1 /\ step = "drain"
  /\ phase' = "report"
  /\ UNCHANGED <<frontierVars, journalVars, failureVars, bundles, mode,
                 consumerVars, exit, historyVars>>

-----------------------------------------------------------------------------
(* The end of run().                                                       *)

\* frontierSource.Stats() reads s.state field by field, without a lock.  A
\* producer goroutine that is assigning the next frontier at that moment may
\* have written any of its fields.
ReadState ==
  IF walker = "saved" THEN {state, NextFrontier} ELSE {state}

\* The number of journal entries stands for the number of done manifests.
PendingManifests(f) ==
  IF Cardinality(f.manifests) > Cardinality(done)
  THEN Cardinality(f.manifests) - Cardinality(done)
  ELSE 0

\* Mutant of ExitStatus: pending collections are not counted.
ExitStatusOfManifests(f, g) ==
  IF failed THEN "failures"
  ELSE IF PendingManifests(f) > 0 \/ failures # {}
       THEN "incomplete"
       ELSE "complete"

ExitStatus(f, g) ==
  IF failed THEN "failures"
  ELSE IF \/ PendingManifests(f) > 0
          \/ g.pending # {}
          \/ failures # {}
       THEN "incomplete"
       ELSE "complete"

Report ==
  /\ phase = "report"
  /\ \E f, g \in ReadState : exit' = ExitStatus(f, g)
  /\ EndProcess
  /\ J!Close

Source ==
  \/ \E m \in Manifest : Hand(m)
  \/ \E c \in Collection : \E doc \in Documents[c] : FetchCollection(c, doc)
  \/ SaveFrontier
  \/ AdoptFrontier
  \/ SourceExhausted

Consume ==
  \/ \E m \in Manifest : ReceiveNoMatch(m) \/ ReceiveMatch(m)
  \/ PreserveSucceeds
  \/ ClearFailure
  \/ MarkJournal
  \/ NextResult
  \/ CrawlEnds
  \/ Report

\* What the goroutines do on a cancelled context.
Shutdown ==
  \/ \E m \in Manifest : WorkerQuits(m) \/ Drain(m)
  \/ ProducerQuits

StartUp ==
  \/ RemoveFrontier
  \/ RemoveJournal
  \/ RemoveFailures
  \/ Load
  \/ \E m \in Manifest : Migrate(m)
  \/ Migrated
  \/ OpenFrontier

\* What goes wrong, and what the operator does besides running it again.
Disturbance ==
  \/ Start("fresh")
  \/ Start("journal")
  \/ Killed
  \/ Interrupt
  \/ SourceFails
  \/ \E m \in Manifest : ReceiveError(m)
  \/ PreserveFails
  \/ ClearFails
  \/ MarkFails

Next ==
  \/ Start("plain")
  \/ StartUp
  \/ Source
  \/ Consume
  \/ ReachMax
  \/ Shutdown
  \/ Disturbance

Spec == Init /\ [][Next]_vars

\* A live process keeps running and the operator reruns an ingest that has
\* not reported completion, as its message asks.
RerunUntilComplete == exit # "complete" /\ Start("plain")

FairSpec ==
  /\ Spec
  /\ WF_vars(RerunUntilComplete)
  /\ WF_vars(StartUp)
  /\ WF_vars(Source)
  /\ WF_vars(Consume)
  /\ WF_vars(Shutdown)

-----------------------------------------------------------------------------
TypeOK ==
  /\ FrontierTypeOK
  /\ J!TypeOK
  /\ failureFile \in SUBSET Manifest
  /\ failures \in SUBSET Manifest
  /\ bundles \in SUBSET Manifest
  /\ phase \in Phase
  /\ mode \in Mode
  /\ handed \in SUBSET Manifest
  /\ quit \in Nat
  /\ step \in Step
  /\ manifest \in Manifest \cup {None}
  /\ failed \in BOOLEAN
  /\ cancelled \in BOOLEAN
  /\ exit \in Exit
  /\ rejected \in SUBSET Manifest
  /\ rereadOwed \in BOOLEAN

InHand == handed \cup ({manifest} \ {None})

\* Work starts only on manifests the frontier file holds, so a kill during
\* it cannot lose the manifest (frontier.go: newly discovered URLs are
\* persisted before any are yielded).
WorkIsDiscovered ==
  InHand # {} => /\ frontierFile # None
                 /\ InHand \subseteq frontierFile.manifests

\* The journal records a manifest only after its final disposition: its
\* bundle is committed or it was classified as no match (or it came from
\* the former journal).  A skipped manifest is therefore never unfinished.
DoneMeansDisposed == recorded \subseteq bundles \cup rejected \cup Legacy

\* Only the import of a former journal makes a manifest both done and failed
\* on disk (migrateLegacy clears no failure record; main.go tells the operator
\* to "rerun to resume").  ResumableSource would skip such a manifest, its
\* record could never be cleared, and no rerun could end the ingest.
OnlyImportsStick ==
  [][phase # "migrate" =>
       failureFile' \cap recorded' \subseteq failureFile \cap recorded]_vars

\* Exit status 0 means that discovery is complete, every discovered manifest
\* is done and no failure is recorded (SOURCE_INGESTION.md, slice 5).
ZeroMeansComplete ==
  phase = "down" /\ exit = "complete" =>
    /\ frontierFile # None
    /\ frontierFile.pending = {}
    /\ frontierFile.manifests \subseteq recorded
    /\ failureFile = {}

\* The exit status counts journal entries; it is right whenever all of them
\* are completions of manifests this frontier has discovered.
JournalMatchesFrontier ==
  frontierFile # None /\ recorded \subseteq frontierFile.manifests

ZeroIsTrueIfMatched == JournalMatchesFrontier => ZeroMeansComplete

\* A -fresh run that began to reset is not reported complete, by it or by a
\* later run, before the root collection was fetched again (the comment in
\* openIngestState).
FreshRereadsTheRoot == exit = "complete" => ~rereadOwed

\* A failure record goes away only by -fresh or when the manifest has its
\* final verdict.
FailureOutlivesRetry ==
  [][phase # "rmFailures" =>
       failureFile \ failureFile' \subseteq bundles \cup rejected]_vars

\* If from some time on nothing goes wrong, and the journal holds no foreign
\* entry that could make a run report completion early, reruns complete the
\* ingest: also under -max, which ends each run early, and after any kill.
EventuallyComplete ==
  <>[][~Disturbance]_vars /\ <>[]JournalMatchesFrontier =>
    <>[](/\ frontierFile # None
         /\ frontierFile.pending = {}
         /\ frontierFile.manifests \subseteq recorded)

\* Over all its process lives the ingest keeps the ledger's promise.
Ledger ==
  INSTANCE IngestLedger WITH
    known    <- IF frontierFile = None THEN {} ELSE frontierFile.manifests,
    disposed <- recorded

ImplementsLedger == Ledger!Spec
=============================================================================
