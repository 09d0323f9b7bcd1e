------------------------------ MODULE Pipeline ------------------------------
(***************************************************************************)
(* One run of the concurrent pipeline (internal/pipeline/pipeline.go):     *)
(* a producer goroutine walks the source, workers process manifests, a     *)
(* closer waits for the workers and closes the results, and the caller's   *)
(* goroutine ranges over the results.                                      *)
(*                                                                         *)
(* Both channels are unbuffered: a send and its receive are one step, and  *)
(* a select that can both send and see ctx.Done may take either.  A select *)
(* that sends on a closed channel panics, unless it takes ctx.Done.        *)
(*                                                                         *)
(* The source yields each item once and in any order (the frontier never   *)
(* yields a URL twice); once the context is cancelled it ends, and may     *)
(* yield the context's error first.  Fetching and classifying a manifest   *)
(* is the worker's step Process; its outcome plays no part here.           *)
(***************************************************************************)
EXTENDS Naturals, FiniteSets

CONSTANTS
  URL,          \* the manifest URLs the source yields
  SourceError,  \* the errors it yields
  Canceled,     \* the error of a cancelled context
  Worker,       \* the worker goroutines, more than one
  None

ASSUME PipelineAssumption ==
  /\ URL \cap SourceError = {}
  /\ Canceled \notin URL \cup SourceError
  /\ None \notin URL \cup SourceError \cup {Canceled}
  /\ IsFiniteSet(Worker) /\ Worker # {}

Item == URL \cup SourceError

VARIABLES
  remaining,      \* what the source may still yield
  producer,       \* where the producer stands
  produced,       \* the item it holds
  worker,         \* where each worker stands
  job,            \* the URL each worker holds
  urlsClosed,
  resultsClosed,
  consumer,       \* where the caller's range over results stands
  received,       \* the result in its loop body
  yielded,        \* history: results passed to the caller
  stopped,        \* history: the caller stopped or the context was cancelled
  cancelled,      \* the derived context is cancelled
  panicked        \* the process died of a send on a closed channel

producerVars == <<remaining, producer, produced, urlsClosed>>
workerVars   == <<worker, job>>
consumerVars == <<consumer, received, yielded, stopped>>
vars == <<producerVars, workerVars, resultsClosed, consumerVars, cancelled,
          panicked>>

ProducerState == {"source", "sendURL", "sendError", "exited"}
WorkerState   == {"receive", "process", "send", "exited"}
ConsumerState == {"receive", "yield", "drain", "returned"}

Init ==
  /\ remaining = Item \cup {Canceled}
  /\ producer = "source"
  /\ produced = None
  /\ worker = [w \in Worker |-> "receive"]
  /\ job = [w \in Worker |-> None]
  /\ urlsClosed = FALSE
  /\ resultsClosed = FALSE
  /\ consumer = "receive"
  /\ received = None
  /\ yielded = {}
  /\ stopped = FALSE
  /\ cancelled = FALSE
  /\ panicked = FALSE

-----------------------------------------------------------------------------
(* The receiving side of results.                                          *)

Receiving == consumer \in {"receive", "drain"}

\* A result reaches the loop body, or is drained after the caller stopped.
Receive(i) ==
  IF consumer = "receive"
  THEN consumer' = "yield" /\ received' = i
  ELSE UNCHANGED <<consumer, received>>

-----------------------------------------------------------------------------
(* The producer.                                                           *)

SourceYields(i) ==
  /\ producer = "source"
  /\ i \in remaining
  /\ remaining' = remaining \ {i}
  /\ produced' = i
  /\ producer' = IF i \in URL THEN "sendURL" ELSE "sendError"
  /\ UNCHANGED <<urlsClosed, workerVars, resultsClosed, consumerVars,
                 cancelled, panicked>>

\* The source sees the cancelled context, yields its error and ends.
SourceYieldsCanceled ==
  /\ producer = "source"
  /\ cancelled
  /\ Canceled \in remaining
  /\ remaining' = {}
  /\ produced' = Canceled
  /\ producer' = "sendError"
  /\ UNCHANGED <<urlsClosed, workerVars, resultsClosed, consumerVars,
                 cancelled, panicked>>

\* The goroutine returns; its deferred call closes urls.
ProducerReturns ==
  /\ producer' = "exited"
  /\ produced' = None
  /\ urlsClosed' = TRUE
  /\ UNCHANGED <<remaining, workerVars, resultsClosed, consumerVars,
                 cancelled, panicked>>

SourceEnds ==
  /\ producer = "source"
  /\ remaining \subseteq {Canceled}
  /\ ProducerReturns

\* Mutant of ProducerQuits: the send on urls does not select on ctx.Done.
ProducerQuitsSendingError ==
  /\ producer = "sendError"
  /\ cancelled
  /\ ProducerReturns

ProducerQuits ==
  /\ producer \in {"sendURL", "sendError"}
  /\ cancelled
  /\ ProducerReturns

SendURL(w) ==
  /\ producer = "sendURL"
  /\ worker[w] = "receive"
  /\ worker' = [worker EXCEPT ![w] = "process"]
  /\ job' = [job EXCEPT ![w] = produced]
  /\ producer' = "source"
  /\ produced' = None
  /\ UNCHANGED <<remaining, urlsClosed, resultsClosed, consumerVars,
                 cancelled, panicked>>

SendError ==
  /\ producer = "sendError"
  /\ ~resultsClosed
  /\ Receiving
  /\ Receive(produced)
  /\ producer' = "source"
  /\ produced' = None
  /\ UNCHANGED <<remaining, urlsClosed, workerVars, resultsClosed, yielded,
                 stopped, cancelled, panicked>>

\* The workers' closer has closed results, on which the producer sends too.
SendOnClosed ==
  /\ producer = "sendError"
  /\ resultsClosed
  /\ panicked' = TRUE
  /\ UNCHANGED <<producerVars, workerVars, resultsClosed, consumerVars,
                 cancelled>>

-----------------------------------------------------------------------------
(* A worker, and the closer.                                               *)

workerFrame ==
  UNCHANGED <<producerVars, resultsClosed, yielded, stopped, cancelled,
              panicked>>

Process(w) ==
  /\ worker[w] = "process"
  /\ worker' = [worker EXCEPT ![w] = "send"]
  /\ workerFrame
  /\ UNCHANGED <<job, consumer, received>>

SendResult(w) ==
  /\ worker[w] = "send"
  /\ Receiving
  /\ Receive(job[w])
  /\ worker' = [worker EXCEPT ![w] = "receive"]
  /\ job' = [job EXCEPT ![w] = None]
  /\ workerFrame

\* The goroutine returns, dropping the result it holds, if any.
WorkerReturns(w) ==
  /\ worker' = [worker EXCEPT ![w] = "exited"]
  /\ job' = [job EXCEPT ![w] = None]
  /\ workerFrame
  /\ UNCHANGED <<consumer, received>>

WorkerQuits(w) == worker[w] = "send" /\ cancelled /\ WorkerReturns(w)

WorkerEnds(w) == worker[w] = "receive" /\ urlsClosed /\ WorkerReturns(w)

\* Mutant of WorkersExited: the first worker to leave closes results.
OneWorkerExited == \E w \in Worker : worker[w] = "exited"

WorkersExited == \A w \in Worker : worker[w] = "exited"

CloseResults ==
  /\ WorkersExited
  /\ ~resultsClosed
  /\ resultsClosed' = TRUE
  /\ UNCHANGED <<producerVars, workerVars, consumerVars, cancelled, panicked>>

-----------------------------------------------------------------------------
(* The caller's goroutine.                                                 *)

consumerFrame ==
  UNCHANGED <<producerVars, workerVars, resultsClosed, panicked>>

\* The loop body calls yield with the result; the caller wants more or not.
YieldTrue ==
  /\ consumer = "yield"
  /\ yielded' = yielded \cup {received}
  /\ consumer' = "receive"
  /\ received' = None
  /\ consumerFrame
  /\ UNCHANGED <<stopped, cancelled>>

YieldFalse ==
  /\ consumer = "yield"
  /\ yielded' = yielded \cup {received}
  /\ consumer' = "drain"
  /\ received' = None
  /\ stopped' = TRUE
  /\ cancelled' = TRUE
  /\ consumerFrame

\* The range over results ends; the deferred cancel runs.
Return ==
  /\ Receiving
  /\ resultsClosed
  /\ consumer' = "returned"
  /\ cancelled' = TRUE
  /\ consumerFrame
  /\ UNCHANGED <<received, yielded, stopped>>

\* The context Run was given is cancelled.
Interrupt ==
  /\ ~cancelled
  /\ stopped' = TRUE
  /\ cancelled' = TRUE
  /\ consumerFrame
  /\ UNCHANGED <<consumer, received, yielded>>

ProducerStep ==
  \/ \E i \in Item : SourceYields(i)
  \/ SourceYieldsCanceled
  \/ SourceEnds
  \/ ProducerQuits
  \/ \E w \in Worker : SendURL(w)
  \/ SendError
  \/ SendOnClosed

WorkerStep(w) ==
  \/ Process(w)
  \/ SendResult(w)
  \/ WorkerQuits(w)
  \/ WorkerEnds(w)

ConsumerStep ==
  \/ YieldTrue
  \/ YieldFalse
  \/ Return

AllExited ==
  /\ producer = "exited"
  /\ WorkersExited
  /\ resultsClosed
  /\ consumer = "returned"

\* Only the end of everything is allowed to stand still.
Ended == (AllExited \/ panicked) /\ UNCHANGED vars

Running ==
  \/ ProducerStep
  \/ \E w \in Worker : WorkerStep(w)
  \/ CloseResults
  \/ ConsumerStep
  \/ Interrupt

Next == (~panicked /\ Running) \/ Ended

Spec == Init /\ [][Next]_vars

\* The scheduler runs every goroutine that can take a step; fetches end and
\* the caller's loop body ends.
FairSpec ==
  /\ Spec
  /\ WF_vars(~panicked /\ ProducerStep)
  /\ \A w \in Worker : WF_vars(~panicked /\ WorkerStep(w))
  /\ WF_vars(~panicked /\ CloseResults)
  /\ WF_vars(~panicked /\ ConsumerStep)

-----------------------------------------------------------------------------
ItemOrNone == Item \cup {Canceled, None}

TypeOK ==
  /\ remaining \in SUBSET (Item \cup {Canceled})
  /\ producer \in ProducerState
  /\ produced \in ItemOrNone
  /\ worker \in [Worker -> WorkerState]
  /\ job \in [Worker -> URL \cup {None}]
  /\ urlsClosed \in BOOLEAN
  /\ resultsClosed \in BOOLEAN
  /\ consumer \in ConsumerState
  /\ received \in ItemOrNone
  /\ yielded \in SUBSET (Item \cup {Canceled})
  /\ stopped \in BOOLEAN
  /\ cancelled \in BOOLEAN
  /\ panicked \in BOOLEAN

\* Run keeps the promise of a result stream: every item once and, unless it
\* is stopped, all of them before the range ends.
Stream == INSTANCE ResultStream WITH yielded <- yielded \ {Canceled},
                                     over <- consumer \in {"drain", "returned"}

ImplementsStream == Stream!Spec

\* However it is stopped, every goroutine exits and the caller gets its
\* thread of control back (or the process has died).
EventuallyOver == <>(AllExited \/ panicked)

\* "The producer owns urls, the workers' WaitGroup owner owns results": a
\* channel is closed only once nothing will send on it.
NoSendOnClosed == ~panicked
=============================================================================
