--------------------------- MODULE PipelineProofs ---------------------------
(***************************************************************************)
(* Proofs about the classification pipeline, for every set of manifests    *)
(* and source errors and any number of workers, and about what it and the  *)
(* preservation compute, for works of any length and images of any size.   *)
(*                                                                         *)
(* Pipeline: an item is at one place at a time, with the source, in the    *)
(* hands of a goroutine or with the caller, and while the context is not   *)
(* cancelled at no other.  The results are closed after all workers have   *)
(* left, and these leave a context that is not cancelled only after the    *)
(* producer has taken all from the source and handed it on.                *)
(*                                                                         *)
(* PureAlgorithms: of the rounds in which the loops of tilePlan and        *)
(* romanToInt could go wrong there is none, since there is no smallest.    *)
(* The factors grow up to one that fits the image in a tile; at each of    *)
(* them a pixel is in the piece that starts at the last multiple of the    *)
(* step before it; and a date is the interval of its years.                *)
(***************************************************************************)
EXTENDS Pipeline, PureAlgorithms, FiniteSetTheorems, WellFoundedInduction,
        NaturalsInduction, TLAPS

\* Who holds an item.
Hands ==
  /\ IF producer = "sendURL" THEN produced \in URL
     ELSE IF producer = "sendError" THEN produced \in SourceError \cup {Canceled}
     ELSE produced = None
  /\ \A w \in Worker :
       IF worker[w] \in {"process", "send"} THEN job[w] \in URL ELSE job[w] = None
  /\ IF consumer = "yield" THEN received \in Item \cup {Canceled}
     ELSE received = None

\* No item is at two places.
HeldOnce ==
  /\ remaining \cap yielded = {}
  /\ {produced, received} \cap (remaining \cup yielded) = {}
  /\ produced # None => produced # received
  /\ \A w \in Worker : job[w] # None =>
       /\ job[w] \notin remaining \cup yielded \cup {produced, received}
       /\ \A v \in Worker : job[v] = job[w] => v = w

\* Until the context is cancelled every item is somewhere.
NothingDropped ==
  ~cancelled =>
    \A i \in Item : \/ i \in remaining \cup yielded \cup {produced, received}
                    \/ \E w \in Worker : job[w] = i

\* Who may have left, and what follows from that.
Leaving ==
  /\ urlsClosed <=> producer = "exited"
  /\ cancelled => stopped \/ consumer = "returned"
  /\ consumer = "drain" => stopped /\ cancelled
  /\ Canceled \in yielded \cup {produced, received} => cancelled
  /\ producer = "exited" /\ ~cancelled => remaining \subseteq {Canceled}
  /\ \A w \in Worker : worker[w] = "exited" => urlsClosed \/ cancelled
  /\ resultsClosed => WorkersExited

Inv ==
  /\ TypeOK
  /\ Hands
  /\ HeldOnce
  /\ NothingDropped
  /\ Leaving

-----------------------------------------------------------------------------
LEMMA InitInv == Init => Inv
<1> SUFFICES ASSUME Init PROVE Inv
  OBVIOUS
<1>1. TypeOK
  BY DEF Init, TypeOK, ItemOrNone, ProducerState, WorkerState, ConsumerState
<1>2. Hands
  BY DEF Init, Hands
<1>3. HeldOnce
  BY PipelineAssumption DEF Init, HeldOnce, Item
<1>4. NothingDropped
  BY DEF Init, NothingDropped
<1>5. Leaving
  BY PipelineAssumption DEF Init, Leaving, Item
<1> QED
  BY <1>1, <1>2, <1>3, <1>4, <1>5 DEF Inv

\* The producer takes an item from the source.
LEMMA TakingKeepsInv ==
  ASSUME Inv, NEW i \in remaining, producer = "source",
         produced' = i,
         \/ (i \in Item /\ remaining' = remaining \ {i})
         \/ (i = Canceled /\ cancelled /\ remaining' = {}),
         producer' = IF i \in URL THEN "sendURL" ELSE "sendError",
         UNCHANGED <<urlsClosed, workerVars, resultsClosed, consumerVars,
                     cancelled, panicked>>
  PROVE  Inv'
<1> USE DEF Inv, workerVars, consumerVars
<1>1. /\ i \in Item \cup {Canceled} /\ produced = None /\ i # None
      /\ remaining' \subseteq remaining \ {i}
      /\ i = Canceled => cancelled
  BY PipelineAssumption DEF Hands, TypeOK, Item
<1>2. TypeOK'
  BY <1>1 DEF TypeOK, ItemOrNone, ProducerState
<1>3. Hands'
  BY <1>1 DEF Hands, Item
<1>4. HeldOnce'
  BY <1>1 DEF HeldOnce
<1>5. NothingDropped'
  <2>1. CASE cancelled
    BY <2>1 DEF NothingDropped
  <2>2. CASE i \in Item /\ remaining' = remaining \ {i}
    <3> SUFFICES ASSUME ~cancelled, NEW k \in Item,
                        \A w \in Worker : job[w] # k
                 PROVE  k \in remaining' \cup yielded \cup {i, received}
      BY DEF NothingDropped
    <3>1. k \in remaining \cup yielded \cup {produced, received}
      BY DEF NothingDropped
    <3>2. k # None
      BY PipelineAssumption DEF Item
    <3> QED
      BY <1>1, <2>2, <3>1, <3>2
  <2> QED
    BY <2>1, <2>2
<1>6. Leaving'
  BY <1>1 DEF Leaving, WorkersExited
<1> QED
  BY <1>2, <1>3, <1>4, <1>5, <1>6

\* The producer leaves, with nothing left to take or on a cancelled context.
LEMMA ReturningKeepsInv ==
  ASSUME Inv, ProducerReturns, producer # "exited",
         cancelled \/ (producer = "source" /\ remaining \subseteq {Canceled})
  PROVE  Inv'
<1> USE DEF Inv, ProducerReturns, workerVars, consumerVars
<1>1. TypeOK'
  BY DEF TypeOK, ItemOrNone, ProducerState
<1>2. Hands'
  BY DEF Hands
<1>3. HeldOnce'
  BY PipelineAssumption DEF HeldOnce, TypeOK, Item
<1>4. NothingDropped'
  BY DEF NothingDropped, Hands
<1>5. Leaving'
  BY PipelineAssumption DEF Leaving, WorkersExited
<1> QED
  BY <1>1, <1>2, <1>3, <1>4, <1>5

LEMMA SendURLKeepsInv ==
  ASSUME Inv, NEW w \in Worker, SendURL(w)
  PROVE  Inv'
<1> USE DEF Inv, SendURL, consumerVars
<1>1. /\ produced \in URL /\ produced # None /\ job[w] = None
      /\ worker'[w] = "process" /\ job'[w] = produced
      /\ \A v \in Worker \ {w} : worker'[v] = worker[v] /\ job'[v] = job[v]
  BY PipelineAssumption DEF TypeOK, Hands
<1>2. TypeOK'
  BY <1>1 DEF TypeOK, ItemOrNone, ProducerState, WorkerState
<1>3. Hands'
  BY <1>1 DEF Hands
<1>4. HeldOnce'
  BY <1>1, PipelineAssumption DEF HeldOnce, TypeOK, Item
<1>5. NothingDropped'
  BY <1>1 DEF NothingDropped
<1>6. Leaving'
  BY <1>1, PipelineAssumption DEF Leaving, WorkersExited, Item
<1> QED
  BY <1>2, <1>3, <1>4, <1>5, <1>6

LEMMA SendErrorKeepsInv ==
  ASSUME Inv, SendError
  PROVE  Inv'
<1> USE DEF Inv, SendError, Receive, Receiving, workerVars
<1>1. /\ produced \in SourceError \cup {Canceled} /\ produced # None
      /\ received = None
  BY PipelineAssumption DEF Hands
<1>2. TypeOK'
  BY <1>1 DEF TypeOK, ItemOrNone, ProducerState, ConsumerState, Item
<1>3. Hands'
  BY <1>1 DEF Hands, Item
<1>4. HeldOnce'
  BY <1>1, PipelineAssumption DEF HeldOnce, TypeOK, Item
<1>5. NothingDropped'
  <2>1. CASE consumer = "receive"
    BY <1>1, <2>1 DEF NothingDropped
  <2>2. CASE consumer = "drain"
    BY <2>2 DEF NothingDropped, Leaving
  <2> QED
    BY <2>1, <2>2
<1>6. Leaving'
  BY <1>1 DEF Leaving, WorkersExited
<1> QED
  BY <1>2, <1>3, <1>4, <1>5, <1>6

LEMMA ProcessKeepsInv ==
  ASSUME Inv, NEW w \in Worker, Process(w)
  PROVE  Inv'
<1> USE DEF Inv, Process, workerFrame, producerVars
<1>1. /\ worker'[w] = "send"
      /\ \A v \in Worker \ {w} : worker'[v] = worker[v]
  BY DEF TypeOK
<1>2. TypeOK'
  BY <1>1 DEF TypeOK, WorkerState
<1>3. Hands'
  BY <1>1 DEF Hands
<1>4. HeldOnce' /\ NothingDropped'
  BY DEF HeldOnce, NothingDropped
<1>5. Leaving'
  BY <1>1 DEF Leaving, WorkersExited
<1> QED
  BY <1>2, <1>3, <1>4, <1>5

LEMMA SendResultKeepsInv ==
  ASSUME Inv, NEW w \in Worker, SendResult(w)
  PROVE  Inv'
<1> USE DEF Inv, SendResult, Receive, Receiving, workerFrame, producerVars
<1>1. /\ job[w] \in URL /\ job[w] # None /\ received = None
      /\ worker'[w] = "receive" /\ job'[w] = None
      /\ \A v \in Worker \ {w} : worker'[v] = worker[v] /\ job'[v] = job[v]
  BY PipelineAssumption DEF TypeOK, Hands
<1>2. TypeOK'
  BY <1>1 DEF TypeOK, ItemOrNone, WorkerState, ConsumerState, Item
<1>3. Hands'
  BY <1>1 DEF Hands, Item
<1>4. HeldOnce'
  BY <1>1 DEF HeldOnce
<1>5. NothingDropped'
  <2>1. CASE consumer = "receive"
    BY <1>1, <2>1 DEF NothingDropped
  <2>2. CASE consumer = "drain"
    BY <2>2 DEF NothingDropped, Leaving
  <2> QED
    BY <2>1, <2>2
<1>6. Leaving'
  BY <1>1, PipelineAssumption DEF Leaving, WorkersExited
<1> QED
  BY <1>2, <1>3, <1>4, <1>5, <1>6

LEMMA WorkerReturnsKeepsInv ==
  ASSUME Inv, NEW w \in Worker, WorkerReturns(w),
         (worker[w] = "receive" /\ urlsClosed) \/ cancelled
  PROVE  Inv'
<1> USE DEF Inv, WorkerReturns, workerFrame, producerVars
<1>1. /\ worker'[w] = "exited" /\ job'[w] = None
      /\ \A v \in Worker \ {w} : worker'[v] = worker[v] /\ job'[v] = job[v]
      /\ ~cancelled => job[w] = None
  BY DEF TypeOK, Hands
<1>2. TypeOK'
  BY <1>1 DEF TypeOK, WorkerState
<1>3. Hands'
  BY <1>1 DEF Hands
<1>4. HeldOnce'
  BY <1>1 DEF HeldOnce
<1>5. NothingDropped'
  BY <1>1, PipelineAssumption DEF NothingDropped, Item
<1>6. Leaving'
  BY <1>1 DEF Leaving, WorkersExited
<1> QED
  BY <1>2, <1>3, <1>4, <1>5, <1>6

LEMMA CloseResultsKeepsInv ==
  ASSUME Inv, CloseResults
  PROVE  Inv'
BY DEF Inv, CloseResults, producerVars, workerVars, consumerVars, TypeOK, Hands,
       HeldOnce, NothingDropped, Leaving, WorkersExited

\* The caller's goroutine takes a result, leaves the range or is interrupted.
LEMMA ConsumerKeepsInv ==
  ASSUME Inv, ConsumerStep \/ Interrupt
  PROVE  Inv'
<1> USE DEF Inv, consumerFrame, producerVars, workerVars
<1>1. CASE YieldTrue \/ YieldFalse
  <2>1. /\ received \in Item \cup {Canceled} /\ received # None
        /\ yielded' = yielded \cup {received} /\ received' = None
        /\ consumer' \in {"receive", "drain"}
        /\ IF YieldTrue THEN UNCHANGED <<stopped, cancelled>> /\ consumer' = "receive"
           ELSE stopped' = TRUE /\ cancelled' = TRUE
        /\ UNCHANGED <<producerVars, workerVars, resultsClosed, panicked>>
    BY <1>1, PipelineAssumption DEF YieldTrue, YieldFalse, Hands, Item
  <2>2. TypeOK'
    BY <2>1 DEF TypeOK, ItemOrNone, ConsumerState
  <2>3. Hands'
    BY <2>1 DEF Hands
  <2>4. HeldOnce'
    BY <2>1, PipelineAssumption DEF HeldOnce, TypeOK, Item
  <2>5. NothingDropped'
    BY <2>1 DEF NothingDropped
  <2>6. Leaving'
    BY <2>1, PipelineAssumption, <1>1 DEF Leaving, WorkersExited, YieldTrue, YieldFalse
  <2> QED
    BY <2>2, <2>3, <2>4, <2>5, <2>6
<1>2. CASE Return \/ Interrupt
  <2>1. /\ UNCHANGED <<producerVars, workerVars, resultsClosed, panicked, received,
                       yielded>>
        /\ cancelled' = TRUE
        /\ \/ consumer' = "returned" /\ consumer \in {"receive", "drain"}
              /\ stopped' = stopped
           \/ consumer' = consumer /\ stopped' = TRUE
    BY <1>2 DEF Return, Interrupt, Receiving
  <2>2. TypeOK'
    BY <2>1 DEF TypeOK, ConsumerState
  <2>3. Hands'
    BY <2>1 DEF Hands
  <2>4. HeldOnce' /\ NothingDropped'
    BY <2>1 DEF HeldOnce, NothingDropped
  <2>5. Leaving'
    BY <2>1 DEF Leaving, WorkersExited
  <2> QED
    BY <2>2, <2>3, <2>4, <2>5
<1> QED
  BY <1>1, <1>2 DEF ConsumerStep

LEMMA UntouchedKeepsInv ==
  ASSUME Inv, UNCHANGED <<producerVars, workerVars, resultsClosed, consumerVars,
                          cancelled>>,
         panicked' \in BOOLEAN
  PROVE  Inv'
BY DEF Inv, producerVars, workerVars, consumerVars, TypeOK, Hands, HeldOnce,
       NothingDropped, Leaving, WorkersExited

LEMMA StepKeepsInv == Inv /\ [Next]_vars => Inv'
<1> SUFFICES ASSUME Inv, [Next]_vars PROVE Inv'
  OBVIOUS
<1>1. CASE ProducerStep
  <2>1. ASSUME NEW i \in Item, SourceYields(i) PROVE Inv'
    BY <2>1, TakingKeepsInv DEF SourceYields
  <2>2. CASE SourceYieldsCanceled
    BY <2>2, TakingKeepsInv, PipelineAssumption DEF SourceYieldsCanceled
  <2>3. CASE SourceEnds \/ ProducerQuits
    BY <2>3, ReturningKeepsInv DEF SourceEnds, ProducerQuits
  <2>4. CASE SendOnClosed
    BY <2>4, UntouchedKeepsInv DEF SendOnClosed
  <2> QED
    BY <1>1, <2>1, <2>2, <2>3, <2>4, SendURLKeepsInv, SendErrorKeepsInv
    DEF ProducerStep
<1>2. ASSUME NEW w \in Worker, WorkerStep(w) PROVE Inv'
  BY <1>2, ProcessKeepsInv, SendResultKeepsInv, WorkerReturnsKeepsInv
  DEF WorkerStep, WorkerQuits, WorkerEnds
<1>3. CASE UNCHANGED vars
  BY <1>3, UntouchedKeepsInv DEF vars, Inv, TypeOK
<1> QED
  BY <1>1, <1>2, <1>3, CloseResultsKeepsInv, ConsumerKeepsInv
  DEF Next, Running, Ended

-----------------------------------------------------------------------------
(* The theorems.                                                           *)

\* The inductive invariant: every item is at one place, at some place while
\* the context is not cancelled, and nobody leaves before its predecessor.
THEOREM InvHolds == Spec => []Inv
BY InitInv, StepKeepsInv, PTL DEF Spec

\* The range over results ends only when all is yielded or it was stopped.
LEMMA AllIsYielded ==
  ASSUME Inv, consumer = "receive", resultsClosed
  PROVE  Item \subseteq yielded \ {Canceled} \/ stopped
<1> SUFFICES ASSUME ~stopped, NEW i \in Item PROVE i \in yielded /\ i # Canceled
  OBVIOUS
<1>1. ~cancelled /\ WorkersExited
  BY DEF Inv, Leaving
<1>2. PICK w \in Worker : worker[w] = "exited"
  BY <1>1, PipelineAssumption DEF WorkersExited
<1>3. producer = "exited" /\ remaining \subseteq {Canceled}
  BY <1>1, <1>2 DEF Inv, Leaving
<1>4. produced = None /\ received = None /\ \A v \in Worker : job[v] = None
  BY <1>1, <1>3 DEF Inv, Hands, WorkersExited
<1>5. i # None /\ i # Canceled
  BY PipelineAssumption DEF Item
<1> QED
  BY <1>1, <1>3, <1>4, <1>5 DEF Inv, NothingDropped

LEMMA StreamStep ==
  ASSUME Inv, [Next]_vars
  PROVE  [Stream!Next]_<<yielded \ {Canceled}, stopped, consumer \in {"drain", "returned"}>>
<1> DEFINE seen == yielded \ {Canceled}
           over == consumer \in {"drain", "returned"}
<1>1. CASE YieldTrue \/ YieldFalse
  <2>1. /\ consumer = "yield" /\ received \in Item \cup {Canceled}
        /\ received \notin yielded
        /\ yielded' = yielded \cup {received}
        /\ received = Canceled => stopped
    BY <1>1 DEF YieldTrue, YieldFalse, Inv, Hands, HeldOnce, Leaving
  <2>2. ~over /\ (YieldTrue => ~over') /\ (YieldFalse => over' /\ stopped' = TRUE)
    BY <2>1 DEF YieldTrue, YieldFalse
  <2>3. CASE received = Canceled
    <3>1. seen' = seen
      BY <2>1, <2>3
    <3>2. CASE YieldTrue
      BY <2>2, <3>1, <3>2 DEF YieldTrue
    <3>3. CASE YieldFalse
      BY <2>1, <2>2, <2>3, <3>1, <3>3 DEF Stream!Next, Stream!End, Inv, TypeOK
    <3> QED
      BY <1>1, <3>2, <3>3
  <2>4. CASE received # Canceled
    <3>1. received \in Item /\ received \notin seen /\ seen' = seen \cup {received}
      BY <2>1, <2>4
    <3>2. CASE YieldTrue
      BY <2>2, <3>1, <3>2 DEF YieldTrue, Stream!Next, Stream!Deliver
    <3>3. CASE YieldFalse
      BY <2>2, <3>1, <3>3 DEF Stream!Next, Stream!DeliverLast
    <3> QED
      BY <1>1, <3>2, <3>3
  <2> QED
    BY <2>3, <2>4
<1>2. CASE Return
  <2>1. CASE consumer = "receive"
    BY <1>2, <2>1, AllIsYielded DEF Return, Stream!Next, Stream!End
  <2>2. CASE consumer = "drain"
    BY <1>2, <2>2 DEF Return
  <2> QED
    BY <1>2, <2>1, <2>2 DEF Return, Receiving
<1>3. CASE Interrupt
  BY <1>3 DEF Interrupt, Stream!Next, Stream!Stop
<1>4. CASE ProducerStep \/ (\E w \in Worker : WorkerStep(w)) \/ CloseResults \/ UNCHANGED vars
  <2>1. /\ UNCHANGED <<yielded, stopped>>
        /\ consumer' = consumer \/ (consumer = "receive" /\ consumer' = "yield")
    BY <1>4
    DEF ProducerStep, SourceYields, SourceYieldsCanceled, SourceEnds, ProducerQuits,
        ProducerReturns, SendURL, SendError, SendOnClosed, WorkerStep, Process,
        SendResult, WorkerQuits, WorkerEnds, WorkerReturns, workerFrame, Receive,
        CloseResults, consumerVars, vars
  <2> QED
    BY <2>1
<1> QED
  BY <1>1, <1>2, <1>3, <1>4 DEF Next, Running, Ended, ConsumerStep

\* pipeline.go:57-159: Run yields every item of the source once and, unless the
\* caller stops or the context is cancelled, all of them before its range
\* ends; each step of the goroutines is a step of that stream or none.
THEOREM RunIsAStream == Spec => ImplementsStream
<1>1. Init => Stream!Init
  BY DEF Init, Stream!Init
<1>2. Inv /\ [Next]_vars =>
        [Stream!Next]_<<yielded \ {Canceled}, stopped, consumer \in {"drain", "returned"}>>
  BY StreamStep
<1> QED
  BY <1>1, <1>2, InvHolds, PTL DEF Spec, ImplementsStream, Stream!Spec, Stream!streamVars

-----------------------------------------------------------------------------
(* Loops.                                                                  *)

\* There is a smallest of some natural numbers.
LEMMA SmallestOf ==
  ASSUME NEW T, T \subseteq Nat, T # {}
  PROVE  \E x \in T : \A y \in T : x <= y
<1>1. PICK x \in T : \A y \in T : ~(<<y, x>> \in OpToRel(<, Nat))
  BY NatLessThanWellFounded, WFMin
<1>2. \A y \in T : ~(y < x) /\ x \in Nat /\ y \in Nat
  BY <1>1 DEF OpToRel
<1> QED
  BY <1>2

\* A loop of n rounds, each of which makes its value of the last one, has run.
HasRun(n, V, init, next) ==
  \E f \in [0..n -> V] :
    f[0] = init /\ \A k \in 1..n : f[k] = next[k][f[k - 1]]

LEMMA LoopRuns ==
  ASSUME NEW n \in Nat, NEW V, NEW init \in V, NEW next \in [1..n -> [V -> V]]
  PROVE  HasRun(n, V, init, next)
<1> DEFINE Runs(m, f) == /\ f \in [0..m -> V] /\ f[0] = init
                         /\ \A k \in 1..m : f[k] = next[k][f[k - 1]]
           Stuck      == {m \in Nat : m <= n /\ ~\E f : Runs(m, f)}
<1>1. Stuck = {}
  <2> SUFFICES ASSUME Stuck # {} PROVE FALSE
    OBVIOUS
  <2>1. PICK m \in Stuck : \A k \in Stuck : m <= k
    BY SmallestOf
  <2>2. CASE m = 0
    <3> DEFINE f == [k \in 0..0 |-> init]
    <3>1. Runs(0, f)
      OBVIOUS
    <3> HIDE DEF f, Runs
    <3> QED
      BY <2>2, <3>1
  <2>3. CASE m # 0
    <3>1. m \in 1..n /\ m - 1 \in Nat /\ m - 1 <= n /\ ~(m <= m - 1)
      BY <2>3
    <3>2. PICK f : Runs(m - 1, f)
      <4>1. m - 1 \notin Stuck
        BY <2>1, <3>1
      <4> HIDE DEF Runs
      <4> QED
        BY <3>1, <4>1
    <3> DEFINE g == [k \in 0..m |-> IF k = m THEN next[m][f[m - 1]] ELSE f[k]]
    <3>3. /\ \A k \in 0..(m - 1) : g[k] = f[k] /\ f[k] \in V
          /\ g[m] = next[m][f[m - 1]] /\ g[m] \in V
      BY <3>1, <3>2
    <3>4. 0..m = 0..(m - 1) \cup {m} /\ 1..m = 1..(m - 1) \cup {m}
      BY <3>1
    <3>5. g \in [0..m -> V]
      BY <3>3, <3>4
    <3>6. \A k \in 1..m : g[k] = next[k][g[k - 1]]
      <4>1. g[m - 1] = f[m - 1]
        BY <3>1, <3>3
      <4>2. ASSUME NEW k \in 1..(m - 1) PROVE g[k] = next[k][g[k - 1]]
        <5>1. k \in 0..(m - 1) /\ k - 1 \in 0..(m - 1)
          BY <3>1
        <5>2. g[k] = f[k] /\ g[k - 1] = f[k - 1] /\ f[k] = next[k][f[k - 1]]
          BY <3>2, <3>3, <5>1
        <5> QED
          BY <5>2
      <4> HIDE DEF g
      <4> QED
        BY <3>3, <3>4, <4>1, <4>2
    <3>7. g[0] = init
      BY <3>1, <3>2, <3>3
    <3> HIDE DEF g
    <3>8. Runs(m, g)
      BY <3>5, <3>6, <3>7
    <3> HIDE DEF Runs
    <3> QED
      BY <3>8
  <2> QED
    BY <2>2, <2>3
<1>2. \E f : Runs(n, f)
  <2> HIDE DEF Runs
  <2>1. ASSUME ~\E f : Runs(n, f) PROVE n \in Stuck
    BY <2>1
  <2> HIDE DEF Stuck
  <2>2. n \notin Stuck
    BY <1>1
  <2> QED
    BY <2>1, <2>2
<1> QED
  BY <1>2 DEF HasRun

-----------------------------------------------------------------------------
(* The scale factors.                                                      *)

LEMMA DoublingUnfolds ==
  ASSUME NEW n \in Nat
  PROVE  /\ Doubling(n) \in [0..n -> Nat]
         /\ Doubling(n)[0] = 1
         /\ \A k \in 1..n : Doubling(n)[k] = 2 * Doubling(n)[k - 1]
<1> DEFINE next == [k \in 1..n |-> [v \in Nat |-> 2 * v]]
           Loop(s) == s = [k \in 0..n |-> IF k = 0 THEN 1 ELSE 2 * s[k - 1]]
<1>1. next \in [1..n -> [Nat -> Nat]]
  OBVIOUS
<1>2. \A k \in 1..n, v \in Nat : next[k][v] = 2 * v
  OBVIOUS
<1> HIDE DEF next
<1>3. PICK f \in [0..n -> Nat] : f[0] = 1 /\ \A k \in 1..n : f[k] = next[k][f[k - 1]]
  <2>1. 1 \in Nat
    OBVIOUS
  <2>2. HasRun(n, Nat, 1, next)
    BY <1>1, <2>1, LoopRuns
  <2> QED
    BY <2>2 DEF HasRun
<1>4. \A k \in 1..n : f[k] = 2 * f[k - 1]
  <2> TAKE k \in 1..n
  <2>1. k - 1 \in 0..n /\ f[k - 1] \in Nat
    OBVIOUS
  <2> QED
    BY <1>2, <1>3, <2>1
<1>5. Loop(f)
  <2>1. \A k \in 0..n : f[k] = IF k = 0 THEN 1 ELSE 2 * f[k - 1]
    BY <1>3, <1>4
  <2> QED
    BY <2>1
<1>6. Loop(Doubling(n))
  <2>1. Doubling(n) = CHOOSE s : Loop(s)
    BY DEF Doubling
  <2> HIDE DEF Loop
  <2> QED
    BY <1>5, <2>1
<1> DEFINE d == Doubling(n)
<1> HIDE DEF d
<1>7. d = [k \in 0..n |-> IF k = 0 THEN 1 ELSE 2 * d[k - 1]]
  BY <1>6 DEF d
<1>8. d[0] = 1 /\ \A k \in 1..n : d[k] = 2 * d[k - 1]
  BY <1>7
<1>9. \A k \in 0..n : d[k] = f[k]
  <2> DEFINE Wrong == {k \in Nat : k \in 0..n /\ d[k] # f[k]}
  <2> SUFFICES ASSUME Wrong # {} PROVE FALSE
    OBVIOUS
  <2>1. PICK k \in Wrong : \A j \in Wrong : k <= j
    BY SmallestOf
  <2>2. k # 0 /\ k \in 1..n /\ k - 1 \in 0..n /\ ~(k <= k - 1)
    BY <1>3, <1>8, <2>1
  <2>3. d[k - 1] = f[k - 1]
    BY <2>1, <2>2
  <2> QED
    BY <1>4, <1>8, <2>1, <2>2, <2>3
<1>10. d \in [0..n -> Nat]
  BY <1>7, <1>9
<1> QED
  BY <1>8, <1>10 DEF d

\* s is at least the number of its round, and grows.
LEMMA DoublingGrows ==
  ASSUME NEW n \in Nat
  PROVE  /\ \A k \in 0..n : Doubling(n)[k] > k
         /\ \A j, k \in 0..n : j <= k => Doubling(n)[j] <= Doubling(n)[k]
<1> DEFINE d == Doubling(n)
<1>1. /\ d \in [0..n -> Nat] /\ d[0] = 1
      /\ \A k \in 1..n : d[k] = 2 * d[k - 1]
  BY DoublingUnfolds
<1> HIDE DEF d
<1>2. \A k \in 0..n : d[k] > k
  <2> DEFINE Small == {k \in Nat : k \in 0..n /\ ~(d[k] > k)}
  <2> SUFFICES ASSUME Small # {} PROVE FALSE
    OBVIOUS
  <2>1. PICK k \in Small : \A j \in Small : k <= j
    BY SmallestOf
  <2>2. k # 0 /\ k \in 1..n /\ k - 1 \in 0..n /\ ~(k <= k - 1)
    BY <1>1, <2>1
  <2>3. d[k - 1] > k - 1 /\ d[k - 1] \in Nat /\ d[k] = 2 * d[k - 1]
    BY <1>1, <2>1, <2>2
  <2>4. d[k] > k
    BY <2>2, <2>3
  <2> QED
    BY <2>1, <2>4
<1>3. ASSUME NEW j \in 0..n, NEW k \in 0..n, j <= k
      PROVE  d[j] <= d[k]
  <2> DEFINE Less == {i \in Nat : i \in j..n /\ ~(d[j] <= d[i])}
  <2>1. Less = {}
    <3> SUFFICES ASSUME Less # {} PROVE FALSE
      OBVIOUS
    <3>1. PICK i \in Less : \A m \in Less : i <= m
      BY SmallestOf
    <3>2. i # j /\ i \in 1..n /\ i - 1 \in j..n /\ i - 1 \in 0..n /\ ~(i <= i - 1)
      BY <1>1, <3>1
    <3>3. d[j] <= d[i - 1] /\ d[i] = 2 * d[i - 1]
      BY <1>1, <3>1, <3>2
    <3>4. d[i - 1] \in Nat /\ d[j] \in Nat
      BY <1>1, <3>2
    <3> QED
      BY <3>1, <3>3, <3>4
  <2>2. k \in j..n /\ k \in Nat
    BY <1>3
  <2> QED
    BY <2>1, <2>2
<1> QED
  BY <1>2, <1>3 DEF d

\* Some factor fits the image in one tile; it is the last one.
LEMMA LastFactor ==
  ASSUME NEW w \in Nat \ {0}, NEW h \in Nat \ {0}, NEW t \in Nat \ {0}
  PROVE  /\ ScaleFactors(w, h, t) \subseteq Nat \ {0}
         /\ \E s \in ScaleFactors(w, h, t) :
              /\ InOneTile(w, h, t, s)
              /\ \A r \in ScaleFactors(w, h, t) : r <= s
<1> DEFINE n == Rounds(w, h)
           d == Doubling(n)
           Reached == {i \in 0..n : \A j \in 0..(i - 1) : ~InOneTile(w, h, t, d[j])}
           Fits == {k \in Nat : k \in 0..n /\ InOneTile(w, h, t, d[k])}
<1>1. n \in Nat /\ n >= w /\ n >= h
  BY DEF Rounds
<1>2. d \in [0..n -> Nat] /\ \A k \in 0..n : d[k] > k
  BY <1>1, DoublingUnfolds, DoublingGrows
<1>3. \A j, k \in 0..n : j <= k => d[j] <= d[k]
  BY <1>1, DoublingGrows
<1>4. ScaleFactors(w, h, t) = {d[k] : k \in Reached}
  BY DEF ScaleFactors
<1> HIDE DEF n, d
<1>5. n \in Fits
  <2>1. d[n] \in Nat /\ d[n] > n
    BY <1>1, <1>2
  <2>2. ASSUME NEW a \in Nat \ {0}, NEW s \in Nat, s > a PROVE ceilDiv(a, s) <= t
    BY <2>2 DEF ceilDiv
  <2> QED
    BY <1>1, <2>1, <2>2 DEF InOneTile
<1>6. PICK k \in Fits : \A j \in Fits : k <= j
  BY <1>5, SmallestOf
<1>7. k \in Reached
  <2> SUFFICES ASSUME NEW j \in 0..(k - 1), InOneTile(w, h, t, d[j]) PROVE FALSE
    BY <1>6
  <2>1. j \in Fits /\ ~(k <= j)
    BY <1>1, <1>6
  <2> QED
    BY <1>6, <2>1
<1>8. ASSUME NEW i \in Reached PROVE d[i] <= d[k]
  <2>1. ~(k \in 0..(i - 1))
    BY <1>6
  <2>2. i \in 0..n /\ k \in 0..n /\ i <= k
    BY <1>1, <1>6, <2>1
  <2> QED
    BY <1>3, <2>2
<1>9. \A i \in Reached : d[i] \in Nat \ {0}
  <2> TAKE i \in Reached
  <2>1. i \in Nat /\ d[i] \in Nat /\ d[i] > i
    BY <1>1, <1>2
  <2> QED
    BY <2>1
<1> HIDE DEF Reached
<1> QED
  BY <1>4, <1>6, <1>7, <1>8, <1>9

-----------------------------------------------------------------------------
(* The tiles.                                                              *)

LEMMA OffsetsAre ==
  ASSUME NEW limit \in Nat \ {0}, NEW step \in Nat \ {0}
  PROVE  Offsets(limit, step) = {i \in 0..(limit - 1) : i % step = 0}
<1>1. \A i \in Nat : i < ceilDiv(limit, step) <=> step * i < limit
  BY DEF ceilDiv
<1>2. ceilDiv(limit, step) \in Nat
  BY DEF ceilDiv
<1>3. ASSUME NEW i \in Nat
      PROVE  step * i \in Nat /\ (step * i) % step = 0
  OBVIOUS
<1>4. ASSUME NEW i \in Nat, i % step = 0
      PROVE  i \div step \in Nat /\ i = step * (i \div step)
  BY <1>4
<1>5. ASSUME NEW x \in Offsets(limit, step)
      PROVE  x \in 0..(limit - 1) /\ x % step = 0
  <2>1. PICK i \in 0..(ceilDiv(limit, step) - 1) : x = step * i
    BY DEF Offsets
  <2>2. i \in Nat /\ i < ceilDiv(limit, step)
    BY <1>2
  <2>3. x < limit
    BY <1>1, <2>1, <2>2
  <2>4. x \in Nat /\ x % step = 0
    BY <1>3, <2>1, <2>2
  <2> QED
    BY <2>3, <2>4
<1>6. ASSUME NEW x \in 0..(limit - 1), x % step = 0
      PROVE  x \in Offsets(limit, step)
  <2> DEFINE i == x \div step
  <2>1. i \in Nat /\ x = step * i
    BY <1>4, <1>6
  <2> HIDE DEF i
  <2>2. i < ceilDiv(limit, step)
    BY <1>1, <2>1
  <2>3. i \in 0..(ceilDiv(limit, step) - 1)
    BY <1>2, <2>1, <2>2
  <2> QED
    BY <2>1, <2>3 DEF Offsets
<1> QED
  BY <1>5, <1>6

\* Each pixel of a side is in one of the pieces it is cut into.
LEMMA CoveredOnce ==
  ASSUME NEW limit \in Nat \ {0}, NEW step \in Nat \ {0}, NEW p \in 0..(limit - 1)
  PROVE  \E x \in Offsets(limit, step) : \A y \in Offsets(limit, step) :
           (p \in y..(y + Least(step, limit - y) - 1)) <=> y = x
<1> DEFINE c == ceilDiv(limit, step)
           k == p \div step
<1>1. Offsets(limit, step) = {step * i : i \in 0..(c - 1)}
  BY DEF Offsets
<1>2. c \in Nat /\ \A i \in Nat : i < c <=> step * i < limit
  BY DEF ceilDiv
<1>3. k \in Nat /\ step * k <= p /\ p < step * k + step
  OBVIOUS
<1>4. \A i \in Nat : (step * i <= p /\ p < step * i + step) => i = k
  <2> TAKE i \in Nat
  <2> HAVE step * i <= p /\ p < step * i + step
  <2> QED
    OBVIOUS
<1> HIDE DEF c, k
<1>5. k \in 0..(c - 1)
  <2>1. step * k < limit
    BY <1>3
  <2> QED
    BY <1>2, <1>3, <2>1
<1>6. ASSUME NEW i \in 0..(c - 1)
      PROVE  (p \in (step * i)..(step * i + Least(step, limit - step * i) - 1))
               <=> step * i = step * k
  <2> DEFINE x == step * i
             z == step * k
  <2>1. x \in Nat /\ z \in Nat /\ i \in Nat
    BY <1>2, <1>3
  <2>2. (x <= p /\ p < x + step) => i = k
    BY <1>4, <2>1
  <2>3. i = k => x = z
    OBVIOUS
  <2>4. z <= p /\ p < z + step
    BY <1>3
  <2> HIDE DEF x, z
  <2>5. (x <= p /\ p < x + step) <=> x = z
    BY <2>2, <2>3, <2>4
  <2>6. (p \in x..(x + Least(step, limit - x) - 1)) <=> (x <= p /\ p < x + step)
    BY <2>1 DEF Least
  <2> QED
    BY <2>5, <2>6 DEF x, z
<1> QED
  BY <1>1, <1>5, <1>6

\* A piece is not empty, and scaled it is no larger than a tile.
LEMMA PieceFits ==
  ASSUME NEW limit \in Nat \ {0}, NEW t \in Nat \ {0}, NEW s \in Nat \ {0},
         NEW x \in Offsets(limit, t * s)
  PROVE  ceilDiv(Least(t * s, limit - x), s) \in 1..t
<1>1. t * s \in Nat \ {0}
  OBVIOUS
<1>2. x \in 0..(limit - 1)
  BY <1>1, OffsetsAre
<1>3. Least(t * s, limit - x) \in 1..(t * s)
  BY <1>1, <1>2 DEF Least
<1>4. \A l \in 1..(t * s) : ceilDiv(l, s) \in 1..t
  BY DEF ceilDiv
<1> QED
  BY <1>3, <1>4

LEMMA OneOffset ==
  ASSUME NEW limit \in Nat \ {0}, NEW t \in Nat \ {0}, NEW s \in Nat \ {0},
         ceilDiv(limit, s) <= t
  PROVE  Offsets(limit, t * s) = {0}
<1>1. limit <= t * s
  BY DEF ceilDiv
<1>2. t * s \in Nat \ {0}
  OBVIOUS
<1>3. \A i \in 1..(limit - 1) : i % (t * s) = i
  BY <1>1
<1>4. 0 % (t * s) = 0
  BY <1>2
<1>5. {i \in 0..(limit - 1) : i % (t * s) = 0} = {0}
  BY <1>3, <1>4
<1> QED
  BY <1>2, <1>5, OffsetsAre

\* The doctor's count of the files of a factor stays under its limit.
LEMMA AlwaysReasonable ==
  ASSUME NEW w \in 1..MaxSide, NEW h \in 1..MaxSide,
         NEW t \in MinTileSize..MaxTileSize, NEW s \in Nat \ {0}
  PROVE  Reasonable(InfoJSON(w, h, t), s)
<1> DEFINE cols == ceilDiv(w, t * s)
           rows == ceilDiv(h, t * s)
           most == ceilDiv(MaxSide, MinTileSize)
<1>1. /\ MaxSide \in Nat \ {0} /\ MinTileSize \in Nat \ {0} /\ MaxTileSize \in Nat
      /\ most * most <= MaxFiles
  BY InputAssumption
<1>2. t * s \in Nat \ {0} /\ t * s >= MinTileSize
  BY <1>1
<1>3. ASSUME NEW a \in 1..MaxSide, NEW d \in Nat \ {0}, d >= MinTileSize
      PROVE  ceilDiv(a, d) \in Nat \ {0} /\ ceilDiv(a, d) <= most
  <2> DEFINE m == MinTileSize
             c == ceilDiv(a, d)
  <2>1. m \in Nat \ {0} /\ m <= d /\ a <= MaxSide /\ a \in Nat \ {0}
    BY <1>1, <1>3
  <2>2. most \in Nat /\ \A i \in Nat : i < most <=> m * i < MaxSide
    BY <1>1 DEF ceilDiv
  <2>3. c \in Nat \ {0} /\ d * (c - 1) < a
    BY <2>1 DEF ceilDiv
  <2> HIDE DEF c, m, most
  <2>4. m * (c - 1) <= d * (c - 1)
    BY <2>1, <2>3
  <2>5. c - 1 \in Nat /\ m * (c - 1) \in Int /\ d * (c - 1) \in Int
    BY <2>1, <2>3
  <2>6. m * (c - 1) < MaxSide
    BY <1>1, <2>1, <2>3, <2>4, <2>5
  <2>7. c - 1 < most
    BY <2>2, <2>5, <2>6
  <2>8. c <= most
    BY <2>2, <2>3, <2>7
  <2> QED
    BY <2>3, <2>8 DEF c, most
<1>4. /\ cols \in Nat \ {0} /\ cols <= most
      /\ rows \in Nat \ {0} /\ rows <= most
  BY <1>2, <1>3
<1>5. most \in Nat /\ MaxFiles \in Nat
  BY <1>1 DEF ceilDiv, MaxFiles
<1> HIDE DEF cols, rows, most
<1>6. cols * rows <= most * most
  BY <1>4, <1>5
<1>7. cols <= MaxFiles \div rows
  <2>1. cols * rows <= MaxFiles
    <3>1. cols * rows \in Nat /\ most * most \in Nat
      BY <1>4, <1>5
    <3> QED
      BY <1>1, <1>5, <1>6, <3>1
  <2> QED
    BY <1>4, <1>5, <2>1
<1> QED
  BY <1>7 DEF Reasonable, InfoJSON, cols, rows

\* What the info.json of an image advertises at a scale is what is rendered.
LEMMA AdvertisedIsRendered ==
  ASSUME NEW w \in Nat \ {0}, NEW h \in Nat \ {0}, NEW t \in Nat \ {0},
         NEW s \in Nat \ {0}
  PROVE  Advertised(InfoJSON(w, h, t), s) = Tiles(w, h, t, s)
<1> DEFINE xs == Offsets(w, t * s)
           ys == Offsets(h, t * s)
<1>1. t * s \in Nat \ {0}
  OBVIOUS
<1>2. /\ xs = {i \in 0..(w - 1) : i % (t * s) = 0}
      /\ ys = {i \in 0..(h - 1) : i % (t * s) = 0}
  BY <1>1, OffsetsAre
<1>3. /\ InfoJSON(w, h, t).width = w
      /\ InfoJSON(w, h, t).height = h
      /\ InfoJSON(w, h, t).tiles.width = t
      /\ InfoJSON(w, h, t).tiles.height = t
  BY DEF InfoJSON
<1>4. Advertised(InfoJSON(w, h, t), s) = {Tile(w, h, t * s, s, x, y) : x \in xs, y \in ys}
  BY <1>2, <1>3 DEF Advertised, Tile
<1> QED
  BY <1>4 DEF Tiles

LEMMA DoctorExpectsWhatIsRendered ==
  ASSUME NEW w \in 1..MaxSide, NEW h \in 1..MaxSide, NEW t \in MinTileSize..MaxTileSize
  PROVE  Expected(InfoJSON(w, h, t)) = Rendered(w, h, t)
<1> DEFINE info == InfoJSON(w, h, t)
           factors == ScaleFactors(w, h, t)
<1>1. w \in Nat \ {0} /\ h \in Nat \ {0} /\ t \in Nat \ {0}
  BY InputAssumption
<1>2. factors \subseteq Nat \ {0}
  BY <1>1, LastFactor
<1>3. info.sizes = Sizes(w, h, t) /\ info.tiles.scaleFactors = factors
  BY DEF InfoJSON
<1>4. \A s \in factors : Reasonable(info, s) /\ Advertised(info, s) = Tiles(w, h, t, s)
  BY <1>1, <1>2, AlwaysReasonable, AdvertisedIsRendered
<1> HIDE DEF info, factors
<1>5. {f \in factors : Reasonable(info, f)} = factors
  BY <1>4
<1>6. {Advertised(info, s) : s \in factors} = {Tiles(w, h, t, s) : s \in factors}
  BY <1>4
<1>7. Expected(info) = [full |-> Sizes(w, h, t),
                        tiles |-> UNION {Advertised(info, s) : s \in factors}]
  BY <1>3, <1>5 DEF Expected
<1>8. Rendered(w, h, t) = [full |-> Sizes(w, h, t),
                           tiles |-> UNION {Tiles(w, h, t, s) : s \in factors}]
  BY DEF Rendered, factors
<1> QED
  BY <1>6, <1>7, <1>8 DEF info

LEMMA TilesPartition ==
  ASSUME NEW w \in Nat \ {0}, NEW h \in Nat \ {0}, NEW t \in Nat \ {0}
  PROVE  Partition(w, h, t)
<1> DEFINE factors == ScaleFactors(w, h, t)
<1>1. factors \subseteq Nat \ {0}
  BY LastFactor
<1>2. ASSUME NEW s \in factors,
             NEW px \in 0..(w - 1), NEW py \in 0..(h - 1)
      PROVE  Cardinality({a \in Tiles(w, h, t, s) : Covers(a, px, py)}) = 1
  <2> DEFINE full == t * s
             xs == Offsets(w, full)
             ys == Offsets(h, full)
             InX(x) == px \in x..(x + Least(full, w - x) - 1)
             InY(y) == py \in y..(y + Least(full, h - y) - 1)
  <2>1. full \in Nat \ {0}
    BY <1>1
  <2>2. PICK x \in xs : \A y \in xs : InX(y) <=> y = x
    BY <2>1, CoveredOnce
  <2>3. PICK y \in ys : \A z \in ys : InY(z) <=> z = y
    BY <2>1, CoveredOnce
  <2>4. \A u \in xs, v \in ys : Covers(Tile(w, h, full, s, u, v), px, py) <=> InX(u) /\ InY(v)
    BY DEF Covers, Tile
  <2>5. Tiles(w, h, t, s) = {Tile(w, h, full, s, u, v) : u \in xs, v \in ys}
    BY DEF Tiles
  <2> HIDE DEF InX, InY, xs, ys, full
  <2>6. {a \in Tiles(w, h, t, s) : Covers(a, px, py)} = {Tile(w, h, full, s, x, y)}
    BY <2>2, <2>3, <2>4, <2>5
  <2> QED
    BY <2>6, FS_Singleton
<1>3. ASSUME NEW s \in factors, NEW a \in Tiles(w, h, t, s)
      PROVE  a.sw \in 1..t /\ a.sh \in 1..t
  <2>1. PICK x \in Offsets(w, t * s), y \in Offsets(h, t * s) :
          a = Tile(w, h, t * s, s, x, y)
    BY DEF Tiles
  <2>2. /\ a.sw = ceilDiv(Least(t * s, w - x), s)
        /\ a.sh = ceilDiv(Least(t * s, h - y), s)
    BY <2>1 DEF Tile
  <2> QED
    BY <1>1, <2>2, PieceFits
<1>4. PICK s \in factors : InOneTile(w, h, t, s) /\ \A r \in factors : r <= s
  BY LastFactor
<1>5. Cardinality(Tiles(w, h, t, s)) = 1
  <2>1. Offsets(w, t * s) = {0} /\ Offsets(h, t * s) = {0}
    BY <1>1, <1>4, OneOffset DEF InOneTile
  <2>2. Tiles(w, h, t, s) = {Tile(w, h, t * s, s, 0, 0)}
    BY <2>1 DEF Tiles
  <2> QED
    BY <2>2, FS_Singleton
<1> HIDE DEF factors
<1>6. /\ \A r \in factors :
           /\ \A px \in 0..(w - 1), py \in 0..(h - 1) :
                Cardinality({a \in Tiles(w, h, t, r) : Covers(a, px, py)}) = 1
           /\ \A a \in Tiles(w, h, t, r) : a.sw \in 1..t /\ a.sh \in 1..t
      /\ \E r \in factors :
           /\ \A q \in factors : q <= r
           /\ Cardinality(Tiles(w, h, t, r)) = 1
  BY <1>2, <1>3, <1>4, <1>5
<1> QED
  BY <1>6 DEF Partition, factors

\* tile.go:147-172, doctor.go:300-333: for an image of any size, its tiles
\* partition it at every scale, and the doctor looks for exactly the files
\* that were written.
THEOREM PyramidsAreComplete == InputSpec => []PyramidIsComplete
<1>1. InputInit => PyramidIsComplete
  <2> SUFFICES ASSUME InputInit, image # NoInput PROVE
        /\ Partition(image.width, image.height, image.tileSize)
        /\ Expected(InfoJSON(image.width, image.height, image.tileSize))
             = Rendered(image.width, image.height, image.tileSize)
    BY DEF PyramidIsComplete
  <2>1. /\ image.width \in 1..MaxSide /\ image.height \in 1..MaxSide
        /\ image.tileSize \in MinTileSize..MaxTileSize
    BY DEF InputInit, Images
  <2>2. /\ image.width \in Nat \ {0} /\ image.height \in Nat \ {0}
        /\ image.tileSize \in Nat \ {0}
    BY <2>1, InputAssumption
  <2> QED
    BY <2>1, <2>2, TilesPartition, DoctorExpectsWhatIsRendered
<1>2. PyramidIsComplete /\ UNCHANGED inputVars => PyramidIsComplete'
  BY DEF PyramidIsComplete, inputVars
<1> QED
  BY <1>1, <1>2, PTL DEF InputSpec

-----------------------------------------------------------------------------
(* Dates, and what excludes a work.                                        *)

LEMMA RomanIsInt ==
  ASSUME NEW numeral \in Seq(Nat)
  PROVE  romanToInt(numeral) \in Int
<1> DEFINE n == Len(numeral)
           V == [total : Int, prev : Nat]
           Zero == [total |-> 0, prev |-> 0]
           Digit(k) == numeral[n - k + 1]
           Add(v, last) == IF v < last.prev
                           THEN [total |-> last.total - v, prev |-> last.prev]
                           ELSE [total |-> last.total + v, prev |-> v]
           next == [k \in 1..n |-> [last \in V |-> Add(Digit(k), last)]]
           Loop(t) == t = [k \in 0..n |->
                             IF k = 0 THEN Zero ELSE Add(Digit(k), t[k - 1])]
<1>1. n \in Nat /\ \A k \in 1..n : Digit(k) \in Nat
  OBVIOUS
<1>2. Zero \in V /\ Zero.total = 0
  OBVIOUS
<1>3. \A v \in Nat, last \in V : Add(v, last) \in V
  OBVIOUS
<1> HIDE DEF V, Zero, Digit, Add, n
<1>4. next \in [1..n -> [V -> V]] /\ \A k \in 1..n, v \in V : next[k][v] = Add(Digit(k), v)
  BY <1>1, <1>3
<1> HIDE DEF next
<1>5. PICK f \in [0..n -> V] : f[0] = Zero /\ \A k \in 1..n : f[k] = next[k][f[k - 1]]
  <2>1. HasRun(n, V, Zero, next)
    BY <1>1, <1>2, <1>4, LoopRuns
  <2> QED
    BY <2>1 DEF HasRun
<1>6. \A k \in 1..n : f[k] = Add(Digit(k), f[k - 1])
  <2> TAKE k \in 1..n
  <2>1. k - 1 \in 0..n /\ f[k - 1] \in V
    BY <1>1
  <2> QED
    BY <1>4, <1>5, <2>1
<1>7. Loop(f)
  <2>1. \A k \in 0..n : f[k] = IF k = 0 THEN Zero ELSE Add(Digit(k), f[k - 1])
    BY <1>1, <1>5, <1>6
  <2> QED
    BY <2>1
<1> DEFINE d == Tally(numeral)
<1>8. Loop(d)
  <2>1. d = CHOOSE t : Loop(t)
    BY DEF Tally, Add, Digit, n, Zero
  <2> HIDE DEF Loop, d
  <2> QED
    BY <1>7, <2>1
<1> HIDE DEF d
<1>9. d[0] = Zero /\ \A k \in 1..n : d[k] = Add(Digit(k), d[k - 1])
  BY <1>1, <1>8
<1>10. \A k \in 0..n : d[k] = f[k]
  <2> DEFINE Wrong == {k \in Nat : k \in 0..n /\ d[k] # f[k]}
  <2> SUFFICES ASSUME Wrong # {} PROVE FALSE
    BY <1>1
  <2>1. PICK k \in Wrong : \A j \in Wrong : k <= j
    BY SmallestOf
  <2>2. k # 0 /\ k \in 1..n /\ k - 1 \in 0..n /\ ~(k <= k - 1)
    BY <1>1, <1>5, <1>9, <2>1
  <2>3. d[k - 1] = f[k - 1]
    BY <2>1, <2>2
  <2> QED
    BY <1>6, <1>9, <2>1, <2>2, <2>3
<1>11. d[n] \in V
  BY <1>1, <1>10
<1>12. d[n].total \in Int
  BY <1>11 DEF V
<1> QED
  BY <1>12 DEF romanToInt, d, n

\* The interval of a date is the years it denotes; none ends before the year 0.
LEMMA DateIsItsYears ==
  ASSUME NEW text \in Text, IsDate(text)
  PROVE  /\ ParseDateRange(text).start \in Int
         /\ ParseDateRange(text).end \in Int
         /\ ParseDateRange(text).start <= ParseDateRange(text).end
         /\ ParseDateRange(text).end >= 0
         /\ Years(text) = ParseDateRange(text).start..ParseDateRange(text).end
<1> DEFINE n == text.numbers
<1>1. /\ text.form \in {"century", "roman", "circa", "year", "range", "other"}
      /\ n \in Seq(Nat)
      /\ text.form \in {"century", "circa", "year"} => n[1] \in Nat
      /\ text.form = "range" => n[1] \in Nat /\ n[2] \in Nat
  BY DEF Text
<1>2. romanToInt(n) \in Int
  BY <1>1, RomanIsInt
<1>3. ASSUME NEW c \in Int, c > 0
      PROVE  /\ centuryRange(c).start \in Int /\ centuryRange(c).end \in Int
             /\ centuryRange(c).start <= centuryRange(c).end
             /\ centuryRange(c).end >= 0
             /\ {100 * (c - 1) + y : y \in 1..100}
                  = centuryRange(c).start..centuryRange(c).end
  <2> DEFINE b == 100 * (c - 1)
  <2>1. centuryRange(c) = [start |-> b + 1, end |-> b + 100] /\ b \in Int /\ b >= 0
    BY <1>3 DEF centuryRange
  <2> HIDE DEF b
  <2>2. \A z \in (b + 1)..(b + 100) : z - b \in 1..100 /\ z = b + (z - b)
    BY <2>1
  <2>3. {b + y : y \in 1..100} = (b + 1)..(b + 100)
    <3>1. ASSUME NEW z \in (b + 1)..(b + 100)
          PROVE  z \in {b + y : y \in 1..100}
      BY <2>2
    <3>2. ASSUME NEW y \in 1..100
          PROVE  b + y \in (b + 1)..(b + 100)
      BY <2>1
    <3> QED
      BY <3>1, <3>2
  <2> QED
    BY <2>1, <2>3 DEF b
<1>4. CASE text.form = "century"
  <2>1. n[1] \in Int /\ n[1] > 0
    BY <1>1, <1>4 DEF IsDate
  <2>2. /\ ParseDateRange(text) = centuryRange(n[1])
        /\ Years(text) = {100 * (n[1] - 1) + y : y \in 1..100}
    BY <1>4 DEF ParseDateRange, Years
  <2> QED
    BY <1>3, <2>1, <2>2
<1>5. CASE text.form = "roman"
  <2>1. romanToInt(n) > 0
    BY <1>5 DEF IsDate
  <2>2. /\ ParseDateRange(text) = centuryRange(romanToInt(n))
        /\ Years(text) = {100 * (romanToInt(n) - 1) + y : y \in 1..100}
    BY <1>5 DEF ParseDateRange, Years
  <2> QED
    BY <1>2, <1>3, <2>1, <2>2
<1>6. CASE text.form = "circa"
  <2> DEFINE y == n[1]
  <2>1. y \in Nat
    BY <1>1, <1>6
  <2>2. /\ ParseDateRange(text) = [start |-> y - 20, end |-> y + 20]
        /\ Years(text) = {y + d : d \in -20..20}
    BY <1>6 DEF ParseDateRange, Years, circaSlack
  <2> HIDE DEF y
  <2>3. \A z \in (y - 20)..(y + 20) : z - y \in -20..20 /\ z = y + (z - y)
    BY <2>1
  <2>4. {y + d : d \in -20..20} = (y - 20)..(y + 20)
    BY <2>1, <2>3
  <2> QED
    BY <2>1, <2>2, <2>4
<1>7. CASE text.form = "year"
  <2>1. ParseDateRange(text) = [start |-> n[1], end |-> n[1]] /\ Years(text) = {n[1]}
    BY <1>7 DEF ParseDateRange, Years
  <2> QED
    BY <1>1, <1>7, <2>1
<1>8. CASE text.form = "range"
  <2> DEFINE a == n[1]
             b == n[2]
  <2>1. a \in Nat /\ b \in Nat
    BY <1>1, <1>8
  <2>2. /\ ParseDateRange(text) = [start |-> Min({a, b}), end |-> Max({a, b})]
        /\ Years(text) = a..b \cup b..a
    BY <1>8 DEF ParseDateRange, Years
  <2> HIDE DEF a, b
  <2>3. /\ Min({a, b}) \in {a, b} /\ Min({a, b}) <= a /\ Min({a, b}) <= b
        /\ Max({a, b}) \in {a, b} /\ Max({a, b}) >= a /\ Max({a, b}) >= b
    <3> DEFINE Smallest(m) == m \in {a, b} /\ \A y \in {a, b} : m <= y
               Largest(m) == m \in {a, b} /\ \A y \in {a, b} : m >= y
    <3>1. \E m : Smallest(m)
      BY <2>1
    <3>2. \E m : Largest(m)
      BY <2>1
    <3>3. Min({a, b}) = CHOOSE m : Smallest(m)
      BY DEF Min
    <3>4. Max({a, b}) = CHOOSE m : Largest(m)
      BY DEF Max
    <3> HIDE DEF Smallest, Largest
    <3>5. Smallest(Min({a, b})) /\ Largest(Max({a, b}))
      BY <3>1, <3>2, <3>3, <3>4
    <3> QED
      BY <3>5 DEF Smallest, Largest
  <2> DEFINE lo == Min({a, b})
             hi == Max({a, b})
  <2> HIDE DEF lo, hi
  <2>4. /\ lo \in {a, b} /\ lo <= a /\ lo <= b
        /\ hi \in {a, b} /\ hi >= a /\ hi >= b
    BY <2>3 DEF lo, hi
  <2>5. lo..hi = a..b \cup b..a /\ lo <= hi /\ lo \in Int /\ hi \in Int /\ hi >= 0
    BY <2>1, <2>4
  <2>6. ParseDateRange(text) = [start |-> lo, end |-> hi]
    BY <2>2 DEF lo, hi
  <2> QED
    BY <2>2, <2>5, <2>6
<1>9. text.form # "other"
  BY DEF IsDate
<1> QED
  BY <1>1, <1>4, <1>5, <1>6, <1>7, <1>8, <1>9

LEMMA MaxIsAnElement ==
  ASSUME NEW n \in Nat, NEW K, K \subseteq 1..n, K # {}
  PROVE  Max(K) \in K
<1> DEFINE Left == {l \in Nat : \E k \in K : l + k = n}
           Largest(m) == m \in K /\ \A k \in K : m >= k
<1>1. \A k \in K : k \in Nat /\ n - k \in Left
  OBVIOUS
<1>2. Left # {} /\ Left \subseteq Nat
  BY <1>1
<1> HIDE DEF Left
<1>3. PICK l \in Left : \A j \in Left : l <= j
  BY <1>2, SmallestOf
<1>4. PICK m \in K : l + m = n
  BY <1>3 DEF Left
<1>5. ASSUME NEW k \in K PROVE m >= k
  <2>1. l <= n - k /\ k \in Nat /\ m \in Nat /\ l \in Nat
    BY <1>1, <1>2, <1>3
  <2> QED
    BY <1>4, <2>1
<1>6. Largest(m)
  BY <1>5
<1>7. Max(K) = CHOOSE x : Largest(x)
  BY DEF Max
<1> HIDE DEF Largest
<1>8. Largest(Max(K))
  BY <1>6, <1>7
<1> QED
  BY <1>8 DEF Largest

\* A work's entries, by the date and the origin that are kept of them.
LEMMA RecordOfWork ==
  ASSUME meta \in Works
  PROVE  /\ DOMAIN meta \subseteq Nat
         /\ \A i \in DOMAIN meta : meta[i] \in Entry /\ meta[i].date \in Text
         /\ \A K \in SUBSET DOMAIN meta : K # {} => Max(K) \in K
<1>1. PICK n \in 0..MaxEntries : meta \in [1..n -> Entries]
  BY DEF Works
<1>2. n \in Nat
  BY InputAssumption
<1>3. \A K \in SUBSET (1..n) : K # {} => Max(K) \in K
  BY <1>2, MaxIsAnElement
<1>4. \A i \in DOMAIN meta : meta[i] \in Entry
  BY <1>1, InputAssumption
<1>5. \A entry \in Entry : entry.date \in Text
  BY DEF Entry
<1> QED
  BY <1>1, <1>2, <1>3, <1>4, <1>5

\* date.go:68-124, filter.go:55-64: a work with one date, other than the
\* year 0, is excluded for it exactly if none of the years it denotes was
\* asked for.
THEOREM DatesDecideByYears == InputSpec => []DateDecidesByYears
<1>1. InputInit => DateDecidesByYears
  <2> SUFFICES ASSUME InputInit, meta # NoInput, Query.hasDate, query.from <= query.to,
                      NEW i \in DOMAIN meta,
                      {j \in DOMAIN meta :
                         Field(meta[j].label) = "date" /\ IsDate(meta[j].date)} = {i},
                      Years(meta[i].date) # {0}
               PROVE  FailsDate(Query, Work)
                        <=> Years(meta[i].date) \cap query.from..query.to = {}
    BY DEF DateDecidesByYears
  <2> DEFINE text == meta[i].date
             d == ParseDateRange(text)
             At(field) == {j \in DOMAIN meta : Field(meta[j].label) = field}
             dated == {j \in At("date") : IsDate(meta[j].date)}
  <2>1. meta \in Works /\ query \in Queries
    BY DEF InputInit
  <2>2. query.from \in Int /\ query.to \in Int
    BY <2>1, InputAssumption
  <2>3. text \in Text /\ IsDate(text)
    BY <2>1, RecordOfWork
  <2>4. /\ d.start \in Int /\ d.end \in Int /\ d.start <= d.end
        /\ Years(text) = d.start..d.end
    BY <2>3, DateIsItsYears
  <2>5. dated = {i} /\ Max(dated) = i
    <3>1. dated = {i}
      OBVIOUS
    <3>2. Max(dated) \in dated
      BY <2>1, <3>1, RecordOfWork
    <3> QED
      BY <3>1, <3>2
  <2>6. Work.date = d
    <3>1. Work.date = IF dated = {} THEN NoDate ELSE ParseDateRange(meta[Max(dated)].date)
      BY DEF Work, BuildWorkRecord
    <3> HIDE DEF dated
    <3> QED
      BY <2>5, <3>1
  <2>7. d # NoDate
    <3>1. ASSUME d = NoDate PROVE d.start = 0 /\ d.end = 0
      BY <3>1 DEF NoDate
    <3>2. 0..0 = {0}
      OBVIOUS
    <3> HIDE DEF d
    <3> QED
      BY <2>4, <3>1, <3>2
  <2>8. /\ Query.hasDate
        /\ Query.date.start = query.from /\ Query.date.end = query.to
    BY DEF Query, filter
  <2> HIDE DEF d, text
  <2>9. FailsDate(Query, Work) <=> ~(d.start <= query.to /\ query.from <= d.end)
    BY <2>6, <2>7, <2>8 DEF FailsDate
  <2>10. (d.start..d.end) \cap (query.from..query.to) = {}
           <=> ~(d.start <= query.to /\ query.from <= d.end)
    <3> DEFINE from == query.from
               to == query.to
               a == d.start
               b == d.end
    <3>1. from \in Int /\ to \in Int /\ a \in Int /\ b \in Int /\ a <= b /\ from <= to
      BY <2>2, <2>4
    <3> HIDE DEF from, to, a, b
    <3>2. (a <= to /\ from <= b) =>
            (IF a <= from THEN from ELSE a) \in a..b \cap from..to
      BY <3>1
    <3>3. ASSUME NEW y \in a..b \cap from..to PROVE a <= to /\ from <= b
      BY <3>1
    <3>4. (a..b) \cap (from..to) = {} <=> ~(a <= to /\ from <= b)
      BY <3>2, <3>3
    <3> QED
      BY <3>4 DEF from, to, a, b
  <2> QED
    BY <2>4, <2>9, <2>10 DEF text
<1>2. DateDecidesByYears /\ UNCHANGED inputVars => DateDecidesByYears'
  BY DEF DateDecidesByYears, Query, Work, inputVars
<1> QED
  BY <1>1, <1>2, PTL DEF InputSpec

\* filter.go:8-14: unless -from is given alone, a work is excluded only for an
\* entry it has whose value was understood and is none of those asked for; of
\* a date, no year.
THEOREM OnlyDataExcludes == InputSpec => []ExcludedOnlyOnData
<1>1. InputInit => ExcludedOnlyOnData
  <2> DEFINE At(field) == {i \in DOMAIN meta : Field(meta[i].label) = field}
             dated == {i \in At("date") : IsDate(meta[i].date)}
             Speaks(i) ==
               \/ /\ Field(meta[i].label) = "language"
                  /\ meta[i].lang \notin query.langs \cup {Unknown}
               \/ /\ Field(meta[i].label) = "date" /\ IsDate(meta[i].date)
                  /\ \A year \in Years(meta[i].date) : ~Asked(year)
               \/ /\ Field(meta[i].label) = "origin" /\ meta[i].origin # {}
                  /\ meta[i].origin \cap query.places = {}
  <2> SUFFICES ASSUME InputInit, meta # NoInput, ~FromAlone, Excluded(Query, Work)
               PROVE  \E i \in DOMAIN meta : Speaks(i)
    BY DEF ExcludedOnlyOnData
  <2>1. meta \in Works /\ query \in Queries
    BY DEF InputInit
  <2>2. /\ Work.langs = {meta[i].lang : i \in At("language")} \ {Unknown}
        /\ Work.date = IF dated = {} THEN NoDate ELSE ParseDateRange(meta[Max(dated)].date)
        /\ Work.origin = IF At("origin") = {} THEN {} ELSE meta[Max(At("origin"))].origin
    BY DEF Work, BuildWorkRecord
  <2>3. /\ Query.langs = query.langs
        /\ Query.date.start = query.from /\ Query.date.end = query.to
        /\ Query.places = query.places
    BY DEF Query, filter
  <2>4. /\ dated # {} => Max(dated) \in dated
        /\ At("origin") # {} => Max(At("origin")) \in At("origin")
    BY <2>1, RecordOfWork
  <2>5. CASE FailsLanguage(Query, Work)
    <3>1. PICK lang \in Work.langs : lang \notin query.langs
      BY <2>3, <2>5 DEF FailsLanguage
    <3>2. PICK i \in At("language") : lang = meta[i].lang /\ lang # Unknown
      BY <2>2, <3>1
    <3>3. Speaks(i)
      BY <3>1, <3>2
    <3> QED
      BY <3>2, <3>3
  <2>6. CASE FailsDate(Query, Work)
    <3> DEFINE m == Max(dated)
               d == ParseDateRange(meta[m].date)
    <3>1. Work.date # NoDate
      BY <2>6 DEF FailsDate
    <3>2. m \in dated /\ Work.date = d
      <4> HIDE DEF dated
      <4> QED
        BY <2>2, <2>4, <3>1
    <3>3. ~(d.start <= query.to /\ query.from <= d.end)
      BY <2>3, <2>6, <3>2 DEF FailsDate
    <3>4. m \in DOMAIN meta /\ Field(meta[m].label) = "date" /\ IsDate(meta[m].date)
      BY <3>2
    <3>5. /\ d.start \in Int /\ d.end \in Int /\ d.start <= d.end /\ d.end >= 0
          /\ Years(meta[m].date) = d.start..d.end
      BY <2>1, <3>4, RecordOfWork, DateIsItsYears
    <3>6. query.from \in Int /\ query.to \in Int
      BY <2>1, InputAssumption
    <3> HIDE DEF d, m
    <3>7. ASSUME NEW year \in Years(meta[m].date), Asked(year)
          PROVE  FALSE
      <4>1. year \in Int /\ d.start <= year /\ year <= d.end
        BY <3>5
      <4>2. /\ query.from # 0 => query.from <= year
            /\ query.to # 0 => year <= query.to
        BY <3>7 DEF Asked
      <4>3. query.to # 0
        BY <2>6 DEF FailsDate, Query, filter, FromAlone
      <4>4. d.start <= query.to /\ query.from <= d.end
        BY <3>5, <3>6, <4>1, <4>2, <4>3
      <4> QED
        BY <3>3, <4>4
    <3> QED
      BY <3>4, <3>7
  <2>7. CASE FailsOrigin(Query, Work)
    <3> DEFINE m == Max(At("origin"))
    <3>1. Work.origin # {} /\ query.places \cap Work.origin = {}
      BY <2>3, <2>7 DEF FailsOrigin
    <3>2. m \in At("origin") /\ Work.origin = meta[m].origin
      <4> HIDE DEF At
      <4> QED
        BY <2>2, <2>4, <3>1
    <3>3. m \in DOMAIN meta /\ Field(meta[m].label) = "origin"
      BY <3>2
    <3> HIDE DEF m
    <3> QED
      BY <3>1, <3>2, <3>3
  <2> HIDE DEF Speaks
  <2> QED
    BY <2>5, <2>6, <2>7 DEF Excluded
<1>2. ExcludedOnlyOnData /\ UNCHANGED inputVars => ExcludedOnlyOnData'
  BY DEF ExcludedOnlyOnData, Query, Work, Asked, FromAlone, inputVars
<1> QED
  BY <1>1, <1>2, PTL DEF InputSpec
===============================================================================
