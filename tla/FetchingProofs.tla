--------------------------- MODULE FetchingProofs ---------------------------
(***************************************************************************)
(* Proofs about the fetchers, for any number of calls side by side, of     *)
(* documents and versions, attempts, slots and derivations.                *)
(*                                                                         *)
(* The argument: while an answer is awaited, the window holds the version  *)
(* that is current; what a server answers, or confirms with 304, is that   *)
(* version, and the window does not change between the answer and the      *)
(* return.  So a body is of its own URL wherever it is held or stored.  A  *)
(* derived manifest is another kind of value than a document, and what was *)
(* derived stays known to be.                                              *)
(***************************************************************************)
EXTENDS Fetching, FiniteSetTheorems, TLAPS

Derivation == [manifest : Url, item : Document]

Places == {"idle", "slot", "limiter", "asked", "backoff", "put", "ended",
           "returned"}

CallRecord ==
  [at : Places, asked : Url \cup {None}, target : Url \cup {None},
   attempt : 1..MaxAttempts, held : BOOLEAN, cached : Document \cup {None},
   body : Document \cup Derivation \cup {None}]

TypeOK ==
  /\ slots \in Nat
  /\ current \in [Url -> 1..MaxVersion]
  /\ record \in [Url -> Document \cup {None, Damaged}]
  /\ derivations \subseteq Derivation
  /\ call \in [Call -> CallRecord]
  /\ calls \in 0..MaxCalls
  /\ window \in [Call -> SUBSET (1..MaxVersion)]

\* What one call knows at each of its places.
CallInv(c) ==
  /\ call[c].at # "idle" => call[c].asked \in Url /\ call[c].target \in Url
  /\ call[c].held => call[c].at \in {"limiter", "asked", "backoff", "put"}
  /\ call[c].at \in {"limiter", "asked", "backoff", "put"} => call[c].held
  /\ call[c].at = "backoff" => call[c].attempt < MaxAttempts
  /\ call[c].at = "asked" => current[call[c].target] \in window[c]
  /\ call[c].at = "put" \/ (call[c].at = "ended" /\ call[c].body # None) =>
       /\ call[c].body \in Document
       /\ call[c].body.url = call[c].target
       /\ call[c].body.version \in window[c]
  /\ call[c].at = "returned" /\ call[c].body # None =>
       IF FellBack(c) THEN call[c].body \in derivations
                      ELSE call[c].body \in Document

Held == {c \in Call : call[c].held}

SlotsInv == IsFiniteSet(Held) /\ InUse <= slots

StoreInv ==
  \A u \in Url : record[u] \notin {None, Damaged} => record[u].url = u

Inv ==
  /\ TypeOK
  /\ \A c \in Call : CallInv(c)
  /\ SlotsInv
  /\ StoreInv

-----------------------------------------------------------------------------
(* Calls do not disturb each other.                                        *)

LEMMA HeldKeepsSlots ==
  ASSUME SlotsInv, Held' \subseteq Held, slots \in Nat, slots' = slots
  PROVE  SlotsInv'
<1>1. IsFiniteSet(Held') /\ Cardinality(Held') <= Cardinality(Held)
  BY FS_Subset DEF SlotsInv
<1>2. Cardinality(Held) \in Nat /\ Cardinality(Held') \in Nat
  BY <1>1, FS_CardinalityType DEF SlotsInv
<1> QED
  BY <1>1, <1>2 DEF SlotsInv, InUse, Held

LEMMA HeldTakesSlot ==
  ASSUME SlotsInv, NEW c \in Call, Held' = Held \cup {c}, InUse < slots,
         slots \in Nat, slots' = slots
  PROVE  SlotsInv'
<1>1. /\ IsFiniteSet(Held')
      /\ Cardinality(Held') \in {Cardinality(Held), Cardinality(Held) + 1}
  BY FS_AddElement DEF SlotsInv
<1>2. Cardinality(Held) \in Nat
  BY FS_CardinalityType DEF SlotsInv
<1> QED
  BY <1>1, <1>2 DEF SlotsInv, InUse, Held

\* What one call does keeps the invariant if it keeps that call's part of it
\* and the store's.
LEMMA CallMoves ==
  ASSUME Inv, NEW c \in Call, NEW next \in CallRecord,
         call' = [call EXCEPT ![c] = next],
         UNCHANGED <<slots, current>>,
         calls' \in 0..MaxCalls,
         derivations \subseteq derivations', derivations' \subseteq Derivation,
         window' \in [Call -> SUBSET (1..MaxVersion)],
         \A d \in Call \ {c} : window'[d] = window[d],
         record' \in [Url -> Document \cup {None, Damaged}],
         StoreInv',
         CallInv(c)',
         next.held => call[c].held \/ InUse < slots
  PROVE  Inv'
<1>1. /\ call' \in [Call -> CallRecord] /\ call'[c] = next
      /\ \A d \in Call \ {c} : call'[d] = call[d]
  BY DEF Inv, TypeOK
<1>2. TypeOK'
  BY <1>1 DEF Inv, TypeOK
<1>3. ASSUME NEW d \in Call \ {c} PROVE CallInv(d)'
  BY <1>1, <1>3 DEF Inv, CallInv, FellBack
<1>4. SlotsInv'
  <2>1. CASE next.held /\ ~call[c].held
    <3>1. Held' = Held \cup {c}
      BY <1>1, <2>1 DEF Held
    <3> QED
      BY <2>1, <3>1, HeldTakesSlot DEF Inv, TypeOK
  <2>2. CASE next.held => call[c].held
    <3>1. Held' \subseteq Held
      BY <1>1, <2>2 DEF Held
    <3> QED
      BY <3>1, HeldKeepsSlots DEF Inv, TypeOK
  <2> QED
    BY <2>1, <2>2
<1> QED
  BY <1>2, <1>3, <1>4 DEF Inv

\* A step that only moves the call.
LEMMA OnlyCallMoves ==
  ASSUME Inv, NEW c \in Call, NEW next \in CallRecord,
         call' = [call EXCEPT ![c] = next],
         UNCHANGED <<slots, current, record, derivations, calls, window>>,
         CallInv(c)',
         next.held => call[c].held \/ InUse < slots
  PROVE  Inv'
<1>1. StoreInv'
  BY DEF Inv, StoreInv
<1> QED
  BY <1>1, CallMoves DEF Inv, TypeOK

-----------------------------------------------------------------------------
(* The records a step leaves.                                              *)

LEMMA Bounds == MaxAttempts \in Nat \ {0} /\ MaxVersion \in Nat \ {0}
BY FetchingAssumption DEF FetchingAssumption

LEMMA IdleIsCall == Idle \in CallRecord
BY FetchingAssumption DEF Idle, CallRecord, Places, FetchingAssumption

LEMMA CallFields ==
  ASSUME Inv, NEW c \in Call
  PROVE  /\ call[c] \in CallRecord
         /\ call[c] = [at |-> call[c].at, asked |-> call[c].asked,
                       target |-> call[c].target, attempt |-> call[c].attempt,
                       held |-> call[c].held, cached |-> call[c].cached,
                       body |-> call[c].body]
BY DEF Inv, TypeOK, CallRecord

LEMMA EndedIsCall ==
  ASSUME Inv, NEW c \in Call, NEW body \in Document \cup Derivation \cup {None}
  PROVE  /\ Ended(c, body) \in CallRecord
         /\ Ended(c, body).at = "ended" /\ ~Ended(c, body).held
         /\ Ended(c, body).body = body
         /\ Ended(c, body).asked = call[c].asked
         /\ Ended(c, body).target = call[c].target
BY CallFields DEF Ended, At, CallRecord, Places

\* A fetch ends with an error, or with what its server has now or had when it
\* was answered.
LEMMA EndsKeepsInv ==
  ASSUME Inv, NEW c \in Call, NEW body \in Document \cup {None},
         call[c].at # "idle",
         call' = [call EXCEPT ![c] = Ended(c, body)],
         body # None => body.url = call[c].target /\ body.version \in window[c],
         UNCHANGED <<slots, current, record, derivations, calls, window>>
  PROVE  Inv'
<1>1. /\ Ended(c, body) \in CallRecord
      /\ Ended(c, body).at = "ended" /\ ~Ended(c, body).held
      /\ Ended(c, body).body = body
      /\ Ended(c, body).asked = call[c].asked
      /\ Ended(c, body).target = call[c].target
  BY EndedIsCall
<1>2. call'[c] = Ended(c, body)
  BY DEF Inv, TypeOK
<1>3. CallInv(c)'
  BY <1>1, <1>2 DEF Inv, CallInv
<1> QED
  BY <1>1, <1>3, OnlyCallMoves

-----------------------------------------------------------------------------
(* The steps.                                                              *)

LEMMA InitInv == Init => Inv
<1> SUFFICES ASSUME Init PROVE Inv
  OBVIOUS
<1>1. TypeOK
  <2>1. call \in [Call -> CallRecord]
    BY IdleIsCall DEF Init
  <2>2. /\ slots \in Nat /\ calls \in 0..MaxCalls
        /\ current \in [Url -> 1..MaxVersion]
    BY FetchingAssumption DEF Init, FetchingAssumption
  <2> QED
    BY <2>1, <2>2 DEF Init, TypeOK
<1>2. \A c \in Call : call[c].at = "idle" /\ ~call[c].held
  BY DEF Init, Idle
<1>3. SlotsInv
  <2>1. Held = {}
    BY <1>2 DEF Held
  <2>2. InUse = Cardinality(Held) /\ Cardinality(Held) = 0 /\ IsFiniteSet(Held)
    BY <2>1, FS_EmptySet DEF InUse, Held
  <2> QED
    BY <1>1, <2>2 DEF SlotsInv, TypeOK
<1> QED
  BY <1>1, <1>2, <1>3 DEF Init, Inv, CallInv, StoreInv

LEMMA DocumentChangesKeepsInv ==
  ASSUME Inv, NEW u \in Url, DocumentChanges(u)
  PROVE  Inv'
<1>1. /\ current' \in [Url -> 1..MaxVersion] /\ current'[u] \in 1..MaxVersion
      /\ \A v \in Url \ {u} : current'[v] = current[v]
      /\ UNCHANGED <<slots, record, derivations, call, calls>>
  BY Bounds DEF DocumentChanges, Inv, TypeOK
<1>2. /\ window' \in [Call -> SUBSET (1..MaxVersion)]
      /\ \A c \in Call :
           /\ window[c] \subseteq window'[c]
           /\ call[c].at = "asked" /\ call[c].target = u
                => current'[u] \in window'[c]
  BY <1>1 DEF DocumentChanges, Inv, TypeOK
<1>3. TypeOK'
  BY <1>1, <1>2 DEF Inv, TypeOK
<1>4. ASSUME NEW c \in Call PROVE CallInv(c)'
  BY <1>1, <1>2 DEF Inv, CallInv, FellBack
<1>5. SlotsInv' /\ StoreInv'
  BY <1>1 DEF Inv, SlotsInv, StoreInv, InUse, Held
<1> QED
  BY <1>3, <1>4, <1>5 DEF Inv

LEMMA RecordDamagedKeepsInv ==
  ASSUME Inv, NEW u \in Url, RecordDamaged(u)
  PROVE  Inv'
<1>1. /\ record' = [record EXCEPT ![u] = Damaged]
      /\ UNCHANGED <<slots, current, derivations, call, calls, window>>
  BY DEF RecordDamaged
<1>2. TypeOK'
  BY <1>1 DEF Inv, TypeOK
<1>3. StoreInv'
  BY <1>1 DEF Inv, TypeOK, StoreInv
<1>4. SlotsInv' /\ \A c \in Call : CallInv(c)'
  BY <1>1 DEF Inv, CallInv, FellBack, SlotsInv, InUse, Held
<1> QED
  BY <1>2, <1>3, <1>4 DEF Inv

LEMMA BeginKeepsInv ==
  ASSUME Inv, NEW c \in Call, NEW u \in Asked, Begin(c, u)
  PROVE  Inv'
<1> DEFINE next == [Idle EXCEPT !.at = "slot", !.asked = u, !.target = u]
<1>1. u \in Url /\ calls' \in 0..MaxCalls
  BY FetchingAssumption DEF Begin, FetchingAssumption, Inv, TypeOK
<1>2. /\ next \in CallRecord /\ next.at = "slot" /\ ~next.held
      /\ next.asked = u /\ next.target = u
  BY <1>1, IdleIsCall DEF Idle, CallRecord, Places
<1>3. /\ call' = [call EXCEPT ![c] = next]
      /\ UNCHANGED <<slots, current, record, derivations, window>>
  BY DEF Begin, Goes
<1>4. call'[c] = next
  BY <1>3 DEF Inv, TypeOK
<1>5. CallInv(c)'
  BY <1>1, <1>2, <1>4 DEF CallInv
<1>6. StoreInv'
  BY <1>3 DEF Inv, StoreInv
<1> QED
  BY <1>1, <1>2, <1>3, <1>5, <1>6, CallMoves DEF Inv, TypeOK

LEMMA TakeSlotKeepsInv ==
  ASSUME Inv, NEW c \in Call, TakeSlot(c)
  PROVE  Inv'
<1> DEFINE next == [At(c, "limiter") EXCEPT !.held = TRUE]
<1>1. /\ next \in CallRecord /\ next.at = "limiter" /\ next.held
      /\ next.asked = call[c].asked /\ next.target = call[c].target
  BY CallFields DEF At, CallRecord, Places
<1>2. /\ call' = [call EXCEPT ![c] = next] /\ call[c].at = "slot"
      /\ UNCHANGED <<slots, current, record, derivations, calls, window>>
  BY DEF TakeSlot, Goes
<1>3. call'[c] = next
  BY <1>2 DEF Inv, TypeOK
<1>4. CallInv(c)'
  BY <1>1, <1>2, <1>3 DEF Inv, CallInv
<1> QED
  BY <1>1, <1>2, <1>4, OnlyCallMoves DEF TakeSlot

LEMMA BackoffEndsKeepsInv ==
  ASSUME Inv, NEW c \in Call, BackoffEnds(c)
  PROVE  Inv'
<1> DEFINE next == [At(c, "limiter") EXCEPT !.attempt = @ + 1]
<1>1. /\ call' = [call EXCEPT ![c] = next] /\ call[c].at = "backoff"
      /\ UNCHANGED <<slots, current, record, derivations, calls, window>>
  BY DEF BackoffEnds, Goes
<1>2. call[c].attempt + 1 \in 1..MaxAttempts
  <2>1. call[c].attempt < MaxAttempts
    BY <1>1 DEF Inv, CallInv
  <2>2. call[c].attempt \in 1..MaxAttempts
    BY CallFields DEF CallRecord
  <2> QED
    BY <2>1, <2>2, Bounds
<1>3. /\ next \in CallRecord /\ next.at = "limiter" /\ next.held = call[c].held
      /\ next.asked = call[c].asked /\ next.target = call[c].target
  BY <1>2, CallFields DEF At, CallRecord, Places
<1>4. call'[c] = next
  BY <1>1 DEF Inv, TypeOK
<1>5. CallInv(c)'
  BY <1>1, <1>3, <1>4 DEF Inv, CallInv
<1> QED
  BY <1>1, <1>3, <1>5, OnlyCallMoves

LEMMA AsksKeepsInv ==
  ASSUME Inv, NEW c \in Call, Asks(c)
  PROVE  Inv'
<1> DEFINE kept == record[call[c].target]
           sent == [At(c, "asked") EXCEPT !.cached = kept]
           next == IF kept = Damaged THEN Ended(c, None) ELSE sent
<1>1. /\ call' = [call EXCEPT ![c] = next] /\ call[c].at = "limiter"
      /\ window' = [window EXCEPT ![c] = {current[call[c].target]}]
      /\ UNCHANGED <<slots, current, record, derivations, calls>>
  BY DEF Asks, Goes
<1>2. /\ call[c].target \in Url /\ call[c].asked \in Url /\ call[c].held
      /\ current[call[c].target] \in 1..MaxVersion
      /\ kept # Damaged => kept \in Document \cup {None}
  BY <1>1 DEF Inv, CallInv, TypeOK
<1>3. kept # Damaged =>
        /\ sent \in CallRecord /\ sent.at = "asked" /\ sent.held
        /\ sent.asked = call[c].asked /\ sent.target = call[c].target
  BY <1>2, CallFields DEF At, CallRecord, Places
<1>4. call'[c] = next /\ window'[c] = {current[call[c].target]}
      /\ window' \in [Call -> SUBSET (1..MaxVersion)]
      /\ \A d \in Call \ {c} : window'[d] = window[d]
  BY <1>1, <1>2 DEF Inv, TypeOK
<1>5. next \in CallRecord
  BY <1>3, EndedIsCall
<1>6. CallInv(c)'
  <2>1. CASE kept = Damaged
    BY <1>2, <1>4, <2>1, EndedIsCall DEF CallInv
  <2>2. CASE kept # Damaged
    BY <1>1, <1>2, <1>3, <1>4, <2>2 DEF CallInv
  <2> QED
    BY <2>1, <2>2
<1>7. StoreInv'
  BY <1>1 DEF Inv, StoreInv
<1> QED
  BY <1>1, <1>2, <1>4, <1>5, <1>6, <1>7, CallMoves DEF Inv, TypeOK

\* Every way a request ends without a body to keep.
LEMMA RequestEndsKeepsInv ==
  ASSUME Inv, NEW c \in Call,
         \/ NotModified(c) \/ Challenged(c) \/ Failed(c) \/ Cancelled(c)
         \/ Answered(c, FALSE)
         \/ Throttled(c) /\ ~(call[c].attempt < MaxAttempts)
  PROVE  Inv'
<1>1. /\ call[c].at # "idle"
      /\ UNCHANGED <<slots, current, record, derivations, calls, window>>
  BY DEF NotModified, Challenged, Failed, Cancelled, Answered, Throttled, Goes
<1>2. PICK body :
        /\ call' = [call EXCEPT ![c] = Ended(c, body)]
        /\ body # None => call[c].at = "asked" /\ body = Representation(c)
  BY DEF NotModified, Challenged, Failed, Cancelled, Answered, Throttled, Goes
<1>3. call[c].at = "asked" =>
        /\ Representation(c) \in Document
        /\ Representation(c).url = call[c].target
        /\ Representation(c).version \in window[c]
  BY DEF Inv, CallInv, TypeOK, Representation, Document
<1>4. /\ body \in Document \cup {None}
      /\ body # None => body.url = call[c].target /\ body.version \in window[c]
  BY <1>2, <1>3
<1> QED
  BY <1>1, <1>2, <1>4, EndsKeepsInv

\* What is waited for next: a backoff, or the store.
LEMMA RequestGoesOnKeepsInv ==
  ASSUME Inv, NEW c \in Call,
         \/ Answered(c, TRUE)
         \/ Throttled(c) /\ call[c].attempt < MaxAttempts
  PROVE  Inv'
<1>1. /\ call[c].at = "asked" /\ call[c].held
      /\ UNCHANGED <<slots, current, record, derivations, calls, window>>
  BY DEF Answered, Throttled, Goes, Inv, CallInv
<1>2. CASE Answered(c, TRUE)
  <2> DEFINE next == [At(c, "put") EXCEPT !.cached = None,
                                          !.body = Representation(c)]
  <2>1. call' = [call EXCEPT ![c] = next]
    BY <1>2 DEF Answered, Goes
  <2>2. /\ Representation(c) \in Document
        /\ Representation(c).url = call[c].target
        /\ Representation(c).version \in window[c]
    BY <1>1 DEF Inv, CallInv, TypeOK, Representation, Document
  <2>3. /\ next \in CallRecord /\ next.at = "put" /\ next.held
        /\ next.asked = call[c].asked /\ next.target = call[c].target
        /\ next.body = Representation(c)
    BY <1>1, <2>2, CallFields, ZenonT(40) DEF At, CallRecord, Places
  <2>4. call'[c] = next
    BY <2>1 DEF Inv, TypeOK
  <2>5. CallInv(c)'
    BY <1>1, <2>2, <2>3, <2>4 DEF Inv, CallInv
  <2> QED
    BY <1>1, <2>1, <2>3, <2>5, OnlyCallMoves
<1>3. CASE Throttled(c) /\ call[c].attempt < MaxAttempts
  <2> DEFINE next == [At(c, "backoff") EXCEPT !.cached = None]
  <2>1. call' = [call EXCEPT ![c] = next]
    BY <1>3 DEF Throttled, Goes
  <2>2. /\ next \in CallRecord /\ next.at = "backoff" /\ next.held
        /\ next.asked = call[c].asked /\ next.target = call[c].target
        /\ next.attempt = call[c].attempt
    BY <1>1, CallFields, ZenonT(40) DEF At, CallRecord, Places
  <2>3. call'[c] = next
    BY <2>1 DEF Inv, TypeOK
  <2>4. CallInv(c)'
    BY <1>1, <1>3, <2>2, <2>3 DEF Inv, CallInv
  <2> QED
    BY <1>1, <2>1, <2>2, <2>4, OnlyCallMoves
<1> QED
  BY <1>2, <1>3

\* The body put in the store is of the URL it is put under.
LEMMA StoredKeepsInv ==
  ASSUME Inv, NEW c \in Call, NEW written \in BOOLEAN, Stored(c, written)
  PROVE  Inv'
<1> DEFINE body == IF written THEN call[c].body ELSE None
<1>1. /\ call[c].at = "put" /\ call' = [call EXCEPT ![c] = Ended(c, body)]
      /\ record' = IF written
                   THEN [record EXCEPT ![call[c].target] = call[c].body]
                   ELSE record
      /\ UNCHANGED <<slots, current, derivations, calls, window>>
  BY DEF Stored, Goes
<1>2. /\ call[c].target \in Url /\ call[c].asked \in Url
      /\ call[c].body \in Document
      /\ call[c].body.url = call[c].target
      /\ call[c].body.version \in window[c]
  BY <1>1 DEF Inv, CallInv
<1>3. record' \in [Url -> Document \cup {None, Damaged}] /\ StoreInv'
  BY <1>1, <1>2 DEF Inv, TypeOK, StoreInv
<1>4. /\ Ended(c, body) \in CallRecord
      /\ Ended(c, body).at = "ended" /\ ~Ended(c, body).held
      /\ Ended(c, body).body = body
      /\ Ended(c, body).asked = call[c].asked
      /\ Ended(c, body).target = call[c].target
  BY <1>2, EndedIsCall
<1>5. call'[c] = Ended(c, body)
  BY <1>1 DEF Inv, TypeOK
<1>6. CallInv(c)'
  BY <1>1, <1>2, <1>4, <1>5 DEF CallInv
<1> QED
  BY <1>1, <1>3, <1>4, <1>6, CallMoves DEF Inv, TypeOK

LEMMA ForbiddenKeepsInv ==
  ASSUME Inv, NEW c \in Call, Forbidden(c)
  PROVE  Inv'
<1>1. /\ call[c].at = "asked" /\ call[c].asked \in Url
      /\ UNCHANGED <<slots, current, record, derivations, calls, window>>
  BY DEF Forbidden, Goes, Inv, CallInv
<1>2. CASE call[c].target = call[c].asked /\ ItemOf[call[c].asked] # None
  <2> DEFINE next == [Idle EXCEPT !.at = "slot", !.asked = call[c].asked,
                                  !.target = ItemOf[call[c].asked]]
  <2>1. call' = [call EXCEPT ![c] = next]
    BY <1>2 DEF Forbidden, Goes
  <2>2. ItemOf[call[c].asked] \in Url
    BY <1>1, <1>2, FetchingAssumption DEF FetchingAssumption
  <2>3. /\ next \in CallRecord /\ next.at = "slot" /\ ~next.held
        /\ next.asked \in Url /\ next.target \in Url
    BY <1>1, <2>2, IdleIsCall DEF Idle, CallRecord, Places
  <2>4. call'[c] = next
    BY <2>1 DEF Inv, TypeOK
  <2>5. CallInv(c)'
    BY <2>3, <2>4 DEF CallInv
  <2> QED
    BY <1>1, <2>1, <2>3, <2>5, OnlyCallMoves
<1>3. CASE ~(call[c].target = call[c].asked /\ ItemOf[call[c].asked] # None)
  <2>1. call' = [call EXCEPT ![c] = Ended(c, None)]
    BY <1>3 DEF Forbidden, Goes
  <2> QED
    BY <1>1, <2>1, EndsKeepsInv
<1> QED
  BY <1>2, <1>3

LEMMA ReturnedIsCall ==
  ASSUME Inv, NEW c \in Call, NEW body \in Document \cup Derivation \cup {None},
         NEW next, next = [Returned(c) EXCEPT !.body = body]
  PROVE  /\ next \in CallRecord /\ next.at = "returned" /\ ~next.held
         /\ next.asked = call[c].asked /\ next.target = call[c].target
         /\ next.body = body
BY CallFields, IdleIsCall DEF Returned, Idle, CallRecord, Places

LEMMA DerivesKeepsInv ==
  ASSUME Inv, NEW c \in Call, NEW readable \in BOOLEAN, Derives(c, readable)
  PROVE  Inv'
<1> DEFINE converted == Derived(call[c].asked, call[c].body)
           body == IF readable THEN converted ELSE None
           next == [Returned(c) EXCEPT !.body = body]
<1>1. /\ call[c].at = "ended" /\ FellBack(c)
      /\ call' = [call EXCEPT ![c] = next]
      /\ derivations' = IF readable THEN derivations \cup {converted}
                        ELSE derivations
      /\ UNCHANGED <<slots, current, record, calls, window>>
  BY DEF Derives, Goes
<1>2. converted \in Derivation
  BY DEF Derives, Goes, Inv, CallInv, Derived, Derivation
<1>3. /\ next \in CallRecord /\ next.at = "returned" /\ ~next.held
      /\ next.asked = call[c].asked /\ next.target = call[c].target
      /\ next.body = body
  <2>1. body \in Document \cup Derivation \cup {None}
    BY <1>2
  <2> HIDE DEF body
  <2> QED
    BY <2>1, ReturnedIsCall, ZenonT(40)
<1>4. call'[c] = next
  BY <1>1 DEF Inv, TypeOK
<1>5. CallInv(c)'
  BY <1>1, <1>3, <1>4 DEF Inv, CallInv, FellBack
<1>6. StoreInv'
  BY <1>1 DEF Inv, StoreInv
<1>7. derivations \subseteq derivations' /\ derivations' \subseteq Derivation
  BY <1>1, <1>2 DEF Inv, TypeOK
<1> QED
  BY <1>1, <1>3, <1>5, <1>6, <1>7, CallMoves DEF Inv, TypeOK

LEMMA PassesKeepsInv ==
  ASSUME Inv, NEW c \in Call, Passes(c)
  PROVE  Inv'
<1> DEFINE next == Returned(c)
<1>1. /\ call[c].at = "ended"
      /\ ~FellBack(c) \/ call[c].body = None
      /\ call' = [call EXCEPT ![c] = next]
      /\ UNCHANGED <<slots, current, record, derivations, calls, window>>
  BY DEF Passes, Goes
<1>2. /\ next \in CallRecord /\ next.at = "returned" /\ ~next.held
      /\ next.asked = call[c].asked /\ next.target = call[c].target
      /\ next.body = call[c].body
  BY CallFields, IdleIsCall DEF Returned, Idle, CallRecord, Places
<1>3. call'[c] = next
  BY <1>1 DEF Inv, TypeOK
<1>4. CallInv(c)'
  BY <1>1, <1>2, <1>3 DEF Passes, Goes, Inv, CallInv, FellBack
<1> QED
  BY <1>1, <1>2, <1>4, OnlyCallMoves

LEMMA UsesKeepsInv ==
  ASSUME Inv, NEW c \in Call, Uses(c)
  PROVE  Inv'
<1>1. /\ call' = [call EXCEPT ![c] = Idle]
      /\ window' = [window EXCEPT ![c] = {}]
      /\ UNCHANGED <<slots, current, record, derivations, calls>>
  BY DEF Uses, Goes
<1>2. /\ call'[c] = Idle
      /\ window' \in [Call -> SUBSET (1..MaxVersion)]
      /\ \A d \in Call \ {c} : window'[d] = window[d]
  BY <1>1 DEF Inv, TypeOK
<1>3. CallInv(c)'
  BY <1>2 DEF CallInv, Idle
<1>4. StoreInv' /\ ~Idle.held
  BY <1>1 DEF Inv, StoreInv, Idle
<1> QED
  BY <1>1, <1>2, <1>3, <1>4, IdleIsCall, CallMoves DEF Inv, TypeOK

LEMMA StepKeepsInv == Inv /\ [Next]_vars => Inv'
<1> SUFFICES ASSUME Inv, [Next]_vars PROVE Inv'
  OBVIOUS
<1>1. CASE UNCHANGED vars
  BY <1>1 DEF vars, Inv, TypeOK, CallInv, FellBack, SlotsInv, InUse, Held, StoreInv
<1>2. ASSUME NEW c \in Call, Advances(c) PROVE Inv'
  BY <1>2, TakeSlotKeepsInv, BackoffEndsKeepsInv, AsksKeepsInv,
    RequestEndsKeepsInv, RequestGoesOnKeepsInv, StoredKeepsInv,
    ForbiddenKeepsInv, DerivesKeepsInv, PassesKeepsInv, UsesKeepsInv
  DEF Advances
<1>3. ASSUME NEW c \in Call, Cancelled(c) PROVE Inv'
  BY <1>3, RequestEndsKeepsInv
<1> QED
  BY <1>1, <1>2, <1>3, DocumentChangesKeepsInv, RecordDamagedKeepsInv,
    BeginKeepsInv DEF Next, AllDone

-----------------------------------------------------------------------------
(* The theorems.                                                           *)

\* The inductive invariant: types, what a call knows at each of its places,
\* one slot for each request, and records of their own URLs.
THEOREM InvHolds == Spec => []Inv
BY InitInv, StepKeepsInv, PTL DEF Spec

\* http.go:244-259, conditional.go:91-149: whatever other calls ask for and
\* whenever documents change, a body is a version its server had while the
\* answer was awaited, also when it comes from the store.
THEOREM BodiesAreTheServers == Spec => []BodyIsTheServers
<1>1. Inv => BodyIsTheServers
  BY DEF Inv, CallInv, StoreInv, BodyIsTheServers
<1> QED
  BY InvHolds, <1>1, PTL

\* source.go:33-35: a body returned for a manifest has derivation metadata if
\* and only if the item API was asked for it.
THEOREM DerivationsAreTrue == Spec => []DerivationIsTrue
<1>1. Document \cap Derivation = {}
  BY DEF Document, Derivation
<1>2. Inv => DerivationIsTrue
  BY <1>1 DEF Inv, TypeOK, CallInv, DerivationIsTrue
<1> QED
  BY InvHolds, <1>2, PTL

\* Requests that are awaited or whose answers are being stored.
Requests == {c \in Call : call[c].at \in {"asked", "put"}}

NeverTooManyRequests == IsFiniteSet(Requests) /\ Cardinality(Requests) <= slots

\* polite.go:133-169: never are more requests under way than the semaphore has
\* slots, whatever is throttled, cancelled or falls back to the item API.
THEOREM RequestsAreBounded == Spec => []NeverTooManyRequests
<1>1. Inv => NeverTooManyRequests
  <2> SUFFICES ASSUME Inv PROVE NeverTooManyRequests
    OBVIOUS
  <2>1. Requests \subseteq Held
    BY DEF Inv, CallInv, Requests, Held
  <2>2. IsFiniteSet(Requests) /\ Cardinality(Requests) <= Cardinality(Held)
    BY <2>1, FS_Subset DEF Inv, SlotsInv
  <2>3. Cardinality(Requests) \in Nat /\ Cardinality(Held) \in Nat
        /\ Cardinality(Held) <= slots /\ slots \in Nat
    BY <2>2, FS_CardinalityType DEF Inv, SlotsInv, InUse, Held, TypeOK
  <2> QED
    BY <2>2, <2>3 DEF NeverTooManyRequests
<1> QED
  BY InvHolds, <1>1, PTL
=============================================================================
