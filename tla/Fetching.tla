------------------------------ MODULE Fetching ------------------------------
(***************************************************************************)
(* The fetchers every command shares (internal/source): LOCManifestFetcher *)
(* around PoliteFetcher around HTTPFetcher with its conditional store, and *)
(* the servers they ask.                                                   *)
(*                                                                         *)
(* Calls run side by side.  A step is a wait that ends, an access to the   *)
(* store, or an answer; the server may change its documents between any    *)
(* two.  A validator identifies the version of a document.  Time is left   *)
(* out: a limiter grants at some time, by a schedule left out here, and a  *)
(* backoff ends.  URL policy, user agents and size limits end a call as a  *)
(* failed transport does.                                                  *)
(***************************************************************************)
EXTENDS Naturals, FiniteSets

CONSTANTS
  Call,         \* goroutines that fetch
  Url,          \* what may be asked for
  Asked,        \* what callers ask for; the rest only as a fallback
  ItemOf,       \* the item API URL beside a manifest, None if there is none
  Slots,        \* what WithMaxConcurrent may set
  MaxAttempts,  \* maxAttempts
  MaxVersion,   \* bounds the versions of a document
  MaxCalls,     \* bounds the calls
  None

Document == [url : Url, version : 1..MaxVersion]

ASSUME FetchingAssumption ==
  /\ Asked \subseteq Url
  /\ ItemOf \in [Url -> Url \cup {None}]
  /\ Slots \cup {MaxAttempts, MaxVersion} \subseteq Nat \ {0}
  /\ MaxCalls \in Nat

VARIABLES
  slots,        \* the capacity of the semaphore
  current,      \* the version each server has of a document
  record,       \* the store: the document kept for a URL, None or Damaged
  derivations,  \* the manifests known to be derived
  call,         \* where each call stands
  calls,        \* how many have begun
  window        \* history: the versions current while an answer was awaited

vars == <<slots, current, record, derivations, call, calls, window>>

Challenge == [url |-> None, version |-> 0]  \* an HTML page with status 200
Damaged   == [url |-> None, version |-> 1]  \* a record that does not decode

Derived(asked, document) == [manifest |-> asked, item |-> document]

Idle ==
  [at |-> "idle", asked |-> None, target |-> None, attempt |-> 1,
   held |-> FALSE, cached |-> None, body |-> None]

Init ==
  /\ slots \in Slots
  /\ current = [u \in Url |-> 1]
  /\ record = [u \in Url |-> None]
  /\ derivations = {}
  /\ call = [c \in Call |-> Idle]
  /\ calls = 0
  /\ window = [c \in Call |-> {}]

\* A call goes on with new values of some of its fields.
Goes(c, from, next) ==
  /\ call[c].at = from
  /\ call' = [call EXCEPT ![c] = next]

At(c, to) == [call[c] EXCEPT !.at = to]

Representation(c) == [url |-> call[c].target, version |-> current[call[c].target]]

-----------------------------------------------------------------------------
(* The servers, and a loss of power that leaves a renamed record empty.    *)

DocumentChanges(u) ==
  /\ current[u] < MaxVersion
  /\ current' = [current EXCEPT ![u] = @ + 1]
  /\ window' = [c \in Call |->
       IF call[c].at = "asked" /\ call[c].target = u
       THEN window[c] \cup {current'[u]} ELSE window[c]]
  /\ UNCHANGED <<slots, record, derivations, call, calls>>

RecordDamaged(u) ==
  /\ \A c \in Call : call[c] = Idle
  /\ record[u] \notin {None, Damaged}
  /\ record' = [record EXCEPT ![u] = Damaged]
  /\ UNCHANGED <<slots, current, derivations, call, calls, window>>

-----------------------------------------------------------------------------
(* LOCManifestFetcher, outside, and PoliteFetcher.                         *)

Begin(c, u) ==
  /\ calls < MaxCalls
  /\ Goes(c, "idle", [Idle EXCEPT !.at = "slot", !.asked = u, !.target = u])
  /\ calls' = calls + 1
  /\ UNCHANGED <<slots, current, record, derivations, window>>

InUse == Cardinality({c \in Call : call[c].held})

TakeSlot(c) ==
  /\ InUse < slots
  /\ Goes(c, "slot", [At(c, "limiter") EXCEPT !.held = TRUE])
  /\ UNCHANGED <<slots, current, record, derivations, calls, window>>

\* Mutant of BackoffEnds: a retry takes a slot of its own.
BackoffEndsQueueing(c) ==
  /\ Goes(c, "backoff", [At(c, "slot") EXCEPT !.attempt = @ + 1])
  /\ UNCHANGED <<slots, current, record, derivations, calls, window>>

\* The backoff keeps the slot and asks the limiter again.
BackoffEnds(c) ==
  /\ Goes(c, "backoff", [At(c, "limiter") EXCEPT !.attempt = @ + 1])
  /\ UNCHANGED <<slots, current, record, derivations, calls, window>>

\* The inner Fetch returns, with None for an error.
Ended(c, body) ==
  [At(c, "ended") EXCEPT !.held = FALSE, !.cached = None, !.body = body]

\* 429 and 503 are retried, on the same slot.
Throttled(c) ==
  /\ Goes(c, "asked",
          IF call[c].attempt < MaxAttempts
          THEN [At(c, "backoff") EXCEPT !.cached = None]
          ELSE Ended(c, None))
  /\ UNCHANGED <<slots, current, record, derivations, calls, window>>

\* A cancelled context ends every wait.
Cancelled(c) ==
  /\ call[c].at \in {"slot", "limiter", "asked", "backoff"}
  /\ call' = [call EXCEPT ![c] = Ended(c, None)]
  /\ UNCHANGED <<slots, current, record, derivations, calls, window>>

-----------------------------------------------------------------------------
(* HTTPFetcher.                                                            *)

\* The limiter grants, and the store is read: a record that does not decode
\* fails the fetch.
Asks(c) ==
  LET kept == record[call[c].target] IN
  /\ Goes(c, "limiter",
          IF kept = Damaged THEN Ended(c, None)
          ELSE [At(c, "asked") EXCEPT !.cached = kept])
  /\ window' = [window EXCEPT ![c] = {current[call[c].target]}]
  /\ UNCHANGED <<slots, current, record, derivations, calls>>

\* 304: the validator sent is that of the current version.
NotModified(c) ==
  /\ Goes(c, "asked", Ended(c, call[c].cached))
  /\ call[c].cached = Representation(c)
  /\ UNCHANGED <<slots, current, record, derivations, calls, window>>

\* 200, with a validator or without one: only the former is stored.
Answered(c, validated) ==
  /\ Goes(c, "asked",
          IF validated
          THEN [At(c, "put") EXCEPT !.cached = None, !.body = Representation(c)]
          ELSE Ended(c, Representation(c)))
  /\ UNCHANGED <<slots, current, record, derivations, calls, window>>

\* Mutant of Challenged: the page is stored before it is looked at.
ChallengedLate(c) ==
  /\ Goes(c, "asked", Ended(c, None))
  /\ record' = [record EXCEPT ![call[c].target] = Challenge]
  /\ UNCHANGED <<slots, current, derivations, calls, window>>

\* 200 with an HTML page.
Challenged(c) ==
  /\ Goes(c, "asked", Ended(c, None))
  /\ UNCHANGED <<slots, current, record, derivations, calls, window>>

\* 404, another status, or a transport that fails: not retried.
Failed(c) ==
  /\ Goes(c, "asked", Ended(c, None))
  /\ UNCHANGED <<slots, current, record, derivations, calls, window>>

\* A body that cannot be stored is not returned.
Stored(c, written) ==
  /\ Goes(c, "put", Ended(c, IF written THEN call[c].body ELSE None))
  /\ record' = IF written
               THEN [record EXCEPT ![call[c].target] = call[c].body]
               ELSE record
  /\ UNCHANGED <<slots, current, derivations, calls, window>>

-----------------------------------------------------------------------------
(* LOCManifestFetcher, inside.                                             *)

\* 403 on the manifest of an item: the item API is asked instead.
Forbidden(c) ==
  /\ Goes(c, "asked",
          IF call[c].target = call[c].asked /\ ItemOf[call[c].asked] # None
          THEN [Idle EXCEPT !.at = "slot", !.asked = call[c].asked,
                            !.target = ItemOf[call[c].asked]]
          ELSE Ended(c, None))
  /\ UNCHANGED <<slots, current, record, derivations, calls, window>>

FellBack(c) == call[c].target # call[c].asked

Returned(c) == [Idle EXCEPT !.at = "returned", !.asked = call[c].asked,
                            !.target = call[c].target, !.body = call[c].body]

\* Mutant of Derives: the derivation is kept for the URL alone.
DerivesForUrl(c, readable) ==
  LET converted == Derived(call[c].asked, call[c].body) IN
  /\ FellBack(c) /\ call[c].body # None
  /\ Goes(c, "ended", IF readable THEN [Returned(c) EXCEPT !.body = converted]
                                  ELSE [Returned(c) EXCEPT !.body = None])
  /\ derivations' = IF readable
       THEN derivations \cup {converted}
              \cup [url : {call[c].asked}, version : 1..MaxVersion]
       ELSE derivations
  /\ UNCHANGED <<slots, current, record, calls, window>>

\* An item that cannot be read as pages fails the fallback.
Derives(c, readable) ==
  LET converted == Derived(call[c].asked, call[c].body) IN
  /\ FellBack(c) /\ call[c].body # None
  /\ Goes(c, "ended", [Returned(c) EXCEPT
                         !.body = IF readable THEN converted ELSE None])
  /\ derivations' = IF readable THEN derivations \cup {converted}
                                ELSE derivations
  /\ UNCHANGED <<slots, current, record, calls, window>>

Passes(c) ==
  /\ ~FellBack(c) \/ call[c].body = None
  /\ Goes(c, "ended", Returned(c))
  /\ UNCHANGED <<slots, current, record, derivations, calls, window>>

Uses(c) ==
  /\ Goes(c, "returned", Idle)
  /\ window' = [window EXCEPT ![c] = {}]
  /\ UNCHANGED <<slots, current, record, derivations, calls>>

-----------------------------------------------------------------------------

Advances(c) ==
  \/ TakeSlot(c) \/ BackoffEnds(c) \/ Asks(c)
  \/ NotModified(c) \/ Throttled(c) \/ Challenged(c) \/ Failed(c)
  \/ Forbidden(c)
  \/ \E validated \in BOOLEAN : Answered(c, validated)
  \/ \E written \in BOOLEAN : Stored(c, written)
  \/ \E readable \in BOOLEAN : Derives(c, readable)
  \/ Passes(c) \/ Uses(c)

AllDone == calls = MaxCalls /\ (\A c \in Call : call[c] = Idle) /\ UNCHANGED vars

Next ==
  \/ \E u \in Url : DocumentChanges(u) \/ RecordDamaged(u)
  \/ \E c \in Call : Advances(c) \/ Cancelled(c) \/ \E u \in Asked : Begin(c, u)
  \/ AllDone

Spec == Init /\ [][Next]_vars

\* The client's timeout ends a request, the limiter and the backoff a wait.
FairSpec == Spec /\ \A c \in Call : WF_vars(Advances(c))

-----------------------------------------------------------------------------
(* Properties.                                                             *)

\* http.go:244-259, conditional.go:91-149: a fetch returns a version the
\* server had while the answer was awaited, also from the store and beside
\* other fetches of the URL; no challenge page is returned or stored.
BodyIsTheServers ==
  /\ \A c \in Call :
       LET body == call[c].body IN
       call[c].at \in {"put", "ended"} /\ body # None =>
         body.url = call[c].target /\ body.version \in window[c]
  /\ \A u \in Url : record[u] \notin {None, Damaged} => record[u].url = u

\* source.go:33-35: what is returned for a manifest has derivation metadata
\* if it was derived from the item API, and only then.
DerivationIsTrue ==
  \A c \in Call :
    call[c].at = "returned" /\ call[c].body # None =>
      (call[c].body \in derivations <=> FellBack(c))

\* polite.go:133-169: every fetch ends, whatever fails or is retried, also
\* when there are fewer slots than callers.
EveryFetchEnds == \A c \in Call : call[c].at = "slot" ~> call[c].at = "idle"
=============================================================================
