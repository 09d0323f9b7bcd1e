------------------------- MODULE CompletionJournal --------------------------
(***************************************************************************)
(* What a completion journal promises (the Journal interface of            *)
(* internal/source/resumable.go and its durable contract): a set of        *)
(* completed URLs that survives restarts, in which a URL stands only after *)
(* MarkDone was called for it, and in which it stands for good once        *)
(* MarkDone has returned without an error.  FileJournal is the file that   *)
(* implements it; Ingest is built on it.                                   *)
(***************************************************************************)
CONSTANT URL

VARIABLES
  recorded,   \* what reopening the journal would restore
  acked,      \* history: the URLs MarkDone has written, returning nil
  done        \* the completions the open journal answers Done for

journalVars == <<recorded, acked, done>>

Init ==
  /\ recorded = {}
  /\ acked = {}
  /\ done = {}

\* OpenFileJournal.
Open ==
  /\ done' = recorded
  /\ UNCHANGED <<recorded, acked>>

\* MarkDone writes the record and returns nil.
MarkDone(u) ==
  /\ u \notin done
  /\ recorded' = recorded \cup {u}
  /\ acked' = acked \cup {u}
  /\ done' = done \cup {u}

\* MarkDone returns an error; the record may have reached the file.
MarkDoneFails(u) ==
  /\ u \notin done
  /\ recorded' \in {recorded, recorded \cup {u}}
  /\ UNCHANGED <<acked, done>>

\* The process ends, between two calls or inside MarkDone(u).
Close ==
  /\ done' = {}
  /\ UNCHANGED <<recorded, acked>>

CloseInMarkDone(u) ==
  /\ done' = {}
  /\ recorded' \in {recorded, recorded \cup {u}}
  /\ UNCHANGED acked

\* The machine stops: what was never acknowledged may be gone.
PowerLoss ==
  /\ done' = {}
  /\ recorded' \in {r \in SUBSET recorded : acked \subseteq r}
  /\ UNCHANGED acked

\* os.Remove of the file, by -fresh; no journal is open then.
Remove ==
  /\ done = {}
  /\ recorded' = {}
  /\ acked' = {}
  /\ UNCHANGED done

Next ==
  \/ Open
  \/ \E u \in URL : \/ MarkDone(u)
                    \/ MarkDoneFails(u)
                    \/ CloseInMarkDone(u)
  \/ Close
  \/ PowerLoss
  \/ Remove

Spec == Init /\ [][Next]_journalVars

-----------------------------------------------------------------------------
TypeOK ==
  /\ recorded \in SUBSET URL
  /\ acked \in SUBSET URL
  /\ done \in SUBSET URL
=============================================================================
