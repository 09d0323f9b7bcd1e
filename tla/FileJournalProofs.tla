------------------------- MODULE FileJournalProofs --------------------------
(***************************************************************************)
(* Proofs about the journal file, for every set of URLs, every way a part  *)
(* of a record may read, and files of any length.                          *)
(*                                                                         *)
(* The argument: while a process has the file open and no write stops      *)
(* short, the file ends at a newline, so a record never lands behind a     *)
(* part of another; what was acknowledged stands among the synced lines,   *)
(* and a power loss keeps these.                                           *)
(***************************************************************************)
EXTENDS FileJournal, TLAPS

NothingAnsweredWhenClosed == ~isOpen => done = {}

EndsAtNewline == ~shortWrites /\ isOpen => tail = Nothing

AcknowledgedIsSynced ==
  ~shortWrites => \A u \in acked : \E i \in 1..synced : lines[i] = u

Inv ==
  /\ TypeOK
  /\ NothingAnsweredWhenClosed
  /\ EndsAtNewline
  /\ AcknowledgedIsSynced
  /\ NoPoisonedRecord
  /\ OnlyAttemptedIsDone

-----------------------------------------------------------------------------
(* Lines that are added to a file, and those a power loss leaves.          *)

LEMMA AppendedLine ==
  ASSUME NEW s \in Seq(Line), NEW line \in Line
  PROVE  /\ Append(s, line) \in Seq(Line)
         /\ Len(Append(s, line)) = Len(s) + 1
         /\ \A i \in 1..Len(s) : Append(s, line)[i] = s[i]
         /\ Recovered(Append(s, line)) = Recovered(s) \cup {line}
<1>1. /\ Append(s, line) \in Seq(Line)
      /\ Len(Append(s, line)) = Len(s) + 1
      /\ \A i \in 1..Len(s) : Append(s, line)[i] = s[i]
      /\ Append(s, line)[Len(s) + 1] = line
  OBVIOUS
<1>2. /\ DOMAIN s = 1..Len(s)
      /\ DOMAIN Append(s, line) = 1..Len(s) \cup {Len(s) + 1}
  BY <1>1
<1> QED
  BY <1>1, <1>2 DEF Recovered

LEMMA RemainingLines ==
  ASSUME NEW s \in Seq(Line), NEW n \in 0..Len(s)
  PROVE  /\ SubSeq(s, 1, n) \in Seq(Line)
         /\ Len(SubSeq(s, 1, n)) = n
         /\ \A i \in 1..n : SubSeq(s, 1, n)[i] = s[i]
         /\ Recovered(SubSeq(s, 1, n)) = {s[i] : i \in 1..n}
         /\ Recovered(SubSeq(s, 1, n)) \subseteq Recovered(s)
<1>1. /\ SubSeq(s, 1, n) \in Seq(Line)
      /\ Len(SubSeq(s, 1, n)) = n
      /\ \A i \in 1..n : SubSeq(s, 1, n)[i] = s[i]
  OBVIOUS
<1>2. /\ DOMAIN SubSeq(s, 1, n) = 1..n
      /\ 1..n \subseteq DOMAIN s
  BY <1>1
<1> QED
  BY <1>1, <1>2 DEF Recovered

\* The line a newline ends is the record or is known to be spoilt.
LEMMA TerminatedIsLine ==
  ASSUME NEW u \in URL
  PROVE  /\ Terminated(u) \in Line
         /\ Terminated(u) \in {u, Garbage}
         /\ tail = Nothing => Terminated(u) = u
BY DEF Terminated, Line

LEMMA JoinedIsTail ==
  ASSUME JournalAssumption, NEW u \in URL, NEW p \in Torn[u] \cup {u}
  PROVE  Joined(p) \in Line
BY DEF Joined, Line, JournalAssumption

-----------------------------------------------------------------------------
(* The invariant is inductive.                                             *)

LEMMA InitInv == Init => Inv
<1> SUFFICES ASSUME Init PROVE Inv
  OBVIOUS
<1>1. shortWrites \in BOOLEAN
  BY Zenon, JournalAssumption DEF Init, JournalAssumption
<1>2. TypeOK
  <2>1. lines \in Seq(Line) /\ synced \in 0..Len(lines)
    BY DEF Init
  <2> QED
    BY <1>1, <2>1 DEF Init, TypeOK
<1> QED
  BY <1>2 DEF Init, Inv, NothingAnsweredWhenClosed, EndsAtNewline,
    AcknowledgedIsSynced, NoPoisonedRecord, OnlyAttemptedIsDone, Recovered

LEMMA OpenKeepsInv == Inv /\ Open => Inv'
<1> SUFFICES ASSUME Inv, Open PROVE Inv'
  OBVIOUS
<1>1. Recovered(lines) \subseteq Line
  BY DEF Inv, TypeOK, Recovered
<1> QED
  BY <1>1 DEF Inv, Open, TypeOK, NothingAnsweredWhenClosed, EndsAtNewline,
    AcknowledgedIsSynced, NoPoisonedRecord, OnlyAttemptedIsDone, Recovered

LEMMA MarkDoneKeepsInv ==
  ASSUME NEW u \in URL, Inv, MarkDone(u)
  PROVE  Inv'
<1> DEFINE line == Terminated(u)
<1>1. line \in Line /\ line \in {u, Garbage} /\ (tail = Nothing => line = u)
  BY TerminatedIsLine
<1>2. /\ lines' \in Seq(Line)
      /\ Len(lines') = Len(lines) + 1
      /\ \A i \in 1..Len(lines) : lines'[i] = lines[i]
      /\ lines'[Len(lines) + 1] = line
      /\ Recovered(lines') = Recovered(lines) \cup {line}
  BY <1>1, AppendedLine DEF Inv, TypeOK, MarkDone
<1>3. TypeOK'
  BY <1>2 DEF Inv, TypeOK, MarkDone, Line
<1>4. AcknowledgedIsSynced'
  BY <1>1, <1>2
  DEF Inv, TypeOK, MarkDone, AcknowledgedIsSynced, EndsAtNewline
<1>5. NoPoisonedRecord'
  BY <1>1, <1>2, JournalAssumption
  DEF Inv, MarkDone, NoPoisonedRecord, EndsAtNewline, JournalAssumption
<1>6. OnlyAttemptedIsDone'
  BY <1>1, <1>2, JournalAssumption
  DEF Inv, MarkDone, OnlyAttemptedIsDone, JournalAssumption
<1> QED
  BY <1>3, <1>4, <1>5, <1>6
  DEF Inv, MarkDone, NothingAnsweredWhenClosed, EndsAtNewline

\* A record that is written and not synced.
LEMMA UnsyncedKeeps ==
  ASSUME NEW u \in URL, Inv, Unsynced(u)
  PROVE  /\ lines' \in Seq(Line) /\ tail' = Nothing
         /\ synced' \in 0..Len(lines')
         /\ AcknowledgedIsSynced'
         /\ NoPoisonedRecord'
         /\ Recovered(lines') \cap URL \subseteq attempted'
         /\ attempted \cup {u} = attempted'
<1> DEFINE line == Terminated(u)
<1>1. line \in Line /\ line \in {u, Garbage} /\ (tail = Nothing => line = u)
  BY TerminatedIsLine
<1>2. /\ lines' \in Seq(Line)
      /\ Len(lines') = Len(lines) + 1
      /\ \A i \in 1..Len(lines) : lines'[i] = lines[i]
      /\ Recovered(lines') = Recovered(lines) \cup {line}
  BY <1>1, AppendedLine DEF Inv, TypeOK, Unsynced
<1>3. AcknowledgedIsSynced'
  BY <1>2 DEF Inv, TypeOK, Unsynced, AcknowledgedIsSynced
<1>4. NoPoisonedRecord'
  BY <1>1, <1>2, JournalAssumption
  DEF Inv, Unsynced, NoPoisonedRecord, EndsAtNewline, JournalAssumption
<1>5. Recovered(lines') \cap URL \subseteq attempted'
  BY <1>1, <1>2, JournalAssumption
  DEF Inv, Unsynced, OnlyAttemptedIsDone, JournalAssumption
<1> QED
  BY <1>2, <1>3, <1>4, <1>5 DEF Inv, TypeOK, Unsynced

\* A part of a record.
LEMMA PartialKeeps ==
  ASSUME NEW u \in URL, Inv, Partial(u)
  PROVE  /\ lines' \in Seq(Line) /\ tail' \in Line
         /\ synced' \in 0..Len(lines')
         /\ AcknowledgedIsSynced'
         /\ NoPoisonedRecord'
         /\ Recovered(lines') \cap URL \subseteq attempted'
         /\ attempted \cup {u} = attempted'
<1>1. tail' \in Line
  BY JoinedIsTail, JournalAssumption DEF Partial
<1> QED
  BY <1>1 DEF Inv, TypeOK, Partial, AcknowledgedIsSynced, NoPoisonedRecord,
    OnlyAttemptedIsDone, Recovered

LEMMA FailureKeepsInv ==
  ASSUME NEW u \in URL, Inv, SyncFails(u) \/ WriteFails(u)
  PROVE  Inv'
<1>1. CASE SyncFails(u)
  <2>1. Unsynced(u) /\ UNCHANGED <<isOpen, done>>
    BY <1>1 DEF SyncFails
  <2> QED
    BY <2>1, UnsyncedKeeps DEF Inv, TypeOK, Unsynced, NothingAnsweredWhenClosed,
      EndsAtNewline, OnlyAttemptedIsDone
<1>2. CASE WriteFails(u)
  <2>1. shortWrites /\ Partial(u) /\ UNCHANGED <<isOpen, done>>
    BY <1>2 DEF WriteFails
  <2> QED
    BY <2>1, PartialKeeps DEF Inv, TypeOK, Partial, NothingAnsweredWhenClosed,
      EndsAtNewline, OnlyAttemptedIsDone
<1> QED
  BY <1>1, <1>2

LEMMA KillKeepsInv ==
  ASSUME NEW u \in URL, Inv, KilledInMarkDone(u)
  PROVE  Inv'
<1>1. (Unsynced(u) \/ Partial(u)) /\ isOpen' = FALSE /\ done' = {}
  BY DEF KilledInMarkDone, Exit
<1> QED
  BY <1>1, UnsyncedKeeps, PartialKeeps DEF Inv, TypeOK, Unsynced, Partial,
    NothingAnsweredWhenClosed, EndsAtNewline, OnlyAttemptedIsDone

LEMMA PowerLossKeepsInv == Inv /\ PowerLoss => Inv'
<1> SUFFICES ASSUME Inv, PowerLoss PROVE Inv'
  OBVIOUS
<1>1. PICK n \in synced .. Len(lines) :
        /\ lines' = SubSeq(lines, 1, n)
        /\ synced' = n
        /\ tail' \in {Nothing} \cup (IF n = Len(lines) THEN {tail}
                                    ELSE {Garbage, lines[n + 1]})
  BY DEF PowerLoss
<1>2. n \in 0..Len(lines) /\ synced <= n
  BY DEF Inv, TypeOK
<1>3. /\ lines' \in Seq(Line)
      /\ Len(lines') = n
      /\ \A i \in 1..n : lines'[i] = lines[i]
      /\ Recovered(lines') \subseteq Recovered(lines)
  BY <1>1, <1>2, RemainingLines DEF Inv, TypeOK
<1>4. n # Len(lines) => lines[n + 1] \in Line
  BY <1>2 DEF Inv, TypeOK
<1>5. tail' \in Line \cup {Nothing}
  BY <1>1, <1>4 DEF Inv, TypeOK, Line
<1>6. TypeOK'
  <2>1. synced' \in 0..Len(lines')
    BY <1>1, <1>2, <1>3
  <2> QED
    BY <1>3, <1>5, <2>1 DEF Inv, TypeOK, PowerLoss, Exit
<1>7. AcknowledgedIsSynced'
  BY <1>1, <1>2, <1>3 DEF Inv, TypeOK, PowerLoss, AcknowledgedIsSynced
<1> QED
  BY <1>3, <1>6, <1>7 DEF Inv, PowerLoss, Exit, NothingAnsweredWhenClosed,
    EndsAtNewline, NoPoisonedRecord, OnlyAttemptedIsDone

LEMMA StepKeepsInv == Inv /\ [Next]_fileVars => Inv'
<1> SUFFICES ASSUME Inv, [Next]_fileVars PROVE Inv'
  OBVIOUS
<1>1. CASE Close
  BY <1>1 DEF Close, Exit, Inv, TypeOK, NothingAnsweredWhenClosed,
    EndsAtNewline, AcknowledgedIsSynced, NoPoisonedRecord, OnlyAttemptedIsDone
<1>2. CASE Remove
  BY <1>2 DEF Remove, Inv, TypeOK, NothingAnsweredWhenClosed, EndsAtNewline,
    AcknowledgedIsSynced, NoPoisonedRecord, OnlyAttemptedIsDone, Recovered
<1>3. CASE UNCHANGED fileVars
  BY <1>3 DEF fileVars, Inv, TypeOK, NothingAnsweredWhenClosed, EndsAtNewline,
    AcknowledgedIsSynced, NoPoisonedRecord, OnlyAttemptedIsDone
<1> QED
  BY <1>1, <1>2, <1>3, OpenKeepsInv, MarkDoneKeepsInv, FailureKeepsInv,
    KillKeepsInv, PowerLossKeepsInv DEF Next

-----------------------------------------------------------------------------
(* The theorems.                                                           *)

\* The inductive invariant: an open file ends at a newline unless a write
\* stopped short, and what was acknowledged is among the synced lines.
THEOREM InvHolds == Spec => []Inv
BY InitInv, StepKeepsInv, PTL DEF Spec

\* resumable.go:76-78: as long as no write stops short, no record is run
\* together with a part of another.
THEOREM NoRecordIsSpoilt == Spec => []NoPoisonedRecord
<1>1. Inv => NoPoisonedRecord
  BY DEF Inv
<1> QED
  BY InvHolds, <1>1, PTL

\* resumable.go:72-98: a part of a record that reads as another URL is never
\* restored as a completion, whatever a kill, a full disk or a power loss
\* leaves behind.
THEOREM OnlyAttemptsAreAnswered == Spec => []OnlyAttemptedIsDone
<1>1. Inv => OnlyAttemptedIsDone
  BY DEF Inv
<1> QED
  BY InvHolds, <1>1, PTL

-----------------------------------------------------------------------------
(* The refinement.                                                         *)

LEMMA PromiseStep ==
  Inv /\ [Next]_fileVars =>
    [shortWrites \/ Promise!Next]_<<Restored, acked, Answered>>
<1> SUFFICES ASSUME Inv, [Next]_fileVars, ~shortWrites
             PROVE  [Promise!Next]_<<Restored, acked, Answered>>
  OBVIOUS
<1> USE DEF Restored, Answered
<1>1. CASE Open
  <2>1. Answered' = Restored /\ UNCHANGED <<Restored, acked>>
    BY <1>1 DEF Open
  <2> QED
    BY <2>1 DEF Promise!Next, Promise!Open
<1>2. ASSUME NEW u \in URL, MarkDone(u) PROVE Promise!Next
  <2>1. lines' = Append(lines, u)
    BY <1>2, TerminatedIsLine DEF Inv, EndsAtNewline, MarkDone
  <2>2. Recovered(lines') = Recovered(lines) \cup {u}
    BY <2>1, AppendedLine DEF Inv, TypeOK, Line
  <2>3. Promise!MarkDone(u)
    BY <1>2, <2>2 DEF MarkDone, Promise!MarkDone
  <2> QED
    BY <2>3 DEF Promise!Next
<1>3. ASSUME NEW u \in URL, Unsynced(u)
      PROVE  Restored' = Restored \cup {u} /\ acked' = acked /\ u \notin Answered
  <2>1. lines' = Append(lines, u)
    BY <1>3, TerminatedIsLine DEF Inv, EndsAtNewline, Unsynced
  <2>2. Recovered(lines') = Recovered(lines) \cup {u}
    BY <2>1, AppendedLine DEF Inv, TypeOK, Line
  <2> QED
    BY <1>3, <2>2 DEF Unsynced
<1>4. ASSUME NEW u \in URL, SyncFails(u) PROVE Promise!Next
  <2>1. Promise!MarkDoneFails(u)
    BY <1>3, <1>4 DEF SyncFails, Promise!MarkDoneFails
  <2> QED
    BY <2>1 DEF Promise!Next
<1>5. ASSUME NEW u \in URL, WriteFails(u) PROVE Promise!Next
  BY <1>5 DEF WriteFails
<1>6. ASSUME NEW u \in URL, KilledInMarkDone(u) PROVE Promise!Next
  <2>1. Answered' = {}
    BY <1>6 DEF KilledInMarkDone, Exit
  <2>2. /\ acked' = acked
        /\ Restored' \in {Restored, Restored \cup {u}}
    BY <1>3, <1>6 DEF KilledInMarkDone, Partial
  <2>3. Promise!CloseInMarkDone(u)
    BY <2>1, <2>2 DEF Promise!CloseInMarkDone
  <2> QED
    BY <2>3 DEF Promise!Next
<1>7. CASE Close
  <2>1. Promise!Close
    BY <1>7 DEF Close, Exit, Promise!Close
  <2> QED
    BY <2>1 DEF Promise!Next
<1>8. CASE PowerLoss
  <2>1. Answered' = {} /\ acked' = acked
    BY <1>8 DEF PowerLoss, Exit
  <2>2. PICK n \in synced .. Len(lines) : lines' = SubSeq(lines, 1, n)
    BY <1>8 DEF PowerLoss
  <2>3. n \in 0..Len(lines) /\ synced <= n /\ synced \in Nat
    BY DEF Inv, TypeOK
  <2>4. /\ Recovered(lines') = {lines[i] : i \in 1..n}
        /\ Recovered(lines') \subseteq Recovered(lines)
    BY <2>2, <2>3, RemainingLines DEF Inv, TypeOK
  <2>5. acked \subseteq Recovered(lines')
    BY <2>3, <2>4 DEF Inv, AcknowledgedIsSynced
  <2>6. Promise!PowerLoss
    BY <2>1, <2>4, <2>5 DEF Inv, TypeOK, Promise!PowerLoss
  <2> QED
    BY <2>6 DEF Promise!Next
<1>9. CASE Remove
  <2>1. Promise!Remove
    BY <1>9 DEF Remove, Inv, NothingAnsweredWhenClosed, Promise!Remove, Recovered
  <2> QED
    BY <2>1 DEF Promise!Next
<1>10. CASE UNCHANGED fileVars
  BY <1>10 DEF fileVars
<1> QED
  BY <1>1, <1>2, <1>4, <1>5, <1>6, <1>7, <1>8, <1>9, <1>10 DEF Next

\* resumable.go:60-130: the file keeps the promise of a completion journal on
\* a disk that does not cut a write: each step of the file is a step of the
\* journal or changes nothing of what it answers or would restore.
THEOREM FileKeepsThePromise == Spec => ImplementsJournal
<1>1. Init => Promise!Init
  BY DEF Init, Promise!Init, Restored, Answered, Recovered
<1> QED
  BY InvHolds, <1>1, PromiseStep, PTL DEF Spec, ImplementsJournal
=============================================================================
