---------------------------- MODULE FileJournal -----------------------------
(***************************************************************************)
(* The append-only journal file (internal/source/resumable.go).            *)
(*                                                                         *)
(* The file is a sequence of newline-terminated lines and an unterminated  *)
(* tail.  MarkDone appends one URL and a newline with a single write and   *)
(* syncs; a kill or a write error can leave any part of the record behind, *)
(* and a part of one URL may read as another, shorter one.  Opening the    *)
(* file cuts the tail off and loads the lines.  A power loss keeps only    *)
(* what was synced, and possibly some of what followed.                    *)
(***************************************************************************)
EXTENDS Naturals, Sequences, FiniteSets

CONSTANTS
  URL,
  Garbage,      \* any line that is not one of the URLs
  Nothing,      \* the empty tail
  Torn,         \* Torn[u]: what a nonempty proper part of u's record reads as
  ShortWrites,  \* the values shortWrites may have
  MaxLines      \* bound on the lines of the file

Line == URL \cup {Garbage}

ASSUME JournalAssumption ==
  /\ Garbage \notin URL
  /\ Nothing \notin Line
  /\ Torn \in [URL -> SUBSET Line]
  /\ ShortWrites \subseteq BOOLEAN
  /\ MaxLines \in Nat

VARIABLES
  shortWrites, \* whether a write may stop short and report it (a full disk)
  lines,    \* the terminated lines
  tail,     \* what follows the last newline
  synced,   \* how many lines are certain to survive a power loss
  isOpen,   \* a FileJournal is open on the file
  done,     \* its done map
  acked,    \* history: the URLs MarkDone has written, returning nil
  attempted \* history: the URLs MarkDone was called for

fileVars == <<shortWrites, lines, tail, synced, isOpen, done, acked, attempted>>

Init ==
  /\ shortWrites \in ShortWrites
  /\ lines = <<>>
  /\ tail = Nothing
  /\ synced = 0
  /\ isOpen = FALSE
  /\ done = {}
  /\ acked = {}
  /\ attempted = {}

\* The lines of a file, as the done map holds them.
Recovered(s) == {s[i] : i \in DOMAIN s}

\* The line that ends when a newline is written after u.
Terminated(u) == IF tail = Nothing THEN u ELSE Garbage

\* What the tail reads as when a part p of a record lands after it.
Joined(p) == IF tail = Nothing THEN p ELSE Garbage

-----------------------------------------------------------------------------
\* Mutant of Open: the file is split at its newlines, tail included.
OpenSplitting ==
  /\ ~isOpen
  /\ isOpen' = TRUE
  /\ tail' = Nothing
  /\ done' = Recovered(lines) \cup {tail}
  /\ UNCHANGED <<shortWrites, lines, synced, acked, attempted>>

\* Mutant of Open: the tail is ignored but not cut off.
OpenKeepingTail ==
  /\ ~isOpen
  /\ isOpen' = TRUE
  /\ done' = Recovered(lines)
  /\ UNCHANGED <<shortWrites, lines, tail, synced, acked, attempted>>

\* OpenFileJournal: ignore and truncate an unterminated tail, then load.
Open ==
  /\ ~isOpen
  /\ isOpen' = TRUE
  /\ tail' = Nothing
  /\ done' = Recovered(lines)
  /\ UNCHANGED <<shortWrites, lines, synced, acked, attempted>>

\* Mutant of MarkDone: no Sync.
MarkDoneUnsynced(u) ==
  /\ isOpen
  /\ u \notin done
  /\ Len(lines) < MaxLines
  /\ lines' = Append(lines, Terminated(u))
  /\ tail' = Nothing
  /\ done' = done \cup {u}
  /\ acked' = acked \cup {u}
  /\ attempted' = attempted \cup {u}
  /\ UNCHANGED <<shortWrites, isOpen, synced>>

\* MarkDone: Fprintln, Sync, and only then the map.  (For a completion the
\* map already holds it returns at once and nothing changes.)
MarkDone(u) ==
  /\ isOpen
  /\ u \notin done
  /\ Len(lines) < MaxLines
  /\ lines' = Append(lines, Terminated(u))
  /\ tail' = Nothing
  /\ synced' = Len(lines')
  /\ done' = done \cup {u}
  /\ acked' = acked \cup {u}
  /\ attempted' = attempted \cup {u}
  /\ UNCHANGED <<shortWrites, isOpen>>

\* The whole record is written, but not synced.
Unsynced(u) ==
  /\ isOpen
  /\ u \notin done
  /\ Len(lines) < MaxLines
  /\ lines' = Append(lines, Terminated(u))
  /\ tail' = Nothing
  /\ attempted' = attempted \cup {u}
  /\ UNCHANGED <<shortWrites, synced, acked>>

\* A nonempty part of the record is written, without its newline.
Partial(u) ==
  /\ isOpen
  /\ u \notin done
  /\ \E p \in Torn[u] \cup {u} : tail' = Joined(p)
  /\ attempted' = attempted \cup {u}
  /\ UNCHANGED <<shortWrites, lines, synced, acked>>

Exit ==
  /\ isOpen' = FALSE
  /\ done' = {}

\* MarkDone returns the error of its sync, or of a write that stopped short.
SyncFails(u) == Unsynced(u) /\ UNCHANGED <<isOpen, done>>

WriteFails(u) == shortWrites /\ Partial(u) /\ UNCHANGED <<isOpen, done>>

\* The process is killed inside MarkDone, or ends between two calls.
KilledInMarkDone(u) == (Unsynced(u) \/ Partial(u)) /\ Exit

Close ==
  /\ isOpen
  /\ Exit
  /\ UNCHANGED <<shortWrites, lines, tail, synced, acked, attempted>>

\* The machine stops.  Any part of the file from the synced lines on may be
\* what is left, cut at a line or inside the line that followed; what is
\* left is on the disk.
PowerLoss ==
  /\ \E n \in synced .. Len(lines) :
       /\ lines' = SubSeq(lines, 1, n)
       /\ synced' = n
       /\ tail' \in {Nothing} \cup (IF n = Len(lines) THEN {tail}
                                   ELSE {Garbage, lines[n + 1]})
  /\ Exit
  /\ UNCHANGED <<shortWrites, acked, attempted>>

\* os.Remove, by -fresh.
Remove ==
  /\ ~isOpen
  /\ lines' = <<>>
  /\ tail' = Nothing
  /\ synced' = 0
  /\ acked' = {}
  /\ attempted' = {}
  /\ UNCHANGED <<shortWrites, isOpen, done>>

Next ==
  \/ Open
  \/ \E u \in URL : \/ MarkDone(u)
                    \/ SyncFails(u)
                    \/ WriteFails(u)
                    \/ KilledInMarkDone(u)
  \/ Close
  \/ PowerLoss
  \/ Remove

Spec == Init /\ [][Next]_fileVars

-----------------------------------------------------------------------------
TypeOK ==
  /\ shortWrites \in BOOLEAN
  /\ lines \in Seq(Line)
  /\ tail \in Line \cup {Nothing}
  /\ synced \in 0 .. Len(lines)
  /\ isOpen \in BOOLEAN
  /\ done \in SUBSET Line
  /\ acked \in SUBSET URL
  /\ attempted \in SUBSET URL

\* A record cut short is never run together with a later one (the comment
\* above the truncation in OpenFileJournal).  It needs writes that do not
\* stop short: MarkDone leaves the part it wrote, and the process goes on.
NoPoisonedRecord == ~shortWrites => Garbage \notin Recovered(lines)

\* The journal answers Done, now or after a restart, only for URLs that
\* MarkDone was called for: a torn record that reads as another URL is never
\* taken for a completion of that one (resumable.go, above the truncation).
OnlyAttemptedIsDone ==
  (done \cup Recovered(lines)) \cap URL \subseteq attempted

\* The file keeps the promise of a CompletionJournal: what reopening it
\* restores gains a URL only through a MarkDone of that URL and loses none
\* that was acknowledged, whatever a kill or a power loss leaves behind.  A
\* write that stops short breaks it: its part spoils the next record.
Restored == Recovered(lines) \cap URL
Answered == done \cap URL

Promise ==
  INSTANCE CompletionJournal WITH recorded <- Restored, done <- Answered

ImplementsJournal ==
  /\ Promise!Init
  /\ [][shortWrites \/ Promise!Next]_<<Restored, acked, Answered>>
=============================================================================
