----------------------------- MODULE MCLibrary -----------------------------
(* One bundle that is edited and one that comparisons need beside it; an   *)
(* archive with a title, an annotation listed twice and a comparison.      *)
EXTENDS Library, TLC

CONSTANTS h1, h2, codex, roll, x, y, t, n, m, p, q, u, v

MCArchiveFields ==
  (codex :> [title |-> y, tags |-> {}]) @@ (roll :> NoResearch)
MCArchiveNotes ==
  (codex :> <<[id |-> m, body |-> y], [id |-> m, body |-> x]>>) @@ (roll :> <<>>)
\* Two comparisons of one name and two of their own.
MCNameOf    == (p :> "pair") @@ (q :> "pair") @@ (u :> "books") @@ (v :> "hands")
MCDocsOf    ==
  [c \in Comparison |-> IF c = p THEN <<codex, roll>> ELSE <<roll, codex>>]
MCInitialOf ==
  [c \in Comparison |-> IF c = q THEN <<None, 1>> ELSE <<None, None>>]
MCCanvasIds == (codex :> {1}) @@ (roll :> {2})

MCSymmetry == Permutations({h1, h2})

\* Nobody touches roll: it is there for the comparisons.
OnlyCodexChanges ==
  /\ tree[roll] = Partial + 1
  /\ acked[roll] = NoResearch
  /\ noted[roll] = [i \in NoteId |-> None]
  /\ \A h \in Handler : handler[h] # None => handler[h].request.bundle = codex

\* Nothing follows a start that saw no bundle, or a write beside an import:
\* what the properties still promise then has been checked up to there.
EndsAtTotalLoss == crossed \subseteq {"overlapping refreshes", "unseen import"}
=============================================================================
