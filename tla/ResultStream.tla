--------------------------- MODULE ResultStream ----------------------------
(***************************************************************************)
(* What Pipeline.Run promises its caller (internal/pipeline/pipeline.go):  *)
(* one result for every item of the source, none twice, in an order of     *)
(* its own choice, until the caller stops it or its context is cancelled;  *)
(* after the end there is nothing more.                                    *)
(***************************************************************************)
CONSTANT Item     \* what the source yields: manifest URLs and its errors

VARIABLES
  yielded,        \* the results the caller has seen
  stopped,        \* the caller returned false, or the context is cancelled
  over            \* the caller gets no further result

streamVars == <<yielded, stopped, over>>

Init ==
  /\ yielded = {}
  /\ stopped = FALSE
  /\ over = FALSE

Deliver(i) ==
  /\ ~over
  /\ i \notin yielded
  /\ yielded' = yielded \cup {i}
  /\ UNCHANGED <<stopped, over>>

\* The caller takes this result and wants no more.
DeliverLast(i) ==
  /\ ~over
  /\ i \notin yielded
  /\ yielded' = yielded \cup {i}
  /\ stopped' = TRUE
  /\ over' = TRUE

\* The context is cancelled, which the run may be slow to notice.
Stop ==
  /\ stopped' = TRUE
  /\ UNCHANGED <<yielded, over>>

End ==
  /\ Item \subseteq yielded \/ stopped
  /\ over' = TRUE
  /\ UNCHANGED <<yielded, stopped>>

Next ==
  \/ \E i \in Item : Deliver(i) \/ DeliverLast(i)
  \/ Stop
  \/ End

Spec == Init /\ [][Next]_streamVars
=============================================================================
