------------------------------ MODULE MCDoctor ------------------------------
(* Two annotation pages that refer to each other, and two datasets.        *)
EXTENDS Doctor, TLC

CONSTANTS first, next, dataset, extra

Ref(u, k) == [url |-> u, kind |-> k]

MCEditions ==
  {{Ref(first, "annotation")},
   {Ref(first, "seeAlso"), Ref(first, "annotation"), Ref(dataset, "seeAlso"),
    Ref(extra, "seeAlso")},
   {Ref(next, "annotation")}}

MCServed ==
  first :> {[form |-> "graph", refs |-> {Ref(next, "annotation")}],
            [form |-> "other", refs |-> {}]}
  @@ next :> {[form |-> "graph",
               refs |-> {Ref(first, "annotation"), Ref(dataset, "content")}]}
  @@ extra :> {[form |-> "other", refs |-> {}]}
  @@ dataset :> {[form |-> "other", refs |-> {}], [form |-> "json", refs |-> {}]}
=============================================================================
