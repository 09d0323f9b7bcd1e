----------------------------- MODULE MCPipeline -----------------------------
(* Two workers, three manifests and a source error between them.           *)
EXTENDS Pipeline

CONSTANTS u1, u2, u3, e1, w1, w2

MCURL == {u1, u2, u3}
MCSourceError == {e1}
MCWorker == {w1, w2}
=============================================================================
