----------------------------- MODULE MCFetching -----------------------------
(* The manifest of an item of the Library of Congress and its item API.    *)
EXTENDS Fetching, TLC

CONSTANTS manifest, item

MCItemOf == (manifest :> item) @@ (item :> None)
=============================================================================
