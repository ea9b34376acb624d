--------------------------- MODULE MCSchemaCache ---------------------------
(* A small instance of SchemaCache for TLC: two calls, each on its node. *)
EXTENDS SchemaCache, TLC

CONSTANTS n1, n2, r1, r2

MCNodes == {n1, n2}
MCCalls == {r1, r2}
MCAt    == (r1 :> n1) @@ (r2 :> n2)

=============================================================================
