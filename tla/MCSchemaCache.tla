--------------------------- MODULE MCSchemaCache ---------------------------
(* Small instances of SchemaCache for TLC. *)
EXTENDS SchemaCache

CONSTANTS c1, c2, c3, k1
=============================================================================
