--------------------------- MODULE MCPluginCache ---------------------------
(* Small instances of PluginCache for TLC. *)
EXTENDS PluginCache

CONSTANTS r1, r2, r3
=============================================================================
