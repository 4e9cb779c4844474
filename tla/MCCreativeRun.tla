----------------------------- MODULE MCCreativeRun ----------------------------
(* Small instances of CreativeRun. *)
EXTENDS CreativeRun

CONSTANTS c, w1, w2, d1
==============================================================================
