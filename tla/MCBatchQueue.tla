---------------------------- MODULE MCBatchQueue -----------------------------
(***************************************************************************)
(* Two workers and two jobs, enough for a late worker beside its successor *)
(* and for a second job behind the first one in the ready list.            *)
(***************************************************************************)
EXTENDS BatchQueue

CONSTANTS w1, w2, j1, j2
==============================================================================
