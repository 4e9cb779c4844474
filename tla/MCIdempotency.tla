---------------------------- MODULE MCIdempotency ----------------------------
(***************************************************************************)
(* One key: the first request and two late retries of it, and a request    *)
(* with another payload.  The clock runs past the retention of the first   *)
(* record and into that of its successor.                                  *)
(***************************************************************************)
EXTENDS Idempotency, TLC

CONSTANTS r1, r2, r3, r4, p, q

PrintOfAll == [r \in Requests |-> IF r = r4 THEN q ELSE p]
SameCommand == Permutations(Requests \ {r4})
==============================================================================
