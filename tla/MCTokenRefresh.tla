--------------------------- MODULE MCTokenRefresh ---------------------------
(* A worker in one process, a request and an administrator in another. *)
EXTENDS TokenRefresh

CONSTANTS p1, p2, b1, q1, m1

HomeOf == [r \in Refreshers |-> IF r = b1 THEN p1 ELSE p2]
==============================================================================
