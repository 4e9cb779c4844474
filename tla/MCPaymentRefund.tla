--------------------------- MODULE MCPaymentRefund ---------------------------
(***************************************************************************)
(* Two administrators refund one order; a refund, its failure and a second *)
(* one fit in the bound on updates of the order.                           *)
(***************************************************************************)
EXTENDS PaymentRefund, TLC

CONSTANTS a1, a2

SameAdmins == Permutations(Admins)
==============================================================================
