--------------------------- MODULE MCPaymentOrder ---------------------------
(***************************************************************************)
(* One request at a time, of any kind, beside the loop: two fulfilments    *)
(* overlap.  Two faults let one stop half way and its successor too.       *)
(***************************************************************************)
EXTENDS PaymentOrder

CONSTANTS call, loop
=============================================================================
