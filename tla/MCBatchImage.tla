---------------------------- MODULE MCBatchImage -----------------------------
(***************************************************************************)
(* Small instances of BatchImage: one job of one payer, beside a task t0  *)
(* of the same payer whose hold the job may not touch.                     *)
(***************************************************************************)
EXTENDS BatchImage

CONSTANTS t0, t1, u1, k1

PayerOfAll == [x \in Tasks \cup Requests |-> u1]
KeyOfAll == [x \in Tasks \cup Requests |-> k1]
AutoMode == [x \in Tasks \cup Requests |-> "auto"]
HoldThree == [t \in Tasks |-> IF t = t0 THEN 2 ELSE 3]
ChargeTwo == [t \in Jobs |-> 2]
CostNone == [r \in Requests |-> 0]
Wallet2 == [u \in Users |-> 2]
Limit1 == [u \in Users |-> 1]
KeyOfNone == [e \in Updates |-> k1]
Quota6 == [k \in Keys |-> 6]
==============================================================================
