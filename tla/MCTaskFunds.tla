----------------------------- MODULE MCTaskFunds -----------------------------
(***************************************************************************)
(* One payer and one key shared by a task held by an older release, a new  *)
(* task, an ordinary request and an update of the key, over two days.      *)
(***************************************************************************)
EXTENDS TaskFunds

CONSTANTS t0, t2, r1, e1, u1, k1

PayerOfAll == [x \in Tasks \cup Requests |-> u1]
KeyOfAll == [x \in Tasks \cup Requests |-> k1]
RequestFromSubscription ==
  [x \in Tasks \cup Requests |-> IF x = r1 THEN "subscription" ELSE "auto"]
HoldTwo == [t \in Tasks |-> IF t = t0 THEN 1 ELSE 2]
CostTwo == [r \in Requests |-> 2]
Wallet2 == [u \in Users |-> 2]
Limit1 == [u \in Users |-> 1]
KeyOfEvery == [e \in Updates |-> k1]
Quota3 == [k \in Keys |-> 3]
==============================================================================
