------------------------------ MODULE HoldLedger ------------------------------
(***************************************************************************)
(* What billing promises the owners of tasks, in terms of a payer's money  *)
(* and of the holds on it: a hold is placed at most once and only on money *)
(* that is there and not held; closing a task keeps at most what its own   *)
(* hold covers and frees all the rest of it, once, whatever happens to the *)
(* holds of other tasks.  TaskFunds implements this.                       *)
(***************************************************************************)
EXTENDS Totals

CONSTANTS Users, Tasks, PayerOf, Amounts, InitMoney, InitHeld

VARIABLES
  money,   \* what each payer owns, held or not
  held,    \* the money held for each task
  placed,  \* tasks that placed their hold
  closed   \* tasks that were settled or refunded

ledgerVars == <<money, held, placed, closed>>

HeldOf(u) == Total(held, {t \in Tasks : PayerOf[t] = u})

Init ==
  /\ money = InitMoney
  /\ held = InitHeld
  /\ placed = {t \in Tasks : InitHeld[t] > 0}
  /\ closed = {}

Place(t, n) ==
  LET u == PayerOf[t]
  IN  /\ t \notin placed \cup closed
      /\ n > 0 => money[u] - HeldOf(u) >= n
      /\ held' = [held EXCEPT ![t] = n]
      /\ placed' = placed \cup {t}
      /\ UNCHANGED <<money, closed>>

Close(t, kept) ==
  /\ t \notin closed
  /\ kept <= held[t]
  /\ money' = [money EXCEPT ![PayerOf[t]] = @ - kept]
  /\ held' = [held EXCEPT ![t] = 0]
  /\ closed' = closed \cup {t}
  /\ UNCHANGED placed

\* Requests are paid when they are done, from money that may not be there.
Spend(u, n) ==
  /\ money' = [money EXCEPT ![u] = @ - n]
  /\ UNCHANGED <<held, placed, closed>>

Next ==
  \/ \E t \in Tasks : \E n \in Amounts : Place(t, n) \/ Close(t, n)
  \/ \E u \in Users : \E n \in Amounts : Spend(u, n)

Spec == Init /\ [][Next]_ledgerVars
===============================================================================
