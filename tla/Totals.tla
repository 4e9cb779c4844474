-------------------------------- MODULE Totals --------------------------------
(***************************************************************************)
(* Sums of natural-number functions over finite sets, written as the       *)
(* number of units they count so that they can be proved about: f[x] units *)
(* of x are the pairs <<x, 1>>, ..., <<x, f[x]>>.                          *)
(***************************************************************************)
EXTENDS Integers, FiniteSets

UnitsOf(f, x) == {x} \X (1..f[x])
Units(f, S) == UNION {UnitsOf(f, x) : x \in S}
Total(f, S) == Cardinality(Units(f, S))
===============================================================================
