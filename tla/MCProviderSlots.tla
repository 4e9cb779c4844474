--------------------------- MODULE MCProviderSlots ---------------------------
(***************************************************************************)
(* An ordinary request, which may come back for a second attempt, and two  *)
(* live calls share a provider that works for one of them at a time and    *)
(* lets one wait.                                                          *)
(***************************************************************************)
EXTENDS ProviderSlots, TLC

CONSTANTS c1, v1, v2

OneChat == {c1}
TwoLives == {v1, v2}
Swap == Permutations(TwoLives)
==============================================================================
