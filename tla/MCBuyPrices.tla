----------------------------- MODULE MCBuyPrices -----------------------------
(* Finite instances of BuyPrices. *)
EXTENDS BuyPrices, TLC

CONSTANTS o1, o2, o3

TwoTargets == <<o1, o2>>
ThreeTargets == <<o1, o2, o3>>

Sym == Permutations(Requests)
=============================================================================
