----------------------------- MODULE MCSessions -----------------------------
(* Finite instances of Sessions.                                             *)
EXTENDS Sessions, TLC

Sym == Permutations(Requests) \cup Permutations(Users)
=============================================================================
