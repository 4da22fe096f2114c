----------------------------- MODULE MCPayments -----------------------------
(* Values for model checking Payments: one order, whose total is the first *)
(* of the amounts a customer may transfer.                                 *)
EXTENDS Payments, TLC

CONSTANTS o1, o2, r1, r2, h1, h2

MCTotal == [o \in Orders |-> 1]

MCSymmetry == Permutations(Requests)
MCOrderSymmetry == Permutations(Orders)
=============================================================================
