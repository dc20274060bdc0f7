-------------------------- MODULE MCPaymentLifecycle --------------------------
(* Instances of PaymentLifecycle for TLC. *)
EXTENDS PaymentLifecycle, TLC

CONSTANTS honest, late, wrong, p1

MCPaymentOf == [cb \in Callback |-> p1]

MCInTime == Callback \ {late}

MCMatching == Callback \ {wrong}

MCSymmetry == Permutations(Instance)
===============================================================================
