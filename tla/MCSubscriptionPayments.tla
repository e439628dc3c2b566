------------------------ MODULE MCSubscriptionPayments ------------------------
(* Small instances of SubscriptionPayments. *)
EXTENDS SubscriptionPayments, TLC

CONSTANTS p1, p2, p3, c1

OneUse == c1 :> 1
Symmetry == Permutations(Payments)
=============================================================================
