------------------------- MODULE MCMarketplaceOrders --------------------------
(* Small instances of MarketplaceOrders. *)
EXTENDS MarketplaceOrders, TLC

CONSTANTS o1, o2

OneEach == [o \in Orders |-> 1]
OneAndTwo == o1 :> 1 @@ o2 :> 2
Five == [o \in Orders |-> 5]
Symmetry == Permutations(Orders)
=============================================================================
