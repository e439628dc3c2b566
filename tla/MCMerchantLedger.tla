--------------------------- MODULE MCMerchantLedger ---------------------------
(* Instances of MerchantLedger for TLC. *)
EXTENDS MerchantLedger, TLC

CONSTANTS m1, ours, o1, o2

\* o1 is paid by bKash and has goods of the shop too, o2 is paid in cash.
BkashAndCash == (o1 :> "bkash") @@ (o2 :> "cash_on_delivery")
Goods1 == (o1 :> ((m1 :> 10) @@ (ours :> 5))) @@ (o2 :> ((m1 :> 10) @@ (ours :> 0)))
OneEach == [o \in Orders |-> 1]
=============================================================================
