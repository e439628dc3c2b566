------------------------------- MODULE MCOrders -------------------------------
(* Two instances of MarketplaceOrders, too large as one: the payments of one  *)
(* order, with the buyer, the seller and the reconciler, and the stock two    *)
(* orders compete for, with the expirer, the admin and the merchant.          *)
EXTENDS MCMarketplaceOrders

VARIABLE part   \* "payments" or "stock"

MCInit == part \in {"payments", "stock"} /\ Init

PaymentSteps ==
    /\ Trade
    /\ status'[o2] = "none"
    /\ \A e \in Expirers : doomed'[e] = {}
    /\ \A e \in Editors : task'[e] = Idle

\* Nobody looks at a payment here: what becomes of its session shows nowhere.
StockSteps ==
    /\ Next
    /\ \A i \in DOMAIN txs' : txs'[i].gate = "open"
    /\ Len(txs') + Cardinality(opening') <= 1
    /\ \A k \in Clients : job'[k] = Idle
    /\ \A s \in Sellers : task'[s] = Idle

MCNext ==
    /\ UNCHANGED part
    /\ part = "payments" => PaymentSteps
    /\ part = "stock" => StockSteps

MCSpec == MCInit /\ [][MCNext]_<<part, vars>>
=============================================================================
