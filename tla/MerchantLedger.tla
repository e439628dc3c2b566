---------------------------- MODULE MerchantLedger ----------------------------
(***************************************************************************)
(* What the shop owes its merchants: the accounts of the ledger            *)
(* (billing_service.go) under payments, deliveries, cash orders and        *)
(* refunds of orders, the commission agreed at checkout                    *)
(* (commission_service.go, Checkout in order_handler.go), the payouts of a *)
(* merchant's balance, and the merchants table with its edits              *)
(* (merchant_handler.go, merchant_repository.go).                          *)
(*                                                                         *)
(* MarketplaceOrders has the life of an order in detail; here it is only   *)
(* what moves money.  A balance is credit - debit, for every account.      *)
(***************************************************************************)
EXTENDS Integers, Sequences, FiniteSets, Sums

CONSTANTS
    Merchants,   \* businesses that students may register
    Platform,    \* the merchant of the shop's own products
    Orders,      \* orders that may be placed
    Method,      \* payment_method of each
    Gross,       \* what each order has of each seller's goods
    Charge,      \* delivery charge of each
    Rates,       \* commission rates in percent, none of them checked for its range
    Amounts,     \* amounts a merchant asks for
    MinPayout,   \* MinPayout of BillingService
    Requesters,  \* request goroutines at RequestPayout
    Editors,     \* request goroutines at UpdateMyMerchant or UpdateMerchant
    MaxPayouts   \* bound: merchant_payouts rows

Sellers == Merchants \cup {Platform}

\* Accounts that are not a merchant's.
Shop == {"gateway", "cash_out", "escrow", "pending", "commission", "platform"}

ASSUME OrdersAreFinite == IsFiniteSet(Orders) /\ IsFiniteSet(Merchants)
ASSUME PlatformIsApart == Platform \notin Merchants /\ Merchants \cap Shop = {}
ASSUME MethodsAreKnown == Method \in [Orders -> {"bkash", "cash_on_delivery"}]
ASSUME GoodsArePriced == Gross \in [Orders -> [Sellers -> Nat]] /\ Charge \in [Orders -> Nat]
ASSUME RatesAreNumbers == Rates \subseteq Int
ASSUME AmountsAreNumbers == Amounts \subseteq Int /\ MinPayout \in Nat /\ MaxPayouts \in Nat

VARIABLES
    seller,      \* merchants rows
    promo,       \* the commission_policies row
    draft,       \* the merchants row an edit has loaded
    order,       \* orders: status, whether money came, the rates snapshotted
    posted,      \* journals whose source is the order
    balance,     \* credit - debit of every account
    payouts,     \* merchant_payouts, in order of created_at
    request      \* payout requests that hold the lock of their merchant

merchantVars == <<seller, promo, draft>>
ledgerVars   == <<posted, balance>>
vars == <<merchantVars, order, ledgerVars, payouts, request>>

Statuses == {"none", "pending", "approved", "rejected"}
Row == [status : Statuses, rate : Rates \cup {0}, account : BOOLEAN, deleted : BOOLEAN]
Kinds == {"order_payment", "order_release", "refund:order_payment", "refund:order_release"}
Accounts == Merchants \cup Shop
Idle == [step |-> "idle"]

TypeOK ==
    /\ seller \in [Merchants -> Row]
    /\ promo \in [active : BOOLEAN, rate : Rates \cup {0}]
    /\ draft \in [Editors -> [step : {"loaded"}, of : Merchants, row : Row] \cup {Idle}]
    /\ order \in [Orders -> [status : {"none", "placed", "paid", "delivered", "cancelled"},
                             money : BOOLEAN, refunded : BOOLEAN,
                             rates : [Merchants -> Rates \cup {0}]]]
    /\ posted \in [Orders -> SUBSET Kinds]
    /\ balance \in [Accounts -> Int]
    /\ payouts \in Seq([of : Merchants, amount : Amounts \cap (Nat \ {0}),
                        status : {"requested", "paid", "rejected"}])
    /\ request \in [Requesters -> [step : {"checked"}, of : Merchants, amount : Amounts] \cup {Idle}]

Init ==
    /\ seller = [m \in Merchants |-> [status |-> "none", rate |-> 0, account |-> FALSE, deleted |-> FALSE]]
    /\ promo = [active |-> FALSE, rate |-> 0]
    /\ draft = [e \in Editors |-> Idle]
    /\ order = [o \in Orders |-> [status |-> "none", money |-> FALSE, refunded |-> FALSE,
                                  rates |-> [m \in Merchants |-> 0]]]
    /\ posted = [o \in Orders |-> {}]
    /\ balance = [a \in Accounts |-> 0]
    /\ payouts = <<>>
    /\ request = [q \in Requesters |-> Idle]

-----------------------------------------------------------------------------
(* Merchants *)

Exists(m) == seller[m].status # "none" /\ ~seller[m].deleted

\* Mutant: nobody waits for the lock of a merchant.
NeverLocked(m) == FALSE

\* A payout request holds the row lock of m.
Locked(m) == \E q \in Requesters : request[q] # Idle /\ request[q].of = m

ApplyForMerchant(m) ==
    /\ seller[m].status = "none"
    /\ \E a \in BOOLEAN :
        seller' = [seller EXCEPT ![m] = [@ EXCEPT !.status = "pending", !.account = a]]
    /\ UNCHANGED <<promo, draft, order, ledgerVars, payouts, request>>

\* SetMerchantStatus, from ApproveMerchant and RejectMerchant.
SetMerchantStatus(m, s) ==
    /\ Exists(m) /\ ~Locked(m)
    /\ seller' = [seller EXCEPT ![m].status = s]
    /\ UNCHANGED <<promo, draft, order, ledgerVars, payouts, request>>

DeleteMerchant(m) ==
    /\ Exists(m) /\ ~Locked(m)
    /\ seller' = [seller EXCEPT ![m].deleted = TRUE]
    /\ UNCHANGED <<promo, draft, order, ledgerVars, payouts, request>>

\* UpdateMyMerchant and UpdateMerchant load the row ...
LoadMerchant(e, m) ==
    /\ draft[e] = Idle /\ Exists(m)
    /\ draft' = [draft EXCEPT ![e] = [step |-> "loaded", of |-> m, row |-> seller[m]]]
    /\ UNCHANGED <<seller, promo, order, ledgerVars, payouts, request>>

\* ... and Save every column of it, the status too; a row deleted meanwhile is
\* inserted again over the deleted one.  The owner changes the payout account,
\* the admin the rate.
SaveMerchant(e) ==
    /\ draft[e] # Idle /\ ~Locked(draft[e].of)
    /\ \E a \in BOOLEAN, r \in Rates \cup {draft[e].row.rate} :
        seller' = [seller EXCEPT ![draft[e].of] = [draft[e].row EXCEPT !.account = a, !.rate = r]]
    /\ draft' = [draft EXCEPT ![e] = Idle]
    /\ UNCHANGED <<promo, order, ledgerVars, payouts, request>>

SetPolicy(r) ==
    /\ r \in 0..100
    /\ \E on \in BOOLEAN : promo' = [active |-> on, rate |-> r]
    /\ UNCHANGED <<seller, draft, order, ledgerVars, payouts, request>>

-----------------------------------------------------------------------------
(* Commission *)

\* The rates EffectiveRate may return: the promotional one is for a new seller,
\* and the clock says who is new.
EffectiveRates(m) ==
    {seller[m].rate} \cup
        IF seller[m].status = "approved" /\ promo.active /\ promo.rate < seller[m].rate
        THEN {promo.rate} ELSE {}

\* The rate Checkout takes for the goods of m, 0 when the merchant is not found.
RatesAtCheckout(m) == IF Exists(m) THEN EffectiveRates(m) ELSE {0}

Rounded(n) == IF n >= 0 THEN (2 * n + 100) \div 200 ELSE -((100 - 2 * n) \div 200)

CommissionFor(gross, rate) ==
    LET c == Rounded(gross * rate) IN IF c < 0 THEN 0 ELSE IF c > gross THEN gross ELSE c

Goods(o) == Sum(Gross[o], Sellers)
Total(o) == Goods(o) + Charge[o]
Commission(o, m) == CommissionFor(Gross[o][m], order[o].rates[m])
Commissions(o) == Sum([m \in Merchants |-> Commission(o, m)], Merchants)

-----------------------------------------------------------------------------
(* Journals: lines as credit - debit, by account *)

Lines(f) == [a \in Accounts |-> IF a \in DOMAIN f THEN f[a] ELSE 0]
Plus(f, g) == [a \in Accounts |-> f[a] + g[a]]
Minus(f) == [a \in Accounts |-> -f[a]]

PaymentLines(o) == Lines([gateway |-> -Total(o), escrow |-> Total(o)])

\* What OnOrderDelivered books; of a cash order only the commission.
ReleaseLines(o) ==
    LET bkash == Method[o] = "bkash"
    IN  [a \in Accounts |->
            CASE a \in Merchants -> (IF bkash THEN Gross[o][a] ELSE 0) - Commission(o, a)
              [] a = "commission" -> Commissions(o)
              [] a = "platform" -> IF bkash THEN Gross[o][Platform] ELSE 0
              [] a = "escrow" -> IF bkash THEN -Goods(o) ELSE 0
              [] OTHER -> 0]

\* postJournal, idempotent on kind and source.
Posting(o, kind, lines) == IF kind \in posted[o] THEN Lines(<<>>) ELSE lines

-----------------------------------------------------------------------------
(* Orders, as far as they move money *)

Checkout(o) ==
    /\ order[o].status = "none"
    /\ \E rs \in [Merchants -> Rates \cup {0}] :
        /\ \A m \in Merchants : rs[m] \in IF Gross[o][m] > 0 THEN RatesAtCheckout(m) ELSE {0}
        /\ order' = [order EXCEPT ![o].status = "placed", ![o].rates = rs]
    /\ UNCHANGED <<merchantVars, ledgerVars, payouts, request>>

\* fulfil with recordOrderPayment; the money of an order that moved on is
\* flagged for review and nothing is booked.
TakeMoney(o) ==
    /\ Method[o] = "bkash" /\ order[o].status # "none" /\ ~order[o].money
    /\ IF order[o].status = "placed"
       THEN /\ order' = [order EXCEPT ![o].status = "paid", ![o].money = TRUE]
            /\ posted' = [posted EXCEPT ![o] = @ \cup {"order_payment"}]
            /\ balance' = Plus(balance, Posting(o, "order_payment", PaymentLines(o)))
       ELSE /\ order' = [order EXCEPT ![o].money = TRUE]
            /\ UNCHANGED ledgerVars
    /\ UNCHANGED <<merchantVars, payouts, request>>

\* An order is delivered, one that is not paid by an admin's hand.
Deliver(o) ==
    /\ order[o].status \in {"placed", "paid"}
    /\ order' = [order EXCEPT ![o].status = "delivered"]
    /\ UNCHANGED <<merchantVars, ledgerVars, payouts, request>>

Cancel(o) ==
    /\ order[o].status \in {"placed", "paid"}
    /\ order' = [order EXCEPT ![o].status = "cancelled"]
    /\ UNCHANGED <<merchantVars, ledgerVars, payouts, request>>

\* Mutant: escrow is taken to hold the money.
NoBackfill(o) == {"order_release"}

\* What OnOrderDelivered posts: the payment too, if it was never booked.
ReleaseKinds(o) ==
    {"order_release"} \cup IF Method[o] = "bkash" THEN {"order_payment"} ELSE {}

OnOrderDelivered(o) ==
    /\ order[o].status = "delivered"
    /\ "order_release" \notin posted[o]
    /\ posted' = [posted EXCEPT ![o] = @ \cup ReleaseKinds(o)]
    /\ balance' = Plus(balance, Plus(ReleaseLines(o),
                      IF "order_payment" \in ReleaseKinds(o)
                      THEN Posting(o, "order_payment", PaymentLines(o)) ELSE Lines(<<>>)))
    /\ UNCHANGED <<merchantVars, order, payouts, request>>

\* Mutant: the release is not reversed.
KeepRelease == {"order_payment"}

\* The kinds RefundOrder reverses.
Reversible == {"order_release", "order_payment"}

Reversal(o) ==
    LET back(k, lines) == IF k \in posted[o] \cap Reversible THEN Minus(lines) ELSE Lines(<<>>)
    IN  Plus(back("order_release", ReleaseLines(o)), back("order_payment", PaymentLines(o)))

RefundOrder(o) ==
    /\ Method[o] = "bkash" /\ order[o].money /\ ~order[o].refunded
    /\ order' = [order EXCEPT ![o].status = "cancelled", ![o].refunded = TRUE]
    /\ posted' = [posted EXCEPT ![o] = @ \cup
                     {IF k = "order_release" THEN "refund:order_release" ELSE "refund:order_payment"
                         : k \in @ \cap Reversible}]
    /\ balance' = Plus(balance, Reversal(o))
    /\ UNCHANGED <<merchantVars, payouts, request>>

-----------------------------------------------------------------------------
(* Payouts *)

\* Mutant: only the balance is asked for.
AnyAmount(m, x) == x <= balance[m]

Payable(m, x) == x > 0 /\ x >= MinPayout /\ x <= balance[m]

\* RequestPayout takes the lock of the merchant and reads the balance ...
StartRequest(q, m, x) ==
    /\ request[q] = Idle /\ ~Locked(m)
    /\ Exists(m) /\ seller[m].status = "approved" /\ seller[m].account
    /\ Payable(m, x)
    /\ request' = [request EXCEPT ![q] = [step |-> "checked", of |-> m, amount |-> x]]
    /\ UNCHANGED <<merchantVars, order, ledgerVars, payouts>>

\* ... and then moves the amount to the pending payouts.
FinishRequest(q) ==
    /\ request[q] # Idle /\ Len(payouts) < MaxPayouts
    /\ LET m == request[q].of
           x == request[q].amount
       IN  /\ payouts' = Append(payouts, [of |-> m, amount |-> x, status |-> "requested"])
           /\ balance' = Plus(balance, [Lines([pending |-> x]) EXCEPT ![m] = -x])
    /\ request' = [request EXCEPT ![q] = Idle]
    /\ UNCHANGED <<merchantVars, order, posted>>

\* The transaction fails and lets the lock go.
DropRequest(q) ==
    /\ request[q] # Idle
    /\ request' = [request EXCEPT ![q] = Idle]
    /\ UNCHANGED <<merchantVars, order, ledgerVars, payouts>>

Open(i) == payouts[i].status = "requested"

\* settlePayout, from MarkPayoutPaid and RejectPayout.
SettlePayout(i, to) ==
    /\ Open(i)
    /\ payouts' = [payouts EXCEPT ![i].status = to]
    /\ LET x == payouts[i].amount
       IN  balance' = Plus(balance,
               IF to = "paid" THEN Lines([pending |-> -x, cash_out |-> x])
               ELSE [Lines([pending |-> -x]) EXCEPT ![payouts[i].of] = x])
    /\ UNCHANGED <<merchantVars, order, posted, request>>

-----------------------------------------------------------------------------
Next ==
    \/ \E m \in Merchants :
        \/ ApplyForMerchant(m) \/ DeleteMerchant(m)
        \/ \E s \in {"approved", "rejected"} : SetMerchantStatus(m, s)
        \/ \E e \in Editors : LoadMerchant(e, m)
        \/ \E q \in Requesters, x \in Amounts : StartRequest(q, m, x)
    \/ \E e \in Editors : SaveMerchant(e)
    \/ \E r \in Rates : SetPolicy(r)
    \/ \E o \in Orders :
        \/ Checkout(o) \/ TakeMoney(o) \/ Deliver(o) \/ Cancel(o)
        \/ OnOrderDelivered(o) \/ RefundOrder(o)
    \/ \E q \in Requesters : FinishRequest(q) \/ DropRequest(q)
    \/ \E i \in DOMAIN payouts, to \in {"paid", "rejected"} : SettlePayout(i, to)

Spec == Init /\ [][Next]_vars

-----------------------------------------------------------------------------
(* Properties *)

\* The journal of that kind is posted for o and not reversed.
Stands(k, o) == k \in posted[o] /\ ~order[o].refunded

\* Payouts that count against a merchant's balance.
Promised == {"requested", "paid"}

PaidOut(m, S) ==
    Sum([i \in DOMAIN payouts |->
            IF payouts[i].of = m /\ payouts[i].status \in S THEN payouts[i].amount ELSE 0],
        DOMAIN payouts)
PaidOutToAll(S) == Sum([m \in Merchants |-> PaidOut(m, S)], Merchants)

\* What an order makes of an account ...
OfOrder(o, a) ==
    LET released == Stands("order_release", o)
        sold == released /\ Method[o] = "bkash"
        paid == Stands("order_payment", o)
    IN  CASE a \in Merchants -> (IF sold THEN Gross[o][a] ELSE 0) - (IF released THEN Commission(o, a) ELSE 0)
          [] a = "commission" -> IF released THEN Commissions(o) ELSE 0
          [] a = "platform" -> IF sold THEN Gross[o][Platform] ELSE 0
          [] a = "escrow" -> (IF paid THEN Total(o) ELSE 0) - (IF sold THEN Goods(o) ELSE 0)
          [] a = "gateway" -> IF paid THEN -Total(o) ELSE 0
          [] OTHER -> 0

\* ... and the payouts.
OfPayouts(a) ==
    CASE a \in Merchants -> -PaidOut(a, Promised)
      [] a = "pending" -> PaidOutToAll({"requested"})
      [] a = "cash_out" -> PaidOutToAll({"paid"})
      [] OTHER -> 0

Expected(a) == Sum([o \in Orders |-> OfOrder(o, a)], Orders) + OfPayouts(a)

(* Every account is what the orders and the payouts say, whatever the order   *)
(* of payments, deliveries, refunds, requests and settlements: a refund takes *)
(* back all that was booked and at the rates agreed at checkout, a payout is  *)
(* settled once (postJournal, reverseJournals, settlePayout).                 *)
LedgerFollowsEvents == \A a \in Accounts : balance[a] = Expected(a)

(* "concurrent requests cannot overdraw" (billing_service.go:460): a merchant *)
(* is never promised more than ever was earned for him; only a refund or the  *)
(* commission of a cash order may leave a balance below zero.                 *)
EverEarned(m) ==
    Sum([o \in Orders |-> IF "order_release" \in posted[o] /\ Method[o] = "bkash"
                          THEN Gross[o][m] - Commission(o, m) ELSE 0],
        Orders)

PayoutsWithinEarnings ==
    \A m \in Merchants : PaidOut(m, Promised) <= EverEarned(m)

(* "escrow is never debited without a credit" (billing_service.go:365), even  *)
(* for an order an admin delivered unpaid and somebody then paid or refunded. *)
EscrowIsCovered == balance["escrow"] >= 0

(* What the properties rest on, an invariant each step preserves.             *)

\* Nothing is booked for an order before it is placed, a refund is final, and
\* nothing is released to the sellers that was not paid.
OrderInv(o) ==
    /\ order[o].status = "none" => posted[o] = {} /\ ~order[o].refunded
    /\ order[o].refunded => order[o].status = "cancelled" /\ order[o].money
    /\ ("order_release" \in posted[o] /\ Method[o] = "bkash") => "order_payment" \in posted[o]

\* A request that was checked stays within what was earned, alone with its merchant.
RequestInv(q) ==
    request[q] # Idle =>
        /\ request[q].amount > 0
        /\ PaidOut(request[q].of, Promised) + request[q].amount <= EverEarned(request[q].of)
        /\ \A p \in Requesters \ {q} : request[p] # Idle => request[p].of # request[q].of

IndInv ==
    /\ TypeOK
    /\ \A o \in Orders : OrderInv(o)
    /\ \A q \in Requesters : RequestInv(q)
    /\ LedgerFollowsEvents /\ PayoutsWithinEarnings

(* Escrow is "buyer money for orders not yet delivered"                       *)
(* (billing_service.go:39): nothing of an order whose earnings were released. *)
EscrowIsOfOpenOrders ==
    balance["escrow"] =
        Sum([o \in Orders |-> Total(o)],
            {o \in Orders : Stands("order_payment", o) /\ ~Stands("order_release", o)})
=============================================================================
