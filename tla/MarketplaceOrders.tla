--------------------------- MODULE MarketplaceOrders --------------------------
(***************************************************************************)
(* Marketplace orders from checkout to delivery, cancellation or refund:   *)
(* OrderService (order_service.go) with the stock it reserves,             *)
(* MarketplacePaymentService (marketplace_payment_service.go) with the     *)
(* bKash payments of an order, and what BillingService books for it        *)
(* (recordOrderPayment, OnOrderDelivered, RefundOrder).                    *)
(*                                                                         *)
(* All orders are for one product.  Every transaction locks the order row  *)
(* (or the payment and then the order) and is one step; what was read      *)
(* before it without a lock is kept by its actor and may be stale.         *)
(***************************************************************************)
EXTENDS Integers, Sequences, FiniteSets, Sums

CONSTANTS
    Orders,       \* orders that may be placed
    Qty,          \* units each takes
    Stock0,       \* units on sale at the start
    Goods,        \* price of an order's items
    Charge,       \* delivery charge of an order, part of its total_amount
    Clients,      \* request goroutines executing a payment
    Reconcilers,  \* reconciler goroutines, one for each API instance
    Expirers,     \* the same goroutines at ExpireUnpaid
    Sellers,      \* merchants shipping and delivering orders
    Editors,      \* merchants editing the product
    Admins,       \* admins moving orders by hand
    MaxTxs        \* bound: order_transactions rows

ASSUME OrdersAreFinite == IsFiniteSet(Orders)
ASSUME QtyIsPositive == Qty \in [Orders -> Nat \ {0}]
ASSUME AmountsAreCounts == Goods \in [Orders -> Nat] /\ Charge \in [Orders -> Nat]
ASSUME StockIsCount == Stock0 \in Nat /\ MaxTxs \in Nat
ASSUME ActorsAreDistinct == Clients \cap Reconcilers = {} /\ Sellers \cap Editors = {}

VARIABLES
    stock,      \* products.stock
    status,     \* orders.status, "none" before the order is placed
    method,     \* orders.payment_method
    old,        \* the order is past ExpireUnpaid's maxAge
    opening,    \* orders for which a CreatePayment call is at bKash
    txs,        \* order_transactions, in order of created_at
    journals,   \* journals whose source is the order
    invoice,    \* the invoice of the order
    refunded,   \* the order has its refunds row
    timeline,   \* order_events, counted by status
    job,        \* what each client or reconciler is doing
    doomed,     \* orders an expirer has listed and not reached yet
    task,       \* what each merchant is doing
    overridden, \* history: an admin moved the unpaid order on
    edited      \* history: the units product edits put on sale, or took off

orderVars   == <<status, method, old, timeline, overridden>>
paymentVars == <<opening, txs>>
bookVars    == <<journals, invoice, refunded>>
actorVars   == <<job, doomed, task>>
vars == <<stock, edited, orderVars, paymentVars, bookVars, actorVars>>

\* orderRank; cancellation comes after every status it may follow.
Rank == [pending_payment |-> 0, paid |-> 1, processing |-> 2, shipped |-> 3,
         delivered |-> 4, cancelled |-> 5]
Statuses == DOMAIN Rank
TxStatuses == {"initiated", "completed", "failed", "cancelled", "needs_review", "refunded"}
Workers == Clients \cup Reconcilers
MaxAge == 2     \* bound: age 1 is older than minAge, 2 older than cancelAfter

Tx == [order : Orders, status : TxStatuses, age : 0..MaxAge,
       gate : {"open", "paid", "paid_other", "closed"}]
Kinds == {"order_payment", "order_release", "refund:order_payment", "refund:order_release"}
Idle == [step |-> "idle"]
Jobs == [step : {"ask", "fulfil", "flag", "terminal"}, tx : 1..MaxTxs]
Tasks == [step : {"move"}, order : Orders, to : {"shipped", "delivered"}]
         \cup [step : {"save"}, stock : Nat]

TypeOK ==
    /\ stock \in Nat
    /\ status \in [Orders -> Statuses \cup {"none"}]
    /\ method \in [Orders -> {"bkash", "cash_on_delivery"}]
    /\ old \in [Orders -> BOOLEAN]
    /\ opening \in SUBSET Orders
    /\ txs \in Seq(Tx)
    /\ journals \in [Orders -> SUBSET Kinds]
    /\ invoice \in [Orders -> {"none", "issued", "voided"}]
    /\ refunded \in [Orders -> BOOLEAN]
    /\ timeline \in [Orders -> [delivered : 0..1, cancelled : 0..2]]
    /\ job \in [Workers -> Jobs \cup {Idle}]
    /\ doomed \in [Expirers -> SUBSET Orders]
    /\ task \in [Sellers \cup Editors -> Tasks \cup {Idle}]
    /\ overridden \in [Orders -> BOOLEAN]
    /\ edited \in Int

Init ==
    /\ stock = Stock0
    /\ status = [o \in Orders |-> "none"]
    /\ method = [o \in Orders |-> "bkash"]
    /\ old = [o \in Orders |-> FALSE]
    /\ opening = {}
    /\ txs = <<>>
    /\ journals = [o \in Orders |-> {}]
    /\ invoice = [o \in Orders |-> "none"]
    /\ refunded = [o \in Orders |-> FALSE]
    /\ timeline = [o \in Orders |-> [delivered |-> 0, cancelled |-> 0]]
    /\ job = [w \in Workers |-> Idle]
    /\ doomed = [e \in Expirers |-> {}]
    /\ task = [s \in Sellers \cup Editors |-> Idle]
    /\ overridden = [o \in Orders |-> FALSE]
    /\ edited = 0

-----------------------------------------------------------------------------
(* Moving an order *)

\* Mutant: nothing is final.
EvenFromFinal(from, to) == from = "cancelled" \/ Rank[to] > Rank[from]

CanTransition(from, to) ==
    from \notin {"delivered", "cancelled"} /\ Rank[to] > Rank[from]

\* recordOrderEvent
Recorded(o, to) ==
    IF to \in {"delivered", "cancelled"}
    THEN [timeline EXCEPT ![o][to] = @ + 1]
    ELSE timeline

\* Mutant: the delivered orders are restocked, the others not.
RestockedWhenDelivered(o) == IF status[o] = "delivered" THEN stock + Qty[o] ELSE stock

\* restockOrder
Restocked(o) == stock + Qty[o]

\* The transaction of Transition and CancelByBuyer.
Move(o, to) ==
    /\ status' = [status EXCEPT ![o] = to]
    /\ stock' = IF to = "cancelled" THEN Restocked(o) ELSE stock
    /\ timeline' = Recorded(o, to)

Transition(o, to) ==
    /\ status[o] # "none"
    /\ CanTransition(status[o], to)
    /\ Move(o, to)

-----------------------------------------------------------------------------
(* Checkout *)

\* Mutant: the stock is compared without the quantity.
AnyStock(o) == stock > 0

\* The WHERE clause of PlaceOrder's conditional UPDATE.
InStock(o) == stock >= Qty[o]

PlaceOrder(o) ==
    /\ status[o] = "none"
    /\ InStock(o)
    /\ stock' = stock - Qty[o]
    /\ \E m \in {"bkash", "cash_on_delivery"} :
        /\ method' = [method EXCEPT ![o] = m]
        /\ status' = [status EXCEPT ![o] = IF m = "bkash" THEN "pending_payment" ELSE "processing"]
    /\ UNCHANGED <<edited, old, timeline, overridden, paymentVars, bookVars, actorVars>>

\* Mutant: any order that is not on its way.
NotYetShipped(o) == status[o] \in {"pending_payment", "paid", "processing"}

\* CancelByBuyer: unpaid, or cash on delivery that has not shipped.
Cancellable(o) ==
    \/ status[o] = "pending_payment"
    \/ method[o] = "cash_on_delivery" /\ status[o] = "processing"

CancelByBuyer(o) ==
    /\ Cancellable(o)
    /\ Move(o, "cancelled")
    /\ UNCHANGED <<edited, method, old, overridden, paymentVars, bookVars, actorVars>>

\* UpdateOrderStatus: an admin may move an order to any later status.
AdminTransition(a, o) ==
    /\ \E to \in Statuses :
        /\ Transition(o, to)
        /\ overridden' = [overridden EXCEPT ![o] =
                             @ \/ (status[o] = "pending_payment" /\ to # "cancelled")]
    /\ UNCHANGED <<edited, method, old, paymentVars, bookVars, actorVars>>

AgeOrder(o) ==
    /\ status[o] # "none" /\ ~old[o]
    /\ old' = [old EXCEPT ![o] = TRUE]
    /\ UNCHANGED <<edited, stock, status, method, timeline, overridden, paymentVars, bookVars, actorVars>>

-----------------------------------------------------------------------------
(* Paying: a session at bKash and its order_transactions row *)

\* CreatePayment reads the order and calls bKash ...
CreatePayment(o) ==
    /\ status[o] = "pending_payment" /\ method[o] = "bkash"
    /\ o \notin opening
    /\ Len(txs) < MaxTxs
    /\ opening' = opening \cup {o}
    /\ UNCHANGED <<edited, stock, orderVars, txs, bookVars, actorVars>>

\* ... and inserts the row when bKash has answered.
InsertTx(o) ==
    /\ o \in opening
    /\ Len(txs) < MaxTxs
    /\ opening' = opening \ {o}
    /\ txs' = Append(txs, [order |-> o, status |-> "initiated", age |-> 0, gate |-> "open"])
    /\ UNCHANGED <<edited, stock, orderVars, bookVars, actorVars>>

\* bKash fails, or the process dies.
DropCreate(o) ==
    /\ o \in opening
    /\ opening' = opening \ {o}
    /\ UNCHANGED <<edited, stock, orderVars, txs, bookVars, actorVars>>

\* The buyer pays; bKash will report the amount charged, or another.
BuyerPays(i) ==
    /\ txs[i].gate = "open"
    /\ \E g \in {"paid", "paid_other"} : txs' = [txs EXCEPT ![i].gate = g]
    /\ UNCHANGED <<edited, stock, orderVars, opening, bookVars, actorVars>>

SessionCloses(i) ==
    /\ txs[i].gate = "open"
    /\ txs' = [txs EXCEPT ![i].gate = "closed"]
    /\ UNCHANGED <<edited, stock, orderVars, opening, bookVars, actorVars>>

AgeTx(i) ==
    /\ txs[i].age < MaxAge
    /\ txs' = [txs EXCEPT ![i].age = @ + 1]
    /\ UNCHANGED <<edited, stock, orderVars, opening, bookVars, actorVars>>

Taken(i) == txs[i].gate \in {"paid", "paid_other"}

Goes(w, j) == job' = [job EXCEPT ![w] = j]
Step(s, i) == [step |-> s, tx |-> i]
KeepAllButJobs == UNCHANGED <<edited, stock, orderVars, paymentVars, bookVars, doomed, task>>

\* ExecutePayment's unlocked read of the payment.
StartExecute(w, i) ==
    /\ w \in Clients /\ job[w] = Idle
    /\ txs[i].status \notin {"completed", "needs_review"}
    /\ Goes(w, Step("ask", i))
    /\ KeepAllButJobs

\* ReconcilePending's SELECT.
StartReconcile(w, i) ==
    /\ w \in Reconcilers /\ job[w] = Idle
    /\ txs[i].status = "initiated" /\ txs[i].age >= 1
    /\ Goes(w, Step("ask", i))
    /\ KeepAllButJobs

\* Mutant: whatever bKash answers counts as completed.
TrustingVerdicts(i) == {"fulfil"}

Verdicts(i) == CASE txs[i].gate = "paid" -> {"fulfil"}
                 [] txs[i].gate = "paid_other" -> {"fulfil", "flag"}
                 [] OTHER -> {}

AnswerCompleted(w) ==
    /\ job[w].step = "ask"
    /\ \E v \in Verdicts(job[w].tx) : Goes(w, Step(v, job[w].tx))
    /\ KeepAllButJobs

\* A client's execute closes what is not completed, the reconciler only an old one.
AnswerNotCompleted(w) ==
    /\ job[w].step = "ask"
    /\ w \in Reconcilers => ~Taken(job[w].tx)
    /\ Goes(w, IF w \in Clients \/ txs[job[w].tx].age = MaxAge
               THEN Step("terminal", job[w].tx) ELSE Idle)
    /\ KeepAllButJobs

\* bKash is unreachable, the transaction fails, or the process dies.
DropJob(w) ==
    /\ job[w] # Idle
    /\ Goes(w, Idle)
    /\ KeepAllButJobs

Settles(w, i, s) ==
    /\ txs' = [txs EXCEPT ![i].status = s]
    /\ Goes(w, Idle)
    /\ UNCHANGED <<opening, doomed, task>>

\* issueInvoice returns the invoice that exists.
IssueInvoice(i) == IF i = "none" THEN "issued" ELSE i

\* Mutant: an order that was cancelled meanwhile is taken up again.
PayableOrCancelled(o) == status[o] \in {"pending_payment", "cancelled"}

\* Mutant: only a cancelled order is refused.
NotCancelled(o) == status[o] # "cancelled"

Payable(o) == status[o] = "pending_payment"

\* fulfil: the order is paid, the money goes to escrow, the invoice is issued.
Fulfil(w) ==
    /\ job[w].step = "fulfil"
    /\ LET i == job[w].tx
           o == txs[i].order
       IN  /\ txs[i].status # "completed"
           /\ Payable(o)
           /\ Move(o, "paid")
           /\ journals' = [journals EXCEPT ![o] = @ \cup {"order_payment"}]
           /\ invoice' = [invoice EXCEPT ![o] = IssueInvoice(@)]
           /\ Settles(w, i, "completed")
    /\ UNCHANGED <<edited, method, old, overridden, refunded>>

\* fulfil flags another amount, and an order that is no longer pending.
FlagForReview(w) ==
    /\ LET i == job[w].tx
       IN  /\ \/ job[w].step = "flag"
              \/ job[w].step = "fulfil" /\ ~Payable(txs[i].order)
           /\ txs[i].status # "completed"
           /\ Settles(w, i, "needs_review")
    /\ UNCHANGED <<edited, stock, orderVars, bookVars>>

\* markTerminal's conditional UPDATE.
MarkTerminal(w) ==
    /\ job[w].step = "terminal"
    /\ txs[job[w].tx].status = "initiated"
    /\ Settles(w, job[w].tx, IF w \in Clients THEN "failed" ELSE "cancelled")
    /\ UNCHANGED <<edited, stock, orderVars, bookVars>>

\* The payment is completed already, or not initiated any more.
FoundSettled(w) ==
    /\ \/ job[w].step \in {"fulfil", "flag"} /\ txs[job[w].tx].status = "completed"
       \/ job[w].step = "terminal" /\ txs[job[w].tx].status # "initiated"
    /\ Goes(w, Idle)
    /\ KeepAllButJobs

-----------------------------------------------------------------------------
(* ExpireUnpaid: list the abandoned orders, then cancel each by Transition *)

\* Mutant: a payment that was closed blocks the expiry too.
NeverTried(o) ==
    /\ status[o] = "pending_payment" /\ method[o] = "bkash" /\ old[o]
    /\ ~\E i \in DOMAIN txs : txs[i].order = o

Abandoned(o) ==
    /\ status[o] = "pending_payment" /\ method[o] = "bkash" /\ old[o]
    /\ ~\E i \in DOMAIN txs :
        /\ txs[i].order = o
        /\ \/ txs[i].status \in {"completed", "needs_review"}
           \/ txs[i].status = "initiated" /\ txs[i].age < MaxAge

ListAbandoned(e) ==
    /\ doomed[e] = {}
    /\ \E o \in Orders : Abandoned(o)
    /\ doomed' = [doomed EXCEPT ![e] = {o \in Orders : Abandoned(o)}]
    /\ UNCHANGED <<edited, stock, orderVars, paymentVars, bookVars, job, task>>

Expire(e, o) ==
    /\ o \in doomed[e]
    /\ doomed' = [doomed EXCEPT ![e] = @ \ {o}]
    /\ \/ Transition(o, "cancelled")
       \/ ~CanTransition(status[o], "cancelled") /\ UNCHANGED <<stock, status, timeline>>
    /\ UNCHANGED <<edited, method, old, overridden, paymentVars, bookVars, job, task>>

\* The run is cut off or the process dies.
DropList(e) ==
    /\ doomed[e] # {}
    /\ doomed' = [doomed EXCEPT ![e] = {}]
    /\ UNCHANGED <<edited, stock, orderVars, paymentVars, bookVars, job, task>>

-----------------------------------------------------------------------------
(* Sellers *)

\* MerchantUpdateOrderStatus reads the order without a lock ...
StartMove(s, o) ==
    /\ s \in Sellers /\ task[s] = Idle
    /\ status[o] \notin {"none", "pending_payment", "cancelled"}
    /\ \E to \in {"shipped", "delivered"} :
        task' = [task EXCEPT ![s] = [step |-> "move", order |-> o, to |-> to]]
    /\ UNCHANGED <<edited, stock, orderVars, paymentVars, bookVars, job, doomed>>

\* ... and then calls Transition.
FinishMove(s) ==
    /\ task[s].step = "move"
    /\ task' = [task EXCEPT ![s] = Idle]
    /\ \/ Transition(task[s].order, task[s].to)
       \/ /\ ~CanTransition(status[task[s].order], task[s].to)
          /\ UNCHANGED <<stock, status, timeline>>
    /\ UNCHANGED <<edited, method, old, overridden, paymentVars, bookVars, job, doomed>>

\* UpdateMyProduct loads the product, to change its title or price ...
OpenProduct(s) ==
    /\ s \in Editors /\ task[s] = Idle
    /\ task' = [task EXCEPT ![s] = [step |-> "save", stock |-> stock]]
    /\ UNCHANGED <<edited, stock, orderVars, paymentVars, bookVars, job, doomed>>

\* ... and saves every column, stock too.
SaveProduct(s) ==
    /\ task[s].step = "save"
    /\ stock' = task[s].stock
    /\ edited' = edited + (stock' - stock)
    /\ task' = [task EXCEPT ![s] = Idle]
    /\ UNCHANGED <<orderVars, paymentVars, bookVars, job, doomed>>

-----------------------------------------------------------------------------
(* Earnings and refunds *)

\* Mutant: an order that has its invoice is taken for released.
NotYetInvoiced(o) == status[o] = "delivered" /\ invoice[o] = "none"

\* Mutant: the release is booked whatever became of the order.
WasDelivered(o) == timeline[o].delivered > 0

Releasable(o) == status[o] = "delivered"

\* OnOrderDelivered, called after the transition and again by
\* ReleaseDeliveredOrders; a payment that was never booked is booked first.
OnOrderDelivered(o) ==
    /\ Releasable(o)
    /\ "order_release" \notin journals[o]
    /\ journals' = [journals EXCEPT ![o] = @ \cup
                       IF method[o] = "bkash" THEN {"order_payment", "order_release"}
                                              ELSE {"order_release"}]
    /\ invoice' = [invoice EXCEPT ![o] = IssueInvoice(@)]
    /\ UNCHANGED <<edited, stock, orderVars, paymentVars, refunded, actorVars>>

\* The payment RefundOrder picks: the newest that took money or gave it back.
RefundCandidates(o) ==
    {i \in DOMAIN txs : txs[i].order = o /\ txs[i].status \in {"completed", "needs_review", "refunded"}}

Newest(S) == CHOOSE i \in S : \A j \in S : j <= i

ReversalOf == [order_payment |-> "refund:order_payment",
               order_release |-> "refund:order_release"]

\* Mutant: only the payment is reversed.
ReversedPayment(js) == js \cup {ReversalOf[k] : k \in js \cap {"order_payment"}}

\* reverseJournals
Reversed(js) == js \cup {ReversalOf[k] : k \in js \cap DOMAIN ReversalOf}

RefundOrder(o) ==
    /\ method[o] = "bkash"
    /\ ~refunded[o]
    /\ RefundCandidates(o) # {}
    /\ LET i == Newest(RefundCandidates(o))
       IN  /\ txs[i].status # "refunded"
           /\ txs' = [txs EXCEPT ![i].status = "refunded"]
    /\ journals' = [journals EXCEPT ![o] = Reversed(@)]
    /\ invoice' = [invoice EXCEPT ![o] = IF @ = "none" THEN "none" ELSE "voided"]
    /\ status' = [status EXCEPT ![o] = "cancelled"]
    /\ stock' = IF status[o] = "delivered" THEN stock ELSE Restocked(o)
    /\ timeline' = Recorded(o, "cancelled")
    /\ refunded' = [refunded EXCEPT ![o] = TRUE]
    /\ UNCHANGED <<edited, method, old, overridden, opening, actorVars>>

-----------------------------------------------------------------------------
Settle(w) == Fulfil(w) \/ FlagForReview(w) \/ MarkTerminal(w) \/ FoundSettled(w)

\* What buyers, sellers, the gateway and the reconciler do.
Dealing ==
    \/ \E o \in Orders :
        \/ PlaceOrder(o) \/ CancelByBuyer(o) \/ AgeOrder(o)
        \/ CreatePayment(o) \/ InsertTx(o) \/ DropCreate(o)
        \/ OnOrderDelivered(o) \/ RefundOrder(o)
    \/ \E i \in DOMAIN txs : BuyerPays(i) \/ SessionCloses(i) \/ AgeTx(i)
    \/ \E w \in Workers :
        \/ \E i \in DOMAIN txs : StartExecute(w, i) \/ StartReconcile(w, i)
        \/ AnswerCompleted(w) \/ AnswerNotCompleted(w) \/ DropJob(w) \/ Settle(w)
    \/ \E e \in Expirers : ListAbandoned(e) \/ DropList(e)
    \/ \E s \in Sellers \cup Editors :
        \/ FinishMove(s) \/ OpenProduct(s) \/ SaveProduct(s)
        \/ \E o \in Orders : StartMove(s, o)

\* What goes on without an admin who moves orders by hand.
Trade == Dealing \/ \E e \in Expirers, o \in Orders : Expire(e, o)

Next == Trade \/ \E a \in Admins, o \in Orders : AdminTransition(a, o)

Spec == Init /\ [][Next]_vars

(* runPaymentReconciler comes round for ever and bKash is reachable again and *)
(* again; time passes and a bKash session does not stay open for ever.        *)
Fairness ==
    /\ \A o \in Orders : WF_vars(AgeOrder(o)) /\ WF_vars(OnOrderDelivered(o))
    /\ \A i \in 1..MaxTxs : WF_vars(i \in DOMAIN txs /\ (AgeTx(i) \/ SessionCloses(i)))
    /\ \A w \in Reconcilers :
        /\ \A i \in 1..MaxTxs : SF_vars(i \in DOMAIN txs /\ StartReconcile(w, i))
        /\ SF_vars(AnswerCompleted(w) \/ AnswerNotCompleted(w))
        /\ SF_vars(Settle(w))
    /\ \A e \in Expirers : \A o \in Orders : SF_vars(ListAbandoned(e)) /\ SF_vars(Expire(e, o))

FairSpec == Spec /\ Fairness

-----------------------------------------------------------------------------
(* Properties *)

\* Units that are off the shelf for o: promised to its buyer, or with him.
Holding(o) == status[o] \notin {"none", "cancelled"} \/ timeline[o].delivered > 0

\* An order that was cancelled before it was refunded.
CancelledThenRefunded(o) == timeline[o].cancelled = 2

(* Stock is neither lost nor made: what is on sale and what orders hold adds  *)
(* up to what there was, whoever cancels, expires or refunds an order and in  *)
(* whatever order (PlaceOrder, Transition, CancelByBuyer, RefundOrder), apart *)
(* from refunds of orders that were cancelled before and from product edits.  *)
StockConserved ==
    stock + Sum(Qty, {o \in Orders : Holding(o)})
        = Stock0 + edited + Sum(Qty, {o \in Orders : CancelledThenRefunded(o)})

(* An order is paid by one payment at most, which has its journal and its     *)
(* invoice, and no order is paid without one unless an admin moved it on by   *)
(* hand (marketplace fulfil). What becomes of another payment bKash took is   *)
(* not stated: fulfil flags it when its completed answer comes, but           *)
(* markTerminal may have closed it as failed after an earlier answer.         *)
PaidOnce ==
    \A o \in Orders :
        LET done == {i \in DOMAIN txs : txs[i].order = o /\ txs[i].status = "completed"}
        IN  /\ \A i, j \in done : i = j
            /\ done # {} => "order_payment" \in journals[o] /\ invoice[o] # "none"
            /\ (status[o] = "paid" /\ ~overridden[o]) => done # {}

(* What is booked for an order was taken by bKash, unless an admin moved the  *)
(* unpaid order on by hand: no stale read of a seller, no client's word and   *)
(* no late expiry gets an unpaid order delivered (MerchantUpdateOrderStatus). *)
MoneyBehindBooks ==
    \A o \in Orders :
        (method[o] = "bkash" /\ journals[o] # {} /\ ~overridden[o]) =>
            \E i \in DOMAIN txs : txs[i].order = o /\ Taken(i)

\* What the journals of o leave in liability:orders_escrow.
InEscrow(o) ==
    IF method[o] # "bkash" \/ "order_payment" \notin journals[o] \/ "refund:order_payment" \in journals[o]
    THEN 0
    ELSE Goods[o] + Charge[o] - (IF "order_release" \in journals[o] THEN Goods[o] ELSE 0)

(* Ledger and orders agree although they change in different transactions: a  *)
(* live paid order has its whole total in escrow, a refunded one nothing, and *)
(* only a delivered order or a refunded one has released its earnings, which  *)
(* the refund reversed with the payment (OnOrderDelivered, RefundOrder).      *)
BooksFollowOrder ==
    \A o \in Orders :
        /\ "order_release" \in journals[o] =>
               \/ status[o] = "delivered"
               \/ status[o] = "cancelled" /\ refunded[o]
        /\ (refunded[o] /\ method[o] = "bkash") =>
               \A k \in DOMAIN ReversalOf : k \in journals[o] => ReversalOf[k] \in journals[o]
        /\ refunded[o] => status[o] = "cancelled" /\ invoice[o] # "issued" /\ InEscrow(o) = 0
        /\ (status[o] \in {"paid", "processing", "shipped"} /\ method[o] = "bkash" /\ ~overridden[o]) =>
               InEscrow(o) = Goods[o] + Charge[o]

(* Orders only move forward and nothing leaves delivered or cancelled except  *)
(* by a refund (CanTransition): a late payment, a late expiry or a seller's   *)
(* stale update never brings an order back.                                   *)
OnlyForward ==
    [][\A o \in Orders :
        (status[o] \notin {"none", status'[o]}) =>
            \/ /\ status[o] \notin {"delivered", "cancelled"}
               /\ Rank[status'[o]] > Rank[status[o]]
            \/ ~refunded[o] /\ refunded'[o]]_vars

(* Every delivered order has its earnings booked, even when the call after    *)
(* the transition failed (ReleaseDeliveredOrders), unless it is refunded.     *)
EarningsBooked ==
    \A o \in Orders :
        status[o] = "delivered" ~> ("order_release" \in journals[o] \/ refunded[o])

(* An unpaid order does not keep its stock for ever: it is paid, cancelled,   *)
(* or waits for an admin's review of its payment (ExpireUnpaid).              *)
UnpaidIsReleased ==
    \A o \in Orders :
        status[o] = "pending_payment" ~>
            \/ status[o] # "pending_payment"
            \/ \E i \in DOMAIN txs : txs[i].order = o /\ txs[i].status = "needs_review"

(* A paid bKash order is not cancelled: "money has moved, so it goes through  *)
(* the admin refund flow" (CancelByBuyer), and "ExpireUnpaid cancels bKash    *)
(* orders nobody paid for" (order_service.go:139).                            *)
CancelsUnpaid ==
    \A o \in Orders :
        (status[o] # "cancelled" /\ status'[o] = "cancelled" /\ ~refunded'[o]) =>
            ~\E i \in DOMAIN txs : txs[i].order = o /\ txs[i].status = "completed"
NobodyPaidFor == [][CancelsUnpaid]_vars

(* Nobody but an expirer with an old list and an admin by hand cancels a paid *)
(* order without its refund: neither the buyer nor the seller                 *)
(* (CancelByBuyer, MerchantUpdateOrderStatus).                                *)
PaidIsNotCancelled == [][CancelsUnpaid \/ ~Dealing]_vars

(* What the properties rest on, an invariant each step preserves.             *)

\* timeline tells how o came to its status, and a refund is final.
OrderInv(o) ==
    /\ status[o] \in {"none", "pending_payment"} => timeline[o].delivered = 0
    /\ status[o] = "delivered" => timeline[o].delivered = 1
    /\ timeline[o].delivered = 1 =>
           status[o] = "delivered" \/ (status[o] = "cancelled" /\ refunded[o])
    /\ timeline[o].cancelled > 0 <=> status[o] = "cancelled"
    /\ timeline[o].cancelled = 2 => refunded[o]
    /\ refunded[o] => status[o] = "cancelled" /\ method[o] = "bkash" /\ invoice[o] # "issued"
    /\ o \in opening => status[o] # "none" /\ method[o] = "bkash"

\* A bkash order moves on with its payment booked, unless an admin moves it,
\* and is released when delivered.
BookInv(o) ==
    /\ status[o] = "none" => journals[o] = {}
    /\ (status[o] \in {"paid", "processing", "shipped", "delivered"}
            /\ method[o] = "bkash" /\ ~overridden[o]) => "order_payment" \in journals[o]
    /\ "order_release" \in journals[o] =>
           /\ status[o] = "delivered" \/ refunded[o]
           /\ method[o] = "bkash" => "order_payment" \in journals[o]
    /\ {"refund:order_payment", "refund:order_release"} \cap journals[o] # {} => refunded[o]
    /\ refunded[o] => \A k \in DOMAIN ReversalOf : k \in journals[o] => ReversalOf[k] \in journals[o]

\* Only a bkash order that was placed has payments; a completed one is booked.
TxInv(i) ==
    LET o == txs[i].order
    IN  /\ status[o] # "none" /\ method[o] = "bkash"
        /\ txs[i].status = "completed" => status[o] # "pending_payment"

\* A job is about a payment that exists, and about money if it goes to fulfil.
JobInv(w) ==
    job[w] # Idle =>
        /\ job[w].tx \in DOMAIN txs
        /\ job[w].step \in {"fulfil", "flag"} => Taken(job[w].tx)

\* A seller moves an order that has left pending_payment, where none returns.
TaskInv(s) ==
    task[s].step = "move" => status[task[s].order] \notin {"none", "pending_payment"}

IndInv ==
    /\ TypeOK
    /\ Len(txs) <= MaxTxs
    /\ \A o \in Orders : OrderInv(o) /\ BookInv(o)
    /\ \A i \in DOMAIN txs : TxInv(i)
    /\ \A w \in Workers : JobInv(w)
    /\ \A s \in Sellers \cup Editors : TaskInv(s)
    /\ PaidOnce /\ MoneyBehindBooks

(* Cancelling "must not restock twice" (internal/service/stock_test.go:143),  *)
(* nor does a refund after it.                                                *)
RestockedOnce == stock + Sum(Qty, {o \in Orders : Holding(o)}) <= Stock0
=============================================================================
