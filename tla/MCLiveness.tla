------------------------------ MODULE MCLiveness ------------------------------
(* What must come about in the end, for a checkout, an order and a lapsed     *)
(* user: instances of SubscriptionPayments, MarketplaceOrders and ProAccess,  *)
(* each with the fairness it states.  A behaviour is about one of the three   *)
(* and leaves the others in their initial states, where no fair action is     *)
(* enabled.                                                                   *)
EXTENDS Integers, Sequences, TLC

CONSTANTS
    p1, p2, c1,                         \* two checkouts with one coupon
    o1, expirer, seller,                \* an order
    reconciler,
    sweeper, refunder                   \* the subscriptions of a user

VARIABLES
    part,
    \* a checkout
    usedCount, active, checkout, couponOf, status, reserved, subs, subRefunded,
    journals, invoice, refundRow, age, gateway, job, edit, retaken,
    \* an order
    stock, orderStatus, method, old, opening, txs, orderJournals, orderInvoice, refunded,
    timeline, orderJob, doomed, task, overridden, edited,
    \* a user
    now, isPro, proExpiry, rows, sweep, refund, dateEdit, overtaken

paymentVars == <<usedCount, active, checkout, couponOf, status, reserved, subs, subRefunded,
                 journals, invoice, refundRow, age, gateway, job, edit, retaken>>
orderVars == <<stock, orderStatus, method, old, opening, txs, orderJournals, orderInvoice, refunded,
               timeline, orderJob, doomed, task, overridden, edited>>
accessVars == <<now, isPro, proExpiry, rows, sweep, refund, dateEdit, overtaken>>

Payment == INSTANCE SubscriptionPayments WITH
    Payments <- {p1, p2}, Coupons <- {c1}, MaxUses <- c1 :> 1,
    Clients <- {}, Reconcilers <- {reconciler}, Admins <- {}

Order == INSTANCE MarketplaceOrders WITH
    Orders <- {o1}, Qty <- o1 :> 1, Stock0 <- 1, Goods <- o1 :> 5, Charge <- o1 :> 1,
    Clients <- {}, Reconcilers <- {reconciler}, Expirers <- {expirer}, Sellers <- {seller},
    Editors <- {}, Admins <- {}, MaxTxs <- 2,
    status <- orderStatus, journals <- orderJournals, invoice <- orderInvoice, job <- orderJob

Access == INSTANCE ProAccess WITH
    Plans <- {1}, GraceDays <- 1, Sweepers <- {sweeper}, Refunders <- {refunder},
    Editors <- {}, EndDates <- {}, Horizon <- 4, MaxRows <- 2, edit <- dateEdit

MCInit == part \in {"payment", "order", "access"} /\ Payment!Init /\ Order!Init /\ Access!Init

all == <<part, paymentVars, orderVars, accessVars>>
Paying(A) == part = "payment" /\ A /\ UNCHANGED <<part, orderVars, accessVars>>
Ordering(A) == part = "order" /\ A /\ UNCHANGED <<part, paymentVars, accessVars>>
Using(A) == part = "access" /\ A /\ UNCHANGED <<part, paymentVars, orderVars>>

MCNext ==
    \/ Paying(Payment!Next)
    \/ Ordering(Order!Next)
    \/ Using(Access!Next)

\* Payment!Fairness, Order!Fairness and the sweeper of Access!FairSpec.  As only
\* one of the three ever acts, an action of one and an action of another are
\* both fair when the choice of either is.
Fairness ==
    /\ WF_all(Paying(Payment!Grow(p1)) \/ Ordering(Order!AgeOrder(o1)) \/ Using(Access!Sweep(sweeper)))
    /\ WF_all(Paying(Payment!Grow(p2)) \/ Ordering(Order!OnOrderDelivered(o1)))
    /\ WF_all(Paying(Payment!SessionCloses(p1)) \/ Ordering(1 \in DOMAIN txs /\ (Order!AgeTx(1) \/ Order!SessionCloses(1))))
    /\ WF_all(Paying(Payment!SessionCloses(p2)) \/ Ordering(2 \in DOMAIN txs /\ (Order!AgeTx(2) \/ Order!SessionCloses(2))))
    /\ SF_all(Paying(Payment!StartReconcile(reconciler, p1)) \/ Ordering(1 \in DOMAIN txs /\ Order!StartReconcile(reconciler, 1)))
    /\ SF_all(Paying(Payment!StartReconcile(reconciler, p2)) \/ Ordering(2 \in DOMAIN txs /\ Order!StartReconcile(reconciler, 2)))
    /\ SF_all(Paying(Payment!AnswerCompleted(reconciler) \/ Payment!AnswerNotCompleted(reconciler))
              \/ Ordering(Order!AnswerCompleted(reconciler) \/ Order!AnswerNotCompleted(reconciler)))
    /\ SF_all(Paying(Payment!Settle(reconciler)) \/ Ordering(Order!Settle(reconciler)))
    /\ SF_all(Ordering(Order!ListAbandoned(expirer)))
    /\ SF_all(Ordering(Order!Expire(expirer, o1)))

FairSpec == MCInit /\ [][MCNext]_all /\ Fairness

-----------------------------------------------------------------------------
(* Payment!CheckoutIsResolved (ReconcilePending): no payment stays initiated. *)
CheckoutIsResolved == Payment!CheckoutIsResolved

(* Order!EarningsBooked: the earnings of a delivered order are booked.        *)
EarningsBooked == Order!EarningsBooked

(* Order!UnpaidIsReleased: an order nobody pays for gives its stock back.     *)
UnpaidIsReleased == Order!UnpaidIsReleased
(* Access!LapsedIsCleared (ExpireSubscriptions): nobody stays is_pro past the *)
(* end of his subscriptions.                                                  *)
LapsedIsCleared == Access!LapsedIsCleared
=============================================================================
