------------------------- MODULE SubscriptionPayments -------------------------
(***************************************************************************)
(* The bKash lifecycle of subscription payments: PaymentService in         *)
(* internal/service/payment_service.go, the refund of a payment in         *)
(* refund_service.go, the journals and the invoice billing_service.go      *)
(* keeps for it, and the admin edit of a coupon in coupon_handler.go.      *)
(*                                                                         *)
(* A checkout attempt, its bKash session and its bkash_transactions row    *)
(* are one member of Payments.  Database transactions are single steps;    *)
(* what a request read before one (an unlocked status, a bKash answer) is  *)
(* kept in the request's job and may be stale when the transaction runs.   *)
(***************************************************************************)
EXTENDS Naturals, FiniteSets

CONSTANTS
    Payments,     \* checkout attempts
    Coupons,      \* coupon_codes rows
    MaxUses,      \* max_uses of each coupon, 0 for no cap
    Clients,      \* request goroutines calling ExecutePayment
    Reconcilers,  \* reconciler goroutines, one for each API instance
    Admins        \* admins editing coupons

NoCoupon == "no coupon"

ASSUME PaymentsFinite == IsFiniteSet(Payments)
ASSUME CouponsAreCoded == NoCoupon \notin Coupons
ASSUME CapsAreCounts == MaxUses \in [Coupons -> Nat]
ASSUME ActorsAreDistinct == Clients \cap Reconcilers = {}

VARIABLES
    usedCount,    \* coupon_codes.used_count
    active,       \* coupon_codes.is_active
    checkout,     \* how far CreatePayment got
    couponOf,     \* the coupon of the attempt (coupon_code_id once the row exists)
    status,       \* bkash_transactions.status, "none" before the row exists
    reserved,     \* bkash_transactions.coupon_reserved
    subs,         \* user_subscriptions rows this payment produced
    subRefunded,  \* one of them carries refunded_at
    journals,     \* journals whose source is this payment
    invoice,      \* its invoice
    refundRow,    \* its refunds row (unique per source)
    age,          \* 0, past minAge, past cancelAfter
    gateway,      \* the session at bKash
    job,          \* what each request or reconciler goroutine is doing
    edit,         \* the coupon row an admin's edit has loaded
    retaken       \* history: the use was taken again by forceCouponUse

couponVars  == <<usedCount, active>>
checkoutVars == <<checkout, couponOf>>
rowVars     == <<status, reserved, subs, subRefunded>>
billingVars == <<journals, invoice, refundRow>>
vars == <<usedCount, active, checkout, couponOf, status, reserved, subs,
          subRefunded, journals, invoice, refundRow, age, gateway, job, edit,
          retaken>>

Workers == Clients \cup Reconcilers
MaxAge == 2     \* bound: age 1 is older than minAge, 2 older than cancelAfter

Statuses == {"initiated", "completed", "failed", "cancelled", "needs_review",
             "refunded"}
NoJob == [step |-> "idle"]
Jobs == [step : {"ask", "fulfil", "flag", "terminal"}, pay : Payments]
Edits == [coupon : Coupons, used : Nat]
NoEdit == [coupon |-> NoCoupon]

TypeOK ==
    /\ usedCount \in [Coupons -> Nat]
    /\ active \in [Coupons -> BOOLEAN]
    /\ checkout \in [Payments -> {"idle", "priced", "session", "open",
                                  "aborted", "crashed"}]
    /\ couponOf \in [Payments -> Coupons \cup {NoCoupon}]
    /\ status \in [Payments -> Statuses \cup {"none"}]
    /\ reserved \in [Payments -> BOOLEAN]
    /\ subs \in [Payments -> 0..2]
    /\ subRefunded \in [Payments -> BOOLEAN]
    /\ journals \in [Payments -> SUBSET {"payment", "refund:payment"}]
    /\ invoice \in [Payments -> {"none", "issued", "voided"}]
    /\ refundRow \in [Payments -> BOOLEAN]
    /\ age \in [Payments -> 0..MaxAge]
    /\ gateway \in [Payments -> {"absent", "open", "paid", "paid_other", "closed"}]
    /\ job \in [Workers -> Jobs \cup {NoJob}]
    /\ edit \in [Admins -> Edits \cup {NoEdit}]
    /\ retaken \in [Payments -> BOOLEAN]

Init ==
    /\ usedCount = [c \in Coupons |-> 0]
    /\ active = [c \in Coupons |-> TRUE]
    /\ checkout = [p \in Payments |-> "idle"]
    /\ couponOf = [p \in Payments |-> NoCoupon]
    /\ status = [p \in Payments |-> "none"]
    /\ reserved = [p \in Payments |-> FALSE]
    /\ subs = [p \in Payments |-> 0]
    /\ subRefunded = [p \in Payments |-> FALSE]
    /\ journals = [p \in Payments |-> {}]
    /\ invoice = [p \in Payments |-> "none"]
    /\ refundRow = [p \in Payments |-> FALSE]
    /\ age = [p \in Payments |-> 0]
    /\ gateway = [p \in Payments |-> "absent"]
    /\ job = [w \in Workers |-> NoJob]
    /\ edit = [a \in Admins |-> NoEdit]
    /\ retaken = [p \in Payments |-> FALSE]

-----------------------------------------------------------------------------
(* coupon_codes.used_count *)

\* Mutant: the cap is compared with <=.
CanReservePastCap(c) == active[c] /\ (MaxUses[c] = 0 \/ usedCount[c] <= MaxUses[c])

\* The WHERE clause of reserveCoupon.
CanReserve(c) == active[c] /\ (MaxUses[c] = 0 \/ usedCount[c] < MaxUses[c])

\* releaseCoupon never takes the counter below zero.
Released(c) == IF usedCount[c] > 0
               THEN [usedCount EXCEPT ![c] = @ - 1]
               ELSE usedCount

\* Mutant: the use is forgotten.
KeepUse(p) == UNCHANGED usedCount

\* Give the use of p's coupon back, if p has one.
GiveBack(p) == usedCount' = IF couponOf[p] = NoCoupon THEN usedCount
                            ELSE Released(couponOf[p])

-----------------------------------------------------------------------------
(* CreatePayment, step by step: price, bKash session, row *)

\* A checkout without a coupon code.
Price(p) ==
    /\ checkout[p] = "idle"
    /\ checkout' = [checkout EXCEPT ![p] = "priced"]
    /\ UNCHANGED <<couponVars, couponOf, rowVars, billingVars, age, gateway,
                   job, edit, retaken>>

\* validateCoupon passes and reserveCoupon updates one row.
Reserve(p, c) ==
    /\ checkout[p] = "idle"
    /\ CanReserve(c)
    /\ usedCount' = [usedCount EXCEPT ![c] = @ + 1]
    /\ couponOf' = [couponOf EXCEPT ![p] = c]
    /\ checkout' = [checkout EXCEPT ![p] = "priced"]
    /\ UNCHANGED <<active, rowVars, billingVars, age, gateway, job, edit, retaken>>

\* bkashClient.CreatePayment succeeds.
OpenSession(p) ==
    /\ checkout[p] = "priced"
    /\ checkout' = [checkout EXCEPT ![p] = "session"]
    /\ gateway' = [gateway EXCEPT ![p] = "open"]
    /\ UNCHANGED <<couponVars, couponOf, rowVars, billingVars, age, job, edit,
                   retaken>>

\* txRepo.Create succeeds; the caller gets the bKash URL.
InsertRow(p) ==
    /\ checkout[p] = "session"
    /\ checkout' = [checkout EXCEPT ![p] = "open"]
    /\ status' = [status EXCEPT ![p] = "initiated"]
    /\ reserved' = [reserved EXCEPT ![p] = couponOf[p] # NoCoupon]
    /\ UNCHANGED <<couponVars, couponOf, subs, subRefunded, billingVars, age,
                   gateway, job, edit, retaken>>

\* bKash or the insert fails: releaseOnError hands the use back.
AbortCheckout(p) ==
    /\ checkout[p] \in {"priced", "session"}
    /\ checkout' = [checkout EXCEPT ![p] = "aborted"]
    /\ GiveBack(p)
    /\ UNCHANGED <<active, couponOf, rowVars, billingVars, age, gateway, job,
                   edit, retaken>>

\* The process dies between the reservation and the insert.
CrashCheckout(p) ==
    /\ checkout[p] \in {"priced", "session"}
    /\ checkout' = [checkout EXCEPT ![p] = "crashed"]
    /\ UNCHANGED <<couponVars, couponOf, rowVars, billingVars, age, gateway,
                   job, edit, retaken>>

-----------------------------------------------------------------------------
(* bKash and the clock *)

\* The payer completes the payment; bKash reports the amount we charged, or another.
UserPays(p) ==
    /\ checkout[p] = "open"
    /\ gateway[p] = "open"
    /\ \E g \in {"paid", "paid_other"} : gateway' = [gateway EXCEPT ![p] = g]
    /\ UNCHANGED <<couponVars, checkoutVars, rowVars, billingVars, age, job,
                   edit, retaken>>

\* The session is declined or expires at bKash.
SessionCloses(p) ==
    /\ gateway[p] = "open"
    /\ gateway' = [gateway EXCEPT ![p] = "closed"]
    /\ UNCHANGED <<couponVars, checkoutVars, rowVars, billingVars, age, job,
                   edit, retaken>>

Grow(p) ==
    /\ status[p] # "none"
    /\ age[p] < MaxAge
    /\ age' = [age EXCEPT ![p] = @ + 1]
    /\ UNCHANGED <<couponVars, checkoutVars, rowVars, billingVars, gateway,
                   job, edit, retaken>>

Paid(p) == gateway[p] \in {"paid", "paid_other"}

\* Mutant: whatever bKash answers counts as completed.
TrustingVerdicts(p) == {"fulfil"}

\* What a Completed answer leads fulfil to do: flag a different amount; an
\* answer without a readable amount skips the comparison (paidAmount).
Verdicts(p) == CASE gateway[p] = "paid" -> {"fulfil"}
                 [] gateway[p] = "paid_other" -> {"fulfil", "flag"}
                 [] OTHER -> {}

-----------------------------------------------------------------------------
(* A goroutine takes a payment, asks bKash, and acts on the answer *)

Goes(w, j) == job' = [job EXCEPT ![w] = j]
Step(s, p) == [step |-> s, pay |-> p]

\* ExecutePayment's unlocked read: completed and needs_review return at once.
StartExecute(w, p) ==
    /\ w \in Clients
    /\ job[w] = NoJob
    /\ status[p] \in Statuses \ {"completed", "needs_review"}
    /\ Goes(w, Step("ask", p))
    /\ UNCHANGED <<couponVars, checkoutVars, rowVars, billingVars, age,
                   gateway, edit, retaken>>

\* ReconcilePending's SELECT of initiated rows older than minAge.
StartReconcile(w, p) ==
    /\ w \in Reconcilers
    /\ job[w] = NoJob
    /\ status[p] = "initiated"
    /\ age[p] >= 1
    /\ Goes(w, Step("ask", p))
    /\ UNCHANGED <<couponVars, checkoutVars, rowVars, billingVars, age,
                   gateway, edit, retaken>>

\* bKash answers Completed (to the execute, or to the query after it).
AnswerCompleted(w) ==
    /\ job[w] # NoJob
    /\ job[w].step = "ask"
    /\ \E v \in Verdicts(job[w].pay) : Goes(w, Step(v, job[w].pay))
    /\ UNCHANGED <<couponVars, checkoutVars, rowVars, billingVars, age,
                   gateway, edit, retaken>>

\* Mutant: an old checkout is left open.
NeverGivesUp(w, p) == w \in Clients

\* A client's execute closes a payment that is not completed, the reconciler
\* only one older than cancelAfter.
GivesUp(w, p) == w \in Clients \/ age[p] = MaxAge

\* bKash answers something else.  An execute may be rejected for a payment
\* that is complete, with the query after it lost; a query tells the truth.
AnswerNotCompleted(w) ==
    /\ job[w] # NoJob
    /\ job[w].step = "ask"
    /\ w \in Reconcilers => ~Paid(job[w].pay)
    /\ Goes(w, IF GivesUp(w, job[w].pay) THEN Step("terminal", job[w].pay) ELSE NoJob)
    /\ UNCHANGED <<couponVars, checkoutVars, rowVars, billingVars, age,
                   gateway, edit, retaken>>

\* bKash is unreachable, the transaction fails, or the process dies.
DropJob(w) ==
    /\ job[w] # NoJob
    /\ Goes(w, NoJob)
    /\ UNCHANGED <<couponVars, checkoutVars, rowVars, billingVars, age,
                   gateway, edit, retaken>>

\* Mutant: fulfil forgets the second look under the lock.
NeverFulfilled(p) == FALSE

\* fulfil's check under the row lock.
AlreadyFulfilled(p) == status[p] = "completed"

\* Mutant: every fulfilment issues an invoice anew.
ReissueInvoice(i) == "issued"

\* issueInvoice returns the invoice that exists.
IssueInvoice(i) == IF i = "none" THEN "issued" ELSE i

\* fulfil: the transaction that grants a subscription and books the payment.
Fulfil(w) ==
    /\ job[w] # NoJob
    /\ job[w].step = "fulfil"
    /\ LET p == job[w].pay
           force == couponOf[p] # NoCoupon /\ ~reserved[p]
       IN  /\ ~AlreadyFulfilled(p)
           /\ subs' = [subs EXCEPT ![p] = @ + 1]
           /\ usedCount' = IF force
                           THEN [usedCount EXCEPT ![couponOf[p]] = @ + 1]
                           ELSE usedCount
           /\ retaken' = [retaken EXCEPT ![p] = @ \/ force]
           /\ status' = [status EXCEPT ![p] = "completed"]
           /\ reserved' = [reserved EXCEPT ![p] = couponOf[p] # NoCoupon]
           /\ journals' = [journals EXCEPT ![p] = @ \cup {"payment"}]
           /\ invoice' = [invoice EXCEPT ![p] = IssueInvoice(@)]
    /\ Goes(w, NoJob)
    /\ UNCHANGED <<active, checkoutVars, subRefunded, refundRow, age, gateway,
                   edit>>

\* fulfil with another amount: the payment is flagged, nothing is granted.
Flag(w) ==
    /\ job[w] # NoJob
    /\ job[w].step = "flag"
    /\ ~AlreadyFulfilled(job[w].pay)
    /\ status' = [status EXCEPT ![job[w].pay] = "needs_review"]
    /\ Goes(w, NoJob)
    /\ UNCHANGED <<couponVars, checkoutVars, reserved, subs, subRefunded,
                   billingVars, age, gateway, edit, retaken>>

\* fulfil finds the row completed under its lock and returns.
FulfilAgain(w) ==
    /\ job[w] # NoJob
    /\ job[w].step \in {"fulfil", "flag"}
    /\ AlreadyFulfilled(job[w].pay)
    /\ Goes(w, NoJob)
    /\ UNCHANGED <<couponVars, checkoutVars, rowVars, billingVars, age,
                   gateway, edit, retaken>>

\* Mutant: markTerminal overwrites whatever it finds.
AlwaysClosable(p) == status[p] # "none"

\* markTerminal under its row lock: only an initiated payment moves.
Closable(p) == status[p] = "initiated"

CloseRow(p, s) ==
    /\ Closable(p)
    /\ status' = [status EXCEPT ![p] = s]
    /\ IF reserved[p] THEN GiveBack(p) ELSE UNCHANGED usedCount
    /\ reserved' = [reserved EXCEPT ![p] = FALSE]
    /\ UNCHANGED <<active, checkoutVars, subs, subRefunded, billingVars, age,
                   gateway, edit, retaken>>

MarkTerminal(w) ==
    /\ job[w] # NoJob
    /\ job[w].step = "terminal"
    /\ CloseRow(job[w].pay, IF w \in Clients THEN "failed" ELSE "cancelled")
    /\ Goes(w, NoJob)

MarkTerminalAgain(w) ==
    /\ job[w] # NoJob
    /\ job[w].step = "terminal"
    /\ ~Closable(job[w].pay)
    /\ Goes(w, NoJob)
    /\ UNCHANGED <<couponVars, checkoutVars, rowVars, billingVars, age,
                   gateway, edit, retaken>>

\* CancelPayment: the user leaves the checkout.
CancelPayment(p) ==
    /\ CloseRow(p, "cancelled")
    /\ UNCHANGED job

-----------------------------------------------------------------------------
(* Admins *)

\* Mutant: no unique index on the refunds.
RefundableAgain(p) == status[p] \in {"completed", "needs_review"}

\* A second refunds row would break its unique index and roll everything back.
Refundable(p) == status[p] \in {"completed", "needs_review"} /\ ~refundRow[p]

\* Mutant: the invoice is left standing.
LeaveInvoice(i) == i

VoidInvoice(i) == IF i = "issued" THEN "voided" ELSE i

\* RefundSubscriptionPayment
Refund(p) ==
    /\ Refundable(p)
    /\ journals' = [journals EXCEPT ![p] = IF "payment" \in @
                                           THEN @ \cup {"refund:payment"} ELSE @]
    /\ subRefunded' = [subRefunded EXCEPT ![p] = subs[p] > 0]
    /\ invoice' = [invoice EXCEPT ![p] = VoidInvoice(@)]
    /\ IF status[p] = "completed" THEN GiveBack(p) ELSE UNCHANGED usedCount
    /\ status' = [status EXCEPT ![p] = "refunded"]
    /\ refundRow' = [refundRow EXCEPT ![p] = TRUE]
    /\ UNCHANGED <<active, checkoutVars, reserved, subs, age, gateway, job,
                   edit, retaken>>

\* CouponHandler.Update loads the whole row ...
OpenEdit(a, c) ==
    /\ edit[a] = NoEdit
    /\ edit' = [edit EXCEPT ![a] = [coupon |-> c, used |-> usedCount[c]]]
    /\ UNCHANGED <<couponVars, checkoutVars, rowVars, billingVars, age,
                   gateway, job, retaken>>

\* ... and saves every column of it, used_count too.
SaveEdit(a) ==
    /\ edit[a] # NoEdit
    /\ usedCount' = [usedCount EXCEPT ![edit[a].coupon] = edit[a].used]
    /\ \E b \in BOOLEAN : active' = [active EXCEPT ![edit[a].coupon] = b]
    /\ edit' = [edit EXCEPT ![a] = NoEdit]
    /\ UNCHANGED <<checkoutVars, rowVars, billingVars, age, gateway, job, retaken>>

-----------------------------------------------------------------------------
Checkout(p) == \/ Price(p) \/ OpenSession(p) \/ InsertRow(p)
               \/ AbortCheckout(p) \/ CrashCheckout(p)
               \/ \E c \in Coupons : Reserve(p, c)

Settle(w) == \/ Fulfil(w) \/ Flag(w) \/ FulfilAgain(w)
             \/ MarkTerminal(w) \/ MarkTerminalAgain(w)

Next ==
    \/ \E p \in Payments : \/ Checkout(p) \/ UserPays(p) \/ SessionCloses(p)
                           \/ Grow(p) \/ CancelPayment(p) \/ Refund(p)
    \/ \E w \in Workers : \/ \E p \in Payments : StartExecute(w, p) \/ StartReconcile(w, p)
                          \/ AnswerCompleted(w) \/ AnswerNotCompleted(w)
                          \/ DropJob(w) \/ Settle(w)
    \/ \E a \in Admins : SaveEdit(a) \/ \E c \in Coupons : OpenEdit(a, c)

Spec == Init /\ [][Next]_vars

(* The reconciler's ticker always comes round, bKash is reachable again and  *)
(* again, time passes, and a bKash session does not stay open for ever.      *)
Fairness ==
    /\ \A p \in Payments : WF_vars(Grow(p)) /\ WF_vars(SessionCloses(p))
    /\ \A w \in Reconcilers :
        /\ \A p \in Payments : SF_vars(StartReconcile(w, p))
        /\ SF_vars(AnswerCompleted(w) \/ AnswerNotCompleted(w))
        /\ SF_vars(Settle(w))

FairSpec == Spec /\ Fairness

-----------------------------------------------------------------------------
(* Properties *)

\* The attempt p has a use of its coupon counted: its checkout is in flight or
\* died in flight, or its row says reserved and no refund gave the use back.
HoldsUse(p) ==
    /\ couponOf[p] # NoCoupon
    /\ \/ checkout[p] \in {"priced", "session", "crashed"}
       \/ reserved[p] /\ ~subRefunded[p]

Holders(c) == {p \in Payments : couponOf[p] = c /\ HoldsUse(p)}

(* used_count is exactly the number of attempts that hold a use, whatever     *)
(* the order of checkouts, cancels, late fulfilments, crashes and refunds:    *)
(* reserveCoupon, forceCouponUse and releaseCoupon never drift apart from     *)
(* coupon_reserved (payment_service.go).                                      *)
CouponAccounting == \A c \in Coupons : usedCount[c] = Cardinality(Holders(c))

(* "two checkouts racing for the last use cannot both succeed"                *)
(* (payment_service.go:140): apart from uses taken again for payments that    *)
(* came through after they had been closed, the cap is never exceeded.        *)
MaxUsesEnforced ==
    \A c \in Coupons :
        MaxUses[c] > 0 =>
            Cardinality({p \in Holders(c) : ~retaken[p]}) <= MaxUses[c]

(* The counter itself passes the cap only by uses taken again for late        *)
(* payments, even when admins edit the coupon meanwhile (CouponHandler.Update *)
(* never writes a count that was not there before).                           *)
CounterWithinCap ==
    \A c \in Coupons :
        MaxUses[c] > 0 =>
            usedCount[c] <= MaxUses[c]
                            + Cardinality({p \in Payments : couponOf[p] = c /\ retaken[p]})

(* A subscription, a revenue journal or an invoice exists only for a payment  *)
(* bKash took: ExecutePayment and the reconciler never act on a client's      *)
(* word, however stale the answer they carry is.                              *)
NothingWithoutMoney ==
    \A p \in Payments :
        (subs[p] > 0 \/ journals[p] # {} \/ invoice[p] # "none") => Paid(p)

(* Entitlement, revenue and invoice move together: a completed payment that   *)
(* was never refunded is booked and invoiced, a refunded one has nothing      *)
(* standing, and one never completed has no book entry at all.                *)
BooksFollowStatus ==
    \A p \in Payments :
        /\ status[p] = "completed" =>
               "payment" \in journals[p]
        /\ (status[p] = "completed" /\ ~refundRow[p]) =>
               journals[p] = {"payment"} /\ invoice[p] = "issued" /\ subs[p] = 1
        /\ status[p] = "refunded" =>
               invoice[p] # "issued" /\ journals[p] # {"payment"}
        /\ ("payment" \in journals[p]) <=> subs[p] > 0

(* However many executes, retries and reconcilers confirm one payment, at     *)
(* most one subscription of it is in force.                                   *)
OneLiveGrant ==
    \A p \in Payments : subs[p] <= 1 \/ (subRefunded[p] /\ subs[p] = 2)

(* markTerminal "can never undo a completed payment" (payment_service.go:508):*)
(* a completed payment leaves that status through a refund only, and no       *)
(* subscription row, journal or refund row ever disappears.                   *)
CompletedIsKept ==
    [][\A p \in Payments :
        /\ status[p] = "completed" =>
               status'[p] = "completed" \/ (~refundRow[p] /\ refundRow'[p])
        /\ subs'[p] >= subs[p]
        /\ journals[p] \subseteq journals'[p]
        /\ refundRow[p] => refundRow'[p]]_vars

(* Every checkout is resolved: a payment does not stay initiated, it is       *)
(* settled or closed with its coupon use given back, once the reconciler can  *)
(* reach bKash (ReconcilePending).                                            *)
CheckoutIsResolved ==
    \A p \in Payments : status[p] = "initiated" ~>
        \/ status[p] \in {"completed", "needs_review", "refunded"}
        \/ status[p] \in {"failed", "cancelled"} /\ ~HoldsUse(p)

\* How the ledger and the invoices of a payment stand, as PaymentBook sees them.
Phase(p) == IF "refund:payment" \in journals[p] THEN "reversed"
            ELSE IF "payment" \in journals[p] THEN "booked"
            ELSE IF Paid(p) THEN "paid" ELSE "unpaid"

Book == INSTANCE PaymentBook
            WITH phase <- [p \in Payments |-> Phase(p)], receipt <- invoice

(* Fulfilment and refund implement PaymentBook: postJournal and issueInvoice  *)
(* are idempotent on the payment (billing_service.go:88,194), so a payment    *)
(* confirmed again by a retry, a reconciler or after its refund changes       *)
(* nothing in the books.                                                      *)
BookSpec == Book!Spec

(* What the properties rest on, an invariant each step preserves.             *)

\* A row exists once the checkout is open, a session once bKash created it;
\* only an existing row holds a reservation, and only of a coupon.
RowInv(p) ==
    /\ status[p] = "none" <=> checkout[p] # "open"
    /\ checkout[p] \in {"idle", "priced"} => gateway[p] = "absent"
    /\ Paid(p) => checkout[p] = "open"
    /\ checkout[p] = "idle" => couponOf[p] = NoCoupon
    /\ reserved[p] => checkout[p] = "open" /\ couponOf[p] # NoCoupon

\* A payment grants a second time only after its one refund.
GrantInv(p) ==
    /\ status[p] \in {"none", "initiated"} => subs[p] = 0 /\ ~refundRow[p]
    /\ status[p] = "completed" => subs[p] > 0 /\ reserved[p] = (couponOf[p] # NoCoupon)
    /\ subs[p] = 1 => status[p] = "completed" \/ subRefunded[p]
    /\ subs[p] = 2 => status[p] = "completed" /\ subRefunded[p]
    /\ subRefunded[p] => refundRow[p] /\ subs[p] > 0 /\ reserved[p] = (couponOf[p] # NoCoupon)

\* Journals, invoice, refund and grants of a payment agree.
BookInv(p) ==
    /\ "payment" \in journals[p] <=> subs[p] > 0
    /\ "refund:payment" \in journals[p] => "payment" \in journals[p] /\ refundRow[p]
    /\ invoice[p] = "none" <=> "payment" \notin journals[p]
    /\ invoice[p] = "voided" <=> "refund:payment" \in journals[p]
    /\ (status[p] = "refunded" /\ "payment" \in journals[p]) => "refund:payment" \in journals[p]
    /\ "payment" \in journals[p] => Paid(p)

\* A job that goes to fulfil carries the answer to a payment that was made.
JobInv(w) == (job[w] # NoJob /\ job[w].step \in {"fulfil", "flag"}) => Paid(job[w].pay)

IndInv ==
    /\ TypeOK
    /\ \A p \in Payments : RowInv(p) /\ GrantInv(p) /\ BookInv(p)
    /\ \A w \in Workers : JobInv(w)

\* What CounterWithinCap rests on: only a payment past its checkout took its
\* use again, once, and a row an admin has loaded is within the cap as well.
RetakenInv(p) ==
    retaken[p] => reserved[p] /\ couponOf[p] # NoCoupon /\ status[p] \notin {"none", "initiated"}

EditInv(a) ==
    edit[a] # NoEdit /\ MaxUses[edit[a].coupon] > 0 =>
        edit[a].used <= MaxUses[edit[a].coupon]
                        + Cardinality({p \in Payments : couponOf[p] = edit[a].coupon /\ retaken[p]})

CounterInv ==
    /\ \A p \in Payments : RetakenInv(p)
    /\ \A a \in Admins : EditInv(a)
    /\ CounterWithinCap

(* fulfil works "atomically, exactly once" (payment_service.go:297), so a     *)
(* payment produces one subscription row.                                     *)
GrantedOnce == \A p \in Payments : subs[p] <= 1
=============================================================================
