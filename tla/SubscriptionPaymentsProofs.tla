---------------------- MODULE SubscriptionPaymentsProofs ----------------------
(***************************************************************************)
(* Theorems about SubscriptionPayments for any set of payments, coupons,   *)
(* caps, clients, reconcilers and admins.                                  *)
(***************************************************************************)
EXTENDS SubscriptionPayments, FiniteSetTheorems, TLAPS

-----------------------------------------------------------------------------
(* The inductive invariant *)

LEMMA InitInd == Init => IndInv
<1> SUFFICES ASSUME Init PROVE IndInv
  OBVIOUS
<1>1. TypeOK
  BY DEF Init, TypeOK, Statuses, MaxAge
<1>2. ASSUME NEW p \in Payments PROVE RowInv(p) /\ GrantInv(p) /\ BookInv(p)
  BY DEF Init, RowInv, GrantInv, BookInv, Paid
<1>3. ASSUME NEW w \in Workers PROVE JobInv(w)
  BY DEF Init, JobInv
<1> QED
  BY <1>1, <1>2, <1>3 DEF IndInv

LEMMA CheckoutInd ==
  ASSUME IndInv, NEW p \in Payments, Checkout(p)
  PROVE  IndInv'
<1> USE DEF IndInv, TypeOK, RowInv, GrantInv, BookInv, JobInv, Paid, couponVars,
            checkoutVars, rowVars, billingVars, Statuses
<1>1. CASE Price(p)
  BY <1>1 DEF Price
<1>2. CASE OpenSession(p)
  BY <1>2 DEF OpenSession
<1>3. CASE InsertRow(p)
  BY <1>3 DEF InsertRow
<1>4. CASE AbortCheckout(p)
  BY <1>4, CouponsAreCoded DEF AbortCheckout, GiveBack, Released
<1>5. CASE CrashCheckout(p)
  BY <1>5 DEF CrashCheckout
<1>6. ASSUME NEW c \in Coupons, Reserve(p, c) PROVE IndInv'
  BY <1>6, CouponsAreCoded DEF Reserve
<1> QED
  BY <1>1, <1>2, <1>3, <1>4, <1>5, <1>6 DEF Checkout

\* Closing a row disturbs the payment's status and reservation and the counter.
LEMMA CloseRowInd ==
  ASSUME IndInv, NEW p \in Payments, NEW s \in {"failed", "cancelled"},
         CloseRow(p, s), job' \in [Workers -> Jobs \cup {NoJob}],
         \A w \in Workers : job'[w] = job[w] \/ job'[w] = NoJob
  PROVE  IndInv'
<1> USE DEF IndInv, CloseRow, Closable, couponVars, checkoutVars, rowVars, billingVars
<1>1. TypeOK'
  BY CouponsAreCoded DEF TypeOK, GiveBack, Released, Statuses
<1>2. ASSUME NEW q \in Payments PROVE RowInv(q)' /\ GrantInv(q)' /\ BookInv(q)'
  <2>1. CASE q = p
    <3>1. RowInv(q)'
      BY <2>1 DEF TypeOK, RowInv, Paid
    <3>2. GrantInv(q)'
      <4>1. status'[q] = s /\ UNCHANGED <<subs, refundRow, subRefunded>>
        BY <2>1 DEF TypeOK
      <4>2. subs[q] = 0 /\ ~refundRow[q] /\ ~subRefunded[q]
        BY <2>1 DEF GrantInv, TypeOK
      <4> QED
        BY <4>1, <4>2 DEF GrantInv
    <3>3. BookInv(q)'
      BY <2>1 DEF TypeOK, BookInv, Paid
    <3> QED
      BY <3>1, <3>2, <3>3
  <2>2. CASE q # p
    BY <2>2 DEF TypeOK, RowInv, GrantInv, BookInv, Paid
  <2> QED
    BY <2>1, <2>2
<1>3. ASSUME NEW w \in Workers PROVE JobInv(w)'
  BY <1>3 DEF JobInv, Paid
<1> QED
  BY <1>1, <1>2, <1>3

LEMMA GatewayInd ==
  ASSUME IndInv, NEW p \in Payments,
         UserPays(p) \/ SessionCloses(p) \/ Grow(p) \/ CancelPayment(p) \/ Refund(p)
  PROVE  IndInv'
<1> USE DEF IndInv, TypeOK, RowInv, GrantInv, BookInv, JobInv, Paid, couponVars,
            checkoutVars, rowVars, billingVars, Statuses
<1>1. CASE UserPays(p)
  BY <1>1 DEF UserPays, Jobs, NoJob
<1>2. CASE SessionCloses(p)
  BY <1>2 DEF SessionCloses, Jobs, NoJob
<1>3. CASE Grow(p)
  BY <1>3 DEF Grow, MaxAge
<1>4. CASE CancelPayment(p)
  BY <1>4, CloseRowInd DEF CancelPayment
<1>5. CASE Refund(p)
  <2>1. TypeOK'
    BY <1>5, CouponsAreCoded DEF Refund, Refundable, VoidInvoice, GiveBack, Released
  <2>2. RowInv(p)' /\ GrantInv(p)'
    <3>1. status[p] = "completed" \/ (status[p] = "needs_review" /\ subs[p] = 0)
      BY <1>5 DEF Refund, Refundable
    <3>2. /\ status'[p] = "refunded" /\ refundRow'[p] /\ subs'[p] = subs[p]
          /\ subs[p] \in 0..2 /\ subs[p] # 2
          /\ subRefunded'[p] = (subs[p] > 0) /\ reserved'[p] = reserved[p]
      BY <1>5 DEF Refund, Refundable
    <3>3. GrantInv(p)'
      <4>1. status'[p] = "refunded" /\ couponOf'[p] = couponOf[p]
        BY <1>5, <3>2 DEF Refund
      <4>2. CASE status[p] = "completed"
        <5>1. subs[p] > 0 /\ reserved[p] = (couponOf[p] # NoCoupon)
          BY <4>2
        <5>2. reserved'[p] = (couponOf'[p] # NoCoupon)
          BY <3>2, <4>1, <5>1
        <5>3. subs'[p] = 1
          BY <3>2, <5>1
        <5>4. subRefunded'[p]
          BY <3>2, <5>1
        <5> QED
          BY <3>2, <4>1, <5>2, <5>3, <5>4
      <4>3. CASE subs[p] = 0
        BY <3>2, <4>1, <4>3
      <4> QED
        BY <3>1, <4>2, <4>3
    <3>4. RowInv(p)'
      BY <1>5, <3>1, <3>2 DEF Refund
    <3> QED
      BY <3>3, <3>4
  <2>3. BookInv(p)'
    BY <1>5 DEF Refund, Refundable, VoidInvoice
  <2>4. ASSUME NEW q \in Payments, q # p PROVE RowInv(q)' /\ GrantInv(q)' /\ BookInv(q)'
    BY <1>5, <2>4 DEF Refund
  <2>5. ASSUME NEW w \in Workers PROVE JobInv(w)'
    BY <1>5 DEF Refund
  <2> QED
    BY <2>1, <2>2, <2>3, <2>4, <2>5
<1> QED
  BY <1>1, <1>2, <1>3, <1>4, <1>5

LEMMA WorkerInd ==
  ASSUME IndInv, NEW w \in Workers,
         \/ \E p \in Payments : StartExecute(w, p) \/ StartReconcile(w, p)
         \/ AnswerCompleted(w) \/ AnswerNotCompleted(w)
         \/ DropJob(w) \/ Settle(w)
  PROVE  IndInv'
<1> USE DEF IndInv, TypeOK, RowInv, GrantInv, BookInv, JobInv, Paid, couponVars,
            checkoutVars, rowVars, billingVars, Statuses, Jobs, NoJob, Goes, Step
<1>1. ASSUME NEW p \in Payments, StartExecute(w, p) \/ StartReconcile(w, p)
      PROVE  IndInv'
  <2>1. CASE StartExecute(w, p)
    BY <2>1 DEF StartExecute
  <2>2. CASE StartReconcile(w, p)
    BY <2>2 DEF StartReconcile
  <2> QED
    BY <1>1, <2>1, <2>2
<1>2. CASE AnswerCompleted(w)
  BY <1>2 DEF AnswerCompleted, Verdicts
<1>3. CASE AnswerNotCompleted(w)
  BY <1>3 DEF AnswerNotCompleted, GivesUp
<1>4. CASE DropJob(w)
  BY <1>4 DEF DropJob
<1>5. CASE Fulfil(w)
  <2> DEFINE p == job[w].pay
  <2>1. p \in Payments /\ Paid(p) /\ status[p] # "completed"
    BY <1>5 DEF Fulfil, AlreadyFulfilled
  <2>2. subs[p] \in {0, 1} /\ status[p] # "none"
    BY <2>1
  <2>3. TypeOK'
    BY <1>5, <2>1, <2>2, CouponsAreCoded DEF Fulfil, IssueInvoice
  <2>4. ASSUME NEW q \in Payments PROVE RowInv(q)' /\ GrantInv(q)' /\ BookInv(q)'
    <3>1. CASE q = p
      BY <1>5, <2>1, <2>2, <3>1 DEF Fulfil, IssueInvoice
    <3>2. CASE q # p
      BY <1>5, <2>1, <3>2 DEF Fulfil, IssueInvoice
    <3> QED
      BY <3>1, <3>2
  <2>5. ASSUME NEW v \in Workers PROVE JobInv(v)'
    BY <1>5 DEF Fulfil
  <2> HIDE DEF p
  <2> QED
    BY <2>3, <2>4, <2>5
<1>6. CASE Flag(w)
  <2> DEFINE p == job[w].pay
  <2>1. p \in Payments /\ Paid(p) /\ status[p] # "completed"
    BY <1>6 DEF Flag, AlreadyFulfilled
  <2>2. TypeOK'
    BY <1>6, <2>1 DEF Flag
  <2>3. ASSUME NEW q \in Payments PROVE RowInv(q)' /\ GrantInv(q)' /\ BookInv(q)'
    BY <1>6, <2>1 DEF Flag
  <2>4. ASSUME NEW v \in Workers PROVE JobInv(v)'
    BY <1>6 DEF Flag
  <2> QED
    BY <2>2, <2>3, <2>4
<1>7. CASE FulfilAgain(w)
  BY <1>7 DEF FulfilAgain
<1>8. CASE MarkTerminal(w)
  <2>1. job[w].pay \in Payments
    BY <1>8 DEF MarkTerminal
  <2> QED
    BY <1>8, <2>1, CloseRowInd DEF MarkTerminal
<1>9. CASE MarkTerminalAgain(w)
  BY <1>9 DEF MarkTerminalAgain
<1> QED
  BY <1>1, <1>2, <1>3, <1>4, <1>5, <1>6, <1>7, <1>8, <1>9 DEF Settle

LEMMA AdminInd ==
  ASSUME IndInv, NEW a \in Admins,
         SaveEdit(a) \/ \E c \in Coupons : OpenEdit(a, c)
  PROVE  IndInv'
<1> USE DEF IndInv, TypeOK, RowInv, GrantInv, BookInv, JobInv, Paid, couponVars,
            checkoutVars, rowVars, billingVars, Edits, NoEdit
<1>1. CASE SaveEdit(a)
  BY <1>1 DEF SaveEdit
<1>2. ASSUME NEW c \in Coupons, OpenEdit(a, c) PROVE IndInv'
  BY <1>2 DEF OpenEdit
<1> QED
  BY <1>1, <1>2

LEMMA NextInd == IndInv /\ [Next]_vars => IndInv'
<1> SUFFICES ASSUME IndInv, [Next]_vars PROVE IndInv'
  OBVIOUS
<1>1. CASE UNCHANGED vars
  BY <1>1 DEF vars, IndInv, TypeOK, RowInv, GrantInv, BookInv, JobInv, Paid
<1>2. CASE Next
  BY <1>2, CheckoutInd, GatewayInd, WorkerInd, AdminInd DEF Next
<1> QED
  BY <1>1, <1>2

LEMMA Inductive == Spec => []IndInv
  BY InitInd, NextInd, PTL DEF Spec

(* Every variable keeps its type; in particular no payment ever produces a    *)
(* third subscription row (grantSubscription inside fulfil).                  *)
THEOREM TypeCorrect == Spec => []TypeOK
  BY Inductive, PTL DEF IndInv

(* fulfil and the ledger act only on money bKash took.                        *)
THEOREM MoneyFirst == Spec => []NothingWithoutMoney
<1>1. IndInv => NothingWithoutMoney
  BY DEF IndInv, TypeOK, BookInv, NothingWithoutMoney
<1> QED
  BY <1>1, Inductive, PTL

(* The books follow the status of the payment.                                *)
THEOREM BooksAgree == Spec => []BooksFollowStatus
<1>1. IndInv => BooksFollowStatus
  BY DEF IndInv, TypeOK, GrantInv, BookInv, BooksFollowStatus
<1> QED
  BY <1>1, Inductive, PTL

(* At most one subscription of a payment is in force.                         *)
THEOREM NoDoubleGrant == Spec => []OneLiveGrant
<1>1. IndInv => OneLiveGrant
  BY DEF IndInv, TypeOK, GrantInv, OneLiveGrant
<1> QED
  BY <1>1, Inductive, PTL

-----------------------------------------------------------------------------
(* Refinement of PaymentBook *)

\* A step that leaves session, journals and invoice alone is a stutter.
LEMMA BookStutter ==
  ASSUME UNCHANGED <<billingVars, gateway>>
  PROVE  UNCHANGED <<[p \in Payments |-> Phase(p)], invoice>>
  BY DEF billingVars, Phase, Paid

LEMMA BookTake ==
  ASSUME IndInv, NEW p \in Payments, UserPays(p)
  PROVE  Book!Take(p)
<1>1. Phase(p) = "unpaid" /\ Phase(p)' = "paid"
  BY DEF UserPays, billingVars, IndInv, TypeOK, BookInv, Phase, Paid
<1>2. \A q \in Payments \ {p} : Phase(q)' = Phase(q)
  BY DEF UserPays, billingVars, IndInv, TypeOK, Phase, Paid
<1> QED
  BY <1>1, <1>2 DEF UserPays, billingVars, Book!Take, Book!Moves

LEMMA BookBook ==
  ASSUME IndInv, NEW w \in Workers, Fulfil(w), NEW p \in Payments, job[w].pay = p
  PROVE  \/ Book!Book(p)
         \/ UNCHANGED <<[q \in Payments |-> Phase(q)], invoice>>
<1>1. Paid(p)
  BY DEF Fulfil, IndInv, TypeOK, Jobs, NoJob, JobInv
<1>2. \A q \in Payments \ {p} : Phase(q)' = Phase(q) /\ invoice'[q] = invoice[q]
  BY <1>1 DEF Fulfil, IndInv, TypeOK, Phase, Paid
<1>3. CASE "payment" \in journals[p]
  <2>1. Phase(p)' = Phase(p)
    BY <1>1, <1>3 DEF Fulfil, IndInv, TypeOK, Phase, Paid
  <2>2. invoice' = invoice
    BY <1>1, <1>3 DEF Fulfil, IndInv, TypeOK, BookInv, IssueInvoice
  <2> QED
    BY <1>2, <2>1, <2>2
<1>4. CASE "payment" \notin journals[p]
  <2>1. Phase(p) = "paid" /\ Phase(p)' = "booked"
    BY <1>1, <1>4 DEF Fulfil, IndInv, TypeOK, BookInv, Phase, Paid
  <2>2. invoice' = [invoice EXCEPT ![p] = "issued"]
    BY <1>1, <1>4 DEF Fulfil, IndInv, TypeOK, BookInv, IssueInvoice
  <2> QED
    BY <1>1, <1>2, <2>1, <2>2 DEF Book!Book, Book!Moves
<1> QED
  BY <1>3, <1>4

LEMMA BookReverse ==
  ASSUME IndInv, NEW p \in Payments, Refund(p)
  PROVE  \/ Book!Reverse(p)
         \/ UNCHANGED <<[q \in Payments |-> Phase(q)], invoice>>
<1>1. \A q \in Payments \ {p} : Phase(q)' = Phase(q) /\ invoice'[q] = invoice[q]
  BY DEF Refund, IndInv, TypeOK, Phase, Paid
<1>2. CASE "payment" \in journals[p]
  <2>1. Phase(p) = "booked" /\ Phase(p)' = "reversed"
    BY <1>2 DEF Refund, Refundable, IndInv, TypeOK, BookInv, Phase, Paid
  <2>2. invoice' = [invoice EXCEPT ![p] = "voided"]
    BY <1>2 DEF Refund, Refundable, IndInv, TypeOK, BookInv, VoidInvoice
  <2> QED
    BY <1>1, <2>1, <2>2 DEF Book!Reverse, Book!Moves
<1>3. CASE "payment" \notin journals[p]
  <2>1. Phase(p)' = Phase(p)
    BY <1>3 DEF Refund, IndInv, TypeOK, Phase, Paid
  <2>2. invoice' = invoice
    BY <1>3 DEF Refund, IndInv, TypeOK, BookInv, VoidInvoice
  <2> QED
    BY <1>1, <2>1, <2>2
<1> QED
  BY <1>2, <1>3

LEMMA BookStep ==
  ASSUME IndInv, [Next]_vars
  PROVE  [Book!Next]_<<[p \in Payments |-> Phase(p)], invoice>>
<1> USE DEF couponVars, checkoutVars, rowVars, billingVars
<1>1. CASE UNCHANGED vars
  BY <1>1, BookStutter DEF vars
<1>2. ASSUME NEW p \in Payments, Checkout(p) \/ SessionCloses(p)
      PROVE  UNCHANGED <<[q \in Payments |-> Phase(q)], invoice>>
  <2>1. \A q \in Payments : Paid(q)' = Paid(q)
    BY <1>2 DEF Checkout, Price, Reserve, OpenSession, InsertRow, AbortCheckout,
                CrashCheckout, SessionCloses, IndInv, TypeOK, RowInv, Paid
  <2>2. UNCHANGED <<journals, invoice>>
    BY <1>2 DEF Checkout, Price, Reserve, OpenSession, InsertRow, AbortCheckout,
                CrashCheckout, SessionCloses
  <2> QED
    BY <2>1, <2>2 DEF Phase
<1>3. ASSUME NEW p \in Payments, Grow(p) \/ CancelPayment(p)
      PROVE  UNCHANGED <<[q \in Payments |-> Phase(q)], invoice>>
  BY <1>3, BookStutter DEF Grow, CancelPayment, CloseRow
<1>4. ASSUME NEW w \in Workers,
             \/ \E p \in Payments : StartExecute(w, p) \/ StartReconcile(w, p)
             \/ AnswerCompleted(w) \/ AnswerNotCompleted(w) \/ DropJob(w)
             \/ Flag(w) \/ FulfilAgain(w) \/ MarkTerminal(w) \/ MarkTerminalAgain(w)
      PROVE  UNCHANGED <<[q \in Payments |-> Phase(q)], invoice>>
  BY <1>4, BookStutter DEF StartExecute, StartReconcile, AnswerCompleted,
     AnswerNotCompleted, DropJob, Flag, FulfilAgain, MarkTerminal,
     MarkTerminalAgain, CloseRow
<1>5. ASSUME NEW w \in Workers, Fulfil(w)
      PROVE  [Book!Next]_<<[p \in Payments |-> Phase(p)], invoice>>
  <2>1. job[w].pay \in Payments
    BY <1>5 DEF Fulfil, IndInv, TypeOK, Jobs, NoJob
  <2> QED
    BY <1>5, <2>1, BookBook DEF Book!Next
<1>6. ASSUME NEW a \in Admins, SaveEdit(a) \/ \E c \in Coupons : OpenEdit(a, c)
      PROVE  UNCHANGED <<[q \in Payments |-> Phase(q)], invoice>>
  BY <1>6, BookStutter DEF SaveEdit, OpenEdit
<1>7. CASE Next
  BY <1>2, <1>3, <1>4, <1>5, <1>6, <1>7, BookTake, BookReverse
     DEF Next, Settle, Book!Next
<1> QED
  BY <1>1, <1>7

(* Fulfilment and refund implement the abstract book of PaymentBook: a        *)
(* payment is booked once, only after the money, and reversed at most once,   *)
(* each together with its invoice.                                            *)
THEOREM ImplementsBook == Spec => BookSpec
<1>1. Init => Book!Init
  BY DEF Init, Book!Init, Phase, Paid
<1> QED
  BY <1>1, BookStep, Inductive, PTL DEF Spec, BookSpec, Book!Spec

-----------------------------------------------------------------------------
(* A completed payment stays completed until its refund *)

LEMMA KeptStep ==
  ASSUME IndInv, Next, NEW p \in Payments
  PROVE  /\ status[p] = "completed" =>
                status'[p] = "completed" \/ (~refundRow[p] /\ refundRow'[p])
         /\ subs'[p] >= subs[p]
         /\ journals[p] \subseteq journals'[p]
         /\ refundRow[p] => refundRow'[p]
<1> USE DEF IndInv, TypeOK, couponVars, checkoutVars, rowVars, billingVars
<1>1. ASSUME NEW q \in Payments, Checkout(q)
      PROVE  UNCHANGED <<subs, journals, refundRow>> /\
             (status[p] = "completed" => status'[p] = "completed")
  BY <1>1 DEF Checkout, Price, Reserve, OpenSession, InsertRow, AbortCheckout,
              CrashCheckout, RowInv
<1>2. ASSUME NEW q \in Payments, UserPays(q) \/ SessionCloses(q) \/ Grow(q)
      PROVE  UNCHANGED <<subs, journals, refundRow, status>>
  BY <1>2 DEF UserPays, SessionCloses, Grow
<1>3. ASSUME NEW q \in Payments, NEW s, CloseRow(q, s)
      PROVE  UNCHANGED <<subs, journals, refundRow>> /\
             (status[p] = "completed" => status'[p] = "completed")
  BY <1>3 DEF CloseRow, Closable
<1>4. ASSUME NEW q \in Payments, Refund(q)
      PROVE  /\ UNCHANGED subs
             /\ journals[p] \subseteq journals'[p]
             /\ refundRow[p] => refundRow'[p]
             /\ status'[p] = status[p] \/ (~refundRow[p] /\ refundRow'[p])
  BY <1>4 DEF Refund, Refundable
<1>5. ASSUME NEW w \in Workers,
             \/ \E q \in Payments : StartExecute(w, q) \/ StartReconcile(w, q)
             \/ AnswerCompleted(w) \/ AnswerNotCompleted(w) \/ DropJob(w)
             \/ FulfilAgain(w) \/ MarkTerminalAgain(w)
      PROVE  UNCHANGED <<subs, journals, refundRow, status>>
  BY <1>5 DEF StartExecute, StartReconcile, AnswerCompleted, AnswerNotCompleted,
              DropJob, FulfilAgain, MarkTerminalAgain
<1>6. ASSUME NEW w \in Workers, Fulfil(w)
      PROVE  /\ UNCHANGED refundRow
             /\ journals[p] \subseteq journals'[p]
             /\ subs'[p] >= subs[p]
             /\ status'[p] = status[p] \/ status[p] # "completed"
  BY <1>6 DEF Fulfil, AlreadyFulfilled, Jobs, NoJob
<1>7. ASSUME NEW w \in Workers, Flag(w)
      PROVE  /\ UNCHANGED <<subs, journals, refundRow>>
             /\ status'[p] = status[p] \/ status[p] # "completed"
  BY <1>7 DEF Flag, AlreadyFulfilled, Jobs, NoJob
<1>8. ASSUME NEW w \in Workers, MarkTerminal(w)
      PROVE  UNCHANGED <<subs, journals, refundRow>> /\
             (status[p] = "completed" => status'[p] = "completed")
  <2>1. job[w].pay \in Payments
    BY <1>8 DEF MarkTerminal, Jobs, NoJob
  <2> QED
    BY <1>3, <1>8, <2>1 DEF MarkTerminal
<1>9. ASSUME NEW a \in Admins, SaveEdit(a) \/ \E c \in Coupons : OpenEdit(a, c)
      PROVE  UNCHANGED <<subs, journals, refundRow, status>>
  BY <1>9 DEF SaveEdit, OpenEdit
<1>10. ASSUME NEW q \in Payments, CancelPayment(q)
       PROVE  UNCHANGED <<subs, journals, refundRow>> /\
              (status[p] = "completed" => status'[p] = "completed")
  BY <1>3, <1>10 DEF CancelPayment
<1> QED
  BY <1>1, <1>2, <1>4, <1>5, <1>6, <1>7, <1>8, <1>9, <1>10 DEF Next, Settle

(* markTerminal, fulfil and the refund never undo a completed payment except  *)
(* by its one refund, and never take a row, a journal or a refund away.       *)
THEOREM CompletedKept == Spec => CompletedIsKept
<1>1. IndInv /\ [Next]_vars =>
        [\A p \in Payments :
          /\ status[p] = "completed" =>
                 status'[p] = "completed" \/ (~refundRow[p] /\ refundRow'[p])
          /\ subs'[p] >= subs[p]
          /\ journals[p] \subseteq journals'[p]
          /\ refundRow[p] => refundRow'[p]]_vars
  BY KeptStep
<1> QED
  BY <1>1, Inductive, PTL DEF Spec, CompletedIsKept

-----------------------------------------------------------------------------
(* used_count counts the uses that are held *)

LEMMA HoldersFinite == ASSUME NEW c \in Coupons PROVE IsFiniteSet(Holders(c))
  BY PaymentsFinite, FS_Subset DEF Holders

\* The three ways a step may touch the counter: not at all, one attempt takes
\* a use, one attempt gives its use back.
LEMMA CountSame ==
  ASSUME CouponAccounting, UNCHANGED usedCount,
         \A q \in Payments : HoldsUse(q)' = HoldsUse(q) /\
                             (HoldsUse(q) => couponOf'[q] = couponOf[q])
  PROVE  CouponAccounting'
<1>1. ASSUME NEW c \in Coupons PROVE Holders(c)' = Holders(c)
  BY DEF Holders
<1> QED
  BY <1>1 DEF CouponAccounting

LEMMA CountTake ==
  ASSUME IndInv, CouponAccounting, NEW p \in Payments, NEW d \in Coupons,
         usedCount' = [usedCount EXCEPT ![d] = @ + 1],
         ~HoldsUse(p), HoldsUse(p)', couponOf'[p] = d,
         \A q \in Payments \ {p} : HoldsUse(q)' = HoldsUse(q) /\ couponOf'[q] = couponOf[q]
  PROVE  CouponAccounting'
<1>1. usedCount \in [Coupons -> Nat]
  BY DEF IndInv, TypeOK
<1>2. ASSUME NEW c \in Coupons PROVE usedCount'[c] = Cardinality(Holders(c)')
  <2>1. CASE c = d
    <3>1. Holders(c)' = Holders(c) \cup {p} /\ p \notin Holders(c)
      BY <2>1 DEF Holders
    <3>2. Cardinality(Holders(c)') = Cardinality(Holders(c)) + 1
      BY <3>1, HoldersFinite, FS_AddElement
    <3> QED
      BY <1>1, <2>1, <3>2 DEF CouponAccounting
  <2>2. CASE c # d
    <3>1. Holders(c)' = Holders(c)
      BY <2>2 DEF Holders
    <3> QED
      BY <1>1, <2>2, <3>1 DEF CouponAccounting
  <2> QED
    BY <2>1, <2>2
<1> QED
  BY <1>2 DEF CouponAccounting

LEMMA CountGive ==
  ASSUME IndInv, CouponAccounting, NEW p \in Payments, GiveBack(p),
         UNCHANGED couponOf, couponOf[p] # NoCoupon => HoldsUse(p), ~HoldsUse(p)',
         \A q \in Payments \ {p} : HoldsUse(q)' = HoldsUse(q)
  PROVE  CouponAccounting'
<1>1. usedCount \in [Coupons -> Nat] /\ couponOf \in [Payments -> Coupons \cup {NoCoupon}]
  BY DEF IndInv, TypeOK
<1>2. CASE couponOf[p] = NoCoupon
  BY <1>2, CountSame DEF GiveBack, HoldsUse
<1>3. CASE couponOf[p] # NoCoupon
  <2> DEFINE d == couponOf[p]
  <2>1. d \in Coupons /\ p \in Holders(d)
    BY <1>1, <1>3 DEF Holders
  <2>2. Cardinality(Holders(d)) \in Nat /\ Cardinality(Holders(d)) # 0
    BY <2>1, HoldersFinite, FS_CardinalityType, FS_EmptySet
  <2>3. usedCount' = [usedCount EXCEPT ![d] = @ - 1]
    BY <1>1, <1>3, <2>1, <2>2 DEF GiveBack, Released, CouponAccounting
  <2>4. ASSUME NEW c \in Coupons PROVE usedCount'[c] = Cardinality(Holders(c)')
    <3>1. CASE c = couponOf[p]
      <4>1. Holders(c)' = Holders(c) \ {p} /\ p \in Holders(c)
        BY <2>1, <3>1 DEF Holders
      <4>2. Cardinality(Holders(c)') = Cardinality(Holders(c)) - 1
        BY <4>1, HoldersFinite, FS_RemoveElement
      <4> QED
        BY <1>1, <2>3, <3>1, <4>2 DEF CouponAccounting
    <3>2. CASE c # couponOf[p]
      <4>1. Holders(c)' = Holders(c)
        BY <3>2 DEF Holders
      <4> QED
        BY <1>1, <2>3, <3>2, <4>1 DEF CouponAccounting
    <3> QED
      BY <3>1, <3>2
  <2> QED
    BY <2>4 DEF CouponAccounting
<1> QED
  BY <1>2, <1>3

LEMMA CountStutter ==
  ASSUME CouponAccounting, UNCHANGED <<usedCount, checkout, couponOf, reserved, subRefunded>>
  PROVE  CouponAccounting'
  BY CountSame DEF HoldsUse

LEMMA CountCheckout ==
  ASSUME IndInv, CouponAccounting, NEW p \in Payments, Checkout(p)
  PROVE  CouponAccounting'
<1> USE DEF couponVars, rowVars, checkoutVars, billingVars
<1>0. /\ couponOf \in [Payments -> Coupons \cup {NoCoupon}]
      /\ checkout \in [Payments -> {"idle", "priced", "session", "open", "aborted", "crashed"}]
      /\ reserved \in [Payments -> BOOLEAN]
      /\ RowInv(p) /\ GrantInv(p)
  BY DEF IndInv, TypeOK
<1>1. CASE Price(p)
  BY <1>0, <1>1, CountSame DEF Price, HoldsUse, RowInv
<1>2. ASSUME NEW c \in Coupons, Reserve(p, c) PROVE CouponAccounting'
  <2>1. ~HoldsUse(p) /\ HoldsUse(p)' /\ couponOf'[p] = c
    BY <1>0, <1>2, CouponsAreCoded DEF Reserve, HoldsUse, RowInv
  <2>2. \A q \in Payments \ {p} : HoldsUse(q)' = HoldsUse(q) /\ couponOf'[q] = couponOf[q]
    BY <1>0, <1>2 DEF Reserve, HoldsUse
  <2> QED
    BY <1>2, <2>1, <2>2, CountTake DEF Reserve
<1>3. CASE OpenSession(p)
  BY <1>0, <1>3, CountSame DEF OpenSession, HoldsUse
<1>4. CASE InsertRow(p)
  <2>1. HoldsUse(p)' = HoldsUse(p)
    BY <1>0, <1>4 DEF InsertRow, HoldsUse, RowInv, GrantInv
  <2>2. \A q \in Payments \ {p} : HoldsUse(q)' = HoldsUse(q)
    BY <1>0, <1>4 DEF InsertRow, HoldsUse
  <2> QED
    BY <1>4, <2>1, <2>2, CountSame DEF InsertRow
<1>5. CASE AbortCheckout(p)
  <2>1. couponOf[p] # NoCoupon => HoldsUse(p)
    BY <1>0, <1>5 DEF AbortCheckout, HoldsUse
  <2>2. ~HoldsUse(p)'
    BY <1>0, <1>5 DEF AbortCheckout, HoldsUse, RowInv
  <2>3. \A q \in Payments \ {p} : HoldsUse(q)' = HoldsUse(q)
    BY <1>0, <1>5 DEF AbortCheckout, HoldsUse
  <2> QED
    BY <1>5, <2>1, <2>2, <2>3, CountGive DEF AbortCheckout
<1>6. CASE CrashCheckout(p)
  BY <1>0, <1>6, CountSame DEF CrashCheckout, HoldsUse
<1> QED
  BY <1>1, <1>2, <1>3, <1>4, <1>5, <1>6 DEF Checkout

LEMMA CountClose ==
  ASSUME IndInv, CouponAccounting, NEW p \in Payments, NEW s, CloseRow(p, s)
  PROVE  CouponAccounting'
<1> USE DEF CloseRow, Closable, checkoutVars
<1>1. /\ reserved \in [Payments -> BOOLEAN] /\ RowInv(p) /\ GrantInv(p)
      /\ status[p] = "initiated" /\ checkout[p] = "open" /\ ~subRefunded[p]
  BY DEF IndInv, TypeOK, RowInv, GrantInv
<1>2. \A q \in Payments \ {p} : HoldsUse(q)' = HoldsUse(q)
  BY <1>1 DEF HoldsUse
<1>3. ~HoldsUse(p)'
  BY <1>1 DEF HoldsUse
<1>4. CASE reserved[p]
  <2>1. HoldsUse(p)
    BY <1>1, <1>4 DEF HoldsUse, RowInv
  <2> QED
    BY <1>2, <1>3, <1>4, <2>1, CountGive
<1>5. CASE ~reserved[p]
  <2>1. ~HoldsUse(p)
    BY <1>1, <1>5 DEF HoldsUse
  <2>2. \A q \in Payments : HoldsUse(q)' = HoldsUse(q)
    BY <1>2, <1>3, <2>1 DEF HoldsUse
  <2> QED
    BY <1>5, <2>2, CountSame
<1> QED
  BY <1>4, <1>5

LEMMA CountRefund ==
  ASSUME IndInv, CouponAccounting, NEW p \in Payments, Refund(p)
  PROVE  CouponAccounting'
<1> USE DEF Refund, Refundable, checkoutVars
<1>1. /\ subRefunded \in [Payments -> BOOLEAN] /\ subs[p] \in 0..2
      /\ RowInv(p) /\ GrantInv(p) /\ checkout[p] = "open" /\ ~subRefunded[p]
  BY DEF IndInv, TypeOK, RowInv, GrantInv
<1>2. \A q \in Payments \ {p} : HoldsUse(q)' = HoldsUse(q)
  BY <1>1 DEF HoldsUse
<1>3. CASE status[p] = "completed"
  <2>1. couponOf[p] # NoCoupon => HoldsUse(p)
    BY <1>1, <1>3 DEF HoldsUse, GrantInv
  <2>2. subs[p] > 0
    BY <1>1, <1>3 DEF GrantInv
  <2>3. ~HoldsUse(p)'
    BY <1>1, <2>2 DEF HoldsUse
  <2> QED
    BY <1>2, <1>3, <2>1, <2>3, CountGive
<1>4. CASE status[p] = "needs_review"
  <2>1. subs[p] = 0
    BY <1>1, <1>4 DEF GrantInv
  <2>2. subRefunded'[p] = subRefunded[p]
    BY <1>1, <2>1
  <2>3. HoldsUse(p)' = HoldsUse(p)
    BY <2>2 DEF HoldsUse
  <2> QED
    BY <1>2, <1>4, <2>3, CountSame
<1> QED
  BY <1>3, <1>4

LEMMA CountFulfil ==
  ASSUME IndInv, CouponAccounting, NEW w \in Workers, Fulfil(w),
         NEW p \in Payments, job[w].pay = p
  PROVE  CouponAccounting'
<1> USE DEF checkoutVars
<1>1. /\ reserved \in [Payments -> BOOLEAN] /\ subRefunded \in [Payments -> BOOLEAN]
      /\ couponOf \in [Payments -> Coupons \cup {NoCoupon}]
      /\ RowInv(p) /\ GrantInv(p) /\ Paid(p)
  BY DEF Fulfil, IndInv, TypeOK, JobInv, Jobs, NoJob
<1>2. /\ checkout[p] = "open" /\ reserved'[p] = (couponOf[p] # NoCoupon)
      /\ UNCHANGED <<checkout, couponOf, subRefunded>>
  BY <1>1 DEF Fulfil, RowInv
<1>3. \A q \in Payments \ {p} : HoldsUse(q)' = HoldsUse(q) /\ couponOf'[q] = couponOf[q]
  BY <1>1, <1>2 DEF Fulfil, HoldsUse
<1>4. CASE couponOf[p] # NoCoupon /\ ~reserved[p]
  <2>1. ~HoldsUse(p) /\ HoldsUse(p)'
    <3>1. ~subRefunded[p]
      BY <1>1, <1>4 DEF GrantInv
    <3> QED
      BY <1>2, <1>4, <3>1 DEF HoldsUse
  <2>2. usedCount' = [usedCount EXCEPT ![couponOf[p]] = @ + 1]
    BY <1>4 DEF Fulfil
  <2>3. couponOf[p] \in Coupons /\ couponOf'[p] = couponOf[p]
    BY <1>1, <1>2, <1>4
  <2> QED
    BY <1>3, <2>1, <2>2, <2>3, CountTake
<1>5. CASE ~(couponOf[p] # NoCoupon /\ ~reserved[p])
  <2>1. HoldsUse(p)' = HoldsUse(p)
    BY <1>1, <1>2, <1>5 DEF HoldsUse
  <2>2. UNCHANGED usedCount
    BY <1>5 DEF Fulfil
  <2> QED
    BY <1>2, <1>3, <2>1, <2>2, CountSame
<1> QED
  BY <1>4, <1>5

LEMMA CountStep ==
  ASSUME Admins = {}, IndInv, CouponAccounting, [Next]_vars
  PROVE  CouponAccounting'
<1> USE DEF couponVars, checkoutVars, rowVars
<1>1. CASE UNCHANGED vars
  BY <1>1, CountStutter DEF vars
<1>2. ASSUME NEW p \in Payments, UserPays(p) \/ SessionCloses(p) \/ Grow(p)
      PROVE  CouponAccounting'
  BY <1>2, CountStutter DEF UserPays, SessionCloses, Grow
<1>3. ASSUME NEW w \in Workers,
             \/ \E p \in Payments : StartExecute(w, p) \/ StartReconcile(w, p)
             \/ AnswerCompleted(w) \/ AnswerNotCompleted(w) \/ DropJob(w)
             \/ Flag(w) \/ FulfilAgain(w) \/ MarkTerminalAgain(w)
      PROVE  CouponAccounting'
  BY <1>3, CountStutter DEF StartExecute, StartReconcile, AnswerCompleted,
     AnswerNotCompleted, DropJob, Flag, FulfilAgain, MarkTerminalAgain
<1>4. ASSUME NEW w \in Workers, Fulfil(w) \/ MarkTerminal(w) PROVE CouponAccounting'
  <2>1. job[w].pay \in Payments
    BY <1>4 DEF Fulfil, MarkTerminal, IndInv, TypeOK, Jobs, NoJob
  <2> QED
    BY <1>4, <2>1, CountFulfil, CountClose DEF MarkTerminal
<1>5. ASSUME NEW p \in Payments, CancelPayment(p) PROVE CouponAccounting'
  BY <1>5, CountClose DEF CancelPayment
<1>6. CASE Next
  BY <1>2, <1>3, <1>4, <1>5, <1>6, CountCheckout, CountRefund DEF Next, Settle
<1> QED
  BY <1>1, <1>6

(* While no admin edits coupons, used_count is the number of uses held,       *)
(* however checkouts, cancellations, confirmations, crashes and refunds       *)
(* interleave (reserveCoupon, forceCouponUse, releaseCoupon).                 *)
THEOREM CouponsAddUp ==
  ASSUME Admins = {}
  PROVE  Spec => []CouponAccounting
<1>1. Init => CouponAccounting
  <2> SUFFICES ASSUME Init, NEW c \in Coupons PROVE usedCount[c] = Cardinality(Holders(c))
    BY DEF CouponAccounting
  <2>1. Holders(c) = {}
    BY DEF Init, Holders, HoldsUse
  <2> QED
    BY <2>1, FS_EmptySet DEF Init
<1>2. IndInv /\ CouponAccounting /\ [Next]_vars => CouponAccounting'
  BY CountStep
<1> QED
  BY <1>1, <1>2, Inductive, PTL DEF Spec

-----------------------------------------------------------------------------
(* The cap of a coupon *)

\* The uses of c that the cap counts: those not taken again for a late payment.
Fresh(c) == {p \in Holders(c) : ~retaken[p]}

LEMMA FreshFinite == ASSUME NEW c \in Coupons PROVE IsFiniteSet(Fresh(c))
  BY HoldersFinite, FS_Subset DEF Fresh

\* A step that takes no use, or takes one again, keeps within the cap.
LEMMA CapKept ==
  ASSUME IndInv, MaxUsesEnforced,
         \A q \in Payments : (HoldsUse(q)' /\ ~retaken'[q]) =>
                                HoldsUse(q) /\ ~retaken[q] /\ couponOf'[q] = couponOf[q]
  PROVE  MaxUsesEnforced'
<1>1. ASSUME NEW c \in Coupons, MaxUses[c] > 0 PROVE Cardinality(Fresh(c)') <= MaxUses[c]
  <2>1. Fresh(c)' \subseteq Fresh(c)
    BY DEF Fresh, Holders
  <2>2. IsFiniteSet(Fresh(c))
    BY FreshFinite
  <2> DEFINE A == Fresh(c)
             B == Fresh(c)'
  <2>3. Cardinality(A) <= MaxUses[c] /\ MaxUses[c] \in Nat
    BY <1>1, CapsAreCounts DEF MaxUsesEnforced, Fresh
  <2> HIDE DEF A, B
  <2>4. IsFiniteSet(A) /\ B \subseteq A
    BY <2>1, <2>2 DEF A, B
  <2>5. Cardinality(B) <= Cardinality(A) /\ Cardinality(A) \in Nat /\ Cardinality(B) \in Nat
    BY <2>4, FS_Subset, FS_CardinalityType
  <2>6. Cardinality(B) <= MaxUses[c]
    BY <2>3, <2>5
  <2> QED
    BY <2>6 DEF B
<1> QED
  BY <1>1 DEF MaxUsesEnforced, Fresh

\* reserveCoupon takes a use only below the cap, and used_count knows them all.
LEMMA CapReserve ==
  ASSUME IndInv, CouponAccounting, MaxUsesEnforced, NEW p \in Payments, NEW d \in Coupons, Reserve(p, d)
  PROVE  MaxUsesEnforced'
<1>1. CouponAccounting'
  BY CountCheckout DEF Checkout
<1>2. usedCount \in [Coupons -> Nat] /\ couponOf \in [Payments -> Coupons \cup {NoCoupon}]
      /\ checkout \in [Payments -> {"idle", "priced", "session", "open", "aborted", "crashed"}]
  BY DEF IndInv, TypeOK
<1>3. ASSUME NEW c \in Coupons, MaxUses[c] > 0 PROVE Cardinality(Fresh(c)') <= MaxUses[c]
  <2>1. CASE c = d
    <3> DEFINE A == Holders(c)'
               B == Fresh(c)'
    <3>1. IsFiniteSet(A) /\ B \subseteq A
      BY PaymentsFinite, FS_Subset DEF Fresh, Holders
    <3>2. Cardinality(A) = usedCount[c] + 1 /\ usedCount[c] \in Nat /\ MaxUses[c] \in Nat
      BY <1>1, <1>2, <2>1, CapsAreCounts DEF CouponAccounting, Reserve
    <3>3. usedCount[c] < MaxUses[c]
      BY <1>3, <2>1 DEF Reserve, CanReserve
    <3> HIDE DEF A, B
    <3>4. Cardinality(B) <= Cardinality(A) /\ Cardinality(B) \in Nat
      BY <3>1, FS_Subset, FS_CardinalityType
    <3>5. Cardinality(B) <= MaxUses[c]
      BY <3>2, <3>3, <3>4
    <3> QED
      BY <3>5 DEF B
  <2>2. CASE c # d
    <3>1. Holders(c)' = Holders(c)
      <4>1. ~(couponOf'[p] = c)
        BY <1>2, <2>2 DEF Reserve
      <4>2. couponOf[p] # c
        BY CouponsAreCoded DEF Reserve, IndInv, RowInv
      <4>3. \A q \in Payments \ {p} : HoldsUse(q)' = HoldsUse(q) /\ couponOf'[q] = couponOf[q]
        BY <1>2 DEF Reserve, HoldsUse, rowVars
      <4> QED
        BY <4>1, <4>2, <4>3 DEF Holders
    <3>2. Fresh(c)' = Fresh(c)
      BY <3>1 DEF Fresh, Reserve
    <3> QED
      BY <1>3, <3>2 DEF MaxUsesEnforced, Fresh
  <2> QED
    BY <2>1, <2>2
<1> QED
  BY <1>3 DEF MaxUsesEnforced, Fresh

LEMMA CapCheckout ==
  ASSUME IndInv, CouponAccounting, MaxUsesEnforced, NEW p \in Payments, Checkout(p)
  PROVE  MaxUsesEnforced'
<1> USE DEF couponVars, rowVars, checkoutVars, billingVars
<1>0. /\ checkout \in [Payments -> {"idle", "priced", "session", "open", "aborted", "crashed"}]
      /\ reserved \in [Payments -> BOOLEAN]
      /\ RowInv(p) /\ GrantInv(p)
  BY DEF IndInv, TypeOK
<1>1. ASSUME NEW c \in Coupons, Reserve(p, c) PROVE MaxUsesEnforced'
  BY <1>1, CapReserve
<1>2. CASE Price(p)
  BY <1>0, <1>2, CapKept DEF Price, HoldsUse, RowInv
<1>3. CASE OpenSession(p) \/ CrashCheckout(p) \/ AbortCheckout(p)
  BY <1>0, <1>3, CapKept DEF OpenSession, CrashCheckout, AbortCheckout, HoldsUse
<1>4. CASE InsertRow(p)
  <2>1. \A q \in Payments : HoldsUse(q)' => HoldsUse(q)
    BY <1>0, <1>4 DEF InsertRow, HoldsUse
  <2> QED
    BY <1>4, <2>1, CapKept DEF InsertRow
<1> QED
  BY <1>1, <1>2, <1>3, <1>4 DEF Checkout

LEMMA CapFulfil ==
  ASSUME IndInv, MaxUsesEnforced, NEW w \in Workers, Fulfil(w), NEW p \in Payments, job[w].pay = p
  PROVE  MaxUsesEnforced'
<1>1. /\ reserved \in [Payments -> BOOLEAN] /\ retaken \in [Payments -> BOOLEAN]
  BY DEF IndInv, TypeOK
<1>2. /\ UNCHANGED <<checkout, couponOf, subRefunded>>
      /\ \A q \in Payments \ {p} : reserved'[q] = reserved[q] /\ retaken'[q] = retaken[q]
      /\ retaken'[p] = (retaken[p] \/ (couponOf[p] # NoCoupon /\ ~reserved[p]))
      /\ reserved'[p] = (couponOf[p] # NoCoupon)
  BY <1>1 DEF Fulfil, checkoutVars
<1>3. ASSUME NEW q \in Payments, HoldsUse(q)', ~retaken'[q]
      PROVE  HoldsUse(q) /\ ~retaken[q] /\ couponOf'[q] = couponOf[q]
  <2>1. CASE q = p
    BY <1>1, <1>2, <1>3, <2>1 DEF HoldsUse
  <2>2. CASE q # p
    BY <1>2, <1>3, <2>2 DEF HoldsUse
  <2> QED
    BY <2>1, <2>2
<1> QED
  BY <1>3, CapKept

LEMMA CapRow ==
  ASSUME IndInv, MaxUsesEnforced, NEW p \in Payments,
         Refund(p) \/ \E s \in {"failed", "cancelled"} : CloseRow(p, s)
  PROVE  MaxUsesEnforced'
<1>1. reserved \in [Payments -> BOOLEAN] /\ subRefunded \in [Payments -> BOOLEAN] /\ GrantInv(p)
  BY DEF IndInv, TypeOK
<1>2. CASE Refund(p)
  <2>1. ~subRefunded[p]
    BY <1>1, <1>2 DEF Refund, Refundable, GrantInv
  <2>2. \A q \in Payments : HoldsUse(q)' => HoldsUse(q)
    BY <1>1, <1>2, <2>1 DEF Refund, HoldsUse, checkoutVars
  <2> QED
    BY <1>2, <2>2, CapKept DEF Refund, checkoutVars
<1>3. ASSUME NEW s \in {"failed", "cancelled"}, CloseRow(p, s) PROVE MaxUsesEnforced'
  <2>1. \A q \in Payments : HoldsUse(q)' => HoldsUse(q)
    BY <1>1, <1>3 DEF CloseRow, HoldsUse, checkoutVars
  <2> QED
    BY <1>3, <2>1, CapKept DEF CloseRow, checkoutVars
<1> QED
  BY <1>2, <1>3

LEMMA CapStep ==
  ASSUME Admins = {}, IndInv, CouponAccounting, MaxUsesEnforced, [Next]_vars
  PROVE  MaxUsesEnforced'
<1> USE DEF couponVars, checkoutVars, rowVars
<1>1. ASSUME UNCHANGED <<checkout, couponOf, reserved, subRefunded, retaken>> PROVE MaxUsesEnforced'
  BY <1>1, CapKept DEF HoldsUse
<1>2. CASE UNCHANGED vars
  BY <1>1, <1>2 DEF vars
<1>3. ASSUME NEW p \in Payments, UserPays(p) \/ SessionCloses(p) \/ Grow(p)
      PROVE  MaxUsesEnforced'
  BY <1>1, <1>3 DEF UserPays, SessionCloses, Grow
<1>4. ASSUME NEW w \in Workers,
             \/ \E p \in Payments : StartExecute(w, p) \/ StartReconcile(w, p)
             \/ AnswerCompleted(w) \/ AnswerNotCompleted(w) \/ DropJob(w)
             \/ Flag(w) \/ FulfilAgain(w) \/ MarkTerminalAgain(w)
      PROVE  MaxUsesEnforced'
  BY <1>1, <1>4 DEF StartExecute, StartReconcile, AnswerCompleted,
     AnswerNotCompleted, DropJob, Flag, FulfilAgain, MarkTerminalAgain
<1>5. ASSUME NEW w \in Workers, Fulfil(w) \/ MarkTerminal(w) PROVE MaxUsesEnforced'
  <2>1. job[w].pay \in Payments
    BY <1>5 DEF Fulfil, MarkTerminal, IndInv, TypeOK, Jobs, NoJob
  <2> QED
    BY <1>5, <2>1, CapFulfil, CapRow DEF MarkTerminal
<1>6. ASSUME NEW p \in Payments, CancelPayment(p) PROVE MaxUsesEnforced'
  BY <1>6, CapRow DEF CancelPayment
<1>7. CASE Next
  BY <1>3, <1>4, <1>5, <1>6, <1>7, CapCheckout, CapRow DEF Next, Settle
<1> QED
  BY <1>2, <1>7

(* "two checkouts racing for the last use cannot both succeed"                *)
(* (payment_service.go:140): while no admin edits coupons, the uses that were *)
(* not taken again for a late payment never pass max_uses.                    *)
THEOREM CapHolds ==
  ASSUME Admins = {}
  PROVE  Spec => []MaxUsesEnforced
<1>1. Init => MaxUsesEnforced
  <2> SUFFICES ASSUME Init, NEW c \in Coupons, MaxUses[c] > 0
               PROVE Cardinality(Fresh(c)) <= MaxUses[c]
    BY DEF MaxUsesEnforced, Fresh
  <2>1. Fresh(c) = {}
    BY DEF Init, Fresh, Holders, HoldsUse
  <2> QED
    BY <2>1, FS_EmptySet, CapsAreCounts
<1>2. IndInv /\ CouponAccounting /\ MaxUsesEnforced /\ [Next]_vars => MaxUsesEnforced'
  BY CapStep
<1>3. Spec => []CouponAccounting
  BY CouponsAddUp
<1> QED
  BY <1>1, <1>2, <1>3, Inductive, PTL DEF Spec

-----------------------------------------------------------------------------
(* The counter itself, with admins who save a coupon row loaded before *)

\* The payments whose use of c was taken again, and how far the counter may go.
Late(c) == {p \in Payments : couponOf[p] = c /\ retaken[p]}
Room(c) == MaxUses[c] + Cardinality(Late(c))

RoomIsCount == \A c \in Coupons : IsFiniteSet(Late(c)) /\ Cardinality(Late(c)) \in Nat /\ Room(c) \in Nat

LEMMA RoomCounts == RoomIsCount
<1> SUFFICES ASSUME NEW c \in Coupons PROVE IsFiniteSet(Late(c)) /\ Cardinality(Late(c)) \in Nat /\ Room(c) \in Nat
  BY DEF RoomIsCount
<1>1. IsFiniteSet(Late(c))
  BY PaymentsFinite, FS_Subset DEF Late
<1>2. Cardinality(Late(c)) \in Nat
  BY <1>1, FS_CardinalityType
<1>3. MaxUses[c] \in Nat
  BY CapsAreCounts
<1> QED
  BY <1>1, <1>2, <1>3 DEF Room

LEMMA RoomCountsAfter == RoomIsCount'
  BY RoomCounts, PTL

\* Nothing that was taken again is forgotten, so the room only grows.
LEMMA RoomGrows ==
  ASSUME \A p \in Payments : retaken[p] => retaken'[p] /\ couponOf'[p] = couponOf[p]
  PROVE  \A c \in Coupons : Room(c) <= Room(c)'
<1> SUFFICES ASSUME NEW c \in Coupons PROVE Room(c) <= Room(c)'
  OBVIOUS
<1> DEFINE A == Late(c)
           B == Late(c)'
<1>1. IsFiniteSet(B)
  BY RoomCountsAfter DEF RoomIsCount
<1>2. A \subseteq B
  BY DEF Late
<1>3. Room(c) = MaxUses[c] + Cardinality(A) /\ Room(c)' = MaxUses[c] + Cardinality(B) /\ MaxUses[c] \in Nat
  BY CapsAreCounts DEF Room
<1> HIDE DEF A, B
<1>4. Cardinality(A) <= Cardinality(B) /\ Cardinality(A) \in Nat /\ Cardinality(B) \in Nat
  BY <1>1, <1>2, FS_Subset, FS_CardinalityType
<1> QED
  BY <1>3, <1>4

LEMMA CounterStep ==
  ASSUME IndInv, CounterInv,
         \A p \in Payments : RetakenInv(p)',
         \A p \in Payments : retaken[p] => retaken'[p] /\ couponOf'[p] = couponOf[p],
         \A c \in Coupons : MaxUses[c] > 0 => usedCount'[c] <= Room(c)',
         \A a \in Admins : \/ edit'[a] \in {edit[a], NoEdit}
                           \/ /\ edit'[a].coupon \in Coupons
                              /\ edit'[a].used = usedCount[edit'[a].coupon]
  PROVE  CounterInv'
<1>1. \A c \in Coupons : Room(c) \in Nat /\ Room(c)' \in Nat /\ Room(c) <= Room(c)'
  BY RoomGrows, RoomCounts, RoomCountsAfter DEF RoomIsCount
<1>2. ASSUME NEW a \in Admins PROVE EditInv(a)'
  <2>1. ASSUME NEW c \in Coupons, edit'[a].coupon = c, MaxUses[c] > 0 => edit'[a].used <= Room(c)'
        PROVE  EditInv(a)'
    BY <2>1 DEF EditInv, Room, Late
  <2>2. CASE edit'[a] = NoEdit
    BY <2>2 DEF EditInv, NoEdit
  <2>3. CASE edit'[a] = edit[a] /\ edit[a] # NoEdit
    <3>1. edit[a] \in Edits
      BY <2>3 DEF IndInv, TypeOK
    <3>2. PICK c \in Coupons, n \in Nat : edit[a].coupon = c /\ edit[a].used = n
      BY <3>1 DEF Edits
    <3>3. MaxUses[c] > 0 => n <= Room(c)
      BY <2>3, <3>2 DEF CounterInv, EditInv, Room, Late
    <3>4. MaxUses[c] > 0 => n <= Room(c)'
      BY <1>1, <3>3
    <3>5. edit'[a].coupon = c /\ edit'[a].used = n
      BY <2>3, <3>2
    <3> QED
      BY <2>1, <3>4, <3>5
  <2>4. CASE edit'[a].coupon \in Coupons /\ edit'[a].used = usedCount[edit'[a].coupon]
    <3>1. PICK c \in Coupons : edit'[a].coupon = c
      BY <2>4
    <3>2. MaxUses[c] > 0 => usedCount[c] <= Room(c) /\ usedCount[c] \in Nat
      BY <3>1 DEF CounterInv, CounterWithinCap, Room, Late, IndInv, TypeOK
    <3>3. MaxUses[c] > 0 => edit'[a].used <= Room(c)'
      BY <1>1, <2>4, <3>1, <3>2
    <3> QED
      BY <2>1, <3>1, <3>3
  <2> QED
    BY <2>2, <2>3, <2>4
<1>3. CounterWithinCap'
  BY DEF CounterWithinCap, Room, Late
<1> QED
  BY <1>2, <1>3 DEF CounterInv

\* Most steps leave the counter alone or lower it.
LEMMA CounterKept ==
  ASSUME IndInv, CounterInv,
         \A p \in Payments : RetakenInv(p)',
         \A p \in Payments : retaken[p] => retaken'[p] /\ couponOf'[p] = couponOf[p],
         \A c \in Coupons : usedCount'[c] \in Nat /\ usedCount'[c] <= usedCount[c],
         UNCHANGED edit
  PROVE  CounterInv'
<1>1. ASSUME NEW c \in Coupons, MaxUses[c] > 0 PROVE usedCount'[c] <= Room(c)'
  <2>1. usedCount[c] <= Room(c) /\ usedCount[c] \in Nat
    BY <1>1 DEF CounterInv, CounterWithinCap, Room, Late, IndInv, TypeOK
  <2>2. Room(c) \in Nat /\ Room(c)' \in Nat /\ Room(c) <= Room(c)'
    BY RoomGrows, RoomCounts, RoomCountsAfter DEF RoomIsCount
  <2>3. usedCount'[c] \in Nat /\ usedCount'[c] <= usedCount[c]
    OBVIOUS
  <2> QED
    BY <2>1, <2>2, <2>3
<1> QED
  BY <1>1, CounterStep

LEMMA GivingBack ==
  ASSUME IndInv, NEW p \in Payments, GiveBack(p) \/ UNCHANGED usedCount
  PROVE  \A c \in Coupons : usedCount'[c] \in Nat /\ usedCount'[c] <= usedCount[c]
<1>1. usedCount \in [Coupons -> Nat]
  BY DEF IndInv, TypeOK
<1> QED
  BY <1>1 DEF GiveBack, Released

LEMMA CounterReserve ==
  ASSUME IndInv, CounterInv, NEW p \in Payments, NEW d \in Coupons, Reserve(p, d)
  PROVE  CounterInv'
<1>1. usedCount \in [Coupons -> Nat] /\ couponOf \in [Payments -> Coupons \cup {NoCoupon}]
  BY DEF IndInv, TypeOK
<1>2. ~retaken[p]
  BY DEF Reserve, CounterInv, RetakenInv, IndInv, RowInv
<1>3. \A q \in Payments : retaken[q] => retaken'[q] /\ couponOf'[q] = couponOf[q]
  BY <1>1, <1>2 DEF Reserve
<1>4. \A q \in Payments : RetakenInv(q)'
  BY <1>2, <1>3 DEF Reserve, CounterInv, RetakenInv, rowVars
<1>5. ASSUME NEW c \in Coupons, MaxUses[c] > 0 PROVE usedCount'[c] <= Room(c)'
  <2>1. usedCount[c] <= Room(c) /\ usedCount[c] \in Nat /\ MaxUses[c] \in Nat
    BY <1>1, <1>5, CapsAreCounts DEF CounterInv, CounterWithinCap, Room, Late
  <2>2. Room(c) \in Nat /\ Room(c)' \in Nat /\ Room(c) <= Room(c)'
    BY <1>3, RoomGrows, RoomCounts, RoomCountsAfter DEF RoomIsCount
  <2>3. MaxUses[c] <= Room(c)
    BY <2>1, RoomCounts DEF RoomIsCount, Room
  <2>4. usedCount'[c] = usedCount[c] \/ (usedCount'[c] = usedCount[c] + 1 /\ usedCount[c] < MaxUses[c])
    BY <1>1, <1>5 DEF Reserve, CanReserve
  <2> QED
    BY <2>1, <2>2, <2>3, <2>4
<1> QED
  BY <1>3, <1>4, <1>5, CounterStep DEF Reserve

LEMMA CounterFulfil ==
  ASSUME IndInv, CounterInv, NEW w \in Workers, Fulfil(w), NEW p \in Payments, job[w].pay = p
  PROVE  CounterInv'
<1> DEFINE force == couponOf[p] # NoCoupon /\ ~reserved[p]
<1>1. /\ usedCount \in [Coupons -> Nat] /\ couponOf \in [Payments -> Coupons \cup {NoCoupon}]
      /\ reserved \in [Payments -> BOOLEAN] /\ retaken \in [Payments -> BOOLEAN]
      /\ status \in [Payments -> Statuses \cup {"none"}]
  BY DEF IndInv, TypeOK
<1>2. /\ UNCHANGED <<couponOf, edit>>
      /\ retaken'[p] = (retaken[p] \/ force) /\ reserved'[p] = (couponOf[p] # NoCoupon)
      /\ status'[p] = "completed"
      /\ \A q \in Payments \ {p} : retaken'[q] = retaken[q] /\ reserved'[q] = reserved[q] /\ status'[q] = status[q]
      /\ usedCount' = IF force THEN [usedCount EXCEPT ![couponOf[p]] = @ + 1] ELSE usedCount
  BY <1>1 DEF Fulfil, checkoutVars
<1>3. \A q \in Payments : RetakenInv(q)
  BY DEF CounterInv
<1>4. \A q \in Payments : retaken[q] => retaken'[q] /\ couponOf'[q] = couponOf[q]
  BY <1>2
<1>5. ASSUME NEW q \in Payments PROVE RetakenInv(q)'
  <2>1. CASE q = p
    BY <1>2, <1>3, <2>1 DEF RetakenInv
  <2>2. CASE q # p
    BY <1>2, <1>3, <2>2 DEF RetakenInv
  <2> QED
    BY <2>1, <2>2
<1>6. ASSUME NEW c \in Coupons, MaxUses[c] > 0 PROVE usedCount'[c] <= Room(c)'
  <2>1. usedCount[c] <= Room(c) /\ usedCount[c] \in Nat /\ MaxUses[c] \in Nat
    BY <1>1, <1>6, CapsAreCounts DEF CounterInv, CounterWithinCap, Room, Late
  <2>2. Room(c) \in Nat /\ Room(c)' \in Nat /\ Room(c) <= Room(c)'
    BY <1>4, RoomGrows, RoomCounts, RoomCountsAfter DEF RoomIsCount
  <2>3. CASE force /\ couponOf[p] = c
    <3>1. Late(c)' = Late(c) \cup {p} /\ p \notin Late(c)
      BY <1>2, <1>3, <2>3 DEF Late, RetakenInv
    <3>2. IsFiniteSet(Late(c)) /\ Cardinality(Late(c)) \in Nat
      BY RoomCounts DEF RoomIsCount
    <3>3. Cardinality(Late(c)') = Cardinality(Late(c)) + 1
      BY <3>1, <3>2, FS_AddElement
    <3>4. Room(c) = MaxUses[c] + Cardinality(Late(c)) /\ Room(c)' = MaxUses[c] + Cardinality(Late(c)')
      BY DEF Room
    <3>5. usedCount'[c] = usedCount[c] + 1
      BY <1>1, <1>2, <2>3
    <3> QED
      BY <2>1, <3>2, <3>3, <3>4, <3>5
  <2>4. CASE ~(force /\ couponOf[p] = c)
    <3>1. usedCount'[c] = usedCount[c]
      BY <1>1, <1>2, <2>4
    <3> QED
      BY <2>1, <2>2, <3>1
  <2> QED
    BY <2>3, <2>4
<1> QED
  BY <1>2, <1>4, <1>5, <1>6, CounterStep

LEMMA CounterCheckout ==
  ASSUME IndInv, CounterInv, NEW p \in Payments, Checkout(p)
  PROVE  CounterInv'
<1> USE DEF couponVars, rowVars, checkoutVars, billingVars
<1>0. /\ usedCount \in [Coupons -> Nat] /\ RowInv(p) /\ \A q \in Payments : RetakenInv(q)
      /\ status \in [Payments -> Statuses \cup {"none"}] /\ reserved \in [Payments -> BOOLEAN]
  BY DEF IndInv, TypeOK, CounterInv
<1>1. ASSUME NEW c \in Coupons, Reserve(p, c) PROVE CounterInv'
  BY <1>1, CounterReserve
<1>2. CASE Price(p) \/ OpenSession(p) \/ CrashCheckout(p)
  BY <1>0, <1>2, CounterKept DEF Price, OpenSession, CrashCheckout, RetakenInv
<1>3. CASE InsertRow(p)
  <2>1. ~retaken[p]
    BY <1>0, <1>3 DEF InsertRow, RowInv, RetakenInv
  <2>2. \A q \in Payments : RetakenInv(q)'
    BY <1>0, <1>3, <2>1 DEF InsertRow, RetakenInv
  <2> QED
    BY <1>0, <1>3, <2>2, CounterKept DEF InsertRow
<1>4. CASE AbortCheckout(p)
  <2>1. \A c \in Coupons : usedCount'[c] \in Nat /\ usedCount'[c] <= usedCount[c]
    BY <1>4, GivingBack DEF AbortCheckout
  <2> QED
    BY <1>0, <1>4, <2>1, CounterKept DEF AbortCheckout, RetakenInv
<1> QED
  BY <1>1, <1>2, <1>3, <1>4 DEF Checkout

LEMMA CounterRow ==
  ASSUME IndInv, CounterInv, NEW p \in Payments,
         Refund(p) \/ \E s \in {"failed", "cancelled"} : CloseRow(p, s)
  PROVE  CounterInv'
<1>0. /\ \A q \in Payments : RetakenInv(q)
      /\ status \in [Payments -> Statuses \cup {"none"}] /\ reserved \in [Payments -> BOOLEAN]
  BY DEF IndInv, TypeOK, CounterInv
<1>1. CASE Refund(p)
  <2>1. \A c \in Coupons : usedCount'[c] \in Nat /\ usedCount'[c] <= usedCount[c]
    BY <1>1, GivingBack DEF Refund
  <2>2. \A q \in Payments : RetakenInv(q)'
    BY <1>0, <1>1 DEF Refund, RetakenInv, checkoutVars
  <2> QED
    BY <1>1, <2>1, <2>2, CounterKept DEF Refund, checkoutVars
<1>2. ASSUME NEW s \in {"failed", "cancelled"}, CloseRow(p, s) PROVE CounterInv'
  <2>1. \A c \in Coupons : usedCount'[c] \in Nat /\ usedCount'[c] <= usedCount[c]
    BY <1>2, GivingBack DEF CloseRow
  <2>2. ~retaken[p]
    BY <1>0, <1>2 DEF CloseRow, Closable, RetakenInv
  <2>3. \A q \in Payments : RetakenInv(q)'
    BY <1>0, <1>2, <2>2 DEF CloseRow, RetakenInv, checkoutVars
  <2> QED
    BY <1>2, <2>1, <2>3, CounterKept DEF CloseRow, checkoutVars
<1> QED
  BY <1>1, <1>2

LEMMA CounterEdit ==
  ASSUME IndInv, CounterInv, NEW a \in Admins,
         SaveEdit(a) \/ \E c \in Coupons : OpenEdit(a, c)
  PROVE  CounterInv'
<1> USE DEF couponVars, rowVars, checkoutVars, billingVars
<1>0. /\ \A q \in Payments : RetakenInv(q)
      /\ usedCount \in [Coupons -> Nat] /\ edit \in [Admins -> Edits \cup {NoEdit}]
  BY DEF IndInv, TypeOK, CounterInv
<1>1. ASSUME UNCHANGED <<couponOf, status, reserved, retaken>>
      PROVE  /\ \A q \in Payments : RetakenInv(q)'
             /\ \A q \in Payments : retaken[q] => retaken'[q] /\ couponOf'[q] = couponOf[q]
             /\ \A c \in Coupons : Room(c)' = Room(c)
  BY <1>0, <1>1 DEF RetakenInv, Room, Late
<1>2. \A c \in Coupons : MaxUses[c] > 0 => usedCount[c] <= Room(c)
  BY DEF CounterInv, CounterWithinCap, Room, Late
<1>3. ASSUME NEW c \in Coupons, OpenEdit(a, c) PROVE CounterInv'
  <2>1. UNCHANGED <<couponOf, status, reserved, retaken, usedCount>>
    BY <1>3 DEF OpenEdit
  <2>2. \A b \in Admins : \/ edit'[b] \in {edit[b], NoEdit}
                          \/ edit'[b].coupon \in Coupons /\ edit'[b].used = usedCount[edit'[b].coupon]
    BY <1>0, <1>3 DEF OpenEdit
  <2>3. \A d \in Coupons : MaxUses[d] > 0 => usedCount'[d] <= Room(d)'
    BY <1>1, <1>2, <2>1
  <2> QED
    BY <1>1, <2>1, <2>2, <2>3, CounterStep
<1>4. CASE SaveEdit(a)
  <2>1. UNCHANGED <<couponOf, status, reserved, retaken>>
    BY <1>4 DEF SaveEdit
  <2>2. \A b \in Admins : edit'[b] \in {edit[b], NoEdit}
    BY <1>0, <1>4 DEF SaveEdit
  <2>3. PICK d \in Coupons, n \in Nat : edit[a].coupon = d /\ edit[a].used = n
    BY <1>0, <1>4 DEF SaveEdit, Edits
  <2>4. MaxUses[d] > 0 => n <= Room(d)
    BY <1>4, <2>3 DEF SaveEdit, CounterInv, EditInv, Room, Late
  <2>5. usedCount' = [usedCount EXCEPT ![d] = n]
    BY <1>4, <2>3 DEF SaveEdit
  <2>6. \A c \in Coupons : MaxUses[c] > 0 => usedCount'[c] <= Room(c)'
    BY <1>0, <1>1, <1>2, <2>1, <2>4, <2>5
  <2> QED
    BY <1>1, <2>1, <2>2, <2>6, CounterStep
<1> QED
  BY <1>3, <1>4

LEMMA CounterNext == IndInv /\ CounterInv /\ [Next]_vars => CounterInv'
<1> SUFFICES ASSUME IndInv, CounterInv, [Next]_vars PROVE CounterInv'
  OBVIOUS
<1> USE DEF couponVars, checkoutVars, rowVars
<1>0. usedCount \in [Coupons -> Nat] /\ \A q \in Payments : RetakenInv(q)
  BY DEF IndInv, TypeOK, CounterInv
<1>1. ASSUME UNCHANGED <<usedCount, couponOf, reserved, retaken, edit>>,
             \A p \in Payments : status'[p] \in {"none", "initiated"} => status'[p] = status[p]
      PROVE  CounterInv'
  <2>1. \A q \in Payments : RetakenInv(q)'
    BY <1>0, <1>1 DEF RetakenInv
  <2> QED
    BY <1>0, <1>1, <2>1, CounterKept
<1>2. CASE UNCHANGED vars
  BY <1>1, <1>2 DEF vars
<1>3. ASSUME NEW p \in Payments, UserPays(p) \/ SessionCloses(p) \/ Grow(p)
      PROVE  CounterInv'
  BY <1>1, <1>3 DEF UserPays, SessionCloses, Grow
<1>4. ASSUME NEW w \in Workers,
             \/ \E p \in Payments : StartExecute(w, p) \/ StartReconcile(w, p)
             \/ AnswerCompleted(w) \/ AnswerNotCompleted(w) \/ DropJob(w)
             \/ FulfilAgain(w) \/ MarkTerminalAgain(w)
      PROVE  CounterInv'
  BY <1>1, <1>4 DEF StartExecute, StartReconcile, AnswerCompleted,
     AnswerNotCompleted, DropJob, FulfilAgain, MarkTerminalAgain
<1>5. ASSUME NEW w \in Workers, Flag(w) PROVE CounterInv'
  <2>1. status \in [Payments -> Statuses \cup {"none"}]
    BY DEF IndInv, TypeOK
  <2>2. \A p \in Payments : status'[p] \in {"none", "initiated"} => status'[p] = status[p]
    BY <1>5, <2>1 DEF Flag
  <2> QED
    BY <1>1, <1>5, <2>2 DEF Flag
<1>6. ASSUME NEW w \in Workers, Fulfil(w) \/ MarkTerminal(w) PROVE CounterInv'
  <2>1. job[w].pay \in Payments
    BY <1>6 DEF Fulfil, MarkTerminal, IndInv, TypeOK, Jobs, NoJob
  <2> QED
    BY <1>6, <2>1, CounterFulfil, CounterRow DEF MarkTerminal
<1>7. ASSUME NEW p \in Payments, CancelPayment(p) PROVE CounterInv'
  BY <1>7, CounterRow DEF CancelPayment
<1>8. CASE Next
  BY <1>3, <1>4, <1>5, <1>6, <1>7, <1>8, CounterCheckout, CounterRow, CounterEdit DEF Next, Settle
<1> QED
  BY <1>2, <1>8

(* Whatever admins save meanwhile (CouponHandler.Update), the counter passes  *)
(* max_uses only by uses that fulfil took again for late payments.            *)
THEOREM CounterHolds == Spec => []CounterWithinCap
<1>1. Init => CounterInv
  <2> SUFFICES ASSUME Init PROVE CounterInv
    OBVIOUS
  <2>1. \A p \in Payments : RetakenInv(p)
    BY DEF Init, RetakenInv
  <2>2. \A a \in Admins : EditInv(a)
    BY DEF Init, EditInv
  <2>3. ASSUME NEW c \in Coupons PROVE usedCount[c] <= Room(c)
    BY RoomCounts DEF RoomIsCount, Init
  <2>4. CounterWithinCap
    BY <2>3 DEF CounterWithinCap, Room, Late
  <2> QED
    BY <2>1, <2>2, <2>4 DEF CounterInv
<1>2. CounterInv => CounterWithinCap
  BY DEF CounterInv
<1> QED
  BY <1>1, <1>2, CounterNext, Inductive, PTL DEF Spec
=============================================================================
