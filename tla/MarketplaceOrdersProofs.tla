------------------------ MODULE MarketplaceOrdersProofs ------------------------
(***************************************************************************)
(* Theorems about MarketplaceOrders for any finite set of orders with any  *)
(* quantities and prices, and any buyers, sellers, reconcilers and admins. *)
(***************************************************************************)
EXTENDS MarketplaceOrders, SumTheorems, SequenceTheorems, TLAPS

-----------------------------------------------------------------------------
(* order_transactions as a sequence *)

LEMMA TxTyped ==
  ASSUME txs \in Seq(Tx), NEW i \in DOMAIN txs
  PROVE  /\ txs[i] \in Tx
         /\ txs[i].order \in Orders /\ txs[i].status \in TxStatuses /\ txs[i].age \in 0..MaxAge
         /\ txs[i].gate \in {"open", "paid", "paid_other", "closed"}
<1>1. txs[i] \in Tx
  BY ElementOfSeq
<1> QED
  BY <1>1 DEF Tx

LEMMA TxChanged ==
  ASSUME txs \in Seq(Tx), NEW i \in DOMAIN txs, NEW t \in Tx, txs' = [txs EXCEPT ![i] = t]
  PROVE  /\ txs' \in Seq(Tx) /\ Len(txs') = Len(txs) /\ DOMAIN txs' = DOMAIN txs
         /\ txs'[i] = t
         /\ \A j \in DOMAIN txs \ {i} : txs'[j] = txs[j]
  BY ExceptSeq

LEMMA TxAdded ==
  ASSUME txs \in Seq(Tx), NEW t \in Tx, txs' = Append(txs, t)
  PROVE  /\ txs' \in Seq(Tx) /\ Len(txs') = Len(txs) + 1
         /\ DOMAIN txs' = DOMAIN txs \cup {Len(txs) + 1}
         /\ txs'[Len(txs) + 1] = t
         /\ \A j \in DOMAIN txs : txs'[j] = txs[j]
  OBVIOUS

-----------------------------------------------------------------------------
\* An event in the timeline of o is counted once.
LEMMA Counted ==
  ASSUME timeline \in [Orders -> [delivered : 0..1, cancelled : 0..2]], NEW o \in Orders,
         NEW to \in {"delivered", "cancelled"}, timeline' = Recorded(o, to),
         timeline[o][to] < IF to = "delivered" THEN 1 ELSE 2
  PROVE  /\ timeline' \in [Orders -> [delivered : 0..1, cancelled : 0..2]]
         /\ \A q \in Orders \ {o} : timeline'[q] = timeline[q]
         /\ timeline'[o] = [delivered |-> timeline[o].delivered + (IF to = "delivered" THEN 1 ELSE 0),
                            cancelled |-> timeline[o].cancelled + (IF to = "cancelled" THEN 1 ELSE 0)]
<1> DEFINE r == [delivered |-> timeline[o].delivered + (IF to = "delivered" THEN 1 ELSE 0),
                 cancelled |-> timeline[o].cancelled + (IF to = "cancelled" THEN 1 ELSE 0)]
<1>1. timeline[o] \in [delivered : 0..1, cancelled : 0..2]
  OBVIOUS
<1>2. r \in [delivered : 0..1, cancelled : 0..2]
  BY <1>1
<1>3. timeline' = [timeline EXCEPT ![o] = r]
  <2>1. CASE to = "delivered"
    <3>1. timeline' = [timeline EXCEPT ![o].delivered = @ + 1]
      BY <2>1 DEF Recorded
    <3> QED
      BY <1>1, <2>1, <3>1
  <2>2. CASE to = "cancelled"
    <3>1. timeline' = [timeline EXCEPT ![o].cancelled = @ + 1]
      BY <2>2 DEF Recorded
    <3> QED
      BY <1>1, <2>2, <3>1
  <2> QED
    BY <2>1, <2>2
<1> HIDE DEF r
<1>4. timeline' \in [Orders -> [delivered : 0..1, cancelled : 0..2]] /\ timeline'[o] = r
      /\ \A q \in Orders \ {o} : timeline'[q] = timeline[q]
  BY <1>2, <1>3
<1> QED
  BY <1>4 DEF r

-----------------------------------------------------------------------------
(* The inductive invariant *)

LEMMA InitInd == Init => IndInv
<1> SUFFICES ASSUME Init PROVE IndInv
  OBVIOUS
<1>1. TypeOK
  BY StockIsCount DEF Init, TypeOK, Statuses, Rank
<1>2. Len(txs) <= MaxTxs /\ DOMAIN txs = {}
  BY StockIsCount DEF Init
<1>3. \A o \in Orders : OrderInv(o) /\ BookInv(o)
  BY DEF Init, OrderInv, BookInv
<1>4. \A w \in Workers : JobInv(w)
  BY DEF Init, JobInv
<1>5. \A s \in Sellers \cup Editors : TaskInv(s)
  BY DEF Init, TaskInv, Idle
<1>6. PaidOnce /\ MoneyBehindBooks
  BY <1>2 DEF Init, PaidOnce, MoneyBehindBooks
<1> QED
  BY <1>1, <1>2, <1>3, <1>4, <1>5, <1>6 DEF IndInv

\* A step that leaves orders, payments and books alone.
LEMMA FrameInd ==
  ASSUME IndInv, TypeOK', opening' \subseteq opening,
         UNCHANGED <<status, method, timeline, refunded, invoice, journals, overridden, txs>>,
         \A w \in Workers : JobInv(w)', \A s \in Sellers \cup Editors : TaskInv(s)'
  PROVE  IndInv'
<1>1. Len(txs)' <= MaxTxs
  BY DEF IndInv
<1>2. \A q \in Orders : OrderInv(q)' /\ BookInv(q)'
  <2>1. \A q \in Orders : OrderInv(q) /\ BookInv(q)
    BY DEF IndInv
  <2> QED
    BY <2>1 DEF OrderInv, BookInv
<1>3. \A i \in DOMAIN txs' : TxInv(i)'
  <2>1. \A i \in DOMAIN txs : TxInv(i)
    BY DEF IndInv
  <2> QED
    BY <2>1 DEF TxInv
<1>4. PaidOnce' /\ MoneyBehindBooks'
  <2>1. PaidOnce /\ MoneyBehindBooks
    BY DEF IndInv
  <2> QED
    BY <2>1 DEF PaidOnce, MoneyBehindBooks, Taken
<1> QED
  BY <1>1, <1>2, <1>3, <1>4 DEF IndInv

\* A step in a payment that is not its completion.
LEMMA PaymentInd ==
  ASSUME IndInv, TypeOK', DOMAIN txs' = DOMAIN txs, Len(txs') = Len(txs),
         UNCHANGED <<status, method, timeline, refunded, invoice, journals, overridden, opening, task>>,
         \A i \in DOMAIN txs : /\ txs'[i].order = txs[i].order
                               /\ txs'[i].status = "completed" <=> txs[i].status = "completed"
                               /\ Taken(i) => Taken(i)',
         \A w \in Workers : job'[w] = job[w] \/ job'[w] = Idle
  PROVE  IndInv'
<1>1. Len(txs)' <= MaxTxs
  BY DEF IndInv
<1>2. \A q \in Orders : OrderInv(q)' /\ BookInv(q)'
  <2>1. \A q \in Orders : OrderInv(q) /\ BookInv(q)
    BY DEF IndInv
  <2> QED
    BY <2>1 DEF OrderInv, BookInv
<1>3. \A i \in DOMAIN txs' : TxInv(i)'
  <2>1. \A i \in DOMAIN txs : TxInv(i)
    BY DEF IndInv
  <2> QED
    BY <2>1 DEF TxInv
<1>4. PaidOnce'
  <2>1. PaidOnce
    BY DEF IndInv
  <2>2. \A q \in Orders :
          {i \in DOMAIN txs : txs[i].order = q /\ txs[i].status = "completed"}'
            = {i \in DOMAIN txs : txs[i].order = q /\ txs[i].status = "completed"}
    OBVIOUS
  <2> QED
    BY <2>1, <2>2 DEF PaidOnce
<1>5. MoneyBehindBooks'
  <2>1. MoneyBehindBooks
    BY DEF IndInv
  <2> QED
    BY <2>1 DEF MoneyBehindBooks
<1>6. \A w \in Workers : JobInv(w)'
  <2>1. \A w \in Workers : JobInv(w)
    BY DEF IndInv
  <2> QED
    BY <2>1 DEF JobInv
<1>7. \A s \in Sellers \cup Editors : TaskInv(s)'
  <2>1. \A s \in Sellers \cup Editors : TaskInv(s)
    BY DEF IndInv
  <2> QED
    BY <2>1 DEF TaskInv
<1> QED
  BY <1>1, <1>2, <1>3, <1>4, <1>5, <1>6, <1>7 DEF IndInv

\* A step that moves an order on, other than by its payment.
LEMMA MoveInd ==
  ASSUME IndInv, NEW o \in Orders,
         NEW to \in {"paid", "processing", "shipped", "delivered", "cancelled"},
         status[o] \notin {"none", "delivered", "cancelled"}, Move(o, to),
         UNCHANGED <<edited, method, old, paymentVars, bookVars, job>>, doomed' \in [Expirers -> SUBSET Orders],
         overridden' \in [Orders -> BOOLEAN], \A q \in Orders \ {o} : overridden'[q] = overridden[q],
         overridden[o] => overridden'[o], to = "paid" => overridden'[o],
         status[o] = "pending_payment" /\ to # "cancelled" => overridden'[o],
         task' \in [Sellers \cup Editors -> Tasks \cup {Idle}],
         \A s \in Sellers \cup Editors : task'[s] = task[s] \/ task'[s] = Idle
  PROVE  IndInv'
<1>0. /\ TypeOK
      /\ \A q \in Orders : OrderInv(q) /\ BookInv(q)
      /\ PaidOnce /\ MoneyBehindBooks
  BY DEF IndInv
<1> USE DEF paymentVars, bookVars
<1>1. /\ status' \in [Orders -> Statuses \cup {"none"}]
      /\ status'[o] = to
      /\ \A q \in Orders \ {o} : status'[q] = status[q]
  BY <1>0 DEF TypeOK, Move, Statuses, Rank
<1>2. /\ timeline' \in [Orders -> [delivered : 0..1, cancelled : 0..2]]
      /\ \A q \in Orders \ {o} : timeline'[q] = timeline[q]
      /\ timeline[o] = [delivered |-> 0, cancelled |-> 0]
      /\ timeline'[o] = [delivered |-> IF to = "delivered" THEN 1 ELSE 0,
                         cancelled |-> IF to = "cancelled" THEN 1 ELSE 0]
  <2>1. timeline[o] \in [delivered : 0..1, cancelled : 0..2] /\ OrderInv(o)
    BY <1>0 DEF TypeOK
  <2>2. timeline[o].delivered = 0 /\ timeline[o].cancelled = 0
    BY <2>1 DEF OrderInv
  <2>3. timeline[o] = [delivered |-> 0, cancelled |-> 0]
    BY <2>1, <2>2
  <2>4. CASE to \in {"delivered", "cancelled"}
    <3>1. timeline' = Recorded(o, to)
      BY DEF Move
    <3>2. timeline[o][to] = 0 /\ timeline \in [Orders -> [delivered : 0..1, cancelled : 0..2]]
      BY <1>0, <2>3, <2>4 DEF TypeOK
    <3>3. 0 < IF to = "delivered" THEN 1 ELSE 2
      OBVIOUS
    <3>4. /\ timeline' \in [Orders -> [delivered : 0..1, cancelled : 0..2]]
          /\ \A q \in Orders \ {o} : timeline'[q] = timeline[q]
          /\ timeline'[o] = [delivered |-> timeline[o].delivered + (IF to = "delivered" THEN 1 ELSE 0),
                             cancelled |-> timeline[o].cancelled + (IF to = "cancelled" THEN 1 ELSE 0)]
      BY <2>4, <3>1, <3>2, <3>3, Counted
    <3> QED
      BY <2>2, <2>3, <2>4, <3>4
  <2>5. CASE to \notin {"delivered", "cancelled"}
    BY <1>0, <2>3, <2>5 DEF TypeOK, Move, Recorded
  <2> QED
    BY <2>3, <2>4, <2>5
<1>3. TypeOK'
  <2>1. stock' \in Nat
    BY <1>0, QtyIsPositive DEF TypeOK, Move, Restocked
  <2> QED
    BY <1>0, <1>1, <1>2, <2>1 DEF TypeOK
<1>4. Len(txs)' <= MaxTxs
  BY DEF IndInv
<1>5. ASSUME NEW q \in Orders PROVE OrderInv(q)' /\ BookInv(q)'
  <2>1. OrderInv(q) /\ BookInv(q)
    BY <1>0
  <2>2. CASE q = o
    <3>1. status[o] \in {"pending_payment", "paid", "processing", "shipped"} /\ ~refunded[o]
      BY <1>0 DEF TypeOK, Statuses, Rank, OrderInv
    <3>2. OrderInv(o)'
      BY <1>1, <1>2, <2>1, <2>2, <3>1 DEF OrderInv
    <3>3. BookInv(o)'
      BY <1>1, <2>1, <2>2, <3>1 DEF BookInv
    <3> QED
      BY <2>2, <3>2, <3>3
  <2>3. CASE q # o
    BY <1>1, <1>2, <2>1, <2>3 DEF OrderInv, BookInv
  <2> QED
    BY <2>2, <2>3
<1>6. \A i \in DOMAIN txs' : TxInv(i)'
  <2>1. \A i \in DOMAIN txs : TxInv(i) /\ txs[i].order \in Orders
    BY <1>0, TxTyped DEF IndInv, TypeOK
  <2> QED
    BY <1>1, <2>1 DEF TxInv
<1>7. PaidOnce'
  BY <1>0, <1>1 DEF PaidOnce
<1>8. MoneyBehindBooks'
  BY <1>0, <1>1 DEF MoneyBehindBooks, Taken
<1>9. \A w \in Workers : JobInv(w)'
  <2>1. \A w \in Workers : JobInv(w)
    BY DEF IndInv
  <2> QED
    BY <2>1 DEF JobInv, Taken
<1>10. ASSUME NEW s \in Sellers \cup Editors PROVE TaskInv(s)'
  <2>1. TaskInv(s) /\ task[s] \in Tasks \cup {Idle}
    BY <1>0 DEF IndInv, TypeOK
  <2> QED
    BY <1>1, <2>1 DEF TaskInv, Tasks, Idle
<1> QED
  BY <1>3, <1>4, <1>5, <1>6, <1>7, <1>8, <1>9, <1>10 DEF IndInv

-----------------------------------------------------------------------------
(* Orders: checkout, cancellation, ageing *)

LEMMA PlaceOrderInd ==
  ASSUME IndInv, NEW o \in Orders, PlaceOrder(o)
  PROVE  IndInv'
<1>0. /\ TypeOK
      /\ \A q \in Orders : OrderInv(q) /\ BookInv(q)
      /\ \A i \in DOMAIN txs : TxInv(i)
      /\ PaidOnce /\ MoneyBehindBooks
  BY DEF IndInv
<1> USE DEF paymentVars, bookVars, actorVars
<1>1. PICK m \in {"bkash", "cash_on_delivery"} :
        /\ method' = [method EXCEPT ![o] = m]
        /\ status' = [status EXCEPT ![o] = IF m = "bkash" THEN "pending_payment" ELSE "processing"]
  BY DEF PlaceOrder
<1>2. /\ status' \in [Orders -> Statuses \cup {"none"}] /\ method' \in [Orders -> {"bkash", "cash_on_delivery"}]
      /\ status[o] = "none" /\ status'[o] = IF m = "bkash" THEN "pending_payment" ELSE "processing"
      /\ method'[o] = m
      /\ \A q \in Orders \ {o} : status'[q] = status[q] /\ method'[q] = method[q]
  BY <1>0, <1>1 DEF TypeOK, PlaceOrder, Statuses, Rank
<1>3. TypeOK'
  <2>1. stock \in Nat /\ Qty[o] \in Nat /\ stock >= Qty[o] /\ stock' = stock - Qty[o]
    BY <1>0, QtyIsPositive DEF TypeOK, PlaceOrder, InStock
  <2>2. stock' \in Nat
    BY <2>1
  <2> QED
    BY <1>0, <1>2, <2>2 DEF TypeOK, PlaceOrder
<1>4. Len(txs)' <= MaxTxs
  BY DEF IndInv, PlaceOrder
<1>5. ASSUME NEW q \in Orders PROVE OrderInv(q)' /\ BookInv(q)'
  <2>1. OrderInv(q) /\ BookInv(q)
    BY <1>0
  <2>2. CASE q = o
    BY <1>0, <1>2, <2>1, <2>2 DEF TypeOK, OrderInv, BookInv, PlaceOrder
  <2>3. CASE q # o
    BY <1>2, <2>1, <2>3 DEF OrderInv, BookInv, PlaceOrder
  <2> QED
    BY <2>2, <2>3
<1>6. \A i \in DOMAIN txs : TxInv(i) /\ txs[i].order \in Orders /\ txs[i].order # o
  BY <1>0, <1>2, TxTyped DEF TypeOK, TxInv
<1>7. \A i \in DOMAIN txs' : TxInv(i)'
  BY <1>2, <1>6 DEF TxInv, PlaceOrder
<1>8. PaidOnce'
  BY <1>0, <1>2, <1>6 DEF PaidOnce, PlaceOrder
<1>9. MoneyBehindBooks'
  <2>1. journals[o] = {}
    BY <1>0, <1>2 DEF BookInv
  <2> QED
    BY <1>0, <1>2, <2>1 DEF MoneyBehindBooks, Taken, PlaceOrder
<1>10. \A w \in Workers : JobInv(w)'
  <2>1. \A w \in Workers : JobInv(w)
    BY DEF IndInv
  <2> QED
    BY <2>1 DEF JobInv, Taken, PlaceOrder
<1>11. ASSUME NEW s \in Sellers \cup Editors PROVE TaskInv(s)'
  <2>1. TaskInv(s) /\ task[s] \in Tasks \cup {Idle}
    BY <1>0 DEF IndInv, TypeOK
  <2> QED
    BY <1>2, <2>1 DEF TaskInv, Tasks, Idle, PlaceOrder
<1> QED
  BY <1>3, <1>4, <1>5, <1>7, <1>8, <1>9, <1>10, <1>11 DEF IndInv

LEMMA CancelByBuyerInd ==
  ASSUME IndInv, NEW o \in Orders, CancelByBuyer(o)
  PROVE  IndInv'
<1>1. TypeOK
  BY DEF IndInv
<1> USE DEF actorVars, CancelByBuyer
<1>2. status[o] \notin {"none", "delivered", "cancelled"}
  BY DEF Cancellable
<1>3. Move(o, "cancelled") /\ doomed' \in [Expirers -> SUBSET Orders] /\ overridden' \in [Orders -> BOOLEAN]
      /\ task' \in [Sellers \cup Editors -> Tasks \cup {Idle}]
  BY <1>1 DEF TypeOK
<1> QED
  BY <1>2, <1>3, MoveInd

\* Where a transition leads.
LEMMA TransitionLeads ==
  ASSUME IndInv, NEW o \in Orders, NEW to \in Statuses, Transition(o, to)
  PROVE  /\ status[o] \notin {"none", "delivered", "cancelled"}
         /\ to \in {"paid", "processing", "shipped", "delivered", "cancelled"}
         /\ to = "paid" => status[o] = "pending_payment"
         /\ Move(o, to)
<1>1. status[o] \in Statuses
  BY DEF IndInv, TypeOK, Transition
<1>2. status[o] \in {"pending_payment", "paid", "processing", "shipped"} /\ Rank[to] > Rank[status[o]]
  BY <1>1 DEF Transition, CanTransition, Statuses, Rank
<1>3. to # "pending_payment"
  BY <1>2 DEF Rank
<1>4. to = "paid" => status[o] = "pending_payment"
  BY <1>2 DEF Rank
<1> QED
  BY <1>2, <1>3, <1>4 DEF Transition, Statuses, Rank

LEMMA AdminTransitionInd ==
  ASSUME IndInv, NEW a \in Admins, NEW o \in Orders, AdminTransition(a, o)
  PROVE  IndInv'
<1>1. TypeOK
  BY DEF IndInv
<1> USE DEF actorVars, AdminTransition
<1>2. PICK to \in Statuses : /\ Transition(o, to)
                             /\ overridden' = [overridden EXCEPT ![o] =
                                    @ \/ (status[o] = "pending_payment" /\ to # "cancelled")]
  OBVIOUS
<1>3. /\ status[o] \notin {"none", "delivered", "cancelled"}
      /\ to \in {"paid", "processing", "shipped", "delivered", "cancelled"}
      /\ to = "paid" => status[o] = "pending_payment"
      /\ Move(o, to)
  BY <1>2, TransitionLeads
<1>4. /\ overridden' \in [Orders -> BOOLEAN]
      /\ \A q \in Orders \ {o} : overridden'[q] = overridden[q]
      /\ overridden'[o] = (overridden[o] \/ (status[o] = "pending_payment" /\ to # "cancelled"))
  BY <1>1, <1>2 DEF TypeOK
<1>5. doomed' \in [Expirers -> SUBSET Orders] /\ task' \in [Sellers \cup Editors -> Tasks \cup {Idle}]
  BY <1>1 DEF TypeOK
<1> QED
  BY <1>3, <1>4, <1>5, MoveInd, ZenonT(60)

LEMMA AgeOrderInd ==
  ASSUME IndInv, NEW o \in Orders, AgeOrder(o)
  PROVE  IndInv'
<1> USE DEF AgeOrder, paymentVars, bookVars, actorVars
<1>1. TypeOK'
  BY DEF IndInv, TypeOK
<1>2. \A w \in Workers : JobInv(w)'
  BY DEF IndInv, JobInv, Taken
<1>3. \A s \in Sellers \cup Editors : TaskInv(s)'
  BY DEF IndInv, TaskInv
<1> QED
  BY <1>1, <1>2, <1>3, FrameInd

LEMMA ExpireInd ==
  ASSUME IndInv, NEW e \in Expirers, NEW o \in Orders, Expire(e, o)
  PROVE  IndInv'
<1>1. TypeOK
  BY DEF IndInv
<1> USE DEF Expire, paymentVars, bookVars
<1>2. /\ doomed' \in [Expirers -> SUBSET Orders] /\ overridden' \in [Orders -> BOOLEAN]
      /\ task' \in [Sellers \cup Editors -> Tasks \cup {Idle}]
  BY <1>1 DEF TypeOK
<1>3. CASE Transition(o, "cancelled")
  <2>1. status[o] \notin {"none", "delivered", "cancelled"} /\ Move(o, "cancelled")
    BY <1>3, TransitionLeads DEF Statuses, Rank
  <2> QED
    BY <1>2, <2>1, MoveInd
<1>4. CASE UNCHANGED <<stock, status, timeline>>
  <2>1. TypeOK'
    BY <1>1, <1>2, <1>4 DEF TypeOK
  <2>2. \A w \in Workers : JobInv(w)'
    BY <1>4 DEF IndInv, JobInv, Taken
  <2>3. \A s \in Sellers \cup Editors : TaskInv(s)'
    BY <1>4 DEF IndInv, TaskInv
  <2> QED
    BY <1>4, <2>1, <2>2, <2>3, FrameInd
<1> QED
  BY <1>3, <1>4

-----------------------------------------------------------------------------
(* Lists of abandoned orders, and what merchants are doing *)

LEMMA ListInd ==
  ASSUME IndInv, NEW e \in Expirers, ListAbandoned(e) \/ DropList(e)
  PROVE  IndInv'
<1> USE DEF ListAbandoned, DropList, orderVars, paymentVars, bookVars
<1>1. TypeOK'
  BY DEF IndInv, TypeOK
<1>2. \A w \in Workers : JobInv(w)'
  BY DEF IndInv, JobInv, Taken
<1>3. \A s \in Sellers \cup Editors : TaskInv(s)'
  BY DEF IndInv, TaskInv
<1> QED
  BY <1>1, <1>2, <1>3, FrameInd

LEMMA TaskTyped ==
  ASSUME TypeOK, NEW s \in Sellers \cup Editors
  PROVE  /\ task[s].step = "move" => /\ task[s].order \in Orders
                                     /\ task[s].to \in {"shipped", "delivered"}
         /\ task[s].step = "save" => task[s].stock \in Nat
<1>1. task[s] \in Tasks \cup {Idle}
  BY DEF TypeOK
<1> QED
  BY <1>1 DEF Tasks, Idle

LEMMA StartMoveInd ==
  ASSUME IndInv, NEW s \in Sellers \cup Editors, NEW o \in Orders, StartMove(s, o)
  PROVE  IndInv'
<1>0. TypeOK /\ \A r \in Sellers \cup Editors : TaskInv(r)
  BY DEF IndInv
<1> USE DEF StartMove, orderVars, paymentVars, bookVars
<1>1. PICK to \in {"shipped", "delivered"} :
        task' = [task EXCEPT ![s] = [step |-> "move", order |-> o, to |-> to]]
  OBVIOUS
<1>2. /\ task' \in [Sellers \cup Editors -> Tasks \cup {Idle}]
      /\ task'[s] = [step |-> "move", order |-> o, to |-> to]
      /\ \A r \in (Sellers \cup Editors) \ {s} : task'[r] = task[r]
  BY <1>0, <1>1 DEF TypeOK, Tasks
<1>3. TypeOK'
  BY <1>0, <1>2 DEF TypeOK
<1>4. \A w \in Workers : JobInv(w)'
  BY DEF IndInv, JobInv, Taken
<1>5. \A r \in Sellers \cup Editors : TaskInv(r)'
  BY <1>0, <1>2 DEF TaskInv
<1> QED
  BY <1>3, <1>4, <1>5, FrameInd

LEMMA FinishMoveInd ==
  ASSUME IndInv, NEW s \in Sellers \cup Editors, FinishMove(s)
  PROVE  IndInv'
<1>0. TypeOK /\ TaskInv(s) /\ task[s].step = "move"
  BY DEF IndInv, FinishMove
<1> USE DEF FinishMove, paymentVars, bookVars
<1>1. /\ task' \in [Sellers \cup Editors -> Tasks \cup {Idle}]
      /\ \A r \in Sellers \cup Editors : task'[r] = task[r] \/ task'[r] = Idle
  BY <1>0 DEF TypeOK
<1>2. /\ doomed' \in [Expirers -> SUBSET Orders] /\ overridden' \in [Orders -> BOOLEAN]
  BY <1>0 DEF TypeOK
<1>3. PICK o \in Orders, to \in {"shipped", "delivered"} : o = task[s].order /\ to = task[s].to
  BY <1>0, TaskTyped
<1>4. CASE Transition(o, to)
  <2>1. status[o] \notin {"none", "delivered", "cancelled"} /\ Move(o, to)
    BY <1>3, <1>4, TransitionLeads DEF Statuses, Rank
  <2>2. status[o] # "pending_payment"
    BY <1>0, <1>3 DEF TaskInv
  <2> QED
    BY <1>1, <1>2, <1>3, <2>1, <2>2, MoveInd
<1>5. CASE UNCHANGED <<stock, status, timeline>>
  <2>1. TypeOK'
    BY <1>0, <1>1, <1>2, <1>5 DEF TypeOK
  <2>2. \A w \in Workers : JobInv(w)'
    BY <1>5 DEF IndInv, JobInv, Taken
  <2>3. \A r \in Sellers \cup Editors : TaskInv(r)'
    <3>1. \A r \in Sellers \cup Editors : TaskInv(r)
      BY DEF IndInv
    <3> QED
      BY <1>1, <1>5, <3>1 DEF TaskInv, Idle
  <2> QED
    BY <1>5, <2>1, <2>2, <2>3, FrameInd
<1> QED
  BY <1>3, <1>4, <1>5

LEMMA EditInd ==
  ASSUME IndInv, NEW s \in Sellers \cup Editors, OpenProduct(s) \/ SaveProduct(s)
  PROVE  IndInv'
<1>0. TypeOK /\ \A r \in Sellers \cup Editors : TaskInv(r)
  BY DEF IndInv
<1> USE DEF OpenProduct, SaveProduct, orderVars, paymentVars, bookVars
<1>1. /\ task' \in [Sellers \cup Editors -> Tasks \cup {Idle}]
      /\ \A r \in Sellers \cup Editors : task'[r] = task[r] \/ task'[r].step # "move"
  <2>1. PICK t \in Tasks \cup {Idle} : t.step # "move" /\ task' = [task EXCEPT ![s] = t]
    <3>1. CASE OpenProduct(s)
      <4>1. [step |-> "save", stock |-> stock] \in Tasks
        BY <1>0 DEF TypeOK, Tasks
      <4> QED
        BY <3>1, <4>1
    <3>2. CASE SaveProduct(s)
      BY <3>2 DEF Idle
    <3> QED
      BY <3>1, <3>2
  <2> QED
    BY <1>0, <2>1 DEF TypeOK
<1>2. stock' \in Nat
  BY <1>0, TaskTyped DEF TypeOK
<1>3. edited' \in Int
  BY <1>0, <1>2 DEF TypeOK
<1>4. TypeOK'
  BY <1>0, <1>1, <1>2, <1>3 DEF TypeOK
<1>5. \A w \in Workers : JobInv(w)'
  BY DEF IndInv, JobInv, Taken
<1>6. \A r \in Sellers \cup Editors : TaskInv(r)'
  BY <1>0, <1>1 DEF TaskInv
<1> QED
  BY <1>4, <1>5, <1>6, FrameInd

-----------------------------------------------------------------------------
(* Sessions at bKash *)

LEMMA CreatePaymentInd ==
  ASSUME IndInv, NEW o \in Orders, CreatePayment(o)
  PROVE  IndInv'
<1>0. /\ TypeOK
      /\ \A q \in Orders : OrderInv(q) /\ BookInv(q)
      /\ \A i \in DOMAIN txs : TxInv(i)
      /\ \A w \in Workers : JobInv(w)
      /\ \A s \in Sellers \cup Editors : TaskInv(s)
      /\ Len(txs) <= MaxTxs /\ PaidOnce /\ MoneyBehindBooks
  BY DEF IndInv
<1> USE DEF CreatePayment, orderVars, bookVars, actorVars
<1>1. TypeOK'
  BY <1>0 DEF TypeOK
<1>2. \A q \in Orders : OrderInv(q)' /\ BookInv(q)'
  BY <1>0 DEF OrderInv, BookInv
<1>3. \A i \in DOMAIN txs' : TxInv(i)'
  BY <1>0 DEF TxInv
<1>4. \A w \in Workers : JobInv(w)'
  BY <1>0 DEF JobInv, Taken
<1>5. \A s \in Sellers \cup Editors : TaskInv(s)'
  BY <1>0 DEF TaskInv
<1>6. PaidOnce' /\ MoneyBehindBooks'
  BY <1>0 DEF PaidOnce, MoneyBehindBooks, Taken
<1> QED
  BY <1>0, <1>1, <1>2, <1>3, <1>4, <1>5, <1>6 DEF IndInv

LEMMA DropCreateInd ==
  ASSUME IndInv, NEW o \in Orders, DropCreate(o)
  PROVE  IndInv'
<1> USE DEF DropCreate, orderVars, bookVars, actorVars
<1>1. TypeOK' /\ opening' \subseteq opening
  BY DEF IndInv, TypeOK
<1>2. \A w \in Workers : JobInv(w)'
  BY DEF IndInv, JobInv, Taken
<1>3. \A s \in Sellers \cup Editors : TaskInv(s)'
  BY DEF IndInv, TaskInv
<1> QED
  BY <1>1, <1>2, <1>3, FrameInd

LEMMA InsertTxInd ==
  ASSUME IndInv, NEW o \in Orders, InsertTx(o)
  PROVE  IndInv'
<1>0. /\ TypeOK
      /\ \A q \in Orders : OrderInv(q) /\ BookInv(q)
      /\ \A i \in DOMAIN txs : TxInv(i)
      /\ PaidOnce /\ MoneyBehindBooks
  BY DEF IndInv
<1> USE DEF InsertTx, orderVars, bookVars, actorVars
<1> DEFINE t == [order |-> o, status |-> "initiated", age |-> 0, gate |-> "open"]
           n == Len(txs) + 1
<1>1. txs \in Seq(Tx) /\ t \in Tx /\ txs' = Append(txs, t) /\ n \in Nat /\ n <= MaxTxs
  BY <1>0, StockIsCount DEF TypeOK, Tx, TxStatuses, MaxAge
<1> HIDE DEF t
<1>2. /\ txs' \in Seq(Tx) /\ Len(txs') = n /\ DOMAIN txs' = DOMAIN txs \cup {n}
      /\ txs'[n] = t
      /\ \A j \in DOMAIN txs : txs'[j] = txs[j]
  BY <1>1, TxAdded
<1> HIDE DEF n
<1> USE DEF t
<1>3. TypeOK'
  BY <1>0, <1>2 DEF TypeOK
<1>4. Len(txs)' <= MaxTxs
  BY <1>1, <1>2
<1>5. \A q \in Orders : OrderInv(q)' /\ BookInv(q)'
  BY <1>0 DEF OrderInv, BookInv
<1>6. ASSUME NEW i \in DOMAIN txs' PROVE TxInv(i)'
  <2>1. CASE i \in DOMAIN txs
    BY <1>0, <1>2, <2>1 DEF TxInv
  <2>2. CASE i = n
    BY <1>0, <1>2, <2>2 DEF TxInv, OrderInv
  <2> QED
    BY <1>2, <2>1, <2>2
<1>7. PaidOnce'
  <2>1. ASSUME NEW q \in Orders
        PROVE  {i \in DOMAIN txs : txs[i].order = q /\ txs[i].status = "completed"}'
                 = {i \in DOMAIN txs : txs[i].order = q /\ txs[i].status = "completed"}
    BY <1>2
  <2> QED
    BY <1>0, <2>1 DEF PaidOnce
<1>8. MoneyBehindBooks'
  BY <1>0, <1>2 DEF MoneyBehindBooks, Taken
<1>9. \A w \in Workers : JobInv(w)'
  <2>1. \A w \in Workers : JobInv(w)
    BY DEF IndInv
  <2> QED
    BY <1>2, <2>1 DEF JobInv, Taken
<1>10. \A s \in Sellers \cup Editors : TaskInv(s)'
  <2>1. \A s \in Sellers \cup Editors : TaskInv(s)
    BY DEF IndInv
  <2> QED
    BY <2>1 DEF TaskInv
<1> QED
  BY <1>3, <1>4, <1>5, <1>6, <1>7, <1>8, <1>9, <1>10 DEF IndInv

LEMMA FulfilIsBusy ==
  ASSUME NEW w, Fulfil(w)
  PROVE  job[w] # Idle
<1>1. job[w].step = "fulfil"
  BY DEF Fulfil
<1> QED
  BY <1>1 DEF Idle

\* What happens at bKash, and time.
LEMMA SessionInd ==
  ASSUME IndInv, NEW i \in DOMAIN txs, BuyerPays(i) \/ SessionCloses(i) \/ AgeTx(i)
  PROVE  IndInv'
<1>0. TypeOK /\ txs \in Seq(Tx) /\ txs[i] \in Tx
  BY TxTyped DEF IndInv, TypeOK
<1> USE DEF BuyerPays, SessionCloses, AgeTx, orderVars, bookVars, actorVars
<1>1. PICK t \in Tx : /\ txs' = [txs EXCEPT ![i] = t]
                      /\ t.order = txs[i].order /\ t.status = txs[i].status
                      /\ Taken(i) => t.gate = txs[i].gate
  <2>1. CASE BuyerPays(i) \/ SessionCloses(i)
    <3>1. PICK g \in {"paid", "paid_other", "closed"} : txs' = [txs EXCEPT ![i].gate = g]
      BY <2>1
    <3> DEFINE t == [txs[i] EXCEPT !.gate = g]
    <3>2. t \in Tx
      BY <1>0 DEF Tx
    <3>3. txs' = [txs EXCEPT ![i] = t] /\ t.order = txs[i].order /\ t.status = txs[i].status
      BY <1>0, <3>1 DEF Tx
    <3>4. ~Taken(i)
      BY <2>1 DEF Taken
    <3> QED
      BY <3>2, <3>3, <3>4
  <2>2. CASE AgeTx(i)
    <3> DEFINE t == [txs[i] EXCEPT !.age = @ + 1]
    <3>1. t \in Tx
      <4>1. txs[i].age \in 0..MaxAge /\ txs[i].age < MaxAge
        BY <1>0, <2>2 DEF Tx
      <4>2. txs[i].age + 1 \in 0..MaxAge
        BY <4>1 DEF MaxAge
      <4> HIDE DEF BuyerPays, SessionCloses, AgeTx, orderVars, bookVars, actorVars
      <4> QED
        BY <1>0, <4>2 DEF Tx
    <3>2. txs' = [txs EXCEPT ![i] = t] /\ t.order = txs[i].order /\ t.status = txs[i].status
          /\ t.gate = txs[i].gate
      BY <1>0, <2>2 DEF Tx
    <3> QED
      BY <3>1, <3>2
  <2> QED
    BY <2>1, <2>2
<1>2. /\ txs' \in Seq(Tx) /\ Len(txs') = Len(txs) /\ DOMAIN txs' = DOMAIN txs
      /\ txs'[i] = t
      /\ \A j \in DOMAIN txs \ {i} : txs'[j] = txs[j]
  BY <1>0, <1>1, TxChanged
<1>3. TypeOK'
  BY <1>0, <1>2 DEF TypeOK
<1>4. \A j \in DOMAIN txs : /\ txs'[j].order = txs[j].order
                            /\ txs'[j].status = "completed" <=> txs[j].status = "completed"
                            /\ Taken(j) => Taken(j)'
  BY <1>1, <1>2 DEF Taken
<1> QED
  BY <1>2, <1>3, <1>4, PaymentInd

-----------------------------------------------------------------------------
(* What clients and reconcilers do about a payment *)

LEMMA JobTyped ==
  ASSUME IndInv, NEW w \in Workers, job[w] # Idle
  PROVE  /\ job[w] \in Jobs /\ job[w].tx \in DOMAIN txs
         /\ job[w].step \in {"fulfil", "flag"} => Taken(job[w].tx)
  BY DEF IndInv, TypeOK, JobInv

LEMMA JobInd ==
  ASSUME IndInv, NEW w \in Workers, NEW j \in Jobs \cup {Idle}, Goes(w, j), KeepAllButJobs,
         j # Idle => /\ j.tx \in DOMAIN txs
                     /\ j.step \in {"fulfil", "flag"} => Taken(j.tx)
  PROVE  IndInv'
<1>0. TypeOK /\ \A v \in Workers : JobInv(v)
  BY DEF IndInv
<1> USE DEF KeepAllButJobs, orderVars, paymentVars, bookVars
<1>1. /\ job' \in [Workers -> Jobs \cup {Idle}] /\ job'[w] = j
      /\ \A v \in Workers \ {w} : job'[v] = job[v]
  BY <1>0 DEF TypeOK, Goes
<1>2. TypeOK'
  BY <1>0, <1>1 DEF TypeOK
<1>3. ASSUME NEW v \in Workers PROVE JobInv(v)'
  <2>1. CASE v = w
    BY <1>1, <2>1 DEF JobInv, Taken
  <2>2. CASE v # w
    BY <1>0, <1>1, <2>2 DEF JobInv, Taken
  <2> QED
    BY <2>1, <2>2
<1>4. \A s \in Sellers \cup Editors : TaskInv(s)'
  BY DEF IndInv, TaskInv
<1> QED
  BY <1>2, <1>3, <1>4, FrameInd

LEMMA StartJobInd ==
  ASSUME IndInv, NEW w \in Workers, NEW i \in DOMAIN txs, StartExecute(w, i) \/ StartReconcile(w, i)
  PROVE  IndInv'
<1>1. DOMAIN txs = 1..Len(txs) /\ Len(txs) \in Nat /\ Len(txs) <= MaxTxs
  BY DEF IndInv, TypeOK
<1>2. Step("ask", i) \in Jobs
  BY <1>1, StockIsCount DEF Jobs, Step
<1>3. Step("ask", i).tx = i /\ Step("ask", i).step = "ask"
  BY DEF Step
<1>4. Goes(w, Step("ask", i)) /\ KeepAllButJobs
  BY DEF StartExecute, StartReconcile
<1> QED
  BY <1>2, <1>3, <1>4, JobInd

LEMMA AnswerInd ==
  ASSUME IndInv, NEW w \in Workers,
         AnswerCompleted(w) \/ AnswerNotCompleted(w) \/ DropJob(w) \/ FoundSettled(w)
  PROVE  IndInv'
<1> DEFINE i == job[w].tx
<1>1. ASSUME job[w] # Idle
      PROVE  i \in 1..MaxTxs /\ i \in DOMAIN txs
  BY <1>1, JobTyped DEF Jobs
<1>2. PICK j \in Jobs \cup {Idle} :
        /\ Goes(w, j) /\ KeepAllButJobs
        /\ j # Idle => /\ j.tx \in DOMAIN txs
                       /\ j.step \in {"fulfil", "flag"} => Taken(j.tx)
  <2>1. CASE AnswerCompleted(w)
    <3>1. job[w] # Idle
      BY <2>1 DEF AnswerCompleted, Idle
    <3>2. PICK v \in Verdicts(i) : Goes(w, Step(v, i)) /\ KeepAllButJobs
      BY <2>1 DEF AnswerCompleted
    <3>3. v \in {"fulfil", "flag"} /\ Taken(i)
      BY <3>2 DEF Verdicts, Taken
    <3>4. Step(v, i) \in Jobs /\ Step(v, i).tx = i
      BY <1>1, <3>1, <3>3 DEF Step, Jobs
    <3> QED
      BY <1>1, <3>1, <3>2, <3>3, <3>4
  <2>2. CASE AnswerNotCompleted(w)
    <3>1. job[w] # Idle
      BY <2>2 DEF AnswerNotCompleted, Idle
    <3>2. Step("terminal", i) \in Jobs /\ Step("terminal", i).tx = i /\ Step("terminal", i).step = "terminal"
      BY <1>1, <3>1 DEF Step, Jobs
    <3>3. Goes(w, Step("terminal", i)) \/ Goes(w, Idle)
      BY <2>2 DEF AnswerNotCompleted
    <3>4. KeepAllButJobs
      BY <2>2 DEF AnswerNotCompleted
    <3> HIDE DEF i
    <3>5. CASE Goes(w, Idle)
      BY <3>4, <3>5
    <3>6. CASE Goes(w, Step("terminal", i))
      <4>1. i \in DOMAIN txs
        BY <1>1, <3>1
      <4> QED
        BY <3>2, <3>4, <3>6, <4>1
    <3> QED
      BY <3>3, <3>5, <3>6
  <2>3. CASE DropJob(w) \/ FoundSettled(w)
    BY <2>3 DEF DropJob, FoundSettled
  <2> QED
    BY <2>1, <2>2, <2>3
<1> QED
  BY <1>2, JobInd

\* The payment that a job settles.
LEMMA Settled ==
  ASSUME IndInv, NEW w \in Workers, job[w] # Idle, NEW s \in TxStatuses, Settles(w, job[w].tx, s)
  PROVE  LET i == job[w].tx
         IN  /\ i \in DOMAIN txs
             /\ txs' \in Seq(Tx) /\ Len(txs') = Len(txs) /\ DOMAIN txs' = DOMAIN txs
             /\ txs'[i].order = txs[i].order /\ txs'[i].gate = txs[i].gate /\ txs'[i].status = s
             /\ \A j \in DOMAIN txs \ {i} : txs'[j] = txs[j]
             /\ job' \in [Workers -> Jobs \cup {Idle}]
             /\ \A v \in Workers : job'[v] = job[v] \/ job'[v] = Idle
<1> DEFINE i == job[w].tx
           t == [txs[i] EXCEPT !.status = s]
<1>1. i \in DOMAIN txs /\ txs \in Seq(Tx) /\ txs[i] \in Tx
  BY JobTyped, TxTyped DEF IndInv, TypeOK
<1>2. t \in Tx /\ t.order = txs[i].order /\ t.gate = txs[i].gate /\ t.status = s
  BY <1>1 DEF Tx
<1>3. txs' = [txs EXCEPT ![i] = t]
  BY DEF Settles
<1>4. job \in [Workers -> Jobs \cup {Idle}] /\ job' = [job EXCEPT ![w] = Idle]
  BY DEF IndInv, TypeOK, Settles, Goes
<1>5. /\ job' \in [Workers -> Jobs \cup {Idle}]
      /\ \A v \in Workers : job'[v] = job[v] \/ job'[v] = Idle
  BY <1>4
<1> HIDE DEF i, t
<1>6. /\ txs' \in Seq(Tx) /\ Len(txs') = Len(txs) /\ DOMAIN txs' = DOMAIN txs
      /\ txs'[i] = t
      /\ \A j \in DOMAIN txs \ {i} : txs'[j] = txs[j]
  BY <1>1, <1>2, <1>3, TxChanged
<1> QED
  BY <1>1, <1>2, <1>5, <1>6 DEF i

\* A payment is flagged, failed or cancelled, and nothing else happens.
LEMMA SettleInd ==
  ASSUME IndInv, NEW w \in Workers, FlagForReview(w) \/ MarkTerminal(w)
  PROVE  IndInv'
<1> DEFINE i == job[w].tx
<1>1. /\ job[w] # Idle /\ txs[i].status # "completed"
      /\ UNCHANGED <<edited, stock, orderVars, bookVars, opening, doomed, task>>
  BY DEF FlagForReview, MarkTerminal, Settles, Idle
<1>2. PICK s \in TxStatuses : s # "completed" /\ Settles(w, i, s)
  BY DEF FlagForReview, MarkTerminal, TxStatuses
<1>3. /\ i \in DOMAIN txs
      /\ txs' \in Seq(Tx) /\ Len(txs') = Len(txs) /\ DOMAIN txs' = DOMAIN txs
      /\ txs'[i].order = txs[i].order /\ txs'[i].gate = txs[i].gate /\ txs'[i].status = s
      /\ \A j \in DOMAIN txs \ {i} : txs'[j] = txs[j]
      /\ job' \in [Workers -> Jobs \cup {Idle}]
      /\ \A v \in Workers : job'[v] = job[v] \/ job'[v] = Idle
  BY <1>1, <1>2, Settled
<1> HIDE DEF i
<1> USE DEF orderVars, bookVars
<1>4. TypeOK'
  BY <1>1, <1>3 DEF IndInv, TypeOK
<1>5. \A j \in DOMAIN txs : /\ txs'[j].order = txs[j].order
                            /\ txs'[j].status = "completed" <=> txs[j].status = "completed"
                            /\ Taken(j) => Taken(j)'
  BY <1>1, <1>2, <1>3 DEF Taken, i
<1> QED
  BY <1>1, <1>3, <1>4, <1>5, PaymentInd

LEMMA FulfilInd ==
  ASSUME IndInv, NEW w \in Workers, Fulfil(w)
  PROVE  IndInv'
<1>0. /\ TypeOK
      /\ \A q \in Orders : OrderInv(q) /\ BookInv(q)
      /\ \A j \in DOMAIN txs : TxInv(j)
      /\ PaidOnce /\ MoneyBehindBooks
  BY DEF IndInv
<1>1. PICK i \in DOMAIN txs, o \in Orders : i = job[w].tx /\ o = txs[i].order
  <2>1. job[w] # Idle
    BY FulfilIsBusy
  <2> QED
    BY <1>0, <2>1, JobTyped, TxTyped DEF TypeOK
<1>2. /\ job[w] # Idle /\ status[o] = "pending_payment" /\ Move(o, "paid") /\ Settles(w, i, "completed")
      /\ journals' = [journals EXCEPT ![o] = @ \cup {"order_payment"}]
      /\ invoice' = [invoice EXCEPT ![o] = IssueInvoice(@)]
      /\ UNCHANGED <<edited, method, old, overridden, refunded, opening, doomed, task>>
  BY <1>1 DEF Fulfil, Payable, Settles, Idle
<1>3. /\ txs' \in Seq(Tx) /\ Len(txs') = Len(txs) /\ DOMAIN txs' = DOMAIN txs
      /\ txs'[i].order = txs[i].order /\ txs'[i].gate = txs[i].gate /\ txs'[i].status = "completed"
      /\ \A j \in DOMAIN txs \ {i} : txs'[j] = txs[j]
      /\ job' \in [Workers -> Jobs \cup {Idle}]
      /\ \A v \in Workers : job'[v] = job[v] \/ job'[v] = Idle
  BY <1>1, <1>2, Settled DEF TxStatuses
<1>4. Taken(i) /\ \A j \in DOMAIN txs : txs'[j].order = txs[j].order /\ (Taken(j) => Taken(j)')
  <2>1. Taken(i)
    BY <1>1, <1>2, JobTyped DEF Fulfil
  <2> QED
    BY <1>3, <2>1 DEF Taken
<1>5. TxInv(i) /\ method[o] = "bkash"
  BY <1>0, <1>1 DEF TxInv
<1>6. /\ status' \in [Orders -> Statuses \cup {"none"}] /\ status'[o] = "paid"
      /\ \A q \in Orders \ {o} : status'[q] = status[q]
      /\ stock' = stock /\ timeline' = timeline
  BY <1>0, <1>2 DEF TypeOK, Move, Recorded, Statuses, Rank
<1>7. /\ journals' \in [Orders -> SUBSET Kinds] /\ journals'[o] = journals[o] \cup {"order_payment"}
      /\ \A q \in Orders \ {o} : journals'[q] = journals[q]
  BY <1>0, <1>2 DEF TypeOK, Kinds
<1>8. /\ invoice' \in [Orders -> {"none", "issued", "voided"}] /\ invoice'[o] # "none"
      /\ \A q \in Orders \ {o} : invoice'[q] = invoice[q]
  BY <1>0, <1>2 DEF TypeOK, IssueInvoice
<1>9. TypeOK'
  BY <1>0, <1>2, <1>3, <1>6, <1>7, <1>8 DEF TypeOK
<1>10. Len(txs)' <= MaxTxs
  BY <1>3 DEF IndInv
<1>11. ASSUME NEW q \in Orders PROVE OrderInv(q)' /\ BookInv(q)'
  <2>1. OrderInv(q) /\ BookInv(q)
    BY <1>0
  <2>2. CASE q = o
    <3>1. OrderInv(o)'
      BY <1>2, <1>5, <1>6, <2>1, <2>2 DEF OrderInv
    <3>2. ~refunded[o] /\ ~refunded'[o] /\ "order_release" \notin journals[o]
      BY <1>2, <2>1, <2>2 DEF OrderInv, BookInv
    <3>3. BookInv(o)'
      BY <1>2, <1>6, <1>7, <2>1, <2>2, <3>2 DEF BookInv
    <3> QED
      BY <2>2, <3>1, <3>3
  <2>3. CASE q # o
    BY <1>2, <1>6, <1>7, <1>8, <2>1, <2>3 DEF OrderInv, BookInv
  <2> QED
    BY <2>2, <2>3
<1>12. ASSUME NEW j \in DOMAIN txs' PROVE TxInv(j)'
  <2>1. TxInv(j) /\ txs[j].order \in Orders /\ (j # i => txs'[j] = txs[j])
    BY <1>0, <1>3, TxTyped DEF TypeOK
  <2>2. CASE txs[j].order = o
    BY <1>2, <1>3, <1>4, <1>5, <1>6, <2>2 DEF TxInv
  <2>3. CASE txs[j].order # o
    BY <1>1, <1>2, <1>3, <1>4, <1>6, <2>1, <2>3 DEF TxInv
  <2> QED
    BY <2>2, <2>3
<1>13. PaidOnce'
  <2> DEFINE done(q) == {j \in DOMAIN txs : txs[j].order = q /\ txs[j].status = "completed"}
  <2>1. done(o) = {}
    BY <1>0, <1>2 DEF TxInv
  <2>2. done(o)' = {i}
    BY <1>1, <1>3, <1>4, <2>1
  <2>3. ASSUME NEW q \in Orders \ {o} PROVE done(q)' = done(q)
    BY <1>1, <1>3, <1>4
  <2>4. ASSUME NEW q \in Orders
        PROVE  /\ \A j, k \in done(q)' : j = k
               /\ done(q)' # {} => "order_payment" \in journals'[q] /\ invoice'[q] # "none"
               /\ (status'[q] = "paid" /\ ~overridden'[q]) => done(q)' # {}
    <3>1. CASE q = o
      BY <1>7, <1>8, <2>2, <3>1
    <3>2. CASE q # o
      <4>1. /\ \A j, k \in done(q) : j = k
            /\ done(q) # {} => "order_payment" \in journals[q] /\ invoice[q] # "none"
            /\ (status[q] = "paid" /\ ~overridden[q]) => done(q) # {}
        BY <1>0 DEF PaidOnce
      <4> HIDE DEF done
      <4> QED
        BY <1>2, <1>6, <1>7, <1>8, <2>3, <3>2, <4>1
    <3> QED
      BY <3>1, <3>2
  <2> QED
    BY <2>4 DEF PaidOnce
<1>14. MoneyBehindBooks'
  <2>1. ASSUME NEW q \in Orders, (method[q] = "bkash" /\ journals[q] # {} /\ ~overridden[q])'
        PROVE  \E j \in DOMAIN txs' : txs'[j].order = q /\ Taken(j)'
    <3>1. CASE q = o
      BY <1>1, <1>3, <1>4, <3>1
    <3>2. CASE q # o
      <4>1. \E j \in DOMAIN txs : txs[j].order = q /\ Taken(j)
        BY <1>0, <1>2, <1>7, <2>1, <3>2 DEF MoneyBehindBooks
      <4> QED
        BY <1>3, <1>4, <4>1
    <3> QED
      BY <3>1, <3>2
  <2> QED
    BY <2>1 DEF MoneyBehindBooks
<1>15. \A v \in Workers : JobInv(v)'
  <2>1. \A v \in Workers : JobInv(v)
    BY DEF IndInv
  <2> QED
    BY <1>3, <1>4, <2>1 DEF JobInv
<1>16. ASSUME NEW s \in Sellers \cup Editors PROVE TaskInv(s)'
  <2>1. TaskInv(s) /\ (task[s].step = "move" => task[s].order \in Orders)
    BY <1>0, TaskTyped DEF IndInv
  <2> QED
    BY <1>2, <1>6, <2>1 DEF TaskInv
<1> QED
  BY <1>9, <1>10, <1>11, <1>12, <1>13, <1>14, <1>15, <1>16 DEF IndInv

-----------------------------------------------------------------------------
(* Earnings and refunds *)

LEMMA OnOrderDeliveredInd ==
  ASSUME IndInv, NEW o \in Orders, OnOrderDelivered(o)
  PROVE  IndInv'
<1>0. /\ TypeOK
      /\ \A q \in Orders : OrderInv(q) /\ BookInv(q)
      /\ \A i \in DOMAIN txs : TxInv(i)
      /\ PaidOnce /\ MoneyBehindBooks
  BY DEF IndInv
<1>1. /\ status[o] = "delivered"
      /\ journals' = [journals EXCEPT ![o] = @ \cup
                         IF method[o] = "bkash" THEN {"order_payment", "order_release"}
                                                ELSE {"order_release"}]
      /\ invoice' = [invoice EXCEPT ![o] = IssueInvoice(@)]
      /\ UNCHANGED <<edited, stock, orderVars, paymentVars, refunded, actorVars>>
  BY DEF OnOrderDelivered, Releasable
<1> USE DEF orderVars, paymentVars, actorVars
<1>2. /\ journals' \in [Orders -> SUBSET Kinds]
      /\ journals'[o] = journals[o] \cup IF method[o] = "bkash" THEN {"order_payment", "order_release"}
                                                              ELSE {"order_release"}
      /\ \A q \in Orders \ {o} : journals'[q] = journals[q]
  BY <1>0, <1>1 DEF TypeOK, Kinds
<1>3. /\ invoice' \in [Orders -> {"none", "issued", "voided"}] /\ invoice'[o] # "none"
      /\ \A q \in Orders \ {o} : invoice'[q] = invoice[q]
  BY <1>0, <1>1 DEF TypeOK, IssueInvoice
<1>4. TypeOK'
  BY <1>0, <1>1, <1>2, <1>3 DEF TypeOK
<1>5. Len(txs)' <= MaxTxs
  BY <1>1 DEF IndInv
<1>6. ASSUME NEW q \in Orders PROVE OrderInv(q)' /\ BookInv(q)'
  <2>1. OrderInv(q) /\ BookInv(q)
    BY <1>0
  <2>2. CASE q = o
    <3>1. ~refunded[o]
      BY <1>1, <2>1, <2>2 DEF OrderInv
    <3>2. OrderInv(o)'
      BY <1>1, <2>1, <2>2, <3>1 DEF OrderInv
    <3>3. BookInv(o)'
      BY <1>1, <1>2, <2>1, <2>2, <3>1 DEF BookInv
    <3> QED
      BY <2>2, <3>2, <3>3
  <2>3. CASE q # o
    BY <1>1, <1>2, <1>3, <2>1, <2>3 DEF OrderInv, BookInv
  <2> QED
    BY <2>2, <2>3
<1>7. \A i \in DOMAIN txs' : TxInv(i)'
  BY <1>0, <1>1 DEF TxInv
<1>8. PaidOnce'
  <2>1. ASSUME NEW q \in Orders, "order_payment" \in journals[q] /\ invoice[q] # "none"
        PROVE  "order_payment" \in journals'[q] /\ invoice'[q] # "none"
    BY <1>2, <1>3, <2>1
  <2> QED
    BY <1>0, <1>1, <2>1 DEF PaidOnce
<1>9. MoneyBehindBooks'
  <2>1. (method[o] = "bkash" /\ ~overridden[o]) => journals[o] # {}
    BY <1>0, <1>1 DEF BookInv
  <2> QED
    BY <1>0, <1>1, <1>2, <2>1 DEF MoneyBehindBooks, Taken
<1>10. \A w \in Workers : JobInv(w)'
  <2>1. \A w \in Workers : JobInv(w)
    BY DEF IndInv
  <2> QED
    BY <1>1, <2>1 DEF JobInv, Taken
<1>11. \A s \in Sellers \cup Editors : TaskInv(s)'
  <2>1. \A s \in Sellers \cup Editors : TaskInv(s)
    BY DEF IndInv
  <2> QED
    BY <1>1, <2>1 DEF TaskInv
<1> QED
  BY <1>4, <1>5, <1>6, <1>7, <1>8, <1>9, <1>10, <1>11 DEF IndInv

\* The newest of a set of rows is one of them.
LEMMA NewestIsOne ==
  ASSUME txs \in Seq(Tx), NEW S \in SUBSET DOMAIN txs, S # {}
  PROVE  Newest(S) \in S
<1>1. Len(txs) \in Nat /\ S \in SUBSET (0..Len(txs))
  OBVIOUS
<1>2. IsFiniteSet(S)
  BY <1>1, FS_Interval, FS_Subset
<1>3. \E i \in S : \A j \in S : j <= i
  <2> DEFINE Above(n) == {j \in S : j > n}
             Bad == {Above(n) : n \in S}
  <2>1. SUFFICES ASSUME \A i \in S : \E j \in S : ~(j <= i) PROVE FALSE
    OBVIOUS
  <2>2. Bad \in SUBSET (SUBSET S) /\ Bad # {}
    OBVIOUS
  <2> HIDE DEF Bad
  <2>3. PICK T \in Bad : \A U \in SUBSET T : U # T => U \notin Bad
    BY <1>2, <2>2, SmallestSubset
  <2>4. PICK n \in S : T = Above(n)
    BY DEF Bad
  <2>5. PICK m \in S : ~(m <= n)
    BY <2>1
  <2>6. n \in Nat /\ m \in Nat /\ m > n /\ \A j \in S : j \in Nat
    BY <1>1, <2>5
  <2>7. Above(m) \in SUBSET T /\ Above(m) # T /\ Above(m) \in Bad
    BY <2>4, <2>6 DEF Bad
  <2> QED
    BY <2>3, <2>7
<1> QED
  BY <1>3 DEF Newest

\* What a refund does to an order, its payment and its books.
LEMMA Refunding ==
  ASSUME IndInv, NEW o \in Orders, RefundOrder(o)
  PROVE  /\ \E i \in DOMAIN txs : /\ txs[i].order = o
                                 /\ txs'[i].order = o /\ txs'[i].status = "refunded"
                                 /\ txs'[i].gate = txs[i].gate
                                 /\ \A j \in DOMAIN txs \ {i} : txs'[j] = txs[j]
         /\ txs' \in Seq(Tx) /\ Len(txs') = Len(txs) /\ DOMAIN txs' = DOMAIN txs
         /\ journals' \in [Orders -> SUBSET Kinds] /\ journals'[o] = Reversed(journals[o])
         /\ \A q \in Orders \ {o} : journals'[q] = journals[q]
         /\ invoice' \in [Orders -> {"none", "issued", "voided"}]
         /\ invoice'[o] = IF invoice[o] = "none" THEN "none" ELSE "voided"
         /\ \A q \in Orders \ {o} : invoice'[q] = invoice[q]
         /\ status' \in [Orders -> Statuses \cup {"none"}] /\ status'[o] = "cancelled"
         /\ \A q \in Orders \ {o} : status'[q] = status[q]
         /\ refunded' \in [Orders -> BOOLEAN] /\ refunded'[o] /\ ~refunded[o]
         /\ \A q \in Orders \ {o} : refunded'[q] = refunded[q]
         /\ timeline' \in [Orders -> [delivered : 0..1, cancelled : 0..2]]
         /\ timeline'[o] = [delivered |-> timeline[o].delivered, cancelled |-> timeline[o].cancelled + 1]
         /\ \A q \in Orders \ {o} : timeline'[q] = timeline[q]
         /\ status[o] # "none" /\ method[o] = "bkash"
<1>0. TypeOK /\ OrderInv(o) /\ (\A i \in DOMAIN txs : TxInv(i)) /\ txs \in Seq(Tx)
  BY DEF IndInv, TypeOK
<1>1. PICK i \in DOMAIN txs : /\ i \in RefundCandidates(o)
                             /\ txs' = [txs EXCEPT ![i].status = "refunded"]
  <2>1. RefundCandidates(o) \in SUBSET DOMAIN txs /\ RefundCandidates(o) # {}
    BY DEF RefundCandidates, RefundOrder
  <2>2. Newest(RefundCandidates(o)) \in RefundCandidates(o)
    BY <1>0, <2>1, NewestIsOne
  <2> QED
    BY <2>1, <2>2 DEF RefundOrder
<1>2. txs[i].order = o /\ txs[i] \in Tx /\ status[o] # "none"
  BY <1>0, <1>1, TxTyped DEF RefundCandidates, TxInv
<1>3. /\ txs' \in Seq(Tx) /\ Len(txs') = Len(txs) /\ DOMAIN txs' = DOMAIN txs
      /\ txs'[i].order = o /\ txs'[i].status = "refunded" /\ txs'[i].gate = txs[i].gate
      /\ \A j \in DOMAIN txs \ {i} : txs'[j] = txs[j]
  <2> DEFINE t == [txs[i] EXCEPT !.status = "refunded"]
  <2>1. t \in Tx /\ t.order = o /\ t.status = "refunded" /\ t.gate = txs[i].gate
    BY <1>2 DEF Tx, TxStatuses
  <2>2. txs' = [txs EXCEPT ![i] = t]
    BY <1>1
  <2> HIDE DEF t
  <2> QED
    BY <1>0, <2>1, <2>2, TxChanged
<1>4. /\ journals' \in [Orders -> SUBSET Kinds] /\ journals'[o] = Reversed(journals[o])
      /\ \A q \in Orders \ {o} : journals'[q] = journals[q]
  <2>1. journals \in [Orders -> SUBSET Kinds] /\ journals' = [journals EXCEPT ![o] = Reversed(@)]
    BY <1>0 DEF TypeOK, RefundOrder
  <2>2. Reversed(journals[o]) \in SUBSET Kinds
    BY <2>1 DEF Reversed, ReversalOf, Kinds
  <2> QED
    BY <2>1, <2>2
<1>5. /\ invoice' \in [Orders -> {"none", "issued", "voided"}]
      /\ invoice'[o] = IF invoice[o] = "none" THEN "none" ELSE "voided"
      /\ \A q \in Orders \ {o} : invoice'[q] = invoice[q]
  BY <1>0 DEF TypeOK, RefundOrder
<1>6. /\ status' \in [Orders -> Statuses \cup {"none"}] /\ status'[o] = "cancelled"
      /\ \A q \in Orders \ {o} : status'[q] = status[q]
  BY <1>0 DEF TypeOK, RefundOrder, Statuses, Rank
<1>7. /\ refunded' \in [Orders -> BOOLEAN] /\ refunded'[o] /\ ~refunded[o]
      /\ \A q \in Orders \ {o} : refunded'[q] = refunded[q]
  BY <1>0 DEF TypeOK, RefundOrder
<1>8. /\ timeline' \in [Orders -> [delivered : 0..1, cancelled : 0..2]]
      /\ timeline'[o] = [delivered |-> timeline[o].delivered, cancelled |-> timeline[o].cancelled + 1]
      /\ \A q \in Orders \ {o} : timeline'[q] = timeline[q]
  <2>1. timeline \in [Orders -> [delivered : 0..1, cancelled : 0..2]] /\ timeline' = Recorded(o, "cancelled")
    BY <1>0 DEF TypeOK, RefundOrder
  <2>2. timeline[o].delivered \in 0..1 /\ timeline[o].cancelled \in 0..2 /\ timeline[o].cancelled # 2
    BY <1>0, <1>7, <2>1 DEF OrderInv
  <2>3. timeline[o]["cancelled"] < IF "cancelled" = "delivered" THEN 1 ELSE 2
    BY <2>2
  <2>4. /\ timeline' \in [Orders -> [delivered : 0..1, cancelled : 0..2]]
        /\ \A q \in Orders \ {o} : timeline'[q] = timeline[q]
        /\ timeline'[o] = [delivered |-> timeline[o].delivered + (IF "cancelled" = "delivered" THEN 1 ELSE 0),
                           cancelled |-> timeline[o].cancelled + (IF "cancelled" = "cancelled" THEN 1 ELSE 0)]
    BY <2>1, <2>3, Counted
  <2> QED
    BY <2>2, <2>4
<1> QED
  BY <1>1, <1>2, <1>3, <1>4, <1>5, <1>6, <1>7, <1>8 DEF RefundOrder

LEMMA RefundOrderInd ==
  ASSUME IndInv, NEW o \in Orders, RefundOrder(o)
  PROVE  IndInv'
<1>0. /\ TypeOK
      /\ \A q \in Orders : OrderInv(q) /\ BookInv(q)
      /\ \A i \in DOMAIN txs : TxInv(i)
      /\ PaidOnce /\ MoneyBehindBooks
  BY DEF IndInv
<1>1. PICK i \in DOMAIN txs : /\ txs[i].order = o
                             /\ txs'[i].order = o /\ txs'[i].status = "refunded"
                             /\ txs'[i].gate = txs[i].gate
                             /\ \A j \in DOMAIN txs \ {i} : txs'[j] = txs[j]
  BY Refunding
<1>2. /\ txs' \in Seq(Tx) /\ Len(txs') = Len(txs) /\ DOMAIN txs' = DOMAIN txs
      /\ journals' \in [Orders -> SUBSET Kinds] /\ journals'[o] = Reversed(journals[o])
      /\ \A q \in Orders \ {o} : journals'[q] = journals[q]
      /\ invoice' \in [Orders -> {"none", "issued", "voided"}]
      /\ invoice'[o] = IF invoice[o] = "none" THEN "none" ELSE "voided"
      /\ \A q \in Orders \ {o} : invoice'[q] = invoice[q]
  BY Refunding, ZenonT(60)
<1>3. /\ status' \in [Orders -> Statuses \cup {"none"}] /\ status'[o] = "cancelled"
      /\ \A q \in Orders \ {o} : status'[q] = status[q]
      /\ refunded' \in [Orders -> BOOLEAN] /\ refunded'[o] /\ ~refunded[o]
      /\ \A q \in Orders \ {o} : refunded'[q] = refunded[q]
      /\ status[o] # "none" /\ method[o] = "bkash"
  BY Refunding, ZenonT(60)
<1>4. /\ timeline' \in [Orders -> [delivered : 0..1, cancelled : 0..2]]
      /\ timeline'[o] = [delivered |-> timeline[o].delivered, cancelled |-> timeline[o].cancelled + 1]
      /\ \A q \in Orders \ {o} : timeline'[q] = timeline[q]
  BY Refunding
<1>5. UNCHANGED <<edited, method, old, overridden, opening, job, doomed, task>>
  BY DEF RefundOrder, actorVars
<1>6. \A j \in DOMAIN txs : /\ txs'[j].order = txs[j].order
                            /\ txs'[j].status = "completed" => txs[j].status = "completed"
                            /\ Taken(j) => Taken(j)'
  BY <1>1 DEF Taken
<1>7. TypeOK'
  <2>1. stock' \in Nat
    BY <1>0, QtyIsPositive DEF TypeOK, RefundOrder, Restocked
  <2> QED
    BY <1>0, <1>2, <1>3, <1>4, <1>5, <2>1 DEF TypeOK
<1>8. Len(txs)' <= MaxTxs
  BY <1>2 DEF IndInv
<1>9. ASSUME NEW q \in Orders PROVE OrderInv(q)' /\ BookInv(q)'
  <2>1. OrderInv(q) /\ BookInv(q)
    BY <1>0
  <2>2. CASE q = o
    <3>1. timeline[o].delivered \in 0..1 /\ timeline[o].cancelled \in 0..2
      BY <1>0 DEF TypeOK
    <3>2. OrderInv(o)'
      BY <1>2, <1>3, <1>4, <1>5, <2>1, <2>2, <3>1 DEF OrderInv
    <3>3. \A k \in DOMAIN ReversalOf : k \in journals'[o] => ReversalOf[k] \in journals'[o]
      BY <1>2 DEF Reversed, ReversalOf
    <3>4. "order_release" \in journals'[o] => "order_release" \in journals[o]
      BY <1>2 DEF Reversed, ReversalOf
    <3>5. "order_payment" \in journals[o] => "order_payment" \in journals'[o]
      BY <1>2 DEF Reversed
    <3>6. BookInv(o)'
      BY <1>3, <1>5, <2>1, <2>2, <3>3, <3>4, <3>5 DEF BookInv
    <3> QED
      BY <2>2, <3>2, <3>6
  <2>3. CASE q # o
    BY <1>2, <1>3, <1>4, <1>5, <2>1, <2>3 DEF OrderInv, BookInv
  <2> QED
    BY <2>2, <2>3
<1>10. \A j \in DOMAIN txs' : TxInv(j)'
  BY <1>0, <1>2, <1>3, <1>5, <1>6, TxTyped DEF TxInv, TypeOK
<1>11. PaidOnce'
  <2> DEFINE done(q) == {j \in DOMAIN txs : txs[j].order = q /\ txs[j].status = "completed"}
  <2>1. \A q \in Orders : done(q)' \subseteq done(q)
    BY <1>2, <1>6
  <2>2. \A q \in Orders \ {o} : done(q)' = done(q)
    BY <1>1, <1>2
  <2>3. ASSUME NEW q \in Orders
        PROVE  /\ \A j, k \in done(q)' : j = k
               /\ done(q)' # {} => "order_payment" \in journals'[q] /\ invoice'[q] # "none"
               /\ (status'[q] = "paid" /\ ~overridden'[q]) => done(q)' # {}
    <3>1. /\ \A j, k \in done(q) : j = k
          /\ done(q) # {} => "order_payment" \in journals[q] /\ invoice[q] # "none"
          /\ (status[q] = "paid" /\ ~overridden[q]) => done(q) # {}
      BY <1>0 DEF PaidOnce
    <3>2. "order_payment" \in journals[o] => "order_payment" \in journals'[o]
      BY <1>2 DEF Reversed
    <3> HIDE DEF done
    <3>3. CASE q = o
      BY <1>2, <1>3, <2>1, <3>1, <3>2, <3>3
    <3>4. CASE q # o
      BY <1>2, <1>3, <1>5, <2>2, <3>1, <3>4
    <3> QED
      BY <3>3, <3>4
  <2> QED
    BY <2>3 DEF PaidOnce
<1>12. MoneyBehindBooks'
  <2>1. \A q \in Orders : journals'[q] # {} => journals[q] # {}
    BY <1>2 DEF Reversed
  <2> QED
    BY <1>0, <1>2, <1>5, <1>6, <2>1 DEF MoneyBehindBooks
<1>13. \A w \in Workers : JobInv(w)'
  <2>1. \A w \in Workers : JobInv(w)
    BY DEF IndInv
  <2> QED
    BY <1>2, <1>5, <1>6, <2>1 DEF JobInv
<1>14. ASSUME NEW s \in Sellers \cup Editors PROVE TaskInv(s)'
  <2>1. TaskInv(s) /\ (task[s].step = "move" => task[s].order \in Orders)
    BY <1>0, TaskTyped DEF IndInv
  <2> QED
    BY <1>3, <1>5, <2>1 DEF TaskInv
<1> QED
  BY <1>7, <1>8, <1>9, <1>10, <1>11, <1>12, <1>13, <1>14 DEF IndInv

-----------------------------------------------------------------------------
LEMMA NextInd == IndInv /\ [Next]_vars => IndInv'
<1> SUFFICES ASSUME IndInv, [Next]_vars PROVE IndInv'
  OBVIOUS
<1>1. CASE UNCHANGED vars
  <2> USE <1>1 DEF vars, orderVars, paymentVars, bookVars, actorVars
  <2>1. TypeOK'
    BY DEF IndInv, TypeOK
  <2>2. \A w \in Workers : JobInv(w)'
    BY DEF IndInv, JobInv, Taken
  <2>3. \A s \in Sellers \cup Editors : TaskInv(s)'
    BY DEF IndInv, TaskInv
  <2> QED
    BY <2>1, <2>2, <2>3, FrameInd
<1>2. ASSUME NEW o \in Orders,
             \/ PlaceOrder(o) \/ CancelByBuyer(o) \/ AgeOrder(o)
             \/ CreatePayment(o) \/ InsertTx(o) \/ DropCreate(o)
             \/ OnOrderDelivered(o) \/ RefundOrder(o)
      PROVE  IndInv'
  BY <1>2, PlaceOrderInd, CancelByBuyerInd, AgeOrderInd, CreatePaymentInd, InsertTxInd, DropCreateInd,
     OnOrderDeliveredInd, RefundOrderInd
<1>3. ASSUME NEW i \in DOMAIN txs, BuyerPays(i) \/ SessionCloses(i) \/ AgeTx(i)
      PROVE  IndInv'
  BY <1>3, SessionInd
<1>4. ASSUME NEW w \in Workers,
             \/ \E i \in DOMAIN txs : StartExecute(w, i) \/ StartReconcile(w, i)
             \/ AnswerCompleted(w) \/ AnswerNotCompleted(w) \/ DropJob(w) \/ Settle(w)
      PROVE  IndInv'
  BY <1>4, StartJobInd, AnswerInd, FulfilInd, SettleInd DEF Settle
<1>5. ASSUME NEW e \in Expirers, ListAbandoned(e) \/ DropList(e) \/ \E o \in Orders : Expire(e, o)
      PROVE  IndInv'
  BY <1>5, ListInd, ExpireInd
<1>6. ASSUME NEW s \in Sellers \cup Editors,
             \/ FinishMove(s) \/ OpenProduct(s) \/ SaveProduct(s)
             \/ \E o \in Orders : StartMove(s, o)
      PROVE  IndInv'
  BY <1>6, FinishMoveInd, EditInd, StartMoveInd
<1>7. ASSUME NEW a \in Admins, NEW o \in Orders, AdminTransition(a, o)
      PROVE  IndInv'
  BY <1>7, AdminTransitionInd
<1> QED
  BY <1>1, <1>2, <1>3, <1>4, <1>5, <1>6, <1>7 DEF Next, Trade, Dealing

(* Orders, payments, books and what their actors hold agree in every state    *)
(* of MarketplaceOrders.                                                      *)
THEOREM Inductive == Spec => []IndInv
  BY InitInd, NextInd, PTL DEF Spec

(* Every variable keeps its type: no stock below zero (the conditional UPDATE *)
(* of PlaceOrder), no event of an order counted more often than the unique    *)
(* transitions allow.                                                         *)
THEOREM TypeCorrect == Spec => []TypeOK
<1>1. IndInv => TypeOK
  BY DEF IndInv
<1> QED
  BY <1>1, Inductive, PTL

(* However clients and reconcilers race, an order is paid by one payment, and *)
(* that payment is booked and invoiced (marketplace fulfil).                  *)
THEOREM PaidOnceHolds == Spec => []PaidOnce
<1>1. IndInv => PaidOnce
  BY DEF IndInv
<1> QED
  BY <1>1, Inductive, PTL

(* Nothing is booked for a bkash order unless bKash took money for it or an   *)
(* admin moved the unpaid order on (fulfil, MerchantUpdateOrderStatus).       *)
THEOREM MoneyBehindBooksHolds == Spec => []MoneyBehindBooks
<1>1. IndInv => MoneyBehindBooks
  BY DEF IndInv
<1> QED
  BY <1>1, Inductive, PTL

(* A live paid order has its whole total in escrow, a refunded one nothing,   *)
(* and earnings are released only for what was delivered (OnOrderDelivered,   *)
(* RefundOrder).                                                              *)
THEOREM BooksFollowOrderHolds == Spec => []BooksFollowOrder
<1>1. ASSUME IndInv PROVE BooksFollowOrder
  <2> SUFFICES ASSUME NEW o \in Orders
               PROVE  /\ "order_release" \in journals[o] =>
                            \/ status[o] = "delivered"
                            \/ status[o] = "cancelled" /\ refunded[o]
                      /\ (refunded[o] /\ method[o] = "bkash") =>
                            \A k \in DOMAIN ReversalOf : k \in journals[o] => ReversalOf[k] \in journals[o]
                      /\ refunded[o] => status[o] = "cancelled" /\ invoice[o] # "issued" /\ InEscrow(o) = 0
                      /\ (status[o] \in {"paid", "processing", "shipped"} /\ method[o] = "bkash" /\ ~overridden[o]) =>
                            InEscrow(o) = Goods[o] + Charge[o]
    BY DEF BooksFollowOrder
  <2>1. OrderInv(o) /\ BookInv(o)
    BY <1>1 DEF IndInv
  <2>2. "order_release" \in journals[o] => status[o] = "delivered" \/ (status[o] = "cancelled" /\ refunded[o])
    BY <2>1 DEF OrderInv, BookInv
  <2>3. refunded[o] => status[o] = "cancelled" /\ invoice[o] # "issued" /\ InEscrow(o) = 0
    <3>1. refunded[o] /\ "order_payment" \in journals[o] => "refund:order_payment" \in journals[o]
      BY <2>1 DEF BookInv, ReversalOf
    <3> QED
      BY <2>1, <3>1 DEF OrderInv, InEscrow
  <2>4. ASSUME status[o] \in {"paid", "processing", "shipped"} /\ method[o] = "bkash" /\ ~overridden[o]
        PROVE  InEscrow(o) = Goods[o] + Charge[o]
    <3>1. /\ "order_payment" \in journals[o] /\ "order_release" \notin journals[o]
          /\ "refund:order_payment" \notin journals[o]
      BY <2>1, <2>4 DEF OrderInv, BookInv
    <3>2. InEscrow(o) = Goods[o] + Charge[o] - 0
      BY <2>4, <3>1 DEF InEscrow
    <3> QED
      BY <3>2, AmountsAreCounts
  <2> QED
    BY <2>1, <2>2, <2>3, <2>4 DEF BookInv
<1> QED
  BY <1>1, Inductive, PTL

-----------------------------------------------------------------------------
(* What a step does to an order, and to the stock *)

StockKept     == UNCHANGED <<stock, edited, status, timeline>>
StockEdited   == /\ UNCHANGED <<status, timeline>>
                 /\ stock' \in Nat /\ edited' = edited + (stock' - stock)
MovesOn(o, to) ==
    /\ status[o] \notin {"none", "delivered", "cancelled"}
    /\ Rank[to] > Rank[status[o]]
    /\ Move(o, to) /\ edited' = edited

LEMMA StepKinds ==
  ASSUME IndInv, Next
  PROVE  \/ StockKept
         \/ StockEdited
         \/ \E o \in Orders : PlaceOrder(o)
         \/ \E o \in Orders, to \in Statuses : MovesOn(o, to)
         \/ \E o \in Orders : RefundOrder(o)
<1> DEFINE Goal == \/ StockKept
                   \/ StockEdited
                   \/ \E o \in Orders : PlaceOrder(o)
                   \/ \E o \in Orders, to \in Statuses : MovesOn(o, to)
                   \/ \E o \in Orders : RefundOrder(o)
<1> SUFFICES Goal
  OBVIOUS
<1>0. TypeOK
  BY DEF IndInv
<1>a. ASSUME NEW o \in Orders, NEW to \in Statuses, Transition(o, to), edited' = edited PROVE Goal
  BY <1>a DEF MovesOn, Transition, CanTransition
<1>1. ASSUME NEW o \in Orders,
             \/ PlaceOrder(o) \/ CancelByBuyer(o) \/ AgeOrder(o)
             \/ CreatePayment(o) \/ InsertTx(o) \/ DropCreate(o)
             \/ OnOrderDelivered(o) \/ RefundOrder(o)
      PROVE  Goal
  <2>1. CASE CancelByBuyer(o)
    <3>1. MovesOn(o, "cancelled")
      BY <2>1 DEF CancelByBuyer, Cancellable, MovesOn, Rank
    <3> QED
      BY <3>1 DEF Statuses, Rank
  <2>2. CASE AgeOrder(o) \/ CreatePayment(o) \/ InsertTx(o) \/ DropCreate(o) \/ OnOrderDelivered(o)
    BY <2>2 DEF StockKept, AgeOrder, CreatePayment, InsertTx, DropCreate, OnOrderDelivered, orderVars
  <2> QED
    BY <1>1, <2>1, <2>2
<1>2. ASSUME NEW i \in DOMAIN txs, BuyerPays(i) \/ SessionCloses(i) \/ AgeTx(i)
      PROVE  Goal
  BY <1>2 DEF StockKept, BuyerPays, SessionCloses, AgeTx, orderVars
<1>3. ASSUME NEW w \in Workers,
             \/ \E i \in DOMAIN txs : StartExecute(w, i) \/ StartReconcile(w, i)
             \/ AnswerCompleted(w) \/ AnswerNotCompleted(w) \/ DropJob(w) \/ Settle(w)
      PROVE  Goal
  <2>1. CASE Fulfil(w)
    <3>1. PICK o \in Orders : o = txs[job[w].tx].order
      <4>1. job[w] # Idle
        BY <2>1, FulfilIsBusy
      <4> QED
        BY <1>0, <4>1, JobTyped, TxTyped DEF TypeOK
    <3>2. MovesOn(o, "paid")
      <4>1. status[o] = "pending_payment" /\ Move(o, "paid") /\ edited' = edited
        BY <2>1, <3>1 DEF Fulfil, Payable
      <4>2. Rank["paid"] > Rank["pending_payment"]
        BY DEF Rank
      <4> QED
        BY <4>1, <4>2 DEF MovesOn
    <3> QED
      BY <3>2 DEF Statuses, Rank
  <2>2. CASE ~Fulfil(w)
    BY <1>3, <2>2 DEF StockKept, StartExecute, StartReconcile, AnswerCompleted, AnswerNotCompleted, DropJob,
       Settle, FlagForReview, MarkTerminal, FoundSettled, KeepAllButJobs, orderVars
  <2> QED
    BY <2>1, <2>2
<1>4. ASSUME NEW e \in Expirers, ListAbandoned(e) \/ DropList(e) \/ \E o \in Orders : Expire(e, o)
      PROVE  Goal
  <2>1. ASSUME NEW o \in Orders, Expire(e, o) PROVE Goal
    BY <1>a, <2>1 DEF StockKept, Expire, Statuses, Rank
  <2>2. CASE ListAbandoned(e) \/ DropList(e)
    BY <2>2 DEF StockKept, ListAbandoned, DropList, orderVars
  <2> QED
    BY <1>4, <2>1, <2>2
<1>5. ASSUME NEW s \in Sellers \cup Editors,
             \/ FinishMove(s) \/ OpenProduct(s) \/ SaveProduct(s)
             \/ \E o \in Orders : StartMove(s, o)
      PROVE  Goal
  <2>1. CASE FinishMove(s)
    <3>1. PICK o \in Orders, to \in Statuses : o = task[s].order /\ to = task[s].to
      BY <1>0, <2>1, TaskTyped DEF FinishMove, Statuses, Rank
    <3> QED
      BY <1>a, <2>1, <3>1 DEF StockKept, FinishMove
  <2>2. CASE SaveProduct(s)
    BY <1>0, <2>2, TaskTyped DEF SaveProduct, StockEdited, orderVars
  <2>3. CASE OpenProduct(s) \/ \E o \in Orders : StartMove(s, o)
    BY <2>3 DEF StockKept, OpenProduct, StartMove, orderVars
  <2> QED
    BY <1>5, <2>1, <2>2, <2>3
<1>6. ASSUME NEW a \in Admins, NEW o \in Orders, AdminTransition(a, o)
      PROVE  Goal
  BY <1>a, <1>6 DEF AdminTransition
<1> HIDE DEF Goal
<1> QED
  BY <1>1, <1>2, <1>3, <1>4, <1>5, <1>6 DEF Next, Trade, Dealing

(* An order never goes back: neither a late payment nor a late expiry nor a   *)
(* seller's stale update takes it out of delivered or cancelled, or to an     *)
(* earlier status (CanTransition, CancelByBuyer, fulfil).                     *)
THEOREM OnlyForwardHolds == Spec => OnlyForward
<1> DEFINE Forward(o) == (status[o] \notin {"none", status'[o]}) =>
                            \/ /\ status[o] \notin {"delivered", "cancelled"}
                               /\ Rank[status'[o]] > Rank[status[o]]
                            \/ ~refunded[o] /\ refunded'[o]
<1>1. ASSUME IndInv, Next, NEW o \in Orders PROVE Forward(o)
  <2>0. TypeOK
    BY <1>1 DEF IndInv
  <2>1. CASE StockKept \/ StockEdited
    BY <2>1 DEF StockKept, StockEdited
  <2>2. ASSUME NEW q \in Orders, PlaceOrder(q) PROVE Forward(o)
    <3>1. q # o => status'[o] = status[o]
      BY <2>0, <2>2 DEF PlaceOrder, TypeOK
    <3> QED
      BY <2>2, <3>1 DEF PlaceOrder
  <2>3. ASSUME NEW q \in Orders, NEW to \in Statuses, MovesOn(q, to) PROVE Forward(o)
    <3>1. status'[q] = to /\ (q # o => status'[o] = status[o])
      BY <2>0, <2>3 DEF MovesOn, Move, TypeOK
    <3> QED
      BY <2>3, <3>1 DEF MovesOn
  <2>4. ASSUME NEW q \in Orders, RefundOrder(q) PROVE Forward(o)
    <3>1. refunded'[q] /\ ~refunded[q] /\ \A r \in Orders \ {q} : status'[r] = status[r]
      BY <1>1, <2>4, Refunding
    <3> QED
      BY <3>1
  <2> HIDE DEF Forward
  <2> QED
    BY <1>1, <2>1, <2>2, <2>3, <2>4, StepKinds
<1>2. IndInv /\ [Next]_vars => [\A o \in Orders : Forward(o)]_vars
  BY <1>1
<1> QED
  BY <1>2, Inductive, PTL DEF Spec, OnlyForward

(* Only an expirer with an old list and an admin by hand can cancel a paid    *)
(* order without its refund: a buyer's cancellation finds it unpaid, or cash  *)
(* on delivery, and a seller's update never cancels.                          *)
THEOREM PaidIsNotCancelledHolds == Spec => PaidIsNotCancelled
<1>1. ASSUME IndInv, Dealing, NEW o \in Orders,
             status[o] # "cancelled", status'[o] = "cancelled", ~refunded'[o],
             NEW i \in DOMAIN txs, txs[i].order = o, txs[i].status = "completed"
      PROVE  FALSE
  <2>0. TypeOK /\ TxInv(i)
    BY <1>1 DEF IndInv
  <2>1. status[o] # "pending_payment" /\ method[o] = "bkash"
    BY <1>1, <2>0 DEF TxInv
  <2>2. ASSUME NEW q \in Orders,
               \/ PlaceOrder(q) \/ CancelByBuyer(q) \/ AgeOrder(q)
               \/ CreatePayment(q) \/ InsertTx(q) \/ DropCreate(q)
               \/ OnOrderDelivered(q) \/ RefundOrder(q)
        PROVE  FALSE
    <3>1. CASE PlaceOrder(q)
      BY <1>1, <2>0, <3>1 DEF PlaceOrder, TypeOK
    <3>2. CASE CancelByBuyer(q)
      <4>1. q # o => status'[o] = status[o]
        BY <2>0, <3>2 DEF CancelByBuyer, Move, TypeOK
      <4> QED
        BY <1>1, <2>1, <3>2, <4>1 DEF CancelByBuyer, Cancellable
    <3>3. CASE RefundOrder(q)
      <4>1. refunded'[q] /\ \A r \in Orders \ {q} : status'[r] = status[r]
        BY <1>1, <3>3, Refunding
      <4> QED
        BY <1>1, <4>1
    <3>4. CASE AgeOrder(q) \/ CreatePayment(q) \/ InsertTx(q) \/ DropCreate(q) \/ OnOrderDelivered(q)
      BY <1>1, <3>4 DEF AgeOrder, CreatePayment, InsertTx, DropCreate, OnOrderDelivered, orderVars
    <3> QED
      BY <2>2, <3>1, <3>2, <3>3, <3>4
  <2>3. ASSUME NEW j \in DOMAIN txs, BuyerPays(j) \/ SessionCloses(j) \/ AgeTx(j)
        PROVE  FALSE
    BY <1>1, <2>3 DEF BuyerPays, SessionCloses, AgeTx, orderVars
  <2>4. ASSUME NEW w \in Workers,
               \/ \E j \in DOMAIN txs : StartExecute(w, j) \/ StartReconcile(w, j)
               \/ AnswerCompleted(w) \/ AnswerNotCompleted(w) \/ DropJob(w) \/ Settle(w)
        PROVE  FALSE
    <3>1. CASE Fulfil(w)
      <4>1. PICK q \in Orders : status' = [status EXCEPT ![q] = "paid"]
        <5>1. job[w] # Idle
          BY <3>1, FulfilIsBusy
        <5>2. txs[job[w].tx].order \in Orders
          BY <1>1, <2>0, <5>1, JobTyped, TxTyped DEF TypeOK
        <5> QED
          BY <3>1, <5>2 DEF Fulfil, Move
      <4> QED
        BY <1>1, <2>0, <4>1 DEF TypeOK
    <3>2. CASE ~Fulfil(w)
      BY <1>1, <2>4, <3>2 DEF StartExecute, StartReconcile, AnswerCompleted, AnswerNotCompleted, DropJob,
         Settle, FlagForReview, MarkTerminal, FoundSettled, KeepAllButJobs, orderVars
    <3> QED
      BY <3>1, <3>2
  <2>5. ASSUME NEW e \in Expirers, ListAbandoned(e) \/ DropList(e)
        PROVE  FALSE
    BY <1>1, <2>5 DEF ListAbandoned, DropList, orderVars
  <2>6. ASSUME NEW s \in Sellers \cup Editors,
               \/ FinishMove(s) \/ OpenProduct(s) \/ SaveProduct(s)
               \/ \E q \in Orders : StartMove(s, q)
        PROVE  FALSE
    <3>1. CASE FinishMove(s)
      <4>1. PICK q \in Orders, to \in {"shipped", "delivered"} : q = task[s].order /\ to = task[s].to
        BY <2>0, <3>1, TaskTyped DEF FinishMove
      <4>2. status' = [status EXCEPT ![q] = to] \/ status' = status
        BY <3>1, <4>1 DEF FinishMove, Transition, Move
      <4> QED
        BY <1>1, <2>0, <4>2 DEF TypeOK
    <3>2. CASE OpenProduct(s) \/ SaveProduct(s) \/ \E q \in Orders : StartMove(s, q)
      BY <1>1, <3>2 DEF OpenProduct, SaveProduct, StartMove, orderVars
    <3> QED
      BY <2>6, <3>1, <3>2
  <2> QED
    BY <1>1, <2>2, <2>3, <2>4, <2>5, <2>6 DEF Dealing
<1>2. IndInv /\ [Next]_vars => [CancelsUnpaid \/ ~Dealing]_vars
  BY <1>1 DEF CancelsUnpaid
<1> QED
  BY <1>2, Inductive, PTL DEF Spec, PaidIsNotCancelled

-----------------------------------------------------------------------------
(* Stock *)

Held  == {o \in Orders : Holding(o)}
Twice == {o \in Orders : CancelledThenRefunded(o)}

LEMMA UnitsAdded ==
  ASSUME NEW S \in SUBSET Orders, NEW o \in Orders \ S
  PROVE  /\ Sum(Qty, S) \in Int /\ Sum(Qty, S \cup {o}) = Qty[o] + Sum(Qty, S)
<1>1. IsFiniteSet(S) /\ \A x \in S \cup {o} : Qty[x] \in Int
  BY OrdersAreFinite, QtyIsPositive, FS_Subset
<1> QED
  BY <1>1, SumAdd, SumInt

LEMMA UnitsRemoved ==
  ASSUME NEW S \in SUBSET Orders, NEW o \in S
  PROVE  /\ Sum(Qty, S \ {o}) \in Int /\ Sum(Qty, S) = Qty[o] + Sum(Qty, S \ {o})
<1> DEFINE R == S \ {o}
<1>1. R \in SUBSET Orders /\ o \in Orders \ R /\ R \cup {o} = S
  OBVIOUS
<1> HIDE DEF R
<1>2. Sum(Qty, R) \in Int /\ Sum(Qty, R \cup {o}) = Qty[o] + Sum(Qty, R)
  BY <1>1, UnitsAdded
<1> QED
  BY <1>1, <1>2 DEF R

LEMMA UnitsAreInts == \A S \in SUBSET Orders : Sum(Qty, S) \in Int
<1> TAKE S \in SUBSET Orders
<1>1. IsFiniteSet(S) /\ \A x \in S : Qty[x] \in Int
  BY OrdersAreFinite, QtyIsPositive, FS_Subset
<1> QED
  BY <1>1, SumInt

\* Which orders a step adds to those that hold units, or takes away.
LEMMA PlacingHolds ==
  ASSUME IndInv, NEW o \in Orders, PlaceOrder(o)
  PROVE  o \notin Held /\ Held' = Held \cup {o} /\ Twice' = Twice
<1>1. TypeOK /\ OrderInv(o)
  BY DEF IndInv
<1>2. PICK m \in {"pending_payment", "processing"} : status' = [status EXCEPT ![o] = m]
  BY DEF PlaceOrder
<1>3. /\ status[o] = "none" /\ timeline[o].delivered = 0 /\ timeline' = timeline
      /\ status'[o] = m /\ \A q \in Orders \ {o} : status'[q] = status[q]
  BY <1>1, <1>2 DEF PlaceOrder, OrderInv, TypeOK
<1>4. \A q \in Orders \ {o} : Holding(q)' <=> Holding(q)
  BY <1>3 DEF Holding
<1>5. Holding(o)' /\ ~Holding(o)
  BY <1>3 DEF Holding
<1>6. \A q \in Orders : CancelledThenRefunded(q)' <=> CancelledThenRefunded(q)
  BY <1>3 DEF CancelledThenRefunded
<1> QED
  BY <1>4, <1>5, <1>6 DEF Held, Twice

LEMMA MovingHolds ==
  ASSUME IndInv, NEW o \in Orders, NEW to \in Statuses, MovesOn(o, to)
  PROVE  o \in Held /\ Held' = (IF to = "cancelled" THEN Held \ {o} ELSE Held) /\ Twice' = Twice
<1>1. TypeOK /\ OrderInv(o)
  BY DEF IndInv
<1>2. /\ status'[o] = to /\ \A q \in Orders \ {o} : status'[q] = status[q]
      /\ timeline' = Recorded(o, to) /\ to # "none"
  BY <1>1 DEF MovesOn, Move, TypeOK, Statuses, Rank
<1>3. timeline[o].delivered = 0 /\ timeline[o].cancelled = 0
  BY <1>1 DEF OrderInv, MovesOn, TypeOK
<1>4. /\ \A q \in Orders \ {o} : timeline'[q] = timeline[q]
      /\ timeline'[o].delivered = IF to = "delivered" THEN 1 ELSE 0
      /\ timeline'[o].cancelled = IF to = "cancelled" THEN 1 ELSE 0
  <2>1. CASE to \notin {"delivered", "cancelled"}
    BY <1>2, <1>3, <2>1 DEF Recorded
  <2>2. CASE to \in {"delivered", "cancelled"}
    <3>1. timeline \in [Orders -> [delivered : 0..1, cancelled : 0..2]]
      BY <1>1 DEF TypeOK
    <3>2. timeline[o][to] = 0
      BY <1>3, <2>2
    <3>3. timeline[o][to] < IF to = "delivered" THEN 1 ELSE 2
      BY <3>2
    <3>4. /\ \A q \in Orders \ {o} : timeline'[q] = timeline[q]
          /\ timeline'[o] = [delivered |-> timeline[o].delivered + (IF to = "delivered" THEN 1 ELSE 0),
                             cancelled |-> timeline[o].cancelled + (IF to = "cancelled" THEN 1 ELSE 0)]
      BY <1>2, <2>2, <3>1, <3>3, Counted
    <3> QED
      BY <1>3, <3>4
  <2> QED
    BY <2>1, <2>2
<1>5. \A q \in Orders \ {o} : /\ Holding(q)' <=> Holding(q)
                              /\ CancelledThenRefunded(q)' <=> CancelledThenRefunded(q)
  BY <1>2, <1>4 DEF Holding, CancelledThenRefunded
<1>6. Holding(o) /\ (Holding(o)' <=> to # "cancelled")
  BY <1>2, <1>4 DEF Holding, MovesOn
<1>7. ~CancelledThenRefunded(o) /\ ~CancelledThenRefunded(o)'
  BY <1>3, <1>4 DEF CancelledThenRefunded
<1> QED
  BY <1>5, <1>6, <1>7 DEF Held, Twice

LEMMA RefundingHolds ==
  ASSUME IndInv, NEW o \in Orders, RefundOrder(o)
  PROVE  \/ status[o] = "delivered" /\ Held' = Held /\ Twice' = Twice
         \/ status[o] # "delivered" /\ o \in Held /\ Held' = Held \ {o} /\ Twice' = Twice
         \/ status[o] # "delivered" /\ Held' = Held /\ o \notin Twice /\ Twice' = Twice \cup {o}
<1>1. TypeOK /\ OrderInv(o)
  BY DEF IndInv
<1>2. /\ status'[o] = "cancelled" /\ ~refunded[o] /\ status[o] # "none"
      /\ \A q \in Orders \ {o} : status'[q] = status[q]
      /\ timeline'[o] = [delivered |-> timeline[o].delivered, cancelled |-> timeline[o].cancelled + 1]
      /\ \A q \in Orders \ {o} : timeline'[q] = timeline[q]
  BY Refunding
<1>3. timeline[o].delivered \in 0..1 /\ timeline[o].cancelled \in 0..2
  BY <1>1 DEF TypeOK
<1>4. \A q \in Orders \ {o} : /\ Holding(q)' <=> Holding(q)
                              /\ CancelledThenRefunded(q)' <=> CancelledThenRefunded(q)
  BY <1>2 DEF Holding, CancelledThenRefunded
<1>5. timeline'[o].delivered = timeline[o].delivered /\ timeline'[o].cancelled = timeline[o].cancelled + 1
  BY <1>2
<1>6. CASE status[o] = "delivered"
  <2>1. Holding(o) /\ Holding(o)' /\ ~CancelledThenRefunded(o) /\ ~CancelledThenRefunded(o)'
    BY <1>1, <1>2, <1>3, <1>5, <1>6 DEF OrderInv, Holding, CancelledThenRefunded
  <2> QED
    BY <1>4, <1>6, <2>1 DEF Held, Twice
<1>7. CASE status[o] = "cancelled"
  <2>1. timeline[o].delivered = 0 /\ timeline[o].cancelled = 1
    BY <1>1, <1>2, <1>3, <1>7 DEF OrderInv
  <2>2. ~Holding(o) /\ ~Holding(o)' /\ ~CancelledThenRefunded(o) /\ CancelledThenRefunded(o)'
    BY <1>2, <1>5, <1>7, <2>1 DEF Holding, CancelledThenRefunded
  <2> QED
    BY <1>4, <1>7, <2>2 DEF Held, Twice
<1>8. CASE status[o] \notin {"delivered", "cancelled"}
  <2>1. timeline[o].delivered = 0 /\ timeline[o].cancelled = 0
    BY <1>1, <1>2, <1>3, <1>8 DEF OrderInv
  <2>2. Holding(o) /\ ~Holding(o)' /\ ~CancelledThenRefunded(o) /\ ~CancelledThenRefunded(o)'
    BY <1>2, <1>5, <1>8, <2>1 DEF Holding, CancelledThenRefunded
  <2> QED
    BY <1>4, <1>8, <2>2 DEF Held, Twice
<1> QED
  BY <1>6, <1>7, <1>8

LEMMA StockStep ==
  ASSUME IndInv, StockConserved, [Next]_vars
  PROVE  StockConserved'
<1>0. /\ stock \in Nat /\ edited \in Int /\ Stock0 \in Nat
      /\ status \in [Orders -> Statuses \cup {"none"}]
      /\ \A o \in Orders : Qty[o] \in Nat
  BY StockIsCount, QtyIsPositive DEF IndInv, TypeOK
<1>1. Held \in SUBSET Orders /\ Twice \in SUBSET Orders
  BY DEF Held, Twice
<1>2. Sum(Qty, Held) \in Int /\ Sum(Qty, Twice) \in Int
  BY <1>1, UnitsAreInts
<1>3. stock + Sum(Qty, Held) = Stock0 + edited + Sum(Qty, Twice)
  BY DEF StockConserved, Held, Twice
<1> SUFFICES stock' + Sum(Qty, Held') = Stock0 + edited' + Sum(Qty, Twice')
  BY DEF StockConserved, Held, Twice
<1>4. CASE UNCHANGED vars \/ StockKept \/ StockEdited
  <2>1. Held' = Held /\ Twice' = Twice
    BY <1>4 DEF StockKept, StockEdited, vars, orderVars, Held, Twice, Holding, CancelledThenRefunded
  <2>2. stock' - stock = edited' - edited /\ stock' \in Int /\ edited' \in Int
    BY <1>0, <1>4 DEF StockKept, StockEdited, vars
  <2> QED
    BY <1>0, <1>2, <1>3, <2>1, <2>2
<1>5. ASSUME NEW o \in Orders, PlaceOrder(o)
      PROVE  stock' + Sum(Qty, Held') = Stock0 + edited' + Sum(Qty, Twice')
  <2>1. o \notin Held /\ Held' = Held \cup {o} /\ Twice' = Twice
    BY <1>5, PlacingHolds
  <2>2. Sum(Qty, Held') = Qty[o] + Sum(Qty, Held)
    BY <1>1, <2>1, UnitsAdded
  <2>3. stock' = stock - Qty[o] /\ edited' = edited
    BY <1>5 DEF PlaceOrder
  <2> QED
    BY <1>0, <1>2, <1>3, <2>1, <2>2, <2>3
<1>6. ASSUME NEW o \in Orders, NEW to \in Statuses, MovesOn(o, to)
      PROVE  stock' + Sum(Qty, Held') = Stock0 + edited' + Sum(Qty, Twice')
  <2>1. o \in Held /\ Held' = (IF to = "cancelled" THEN Held \ {o} ELSE Held) /\ Twice' = Twice
    BY <1>6, MovingHolds
  <2>2. Sum(Qty, Held \ {o}) \in Int /\ Sum(Qty, Held) = Qty[o] + Sum(Qty, Held \ {o})
    BY <1>1, <2>1, UnitsRemoved
  <2>3. stock' = (IF to = "cancelled" THEN stock + Qty[o] ELSE stock) /\ edited' = edited
    BY <1>6 DEF MovesOn, Move, Restocked
  <2> QED
    BY <1>0, <1>2, <1>3, <2>1, <2>2, <2>3
<1>7. ASSUME NEW o \in Orders, RefundOrder(o)
      PROVE  stock' + Sum(Qty, Held') = Stock0 + edited' + Sum(Qty, Twice')
  <2>1. \/ status[o] = "delivered" /\ Held' = Held /\ Twice' = Twice
        \/ status[o] # "delivered" /\ o \in Held /\ Held' = Held \ {o} /\ Twice' = Twice
        \/ status[o] # "delivered" /\ Held' = Held /\ o \notin Twice /\ Twice' = Twice \cup {o}
    BY <1>7, RefundingHolds
  <2>2. edited' = edited /\ stock' = (IF status[o] = "delivered" THEN stock ELSE stock + Qty[o])
    BY <1>7 DEF RefundOrder, Restocked
  <2>3. o \in Held => Sum(Qty, Held \ {o}) \in Int /\ Sum(Qty, Held) = Qty[o] + Sum(Qty, Held \ {o})
    BY <1>1, UnitsRemoved
  <2>4. o \notin Twice => Sum(Qty, Twice \cup {o}) = Qty[o] + Sum(Qty, Twice)
    BY <1>1, UnitsAdded
  <2>5. Qty[o] \in Nat
    BY <1>0
  <2>6. CASE status[o] = "delivered"
    BY <1>3, <2>1, <2>2, <2>6
  <2>7. CASE status[o] # "delivered" /\ o \in Held /\ Held' = Held \ {o} /\ Twice' = Twice
    BY <1>0, <1>2, <1>3, <2>2, <2>3, <2>5, <2>7
  <2>8. CASE status[o] # "delivered" /\ Held' = Held /\ o \notin Twice /\ Twice' = Twice \cup {o}
    BY <1>0, <1>2, <1>3, <2>2, <2>4, <2>5, <2>8
  <2> QED
    BY <2>1, <2>6, <2>7, <2>8
<1> QED
  BY <1>4, <1>5, <1>6, <1>7, StepKinds

(* Units are neither lost nor made, for any quantities and any number of      *)
(* orders: what is on sale and what orders hold is what there was, apart from *)
(* product edits and refunds of orders cancelled before (PlaceOrder,          *)
(* Transition, CancelByBuyer, ExpireUnpaid, RefundOrder).                     *)
THEOREM StockConservedHolds == Spec => []StockConserved
<1>1. Init => StockConserved
  <2> SUFFICES ASSUME Init PROVE StockConserved
    OBVIOUS
  <2>1. Held = {} /\ Twice = {}
    BY DEF Init, Holding, CancelledThenRefunded, Held, Twice
  <2>2. Sum(Qty, {}) = 0
    BY SumEmpty
  <2>3. stock + Sum(Qty, Held) = Stock0 + edited + Sum(Qty, Twice)
    BY <2>1, <2>2, StockIsCount DEF Init
  <2> QED
    BY <2>3 DEF StockConserved, Held, Twice
<1>2. IndInv /\ StockConserved /\ [Next]_vars => StockConserved'
  BY StockStep
<1> QED
  BY <1>1, <1>2, Inductive, PTL DEF Spec
=============================================================================
