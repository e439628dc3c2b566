-------------------------- MODULE MerchantLedgerProofs -------------------------
(***************************************************************************)
(* Theorems about MerchantLedger for any finite sets of orders and         *)
(* merchants with any prices, charges, rates and payouts, and about        *)
(* Catalog for any finite sets of users and products.                      *)
(***************************************************************************)
EXTENDS MerchantLedger, SumTheorems, SequenceTheorems, TLAPS

CONSTANTS Users, Products, MerchantOf, Stars, Workers, None
VARIABLES delivered, review, rating, transaction, raced, product, saved, muted, editor, waiting, missed

\* What the market shows of the products of the same merchants.
Market == INSTANCE Catalog

-----------------------------------------------------------------------------
(* Amounts *)

\* The commission is never negative and never more than the goods.
LEMMA CommissionBounded ==
  ASSUME NEW gross \in Nat, NEW rate \in Int
  PROVE  CommissionFor(gross, rate) \in 0..gross
<1>1. gross * rate \in Int
  OBVIOUS
<1>2. \A n \in Int : Rounded(n) \in Int
  BY DEF Rounded
<1> QED
  BY <1>1, <1>2 DEF CommissionFor

LEMMA SellersAreFinite == IsFiniteSet(Sellers)
  BY OrdersAreFinite, FS_AddElement DEF Sellers

\* The amounts of an order, which no step changes.
LEMMA OrderAmounts ==
  ASSUME NEW o \in Orders
  PROVE  /\ Goods(o) \in Nat /\ Total(o) \in Nat /\ Goods(o) <= Total(o)
         /\ Gross[o][Platform] \in Nat
         /\ \A m \in Merchants : Gross[o][m] \in Nat
<1>1. \A s \in Sellers : Gross[o][s] \in Nat
  BY GoodsArePriced
<1>2. Goods(o) \in Nat
  BY <1>1, SellersAreFinite, SumNonNegative DEF Goods
<1>3. Charge[o] \in Nat
  BY GoodsArePriced
<1>4. Total(o) \in Nat /\ Goods(o) <= Total(o)
  BY <1>2, <1>3 DEF Total
<1> QED
  BY <1>1, <1>2, <1>4 DEF Sellers

CommissionsAreBounded ==
    \A o \in Orders : /\ \A m \in Merchants : Commission(o, m) \in 0..Gross[o][m]
                      /\ Commissions(o) \in Int

LEMMA CommissionsBounded == TypeOK => CommissionsAreBounded
<1> SUFFICES ASSUME TypeOK, NEW o \in Orders
             PROVE  /\ \A m \in Merchants : Commission(o, m) \in 0..Gross[o][m]
                    /\ Commissions(o) \in Int
  BY DEF CommissionsAreBounded
<1>1. ASSUME NEW m \in Merchants PROVE Commission(o, m) \in 0..Gross[o][m]
  <2>1. order[o].rates[m] \in Int
    <3>1. order[o].rates \in [Merchants -> Rates \cup {0}]
      BY DEF TypeOK
    <3>2. order[o].rates[m] \in Rates \cup {0}
      BY <3>1
    <3>3. \A r \in Rates \cup {0} : r \in Int
      BY RatesAreNumbers
    <3> QED
      BY <3>2, <3>3
  <2> QED
    BY <2>1, OrderAmounts, CommissionBounded DEF Commission
<1>2. Commissions(o) \in Int
  <2> DEFINE f == [m \in Merchants |-> Commission(o, m)]
  <2>1. \A m \in Merchants : f[m] \in Int
    BY <1>1, OrderAmounts
  <2> HIDE DEF f
  <2>2. Sum(f, Merchants) \in Int
    BY <2>1, OrdersAreFinite, SumInt
  <2> QED
    BY <2>2 DEF Commissions, f
<1> QED
  BY <1>1, <1>2

PartsAreInts == \A o \in Orders, a \in Accounts : OfOrder(o, a) \in Int

LEMMA OfOrderIsInt == TypeOK => PartsAreInts
<1> SUFFICES ASSUME TypeOK, NEW o \in Orders, NEW a \in Accounts
             PROVE  OfOrder(o, a) \in Int
  BY DEF PartsAreInts
<1>1. /\ Goods(o) \in Int /\ Total(o) \in Int /\ Gross[o][Platform] \in Int /\ Commissions(o) \in Int
      /\ \A m \in Merchants : Gross[o][m] \in Int /\ Commission(o, m) \in Int
  BY OrderAmounts, CommissionsBounded DEF CommissionsAreBounded
<1> QED
  BY <1>1 DEF OfOrder

\* The same after a step.
LEMMA CommissionsBoundedAfter == TypeOK' => CommissionsAreBounded'
  BY CommissionsBounded, PTL

LEMMA OfOrderIsIntAfter == TypeOK' => PartsAreInts'
  BY OfOrderIsInt, PTL

-----------------------------------------------------------------------------
(* Accounts are sums over orders *)

\* An order that keeps its rates, its journals and its refund has the same part.
LEMMA SamePart ==
  ASSUME NEW o \in Orders, order'[o] = order[o], posted'[o] = posted[o]
  PROVE  \A a \in Accounts : OfOrder(o, a)' = OfOrder(o, a)
<1>1. \A m \in Merchants : Commission(o, m)' = Commission(o, m)
  BY DEF Commission
<1>2. Commissions(o)' = Commissions(o)
  BY <1>1 DEF Commissions
<1>3. \A k : Stands(k, o)' <=> Stands(k, o)
  BY DEF Stands
<1> QED
  BY <1>1, <1>2, <1>3 DEF OfOrder

\* A step about one order changes the sum by what it changes of that order.
LEMMA OnePart ==
  ASSUME TypeOK, TypeOK', NEW o \in Orders, NEW a \in Accounts,
         \A q \in Orders \ {o} : OfOrder(q, a)' = OfOrder(q, a)
  PROVE  Sum([q \in Orders |-> OfOrder(q, a)], Orders)'
           = Sum([q \in Orders |-> OfOrder(q, a)], Orders) + OfOrder(o, a)' - OfOrder(o, a)
<1> DEFINE f == [q \in Orders |-> OfOrder(q, a)]
           g == [q \in Orders |-> OfOrder(q, a)']
<1>1. \A q \in Orders : f[q] \in Int /\ g[q] \in Int
  BY OfOrderIsInt, OfOrderIsIntAfter DEF PartsAreInts
<1>2. \A q \in Orders \ {o} : f[q] = g[q]
  OBVIOUS
<1>3. f[o] = OfOrder(o, a) /\ g[o] = OfOrder(o, a)'
  OBVIOUS
<1> HIDE DEF f, g
<1>4. Sum(g, Orders) = Sum(f, Orders) + g[o] - f[o]
  BY <1>1, <1>2, OrdersAreFinite, SumChangedAt
<1> QED
  BY <1>3, <1>4 DEF f, g

\* What was ever earned only grows: rates stay as they were at the release.
LEMMA EarningsGrow ==
  ASSUME TypeOK, TypeOK', NEW m \in Merchants,
         \A o \in Orders : /\ posted[o] \subseteq posted'[o]
                           /\ "order_release" \in posted[o] => order'[o].rates = order[o].rates
  PROVE  EverEarned(m) \in Int /\ EverEarned(m)' \in Int /\ EverEarned(m) <= EverEarned(m)'
<1> DEFINE f == [o \in Orders |-> IF "order_release" \in posted[o] /\ Method[o] = "bkash"
                                 THEN Gross[o][m] - Commission(o, m) ELSE 0]
           g == [o \in Orders |-> IF "order_release" \in posted'[o] /\ Method[o] = "bkash"
                                 THEN Gross[o][m] - Commission(o, m)' ELSE 0]
<1>1. ASSUME NEW o \in Orders PROVE f[o] \in Int /\ g[o] \in Int /\ f[o] <= g[o]
  <2>1. /\ Gross[o][m] \in Int
        /\ Commission(o, m) \in 0..Gross[o][m] /\ Commission(o, m)' \in 0..Gross[o][m]
    BY OrderAmounts, CommissionsBounded, CommissionsBoundedAfter DEF CommissionsAreBounded
  <2>2. "order_release" \in posted[o] => "order_release" \in posted'[o] /\ Commission(o, m)' = Commission(o, m)
    BY DEF Commission
  <2> QED
    BY <2>1, <2>2
<1> HIDE DEF f, g
<1>2. Sum(f, Orders) \in Int /\ Sum(g, Orders) \in Int /\ Sum(f, Orders) <= Sum(g, Orders)
  BY <1>1, OrdersAreFinite, SumInt, SumMonotone
<1> QED
  BY <1>2 DEF f, g, EverEarned

-----------------------------------------------------------------------------
(* Payouts *)

Payout == [of : Merchants, amount : Amounts \cap (Nat \ {0}), status : {"requested", "paid", "rejected"}]

LEMMA PayoutTyped ==
  ASSUME TypeOK, NEW i \in DOMAIN payouts
  PROVE  /\ payouts[i] \in Payout
         /\ payouts[i].of \in Merchants /\ payouts[i].amount \in Amounts
         /\ payouts[i].amount \in Nat /\ payouts[i].amount > 0
<1>1. payouts \in Seq(Payout)
  BY DEF TypeOK, Payout
<1>2. payouts[i] \in Payout
  BY <1>1, ElementOfSeq
<1> QED
  BY <1>2 DEF Payout

LEMMA PayoutsFinite == TypeOK => IsFiniteSet(DOMAIN payouts)
<1> SUFFICES ASSUME TypeOK PROVE IsFiniteSet(DOMAIN payouts)
  OBVIOUS
<1>1. Len(payouts) \in Nat /\ DOMAIN payouts = 1..Len(payouts)
  BY DEF TypeOK
<1> QED
  BY <1>1, FS_Interval

PaidOutIsCount == \A S \in SUBSET {"requested", "paid", "rejected"} :
                     (\A m \in Merchants : PaidOut(m, S) \in Nat) /\ PaidOutToAll(S) \in Nat

LEMMA PaidOutCounts == TypeOK => PaidOutIsCount
<1> SUFFICES ASSUME TypeOK, NEW S \in SUBSET {"requested", "paid", "rejected"}
             PROVE  (\A m \in Merchants : PaidOut(m, S) \in Nat) /\ PaidOutToAll(S) \in Nat
  BY DEF PaidOutIsCount
<1>1. ASSUME NEW m \in Merchants PROVE PaidOut(m, S) \in Nat
  <2> DEFINE f == [i \in DOMAIN payouts |->
                     IF payouts[i].of = m /\ payouts[i].status \in S THEN payouts[i].amount ELSE 0]
  <2>1. \A i \in DOMAIN payouts : f[i] \in Nat
    BY PayoutTyped
  <2> HIDE DEF f
  <2>2. Sum(f, DOMAIN payouts) \in Nat
    BY <2>1, PayoutsFinite, SumNonNegative
  <2> QED
    BY <2>2 DEF PaidOut, f
<1>2. PaidOutToAll(S) \in Nat
  <2> DEFINE f == [m \in Merchants |-> PaidOut(m, S)]
  <2>1. \A m \in Merchants : f[m] \in Nat
    BY <1>1
  <2> HIDE DEF f
  <2>2. Sum(f, Merchants) \in Nat
    BY <2>1, OrdersAreFinite, SumNonNegative
  <2> QED
    BY <2>2 DEF PaidOutToAll, f
<1> QED
  BY <1>1, <1>2

PayoutPartsAreInts == \A a \in Accounts : OfPayouts(a) \in Int

LEMMA OfPayoutsIsInt == TypeOK => PayoutPartsAreInts
<1> SUFFICES ASSUME TypeOK, NEW a \in Accounts PROVE OfPayouts(a) \in Int
  BY DEF PayoutPartsAreInts
<1>1. CASE a \in Merchants
  <2>1. PaidOut(a, Promised) \in Nat
    BY <1>1, PaidOutCounts DEF PaidOutIsCount, Promised
  <2>2. -PaidOut(a, Promised) \in Int
    BY <2>1
  <2>3. OfPayouts(a) = -PaidOut(a, Promised)
    BY <1>1, PlatformIsApart DEF OfPayouts, Shop
  <2> QED
    BY <2>2, <2>3
<1>2. CASE a \in {"pending", "cash_out"}
  <2>1. PaidOutToAll({"requested"}) \in Nat /\ PaidOutToAll({"paid"}) \in Nat
    BY PaidOutCounts DEF PaidOutIsCount
  <2> QED
    BY <1>2, <2>1, PlatformIsApart DEF OfPayouts, Shop
<1>3. CASE a \notin Merchants \cup {"pending", "cash_out"}
  BY <1>3 DEF OfPayouts
<1> QED
  BY <1>1, <1>2, <1>3

LEMMA PromisedCounts == TypeOK => \A m \in Merchants : PaidOut(m, Promised) \in Nat
<1>1. Promised \in SUBSET {"requested", "paid", "rejected"}
  BY DEF Promised
<1> QED
  BY <1>1, PaidOutCounts DEF PaidOutIsCount

LEMMA PaidOutCountsAfter == TypeOK' => PaidOutIsCount'
  BY PaidOutCounts, PTL

\* A new payout adds its amount to its merchant's.
LEMMA PayoutRequested ==
  ASSUME TypeOK, NEW m \in Merchants, NEW x \in Amounts \cap (Nat \ {0}),
         payouts' = Append(payouts, [of |-> m, amount |-> x, status |-> "requested"]),
         NEW S \in SUBSET {"requested", "paid", "rejected"}, NEW n \in Merchants
  PROVE  PaidOut(n, S)' = PaidOut(n, S) + (IF n = m /\ "requested" \in S THEN x ELSE 0)
<1> DEFINE D == DOMAIN payouts
           k == Len(payouts) + 1
           f == [i \in D |-> IF payouts[i].of = n /\ payouts[i].status \in S THEN payouts[i].amount ELSE 0]
           g == [i \in DOMAIN payouts' |->
                    IF payouts'[i].of = n /\ payouts'[i].status \in S THEN payouts'[i].amount ELSE 0]
<1>1. /\ DOMAIN payouts' = D \cup {k} /\ k \notin D
      /\ payouts'[k] = [of |-> m, amount |-> x, status |-> "requested"]
      /\ \A i \in D : payouts'[i] = payouts[i]
  BY DEF TypeOK
<1>2. \A i \in D : f[i] = g[i] /\ f[i] \in Int
  BY <1>1, PayoutTyped
<1>3. g[k] = (IF n = m /\ "requested" \in S THEN x ELSE 0) /\ g[k] \in Int
  BY <1>1
<1>4. IsFiniteSet(D)
  BY PayoutsFinite
<1>5. PaidOut(n, S) = Sum(f, D) /\ PaidOut(n, S)' = Sum(g, DOMAIN payouts')
  BY DEF PaidOut
<1> HIDE DEF D, k, f, g
<1>6. Sum(g, D \cup {k}) = g[k] + Sum(g, D)
  BY <1>1, <1>2, <1>3, <1>4, SumAdd
<1>7. Sum(f, D) = Sum(g, D) /\ Sum(f, D) \in Int
  BY <1>2, <1>4, SumSame, SumInt
<1> QED
  BY <1>1, <1>3, <1>5, <1>6, <1>7

\* A settled one leaves the requested and joins the paid or the rejected.
LEMMA PayoutSettled ==
  ASSUME TypeOK, NEW i, i \in DOMAIN payouts, Open(i), NEW to, to \in {"paid", "rejected"},
         DOMAIN payouts' = DOMAIN payouts, \A j \in DOMAIN payouts \ {i} : payouts'[j] = payouts[j],
         payouts'[i].of = payouts[i].of, payouts'[i].amount = payouts[i].amount, payouts'[i].status = to,
         NEW S \in SUBSET {"requested", "paid", "rejected"}, NEW n \in Merchants
  PROVE  PaidOut(n, S)' = PaidOut(n, S)
             + (IF n = payouts[i].of /\ to \in S THEN payouts[i].amount ELSE 0)
             - (IF n = payouts[i].of /\ "requested" \in S THEN payouts[i].amount ELSE 0)
<1> DEFINE D == DOMAIN payouts
           f == [j \in D |-> IF payouts[j].of = n /\ payouts[j].status \in S THEN payouts[j].amount ELSE 0]
           g == [j \in D |-> IF payouts'[j].of = n /\ payouts'[j].status \in S THEN payouts'[j].amount ELSE 0]
<1>1. payouts[i] \in Payout /\ payouts[i].status = "requested" /\ payouts[i].amount \in Int
  BY PayoutTyped DEF Open
<1>2. /\ f[i] = (IF n = payouts[i].of /\ "requested" \in S THEN payouts[i].amount ELSE 0)
      /\ g[i] = (IF n = payouts[i].of /\ to \in S THEN payouts[i].amount ELSE 0)
  BY <1>1
<1>3. \A j \in D \ {i} : f[j] = g[j]
  OBVIOUS
<1>4. \A j \in D : f[j] \in Int
  BY PayoutTyped
<1>5. g[i] \in Int
  BY <1>1, <1>2
<1>6. PaidOut(n, S) = Sum(f, D) /\ PaidOut(n, S)' = Sum(g, D)
  BY DEF PaidOut
<1>7. IsFiniteSet(D) /\ i \in D
  BY PayoutsFinite
<1> HIDE DEF D, f, g
<1>8. \A j \in D : f[j] \in Int /\ g[j] \in Int
  BY <1>3, <1>4, <1>5
<1>9. Sum(g, D) = Sum(f, D) + g[i] - f[i]
  BY <1>3, <1>7, <1>8, SumChangedAt
<1> QED
  BY <1>2, <1>6, <1>9

\* The total of all merchants changes as that of the one merchant.
LEMMA TotalPaidOut ==
  ASSUME TypeOK, TypeOK', NEW m \in Merchants, NEW S \in SUBSET {"requested", "paid", "rejected"},
         \A n \in Merchants \ {m} : PaidOut(n, S)' = PaidOut(n, S)
  PROVE  PaidOutToAll(S)' = PaidOutToAll(S) + PaidOut(m, S)' - PaidOut(m, S)
<1> DEFINE f == [n \in Merchants |-> PaidOut(n, S)]
           g == [n \in Merchants |-> PaidOut(n, S)']
<1>1. \A n \in Merchants : f[n] \in Int /\ g[n] \in Int
  BY PaidOutCounts, PaidOutCountsAfter DEF PaidOutIsCount
<1>2. (\A n \in Merchants \ {m} : f[n] = g[n]) /\ f[m] = PaidOut(m, S) /\ g[m] = PaidOut(m, S)'
  OBVIOUS
<1> HIDE DEF f, g
<1>3. Sum(g, Merchants) = Sum(f, Merchants) + g[m] - f[m]
  BY <1>1, <1>2, OrdersAreFinite, SumChangedAt
<1> QED
  BY <1>2, <1>3 DEF f, g, PaidOutToAll

-----------------------------------------------------------------------------
(* The inductive invariant *)

LEMMA InitInd == Init => IndInv
<1> SUFFICES ASSUME Init PROVE IndInv
  OBVIOUS
<1>1. TypeOK
  BY DEF Init, TypeOK, Row, Statuses
<1>2. \A o \in Orders : OrderInv(o)
  BY DEF Init, OrderInv
<1>3. \A q \in Requesters : RequestInv(q)
  BY DEF Init, RequestInv
<1>4. ASSUME NEW m \in Merchants, NEW S PROVE PaidOut(m, S) = 0
  BY SumEmpty DEF Init, PaidOut
<1>5. ASSUME NEW S \in SUBSET {"requested", "paid", "rejected"} PROVE PaidOutToAll(S) = 0
  <2> DEFINE f == [m \in Merchants |-> PaidOut(m, S)]
  <2>1. \A m \in Merchants : f[m] = 0
    BY <1>4
  <2> HIDE DEF f
  <2>2. Sum(f, Merchants) = 0
    BY <2>1, OrdersAreFinite, SumZero
  <2> QED
    BY <2>2 DEF PaidOutToAll, f
<1>6. ASSUME NEW a \in Accounts PROVE balance[a] = Expected(a)
  <2> DEFINE f == [o \in Orders |-> OfOrder(o, a)]
  <2>1. \A o \in Orders : f[o] = 0
    BY DEF Init, OfOrder, Stands
  <2>2. OfPayouts(a) = 0
    BY <1>4, <1>5 DEF OfPayouts
  <2> HIDE DEF f
  <2>3. Sum(f, Orders) = 0
    BY <2>1, OrdersAreFinite, SumZero
  <2> QED
    BY <2>2, <2>3 DEF Init, Expected, f
<1>7. ASSUME NEW m \in Merchants PROVE PaidOut(m, Promised) <= EverEarned(m)
  <2> DEFINE f == [o \in Orders |-> IF "order_release" \in posted[o] /\ Method[o] = "bkash"
                                   THEN Gross[o][m] - Commission(o, m) ELSE 0]
  <2>1. \A o \in Orders : f[o] \in Nat
    BY DEF Init
  <2> HIDE DEF f
  <2>2. Sum(f, Orders) \in Nat
    BY <2>1, OrdersAreFinite, SumNonNegative
  <2>3. PaidOut(m, Promised) = 0
    BY <1>4
  <2> QED
    BY <2>2, <2>3 DEF EverEarned, f
<1> QED
  BY <1>1, <1>2, <1>3, <1>6, <1>7 DEF IndInv, LedgerFollowsEvents, PayoutsWithinEarnings

\* A step about one order that books what it changes of that order.
LEMMA OrderStep ==
  ASSUME IndInv, TypeOK', NEW o \in Orders, OrderInv(o)',
         \A q \in Orders \ {o} : order'[q] = order[q] /\ posted'[q] = posted[q],
         posted[o] \subseteq posted'[o],
         "order_release" \in posted[o] => order'[o].rates = order[o].rates,
         \A a \in Accounts : balance'[a] = balance[a] + OfOrder(o, a)' - OfOrder(o, a),
         UNCHANGED <<payouts, request>>
  PROVE  IndInv'
<1>0. /\ TypeOK
      /\ \A q \in Orders : OrderInv(q)
      /\ \A q \in Requesters : RequestInv(q)
      /\ LedgerFollowsEvents /\ PayoutsWithinEarnings
  BY DEF IndInv
<1>1. ASSUME NEW q \in Orders PROVE OrderInv(q)'
  <2>1. CASE q = o
    BY <2>1
  <2>2. CASE q # o
    BY <1>0, <2>2 DEF OrderInv
  <2> QED
    BY <2>1, <2>2
<1>2. \A m, S : PaidOut(m, S)' = PaidOut(m, S)
  BY DEF PaidOut
<1>3. \A m \in Merchants : EverEarned(m) \in Int /\ EverEarned(m)' \in Int /\ EverEarned(m) <= EverEarned(m)'
  <2>1. \A q \in Orders : /\ posted[q] \subseteq posted'[q]
                          /\ "order_release" \in posted[q] => order'[q].rates = order[q].rates
    OBVIOUS
  <2> QED
    BY <1>0, <2>1, EarningsGrow
<1>4. PayoutsWithinEarnings'
  <2>1. \A m \in Merchants : PaidOut(m, Promised) \in Int
    BY <1>0, PromisedCounts
  <2> QED
    BY <1>0, <1>2, <1>3, <2>1 DEF PayoutsWithinEarnings
<1>5. ASSUME NEW q \in Requesters PROVE RequestInv(q)'
  <2>1. RequestInv(q)
    BY <1>0
  <2>2. request'[q] = request[q] /\ \A p \in Requesters : request'[p] = request[p]
    OBVIOUS
  <2>3. CASE request[q] # Idle
    <3>1. request[q].of \in Merchants /\ request[q].amount \in Int
      BY <1>0, <2>3, AmountsAreNumbers DEF TypeOK
    <3>2. PaidOut(request[q].of, Promised) \in Int
      BY <1>0, <3>1, PromisedCounts
    <3>3. PaidOut(request[q].of, Promised) + request[q].amount <= EverEarned(request[q].of)
      BY <2>1, <2>3 DEF RequestInv
    <3>4. PaidOut(request[q].of, Promised)' = PaidOut(request[q].of, Promised)
      BY <1>2
    <3>5. EverEarned(request[q].of) \in Int /\ EverEarned(request[q].of)' \in Int
          /\ EverEarned(request[q].of) <= EverEarned(request[q].of)'
      BY <1>3, <3>1
    <3>6. PaidOut(request[q].of, Promised)' + request'[q].amount <= EverEarned(request[q].of)'
      BY <3>1, <3>2, <3>3, <3>4, <3>5
    <3> QED
      BY <2>1, <2>3, <3>6 DEF RequestInv
  <2>4. CASE request[q] = Idle
    BY <2>4 DEF RequestInv
  <2> QED
    BY <2>3, <2>4
<1>6. ASSUME NEW a \in Accounts PROVE balance'[a] = Expected(a)'
  <2> DEFINE old == Sum([q \in Orders |-> OfOrder(q, a)], Orders)
             new == Sum([q \in Orders |-> OfOrder(q, a)], Orders)'
  <2>1. \A q \in Orders \ {o} : OfOrder(q, a)' = OfOrder(q, a)
    BY SamePart
  <2>2. new = old + OfOrder(o, a)' - OfOrder(o, a)
    BY <1>0, <2>1, OnePart
  <2>3. OfPayouts(a)' = OfPayouts(a)
    BY <1>2 DEF OfPayouts, PaidOutToAll, PaidOut
  <2>4. OfOrder(o, a) \in Int /\ OfOrder(o, a)' \in Int
    BY <1>0, OfOrderIsInt, OfOrderIsIntAfter DEF PartsAreInts
  <2>5. balance[a] = old + OfPayouts(a) /\ balance[a] \in Int
    BY <1>0 DEF LedgerFollowsEvents, Expected, TypeOK
  <2>6. old \in Int /\ OfPayouts(a) \in Int
    <3>1. \A q \in Orders : [r \in Orders |-> OfOrder(r, a)][q] \in Int
      BY <1>0, OfOrderIsInt DEF PartsAreInts
    <3>2. OfPayouts(a) \in Int
      BY <1>0, OfPayoutsIsInt DEF PayoutPartsAreInts
    <3> QED
      BY <3>1, <3>2, OrdersAreFinite, SumInt
  <2>7. Expected(a)' = new + OfPayouts(a)'
    BY DEF Expected
  <2> HIDE DEF old, new
  <2> QED
    BY <2>2, <2>3, <2>4, <2>5, <2>6, <2>7
<1> QED
  BY <1>1, <1>4, <1>5, <1>6 DEF IndInv, LedgerFollowsEvents

-----------------------------------------------------------------------------
(* What orders book, account by account *)

LEMMA AccountKinds ==
  ASSUME NEW a \in Accounts
  PROVE  \/ a \in Merchants /\ a \notin Shop
         \/ a \notin Merchants /\ a \in {"gateway", "cash_out", "escrow", "pending", "commission", "platform"}
  BY PlatformIsApart DEF Accounts, Shop

\* OfOrder without its CASE.
PartsByAccount(o) ==
    /\ \A m \in Merchants :
          OfOrder(o, m) = (IF Stands("order_release", o) /\ Method[o] = "bkash" THEN Gross[o][m] ELSE 0)
                        - (IF Stands("order_release", o) THEN Commission(o, m) ELSE 0)
    /\ OfOrder(o, "commission") = IF Stands("order_release", o) THEN Commissions(o) ELSE 0
    /\ OfOrder(o, "platform") = IF Stands("order_release", o) /\ Method[o] = "bkash"
                                THEN Gross[o][Platform] ELSE 0
    /\ OfOrder(o, "escrow") = (IF Stands("order_payment", o) THEN Total(o) ELSE 0)
           - (IF Stands("order_release", o) /\ Method[o] = "bkash" THEN Goods(o) ELSE 0)
    /\ OfOrder(o, "gateway") = IF Stands("order_payment", o) THEN -Total(o) ELSE 0
    /\ OfOrder(o, "pending") = 0 /\ OfOrder(o, "cash_out") = 0

AllParts == \A o \in Orders : PartsByAccount(o)

LEMMA PartsAre == AllParts
<1> SUFFICES ASSUME NEW o \in Orders PROVE PartsByAccount(o)
  BY DEF AllParts
<1>1. /\ \A m \in Merchants : m \notin Shop
      /\ \A a \in Shop : a \notin Merchants
  BY PlatformIsApart
<1>2. \A m \in Merchants :
        OfOrder(o, m) = (IF Stands("order_release", o) /\ Method[o] = "bkash" THEN Gross[o][m] ELSE 0)
                      - (IF Stands("order_release", o) THEN Commission(o, m) ELSE 0)
  BY <1>1 DEF OfOrder, Shop
<1>3. /\ OfOrder(o, "commission") = (IF Stands("order_release", o) THEN Commissions(o) ELSE 0)
      /\ OfOrder(o, "platform") = (IF Stands("order_release", o) /\ Method[o] = "bkash"
                                   THEN Gross[o][Platform] ELSE 0)
  BY <1>1 DEF OfOrder, Shop
<1>4. /\ OfOrder(o, "escrow") = (IF Stands("order_payment", o) THEN Total(o) ELSE 0)
             - (IF Stands("order_release", o) /\ Method[o] = "bkash" THEN Goods(o) ELSE 0)
      /\ OfOrder(o, "gateway") = (IF Stands("order_payment", o) THEN -Total(o) ELSE 0)
  BY <1>1 DEF OfOrder, Shop
<1>5. OfOrder(o, "pending") = 0 /\ OfOrder(o, "cash_out") = 0
  BY <1>1 DEF OfOrder, Shop
<1> QED
  BY <1>2, <1>3, <1>4, <1>5 DEF PartsByAccount

LEMMA PartsAreAfter == AllParts'
  BY PartsAre, PTL

LEMMA PaymentBooked ==
  ASSUME NEW o \in Orders
  PROVE  LET p == Posting(o, "order_payment", PaymentLines(o))
             new == "order_payment" \notin posted[o]
         IN  /\ \A m \in Merchants : p[m] = 0
             /\ p["gateway"] = (IF new THEN -Total(o) ELSE 0)
             /\ p["escrow"] = (IF new THEN Total(o) ELSE 0)
             /\ \A a \in Shop \ {"gateway", "escrow"} : p[a] = 0
<1>1. /\ \A m \in Merchants : m \notin Shop
      /\ Merchants \subseteq Accounts /\ Shop \subseteq Accounts
      /\ "gateway" \in Accounts /\ "escrow" \in Accounts
  BY PlatformIsApart DEF Accounts, Shop
<1>2. DOMAIN [gateway |-> -Total(o), escrow |-> Total(o)] = {"gateway", "escrow"}
  OBVIOUS
<1>3. /\ \A m \in Merchants : PaymentLines(o)[m] = 0
      /\ PaymentLines(o)["gateway"] = -Total(o)
      /\ PaymentLines(o)["escrow"] = Total(o)
      /\ \A a \in Shop \ {"gateway", "escrow"} : PaymentLines(o)[a] = 0
  BY <1>1, <1>2 DEF PaymentLines, Lines, Shop
<1>4. \A a \in Accounts : Lines(<<>>)[a] = 0
  BY DEF Lines
<1> QED
  BY <1>1, <1>3, <1>4 DEF Posting

LEMMA ReleaseBooked ==
  ASSUME NEW o \in Orders
  PROVE  LET r == ReleaseLines(o)
             bkash == Method[o] = "bkash"
         IN  /\ \A m \in Merchants : r[m] = (IF bkash THEN Gross[o][m] ELSE 0) - Commission(o, m)
             /\ r["commission"] = Commissions(o)
             /\ r["platform"] = (IF bkash THEN Gross[o][Platform] ELSE 0)
             /\ r["escrow"] = (IF bkash THEN -Goods(o) ELSE 0)
             /\ \A a \in {"gateway", "pending", "cash_out"} : r[a] = 0
<1>1. /\ \A m \in Merchants : m \notin Shop
      /\ \A a \in Shop : a \notin Merchants
      /\ Merchants \subseteq Accounts /\ Shop \subseteq Accounts
  BY PlatformIsApart DEF Accounts
<1>2. \A m \in Merchants : ReleaseLines(o)[m] = (IF Method[o] = "bkash" THEN Gross[o][m] ELSE 0) - Commission(o, m)
  BY <1>1 DEF ReleaseLines, Shop
<1>3. ReleaseLines(o)["commission"] = Commissions(o)
      /\ ReleaseLines(o)["platform"] = (IF Method[o] = "bkash" THEN Gross[o][Platform] ELSE 0)
  BY <1>1 DEF ReleaseLines, Shop
<1>4. ReleaseLines(o)["escrow"] = (IF Method[o] = "bkash" THEN -Goods(o) ELSE 0)
  BY <1>1 DEF ReleaseLines, Shop
<1>5. \A a \in {"gateway", "pending", "cash_out"} : ReleaseLines(o)[a] = 0
  BY <1>1 DEF ReleaseLines, Shop
<1> QED
  BY <1>2, <1>3, <1>4, <1>5

-----------------------------------------------------------------------------
(* Orders *)

OrderRow == [status : {"none", "placed", "paid", "delivered", "cancelled"},
             money : BOOLEAN, refunded : BOOLEAN, rates : [Merchants -> Rates \cup {0}]]

LEMMA OrderTyped ==
  ASSUME TypeOK, NEW o \in Orders
  PROVE  /\ order[o] \in OrderRow /\ order[o].rates \in [Merchants -> Rates \cup {0}]
         /\ order[o].status \in {"none", "placed", "paid", "delivered", "cancelled"}
         /\ order[o].money \in BOOLEAN /\ order[o].refunded \in BOOLEAN
<1>1. order[o] \in OrderRow
  BY DEF TypeOK, OrderRow
<1> QED
  BY <1>1 DEF OrderRow

LEMMA OrderChanged ==
  ASSUME TypeOK, NEW o \in Orders, NEW r \in OrderRow, order' = [order EXCEPT ![o] = r]
  PROVE  /\ order' \in [Orders -> OrderRow] /\ order'[o] = r
         /\ \A q \in Orders \ {o} : order'[q] = order[q]
  BY DEF TypeOK, OrderRow

LEMMA KindsAdded ==
  ASSUME TypeOK, NEW o \in Orders, NEW K \in SUBSET Kinds, posted' = [posted EXCEPT ![o] = @ \cup K]
  PROVE  /\ posted' \in [Orders -> SUBSET Kinds] /\ posted'[o] = posted[o] \cup K
         /\ \A q \in Orders \ {o} : posted'[q] = posted[q]
  BY DEF TypeOK

LEMMA BalanceAdded ==
  ASSUME TypeOK, NEW f, \A a \in Accounts : f[a] \in Int, balance' = Plus(balance, f)
  PROVE  balance' \in [Accounts -> Int] /\ \A a \in Accounts : balance'[a] = balance[a] + f[a]
  BY DEF TypeOK, Plus

\* A change of status books nothing.
LEMMA StatusStep ==
  ASSUME IndInv, NEW o \in Orders, NEW r \in OrderRow, order' = [order EXCEPT ![o] = r],
         UNCHANGED <<merchantVars, ledgerVars, payouts, request>>,
         r.refunded = order[o].refunded,
         r.rates = order[o].rates \/ order[o].status = "none",
         r.status # "none",
         order[o].refunded => r.status = "cancelled" /\ r.money
  PROVE  IndInv'
<1>0. TypeOK /\ OrderInv(o)
  BY DEF IndInv
<1> USE DEF merchantVars, ledgerVars
<1>1. /\ order' \in [Orders -> OrderRow] /\ order'[o] = r
      /\ \A q \in Orders \ {o} : order'[q] = order[q]
  BY <1>0, OrderChanged
<1>2. TypeOK'
  BY <1>0, <1>1 DEF TypeOK, OrderRow
<1>3. OrderInv(o)'
  BY <1>0, <1>1 DEF OrderInv
<1>4. ASSUME NEW a \in Accounts PROVE balance'[a] = balance[a] + OfOrder(o, a)' - OfOrder(o, a)
  <2>1. OfOrder(o, a)' = OfOrder(o, a)
    <3>1. CASE r.rates = order[o].rates
      <4>1. \A m \in Merchants : Commission(o, m)' = Commission(o, m)
        BY <1>1, <3>1 DEF Commission
      <4>2. Commissions(o)' = Commissions(o)
        BY <4>1 DEF Commissions
      <4>3. \A k : Stands(k, o)' <=> Stands(k, o)
        BY <1>1 DEF Stands
      <4> QED
        BY <4>1, <4>2, <4>3 DEF OfOrder
    <3>2. CASE order[o].status = "none"
      <4>1. posted[o] = {} /\ posted'[o] = {}
        BY <1>0, <3>2 DEF OrderInv
      <4>2. ~Stands("order_release", o) /\ ~Stands("order_payment", o)
            /\ ~Stands("order_release", o)' /\ ~Stands("order_payment", o)'
        BY <4>1 DEF Stands
      <4> QED
        BY <4>2 DEF OfOrder
    <3> QED
      BY <3>1, <3>2
  <2>2. OfOrder(o, a) \in Int /\ balance[a] \in Int /\ balance'[a] = balance[a]
    BY <1>0, OfOrderIsInt DEF PartsAreInts, TypeOK
  <2> QED
    BY <2>1, <2>2
<1>5. "order_release" \in posted[o] => order'[o].rates = order[o].rates
  BY <1>0, <1>1 DEF OrderInv
<1> QED
  BY <1>1, <1>2, <1>3, <1>4, <1>5, OrderStep

LEMMA CheckoutInd ==
  ASSUME IndInv, NEW o \in Orders, Checkout(o)
  PROVE  IndInv'
<1>0. TypeOK /\ OrderInv(o)
  BY DEF IndInv
<1>1. PICK rs \in [Merchants -> Rates \cup {0}] :
        order' = [order EXCEPT ![o].status = "placed", ![o].rates = rs]
  BY DEF Checkout
<1> DEFINE r == [order[o] EXCEPT !.status = "placed", !.rates = rs]
<1>2. order[o] \in OrderRow /\ order[o].status = "none" /\ ~order[o].refunded
  BY <1>0, OrderTyped DEF Checkout, OrderInv
<1>3. order' = [order EXCEPT ![o] = r]
  BY <1>0, <1>1 DEF TypeOK
<1>4. r \in OrderRow /\ r.status = "placed" /\ r.refunded = order[o].refunded
  BY <1>2 DEF OrderRow
<1>5. UNCHANGED <<merchantVars, ledgerVars, payouts, request>>
  BY DEF Checkout
<1> HIDE DEF r
<1> QED
  BY <1>2, <1>3, <1>4, <1>5, StatusStep

LEMMA DeliverInd ==
  ASSUME IndInv, NEW o \in Orders, Deliver(o) \/ Cancel(o)
  PROVE  IndInv'
<1>0. TypeOK /\ OrderInv(o)
  BY DEF IndInv
<1>1. PICK to \in {"delivered", "cancelled"} : order' = [order EXCEPT ![o].status = to]
  BY DEF Deliver, Cancel
<1> DEFINE r == [order[o] EXCEPT !.status = to]
<1>2. order[o] \in OrderRow /\ ~order[o].refunded
  BY <1>0, OrderTyped DEF Deliver, Cancel, OrderInv
<1>3. order' = [order EXCEPT ![o] = r]
  BY <1>1
<1>4. r \in OrderRow /\ r.status = to /\ r.refunded = order[o].refunded /\ r.rates = order[o].rates
  BY <1>2 DEF OrderRow
<1>5. UNCHANGED <<merchantVars, ledgerVars, payouts, request>>
  BY DEF Deliver, Cancel
<1> HIDE DEF r
<1> QED
  BY <1>2, <1>3, <1>4, <1>5, StatusStep

LEMMA TakeMoneyInd ==
  ASSUME IndInv, NEW o \in Orders, TakeMoney(o)
  PROVE  IndInv'
<1>0. TypeOK /\ OrderInv(o)
  BY DEF IndInv
<1>1. order[o] \in OrderRow /\ order[o].status # "none" /\ ~order[o].money /\ ~order[o].refunded
  BY <1>0, OrderTyped DEF TakeMoney, OrderInv
<1>2. CASE order[o].status # "placed"
  <2> DEFINE r == [order[o] EXCEPT !.money = TRUE]
  <2>1. order' = [order EXCEPT ![o] = r] /\ UNCHANGED <<merchantVars, ledgerVars, payouts, request>>
    BY <1>2 DEF TakeMoney
  <2>2. r \in OrderRow /\ r.status # "none" /\ r.refunded = order[o].refunded /\ r.rates = order[o].rates
    BY <1>1 DEF OrderRow
  <2> HIDE DEF r
  <2> QED
    BY <1>1, <2>1, <2>2, StatusStep
<1>3. CASE order[o].status = "placed"
  <2> DEFINE r == [order[o] EXCEPT !.status = "paid", !.money = TRUE]
             p == Posting(o, "order_payment", PaymentLines(o))
             new == "order_payment" \notin posted[o]
  <2>1. /\ order' = [order EXCEPT ![o] = r]
        /\ posted' = [posted EXCEPT ![o] = @ \cup {"order_payment"}]
        /\ balance' = Plus(balance, p)
        /\ UNCHANGED <<merchantVars, payouts, request>>
    BY <1>0, <1>3 DEF TakeMoney, TypeOK
  <2>2. r \in OrderRow /\ r.status = "paid" /\ ~r.refunded /\ r.rates = order[o].rates
    BY <1>1 DEF OrderRow
  <2>3. /\ \A m \in Merchants : p[m] = 0
        /\ p["gateway"] = (IF new THEN -Total(o) ELSE 0)
        /\ p["escrow"] = (IF new THEN Total(o) ELSE 0)
        /\ \A a \in Shop \ {"gateway", "escrow"} : p[a] = 0
    BY PaymentBooked
  <2> HIDE DEF r, p
  <2>4. Total(o) \in Int /\ -Total(o) \in Int
    BY OrderAmounts
  <2>5. \A a \in Accounts : p[a] \in Int
    BY <2>3, <2>4 DEF Accounts
  <2>6. /\ order' \in [Orders -> OrderRow] /\ order'[o] = r
        /\ \A q \in Orders \ {o} : order'[q] = order[q]
    BY <1>0, <2>1, <2>2, OrderChanged
  <2>7. /\ posted' \in [Orders -> SUBSET Kinds] /\ posted'[o] = posted[o] \cup {"order_payment"}
        /\ \A q \in Orders \ {o} : posted'[q] = posted[q]
    BY <1>0, <2>1, KindsAdded DEF Kinds
  <2>8. balance' \in [Accounts -> Int] /\ \A a \in Accounts : balance'[a] = balance[a] + p[a]
    BY <1>0, <2>1, <2>5, BalanceAdded
  <2>9. TypeOK'
    BY <1>0, <2>1, <2>6, <2>7, <2>8 DEF TypeOK, OrderRow, merchantVars
  <2>10. OrderInv(o)'
    BY <1>0, <2>2, <2>6, <2>7 DEF OrderInv
  <2>11. /\ Stands("order_payment", o)' /\ (Stands("order_payment", o) <=> ~new)
         /\ Stands("order_release", o)' <=> Stands("order_release", o)
         /\ (\A m \in Merchants : Commission(o, m)' = Commission(o, m)) /\ Commissions(o)' = Commissions(o)
    <3>1. \A m \in Merchants : Commission(o, m)' = Commission(o, m)
      BY <2>2, <2>6 DEF Commission
    <3>2. Commissions(o)' = Commissions(o)
      BY <3>1 DEF Commissions
    <3> QED
      BY <1>1, <2>2, <2>6, <2>7, <3>1, <3>2 DEF Stands
  <2>12. ASSUME NEW a \in Accounts PROVE balance'[a] = balance[a] + OfOrder(o, a)' - OfOrder(o, a)
    <3>1. PartsByAccount(o) /\ PartsByAccount(o)'
      BY PartsAre, PartsAreAfter DEF AllParts
    <3>2. OfOrder(o, a) \in Int /\ OfOrder(o, a)' \in Int /\ balance[a] \in Int
      BY <1>0, <2>9, OfOrderIsInt, OfOrderIsIntAfter DEF PartsAreInts, TypeOK
    <3>3. OfOrder(o, a)' = OfOrder(o, a) + p[a]
      <4>1. CASE a = "gateway"
        BY <2>3, <2>4, <2>11, <3>1, <4>1 DEF PartsByAccount
      <4>2. CASE a = "escrow"
        <5>1. Goods(o) \in Int
          BY OrderAmounts
        <5> QED
          BY <2>3, <2>4, <2>11, <3>1, <4>2, <5>1 DEF PartsByAccount
      <4>3. CASE a \notin {"gateway", "escrow"}
        <5>1. OfOrder(o, a)' = OfOrder(o, a)
          BY <2>11, <3>1, <4>3, AccountKinds DEF PartsByAccount
        <5>2. p[a] = 0
          BY <2>3, <4>3, AccountKinds DEF Shop
        <5> QED
          BY <3>2, <5>1, <5>2
      <4> QED
        BY <4>1, <4>2, <4>3
    <3>4. p[a] \in Int /\ balance'[a] = balance[a] + p[a]
      BY <2>5, <2>8
    <3> QED
      BY <3>2, <3>3, <3>4
  <2> QED
    BY <2>1, <2>2, <2>6, <2>7, <2>9, <2>10, <2>12, OrderStep
<1> QED
  BY <1>2, <1>3

LEMMA OnOrderDeliveredInd ==
  ASSUME IndInv, NEW o \in Orders, OnOrderDelivered(o)
  PROVE  IndInv'
<1> DEFINE r == ReleaseLines(o)
           bkash == Method[o] = "bkash"
           p == IF bkash THEN Posting(o, "order_payment", PaymentLines(o)) ELSE Lines(<<>>)
           new == bkash /\ "order_payment" \notin posted[o]
           f == Plus(r, p)
<1>0. TypeOK /\ OrderInv(o)
  BY DEF IndInv
<1>1. /\ order[o].status = "delivered" /\ "order_release" \notin posted[o] /\ ~order[o].refunded
      /\ posted' = [posted EXCEPT ![o] = @ \cup ReleaseKinds(o)]
      /\ balance' = Plus(balance, f)
      /\ UNCHANGED <<merchantVars, order, payouts, request>>
  BY <1>0 DEF OnOrderDelivered, ReleaseKinds, OrderInv
<1>2. /\ \A m \in Merchants : p[m] = 0
      /\ p["gateway"] = (IF new THEN -Total(o) ELSE 0)
      /\ p["escrow"] = (IF new THEN Total(o) ELSE 0)
      /\ \A a \in Shop \ {"gateway", "escrow"} : p[a] = 0
  <2>1. CASE bkash
    BY <2>1, PaymentBooked
  <2>2. CASE ~bkash
    BY <2>2 DEF Lines, Accounts, Shop
  <2> QED
    BY <2>1, <2>2
<1>3. /\ \A m \in Merchants : r[m] = (IF bkash THEN Gross[o][m] ELSE 0) - Commission(o, m)
      /\ r["commission"] = Commissions(o)
      /\ r["platform"] = (IF bkash THEN Gross[o][Platform] ELSE 0)
      /\ r["escrow"] = (IF bkash THEN -Goods(o) ELSE 0)
      /\ \A a \in {"gateway", "pending", "cash_out"} : r[a] = 0
  BY ReleaseBooked
<1>4. /\ Total(o) \in Int /\ Goods(o) \in Int /\ Gross[o][Platform] \in Int /\ Commissions(o) \in Int
      /\ \A m \in Merchants : Gross[o][m] \in Int /\ Commission(o, m) \in Int
  BY <1>0, OrderAmounts, CommissionsBounded DEF CommissionsAreBounded
<1> HIDE DEF r, p, f
<1>5. \A a \in Accounts : r[a] \in Int /\ p[a] \in Int
  <2>1. \A a \in Accounts : p[a] \in Int
    <3>1. -Total(o) \in Int
      BY <1>4
    <3> QED
      BY <1>2, <1>4, <3>1 DEF Accounts
  <2>2. \A m \in Merchants : r[m] \in Int
    BY <1>3, <1>4
  <2>3. \A a \in Shop : r[a] \in Int
    <3>1. -Goods(o) \in Int
      BY <1>4
    <3> QED
      BY <1>3, <1>4, <3>1 DEF Shop
  <2> QED
    BY <2>1, <2>2, <2>3 DEF Accounts
<1>6. \A a \in Accounts : f[a] = r[a] + p[a] /\ f[a] \in Int
  BY <1>5 DEF f, Plus
<1>7. /\ posted' \in [Orders -> SUBSET Kinds] /\ posted'[o] = posted[o] \cup ReleaseKinds(o)
      /\ \A q \in Orders \ {o} : posted'[q] = posted[q]
  <2>1. ReleaseKinds(o) \in SUBSET Kinds
    BY DEF ReleaseKinds, Kinds
  <2> QED
    BY <1>0, <1>1, <2>1, KindsAdded
<1>8. balance' \in [Accounts -> Int] /\ \A a \in Accounts : balance'[a] = balance[a] + f[a]
  BY <1>0, <1>1, <1>6, BalanceAdded
<1>9. TypeOK'
  BY <1>0, <1>1, <1>7, <1>8 DEF TypeOK, merchantVars
<1>10. OrderInv(o)'
  BY <1>0, <1>1, <1>7 DEF OrderInv, ReleaseKinds
<1>11. /\ Stands("order_release", o)' /\ ~Stands("order_release", o)
       /\ Stands("order_payment", o)' <=> Stands("order_payment", o) \/ new
       /\ new => ~Stands("order_payment", o)
       /\ \A m \in Merchants : Commission(o, m)' = Commission(o, m)
       /\ Commissions(o)' = Commissions(o)
  <2>1. \A m \in Merchants : Commission(o, m)' = Commission(o, m)
    BY <1>1 DEF Commission
  <2>2. Commissions(o)' = Commissions(o)
    BY <2>1 DEF Commissions
  <2>3. "order_release" \in posted'[o] /\ ("order_payment" \in posted'[o] <=> "order_payment" \in posted[o] \/ new)
    BY <1>7 DEF ReleaseKinds
  <2> QED
    BY <1>1, <2>1, <2>2, <2>3 DEF Stands
<1>12. ASSUME NEW a \in Accounts PROVE balance'[a] = balance[a] + OfOrder(o, a)' - OfOrder(o, a)
  <2>1. PartsByAccount(o) /\ PartsByAccount(o)'
    BY PartsAre, PartsAreAfter DEF AllParts
  <2>2. OfOrder(o, a) \in Int /\ OfOrder(o, a)' \in Int /\ balance[a] \in Int
    BY <1>0, <1>9, OfOrderIsInt, OfOrderIsIntAfter DEF PartsAreInts, TypeOK
  <2>3. OfOrder(o, a)' = OfOrder(o, a) + (r[a] + p[a])
    <3>1. CASE a \in Merchants
      <4>1. OfOrder(o, a) = 0 - 0 /\ OfOrder(o, a)' = (IF bkash THEN Gross[o][a] ELSE 0) - Commission(o, a)
        BY <1>11, <2>1, <3>1 DEF PartsByAccount
      <4> QED
        BY <1>2, <1>3, <1>5, <2>2, <3>1, <4>1
    <3>2. CASE a = "gateway"
      BY <1>2, <1>3, <1>4, <1>11, <2>1, <3>2 DEF PartsByAccount
    <3>3. CASE a = "escrow"
      <4>1. OfOrder(o, a) = (IF Stands("order_payment", o) THEN Total(o) ELSE 0) - 0
        BY <1>11, <2>1, <3>3 DEF PartsByAccount
      <4>2. OfOrder(o, a)' = (IF Stands("order_payment", o) \/ new THEN Total(o) ELSE 0)
                             - (IF bkash THEN Goods(o) ELSE 0)
        BY <1>11, <2>1, <3>3 DEF PartsByAccount
      <4> QED
        BY <1>2, <1>3, <1>4, <1>11, <3>3, <4>1, <4>2
    <3>4. CASE a = "commission"
      <4>1. OfOrder(o, a) = 0 /\ OfOrder(o, a)' = Commissions(o)
        BY <1>11, <2>1, <3>4 DEF PartsByAccount
      <4>2. r[a] = Commissions(o) /\ p[a] = 0
        BY <1>2, <1>3, <3>4 DEF Shop
      <4> QED
        BY <1>4, <4>1, <4>2
    <3>5. CASE a = "platform"
      <4>1. OfOrder(o, a) = 0 /\ OfOrder(o, a)' = IF bkash THEN Gross[o][Platform] ELSE 0
        BY <1>11, <2>1, <3>5 DEF PartsByAccount
      <4>2. r[a] = (IF bkash THEN Gross[o][Platform] ELSE 0) /\ p[a] = 0
        BY <1>2, <1>3, <3>5 DEF Shop
      <4> QED
        BY <1>4, <4>1, <4>2
    <3>6. CASE a \in {"pending", "cash_out"}
      <4>1. OfOrder(o, a) = 0 /\ OfOrder(o, a)' = 0
        BY <2>1, <3>6 DEF PartsByAccount
      <4>2. r[a] = 0 /\ p[a] = 0
        BY <1>2, <1>3, <3>6 DEF Shop
      <4> QED
        BY <4>1, <4>2
    <3> QED
      BY <3>1, <3>2, <3>3, <3>4, <3>5, <3>6, AccountKinds
  <2>4. r[a] \in Int /\ p[a] \in Int /\ balance'[a] = balance[a] + (r[a] + p[a])
    BY <1>5, <1>6, <1>8
  <2> QED
    BY <2>2, <2>3, <2>4
<1>13. posted[o] \subseteq posted'[o] /\ \A q \in Orders : order'[q] = order[q]
  BY <1>1, <1>7
<1> QED
  BY <1>1, <1>7, <1>9, <1>10, <1>12, <1>13, OrderStep

LEMMA RefundOrderInd ==
  ASSUME IndInv, NEW o \in Orders, RefundOrder(o)
  PROVE  IndInv'
<1> DEFINE bkash == Method[o] = "bkash"
           released == "order_release" \in posted[o]
           paid == "order_payment" \in posted[o]
           r == IF released THEN Minus(ReleaseLines(o)) ELSE Lines(<<>>)
           p == IF paid THEN Minus(PaymentLines(o)) ELSE Lines(<<>>)
           f == Plus(r, p)
           K == {IF k = "order_release" THEN "refund:order_release" ELSE "refund:order_payment"
                    : k \in posted[o] \cap Reversible}
           row == [order[o] EXCEPT !.status = "cancelled", !.refunded = TRUE]
<1>0. TypeOK /\ OrderInv(o)
  BY DEF IndInv
<1>1. /\ bkash /\ order[o].money /\ ~order[o].refunded
      /\ order' = [order EXCEPT ![o] = row]
      /\ posted' = [posted EXCEPT ![o] = @ \cup K]
      /\ UNCHANGED <<merchantVars, payouts, request>>
  BY <1>0 DEF RefundOrder, TypeOK
<1>2. balance' = Plus(balance, f)
  <2>1. Reversal(o) = f
    BY DEF Reversal, Reversible
  <2> QED
    BY <2>1 DEF RefundOrder
<1>3. order[o] \in OrderRow
  BY <1>0, OrderTyped
<1>4. row \in OrderRow /\ row.status = "cancelled" /\ row.refunded /\ row.money /\ row.rates = order[o].rates
  BY <1>1, <1>3 DEF OrderRow
<1>5. K \in SUBSET Kinds /\ "order_release" \notin K /\ "order_payment" \notin K
  BY DEF Kinds, Reversible
<1>6. /\ Total(o) \in Int /\ Goods(o) \in Int /\ Gross[o][Platform] \in Int /\ Commissions(o) \in Int
      /\ \A m \in Merchants : Gross[o][m] \in Int /\ Commission(o, m) \in Int
  BY <1>0, OrderAmounts, CommissionsBounded DEF CommissionsAreBounded
<1>7. /\ \A m \in Merchants : m \in Accounts /\ m \notin Shop
      /\ \A a \in Shop : a \in Accounts
  BY PlatformIsApart DEF Accounts
<1>8. /\ \A m \in Merchants : p[m] = 0
      /\ p["gateway"] = (IF paid THEN Total(o) ELSE 0)
      /\ p["escrow"] = (IF paid THEN -Total(o) ELSE 0)
      /\ \A a \in Shop \ {"gateway", "escrow"} : p[a] = 0
  <2>1. CASE paid
    <3>1. \A a \in Accounts : p[a] = -PaymentLines(o)[a]
      BY <2>1 DEF Minus
    <3>2. DOMAIN [gateway |-> -Total(o), escrow |-> Total(o)] = {"gateway", "escrow"}
      OBVIOUS
    <3>3. /\ \A m \in Merchants : PaymentLines(o)[m] = 0
          /\ PaymentLines(o)["gateway"] = -Total(o)
          /\ PaymentLines(o)["escrow"] = Total(o)
          /\ \A a \in Shop \ {"gateway", "escrow"} : PaymentLines(o)[a] = 0
      BY <1>7, <3>2 DEF PaymentLines, Lines, Shop
    <3> HIDE DEF p
    <3>4. "gateway" \in Accounts /\ "escrow" \in Accounts
      BY <1>7 DEF Shop
    <3>5. p["gateway"] = -(-Total(o)) /\ p["escrow"] = -Total(o)
      BY <3>1, <3>3, <3>4
    <3>6. (\A m \in Merchants : p[m] = -0) /\ (\A a \in Shop \ {"gateway", "escrow"} : p[a] = -0)
      BY <1>7, <3>1, <3>3
    <3> QED
      BY <1>6, <2>1, <3>5, <3>6
  <2>2. CASE ~paid
    BY <1>7, <2>2 DEF Lines, Shop
  <2> QED
    BY <2>1, <2>2
<1>9. /\ \A m \in Merchants : r[m] = IF released THEN -(Gross[o][m] - Commission(o, m)) ELSE 0
      /\ r["commission"] = IF released THEN -Commissions(o) ELSE 0
      /\ r["platform"] = IF released THEN -Gross[o][Platform] ELSE 0
      /\ r["escrow"] = IF released THEN -(-Goods(o)) ELSE 0
      /\ \A a \in {"gateway", "pending", "cash_out"} : r[a] = 0
  <2>1. CASE released
    <3>1. \A a \in Accounts : r[a] = -ReleaseLines(o)[a]
      BY <2>1 DEF Minus
    <3>2. /\ \A m \in Merchants : ReleaseLines(o)[m] = Gross[o][m] - Commission(o, m)
          /\ ReleaseLines(o)["commission"] = Commissions(o)
          /\ ReleaseLines(o)["platform"] = Gross[o][Platform]
          /\ ReleaseLines(o)["escrow"] = -Goods(o)
          /\ \A a \in {"gateway", "pending", "cash_out"} : ReleaseLines(o)[a] = 0
      BY <1>1, ReleaseBooked
    <3> HIDE DEF r
    <3>3. \A a \in {"gateway", "pending", "cash_out", "commission", "platform", "escrow"} : a \in Accounts
      BY <1>7 DEF Shop
    <3>4. \A m \in Merchants : r[m] = -(Gross[o][m] - Commission(o, m))
      BY <1>7, <3>1, <3>2
    <3>5. r["commission"] = -Commissions(o) /\ r["platform"] = -Gross[o][Platform] /\ r["escrow"] = -(-Goods(o))
      BY <3>1, <3>2, <3>3
    <3>6. \A a \in {"gateway", "pending", "cash_out"} : r[a] = -0
      BY <3>1, <3>2, <3>3
    <3> QED
      BY <2>1, <3>4, <3>5, <3>6
  <2>2. CASE ~released
    BY <1>7, <2>2 DEF Lines, Shop
  <2> QED
    BY <2>1, <2>2
<1> HIDE DEF r, p, f, K, row
<1>10. \A a \in Accounts : r[a] \in Int /\ p[a] \in Int
  <2>1. \A m \in Merchants : r[m] \in Int /\ p[m] \in Int
    BY <1>6, <1>8, <1>9
  <2>2. r["escrow"] \in Int /\ p["escrow"] \in Int /\ r["gateway"] \in Int /\ p["gateway"] \in Int
    BY <1>6, <1>8, <1>9
  <2>3. r["commission"] \in Int /\ r["platform"] \in Int /\ r["pending"] \in Int /\ r["cash_out"] \in Int
    BY <1>6, <1>9
  <2>4. \A a \in Shop \ {"gateway", "escrow"} : p[a] \in Int
    BY <1>8
  <2> QED
    BY <2>1, <2>2, <2>3, <2>4 DEF Accounts, Shop
<1>11. \A a \in Accounts : f[a] = r[a] + p[a] /\ f[a] \in Int
  BY <1>10 DEF f, Plus
<1>12. /\ posted' \in [Orders -> SUBSET Kinds] /\ posted'[o] = posted[o] \cup K
       /\ \A q \in Orders \ {o} : posted'[q] = posted[q]
  BY <1>0, <1>1, <1>5, KindsAdded
<1>13. /\ order' \in [Orders -> OrderRow] /\ order'[o] = row
       /\ \A q \in Orders \ {o} : order'[q] = order[q]
  BY <1>0, <1>1, <1>4, OrderChanged
<1>14. balance' \in [Accounts -> Int] /\ \A a \in Accounts : balance'[a] = balance[a] + f[a]
  BY <1>0, <1>2, <1>11, BalanceAdded
<1>15. TypeOK'
  BY <1>0, <1>1, <1>12, <1>13, <1>14 DEF TypeOK, OrderRow, merchantVars
<1>16. OrderInv(o)'
  BY <1>0, <1>4, <1>5, <1>12, <1>13 DEF OrderInv
<1>17. /\ ~Stands("order_release", o)' /\ ~Stands("order_payment", o)'
       /\ (Stands("order_release", o) <=> released) /\ (Stands("order_payment", o) <=> paid)
  BY <1>1, <1>4, <1>13 DEF Stands
<1>18. ASSUME NEW a \in Accounts PROVE balance'[a] = balance[a] + OfOrder(o, a)' - OfOrder(o, a)
  <2>1. PartsByAccount(o) /\ PartsByAccount(o)'
    BY PartsAre, PartsAreAfter DEF AllParts
  <2>2. OfOrder(o, a) \in Int /\ balance[a] \in Int
    BY <1>0, OfOrderIsInt DEF PartsAreInts, TypeOK
  <2>3. OfOrder(o, a)' = 0
    <3>1. a \in Merchants => OfOrder(o, a)' = 0 - 0
      BY <1>17, <2>1 DEF PartsByAccount
    <3>2. a = "escrow" => OfOrder(o, a)' = 0 - 0
      BY <1>17, <2>1 DEF PartsByAccount
    <3>3. a \in {"gateway", "cash_out", "pending", "commission", "platform"} => OfOrder(o, a)' = 0
      BY <1>17, <2>1 DEF PartsByAccount
    <3> QED
      BY <3>1, <3>2, <3>3, AccountKinds
  <2>4. r[a] + p[a] = 0 - OfOrder(o, a)
    <3>1. CASE a \in Merchants
      <4>1. OfOrder(o, a) = (IF released THEN Gross[o][a] ELSE 0) - (IF released THEN Commission(o, a) ELSE 0)
        BY <1>1, <1>17, <2>1, <3>1 DEF PartsByAccount
      <4>2. p[a] = 0 /\ r[a] = IF released THEN -(Gross[o][a] - Commission(o, a)) ELSE 0
        BY <1>8, <1>9, <3>1
      <4>3. Gross[o][a] \in Int /\ Commission(o, a) \in Int
        BY <1>6, <3>1
      <4> QED
        BY <4>1, <4>2, <4>3
    <3>2. CASE a = "gateway"
      <4>1. OfOrder(o, a) = IF paid THEN -Total(o) ELSE 0
        BY <1>17, <2>1, <3>2 DEF PartsByAccount
      <4> QED
        BY <1>6, <1>8, <1>9, <3>2, <4>1
    <3>3. CASE a = "escrow"
      <4>1. OfOrder(o, a) = (IF paid THEN Total(o) ELSE 0) - (IF released THEN Goods(o) ELSE 0)
        BY <1>1, <1>17, <2>1, <3>3 DEF PartsByAccount
      <4> QED
        BY <1>6, <1>8, <1>9, <3>3, <4>1
    <3>4. CASE a = "commission"
      <4>1. OfOrder(o, a) = IF released THEN Commissions(o) ELSE 0
        BY <1>17, <2>1, <3>4 DEF PartsByAccount
      <4>2. p[a] = 0
        BY <1>8, <3>4 DEF Shop
      <4> QED
        BY <1>6, <1>9, <3>4, <4>1, <4>2
    <3>5. CASE a = "platform"
      <4>1. OfOrder(o, a) = IF released THEN Gross[o][Platform] ELSE 0
        BY <1>1, <1>17, <2>1, <3>5 DEF PartsByAccount
      <4>2. p[a] = 0
        BY <1>8, <3>5 DEF Shop
      <4> QED
        BY <1>6, <1>9, <3>5, <4>1, <4>2
    <3>6. CASE a \in {"pending", "cash_out"}
      <4>1. OfOrder(o, a) = 0
        BY <2>1, <3>6 DEF PartsByAccount
      <4>2. p[a] = 0 /\ r[a] = 0
        BY <1>8, <1>9, <3>6 DEF Shop
      <4> QED
        BY <4>1, <4>2
    <3> QED
      BY <3>1, <3>2, <3>3, <3>4, <3>5, <3>6, AccountKinds
  <2>5. balance'[a] = balance[a] + (r[a] + p[a])
    BY <1>11, <1>14
  <2> QED
    BY <2>2, <2>3, <2>4, <2>5
<1>19. posted[o] \subseteq posted'[o] /\ order'[o].rates = order[o].rates
  BY <1>4, <1>12, <1>13
<1> QED
  BY <1>1, <1>12, <1>13, <1>15, <1>16, <1>18, <1>19, OrderStep

-----------------------------------------------------------------------------
(* Merchants and requests *)

\* A step that books nothing, places nothing and settles nothing.
LEMMA BooksKept ==
  ASSUME IndInv, UNCHANGED <<order, posted, balance, payouts>>
  PROVE  /\ \A o \in Orders : OrderInv(o)'
         /\ \A m, S : PaidOut(m, S)' = PaidOut(m, S)
         /\ \A m \in Merchants : EverEarned(m)' = EverEarned(m)
         /\ LedgerFollowsEvents' /\ PayoutsWithinEarnings'
<1>0. /\ \A o \in Orders : OrderInv(o)
      /\ LedgerFollowsEvents /\ PayoutsWithinEarnings
  BY DEF IndInv
<1>1. \A o \in Orders : OrderInv(o)'
  BY <1>0 DEF OrderInv
<1>2. \A m, S : PaidOut(m, S)' = PaidOut(m, S)
  BY DEF PaidOut
<1>3. ASSUME NEW m \in Merchants PROVE EverEarned(m)' = EverEarned(m)
  BY DEF EverEarned, Commission
<1>4. ASSUME NEW a \in Accounts PROVE balance'[a] = Expected(a)'
  <2>1. \A o \in Orders : OfOrder(o, a)' = OfOrder(o, a)
    BY SamePart
  <2>2. OfPayouts(a)' = OfPayouts(a)
    BY <1>2 DEF OfPayouts, PaidOutToAll
  <2> QED
    BY <1>0, <2>1, <2>2 DEF LedgerFollowsEvents, Expected
<1> QED
  BY <1>0, <1>1, <1>2, <1>3, <1>4 DEF LedgerFollowsEvents, PayoutsWithinEarnings

\* What is done with the merchants table moves no money.
LEMMA MerchantStep ==
  ASSUME IndInv, TypeOK', UNCHANGED <<order, posted, balance, payouts, request>>
  PROVE  IndInv'
<1>1. /\ \A o \in Orders : OrderInv(o)'
      /\ \A m, S : PaidOut(m, S)' = PaidOut(m, S)
      /\ \A m \in Merchants : EverEarned(m)' = EverEarned(m)
      /\ LedgerFollowsEvents' /\ PayoutsWithinEarnings'
  BY BooksKept
<1>2. ASSUME NEW q \in Requesters PROVE RequestInv(q)'
  <2>1. RequestInv(q) /\ TypeOK
    BY DEF IndInv
  <2>2. CASE request[q] # Idle
    <3>1. request[q].of \in Merchants
      BY <2>1, <2>2 DEF TypeOK
    <3> QED
      BY <1>1, <2>1, <3>1 DEF RequestInv
  <2>3. CASE request[q] = Idle
    BY <2>3 DEF RequestInv
  <2> QED
    BY <2>2, <2>3
<1> QED
  BY <1>1, <1>2 DEF IndInv

LEMMA RowTyped ==
  ASSUME TypeOK, NEW m \in Merchants
  PROVE  /\ seller[m] \in Row /\ seller[m].rate \in Rates \cup {0}
         /\ seller[m].account \in BOOLEAN
<1>1. seller[m] \in Row
  BY DEF TypeOK
<1> QED
  BY <1>1 DEF Row

LEMMA ApplyForMerchantInd ==
  ASSUME IndInv, NEW m \in Merchants, ApplyForMerchant(m)
  PROVE  IndInv'
<1>0. TypeOK
  BY DEF IndInv
<1>1. PICK a \in BOOLEAN : seller' = [seller EXCEPT ![m] = [@ EXCEPT !.status = "pending", !.account = a]]
  BY DEF ApplyForMerchant
<1> DEFINE row == [seller[m] EXCEPT !.status = "pending", !.account = a]
<1>2. row \in Row
  BY <1>0, RowTyped DEF Row, Statuses
<1>3. seller' = [seller EXCEPT ![m] = row]
  BY <1>0, <1>1 DEF TypeOK
<1> HIDE DEF row
<1>4. UNCHANGED <<promo, draft, order, ledgerVars, payouts, request>>
  BY DEF ApplyForMerchant
<1>5. TypeOK'
  BY <1>0, <1>2, <1>3, <1>4 DEF TypeOK, ledgerVars
<1> QED
  BY <1>4, <1>5, MerchantStep DEF ledgerVars

LEMMA SetMerchantStatusInd ==
  ASSUME IndInv, NEW m \in Merchants, NEW s \in {"approved", "rejected"}, SetMerchantStatus(m, s)
  PROVE  IndInv'
<1>0. TypeOK
  BY DEF IndInv
<1> DEFINE row == [seller[m] EXCEPT !.status = s]
<1>1. row \in Row
  BY <1>0, RowTyped DEF Row, Statuses
<1>2. seller' = [seller EXCEPT ![m] = row]
  BY <1>0 DEF TypeOK, SetMerchantStatus
<1> HIDE DEF row
<1>3. UNCHANGED <<promo, draft, order, ledgerVars, payouts, request>>
  BY DEF SetMerchantStatus
<1>4. TypeOK'
  BY <1>0, <1>1, <1>2, <1>3 DEF TypeOK, ledgerVars
<1> QED
  BY <1>3, <1>4, MerchantStep DEF ledgerVars

LEMMA DeleteMerchantInd ==
  ASSUME IndInv, NEW m \in Merchants, DeleteMerchant(m)
  PROVE  IndInv'
<1>0. TypeOK
  BY DEF IndInv
<1> DEFINE row == [seller[m] EXCEPT !.deleted = TRUE]
<1>1. row \in Row
  BY <1>0, RowTyped DEF Row, Statuses
<1>2. seller' = [seller EXCEPT ![m] = row]
  BY <1>0 DEF TypeOK, DeleteMerchant
<1> HIDE DEF row
<1>3. UNCHANGED <<promo, draft, order, ledgerVars, payouts, request>>
  BY DEF DeleteMerchant
<1>4. TypeOK'
  BY <1>0, <1>1, <1>2, <1>3 DEF TypeOK, ledgerVars
<1> QED
  BY <1>3, <1>4, MerchantStep DEF ledgerVars

LEMMA LoadMerchantInd ==
  ASSUME IndInv, NEW e \in Editors, NEW m \in Merchants, LoadMerchant(e, m)
  PROVE  IndInv'
<1>0. TypeOK
  BY DEF IndInv
<1> DEFINE d == [step |-> "loaded", of |-> m, row |-> seller[m]]
<1>1. d \in [step : {"loaded"}, of : Merchants, row : Row]
  BY <1>0, RowTyped
<1>2. draft' = [draft EXCEPT ![e] = d]
  BY DEF LoadMerchant
<1> HIDE DEF d
<1>3. UNCHANGED <<seller, promo, order, ledgerVars, payouts, request>>
  BY DEF LoadMerchant
<1>4. TypeOK'
  BY <1>0, <1>1, <1>2, <1>3 DEF TypeOK, ledgerVars
<1> QED
  BY <1>3, <1>4, MerchantStep DEF ledgerVars

LEMMA SaveMerchantInd ==
  ASSUME IndInv, NEW e \in Editors, SaveMerchant(e)
  PROVE  IndInv'
<1>0. TypeOK
  BY DEF IndInv
<1>1. /\ draft[e] # Idle
      /\ draft' = [draft EXCEPT ![e] = Idle]
      /\ UNCHANGED <<promo, order, ledgerVars, payouts, request>>
  BY DEF SaveMerchant
<1>2. PICK a \in BOOLEAN, r \in Rates \cup {draft[e].row.rate} :
        seller' = [seller EXCEPT ![draft[e].of] = [draft[e].row EXCEPT !.account = a, !.rate = r]]
  BY DEF SaveMerchant
<1>3. draft[e].of \in Merchants /\ draft[e].row \in Row
  <2>1. draft[e] \in [step : {"loaded"}, of : Merchants, row : Row]
    BY <1>0, <1>1 DEF TypeOK
  <2> QED
    BY <2>1
<1> DEFINE row == [draft[e].row EXCEPT !.account = a, !.rate = r]
<1>4. row \in Row
  BY <1>2, <1>3 DEF Row
<1>5. seller' \in [Merchants -> Row]
  BY <1>0, <1>2, <1>3, <1>4 DEF TypeOK
<1>6. TypeOK'
  BY <1>0, <1>1, <1>5 DEF TypeOK, ledgerVars
<1> QED
  BY <1>1, <1>6, MerchantStep DEF ledgerVars

LEMMA SetPolicyInd ==
  ASSUME IndInv, NEW r \in Rates, SetPolicy(r)
  PROVE  IndInv'
<1>0. TypeOK
  BY DEF IndInv
<1>1. TypeOK'
  BY <1>0 DEF SetPolicy, TypeOK, ledgerVars
<1> QED
  BY <1>1, MerchantStep DEF SetPolicy, ledgerVars

-----------------------------------------------------------------------------
(* Payouts of a balance *)

LEMMA RequestTyped ==
  ASSUME TypeOK, NEW q \in Requesters, request[q] # Idle
  PROVE  /\ request[q].of \in Merchants /\ request[q].amount \in Amounts
         /\ request[q].amount \in Int
<1>1. request[q] \in [step : {"checked"}, of : Merchants, amount : Amounts]
  BY DEF TypeOK
<1> QED
  BY <1>1, AmountsAreNumbers

\* What the orders make of a merchant's balance is at most what they ever
\* earned him: a refund takes back, a cash order costs its commission.
LEMMA EarnedCovers ==
  ASSUME TypeOK, NEW m \in Merchants
  PROVE  /\ Sum([o \in Orders |-> OfOrder(o, m)], Orders) \in Int
         /\ EverEarned(m) \in Int
         /\ Sum([o \in Orders |-> OfOrder(o, m)], Orders) <= EverEarned(m)
<1> DEFINE f == [o \in Orders |-> OfOrder(o, m)]
           g == [o \in Orders |-> IF "order_release" \in posted[o] /\ Method[o] = "bkash"
                                 THEN Gross[o][m] - Commission(o, m) ELSE 0]
<1>1. ASSUME NEW o \in Orders PROVE f[o] \in Int /\ g[o] \in Int /\ f[o] <= g[o]
  <2>1. Gross[o][m] \in Nat /\ Commission(o, m) \in 0..Gross[o][m]
    BY OrderAmounts, CommissionsBounded DEF CommissionsAreBounded
  <2>2. OfOrder(o, m) = (IF Stands("order_release", o) /\ Method[o] = "bkash" THEN Gross[o][m] ELSE 0)
                        - (IF Stands("order_release", o) THEN Commission(o, m) ELSE 0)
    BY PartsAre DEF AllParts, PartsByAccount
  <2>3. Stands("order_release", o) => "order_release" \in posted[o]
    BY DEF Stands
  <2> QED
    BY <2>1, <2>2, <2>3
<1> HIDE DEF f, g
<1>2. Sum(f, Orders) \in Int /\ Sum(g, Orders) \in Int /\ Sum(f, Orders) <= Sum(g, Orders)
  BY <1>1, OrdersAreFinite, SumInt, SumMonotone
<1> QED
  BY <1>2 DEF f, g, EverEarned

LEMMA StartRequestInd ==
  ASSUME IndInv, NEW q \in Requesters, NEW m \in Merchants, NEW x \in Amounts, StartRequest(q, m, x)
  PROVE  IndInv'
<1>0. TypeOK /\ LedgerFollowsEvents /\ \A p \in Requesters : RequestInv(p)
  BY DEF IndInv
<1>1. /\ request[q] = Idle /\ ~Locked(m) /\ x > 0 /\ x <= balance[m]
      /\ UNCHANGED <<merchantVars, order, ledgerVars, payouts>>
  BY DEF StartRequest, Payable
<1> DEFINE r == [step |-> "checked", of |-> m, amount |-> x]
<1>2. r \in [step : {"checked"}, of : Merchants, amount : Amounts] /\ r.of = m /\ r.amount = x
  OBVIOUS
<1>3. request' = [request EXCEPT ![q] = r]
  BY DEF StartRequest
<1> HIDE DEF r
<1>4. request'[q] = r /\ \A p \in Requesters \ {q} : request'[p] = request[p]
  BY <1>0, <1>3 DEF TypeOK
<1>5. TypeOK'
  BY <1>0, <1>1, <1>2, <1>3 DEF TypeOK, merchantVars, ledgerVars
<1>6. /\ \A o \in Orders : OrderInv(o)'
      /\ \A n, S : PaidOut(n, S)' = PaidOut(n, S)
      /\ \A n \in Merchants : EverEarned(n)' = EverEarned(n)
      /\ LedgerFollowsEvents' /\ PayoutsWithinEarnings'
  BY <1>1, BooksKept DEF ledgerVars
<1>7. PaidOut(m, Promised) + x <= EverEarned(m)
  <2> DEFINE earned == Sum([o \in Orders |-> OfOrder(o, m)], Orders)
  <2>1. earned \in Int /\ EverEarned(m) \in Int /\ earned <= EverEarned(m)
    BY <1>0, EarnedCovers
  <2>2. PaidOut(m, Promised) \in Int
    BY <1>0, PromisedCounts
  <2>3. m \in Accounts
    BY DEF Accounts
  <2>4. OfPayouts(m) = -PaidOut(m, Promised)
    BY PlatformIsApart DEF OfPayouts, Shop
  <2>5. balance[m] = earned + OfPayouts(m)
    BY <1>0, <2>3 DEF LedgerFollowsEvents, Expected
  <2>6. x \in Int
    BY AmountsAreNumbers
  <2> HIDE DEF earned
  <2> QED
    BY <1>1, <2>1, <2>2, <2>4, <2>5, <2>6
<1>8. \A p \in Requesters : request[p] # Idle => request[p].of # m
  BY <1>1 DEF Locked
<1>9. ASSUME NEW p \in Requesters PROVE RequestInv(p)'
  <2>1. CASE p = q
    <3>1. \A n \in Requesters \ {p} : request'[n] # Idle => request'[n].of # request'[p].of
      BY <1>2, <1>4, <1>8, <2>1
    <3>2. PaidOut(m, Promised)' + x <= EverEarned(m)'
      BY <1>6, <1>7
    <3> QED
      BY <1>1, <1>2, <1>4, <2>1, <3>1, <3>2 DEF RequestInv
  <2>2. CASE p # q /\ request[p] # Idle
    <3>1. request'[p] = request[p] /\ RequestInv(p) /\ request[p].of \in Merchants
      BY <1>0, <1>4, <2>2, RequestTyped
    <3>2. \A n \in Requesters \ {p} : request'[n] # Idle => request'[n].of # request'[p].of
      BY <1>2, <1>4, <1>8, <2>2, <3>1 DEF RequestInv
    <3>3. PaidOut(request[p].of, Promised)' + request[p].amount <= EverEarned(request[p].of)'
      BY <1>6, <2>2, <3>1 DEF RequestInv
    <3> QED
      BY <2>2, <3>1, <3>2, <3>3 DEF RequestInv
  <2>3. CASE p # q /\ request[p] = Idle
    BY <1>4, <2>3 DEF RequestInv
  <2> QED
    BY <2>1, <2>2, <2>3
<1> QED
  BY <1>5, <1>6, <1>9 DEF IndInv

LEMMA DropRequestInd ==
  ASSUME IndInv, NEW q \in Requesters, DropRequest(q)
  PROVE  IndInv'
<1>0. TypeOK /\ \A p \in Requesters : RequestInv(p)
  BY DEF IndInv
<1>1. /\ request' = [request EXCEPT ![q] = Idle]
      /\ UNCHANGED <<merchantVars, order, ledgerVars, payouts>>
  BY DEF DropRequest
<1>2. request'[q] = Idle /\ \A p \in Requesters \ {q} : request'[p] = request[p]
  BY <1>0, <1>1 DEF TypeOK
<1>3. TypeOK'
  BY <1>0, <1>1 DEF TypeOK, merchantVars, ledgerVars
<1>4. /\ \A o \in Orders : OrderInv(o)'
      /\ \A n, S : PaidOut(n, S)' = PaidOut(n, S)
      /\ \A n \in Merchants : EverEarned(n)' = EverEarned(n)
      /\ LedgerFollowsEvents' /\ PayoutsWithinEarnings'
  BY <1>1, BooksKept DEF ledgerVars
<1>5. ASSUME NEW p \in Requesters PROVE RequestInv(p)'
  <2>1. CASE p # q /\ request[p] # Idle
    <3>1. request'[p] = request[p] /\ RequestInv(p) /\ request[p].of \in Merchants
      BY <1>0, <1>2, <2>1, RequestTyped
    <3>2. \A n \in Requesters \ {p} : request'[n] # Idle => request'[n].of # request'[p].of
      BY <1>2, <2>1, <3>1 DEF RequestInv
    <3>3. PaidOut(request[p].of, Promised)' + request[p].amount <= EverEarned(request[p].of)'
      BY <1>4, <2>1, <3>1 DEF RequestInv
    <3> QED
      BY <2>1, <3>1, <3>2, <3>3 DEF RequestInv
  <2>2. CASE p = q \/ request[p] = Idle
    <3>1. request'[p] = Idle
      BY <1>2, <2>2
    <3> QED
      BY <3>1 DEF RequestInv
  <2> QED
    BY <2>1, <2>2
<1> QED
  BY <1>3, <1>4, <1>5 DEF IndInv

\* A step about one merchant's payouts that books what it changes of them.
LEMMA PayoutStep ==
  ASSUME IndInv, TypeOK', UNCHANGED <<order, posted>>, NEW m \in Merchants,
         \A n \in Merchants \ {m}, S \in SUBSET {"requested", "paid", "rejected"} :
            PaidOut(n, S)' = PaidOut(n, S),
         \A a \in Accounts \ {m, "pending", "cash_out"} : balance'[a] = balance[a],
         balance'[m] = balance[m] - (PaidOut(m, Promised)' - PaidOut(m, Promised)),
         balance'["pending"] = balance["pending"] + (PaidOut(m, {"requested"})' - PaidOut(m, {"requested"})),
         balance'["cash_out"] = balance["cash_out"] + (PaidOut(m, {"paid"})' - PaidOut(m, {"paid"}))
  PROVE  /\ \A o \in Orders : OrderInv(o)'
         /\ \A n \in Merchants : EverEarned(n)' = EverEarned(n)
         /\ LedgerFollowsEvents'
<1>0. TypeOK /\ (\A o \in Orders : OrderInv(o)) /\ LedgerFollowsEvents
  BY DEF IndInv
<1>1. \A o \in Orders : OrderInv(o)'
  BY <1>0 DEF OrderInv
<1>2. \A n \in Merchants : EverEarned(n)' = EverEarned(n)
  BY DEF EverEarned, Commission
<1>3. /\ Promised \in SUBSET {"requested", "paid", "rejected"}
      /\ {"requested"} \in SUBSET {"requested", "paid", "rejected"}
      /\ {"paid"} \in SUBSET {"requested", "paid", "rejected"}
  BY DEF Promised
<1>4. /\ PaidOutToAll({"requested"})'
           = PaidOutToAll({"requested"}) + PaidOut(m, {"requested"})' - PaidOut(m, {"requested"})
      /\ PaidOutToAll({"paid"})' = PaidOutToAll({"paid"}) + PaidOut(m, {"paid"})' - PaidOut(m, {"paid"})
  <2>1. \A n \in Merchants \ {m} : PaidOut(n, {"requested"})' = PaidOut(n, {"requested"})
    BY <1>3
  <2>2. \A n \in Merchants \ {m} : PaidOut(n, {"paid"})' = PaidOut(n, {"paid"})
    BY <1>3
  <2> QED
    BY <1>0, <1>3, <2>1, <2>2, TotalPaidOut
<1>5. /\ PaidOut(m, Promised) \in Int /\ PaidOut(m, Promised)' \in Int
      /\ PaidOut(m, {"requested"}) \in Int /\ PaidOut(m, {"requested"})' \in Int
      /\ PaidOut(m, {"paid"}) \in Int /\ PaidOut(m, {"paid"})' \in Int
      /\ PaidOutToAll({"requested"}) \in Int /\ PaidOutToAll({"paid"}) \in Int
  <2>1. PaidOutIsCount /\ PaidOutIsCount'
    BY <1>0, PaidOutCounts, PaidOutCountsAfter
  <2>2. ASSUME NEW S \in SUBSET {"requested", "paid", "rejected"}
        PROVE  /\ PaidOut(m, S) \in Int /\ PaidOut(m, S)' \in Int
               /\ PaidOutToAll(S) \in Int
    <3>1. PaidOut(m, S) \in Nat /\ PaidOutToAll(S) \in Nat
      BY <2>1 DEF PaidOutIsCount
    <3>2. PaidOut(m, S)' \in Nat
      BY <2>1 DEF PaidOutIsCount
    <3> QED
      BY <3>1, <3>2
  <2>3. PaidOut(m, Promised) \in Int /\ PaidOut(m, Promised)' \in Int
    BY <1>3, <2>2 DEF Promised
  <2> QED
    BY <1>3, <2>2, <2>3
<1>6. ASSUME NEW a \in Accounts PROVE balance'[a] = Expected(a)'
  <2> DEFINE old == Sum([o \in Orders |-> OfOrder(o, a)], Orders)
             new == Sum([o \in Orders |-> OfOrder(o, a)], Orders)'
  <2>1. new = old
    <3>1. \A o \in Orders : OfOrder(o, a)' = OfOrder(o, a)
      BY SamePart
    <3> QED
      BY <3>1
  <2>2. /\ balance[a] = old + OfPayouts(a) /\ balance[a] \in Int
        /\ Expected(a)' = new + OfPayouts(a)'
    BY <1>0 DEF LedgerFollowsEvents, Expected, TypeOK
  <2>3. OfPayouts(a) \in Int
    BY <1>0, OfPayoutsIsInt DEF PayoutPartsAreInts
  <2>4. old \in Int
    <3>1. \A o \in Orders : [q \in Orders |-> OfOrder(q, a)][o] \in Int
      BY <1>0, OfOrderIsInt DEF PartsAreInts
    <3> QED
      BY <3>1, OrdersAreFinite, SumInt
  <2>5. OfPayouts(a)' \in Int /\ balance'[a] = balance[a] + OfPayouts(a)' - OfPayouts(a)
    <3>1. CASE a = m
      <4>1. OfPayouts(a) = -PaidOut(m, Promised) /\ OfPayouts(a)' = -PaidOut(m, Promised)'
        BY <3>1, PlatformIsApart DEF OfPayouts, Shop
      <4> QED
        BY <1>5, <2>2, <3>1, <4>1
    <3>2. CASE a \in Merchants \ {m}
      <4>1. PaidOut(a, Promised)' = PaidOut(a, Promised)
        BY <1>3, <3>2
      <4>3. OfPayouts(a) = -PaidOut(a, Promised) /\ OfPayouts(a)' = -PaidOut(a, Promised)'
        BY <3>2, PlatformIsApart DEF OfPayouts, Shop
      <4>2. balance'[a] = balance[a]
        BY <3>2, AccountKinds DEF Shop
      <4> QED
        BY <2>2, <2>3, <4>1, <4>2, <4>3
    <3>3. CASE a = "pending"
      <4>1. a \notin Merchants
        BY <3>3, AccountKinds DEF Shop
      <4>2. OfPayouts(a) = PaidOutToAll({"requested"}) /\ OfPayouts(a)' = PaidOutToAll({"requested"})'
        BY <3>3, <4>1 DEF OfPayouts
      <4> QED
        BY <1>4, <1>5, <2>2, <3>3, <4>2
    <3>4. CASE a = "cash_out"
      <4>1. a \notin Merchants
        BY <3>4, AccountKinds DEF Shop
      <4>2. OfPayouts(a) = PaidOutToAll({"paid"}) /\ OfPayouts(a)' = PaidOutToAll({"paid"})'
        BY <3>4, <4>1 DEF OfPayouts
      <4> QED
        BY <1>4, <1>5, <2>2, <3>4, <4>2
    <3>5. CASE a \notin Merchants \cup {"pending", "cash_out"}
      <4>1. OfPayouts(a) = 0 /\ OfPayouts(a)' = 0
        BY <3>5 DEF OfPayouts
      <4> QED
        BY <2>2, <3>5, <4>1
    <3> QED
      BY <3>1, <3>2, <3>3, <3>4, <3>5
  <2> HIDE DEF old, new
  <2> QED
    BY <2>1, <2>2, <2>3, <2>4, <2>5
<1> QED
  BY <1>1, <1>2, <1>6 DEF LedgerFollowsEvents

\* The request that was checked moves its amount to the pending payouts.
LEMMA FinishRequestInd ==
  ASSUME IndInv, NEW q \in Requesters, FinishRequest(q)
  PROVE  IndInv'
<1>0. TypeOK /\ PayoutsWithinEarnings /\ (\A p \in Requesters : RequestInv(p)) /\ request[q] # Idle
  BY DEF IndInv, FinishRequest
<1>2. PICK m \in Merchants, x \in Amounts \cap (Nat \ {0}) : m = request[q].of /\ x = request[q].amount
  BY <1>0, RequestTyped DEF RequestInv
<1> DEFINE lines == [Lines([pending |-> x]) EXCEPT ![m] = -x]
           row == [of |-> m, amount |-> x, status |-> "requested"]
<1>1. /\ request[q] # Idle
      /\ payouts' = Append(payouts, row)
      /\ balance' = Plus(balance, lines)
      /\ request' = [request EXCEPT ![q] = Idle]
      /\ UNCHANGED <<merchantVars, order, posted>>
  BY <1>2 DEF FinishRequest
<1>3. /\ m \in Accounts /\ m \notin Shop
      /\ "pending" \in Accounts /\ "pending" # m
      /\ "cash_out" \in Accounts /\ "cash_out" # m /\ "cash_out" # "pending"
  BY <1>2, PlatformIsApart DEF Accounts, Shop
<1>4. lines[m] = -x /\ lines["pending"] = x /\ \A a \in Accounts \ {m, "pending"} : lines[a] = 0
  <2>1. DOMAIN [pending |-> x] = {"pending"}
    OBVIOUS
  <2>2. /\ Lines([pending |-> x])["pending"] = x
        /\ \A a \in Accounts \ {"pending"} : Lines([pending |-> x])[a] = 0
        /\ DOMAIN Lines([pending |-> x]) = Accounts
    BY <1>3, <2>1 DEF Lines
  <2> QED
    BY <1>3, <2>2
<1>5. request'[q] = Idle /\ \A p \in Requesters \ {q} : request'[p] = request[p]
  BY <1>0, <1>1 DEF TypeOK
<1>6. \A p \in Requesters \ {q} : request[p] # Idle => request[p].of # m
  BY <1>0, <1>1, <1>2 DEF RequestInv
<1>7. PaidOut(m, Promised) + x <= EverEarned(m)
  BY <1>0, <1>1, <1>2 DEF RequestInv
<1>8. ASSUME NEW S \in SUBSET {"requested", "paid", "rejected"}, NEW n \in Merchants
      PROVE  PaidOut(n, S)' = PaidOut(n, S) + (IF n = m /\ "requested" \in S THEN x ELSE 0)
  BY <1>0, <1>1, PayoutRequested
<1>9. row \in Payout /\ payouts' \in Seq(Payout)
  <2>1. row \in Payout
    BY <1>2 DEF Payout
  <2>2. payouts \in Seq(Payout)
    BY <1>0 DEF TypeOK, Payout
  <2> HIDE DEF row
  <2> QED
    BY <1>1, <2>1, <2>2, AppendProperties
<1> HIDE DEF lines, row
<1>10. balance' \in [Accounts -> Int] /\ \A a \in Accounts : balance'[a] = balance[a] + lines[a]
  <2>1. -x \in Int
    BY <1>2
  <2>2. \A a \in Accounts : lines[a] \in Int
    BY <1>2, <1>4, <2>1
  <2> QED
    BY <1>0, <1>1, <2>2, BalanceAdded
<1>11. TypeOK'
  BY <1>0, <1>1, <1>9, <1>10 DEF TypeOK, merchantVars, Payout
<1>12. /\ \A o \in Orders : OrderInv(o)'
       /\ \A n \in Merchants : EverEarned(n)' = EverEarned(n)
       /\ LedgerFollowsEvents'
  <2>1. ASSUME NEW n \in Merchants \ {m}, NEW S \in SUBSET {"requested", "paid", "rejected"}
        PROVE  PaidOut(n, S)' = PaidOut(n, S)
    <3>1. PaidOut(n, S) \in Nat
      BY <1>0, PaidOutCounts DEF PaidOutIsCount
    <3>2. PaidOut(n, S)' = PaidOut(n, S) + 0
      BY <1>8
    <3> QED
      BY <3>1, <3>2
  <2>2. ASSUME NEW S \in SUBSET {"requested", "paid", "rejected"} PROVE PaidOut(m, S) \in Int
    BY <1>0, <1>2, PaidOutCounts DEF PaidOutIsCount
  <2>3. \A a \in Accounts : balance[a] \in Int
    BY <1>0 DEF TypeOK
  <2>4. /\ Promised \in SUBSET {"requested", "paid", "rejected"} /\ "requested" \in Promised
        /\ {"requested"} \in SUBSET {"requested", "paid", "rejected"}
        /\ {"paid"} \in SUBSET {"requested", "paid", "rejected"} /\ "requested" \notin {"paid"}
    BY DEF Promised
  <2>5. balance'[m] = balance[m] - (PaidOut(m, Promised)' - PaidOut(m, Promised))
    <3>1. PaidOut(m, Promised)' = PaidOut(m, Promised) + x /\ PaidOut(m, Promised) \in Int
      BY <1>2, <1>8, <2>2, <2>4
    <3>2. balance'[m] = balance[m] + -x /\ balance[m] \in Int
      BY <1>3, <1>4, <1>10, <2>3
    <3> QED
      BY <1>2, <3>1, <3>2
  <2>6. balance'["pending"] = balance["pending"] + (PaidOut(m, {"requested"})' - PaidOut(m, {"requested"}))
    <3>1. PaidOut(m, {"requested"})' = PaidOut(m, {"requested"}) + x /\ PaidOut(m, {"requested"}) \in Int
      BY <1>2, <1>8, <2>2, <2>4
    <3>2. balance'["pending"] = balance["pending"] + x /\ balance["pending"] \in Int
      BY <1>3, <1>4, <1>10, <2>3
    <3> QED
      BY <1>2, <3>1, <3>2
  <2>7. balance'["cash_out"] = balance["cash_out"] + (PaidOut(m, {"paid"})' - PaidOut(m, {"paid"}))
    <3>1. PaidOut(m, {"paid"})' = PaidOut(m, {"paid"}) + 0 /\ PaidOut(m, {"paid"}) \in Int
      BY <1>2, <1>8, <2>2, <2>4
    <3>2. balance'["cash_out"] = balance["cash_out"] + 0 /\ balance["cash_out"] \in Int
      BY <1>3, <1>4, <1>10, <2>3
    <3> QED
      BY <3>1, <3>2
  <2>8. \A a \in Accounts \ {m, "pending", "cash_out"} : balance'[a] = balance[a]
    BY <1>4, <1>10, <2>3
  <2> QED
    BY <1>1, <1>2, <1>11, <2>1, <2>5, <2>6, <2>7, <2>8, PayoutStep
<1>13. ASSUME NEW n \in Merchants
       PROVE  /\ PaidOut(n, Promised) \in Int
              /\ PaidOut(n, Promised)' = PaidOut(n, Promised) + (IF n = m THEN x ELSE 0)
  <2>1. Promised \in SUBSET {"requested", "paid", "rejected"} /\ "requested" \in Promised
    BY DEF Promised
  <2>2. PaidOut(n, Promised) \in Int
    BY <1>0, PromisedCounts
  <2> QED
    BY <1>8, <2>1, <2>2
<1>14. ASSUME NEW n \in Merchants PROVE PaidOut(n, Promised)' <= EverEarned(n)'
  <2>1. EverEarned(n)' = EverEarned(n)
    BY <1>12
  <2>2. CASE n = m
    BY <1>7, <1>13, <2>1, <2>2
  <2>3. CASE n # m
    BY <1>0, <1>13, <2>1, <2>3 DEF PayoutsWithinEarnings
  <2> QED
    BY <2>2, <2>3
<1>15. ASSUME NEW p \in Requesters PROVE RequestInv(p)'
  <2>1. CASE p # q /\ request[p] # Idle
    <3>1. request'[p] = request[p] /\ RequestInv(p) /\ request[p].of \in Merchants /\ request[p].of # m
      BY <1>0, <1>5, <1>6, <2>1, RequestTyped
    <3>2. \A n \in Requesters \ {p} : request'[n] # Idle => request'[n].of # request'[p].of
      BY <1>5, <2>1, <3>1 DEF RequestInv
    <3>3. PaidOut(request[p].of, Promised)' = PaidOut(request[p].of, Promised)
      BY <1>13, <3>1
    <3>4. EverEarned(request[p].of)' = EverEarned(request[p].of)
      BY <1>12, <3>1
    <3>5. PaidOut(request[p].of, Promised)' + request[p].amount <= EverEarned(request[p].of)'
      BY <2>1, <3>1, <3>3, <3>4 DEF RequestInv
    <3> QED
      BY <2>1, <3>1, <3>2, <3>5 DEF RequestInv
  <2>2. CASE p = q \/ request[p] = Idle
    <3>1. request'[p] = Idle
      BY <1>5, <2>2
    <3> QED
      BY <3>1 DEF RequestInv
  <2> QED
    BY <2>1, <2>2
<1> QED
  BY <1>11, <1>12, <1>14, <1>15 DEF IndInv, PayoutsWithinEarnings

\* A settlement moves the amount out of the pending payouts, once.
LEMMA SettlePayoutInd ==
  ASSUME IndInv, NEW i \in DOMAIN payouts, NEW to \in {"paid", "rejected"}, SettlePayout(i, to)
  PROVE  IndInv'
<1>0. TypeOK /\ PayoutsWithinEarnings /\ \A p \in Requesters : RequestInv(p)
  BY DEF IndInv
<1>2. PICK m \in Merchants, x \in Nat : m = payouts[i].of /\ x = payouts[i].amount
  BY <1>0, PayoutTyped
<1> DEFINE lines == IF to = "paid" THEN Lines([pending |-> -x, cash_out |-> x])
                    ELSE [Lines([pending |-> -x]) EXCEPT ![m] = x]
<1>1. /\ Open(i)
      /\ payouts' = [payouts EXCEPT ![i].status = to]
      /\ balance' = Plus(balance, lines)
      /\ UNCHANGED <<merchantVars, order, posted, request>>
  BY <1>2 DEF SettlePayout
<1>3. /\ m \in Accounts /\ m \notin Shop
      /\ "pending" \in Accounts /\ "pending" # m
      /\ "cash_out" \in Accounts /\ "cash_out" # m /\ "cash_out" # "pending"
  BY <1>2, PlatformIsApart DEF Accounts, Shop
<1>4. /\ lines["pending"] = -x
      /\ lines["cash_out"] = IF to = "paid" THEN x ELSE 0
      /\ lines[m] = IF to = "paid" THEN 0 ELSE x
      /\ \A a \in Accounts \ {m, "pending", "cash_out"} : lines[a] = 0
  <2>1. CASE to = "paid"
    <3>1. DOMAIN [pending |-> -x, cash_out |-> x] = {"pending", "cash_out"}
      OBVIOUS
    <3> QED
      BY <1>3, <2>1, <3>1 DEF Lines
  <2>2. CASE to = "rejected"
    <3>1. DOMAIN [pending |-> -x] = {"pending"}
      OBVIOUS
    <3>2. /\ Lines([pending |-> -x])["pending"] = -x
          /\ \A a \in Accounts \ {"pending"} : Lines([pending |-> -x])[a] = 0
          /\ DOMAIN Lines([pending |-> -x]) = Accounts
      BY <1>3, <3>1 DEF Lines
    <3> QED
      BY <1>3, <2>2, <3>2
  <2> QED
    BY <2>1, <2>2
<1>5. ASSUME NEW S \in SUBSET {"requested", "paid", "rejected"}, NEW n \in Merchants
      PROVE  PaidOut(n, S)' = PaidOut(n, S) + (IF n = m /\ to \in S THEN x ELSE 0)
                                            - (IF n = m /\ "requested" \in S THEN x ELSE 0)
  <2>1. Open(i) /\ payouts' = [payouts EXCEPT ![i].status = to]
    BY <1>1
  <2>2. PaidOut(n, S)' = PaidOut(n, S)
             + (IF n = payouts[i].of /\ to \in S THEN payouts[i].amount ELSE 0)
             - (IF n = payouts[i].of /\ "requested" \in S THEN payouts[i].amount ELSE 0)
    <3> HIDE DEF lines
    <3>1. payouts[i] \in Payout
      BY <1>0, PayoutTyped
    <3>2. DOMAIN payouts' = DOMAIN payouts /\ \A j \in DOMAIN payouts \ {i} : payouts'[j] = payouts[j]
      BY <2>1
    <3>3. payouts'[i].of = payouts[i].of /\ payouts'[i].amount = payouts[i].amount /\ payouts'[i].status = to
      BY <2>1, <3>1 DEF Payout
    <3> QED
      BY <1>0, <2>1, <3>2, <3>3, PayoutSettled
  <2> QED
    BY <1>2, <2>2
<1>6. payouts' \in Seq(Payout)
  <2> DEFINE row == [payouts[i] EXCEPT !.status = to]
  <2>1. row \in Payout
    BY <1>0, PayoutTyped DEF Payout
  <2>2. payouts \in Seq(Payout)
    BY <1>0 DEF TypeOK, Payout
  <2>3. payouts' = [payouts EXCEPT ![i] = row]
    BY <1>1
  <2> HIDE DEF row
  <2> QED
    BY <2>1, <2>2, <2>3, ExceptSeq
<1> HIDE DEF lines
<1>7. balance' \in [Accounts -> Int] /\ \A a \in Accounts : balance'[a] = balance[a] + lines[a]
  <2>1. -x \in Int /\ x \in Int
    BY <1>2
  <2>2. \A a \in Accounts : lines[a] \in Int
    BY <1>4, <2>1
  <2> QED
    BY <1>0, <1>1, <2>2, BalanceAdded
<1>8. TypeOK'
  BY <1>0, <1>1, <1>6, <1>7 DEF TypeOK, merchantVars, Payout
<1>10. ASSUME NEW n \in Merchants, NEW S \in SUBSET {"requested", "paid", "rejected"}
       PROVE  PaidOut(n, S) \in Int
  BY <1>0, PaidOutCounts DEF PaidOutIsCount
<1>11. /\ Promised \in SUBSET {"requested", "paid", "rejected"} /\ "requested" \in Promised
       /\ "paid" \in Promised /\ "rejected" \notin Promised
       /\ {"requested"} \in SUBSET {"requested", "paid", "rejected"}
       /\ {"paid"} \in SUBSET {"requested", "paid", "rejected"}
  BY DEF Promised
<1>12. /\ \A o \in Orders : OrderInv(o)'
       /\ \A n \in Merchants : EverEarned(n)' = EverEarned(n)
       /\ LedgerFollowsEvents'
  <2>1. ASSUME NEW n \in Merchants \ {m}, NEW S \in SUBSET {"requested", "paid", "rejected"}
        PROVE  PaidOut(n, S)' = PaidOut(n, S)
    <3>1. PaidOut(n, S)' = PaidOut(n, S) + 0 - 0
      BY <1>5
    <3> QED
      BY <1>10, <3>1
  <2>3. \A a \in Accounts : balance[a] \in Int
    BY <1>0 DEF TypeOK
  <2>5. balance'[m] = balance[m] - (PaidOut(m, Promised)' - PaidOut(m, Promised))
    <3>1. PaidOut(m, Promised)' = PaidOut(m, Promised) + (IF to = "paid" THEN x ELSE 0) - x
      BY <1>5, <1>11
    <3>2. balance'[m] = balance[m] + (IF to = "paid" THEN 0 ELSE x) /\ balance[m] \in Int
      BY <1>3, <1>4, <1>7, <2>3
    <3>3. PaidOut(m, Promised) \in Int
      BY <1>10, <1>11
    <3> QED
      BY <3>1, <3>2, <3>3
  <2>6. balance'["pending"] = balance["pending"] + (PaidOut(m, {"requested"})' - PaidOut(m, {"requested"}))
    <3>1. PaidOut(m, {"requested"})' = PaidOut(m, {"requested"}) + 0 - x
      BY <1>5, <1>11
    <3>2. balance'["pending"] = balance["pending"] + -x /\ balance["pending"] \in Int
      BY <1>3, <1>4, <1>7, <2>3
    <3>3. PaidOut(m, {"requested"}) \in Int
      BY <1>10, <1>11
    <3> QED
      BY <3>1, <3>2, <3>3
  <2>7. balance'["cash_out"] = balance["cash_out"] + (PaidOut(m, {"paid"})' - PaidOut(m, {"paid"}))
    <3>1. PaidOut(m, {"paid"})' = PaidOut(m, {"paid"}) + (IF to = "paid" THEN x ELSE 0) - 0
      BY <1>5, <1>11
    <3>2. balance'["cash_out"] = balance["cash_out"] + (IF to = "paid" THEN x ELSE 0) /\ balance["cash_out"] \in Int
      BY <1>3, <1>4, <1>7, <2>3
    <3>3. PaidOut(m, {"paid"}) \in Int
      BY <1>10, <1>11
    <3> QED
      BY <3>1, <3>2, <3>3
  <2>8. \A a \in Accounts \ {m, "pending", "cash_out"} : balance'[a] = balance[a]
    BY <1>4, <1>7, <2>3
  <2> QED
    BY <1>1, <1>8, <2>1, <2>5, <2>6, <2>7, <2>8, PayoutStep
<1>13. ASSUME NEW n \in Merchants
       PROVE  /\ PaidOut(n, Promised) \in Int /\ PaidOut(n, Promised)' \in Int
              /\ PaidOut(n, Promised)' <= PaidOut(n, Promised)
              /\ EverEarned(n) \in Int /\ EverEarned(n)' = EverEarned(n)
  <2>1. PaidOut(n, Promised)' = PaidOut(n, Promised) + (IF n = m /\ to \in Promised THEN x ELSE 0)
                                                     - (IF n = m THEN x ELSE 0)
    BY <1>5, <1>11
  <2>2. PaidOut(n, Promised) \in Int
    BY <1>10, <1>11
  <2>3. EverEarned(n) \in Int /\ EverEarned(n)' = EverEarned(n)
    BY <1>0, <1>12, EarnedCovers
  <2> QED
    BY <1>2, <2>1, <2>2, <2>3
<1>14. ASSUME NEW n \in Merchants PROVE PaidOut(n, Promised)' <= EverEarned(n)'
  <2>1. PaidOut(n, Promised) <= EverEarned(n)
    BY <1>0 DEF PayoutsWithinEarnings
  <2> QED
    BY <1>13, <2>1
<1>15. ASSUME NEW p \in Requesters PROVE RequestInv(p)'
  <2>1. RequestInv(p) /\ request'[p] = request[p] /\ \A n \in Requesters : request'[n] = request[n]
    BY <1>0, <1>1
  <2>2. CASE request[p] # Idle
    <3> DEFINE n == request[p].of
    <3>1. n \in Merchants /\ request[p].amount \in Int
      BY <1>0, <2>2, RequestTyped
    <3>2. PaidOut(n, Promised) + request[p].amount <= EverEarned(n)
      BY <2>1, <2>2 DEF RequestInv
    <3>3. PICK y \in Merchants : y = n
      BY <3>1
    <3>4. PaidOut(y, Promised)' + request[p].amount <= EverEarned(y)'
      BY <1>13, <3>1, <3>2, <3>3
    <3> HIDE DEF n
    <3>5. PaidOut(request[p].of, Promised)' + request'[p].amount <= EverEarned(request[p].of)'
      BY <2>1, <3>3, <3>4 DEF n
    <3> QED
      BY <2>1, <2>2, <3>5 DEF RequestInv
  <2>3. CASE request[p] = Idle
    BY <2>1, <2>3 DEF RequestInv
  <2> QED
    BY <2>2, <2>3
<1> QED
  BY <1>8, <1>12, <1>14, <1>15 DEF IndInv, PayoutsWithinEarnings

LEMMA StutterInd ==
  ASSUME IndInv, UNCHANGED vars
  PROVE  IndInv'
<1>1. UNCHANGED <<seller, promo, draft, order, posted, balance, payouts, request>>
  BY DEF vars, merchantVars, ledgerVars
<1>2. TypeOK
  BY DEF IndInv
<1>3. TypeOK'
  BY <1>1, <1>2 DEF TypeOK
<1> QED
  BY <1>1, <1>3, MerchantStep

LEMMA NextInd == IndInv /\ [Next]_vars => IndInv'
<1> SUFFICES ASSUME IndInv, [Next]_vars PROVE IndInv'
  OBVIOUS
<1>1. ASSUME NEW m \in Merchants, ApplyForMerchant(m) PROVE IndInv'
  BY <1>1, ApplyForMerchantInd
<1>2. ASSUME NEW m \in Merchants, DeleteMerchant(m) PROVE IndInv'
  BY <1>2, DeleteMerchantInd
<1>3. ASSUME NEW m \in Merchants, NEW s \in {"approved", "rejected"}, SetMerchantStatus(m, s) PROVE IndInv'
  BY <1>3, SetMerchantStatusInd
<1>4. ASSUME NEW m \in Merchants, NEW e \in Editors, LoadMerchant(e, m) PROVE IndInv'
  BY <1>4, LoadMerchantInd
<1>5. ASSUME NEW m \in Merchants, NEW q \in Requesters, NEW x \in Amounts, StartRequest(q, m, x) PROVE IndInv'
  BY <1>5, StartRequestInd
<1>6. ASSUME NEW e \in Editors, SaveMerchant(e) PROVE IndInv'
  BY <1>6, SaveMerchantInd
<1>7. ASSUME NEW r \in Rates, SetPolicy(r) PROVE IndInv'
  BY <1>7, SetPolicyInd
<1>8. ASSUME NEW o \in Orders, Checkout(o) PROVE IndInv'
  BY <1>8, CheckoutInd
<1>9. ASSUME NEW o \in Orders, TakeMoney(o) PROVE IndInv'
  BY <1>9, TakeMoneyInd
<1>10. ASSUME NEW o \in Orders, Deliver(o) \/ Cancel(o) PROVE IndInv'
  BY <1>10, DeliverInd
<1>11. ASSUME NEW o \in Orders, OnOrderDelivered(o) PROVE IndInv'
  BY <1>11, OnOrderDeliveredInd
<1>12. ASSUME NEW o \in Orders, RefundOrder(o) PROVE IndInv'
  BY <1>12, RefundOrderInd
<1>13. ASSUME NEW q \in Requesters, FinishRequest(q) PROVE IndInv'
  BY <1>13, FinishRequestInd
<1>14. ASSUME NEW q \in Requesters, DropRequest(q) PROVE IndInv'
  BY <1>14, DropRequestInd
<1>15. ASSUME NEW i \in DOMAIN payouts, NEW to \in {"paid", "rejected"}, SettlePayout(i, to) PROVE IndInv'
  BY <1>15, SettlePayoutInd
<1>16. CASE UNCHANGED vars
  BY <1>16, StutterInd
<1> QED
  BY <1>1, <1>2, <1>3, <1>4, <1>5, <1>6, <1>7, <1>8, <1>9, <1>10, <1>11, <1>12, <1>13, <1>14, <1>15, <1>16
  DEF Next

(* Whatever the interleaving of payments, deliveries, refunds, edits of       *)
(* merchants and payout requests, the ledger stays within what the properties *)
(* rest on (OnOrderDelivered, RefundOrder and RequestPayout of                *)
(* billing_service.go).                                                       *)
THEOREM Inductive == Spec => []IndInv
<1>1. Init => IndInv
  BY InitInd
<1>2. IndInv /\ [Next]_vars => IndInv'
  BY NextInd
<1> QED
  BY <1>1, <1>2, PTL DEF Spec

-----------------------------------------------------------------------------
(* Theorems *)

\* Rows, journals, balances and payouts keep their types: a payout is of a
\* positive amount (RequestPayout refuses any other), a balance is a number.
THEOREM TypeCorrect == Spec => []TypeOK
<1>1. IndInv => TypeOK
  BY DEF IndInv
<1> QED
  BY <1>1, Inductive, PTL

\* Every account of the ledger is the sum of what the orders and the payouts
\* say: nothing is booked twice, in part, or at another rate than was agreed.
THEOREM LedgerFollowsEventsHolds == Spec => []LedgerFollowsEvents
<1>1. IndInv => LedgerFollowsEvents
  BY DEF IndInv
<1> QED
  BY <1>1, Inductive, PTL

\* RequestPayout, under its lock, never promises a merchant more than was ever
\* earned for him, however many requests, refunds and settlements interleave.
THEOREM PayoutsWithinEarningsHolds == Spec => []PayoutsWithinEarnings
<1>1. IndInv => PayoutsWithinEarnings
  BY DEF IndInv
<1> QED
  BY <1>1, Inductive, PTL

\* OnOrderDelivered books the payment before it releases it, so that escrow
\* holds at least nothing: each order's part of it is not negative.
THEOREM EscrowIsCoveredHolds == Spec => []EscrowIsCovered
<1>1. IndInv => EscrowIsCovered
  <2> SUFFICES ASSUME IndInv PROVE EscrowIsCovered
    OBVIOUS
  <2>1. TypeOK /\ LedgerFollowsEvents /\ \A o \in Orders : OrderInv(o)
    BY DEF IndInv
  <2>2. ASSUME NEW o \in Orders PROVE OfOrder(o, "escrow") \in Nat
    <3>1. Goods(o) \in Nat /\ Total(o) \in Nat /\ Goods(o) <= Total(o)
      BY OrderAmounts
    <3>2. OfOrder(o, "escrow") = (IF Stands("order_payment", o) THEN Total(o) ELSE 0)
              - (IF Stands("order_release", o) /\ Method[o] = "bkash" THEN Goods(o) ELSE 0)
      BY PartsAre DEF AllParts, PartsByAccount
    <3>3. Stands("order_release", o) /\ Method[o] = "bkash" => Stands("order_payment", o)
      BY <2>1 DEF OrderInv, Stands
    <3> QED
      BY <3>1, <3>2, <3>3
  <2> DEFINE f == [o \in Orders |-> OfOrder(o, "escrow")]
  <2>3. \A o \in Orders : f[o] \in Nat
    BY <2>2
  <2> HIDE DEF f
  <2>4. Sum(f, Orders) \in Nat
    BY <2>3, OrdersAreFinite, SumNonNegative
  <2>5. "escrow" \in Accounts /\ "escrow" \notin Merchants
    BY PlatformIsApart DEF Accounts, Shop
  <2>6. OfPayouts("escrow") = 0
    BY <2>5 DEF OfPayouts
  <2>7. balance["escrow"] = Sum(f, Orders) + OfPayouts("escrow")
    BY <2>1, <2>5 DEF LedgerFollowsEvents, Expected, f
  <2> QED
    BY <2>4, <2>6, <2>7 DEF EscrowIsCovered
<1> QED
  BY <1>1, Inductive, PTL

-----------------------------------------------------------------------------
(* What the market shows: ratings and wishlists *)

CatalogConstants ==
    /\ IsFiniteSet(Users) /\ IsFiniteSet(Products) /\ IsFiniteSet(Stars) /\ Stars \subseteq Nat
    /\ MerchantOf \in [Products -> Merchants] /\ Products \cap Merchants = {}
    /\ None \notin Market!Review /\ None \notin Market!Product

LEMMA MarketSums ==
  ASSUME NEW f, NEW S
  PROVE  Market!Sum(f, S) = Sum(f, S) /\ Market!Cardinality(S) = Cardinality(S)
<1>1. Market!Sum(f, S) = Sum(f, S)
  BY DEF Market!Sum, Market!MapThenSumSet, Market!MapThenFoldSet, Sum, MapThenSumSet, MapThenFoldSet
<1>2. Market!Cardinality(S) = Cardinality(S)
  BY DEF Market!Cardinality, Cardinality
<1> QED
  BY <1>1, <1>2

\* The stars a table shows of a product, and how many.
StarsOf(a, p) == Sum([u \in Market!Shown(a, p) |-> a[p][u].stars], Market!Shown(a, p))
ReviewsOf(a, p) == Cardinality(Market!Shown(a, p))

LEMMA AverageIs ==
  ASSUME NEW a, NEW ps
  PROVE  Market!Average(a, ps) = [sum |-> Sum([p \in ps |-> StarsOf(a, p)], ps), count |-> Sum([p \in ps |-> ReviewsOf(a, p)], ps)]
<1>1. \A p : Market!Sum([u \in Market!Shown(a, p) |-> a[p][u].stars], Market!Shown(a, p)) = StarsOf(a, p)
  BY MarketSums DEF StarsOf
<1>2. \A p : Market!Cardinality(Market!Shown(a, p)) = ReviewsOf(a, p)
  BY MarketSums DEF ReviewsOf
<1>3. Market!Average(a, ps) = [sum |-> Market!Sum([p \in ps |-> StarsOf(a, p)], ps), count |-> Market!Sum([p \in ps |-> ReviewsOf(a, p)], ps)]
  <2>1. /\ [p \in ps |-> Market!Sum([u \in Market!Shown(a, p) |-> a[p][u].stars], Market!Shown(a, p))] = [p \in ps |-> StarsOf(a, p)]
        /\ [p \in ps |-> Market!Cardinality(Market!Shown(a, p))] = [p \in ps |-> ReviewsOf(a, p)]
    BY <1>1, <1>2
  <2> QED
    BY <2>1, Zenon DEF Market!Average
<1> QED
  BY <1>3, MarketSums

ProductsOf(m) == {p \in Products : MerchantOf[p] = m}

\* The reviews of a product that two tables show are the same.
SameShown(a, b, p) ==
    \A u \in Users : /\ a[p][u] = None <=> b[p][u] = None
                     /\ a[p][u] # None => a[p][u].stars = b[p][u].stars /\ a[p][u].hidden = b[p][u].hidden

LEMMA AverageSame ==
  ASSUME NEW a, NEW b, NEW ps, \A p \in ps : SameShown(a, b, p)
  PROVE  Market!Average(a, ps) = Market!Average(b, ps)
<1>1. \A p \in ps : Market!Shown(a, p) = Market!Shown(b, p)
  BY DEF SameShown, Market!Shown
<1>2. \A p \in ps : [u \in Market!Shown(a, p) |-> a[p][u].stars] = [u \in Market!Shown(b, p) |-> b[p][u].stars]
  BY <1>1 DEF SameShown, Market!Shown
<1> QED
  BY <1>1, <1>2 DEF Market!Average

LEMMA AverageTyped ==
  ASSUME CatalogConstants, NEW a \in [Products -> [Users -> Market!Review \cup {None}]], NEW ps \in SUBSET Products
  PROVE  Market!Average(a, ps) \in Market!Rating
<1>1. IsFiniteSet(ps) /\ \A p \in Products : IsFiniteSet(Market!Shown(a, p))
  BY FS_Subset DEF CatalogConstants, Market!Shown
<1>2. \A p \in Products, u \in Users : a[p][u] # None => a[p][u].stars \in Nat
  <2>1. Stars \subseteq Nat
    BY DEF CatalogConstants
  <2>2. \A p \in Products, u \in Users : a[p][u] \in Market!Review \cup {None}
    OBVIOUS
  <2> QED
    BY <2>1, <2>2 DEF Market!Review
<1>3. \A p \in Products : StarsOf(a, p) \in Nat
  <2> TAKE p \in Products
  <2> DEFINE S == Market!Shown(a, p)
             f == [u \in S |-> a[p][u].stars]
  <2>1. \A u \in S : f[u] \in Nat
    BY <1>2 DEF Market!Shown
  <2> HIDE DEF f, S
  <2>2. Sum(f, S) \in Nat
    BY <1>1, <2>1, SumNonNegative DEF S
  <2> QED
    BY <2>2 DEF f, S, StarsOf
<1>4. \A p \in Products : ReviewsOf(a, p) \in Nat
  BY <1>1, FS_CardinalityType DEF ReviewsOf
<1>5. Sum([p \in ps |-> StarsOf(a, p)], ps) \in Nat
  BY <1>1, <1>3, SumNonNegative
<1>6. Sum([p \in ps |-> ReviewsOf(a, p)], ps) \in Nat
  BY <1>1, <1>4, SumNonNegative
<1> QED
  BY <1>5, <1>6, AverageIs DEF Market!Rating

\* The average of one product.
LEMMA AverageOfOne ==
  ASSUME CatalogConstants, NEW a \in [Products -> [Users -> Market!Review \cup {None}]], NEW p \in Products
  PROVE  Market!Average(a, {p}) = [sum |-> StarsOf(a, p), count |-> ReviewsOf(a, p)]
<1> DEFINE g == [q \in {p} |-> StarsOf(a, q)]
           h == [q \in {p} |-> ReviewsOf(a, q)]
<1>1. Market!Average(a, {p}) = [sum |-> Sum(g, {p}), count |-> Sum(h, {p})]
  BY AverageIs
<1>2. StarsOf(a, p) \in Nat /\ ReviewsOf(a, p) \in Nat
  <2>1. [sum |-> StarsOf(a, p), count |-> ReviewsOf(a, p)] \in Market!Rating
    <3> DEFINE S == Market!Shown(a, p)
               f == [u \in S |-> a[p][u].stars]
    <3>1. IsFiniteSet(S)
      BY FS_Subset DEF CatalogConstants, Market!Shown
    <3>2. \A u \in S : f[u] \in Nat
      BY DEF CatalogConstants, Market!Review, Market!Shown
    <3> HIDE DEF f, S
    <3>3. Sum(f, S) \in Nat /\ Cardinality(S) \in Nat
      BY <3>1, <3>2, SumNonNegative, FS_CardinalityType
    <3> QED
      BY <3>3 DEF f, S, StarsOf, ReviewsOf, Market!Rating
  <2> QED
    BY <2>1 DEF Market!Rating
<1>3. g[p] = StarsOf(a, p) /\ h[p] = ReviewsOf(a, p) /\ \A x \in {p} : g[x] \in Int /\ h[x] \in Int
  BY <1>2
<1> HIDE DEF g, h
<1>4. IsFiniteSet({p}) /\ {p} \ {p} = {}
  BY FS_Singleton
<1>5. Sum(g, {p}) = g[p] + Sum(g, {p} \ {p}) /\ Sum(h, {p}) = h[p] + Sum(h, {p} \ {p})
  BY <1>3, <1>4, SumRemove
<1>6. Sum(g, {p}) = g[p] + 0 /\ Sum(h, {p}) = h[p] + 0
  BY <1>4, <1>5, SumEmpty
<1>7. Sum(g, {p}) = StarsOf(a, p) /\ Sum(h, {p}) = ReviewsOf(a, p)
  BY <1>2, <1>3, <1>6
<1> QED
  BY <1>1, <1>7

\* The page of a product groups by stars what an average adds up.
LEMMA PageIsAverage ==
  ASSUME CatalogConstants, review \in [Products -> [Users -> Market!Review \cup {None}]], NEW p \in Products
  PROVE  Market!ListForProduct(p) = Market!Average(review, {p})
<1> DEFINE S == Market!Shown(review, p)
           f == [u \in S |-> review[p][u].stars]
           one == [s \in Stars |-> 1]
           same == [s \in Stars |-> s]
           of(s) == {u \in Users : review[p][u] # None /\ ~review[p][u].hidden /\ review[p][u].stars = s}
<1>1. IsFiniteSet(S) /\ IsFiniteSet(Stars) /\ Stars \subseteq Nat
  BY FS_Subset DEF CatalogConstants, Market!Shown
<1>2. \A u \in S : f[u] \in Stars
  BY DEF CatalogConstants, Market!Review, Market!Shown
<1>3. \A s \in Stars : of(s) = OfClass(S, f, s)
  BY DEF OfClass, Market!Shown
<1>4. \A s \in Stars : Cardinality(of(s)) \in Nat
  <2>1. \A s \in Stars : IsFiniteSet(of(s))
    BY FS_Subset DEF CatalogConstants
  <2> QED
    BY <2>1, FS_CardinalityType
<1>5. /\ [s \in Stars |-> s * Market!Cardinality(of(s))] = [s \in Stars |-> same[s] * Cardinality(OfClass(S, f, s))]
      /\ [s \in Stars |-> Market!Cardinality(of(s))] = [s \in Stars |-> one[s] * Cardinality(OfClass(S, f, s))]
  <2>1. \A s \in Stars : /\ s * Market!Cardinality(of(s)) = same[s] * Cardinality(OfClass(S, f, s))
                          /\ Market!Cardinality(of(s)) = one[s] * Cardinality(OfClass(S, f, s))
    <3> TAKE s \in Stars
    <3>1. Market!Cardinality(of(s)) = Cardinality(OfClass(S, f, s)) /\ Cardinality(OfClass(S, f, s)) \in Nat
      BY <1>3, <1>4, MarketSums
    <3>2. same[s] = s /\ one[s] = 1
      OBVIOUS
    <3> HIDE DEF of, same, one, S, f
    <3> QED
      BY <3>1, <3>2
  <2> HIDE DEF of, same, one, S, f
  <2> QED
    BY <2>1
<1>6. \A u \in S : [x \in S |-> same[f[x]]][u] = f[u] /\ [x \in S |-> one[f[x]]][u] = 1
  BY <1>2
<1>7. /\ \A s \in Stars : same[s] \in Int /\ one[s] \in Int
      /\ Market!ListForProduct(p) = [sum |-> Sum([s \in Stars |-> s * Market!Cardinality(of(s))], Stars),
                                   count |-> Sum([s \in Stars |-> Market!Cardinality(of(s))], Stars)]
  <2>1. Market!ListForProduct(p) = [sum |-> Market!Sum([s \in Stars |-> s * Market!Cardinality(of(s))], Stars),
                                  count |-> Market!Sum([s \in Stars |-> Market!Cardinality(of(s))], Stars)]
    BY Zenon DEF Market!ListForProduct
  <2>2. \A s \in Stars : same[s] \in Int /\ one[s] \in Int
    BY <1>1
  <2> QED
    BY <2>1, <2>2, MarketSums
<1> HIDE DEF S, f, one, same, of
<1>8. Sum([s \in Stars |-> same[s] * Cardinality(OfClass(S, f, s))], Stars) = Sum(f, S)
  <2>1. Sum([s \in Stars |-> same[s] * Cardinality(OfClass(S, f, s))], Stars) = Sum([x \in S |-> same[f[x]]], S)
    BY <1>1, <1>2, <1>7, SumByClass
  <2>2. Sum([x \in S |-> same[f[x]]], S) = Sum(f, S)
    BY <1>1, <1>6, SumSame
  <2> QED
    BY <2>1, <2>2
<1>9. Sum([s \in Stars |-> one[s] * Cardinality(OfClass(S, f, s))], Stars) = Cardinality(S)
  <2>1. Sum([s \in Stars |-> one[s] * Cardinality(OfClass(S, f, s))], Stars) = Sum([x \in S |-> one[f[x]]], S)
    BY <1>1, <1>2, <1>7, SumByClass
  <2>2. Sum([x \in S |-> one[f[x]]], S) = Cardinality(S)
    BY <1>1, <1>6, SumOnes
  <2> QED
    BY <2>1, <2>2
<1>10. StarsOf(review, p) = Sum(f, S) /\ ReviewsOf(review, p) = Cardinality(S)
  BY DEF f, S, StarsOf, ReviewsOf
<1> QED
  BY <1>5, <1>7, <1>8, <1>9, <1>10, AverageOfOne

\* The feed of a merchant is as long as its products' reviews are many.
LEMMA FeedIsCounted ==
  ASSUME CatalogConstants, review \in [Products -> [Users -> Market!Review \cup {None}]], NEW m
  PROVE  Sum([p \in ProductsOf(m) |-> ReviewsOf(review, p)], ProductsOf(m)) = Market!Cardinality(Market!ListForMerchant(m))
<1> DEFINE S == Market!ListForMerchant(m)
           T == ProductsOf(m)
           f == [x \in S |-> x[2]]
           one == [p \in T |-> 1]
<1>1. S = {x \in Users \X Products : x[2] \in T /\ review[x[2]][x[1]] # None /\ ~review[x[2]][x[1]].hidden}
  <2>1. \A x \in Users \X Products : review[x[2]][x[1]] # None => review[x[2]][x[1]].hidden \in BOOLEAN
    BY DEF Market!Review
  <2> QED
    BY <2>1 DEF Market!ListForMerchant, Market!ListAll, ProductsOf
<1>2. IsFiniteSet(S) /\ IsFiniteSet(T)
  <2>1. IsFiniteSet(Users \X Products) /\ T \in SUBSET Products
    BY FS_Product DEF CatalogConstants, ProductsOf
  <2>2. S \in SUBSET (Users \X Products)
    BY <1>1
  <2> HIDE DEF S, T
  <2> QED
    BY <2>1, <2>2, FS_Subset DEF CatalogConstants
<1>3. \A x \in S : f[x] \in T /\ f[x] = x[2]
  BY <1>1
<1>4. ASSUME NEW p \in T
      PROVE  Cardinality(OfClass(S, f, p)) = ReviewsOf(review, p)
  <2> DEFINE A == Market!Shown(review, p)
             B == OfClass(S, f, p)
             pair == [u \in A |-> <<u, p>>]
  <2>1. B = {x \in Users \X Products : x[2] = p /\ review[x[2]][x[1]] # None /\ ~review[x[2]][x[1]].hidden}
    BY <1>1, <1>3 DEF OfClass
  <2>2. \A u \in A : pair[u] \in B
    BY <2>1 DEF Market!Shown, ProductsOf
  <2>3. \A x \in B : x[1] \in A /\ pair[x[1]] = x
    BY <2>1 DEF Market!Shown
  <2>4. \A u, v \in A : pair[u] = pair[v] => u = v
    OBVIOUS
  <2>5. pair \in Bijection(A, B)
    BY <2>2, <2>3, <2>4 DEF Bijection, Injection, Surjection, IsInjective
  <2>6. IsFiniteSet(A)
    BY FS_Subset DEF CatalogConstants, Market!Shown
  <2> HIDE DEF A, B, pair
  <2>7. Cardinality(B) = Cardinality(A)
    BY <2>5, <2>6, FS_Bijection DEF ExistsBijection
  <2> QED
    BY <2>7 DEF A, B, ReviewsOf
<1>5. \A p \in T : one[p] = 1 /\ Cardinality(OfClass(S, f, p)) \in Nat
  <2>1. \A p \in T : OfClass(S, f, p) \in SUBSET S
    BY DEF OfClass
  <2> HIDE DEF S, f
  <2> QED
    BY <1>2, <2>1, FS_Subset, FS_CardinalityType
<1> HIDE DEF S, T, f, one
<1>6. Sum([p \in T |-> one[p] * Cardinality(OfClass(S, f, p))], T) = Sum([x \in S |-> one[f[x]]], S)
  BY <1>2, <1>3, <1>5, SumByClass
<1>7. [p \in T |-> one[p] * Cardinality(OfClass(S, f, p))] = [p \in T |-> ReviewsOf(review, p)]
  BY <1>4, <1>5
<1>8. Sum([x \in S |-> one[f[x]]], S) = Cardinality(S)
  <2>1. \A x \in S : [y \in S |-> one[f[y]]][x] = 1
    BY <1>3, <1>5
  <2> QED
    BY <1>2, <2>1, SumOnes
<1> QED
  BY <1>6, <1>7, <1>8, MarketSums DEF S, T

ReviewTable == [Products -> [Users -> Market!Review \cup {None}]]
IsOpen(w) == transaction[w] # Market!Idle
Rightly(t, rows) ==
    /\ t.step \in {"sawProduct", "product", "sawMerchant"} => t.ofProduct = Market!Average(rows, {t.product})
    /\ t.step = "sawMerchant" => t.ofMerchant = Market!Average(rows, ProductsOf(MerchantOf[t.product]))

\* A transaction that met no other of its merchant has seen the rows it will
\* commit; and what was last written without an overlap is the average.
AloneAreAlone ==
    \A w, x \in Workers : w # x /\ IsOpen(w) /\ IsOpen(x) /\ transaction[w].alone =>
        MerchantOf[transaction[w].product] # MerchantOf[transaction[x].product]
AloneSeeAll ==
    \A w \in Workers : IsOpen(w) /\ transaction[w].alone => Rightly(transaction[w], Market!Seen(w))
RatingsHold ==
    /\ \A p \in Products \ raced : rating[p] = Market!Average(review, {p})
    /\ \A m \in Merchants \ raced : rating[m] = Market!Average(review, ProductsOf(m))
ReviewTyped ==
    /\ delivered \in [Users -> SUBSET Products]
    /\ review \in ReviewTable
    /\ rating \in [Products \cup Merchants -> Market!Rating]
    /\ raced \subseteq Products \cup Merchants
    /\ DOMAIN transaction = Workers
    /\ \A w \in Workers : IsOpen(w) =>
          /\ "alone" \in DOMAIN transaction[w]
          /\ transaction[w].step \in {"wrote", "sawProduct", "product", "sawMerchant"}
          /\ transaction[w].product \in Products /\ transaction[w].user \in Users
          /\ transaction[w].row \in Market!Review \cup {None} /\ transaction[w].alone \in BOOLEAN
          /\ transaction[w].step \in {"sawProduct", "product", "sawMerchant"} => transaction[w].ofProduct \in Market!Rating
          /\ transaction[w].step = "sawMerchant" => transaction[w].ofMerchant \in Market!Rating
ReviewInv == ReviewTyped /\ AloneAreAlone /\ AloneSeeAll /\ RatingsHold

LEMMA ReviewInvImplies ==
  ASSUME CatalogConstants, ReviewTyped, RatingsHold
  PROVE  Market!RatingsAgree
<1>1. ASSUME NEW p \in Products \ raced PROVE rating[p] = Market!ListForProduct(p)
  BY <1>1, PageIsAverage DEF ReviewTyped, RatingsHold, ReviewTable
<1>2. ASSUME NEW m \in Merchants \ raced
      PROVE  /\ rating[m].count = Market!Cardinality(Market!ListForMerchant(m))
             /\ rating[m].sum = Market!Sum([p \in Products |-> Market!ListForProduct(p).sum], {p \in Products : MerchantOf[p] = m})
  <2>1. rating[m] = [sum |-> Sum([p \in ProductsOf(m) |-> StarsOf(review, p)], ProductsOf(m)),
                     count |-> Sum([p \in ProductsOf(m) |-> ReviewsOf(review, p)], ProductsOf(m))]
    BY <1>2, AverageIs DEF RatingsHold
  <2>2. \A p \in Products : Market!ListForProduct(p).sum = StarsOf(review, p)
    <3> TAKE p \in Products
    <3>1. Market!ListForProduct(p) = Market!Average(review, {p})
      BY PageIsAverage DEF ReviewTyped, ReviewTable
    <3>2. Market!Average(review, {p}) = [sum |-> StarsOf(review, p), count |-> ReviewsOf(review, p)]
      BY AverageOfOne DEF ReviewTyped, ReviewTable
    <3> QED
      BY <3>1, <3>2
  <2> DEFINE f == [p \in ProductsOf(m) |-> StarsOf(review, p)]
             g == [p \in Products |-> Market!ListForProduct(p).sum]
  <2>3. \A p \in ProductsOf(m) : f[p] = g[p]
    BY <2>2 DEF ProductsOf
  <2>4. IsFiniteSet(ProductsOf(m))
    BY FS_Subset DEF CatalogConstants, ProductsOf
  <2>5. Market!Sum(g, ProductsOf(m)) = Sum(f, ProductsOf(m))
    <3> HIDE DEF f, g
    <3> QED
      BY <2>3, <2>4, SumSame, MarketSums
  <2>6. rating[m].sum = Market!Sum(g, ProductsOf(m))
    BY <2>1, <2>5
  <2>7. rating[m].count = Market!Cardinality(Market!ListForMerchant(m))
    BY <2>1, FeedIsCounted DEF ReviewTyped, ReviewTable
  <2> QED
    BY <2>6, <2>7 DEF ProductsOf
<1> QED
  BY <1>1, <1>2 DEF Market!RatingsAgree

SeenBy(t, rows) == [p \in Products |-> [u \in Users |-> IF t.product = p /\ t.user = u THEN t.row ELSE rows[p][u]]]

LEMMA SeenIs == \A w : Market!Seen(w) = SeenBy(transaction[w], review)
BY DEF Market!Seen, SeenBy

LEMMA SeenTyped ==
  ASSUME ReviewTyped, NEW w \in Workers, IsOpen(w)
  PROVE  SeenBy(transaction[w], review) \in ReviewTable
BY DEF ReviewTyped, ReviewTable, SeenBy

\* What w does to its own transaction leaves those of the others.
LEMMA OwnStep ==
  ASSUME CatalogConstants, ReviewInv, NEW w \in Workers, IsOpen(w), UNCHANGED <<delivered, review, rating, raced>>,
         NEW t, transaction' = [transaction EXCEPT ![w] = t],
         \/ t = Market!Idle
         \/ /\ t.step \in {"sawProduct", "product", "sawMerchant"}
            /\ t.product = transaction[w].product /\ t.user = transaction[w].user /\ t.row = transaction[w].row
            /\ t.alone = transaction[w].alone /\ "alone" \in DOMAIN t
            /\ t.ofProduct \in Market!Rating /\ (t.step = "sawMerchant" => t.ofMerchant \in Market!Rating)
            /\ t.alone => Rightly(t, Market!Seen(w))
  PROVE  ReviewInv'
<1>1. \A x \in Workers : transaction'[x] = IF x = w /\ w \in DOMAIN transaction THEN t ELSE transaction[x]
  OBVIOUS
<1>2. \A x \in Workers : IsOpen(x)' => /\ IsOpen(x) /\ transaction'[x].product = transaction[x].product
                                     /\ transaction'[x].user = transaction[x].user /\ transaction'[x].row = transaction[x].row
                                     /\ transaction'[x].alone = transaction[x].alone
  BY <1>1 DEF IsOpen
<1>3. ReviewTyped'
  BY <1>1, <1>2 DEF ReviewInv, ReviewTyped, ReviewTable, IsOpen
<1>4. AloneAreAlone'
  BY <1>2 DEF ReviewInv, AloneAreAlone
<1>5. AloneSeeAll'
  <2> SUFFICES ASSUME NEW x \in Workers, IsOpen(x)', transaction'[x].alone
               PROVE  Rightly(transaction'[x], Market!Seen(x)')
    BY DEF AloneSeeAll
  <2>1. Market!Seen(x)' = Market!Seen(x)
    <3>1. SeenBy(transaction'[x], review) = SeenBy(transaction[x], review)
      BY <1>2 DEF SeenBy
    <3> QED
      BY <3>1, SeenIs DEF Market!Seen, SeenBy
  <2>2. IsOpen(x) /\ transaction[x].alone
    BY <1>2
  <2>3. CASE transaction'[x] = transaction[x]
    BY <2>1, <2>2, <2>3 DEF ReviewInv, AloneSeeAll
  <2>4. CASE x = w /\ transaction'[x] = t
    BY <2>1, <2>4 DEF IsOpen
  <2> QED
    BY <1>1, <2>3, <2>4
<1>6. RatingsHold'
  BY DEF ReviewInv, RatingsHold
<1> QED
  BY <1>3, <1>4, <1>5, <1>6 DEF ReviewInv

LEMMA SeeProductKeeps ==
  ASSUME CatalogConstants, ReviewInv, NEW w \in Workers, Market!SeeProduct(w)
  PROVE  ReviewInv'
<1> DEFINE t == [step |-> "sawProduct", product |-> transaction[w].product, user |-> transaction[w].user,
                 row |-> transaction[w].row, alone |-> transaction[w].alone,
                 ofProduct |-> Market!Average(Market!Seen(w), {transaction[w].product})]
<1>1. IsOpen(w) /\ transaction' = [transaction EXCEPT ![w] = t] /\ UNCHANGED <<delivered, review, rating, raced>>
  BY DEF Market!SeeProduct, Market!Idle, IsOpen
<1>2. Market!Average(Market!Seen(w), {transaction[w].product}) \in Market!Rating
  BY <1>1, SeenIs, SeenTyped, AverageTyped DEF ReviewInv, ReviewTyped, ReviewTable
<1>3. /\ t.step = "sawProduct" /\ t.product = transaction[w].product /\ t.user = transaction[w].user
      /\ t.row = transaction[w].row /\ t.alone = transaction[w].alone /\ t.ofProduct \in Market!Rating /\ "alone" \in DOMAIN t
      /\ t.ofProduct = Market!Average(Market!Seen(w), {transaction[w].product})
  BY <1>2
<1> HIDE DEF t
<1> QED
  BY <1>1, <1>3, OwnStep DEF Rightly

LEMMA UpdateProductKeeps ==
  ASSUME CatalogConstants, ReviewInv, NEW w \in Workers, Market!UpdateProductRating(w)
  PROVE  ReviewInv'
<1> DEFINE t == [transaction[w] EXCEPT !.step = "product"]
<1>1. IsOpen(w) /\ transaction' = [transaction EXCEPT ![w] = t] /\ UNCHANGED <<delivered, review, rating, raced>>
      /\ transaction[w].step = "sawProduct"
  BY DEF Market!UpdateProductRating, Market!Idle, IsOpen
<1>2. t.step = "product" \/ t.step = "sawProduct"
  OBVIOUS
<1>3. /\ t.product = transaction[w].product /\ t.user = transaction[w].user
      /\ t.row = transaction[w].row /\ t.alone = transaction[w].alone /\ t.ofProduct = transaction[w].ofProduct
  OBVIOUS
<1>4. t.ofProduct \in Market!Rating /\ "alone" \in DOMAIN t
  BY <1>1, <1>3 DEF ReviewInv, ReviewTyped
<1>5. t.alone => Rightly(t, Market!Seen(w))
  BY <1>1, <1>2, <1>3 DEF ReviewInv, AloneSeeAll, Rightly
<1> HIDE DEF t
<1> QED
  BY <1>1, <1>2, <1>3, <1>4, <1>5, OwnStep

LEMMA SeeMerchantKeeps ==
  ASSUME CatalogConstants, ReviewInv, NEW w \in Workers, Market!SeeMerchant(w)
  PROVE  ReviewInv'
<1> DEFINE m == MerchantOf[transaction[w].product]
           t == [step |-> "sawMerchant", product |-> transaction[w].product, user |-> transaction[w].user,
                 row |-> transaction[w].row, alone |-> transaction[w].alone, ofProduct |-> transaction[w].ofProduct,
                 ofMerchant |-> Market!Average(Market!Seen(w), ProductsOf(m))]
<1>1. IsOpen(w) /\ transaction' = [transaction EXCEPT ![w] = t] /\ UNCHANGED <<delivered, review, rating, raced>>
      /\ transaction[w].step = "product"
  BY DEF Market!SeeMerchant, Market!Idle, IsOpen, ProductsOf
<1>2. Market!Average(Market!Seen(w), ProductsOf(m)) \in Market!Rating
  BY <1>1, SeenIs, SeenTyped, AverageTyped DEF ReviewInv, ReviewTyped, ReviewTable, ProductsOf
<1>3. /\ t.step = "sawMerchant" /\ t.product = transaction[w].product /\ t.user = transaction[w].user
      /\ t.row = transaction[w].row /\ t.alone = transaction[w].alone /\ t.ofProduct = transaction[w].ofProduct
      /\ t.ofMerchant = Market!Average(Market!Seen(w), ProductsOf(m)) /\ t.ofMerchant \in Market!Rating
      /\ "alone" \in DOMAIN t
  BY <1>2
<1> HIDE DEF t
<1>4. t.ofProduct \in Market!Rating
  BY <1>1, <1>3 DEF ReviewInv, ReviewTyped
<1>5. t.alone => Rightly(t, Market!Seen(w))
  BY <1>1, <1>3 DEF ReviewInv, AloneSeeAll, Rightly
<1> QED
  BY <1>1, <1>3, <1>4, <1>5, OwnStep

LEMMA RollbackKeeps ==
  ASSUME CatalogConstants, ReviewInv, NEW w \in Workers, Market!Rollback(w)
  PROVE  ReviewInv'
<1>1. IsOpen(w) /\ transaction' = [transaction EXCEPT ![w] = Market!Idle] /\ UNCHANGED <<delivered, review, rating, raced>>
  BY DEF Market!Rollback, Market!Open, IsOpen
<1> HIDE DEF Market!Idle
<1> QED
  BY <1>1, OwnStep

\* A change begins: it is alone if no other of its merchant is under way.
LEMMA WriteKeeps ==
  ASSUME CatalogConstants, ReviewInv, NEW w \in Workers, NEW p \in Products, NEW u \in Users, NEW row \in Market!Review \cup {None},
         Market!Write(w, p, u, row)
  PROVE  ReviewInv'
<1> DEFINE others == Market!OfMerchant(MerchantOf[p])
           mine == [step |-> "wrote", product |-> p, user |-> u, row |-> row, alone |-> others = {}]
<1>1. /\ transaction' = [x \in Workers |-> IF x = w THEN mine
                                          ELSE IF x \in others THEN [transaction[x] EXCEPT !.alone = FALSE]
                                          ELSE transaction[x]]
      /\ transaction[w] = Market!Idle /\ UNCHANGED <<delivered, review, rating, raced>>
  BY DEF Market!Write
<1>2. \A x \in Workers : x \in others <=> IsOpen(x) /\ MerchantOf[transaction[x].product] = MerchantOf[p]
  BY DEF Market!OfMerchant, Market!Open, IsOpen
<1>3. /\ transaction'[w] = mine /\ mine.step = "wrote" /\ mine.product = p /\ mine.user = u /\ mine.row = row
      /\ mine.alone = (others = {}) /\ IsOpen(w)' /\ "alone" \in DOMAIN mine
  BY <1>1 DEF IsOpen, Market!Idle
<1>4. ASSUME NEW x \in Workers, x # w, IsOpen(x)'
      PROVE  /\ IsOpen(x) /\ transaction'[x].product = transaction[x].product /\ transaction'[x].user = transaction[x].user
             /\ transaction'[x].row = transaction[x].row /\ transaction'[x].step = transaction[x].step
             /\ transaction'[x].step \in {"sawProduct", "product", "sawMerchant"} =>
                    transaction'[x].ofProduct = transaction[x].ofProduct
             /\ transaction'[x].step = "sawMerchant" => transaction'[x].ofMerchant = transaction[x].ofMerchant
             /\ "alone" \in DOMAIN transaction'[x]
             /\ x \notin others => transaction'[x].alone = transaction[x].alone
             /\ x \in others => transaction'[x].alone \in BOOLEAN /\ ~transaction'[x].alone
  <2>1. CASE x \in others
    <3>1. transaction'[x] = [transaction[x] EXCEPT !.alone = FALSE] /\ IsOpen(x)
      BY <1>1, <1>2, <1>4, <2>1
    <3>2. "alone" \in DOMAIN transaction[x]
      BY <3>1 DEF ReviewInv, ReviewTyped
    <3>3. transaction'[x].alone = FALSE /\ DOMAIN transaction'[x] = DOMAIN transaction[x]
      BY <3>1, <3>2
    <3>4. transaction'[x].product = transaction[x].product /\ transaction'[x].user = transaction[x].user
          /\ transaction'[x].row = transaction[x].row /\ transaction'[x].step = transaction[x].step
      BY <3>1
    <3>5. transaction'[x].ofProduct = transaction[x].ofProduct /\ transaction'[x].ofMerchant = transaction[x].ofMerchant
      BY <3>1
    <3> HIDE DEF others
    <3> QED
      BY <2>1, <3>1, <3>2, <3>3, <3>4, <3>5, Zenon
  <2>2. CASE x \notin others
    <3>1. transaction'[x] = transaction[x] /\ IsOpen(x)
      BY <1>1, <1>4, <2>2 DEF IsOpen
    <3>2. "alone" \in DOMAIN transaction[x]
      BY <3>1 DEF ReviewInv, ReviewTyped
    <3> HIDE DEF others
    <3> QED
      BY <2>2, <3>1, <3>2
  <2> QED
    BY <2>1, <2>2
<1> HIDE DEF mine, others
<1>5. ReviewTyped'
  <2> SUFFICES ASSUME NEW x \in Workers, IsOpen(x)'
               PROVE  /\ "alone" \in DOMAIN transaction'[x]
                      /\ transaction'[x].step \in {"wrote", "sawProduct", "product", "sawMerchant"}
                      /\ transaction'[x].product \in Products /\ transaction'[x].user \in Users
                      /\ transaction'[x].row \in Market!Review \cup {None} /\ transaction'[x].alone \in BOOLEAN
                      /\ transaction'[x].step \in {"sawProduct", "product", "sawMerchant"} => transaction'[x].ofProduct \in Market!Rating
                      /\ transaction'[x].step = "sawMerchant" => transaction'[x].ofMerchant \in Market!Rating
    BY <1>1 DEF ReviewInv, ReviewTyped, ReviewTable
  <2>1. CASE x = w
    BY <1>3, <2>1
  <2>2. CASE x # w
    BY <1>4, <2>2 DEF ReviewInv, ReviewTyped
  <2> QED
    BY <2>1, <2>2
<1>6. AloneAreAlone'
  <2> SUFFICES ASSUME NEW x \in Workers, NEW y \in Workers, x # y, IsOpen(x)', IsOpen(y)', transaction'[x].alone
               PROVE  MerchantOf[transaction'[x].product] # MerchantOf[transaction'[y].product]
    BY DEF AloneAreAlone
  <2>1. CASE x = w
    BY <1>2, <1>3, <1>4, <2>1
  <2>2. CASE y = w
    BY <1>2, <1>3, <1>4, <2>2
  <2>3. CASE x # w /\ y # w
    BY <1>4, <2>3 DEF ReviewInv, AloneAreAlone
  <2> QED
    BY <2>1, <2>2, <2>3
<1>7. AloneSeeAll'
  <2> SUFFICES ASSUME NEW x \in Workers, IsOpen(x)', transaction'[x].alone
               PROVE  Rightly(transaction'[x], Market!Seen(x)')
    BY DEF AloneSeeAll
  <2>1. CASE x = w
    BY <1>3, <2>1 DEF Rightly
  <2>2. CASE x # w
    <3>1. IsOpen(x) /\ transaction[x].alone
      BY <1>4, <2>2
    <3>2. Market!Seen(x)' = Market!Seen(x)
      BY <1>1, <1>4, <2>2 DEF Market!Seen
    <3>3. Rightly(transaction[x], Market!Seen(x))
      BY <3>1 DEF ReviewInv, AloneSeeAll
    <3> QED
      BY <1>4, <2>2, <3>2, <3>3 DEF Rightly
  <2> QED
    BY <2>1, <2>2
<1>8. RatingsHold'
  BY <1>1 DEF ReviewInv, RatingsHold
<1> QED
  BY <1>5, <1>6, <1>7, <1>8 DEF ReviewInv

\* Rows change, but not what is shown of them.
LEMMA SameRatings ==
  ASSUME ReviewInv, UNCHANGED <<delivered, rating, transaction, raced>>, review' \in ReviewTable,
         \A p \in Products : SameShown(review, review', p)
  PROVE  ReviewInv'
<1>1. \A ps \in SUBSET Products : Market!Average(review', ps) = Market!Average(review, ps)
  BY AverageSame
<1>2. ASSUME NEW w \in Workers, IsOpen(w), NEW ps \in SUBSET Products
      PROVE  Market!Average(Market!Seen(w)', ps) = Market!Average(Market!Seen(w), ps)
  <2>1. \A p \in ps : SameShown(SeenBy(transaction[w], review), SeenBy(transaction[w], review'), p)
    BY DEF SameShown, SeenBy
  <2>2. Market!Seen(w)' = SeenBy(transaction[w], review')
    BY DEF Market!Seen, SeenBy
  <2> QED
    BY <2>1, <2>2, SeenIs, AverageSame
<1>3. \A m : ProductsOf(m) \in SUBSET Products
  BY DEF ProductsOf
<1>4. ReviewTyped' /\ AloneAreAlone'
  BY DEF ReviewInv, ReviewTyped, AloneAreAlone, IsOpen, ReviewTable
<1>5. AloneSeeAll'
  <2> SUFFICES ASSUME NEW w \in Workers, IsOpen(w), transaction[w].alone
               PROVE  Rightly(transaction[w], Market!Seen(w)')
    BY DEF AloneSeeAll, IsOpen
  <2>1. Rightly(transaction[w], Market!Seen(w)) /\ transaction[w].product \in Products
    BY DEF ReviewInv, AloneSeeAll, ReviewTyped
  <2> QED
    BY <1>2, <1>3, <2>1 DEF Rightly
<1>6. RatingsHold'
  <2>1. \A p \in Products : Market!Average(review', {p}) = Market!Average(review, {p})
    BY <1>1
  <2> QED
    BY <1>1, <1>3, <2>1 DEF ReviewInv, RatingsHold
<1> QED
  BY <1>4, <1>5, <1>6 DEF ReviewInv

LEMMA ReplyKeeps ==
  ASSUME CatalogConstants, ReviewInv, NEW p \in Products, NEW u \in Users, Market!Reply(u, p)
  PROVE  ReviewInv'
<1>1. /\ review[p][u] \in Market!Review /\ review[p][u] # None /\ review \in ReviewTable
      /\ UNCHANGED <<delivered, rating, transaction, raced>>
      /\ review' = [review EXCEPT ![p] = [review[p] EXCEPT ![u] = [review[p][u] EXCEPT !.reply = ~review[p][u].reply]]]
  BY DEF Market!Reply, ReviewInv, ReviewTyped, ReviewTable
<1> DEFINE new == [review[p][u] EXCEPT !.reply = ~review[p][u].reply]
<1>2. new \in Market!Review /\ new.stars = review[p][u].stars /\ new.hidden = review[p][u].hidden
  BY <1>1 DEF Market!Review
<1>3. new # None
  BY <1>2 DEF CatalogConstants
<1> HIDE DEF new
<1>4. review' = [review EXCEPT ![p] = [review[p] EXCEPT ![u] = new]]
  BY <1>1 DEF new
<1>5. \A q \in Products, v \in Users : review'[q][v] = IF q = p /\ v = u THEN new ELSE review[q][v]
  BY <1>1, <1>4 DEF ReviewTable
<1>6. review' \in ReviewTable
  BY <1>1, <1>2, <1>4 DEF ReviewTable
<1>7. \A q \in Products : SameShown(review, review', q)
  BY <1>1, <1>2, <1>3, <1>5 DEF SameShown
<1> QED
  BY <1>1, <1>6, <1>7, SameRatings

LEMMA CommitKeeps ==
  ASSUME CatalogConstants, ReviewInv, NEW w \in Workers, Market!Commit(w)
  PROVE  ReviewInv'
<1> DEFINE t == transaction[w]
           m == MerchantOf[t.product]
<1>1. /\ IsOpen(w) /\ t.step = "sawMerchant" /\ UNCHANGED delivered
      /\ review' = [review EXCEPT ![t.product][t.user] = t.row]
      /\ rating' = [rating EXCEPT ![t.product] = t.ofProduct, ![m] = t.ofMerchant]
      /\ raced' = IF t.alone THEN raced \ {t.product, m} ELSE raced \cup {t.product, m}
      /\ transaction' = [transaction EXCEPT ![w] = Market!Idle]
  BY DEF Market!Commit, IsOpen, Market!Idle
<1>2. /\ t.product \in Products /\ t.user \in Users /\ t.row \in Market!Review \cup {None} /\ m \in Merchants
      /\ t.ofProduct \in Market!Rating /\ t.ofMerchant \in Market!Rating /\ review \in ReviewTable
      /\ rating \in [Products \cup Merchants -> Market!Rating] /\ m # t.product
  BY <1>1 DEF ReviewInv, ReviewTyped, CatalogConstants
<1> HIDE DEF t, m
<1>3. /\ review' \in ReviewTable
      /\ \A q \in Products, v \in Users : review'[q][v] = IF q = t.product /\ v = t.user THEN t.row ELSE review[q][v]
  BY <1>1, <1>2 DEF ReviewTable
<1>4. /\ rating' \in [Products \cup Merchants -> Market!Rating]
      /\ \A x \in Products \cup Merchants : rating'[x] = IF x = m THEN t.ofMerchant ELSE IF x = t.product THEN t.ofProduct ELSE rating[x]
  BY <1>1, <1>2
<1>5. \A x \in Workers : IsOpen(x)' => IsOpen(x) /\ x # w /\ transaction'[x] = transaction[x]
  <2>1. transaction[w] # Market!Idle /\ w \in DOMAIN transaction
    BY <1>1 DEF IsOpen, ReviewInv, ReviewTyped
  <2>2. \A x \in Workers : transaction'[x] = IF x = w THEN Market!Idle ELSE transaction[x]
    BY <1>1, <2>1 DEF ReviewInv, ReviewTyped
  <2> HIDE DEF Market!Idle
  <2> QED
    BY <2>2 DEF IsOpen
<1>6. ReviewTyped'
  <2>1. delivered' \in [Users -> SUBSET Products] /\ DOMAIN transaction' = Workers /\ raced' \subseteq Products \cup Merchants
    BY <1>1, <1>2 DEF ReviewInv, ReviewTyped
  <2> QED
    BY <1>3, <1>4, <1>5, <2>1 DEF ReviewInv, ReviewTyped
<1>7. AloneAreAlone'
  BY <1>5 DEF ReviewInv, AloneAreAlone
\* A merchant none of whose products changes.
<1>8. \A q \in Products : q # t.product => SameShown(review, review', q)
  BY <1>3 DEF SameShown
<1>9. AloneSeeAll'
  <2> SUFFICES ASSUME NEW x \in Workers, IsOpen(x)', transaction'[x].alone
               PROVE  Rightly(transaction'[x], Market!Seen(x)')
    BY DEF AloneSeeAll
  <2>1. IsOpen(x) /\ x # w /\ transaction'[x] = transaction[x] /\ transaction[x].alone
    BY <1>5
  <2>2. Rightly(transaction[x], Market!Seen(x)) /\ transaction[x].product \in Products
    BY <2>1 DEF ReviewInv, AloneSeeAll, ReviewTyped
  <2>3. MerchantOf[transaction[x].product] # m
    BY <1>1, <2>1 DEF ReviewInv, AloneAreAlone, t, m
  <2>4. ASSUME NEW ps \in SUBSET ProductsOf(MerchantOf[transaction[x].product])
        PROVE  Market!Average(Market!Seen(x)', ps) = Market!Average(Market!Seen(x), ps)
    <3>1. \A q \in ps : q \in Products /\ q # t.product
      BY <2>3 DEF ProductsOf, m
    <3>2. \A q \in ps : SameShown(SeenBy(transaction[x], review), SeenBy(transaction[x], review'), q)
      BY <1>3, <3>1 DEF SameShown, SeenBy
    <3>3. Market!Seen(x)' = SeenBy(transaction[x], review')
      BY <2>1 DEF Market!Seen, SeenBy
    <3> QED
      BY <3>2, <3>3, SeenIs, AverageSame
  <2>5. {transaction[x].product} \in SUBSET ProductsOf(MerchantOf[transaction[x].product])
    BY <2>2 DEF ProductsOf
  <2> QED
    BY <2>1, <2>2, <2>4, <2>5 DEF Rightly
<1>10. RatingsHold'
  <2>1. ASSUME NEW x \in (Products \cup Merchants) \ raced', NEW ps \in SUBSET Products, x \notin {t.product, m}, t.product \notin ps,
               rating[x] = Market!Average(review, ps)
        PROVE  rating'[x] = Market!Average(review', ps)
    <3>1. Market!Average(review', ps) = Market!Average(review, ps)
      BY <1>8, <2>1, AverageSame
    <3> QED
      BY <1>4, <2>1, <3>1
  <2>2. t.alone => Rightly(t, review')
    <3>1. SUFFICES ASSUME t.alone PROVE Rightly(t, review')
      OBVIOUS
    <3>2. Rightly(t, Market!Seen(w))
      BY <1>1, <3>1 DEF ReviewInv, AloneSeeAll, t
    <3>3. \A ps \in SUBSET Products : \A q \in ps : SameShown(SeenBy(t, review), review', q)
      BY <1>2, <1>3 DEF SameShown, SeenBy
    <3>4. \A ps \in SUBSET Products : Market!Average(Market!Seen(w), ps) = Market!Average(review', ps)
      BY <3>3, SeenIs, AverageSame DEF t
    <3>5. {t.product} \in SUBSET Products /\ ProductsOf(MerchantOf[t.product]) \in SUBSET Products
      BY <1>2 DEF ProductsOf
    <3> QED
      BY <3>2, <3>4, <3>5 DEF Rightly
  <2>3. \A x \in {t.product, m} \ raced' : t.alone
    BY <1>1
  <2>4. ASSUME NEW p \in Products \ raced' PROVE rating'[p] = Market!Average(review', {p})
    <3>1. p # m
      BY <1>2 DEF CatalogConstants
    <3>2. CASE p = t.product
      BY <1>1, <1>4, <2>2, <2>3, <2>4, <3>1, <3>2 DEF Rightly
    <3>3. CASE p # t.product
      <4>1. p \notin raced /\ rating[p] = Market!Average(review, {p})
        BY <1>1, <2>4, <3>1, <3>3 DEF ReviewInv, RatingsHold
      <4> QED
        BY <2>1, <2>4, <3>1, <3>3, <4>1
    <3> QED
      BY <3>2, <3>3
  <2>5. ASSUME NEW n \in Merchants \ raced' PROVE rating'[n] = Market!Average(review', ProductsOf(n))
    <3>1. n # t.product
      BY <1>2 DEF CatalogConstants
    <3>2. CASE n = m
      BY <1>1, <1>4, <2>2, <2>3, <2>5, <3>1, <3>2 DEF Rightly, m
    <3>3. CASE n # m
      <4>1. n \notin raced /\ rating[n] = Market!Average(review, ProductsOf(n))
        BY <1>1, <2>5, <3>1, <3>3 DEF ReviewInv, RatingsHold
      <4>2. t.product \notin ProductsOf(n) /\ ProductsOf(n) \in SUBSET Products
        BY <3>3 DEF ProductsOf, m
      <4> QED
        BY <2>1, <2>5, <3>1, <3>3, <4>1, <4>2
    <3> QED
      BY <3>2, <3>3
  <2> QED
    BY <2>4, <2>5 DEF RatingsHold
<1> QED
  BY <1>6, <1>7, <1>9, <1>10 DEF ReviewInv

LEMMA ReviewStepKeeps ==
  ASSUME CatalogConstants, ReviewInv, Market!CatalogNext \/ UNCHANGED Market!catalogVars
  PROVE  ReviewInv'
<1>1. ASSUME NEW w \in Workers, NEW u \in Users, NEW p \in Products,
             Market!Delete(w, u, p) \/ (\E s \in Stars : Market!Upsert(w, u, p, s)) \/ (\E b \in BOOLEAN : Market!SetHidden(w, u, p, b))
      PROVE  ReviewInv'
  <2>1. review[p][u] \in Market!Review \cup {None}
    BY DEF ReviewInv, ReviewTyped, ReviewTable
  <2>2. CASE Market!Delete(w, u, p)
    BY <2>2, WriteKeeps DEF Market!Delete
  <2>3. ASSUME NEW s \in Stars, Market!Upsert(w, u, p, s) PROVE ReviewInv'
    <3> DEFINE row == IF review[p][u] = None THEN [stars |-> s, hidden |-> FALSE, reply |-> FALSE]
                      ELSE [review[p][u] EXCEPT !.stars = s]
    <3>1. row \in Market!Review
      BY <2>1 DEF Market!Review
    <3>2. Market!Write(w, p, u, row)
      BY <2>3 DEF Market!Upsert
    <3> HIDE DEF row
    <3> QED
      BY <3>1, <3>2, WriteKeeps
  <2>4. ASSUME NEW b \in BOOLEAN, Market!SetHidden(w, u, p, b) PROVE ReviewInv'
    <3> DEFINE row == [review[p][u] EXCEPT !.hidden = b]
    <3>1. row \in Market!Review
      BY <2>1, <2>4 DEF Market!Review, Market!SetHidden
    <3>2. Market!Write(w, p, u, row)
      BY <2>4 DEF Market!SetHidden
    <3> HIDE DEF row
    <3> QED
      BY <3>1, <3>2, WriteKeeps
  <2> QED
    BY <1>1, <2>2, <2>3, <2>4
<1>2. ASSUME NEW u \in Users, NEW p \in Products, Market!Deliver(u, p)
      PROVE  ReviewInv'
  <2>1. delivered' \in [Users -> SUBSET Products] /\ UNCHANGED <<review, rating, transaction, raced>>
    BY <1>2 DEF Market!Deliver, ReviewInv, ReviewTyped
  <2>2. ReviewTyped'
    BY <2>1 DEF ReviewInv, ReviewTyped, IsOpen
  <2>3. AloneAreAlone' /\ RatingsHold'
    BY <2>1 DEF ReviewInv, AloneAreAlone, RatingsHold, IsOpen
  <2>4. AloneSeeAll'
    BY <2>1 DEF ReviewInv, AloneSeeAll, IsOpen, Market!Seen, Rightly
  <2> QED
    BY <2>2, <2>3, <2>4 DEF ReviewInv
<1>3. CASE UNCHANGED <<delivered, review, rating, transaction, raced>>
  <2>1. ReviewTyped'
    BY <1>3 DEF ReviewInv, ReviewTyped, IsOpen
  <2>2. AloneAreAlone' /\ RatingsHold'
    BY <1>3 DEF ReviewInv, AloneAreAlone, RatingsHold, IsOpen
  <2>3. AloneSeeAll'
    BY <1>3 DEF ReviewInv, AloneSeeAll, IsOpen, Market!Seen, Rightly
  <2> QED
    BY <2>1, <2>2, <2>3 DEF ReviewInv
<1>4. CASE Market!ReviewStep
  BY <1>1, <1>2, <1>4, SeeProductKeeps, UpdateProductKeeps, SeeMerchantKeeps, CommitKeeps, RollbackKeeps, ReplyKeeps
     DEF Market!ReviewStep
<1>5. CASE Market!ShopStep
  <2>1. UNCHANGED Market!reviewVars
    BY <1>5 DEF Market!ShopStep, Market!Add, Market!Remove, Market!Mute, Market!LoadProduct, Market!SaveProduct, Market!NotifyProductChange,
       Market!Order, Market!DeleteProduct
  <2> QED
    BY <1>3, <2>1 DEF Market!reviewVars
<1> QED
  BY <1>3, <1>4, <1>5 DEF Market!CatalogNext, Market!catalogVars

-----------------------------------------------------------------------------
(* Wishlists *)

\* Whoever waits has saved the product and is not muted, and who has saved one
\* that is gone waits; a product that is back has an edit in progress that will
\* tell, or an alert that failed.
Awaited(x) == \E w \in Workers : /\ editor[w].step = "saved" /\ editor[w].product = x[2]
                                 /\ Market!News(editor[w].before, editor[w].after)
WaitersAreTold == \A x \in waiting \ missed : product[x[2]].stock = 0 \/ Awaited(x)
SoldOut(x) == product[x[2]].stock = 0 /\ product[x[2]].live
SaversWait == \A x \in saved \ waiting : SoldOut(x) => x[1] \in muted
ShopTyped ==
    /\ product \in [Products -> Market!Product]
    /\ saved \subseteq Users \X Products /\ muted \subseteq Users
    /\ waiting \subseteq {x \in saved : x[1] \notin muted} /\ missed \subseteq waiting
    /\ editor \in [Workers -> [step : {"idle"}] \cup [step : {"loaded"}, product : Products, before : Market!Product]
                                \cup [step : {"saved"}, product : Products, before : Market!Product, after : Market!Product]]
WishInv == ShopTyped /\ WaitersAreTold /\ SaversWait

LEMMA EditorTyped ==
  ASSUME ShopTyped, NEW w \in Workers
  PROVE  /\ editor[w].step \in {"idle", "loaded", "saved"}
         /\ editor[w].step # "idle" => editor[w].product \in Products /\ editor[w].before \in Market!Product
         /\ editor[w].step = "saved" => editor[w].after \in Market!Product
<1>1. editor[w] \in [step : {"idle"}] \cup [step : {"loaded"}, product : Products, before : Market!Product]
                       \cup [step : {"saved"}, product : Products, before : Market!Product, after : Market!Product]
  BY DEF ShopTyped
<1> HIDE DEF ShopTyped
<1> QED
  BY <1>1

\* Of those who wait for what is back some edit will tell, or an alert left them out.
LEMMA WaitersStay ==
  ASSUME Market!Missing({}), \A x \in waiting' : product'[x[2]].stock # 0 => x \in missed \/ Awaited(x)'
  PROVE  WaitersAreTold' /\ missed' \subseteq waiting'
<1>1. missed' = {x \in missed \cap waiting' : product'[x[2]].stock # 0}
  BY DEF Market!Missing
<1> QED
  BY <1>1 DEF WaitersAreTold

LEMMA SaveKeeps ==
  ASSUME WishInv, NEW w \in Workers, NEW after \in Market!Product, Market!SaveProduct(w, after)
  PROVE  WishInv'
<1> DEFINE p == editor[w].product
           before == editor[w].before
           task == [step |-> "saved", product |-> p, before |-> before, after |-> after]
<1>1. /\ editor[w].step = "loaded" /\ Market!Missing({})
      /\ product' = [product EXCEPT ![p] = after]
      /\ waiting' = Market!StillWaiting(p, before, after, product[p])
      /\ editor' = [editor EXCEPT ![w] = task] /\ UNCHANGED <<saved, muted>>
  BY DEF Market!SaveProduct
<1>2. p \in Products /\ before \in Market!Product
  BY <1>1, EditorTyped DEF WishInv
<1>3. task.step = "saved" /\ task.product = p /\ task.before = before /\ task.after = after
      /\ task \in [step : {"saved"}, product : Products, before : Market!Product, after : Market!Product]
  BY <1>2
<1> HIDE DEF p, before, task
<1>4. waiting' \subseteq waiting \cup {x \in saved : x[2] = p /\ x[1] \notin muted}
  BY <1>1 DEF Market!StillWaiting
<1>6. \A q \in Products : product'[q] = IF q = p THEN after ELSE product[q]
  BY <1>1 DEF WishInv, ShopTyped
<1>7. \A x \in saved : x[2] \in Products
  BY DEF WishInv, ShopTyped
<1>8. editor'[w] = task /\ \A v \in Workers : v # w => editor'[v] = editor[v]
  BY <1>1 DEF WishInv, ShopTyped
<1>9. \A x \in waiting : Awaited(x) => Awaited(x)'
  <2> SUFFICES ASSUME NEW x \in waiting, NEW v \in Workers, editor[v].step = "saved", editor[v].product = x[2],
                      Market!News(editor[v].before, editor[v].after)
               PROVE  Awaited(x)'
    BY DEF Awaited
  <2>1. v # w /\ editor'[v] = editor[v]
    BY <1>1, <1>8
  <2> QED
    BY <2>1 DEF Awaited
<1>10. ASSUME NEW x \in waiting', x[2] # p, product'[x[2]].stock # 0
       PROVE  x \in missed \/ Awaited(x)'
  <2>1. x \in waiting /\ x \in saved
    BY <1>4, <1>10 DEF WishInv, ShopTyped
  <2>2. product'[x[2]] = product[x[2]]
    BY <1>6, <1>7, <1>10, <2>1
  <2> QED
    BY <1>9, <1>10, <2>1, <2>2 DEF WishInv, WaitersAreTold
<1>11. ASSUME NEW x \in waiting', x[2] = p, after.stock # 0
       PROVE  x \in missed \/ Awaited(x)'
  <2>1. waiting' = waiting \ {y \in saved : y[2] = p /\ y[1] \notin muted} \/ (waiting' = waiting /\ product[p] = before /\ after.published = TRUE)
    BY <1>1, <1>11 DEF Market!StillWaiting, Market!Product
  <2>2. x \in waiting /\ product[p] = before /\ after.published = TRUE
    BY <1>11, <2>1 DEF WishInv, ShopTyped
  <2>3. CASE before.stock = 0
    <3>1. Market!News(before, after)
      BY <1>2, <1>11, <2>2, <2>3 DEF Market!News, Market!Product
    <3> QED
      BY <1>3, <1>8, <1>11, <3>1 DEF Awaited
  <2>4. CASE before.stock # 0
    BY <1>9, <1>11, <2>2, <2>4 DEF WishInv, WaitersAreTold
  <2> QED
    BY <2>3, <2>4
<1>12. WaitersAreTold' /\ missed' \subseteq waiting'
  <2>1. \A x \in waiting' : product'[x[2]].stock # 0 => x \in missed \/ Awaited(x)'
    BY <1>2, <1>6, <1>10, <1>11
  <2> QED
    BY <1>1, <2>1, WaitersStay
<1>5. ShopTyped'
  <2>1. product' \in [Products -> Market!Product]
    BY <1>1, <1>2 DEF WishInv, ShopTyped
  <2>2. editor' \in [Workers -> [step : {"idle"}] \cup [step : {"loaded"}, product : Products, before : Market!Product]
                                \cup [step : {"saved"}, product : Products, before : Market!Product, after : Market!Product]]
    BY <1>1, <1>3 DEF WishInv, ShopTyped
  <2> QED
    BY <1>1, <1>4, <1>12, <2>1, <2>2 DEF WishInv, ShopTyped
<1>13. SaversWait'
  <2> SUFFICES ASSUME NEW x \in saved', x \notin waiting', SoldOut(x)', x[1] \notin muted'
               PROVE  FALSE
    BY DEF SaversWait
  <2>1. x \in saved /\ x[1] \notin muted /\ x[2] \in Products /\ product'[x[2]].stock = 0 /\ product'[x[2]].live
    BY <1>1, <1>7 DEF SoldOut
  <2>2. CASE x[2] = p
    <3>1. after.stock = 0
      BY <1>6, <2>1, <2>2
    <3> QED
      BY <1>1, <2>1, <2>2, <3>1 DEF Market!StillWaiting
  <2>3. CASE x[2] # p
    <3>1. x \in waiting
      BY <1>6, <2>1, <2>3 DEF WishInv, SaversWait, SoldOut
    <3>2. waiting \ {y \in saved : y[2] = p /\ y[1] \notin muted} \subseteq waiting'
      BY <1>1 DEF Market!StillWaiting
    <3> QED
      BY <2>3, <3>1, <3>2
  <2> QED
    BY <2>2, <2>3
<1> QED
  BY <1>5, <1>12, <1>13 DEF WishInv

LEMMA TellKeeps ==
  ASSUME WishInv, NEW w \in Workers, NEW sent \in BOOLEAN, Market!NotifyProductChange(w, sent)
  PROVE  WishInv'
<1> DEFINE owed == {x \in waiting : /\ x[2] = editor[w].product /\ product[editor[w].product].stock # 0
                                    /\ Market!News(editor[w].before, editor[w].after)}
<1>1. /\ editor[w].step = "saved" /\ UNCHANGED <<product, saved, muted>>
      /\ editor' = [editor EXCEPT ![w] = Market!Idle]
      /\ waiting' = waiting \/ waiting' = waiting \ owed
      /\ missed' = {x \in (missed \cup owed) \cap waiting' : product'[x[2]].stock # 0}
  BY DEF Market!NotifyProductChange, Market!Missing
<1>2. \A v \in Workers : v # w => editor'[v] = editor[v]
  BY <1>1 DEF WishInv, ShopTyped
<1>3. ShopTyped'
  BY <1>1 DEF WishInv, ShopTyped, Market!Idle
<1>4. ASSUME NEW x \in waiting', x \notin missed', product[x[2]].stock # 0
      PROVE  Awaited(x)'
  <2>1. x \in waiting /\ x \notin missed /\ x \notin owed
    BY <1>1, <1>4
  <2>2. PICK v \in Workers : /\ editor[v].step = "saved" /\ editor[v].product = x[2]
                             /\ Market!News(editor[v].before, editor[v].after)
    BY <1>4, <2>1 DEF WishInv, WaitersAreTold, Awaited
  <2>3. v # w
    BY <1>4, <2>1, <2>2
  <2> QED
    BY <1>2, <2>2, <2>3 DEF Awaited
<1>5. WaitersAreTold'
  BY <1>1, <1>4 DEF WaitersAreTold
<1>6. SaversWait'
  BY <1>1 DEF WishInv, SaversWait, SoldOut
<1> QED
  BY <1>3, <1>5, <1>6 DEF WishInv

LEMMA OrderKeeps ==
  ASSUME CatalogConstants, WishInv, NEW p \in Products, Market!Order(p)
  PROVE  WishInv'
<1> DEFINE new == [product[p] EXCEPT !.stock = 1 - product[p].stock]
<1>1. product' = [product EXCEPT ![p] = new] /\ UNCHANGED <<saved, muted, editor>> /\ Market!Missing({})
      /\ waiting' = Market!StillWaiting(p, None, product'[p], product[p])
  BY DEF Market!Order
<1>2. product[p] \in Market!Product
  BY DEF WishInv, ShopTyped
<1>3. new \in Market!Product /\ new.stock # product[p].stock
  BY <1>2 DEF Market!Product
<1> HIDE DEF new
<1>4. \A q \in Products : product'[q] = IF q = p THEN new ELSE product[q]
  BY <1>1 DEF WishInv, ShopTyped
<1>5. waiting' \subseteq waiting \cup {x \in saved : x[2] = p /\ x[1] \notin muted}
  BY <1>1 DEF Market!StillWaiting
<1>6. \A x \in saved : x[2] \in Products
  BY DEF WishInv, ShopTyped
<1>7. new.stock # 0 => \A x \in waiting' : x[2] # p
  <2>1. product[p] # None
    BY <1>2 DEF CatalogConstants
  <2>2. product'[p] = new
    BY <1>4
  <2>3. new.stock # 0 => waiting' = waiting \ {x \in saved : x[2] = p /\ x[1] \notin muted}
    BY <1>1, <2>1, <2>2 DEF Market!StillWaiting
  <2> QED
    BY <2>3 DEF WishInv, ShopTyped
<1>8. ASSUME NEW x \in waiting', product'[x[2]].stock # 0
      PROVE  x \in missed \/ Awaited(x)'
  <2>1. Awaited(x)' <=> Awaited(x)
    BY <1>1 DEF Awaited
  <2>2. x[2] \in Products
    BY <1>5, <1>6, <1>8 DEF WishInv, ShopTyped
  <2>3. x[2] # p
    BY <1>4, <1>7, <1>8, <2>2
  <2> QED
    BY <1>4, <1>5, <1>8, <2>1, <2>2, <2>3 DEF WishInv, WaitersAreTold
<1>9. WaitersAreTold' /\ missed' \subseteq waiting'
  BY <1>1, <1>8, WaitersStay
<1>10. ShopTyped'
  BY <1>1, <1>3, <1>5, <1>9 DEF WishInv, ShopTyped
<1>11. SaversWait'
  <2> SUFFICES ASSUME NEW x \in saved', x \notin waiting', SoldOut(x)', x[1] \notin muted'
               PROVE  FALSE
    BY DEF SaversWait
  <2>1. x \in saved /\ x[1] \notin muted /\ x[2] \in Products /\ product'[x[2]].stock = 0 /\ product'[x[2]].live
    BY <1>1, <1>6 DEF SoldOut
  <2>2. CASE x[2] = p
    BY <1>1, <2>1, <2>2 DEF Market!StillWaiting
  <2>3. CASE x[2] # p
    <3>1. x \in waiting
      BY <1>4, <2>1, <2>3 DEF WishInv, SaversWait, SoldOut
    <3>2. waiting \ {y \in saved : y[2] = p /\ y[1] \notin muted} \subseteq waiting'
      BY <1>1 DEF Market!StillWaiting
    <3> QED
      BY <2>3, <3>1, <3>2
  <2> QED
    BY <2>2, <2>3
<1> QED
  BY <1>9, <1>10, <1>11 DEF WishInv

LEMMA WishStepKeeps ==
  ASSUME CatalogConstants, WishInv, Market!CatalogNext \/ UNCHANGED Market!catalogVars
  PROVE  WishInv'
<1>1. ASSUME UNCHANGED <<product, editor>>, Market!Missing({}), saved' \subseteq Users \X Products, muted' \subseteq Users,
             \A x \in waiting' : x \in waiting \/ product[x[2]].stock = 0,
             waiting' \subseteq {x \in saved' : x[1] \notin muted'}
      PROVE  ShopTyped' /\ WaitersAreTold'
  <2>1. \A x \in waiting : product[x[2]].stock # 0 => x \in missed \/ Awaited(x)
    BY DEF WishInv, WaitersAreTold
  <2>2. \A x : Awaited(x) => Awaited(x)'
    BY <1>1 DEF Awaited
  <2>3. WaitersAreTold' /\ missed' \subseteq waiting'
    BY <1>1, <2>1, <2>2, WaitersStay
  <2> QED
    BY <1>1, <2>3 DEF WishInv, ShopTyped
<1>2. ASSUME NEW u \in Users, NEW p \in Products, Market!Add(u, p) \/ Market!Remove(u, p)
      PROVE  WishInv'
  <2>1. UNCHANGED <<product, muted, editor>> /\ Market!Missing({})
    BY <1>2 DEF Market!Add, Market!Remove
  <2>2. \/ /\ saved' = saved \cup {<<u, p>>}
           /\ waiting' = IF product[p].stock = 0 /\ u \notin muted THEN waiting \cup {<<u, p>>} ELSE waiting
        \/ saved' = saved \ {<<u, p>>} /\ waiting' = waiting \ {<<u, p>>}
    BY <1>2 DEF Market!Add, Market!Remove
  <2>3. /\ saved' \subseteq Users \X Products /\ muted' \subseteq Users
        /\ waiting' \subseteq {x \in saved' : x[1] \notin muted'}
    BY <2>1, <2>2 DEF WishInv, ShopTyped
  <2>4. \A x \in waiting' : x \in waiting \/ product[x[2]].stock = 0
    BY <2>2
  <2>5. SaversWait'
    BY <2>1, <2>2 DEF WishInv, SaversWait, SoldOut
  <2> QED
    BY <1>1, <2>1, <2>3, <2>4, <2>5 DEF WishInv
<1>8. ASSUME NEW u \in Users, Market!Mute(u)
      PROVE  WishInv'
  <2>1. UNCHANGED <<product, saved, editor>> /\ Market!Missing({})
    BY <1>8 DEF Market!Mute
  <2>2. \/ /\ u \in muted /\ muted' = muted \ {u}
           /\ waiting' = waiting \cup {x \in saved : x[1] = u /\ product[x[2]].stock = 0}
        \/ muted' = muted \cup {u} /\ waiting' = {x \in waiting : x[1] # u}
    BY <1>8 DEF Market!Mute
  <2>3. /\ saved' \subseteq Users \X Products /\ muted' \subseteq Users
        /\ waiting' \subseteq {x \in saved' : x[1] \notin muted'}
    BY <2>1, <2>2 DEF WishInv, ShopTyped
  <2>4. \A x \in waiting' : x \in waiting \/ product[x[2]].stock = 0
    BY <2>2
  <2>5. SaversWait'
    BY <2>1, <2>2 DEF WishInv, SaversWait, SoldOut
  <2> QED
    BY <1>1, <2>1, <2>3, <2>4, <2>5 DEF WishInv
<1>3. ASSUME NEW w \in Workers, NEW p \in Products, Market!LoadProduct(w, p)
      PROVE  WishInv'
  <2>1. /\ editor[w] = Market!Idle /\ UNCHANGED <<product, saved, muted, waiting, missed>>
        /\ editor' = [editor EXCEPT ![w] = [step |-> "loaded", product |-> p, before |-> product[p]]]
    BY <1>3 DEF Market!LoadProduct
  <2>2. ShopTyped'
    BY <2>1 DEF WishInv, ShopTyped
  <2>3. \A v \in Workers : editor[v].step = "saved" => editor'[v] = editor[v]
    BY <2>1 DEF WishInv, ShopTyped, Market!Idle
  <2>4. \A x : Awaited(x) => Awaited(x)'
    BY <2>3 DEF Awaited
  <2> QED
    BY <2>1, <2>2, <2>4 DEF WishInv, WaitersAreTold, SaversWait, SoldOut
<1>4. ASSUME NEW p \in Products, Market!DeleteProduct(p)
      PROVE  WishInv'
  <2>1. /\ product' = [product EXCEPT ![p] = [product[p] EXCEPT !.live = FALSE]]
        /\ waiting' = {x \in waiting : x[2] # p} /\ Market!Missing({}) /\ UNCHANGED <<saved, muted, editor>>
    BY <1>4 DEF Market!DeleteProduct
  <2>2. product' \in [Products -> Market!Product] /\ \A q \in Products : q # p => product'[q] = product[q]
    <3>1. product[p] \in Market!Product
      BY DEF WishInv, ShopTyped
    <3>2. [product[p] EXCEPT !.live = FALSE] \in Market!Product
      BY <3>1 DEF Market!Product
    <3> HIDE DEF Market!Product
    <3> QED
      BY <2>1, <3>2 DEF WishInv, ShopTyped
  <2>3. \A x \in waiting' : x \in waiting /\ product'[x[2]] = product[x[2]] /\ (Awaited(x) => Awaited(x)')
    BY <2>1, <2>2 DEF WishInv, ShopTyped, Awaited
  <2>4. WaitersAreTold' /\ missed' \subseteq waiting'
    BY <2>1, <2>3, WaitersStay DEF WishInv, WaitersAreTold
  <2>5. ShopTyped'
    BY <2>1, <2>2, <2>4 DEF WishInv, ShopTyped
  <2>6. \A x \in saved' : x \notin waiting' /\ SoldOut(x)' => x \in saved /\ x \notin waiting /\ SoldOut(x)
    <3> SUFFICES ASSUME NEW x \in saved, x \notin waiting', product'[x[2]].stock = 0, product'[x[2]].live
                 PROVE  x \notin waiting /\ SoldOut(x)
      BY <2>1 DEF SoldOut
    <3>1. x[2] \in Products
      BY DEF WishInv, ShopTyped
    <3>2. product'[p].live = FALSE
      <4>1. product[p] \in Market!Product
        BY DEF WishInv, ShopTyped
      <4>2. [product[p] EXCEPT !.live = FALSE].live = FALSE
        BY <4>1 DEF Market!Product
      <4> QED
        BY <2>1, <4>2 DEF WishInv, ShopTyped
    <3>3. x[2] # p
      BY <3>2
    <3> QED
      BY <2>1, <2>2, <3>1, <3>3 DEF SoldOut
  <2>7. SaversWait'
    BY <2>1, <2>6 DEF WishInv, SaversWait
  <2> QED
    BY <2>4, <2>5, <2>7 DEF WishInv
<1>5. CASE UNCHANGED Market!shopVars
  <2>1. UNCHANGED <<product, saved, muted, editor, waiting, missed>>
    BY <1>5 DEF Market!shopVars
  <2> QED
    BY <2>1 DEF WishInv, ShopTyped, WaitersAreTold, Awaited, SaversWait, SoldOut
<1>6. CASE Market!ReviewStep
  <2>1. ASSUME NEW w \in Workers, NEW u \in Users, NEW p \in Products, NEW row, Market!Write(w, p, u, row)
        PROVE  UNCHANGED Market!shopVars
    BY <2>1, Zenon DEF Market!Write
  <2>2. ASSUME NEW w \in Workers, NEW u \in Users, NEW p \in Products,
               Market!Delete(w, u, p) \/ (\E s \in Stars : Market!Upsert(w, u, p, s)) \/ (\E b \in BOOLEAN : Market!SetHidden(w, u, p, b))
        PROVE  UNCHANGED Market!shopVars
    BY <2>1, <2>2, Zenon DEF Market!Delete, Market!Upsert, Market!SetHidden
  <2>3. ASSUME NEW w \in Workers,
               Market!SeeProduct(w) \/ Market!UpdateProductRating(w) \/ Market!SeeMerchant(w) \/ Market!Commit(w) \/ Market!Rollback(w)
        PROVE  UNCHANGED Market!shopVars
    BY <2>3, Zenon DEF Market!SeeProduct, Market!UpdateProductRating, Market!SeeMerchant, Market!Commit, Market!Rollback
  <2>4. ASSUME NEW u \in Users, NEW p \in Products, Market!Reply(u, p) \/ Market!Deliver(u, p)
        PROVE  UNCHANGED Market!shopVars
    BY <2>4, Zenon DEF Market!Reply, Market!Deliver
  <2>5. UNCHANGED Market!shopVars
    BY <1>6, <2>2, <2>3, <2>4, Zenon DEF Market!ReviewStep
  <2> QED
    BY <1>5, <2>5
<1>7. CASE Market!ShopStep
  BY <1>2, <1>3, <1>4, <1>7, <1>8, SaveKeeps, TellKeeps, OrderKeeps DEF Market!ShopStep
<1> QED
  BY <1>5, <1>6, <1>7 DEF Market!CatalogNext, Market!catalogVars, Market!shopVars

LEMMA WishInvImplies ==
  ASSUME WishInv
  PROVE  Market!SaversAreTold
<1>1. \A x \in waiting \ missed : product[x[2]].stock = 0 \/ \E w \in Workers : editor[w].step = "saved" /\ editor[w].product = x[2]
  BY DEF WishInv, WaitersAreTold, Awaited
<1>5. \A x \in saved \ waiting : product[x[2]].stock = 0 /\ product[x[2]].live => x[1] \in muted
  BY DEF WishInv, SaversWait, SoldOut
<1>2. \A p \in Products : product[p].price <= 2
  BY DEF WishInv, ShopTyped, Market!Product
<1>3. \A u \in Users : Market!List(u) = Market!Lookup({p \in Products : <<u, p>> \in saved})
  BY DEF Market!List, Market!Lookup
<1>4. \A u \in Users : Market!List(u) \subseteq Market!SearchProducts(FALSE, 2)
  BY <1>2 DEF Market!List, Market!SearchProducts
<1> QED
  BY <1>1, <1>3, <1>4, <1>5 DEF Market!SaversAreTold

(* With any users and products, and however reviews, edits and orders overlap,*)
(* a rating whose last change met no other is what the reviews shown add up   *)
(* to, and whoever saved a product that comes back by an edit is told, unless *)
(* that alert failed (review_service.go, wishlist_service.go).                *)
THEOREM CatalogStaysTrue ==
  ASSUME CatalogConstants
  PROVE  Market!CatalogSpec => [](Market!CatalogTypeOK /\ Market!RatingsAgree /\ Market!SaversAreTold)
<1>1. Market!CatalogInit => ReviewInv /\ WishInv
  <2> SUFFICES ASSUME Market!CatalogInit PROVE ReviewInv /\ WishInv
    OBVIOUS
  <2>1. WishInv
    <3>1. Market!OnSale \in Market!Product
      BY DEF Market!OnSale, Market!Product
    <3> HIDE DEF Market!OnSale, Market!Product
    <3> QED
      BY <3>1 DEF Market!CatalogInit, WishInv, ShopTyped, WaitersAreTold, SaversWait, Market!Idle
  <2>2. review \in ReviewTable /\ \A p \in Products : Market!Shown(review, p) = {}
    BY DEF Market!CatalogInit, ReviewTable, Market!Shown
  <2>3. ASSUME NEW ps \in SUBSET Products PROVE Market!Average(review, ps) = Market!NoRating
    <3>1. \A p \in ps : StarsOf(review, p) = 0 /\ ReviewsOf(review, p) = 0
      BY <2>2, SumEmpty, FS_EmptySet DEF StarsOf, ReviewsOf
    <3>2. IsFiniteSet(ps)
      BY FS_Subset DEF CatalogConstants
    <3>3. Sum([p \in ps |-> StarsOf(review, p)], ps) = 0 /\ Sum([p \in ps |-> ReviewsOf(review, p)], ps) = 0
      BY <3>1, <3>2, SumZero
    <3> QED
      BY <3>3, AverageIs DEF Market!NoRating
  <2>4. \A w \in Workers : ~IsOpen(w)
    BY DEF Market!CatalogInit, IsOpen
  <2>5. Market!NoRating \in Market!Rating
    BY DEF Market!NoRating, Market!Rating
  <2>6. ReviewTyped
    BY <2>2, <2>4, <2>5 DEF Market!CatalogInit, ReviewTyped
  <2>7. RatingsHold
    BY <2>3 DEF Market!CatalogInit, RatingsHold, ProductsOf
  <2> QED
    BY <2>1, <2>4, <2>6, <2>7 DEF ReviewInv, AloneAreAlone, AloneSeeAll
<1>2. ReviewInv /\ WishInv /\ [Market!CatalogNext]_Market!catalogVars => ReviewInv' /\ WishInv'
  BY ReviewStepKeeps, WishStepKeeps
<1>3. ReviewInv /\ WishInv => Market!CatalogTypeOK /\ Market!RatingsAgree /\ Market!SaversAreTold
  <2> SUFFICES ASSUME ReviewInv, WishInv PROVE Market!CatalogTypeOK /\ Market!RatingsAgree /\ Market!SaversAreTold
    OBVIOUS
  <2>1. Market!CatalogTypeOK
    BY DEF ReviewInv, ReviewTyped, ReviewTable, IsOpen, WishInv, ShopTyped, Market!CatalogTypeOK
  <2> QED
    BY <2>1, ReviewInvImplies, WishInvImplies DEF ReviewInv
<1> QED
  BY <1>1, <1>2, <1>3, PTL DEF Market!CatalogSpec
=============================================================================
