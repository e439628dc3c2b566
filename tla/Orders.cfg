\* Two payments of one order; two orders for the last units.
SPECIFICATION MCSpec
CONSTANTS
    o1 = o1
    o2 = o2
    Orders = {o1, o2}
    Qty <- OneAndTwo
    Stock0 = 2
    Goods <- Five
    Charge <- OneEach
    Clients = {k1}
    Reconcilers = {r1}
    Expirers = {e1}
    Sellers = {s1}
    Editors = {m1}
    Admins = {a1}
    MaxTxs = 2
\* Every order may be finished: the system may stop.
CHECK_DEADLOCK FALSE
INVARIANTS
    TypeOK
    PaidOnce
    MoneyBehindBooks
    BooksFollowOrder
    StockConserved
PROPERTIES
    OnlyForward
    PaidIsNotCancelled
