\* An order with a delivery charge is paid and delivered.
SPECIFICATION Spec
CONSTANTS
    m1 = m1
    ours = ours
    o1 = o1
    o2 = o2
    Merchants = {m1}
    Platform = ours
    Orders = {o1, o2}
    Method <- BkashAndCash
    Gross <- Goods1
    Charge <- OneEach
    Rates = {15, 150}
    Amounts = {0, 5, 8}
    MinPayout = 5
    Requesters = {q1}
    Editors = {}
    MaxPayouts = 2
\* Every order and payout may be settled: the system may stop.
CHECK_DEADLOCK FALSE
INVARIANT EscrowIsOfOpenOrders
