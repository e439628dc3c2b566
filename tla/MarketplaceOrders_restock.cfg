\* The refund of a payment flagged because its order was cancelled.
SPECIFICATION Spec
CONSTANTS
    o1 = o1
    o2 = o2
    Orders = {o1}
    Qty <- OneEach
    Stock0 = 1
    Goods <- Five
    Charge <- OneEach
    Clients = {k1}
    Reconcilers = {}
    Expirers = {}
    Sellers = {}
    Editors = {}
    Admins = {}
    MaxTxs = 1
\* Every order may be finished: the system may stop.
CHECK_DEADLOCK FALSE
INVARIANT RestockedOnce
