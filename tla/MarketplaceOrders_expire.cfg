\* A payment is confirmed after the expirer has listed its order.
SPECIFICATION Spec
CONSTANTS
    o1 = o1
    o2 = o2
    Orders = {o1}
    Qty <- OneEach
    Stock0 = 1
    Goods <- Five
    Charge <- OneEach
    Clients = {k1}
    Reconcilers = {}
    Expirers = {e1}
    Sellers = {}
    Editors = {}
    Admins = {}
    MaxTxs = 1
\* Every order may be finished: the system may stop.
CHECK_DEADLOCK FALSE
PROPERTY NobodyPaidFor
