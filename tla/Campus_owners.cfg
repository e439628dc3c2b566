\* Managers of a club follow, promote and remove one another.
SPECIFICATION ClubSpec
CONSTANTS
    m1 = m1
    ours = ours
    o1 = o1
    o2 = o2
    Merchants = {m1}
    Platform = ours
    Orders = {o1, o2}
    Method <- BkashAndCash
    Gross <- Goods1
    Charge <- OneEach
    Rates = {15, 150}
    Amounts = {0, 5, 8}
    MinPayout = 5
    Requesters = {q1, q2}
    Editors = {e1}
    MaxPayouts = 2
    None = None
    Gone = Gone
    Parts = {"roster"}
\* Counters stop at their bounds, and rows may all be settled or gone.
CHECK_DEADLOCK FALSE
INVARIANT OwnersRemain
