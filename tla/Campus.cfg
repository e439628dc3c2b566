\* Every part; of MerchantLedger, a merchant who sells for bKash and for cash,
\* is refunded, edited and judged, and asks for payouts.
SPECIFICATION MCSpec
CONSTANTS
    m1 = m1
    ours = ours
    o1 = o1
    o2 = o2
    Merchants = {m1}
    Platform = ours
    Orders = {o1, o2}
    Method <- BkashAndCash
    Gross <- Goods1
    Charge <- OneEach
    Rates = {15, 150}
    Amounts = {0, 5, 8}
    MinPayout = 5
    Requesters = {q1, q2}
    Editors = {e1}
    MaxPayouts = 2
    None = None
    Gone = Gone
    Parts = {"ledger", "opening", "talking", "hearing", "inbox", "reviews", "wishlist", "files", "moderation", "signals", "upgrade", "merge", "roster", "posts", "likes", "talk", "dates", "notices", "exams", "career"}
\* Counters stop at their bounds, and rows may all be settled or gone.
CHECK_DEADLOCK FALSE
INVARIANTS
    TypeOK
    LedgerFollowsEvents
    PayoutsWithinEarnings
    EscrowIsCovered
    ChatAgrees
    CatalogAgrees
    ResourcesAgree
    MigrationsAgree
    
    
