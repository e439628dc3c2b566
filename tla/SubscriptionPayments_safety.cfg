\* Two checkouts race for the last use of one coupon; a client and a
\* reconciler confirm them.
SPECIFICATION Spec
CONSTANTS
    p1 = p1
    p2 = p2
    p3 = p3
    c1 = c1
    Payments = {p1, p2}
    Coupons = {c1}
    MaxUses <- OneUse
    Clients = {k1}
    Reconcilers = {r1}
    Admins = {}
SYMMETRY Symmetry
\* Every payment may be settled and every session closed: the system may stop.
CHECK_DEADLOCK FALSE
INVARIANTS
    TypeOK
    CouponAccounting
    MaxUsesEnforced
    NothingWithoutMoney
    BooksFollowStatus
    OneLiveGrant
PROPERTIES
    CompletedIsKept
    BookSpec
