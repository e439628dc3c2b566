\* A stale confirmation of a payment that was refunded meanwhile.
SPECIFICATION Spec
CONSTANTS
    p1 = p1
    p2 = p2
    p3 = p3
    c1 = c1
    Payments = {p1}
    Coupons = {c1}
    MaxUses <- OneUse
    Clients = {k1}
    Reconcilers = {r1}
    Admins = {}
CHECK_DEADLOCK FALSE
INVARIANT GrantedOnce
