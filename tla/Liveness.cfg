\* Everything that is fair comes round.
SPECIFICATION FairSpec
CONSTANTS
    p1 = p1
    p2 = p2
    c1 = c1
    o1 = o1
    reconciler = reconciler
    sweeper = sweeper
    refunder = refunder
    expirer = expirer
    seller = seller
\* Payments may be settled, orders finished, and the clock stops.
CHECK_DEADLOCK FALSE
PROPERTIES
    CheckoutIsResolved
    EarningsBooked
    UnpaidIsReleased
    LapsedIsCleared
