\* Every part; of ProAccess, purchases and a sweeper with an admin who refunds
\* or one who edits by hand.
SPECIFICATION MCSpec
CONSTANTS
    Plans = {1, 2}
    GraceDays = 1
    Sweepers = {s1}
    Refunders = {r1}
    Editors = {e1}
    EndDates = {0, 3}
    Horizon = 5
    EditDays = 3
    MaxRows = 3
    u1 = u1
    u2 = u2
    None = None
    Parts = {"refunding", "editing", "coupons", "coins", "invites", "caps", "perks", "sessions", "resets", "devices", "claims", "requests", "forms", "sweeps", "moves"}
\* Clocks stop at their horizons, and users may have done all they can.
CHECK_DEADLOCK FALSE
INVARIANTS
    TypeOK
    FollowsRows
    Stacks
    NoGifts
    NewestDecides
    CounterWithinCap
    RewardsAddUp
    FeaturesAreMetered
    LoginsAreSafe
    TopicsFollowOwner
    PeopleAgree
