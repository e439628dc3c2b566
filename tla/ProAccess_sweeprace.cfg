\* A user renews between the two statements of the sweeper.
SPECIFICATION Spec
CONSTANTS
    Plans = {1, 2}
    GraceDays = 1
    Sweepers = {s1}
    Refunders = {}
    Editors = {}
    EndDates = {}
    Horizon = 5
    MaxRows = 3
\* The clock stops at the horizon.
CHECK_DEADLOCK FALSE
INVARIANT SweptOnTime
