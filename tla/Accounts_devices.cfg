\* Devices are registered, sessions end everywhere, and a device comes back.
SPECIFICATION DeviceSpec
CONSTANTS
    Plans = {1, 2}
    GraceDays = 1
    Sweepers = {s1}
    Refunders = {r1}
    Editors = {e1}
    EndDates = {0, 1, 3}
    Horizon = 5
    EditDays = 3
    MaxRows = 3
    u1 = u1
    u2 = u2
    None = None
    Parts = {"devices"}
\* Versions stop at their bound.
CHECK_DEADLOCK FALSE
INVARIANT RegisteredIsReached
