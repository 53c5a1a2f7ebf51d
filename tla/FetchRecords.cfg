\* Two servers' daemons; failures that last two ticks are worth a label.
SPECIFICATION RecordsSpec
CONSTANTS
    Servers = {d1, d2}
    Throttle = 2
    StaleAfter = 2
    MaxTime = 5
SYMMETRY Symmetry
INVARIANTS StaleIsEarned
PROPERTIES ThrottleKept
CHECK_DEADLOCK FALSE
