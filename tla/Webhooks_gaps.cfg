\* One round and two events, which commit in either order.
SPECIFICATION Spec
CONSTANTS
    r1 = r1
    r2 = r2
    Rounds <- OneRound
    Events <- TwoEvents
    BatchSize = 2
    MaxFailures = 2
    MaxUpsets = 0
INVARIANT NoGaps
CHECK_DEADLOCK FALSE
