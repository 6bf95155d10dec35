SPECIFICATION Spec
CONSTANTS
    Requests = {r1, r2}
    Lines = {l1, l2}
    Available <- MCAvailable
    Looks <- MCLooks
    Documents = {d1, d2}
    Total <- MCTotal
    Keys = {k1, k2}
    NoEntry = NoEntry
    NoWork = NoWork
    MaxEntries = 3
    l1 = l1
    l2 = l2
    d1 = d1
    d2 = d2
    transfer = transfer
SYMMETRY MCSymmetry
INVARIANTS
    BookedOnceUnlessMuddled
    SettledIsBookedUnlessMuddled
    NotOverpaidUnlessContended
PROPERTY
    PaidIsAnnouncedUnlessContended
CHECK_DEADLOCK FALSE
