SPECIFICATION Spec
CONSTANTS
    Requests = {r1, r2, r3, r4}
    Documents = {d1, d2}
    d1 = d1
    d2 = d2
    Contents <- MCContents
    Keys = {k1, k2}
    Stages = 2
    Foreign = {2}
    NoDocument = NoDocument
    NoWork = NoWork
SYMMETRY MCSymmetry
INVARIANTS
    GaplessUnlessMuddled
    IssuedAsPostedUnlessMuddled
PROPERTIES
    RemindersRiseUnlessMuddled
    OnlyOwedIsChased
CHECK_DEADLOCK FALSE
