SPECIFICATION Spec
CONSTANTS
    Requests = {r1, r2, r3, r4, r5}
    Invoices = {i1, i2}
    Numbers = {n1, n2}
    Contents <- MCContents
    Keys = {k1, k2}
    Humans = {human}
    Scripts = {script}
    NoOne = NoOne
    NoWork = NoWork
SYMMETRY MCSymmetry
INVARIANTS
    SubledgerReconcilesUnlessMuddled
    ApprovalIsCurrentUnlessMuddled
CHECK_DEADLOCK FALSE
