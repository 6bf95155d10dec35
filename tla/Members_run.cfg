SPECIFICATION Spec
CONSTANTS
    Requests = {r1, r2, r3, r4}
    People = {founder, other}
    Founder = founder
    Roles = {owner, bookkeeper}
    Owner = owner
    NotMember = NotMember
    NoWork = NoWork
    MaxInvitations = 2
SYMMETRY MCSymmetry
INVARIANTS
    AccessTakenAwayStaysAway
    NothingLeftUnclaimed
PROPERTY
    LastOwnerIsOnlyReinvited
CHECK_DEADLOCK FALSE
