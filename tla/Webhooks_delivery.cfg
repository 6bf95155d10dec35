\* Two rounds, two events in one batch, one crash or replay.
SPECIFICATION FairSpec
CONSTANTS
    r1 = r1
    r2 = r2
    Rounds <- TwoRounds
    Events <- TwoEvents
    BatchSize = 2
    MaxFailures = 3
    MaxUpsets = 1
INVARIANTS
    NothingSkipped
    ReplayIsHonoured
PROPERTIES
    CausesPrecedeEffects
    GivesUpAfterEnoughInARow
    EventuallyTakenUnlessCrowded
CHECK_DEADLOCK FALSE
