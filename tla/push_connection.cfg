SPECIFICATION FairSpec
CONSTANTS
    Profiles = {p1, p2}
    None = None
    BearerChecked = TRUE
    MaxMinted = 3
    MaxRevoked = 1
    MaxSwitches = 1
    MaxStarts = 2
INVARIANTS TypeOK RefusedNotRetried StrayIsForgotten
PROPERTIES Reconnects StopReturns
CHECK_DEADLOCK FALSE
