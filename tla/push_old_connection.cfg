SPECIFICATION Spec
CONSTANTS
    Profiles = {p1, p2}
    None = None
    BearerChecked = TRUE
    MaxMinted = 2
    MaxRevoked = 0
    MaxSwitches = 1
    MaxStarts = 1
SYMMETRY Symmetry
INVARIANT SpeaksForUser
CHECK_DEADLOCK FALSE
