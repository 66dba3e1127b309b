SPECIFICATION FairSpec
CONSTANTS
    Profiles = {p1, p2}
    First = p1
    Titles = {x1}
    None = None
    Callers = {guest}
    InvitationEveryNthBeat = 2
    MaxChanges = 1
    MaxSwitches = 1
    MaxStarts = 1
PROPERTIES GoneStaysGone Settles
CHECK_DEADLOCK FALSE
