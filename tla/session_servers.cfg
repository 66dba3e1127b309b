SPECIFICATION Spec
CONSTANTS
    Profiles = {p1}
    NoProfile = NoProfile
    Servers = {s1, s2}
    Titles = {x1}
    NoTitle = NoTitle
    Threads = {t1}
    Calls = {"Ensure", "SendAs"}
    None = None
    Torn = Torn
    MaxAccounts = 2
    MaxRestarts = 1
SYMMETRY Symmetry
INVARIANTS HomeUnlessMoved FreshIsNoOtherTitles
