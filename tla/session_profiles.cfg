SPECIFICATION Spec
CONSTANTS
    Profiles = {p1, p2}
    NoProfile = NoProfile
    Servers = {s1}
    Titles = {}
    NoTitle = NoTitle
    Threads = {t1, t2}
    Calls = {"Ensure", "Link"}
    None = None
    Torn = Torn
    MaxAccounts = 2
    MaxRestarts = 1
SYMMETRY Symmetry
INVARIANTS TypeOK AccountsUnshared DeviceIsThisProfiles IdentityAgrees LinkedAccountKept
