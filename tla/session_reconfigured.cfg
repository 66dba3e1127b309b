SPECIFICATION Spec
CONSTANTS
    Profiles = {p1}
    NoProfile = NoProfile
    Servers = {s1, s2}
    Titles = {}
    NoTitle = NoTitle
    Threads = {t1}
    Calls = {"Ensure", "Link", "SendAs"}
    None = None
    Torn = Torn
    MaxAccounts = 1
    MaxRestarts = 0
INVARIANT CredentialsStayHome
