SPECIFICATION FairSpec
CONSTANTS
    u1 = u1
    u2 = u2
    i1 = i1
    i2 = i2
    Users = {u1, u2}
    NoUser = NoUser
    Ids = {i1, i2}
    Receiver <- SentEach
    Pollers = {heartbeat, worker}
    MaxSwitches = 1
    MaxOwed = 1
INVARIANTS TypeOK BadgeFollows NoneUnannounced
PROPERTIES Shown Heals
