SPECIFICATION FairSpec
CONSTANTS
    Users = {u1, u2}
    First = u1
    None = None
    People = {x1}
    BlockLimit = 1
    MaxEvents = 3
INVARIANTS TypeOK ListTold WarmingOwned
PROPERTIES Heard Converges
