\* Two creations in flight, one failing call, one foreign count, one upgrade.
SPECIFICATION LiveSpec
CONSTANTS
    Users = {u1, u2}
    Creates = {c1, c2}
    None = None
    MaxCreates = 2
    MaxCounts = 1
    MaxFailures = 1
    MaxUpgrades = 1
INVARIANTS
    IndexOwned
    ResourcesOwned
    FeesAccounted
PROPERTIES
    PaidIsCreated
CHECK_DEADLOCK FALSE
