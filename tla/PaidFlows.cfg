\* Two flows; a tenth of a dollar at 10 dollars an ICP, a quarter dearer and at 28.7 percent
\* more, which the thirty percent no longer cover; ten points and "20.5".
SPECIFICATION LiveSpec
CONSTANTS
    Prices = {1000000, 1250000, 1286885}
    Default = 1000000
    Shares = {0, 10, 20}
    Points = {10, 20}
    Fractions = {20}
    MaxFlows = 2
    MaxEdits = 2
    MaxLogins = 1
    MaxTicks = 1
    MaxFailures = 1
    MaxCloses = 1
INVARIANTS
    LockAgrees
    ChargedFromOwn
    MarginSuffices
PROPERTIES
    ButtonsFreed
CHECK_DEADLOCK FALSE
