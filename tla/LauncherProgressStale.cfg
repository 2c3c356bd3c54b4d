\* A trade in flight while its project completes.
SPECIFICATION Spec
CONSTANTS
    Fomos = {1}
    Runs = {r1}
    Trades = {c1, c2}
    Caps <- MCFewCaps
    DaoLocks <- MCBothDaos
    Timestamps = {1, 2}
    MaxTrades = 2
    MaxReplies = 0
    MaxFailures = 0
PROPERTIES
    TradesKeepCompletion
