\* A trade reported while a run is in flight, over two projects, for every choice of
\* DAOs; the router does not fail.
SPECIFICATION LiveSpec
CONSTANTS
    Fomos = {1, 2}
    Runs = {r1}
    Trades = {c1}
    Caps <- MCFewCaps
    DaoLocks <- MCDaoLocks
    Timestamps = {1}
    MaxTrades = 1
    MaxReplies = 0
    MaxFailures = 0
INVARIANTS
    ProgressFollowsCap
PROPERTIES
    CompletedIsLocked
