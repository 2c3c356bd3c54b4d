\* Overlapping update_progress runs over two projects; the router may fail once.
SPECIFICATION Spec
CONSTANTS
    Fomos = {1, 2}
    Runs = {r1, r2}
    Trades = {}
    Caps <- MCRunCaps
    DaoLocks <- MCBothDaos
    Timestamps = {}
    MaxTrades = 0
    MaxReplies = 1
    MaxFailures = 1
SYMMETRY RunSymmetry
INVARIANTS
    ShareSentOnce
    RepliesCounted
