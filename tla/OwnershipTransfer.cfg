\* Two developers, one of them with two tokens, three calls of which two are in
\* flight at once, two prices, one act of a user at the ledger and one failing
\* call.  20,210,100 is the most that is charged at the higher price; 19,815,000 is
\* enough for the least, but not for the ledger's fee on top of it.
SPECIFICATION TransferSpec
CONSTANTS
    u1 = u1
    u2 = u2
    t1 = t1
    t2 = t2
    t3 = t3
    Users <- MCUsers
    Tokens <- MCTokens
    DevOf <- MCDevOf
    Slots = {c1, c2}
    None = None
    Prices = {9000000, 10000000}
    Amounts = {19815000, 41000000}
    MaxCalls = 3
    MaxFunds = 1
    MaxRejected = 1
SYMMETRY SlotSymmetry
INVARIANTS
    QuoteHolds
    RemovalsAccounted
CHECK_DEADLOCK FALSE
