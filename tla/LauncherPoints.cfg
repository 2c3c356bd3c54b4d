\* The calls of one user racing each other: two top-ups and two edits in flight, and the
\* last points of the account.
SPECIFICATION Spec
CONSTANTS
    Users = {u1}
    Topups = {t1, t2}
    Edits = {e1, e2}
    None = None
    TopupAmounts <- MCTopupAmounts
    AirdropAmounts <- MCAirdropAmounts
    Prices <- MCPrices
    Allowances <- MCAllowances
    InitialBalance <- MCInitialBalance
    MaxRequests = 5
    MaxUpgrades = 1
SYMMETRY SlotSymmetry
INVARIANTS
    TypeOK
    CallsConsistent
    BooksAgree
    PaidIsCredited
    EditsAccounted
PROPERTIES
    ImplementsAccounts
CHECK_DEADLOCK FALSE
