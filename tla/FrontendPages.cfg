\* Two sorts, orders and texts with two pages each; two projects whose comments are read in
\* pages of two; two comments being posted; two quotes in flight; two
\* recipients, tokens and canisters for the dialogs that send, with two clicks under way and an
\* amount of cycles whose text ends in a zero; two accounts, names and pictures
\* of a profile; two runs of steps, with two status requests of a trade in flight; three
\* readings of the context, the god of wells and the coins of a user; two lists with one row in
\* common, three rows of two users; four lookups and readings of two projects.
SPECIFICATION LiveSpec
CONSTANTS
    Sorts = {"BumpOrder", "MarketCap"}
    Orders = {"DESC", "ASC"}
    FirstSort = "BumpOrder"
    FirstOrder = "DESC"
    Texts = {"", "well"}
    NoText = ""
    ListPages = 2
    MaxInputs = 4
    MaxPending = 2
    MaxRejects = 1
    Projects = {p1, p2}
    FirstProject = p1
    NoProject = none
    PageSize = 2
    Reads = {1, 2}
    MaxVisits = 2
    MaxScrolls = 3
    MaxComments = 3
    MaxOwn = 1
    MaxLost = 1
    Contents = {"", "first", "second"}
    Empty = ""
    Pictures = {i1, i2}
    NoPicture = none
    Posts = {1, 2}
    MaxDrafts = 4
    MaxFaults = 1
    Amounts = {0, 1, 2}
    NoAmount = 0
    MaxChanges = 4
    MaxQuotes = 2
    MaxRefused = 1
    People = {r1, r2}
    Nobody = none
    Garbage = garbage
    MaxFunds = 3
    MaxSends = 2
    MaxSteps = 7
    MaxMoves = 1
    HeldTokens = {t1, t2}
    NoHeld = none
    RichToken = t1
    Holdings <- MCHoldings
    Payees = {r1, r2}
    NoPayee = none
    NoPrincipal = garbage
    MaxHeld = 2
    MaxTransfers = 2
    MaxOpenings = 4
    MaxTyped = 3
    CycleTargets = {c1, c2}
    NoTarget = none
    EndsInZero = {2}
    MaxCycles = 3
    MaxCycleSteps = 5
    MaxCycleMoves = 1
    Accounts = {a1, a2}
    FirstAccount = a1
    NoAccount = none
    Names = {"anna", "ben"}
    FirstNames <- MCFirstNames
    Photos = {i1, i2}
    NoPhoto = none
    MaxEdits = 6
    MaxSwitches = 1
    MaxRuns = 2
    MaxStatus = 2
    MaxCloseSteps = 3
    MaxTrades = 2
    MaxCreations = 2
    MaxReadings = 3
    MaxGods = 2
    MaxGodPolls = 3
    Rows = {r1, r2, r3}
    FirstRow = r1
    SharedRow = r2
    LastRow = r3
    Users = {u1, u2}
    FirstUser = u1
    Creator <- MCCreator
    Lists <- MCLists
    MaxChains = 2
    Coins = {c1, c2, c3}
    MaxReadCoins = 3
    MaxUserFaults = 1
    Wells = {w1, w2}
    FirstWell = w1
    NoWell = none
    DryWell = w1
    LowCycles <- MCLowCycles
    MaxBatches = 4
    MaxPageFaults = 1
INVARIANTS
    ListAgrees
    CommentsAgree
    QuoteAgrees
    
    StepsAgree
    FeedsAgree
PROPERTIES
    SkeletonEnds
CHECK_DEADLOCK FALSE
