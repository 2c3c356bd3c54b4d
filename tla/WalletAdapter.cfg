\* Two principals, two wallets of which one is not detected, one canister, two chains in flight;
\* groups of one step, the last without an onSuccess, two execute calls, three retries and two lost
\* answers.
SPECIFICATION AdapterSpec
CONSTANTS
    Principals = {p1, p2}
    Wallets = {plug, bitfinity}
    Detected = {plug}
    Canisters = {launcher}
    Launcher = launcher
    Tasks = {t1, t2}
    None = None
    MaxClicks = 3
    MaxLeaves = 1
    MaxReloads = 1
    Groups <- MCChain
    WithSuccess = {1, 2}
    WithFail = {1, 2, 3}
    MaxExecutes = 2
    MaxRetries = 3
    MaxUnseen = 2
INVARIANTS
    SessionAgrees
    SignerKnown
    ExecutedOnce
    DoneMeansAll
    SuccessReported
PROPERTIES
    ChainsSettle
CHECK_DEADLOCK FALSE
