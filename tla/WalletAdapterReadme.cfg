\* The batch of the adapter's README: its second step has no callbacks.
SPECIFICATION AdapterSpec
CONSTANTS
    Principals = {p1, p2}
    Wallets = {plug, bitfinity}
    Detected = {plug}
    Canisters = {launcher}
    Launcher = launcher
    Tasks = {t1, t2}
    None = None
    MaxClicks = 1
    MaxLeaves = 0
    MaxReloads = 0
    Groups <- MCReadme
    WithSuccess = {1}
    WithFail = {1}
    MaxExecutes = 1
    MaxRetries = 0
    MaxUnseen = 0
INVARIANTS
    CallbacksOptional
CHECK_DEADLOCK FALSE
