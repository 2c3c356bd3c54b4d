\* Two trades, two projects, two changes of the form, one rejected call.
SPECIFICATION LiveTradeSpec
CONSTANTS
    Projects = {p1, p2}
    Amounts = {0, 2}
    Balance = 4
    Margin = 1
    MaxTrades = 2
    MaxEdits = 2
    MaxPolls = 2
    MaxFailures = 1
    MaxCloses = 1
INVARIANTS
    FormAgrees
    ReportsAgree
    ShortExplained
PROPERTIES
    ButtonFreed
CHECK_DEADLOCK FALSE
