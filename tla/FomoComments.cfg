\* Three comments of which two are in flight at once, one failing call and a
\* trade reported meanwhile.
SPECIFICATION LiveSpec
CONSTANTS
    Users = {u1, u2}
    Calls = {c1, c2}
    Reports = {r1}
    None = None
    MaxComments = 3
    MaxCounts = 1
    MaxGrants = 2
    MaxReports = 1
    MaxFailures = 1
INVARIANTS
    CommentsPaid
    RepliesAgree
PROPERTIES
    PaidIsStored
CHECK_DEADLOCK FALSE
