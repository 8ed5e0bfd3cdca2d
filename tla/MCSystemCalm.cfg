SPECIFICATION CalmSpec
CONSTANTS
    Jobs = {j1}
    Contents = {"a", "b", "bad"}
    Valid <- MCValid
    MaxAttempts = 2
    DoneCap = 1
    Sole = "lan/caddy"
    Absent = "absent"
    Empty = "empty"
    Torn = "torn"
INVARIANTS SystemTypeOK OnlyVettedReplaces QuietIsPublished
PROPERTIES ChangeArrives ReconcilesAsSpecified
