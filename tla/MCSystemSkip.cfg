SPECIFICATION BusySpec
CONSTANTS
    Jobs = {j1, j2}
    Contents = {"a", "b"}
    Valid <- MCValid
    MaxAttempts = 1
    DoneCap = 1
    Sole = "lan/caddy"
    Absent = "absent"
    Empty = "empty"
    Torn = "torn"
INVARIANT QuietIsPublished
CONSTRAINT SkipsInFlight
