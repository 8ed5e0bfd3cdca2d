SPECIFICATION Spec
CONSTANTS
    Jobs = {j1, j2}
    Contents = {"a", "b", "bad"}
    Valid <- MCValid
    MaxAttempts = 2
    Absent = "absent"
    Empty = "empty"
    Torn = "torn"
INVARIANTS TypeOK OnlyVettedReplaces SuccessIsLoaded
PROPERTIES Publishes Terminates
