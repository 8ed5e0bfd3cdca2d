SPECIFICATION Spec
CONSTANTS
    Names = {n1, n2}
    Routes = {"r1"}
    None = "none"
    Gone = "gone"
    InboxCap = 3
    Renames = TRUE
    Flaky = FALSE
    SweepReportsGone = TRUE
INVARIANT StoppedIsUnrouted
