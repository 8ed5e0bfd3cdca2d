SPECIFICATION LifecycleSpec
CONSTANTS
    Names = {n1}
    Routes = {"r1"}
    None = "none"
    Gone = "gone"
    InboxCap = 2
    Renames = FALSE
    Flaky = TRUE
    SweepReportsGone = TRUE
    Optional = {"debounce", "log", "http"}
    OtherRunners = {"http"}
    Excludes <- MCExcludes
    Buffered = TRUE
INVARIANTS LifecycleTypeOK ReturnsDrained
PROPERTIES RunReturns ChangeReconciled DrainEnds
