SPECIFICATION Spec
CONSTANTS
    Names = {n1, n2}
    Routes = {"r1"}
    None = "none"
    Gone = "gone"
    InboxCap = 2
    Renames = TRUE
    Flaky = TRUE
    SweepReportsGone = FALSE
INVARIANTS TypeOK TrackedIsFleet WarmIsReconciled
PROPERTIES ColdIsQuiet
SYMMETRY NameSymmetry
CONSTRAINT Bound
