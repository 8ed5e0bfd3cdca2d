SPECIFICATION Spec
CHECK_DEADLOCK FALSE
CONSTANTS
    Asks <- MCAsks
    Commas <- MCCommas
    Separators <- MCSeparators
    Styles = {"plain", "value", "entry"}
    MaxTargets = 3
    Negated <- MCNegated
    WrittenList <- MCWrittenList
INVARIANTS TypeOK ListsSurvive NoneMispaired
