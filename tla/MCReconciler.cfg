SPECIFICATION LifeSpec
CHECK_DEADLOCK FALSE
CONSTANTS
    Targets = {"lan/caddy", "os:caddy"}
    Key <- MCKey
    Jobs = {j1, j2, j3}
    Contents = {"a", "b"}
    Renderings <- MCRenderings
    DoneCap = 1
    Absent = "absent"
INVARIANTS TypeOK CancellableIsCurrent
PROPERTIES Isolated RecordFollows ShutdownEnds
