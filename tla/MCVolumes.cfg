SPECIFICATION Spec
CONSTANTS
    Devices = {"d1", "d2"}
    Paths <- MCPaths
    Caddyfile <- MCCaddyfile
    Contents = {"good", "bad"}
    Valid = {"good"}
    Old = "old"
    Instance = "instance"
INVARIANTS TypeOK SuccessReaches SeenIsVetted
