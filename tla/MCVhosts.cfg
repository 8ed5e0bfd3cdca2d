SPECIFICATION Spec
CONSTANTS
    Instances <- MCInstances
    Labels <- MCLabels
    Interfaces <- MCInterfaces
    Fixed = "10.9:9"
    Files <- MCFiles
    Paths <- MCPaths
    TemplatesDir = "templates"
    GlobalTemplate = "global"
    Fails = {"{{bad", "missing"}
    Blank = {"blank"}
    Missing = "missing"
INVARIANTS TypeOK UpstreamsMerged AliasesYield TemplatesApply
