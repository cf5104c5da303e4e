SPECIFICATION FairSpec
CONSTANTS
    r1 = r1
    r2 = r2
    d1 = d1
    d2 = d2
    c1 = c1
    p1 = p1
    Runs = {r1, r2}
    MaxFaults = 2
    MaxTime = 1
    Docs = {d1, d2}
    Refs = {c1}
    NoRef = NoRef
    RefOf <- MCRefOf
    Big <- MCBig
    Repos = {p1}
    Config = Config
    Paths <- MCPaths
    Contents <- MCContents
    Absent = Absent
    Partial = Partial
    Nobody = Nobody
    Defaults = Defaults
    Off = Off
    Malformed = Malformed
    Custom = Custom
    Found = {Absent, Off}
    Edits = {Malformed}
    Stores <- AnyStore
INVARIANTS
    TypeOK
    RowHasFile
    NoTornFile
    OrphanHasCause
    TreesTellTruth
    VerdictIsRecorded
    ToolFailureLeavesNoRow
    VerdictLeavesNoTemp
    SchemaMatchesVersion
    NoStaleMigration
PROPERTIES
    ImplementsRunLog
    EveryRunEnds
