SPECIFICATION ReadersSpec
CONSTANTS
    r1 = r1
    r2 = r2
    d1 = d1
    c1 = c1
    p1 = p1
    q1 = q1
    Runs = {r1, r2}
    MaxFaults = 0
    MaxTime = 0
    Docs = {d1}
    Refs = {c1}
    NoRef = NoRef
    RefOf <- OneRefOf
    Big = {}
    Repos = {p1}
    Config = Config
    Paths <- MCPaths
    Contents <- MCContents
    Absent = Absent
    Partial = Partial
    Nobody = Nobody
    Defaults = Defaults
    Off = Off
    Malformed = Malformed
    Custom = Custom
    Found = {Absent}
    Edits = {}
    Stores <- OldStore
    Readers = {q1}
    Asked <- EveryForm
    NotJSON = {}
    Tampers <- Forgeries
    MaxSlips = 1
INVARIANTS
    ReadersTypeOK
    CompleteAnswer
    TotalCoversListed
    ToolErrorHasCause
    ShownIsPromised
