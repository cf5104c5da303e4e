SPECIFICATION Spec
CONSTANTS
    r1 = r1
    r2 = r2
    d1 = d1
    d2 = d2
    c1 = c1
    p1 = p1
    Runs = {r1, r2}
    MaxFaults = 1
    MaxTime = 0
    Docs = {d1}
    Refs = {c1}
    NoRef = NoRef
    RefOf <- OneRefOf
    Big = {}
    Repos = {p1}
    Config = Config
    Paths <- MCPaths
    Contents <- MCContents
    Absent = Absent
    Partial = Partial
    Nobody = Nobody
    Defaults = Defaults
    Off = Off
    Malformed = Malformed
    Custom = Custom
    Found = {Absent}
    Edits = {Custom}
    Stores <- FreshStore
PROPERTY NeverOverwritesConfig
