SPECIFICATION SetupSpec
CONSTANTS
    Alnum <- MCAlnum
    Capitals = {"A"}
    LowerOf <- MCLowerOf
    Unsafe = {"+", "/"}
    MaxSegment = 7
    MaxName = 23
    Dirs <- MCDirs
    HomeDirs <- MCHomeDirs
    PathsSaid <- MCPathsSaid
    ReposSaid <- MCReposSaid
    Places <- MCPlaces
    Starts <- MCStarts
INVARIANTS
    NamesAreSafe
    SpellingsAgree
    NoNameFromSilence
    AcceptedIsObeyed
