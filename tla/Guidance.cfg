SPECIFICATION GuidanceSpec
CHECK_DEADLOCK FALSE
CONSTANTS
    Names <- MCNames
    Stem <- MCStem
    Plain <- MCPlain
    Folded <- MCFolded
    MaxRunes = 2
    Requests <- MCRequests
    Contents <- MCContents
    MaxEdits = 2
    Catalogues <- MCCatalogues
    Lookups <- MCLookups
INVARIANTS
    ListIsFaithful
    PrimeTellsTruth
    OnlyTheNamed
    OfferedNamesOpen
    NothingIsGuessed
