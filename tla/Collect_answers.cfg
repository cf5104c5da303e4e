SPECIFICATION CollectSpec
CONSTANTS
    s1 = s1
    s2 = s2
    s3 = s3
    Submitters = {s1, s2, s3}
    Digests = {1, 2, 3, 4, 5}
    ProfileOf <- MCProfileOf
    IdsOf <- MCIdsOf
    NoProfile = 0
    MaxTime = 2
SYMMETRY Symmetry
INVARIANTS
    CollectTypeOK
    QualifiedIdsUnique
    SupersededByCurrent
    OrderIsKept
