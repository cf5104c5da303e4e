SPECIFICATION VerifySpec
CONSTANTS
    c1 = c1
    c2 = c2
    t1 = t1
    f = f
    g = g
    one = one
    two = two
    link = link
    Refs = {c1, c2, t1}
    NoRef = NoRef
    Commits = {c1, c2}
    Paths = {f, g}
    Blobs = {one, two, link}
    Links = {link}
    LeadsTo <- MCLeadsTo
    LinesOf <- MCLinesOf
    Directory = Directory
    Missing = Missing
    TreeOf <- MCTreeOf
    MaxFaults = 1
    Jobs <- MCJobs
INVARIANTS
    FindingsAreTrue
    ValidIsVerified
    CleanOnceAgreed
    DivergedOnceDiffered
