SPECIFICATION ValidateSpec
CHECK_DEADLOCK FALSE
CONSTANTS
    Texts <- MCTexts
    ExactFloatInt = 16
    MaxInt = 24
    Admitted <- MCAdmitted
    Distance <- MCDistance
    Commits <- MCCommits
    Labels <- MCLabels
    Climbing <- MCClimbing
    Unprintable <- MCUnprintable
    IdOf <- MCIdOf
    Normal <- MCNormal
    Fold <- MCFold
    Clauses <- MCClauses
    Phrases = {"lgtm"}
    BodyFloor = 2
    FlatFloor = 2
    FloodLimit = 2
    FewComments = 2
    Starts <- MCStarts
INVARIANTS
    ValidIsUsable
    NoDefectIsHidden
    SilenceMeansSound
    AssessmentMatchesBands
    LensesOpen
