SPECIFICATION Spec
CONSTANTS
    p1 = p1
    p2 = p2
    Profiles = {p1, p2}
    Rank <- MCRank
    Docs = {1, 4}
    BadDocs = {}
    RejectedDocs = {4}
    Ties = FALSE
    Lagging = {"job"}
    MaxUid = 2
    MaxGen = 2
    MaxVersion = 2
    MaxTamoss = 2
    MaxDisturbances = 2
INVARIANTS  OneOwner
PROPERTIES OnlyOwnerDeletes UndoneBeforeRelease
CHECK_DEADLOCK FALSE
SYMMETRY MCSymmetry
