CONSTANTS
    m1 = m1
    m2 = m2
    Names <- MCNames
    MaxVMs <- MCMaxVMs
    ByName = TRUE
    StoreMayFail = TRUE
SPECIFICATION Spec
INVARIANT NoUntrackedInstance
INVARIANT RmEveryNameAccounted
INVARIANT RmCleanMeansRemoved
SYMMETRY Symmetry
