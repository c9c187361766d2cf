CONSTANTS
    m1 = m1
    m2 = m2
    Names <- MCNames
    MaxVMs <- MCMaxVMs
    ByName = FALSE
    StoreMayFail = TRUE
SPECIFICATION Spec
INVARIANT NoUntrackedInstance
SYMMETRY Symmetry
