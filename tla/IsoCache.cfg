CONSTANTS
    p1 = p1
    p2 = p2
    Procs <- MCProcs
    MaxLeaked <- MCMaxLeaked
    ReleaseCandidate = TRUE
SPECIFICATION Spec
INVARIANT TypeOK
INVARIANT CacheWhole
 
 
SYMMETRY Symmetry
