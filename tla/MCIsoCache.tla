----------------------------- MODULE MCIsoCache -----------------------------
EXTENDS IsoCache, TLC

CONSTANTS p1, p2

MCProcs == {p1, p2}
MCMaxLeaked == 1
Symmetry == Permutations(MCProcs)
====
