---------------------------- MODULE MCMachineStore ----------------------------
(* Two machine names, so that rm runs its loop over more than one machine, *)
(* and two instances per name, so that an instance can be left behind and *)
(* the name created again.                                                 *)
EXTENDS MachineStore, TLC

CONSTANTS m1, m2

MCNames == {m1, m2}
MCMaxVMs == 2

\* The two names play the same part.
Symmetry == Permutations(MCNames)
====
