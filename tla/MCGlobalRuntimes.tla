-------------------------- MODULE MCGlobalRuntimes --------------------------
(* Instances of GlobalRuntimes for TLC.                                     *)
EXTENDS GlobalRuntimes, TLC

CONSTANTS t1, t2, t3

MCThreads == {t1, t2, t3}
MCSymmetry == Permutations(MCThreads)
=============================================================================
