------------------------- MODULE MCRepeatedOnRuntime -------------------------
(* An instance of RepeatedOnRuntime for TLC.                                *)
EXTENDS RepeatedOnRuntime

CONSTANTS c1, c2, fn

MCThreeCallers == {c1, c2, fn}
MCIntervals == {0, 2}
MCInitialDelays == {NoDelay, 0}
=============================================================================
