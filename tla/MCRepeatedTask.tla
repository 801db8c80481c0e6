--------------------------- MODULE MCRepeatedTask ---------------------------
(* Instances of RepeatedTask for TLC.                                       *)
EXTENDS RepeatedTaskProps

CONSTANTS c1, c2, c3

MCCallers == {c1, c2, c3}
MCTwoCallers == {c1, c2}

\* Zero and positive sleeps are what the loop tells apart.
MCIntervals == {0, 2}
MCPositiveIntervals == {2}
MCZeroInterval == {0}
MCInitialDelays == {NoDelay, 0, 1}
=============================================================================
