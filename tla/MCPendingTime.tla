---------------------------- MODULE MCPendingTime ----------------------------
(* Instances of PendingTime for TLC.                                        *)
EXTENDS PendingTime

CONSTANTS t1

MCTasks == {t1}
MCPriorities == {"High", "VeryHigh"}
\* Below, at and above `inter', and more than twice as much.
MCElapsed == {0, 3, 10, 11, 24}
=============================================================================
