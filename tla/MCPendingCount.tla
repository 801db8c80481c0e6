--------------------------- MODULE MCPendingCount ---------------------------
(* An instance of PendingCount for TLC.                                     *)
EXTENDS PendingCount

CONSTANTS t1, t2

MCTwoTasks == {t1, t2}

MCPriorities == {"High", "VeryHigh"}
MCBuilds == BOOLEAN
=============================================================================
