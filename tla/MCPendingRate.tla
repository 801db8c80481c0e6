---------------------------- MODULE MCPendingRate ----------------------------
(* An instance of PendingRate for TLC.                                      *)
EXTENDS PendingRate

CONSTANTS t1, t2

MCTwoTasks == {t1, t2}

MCLimited == {"High"}
MCPriorities == {"High", "VeryHigh"}
=============================================================================
