----------------------------- MODULE MCRuntime -----------------------------
(* An instance of Runtime for TLC.                                          *)
EXTENDS Runtime

CONSTANTS u1, t1, f1, f2, w1, w2, x1

MCUsers == {u1}
MCTasks == {t1}
MCFunctions == {f1, f2}
MCWorkers == {w1, w2}
MCExtra == {x1}
=============================================================================
