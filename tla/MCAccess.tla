------------------------------- MODULE MCAccess -------------------------------
(* Two processes, at least one of them a worker, and two tokens.            *)
EXTENDS Access, TLC

CONSTANTS w1, w2, c1, t1, t2, i1, i2, i3

MCTwoWorkers == {w1, w2}
MCTokens == {t1, t2}
MCInodes == {i1, i2, i3}
===============================================================================
