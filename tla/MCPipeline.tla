------------------------------ MODULE MCPipeline ------------------------------
(* One session with a few windows and escalations; see README.md for how    *)
(* the bounds keep the code's ratios between workers and thresholds.        *)
EXTENDS Pipeline, TLC

CONSTANTS e1, e2

MCEscalations == {e1, e2}

MCSym == Permutations(MCEscalations)
===============================================================================
