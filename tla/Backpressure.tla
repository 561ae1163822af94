----------------------------- MODULE Backpressure -----------------------------
(***************************************************************************)
(* The backpressure controller (scheduler.py, Backpressure.update) as the  *)
(* operator that computes its next level.  The clock is abstracted by two  *)
(* facts the code derives from it: how many errors are less than 60        *)
(* seconds old, and whether the last level change is more than 5 seconds   *)
(* old.                                                                    *)
(***************************************************************************)
EXTENDS Integers

CONSTANTS BpL1, BpL2, BpL3,   \* settings.bp_l1, bp_l2, bp_l3
          ErrLimit            \* recent errors tolerated (5 in the code)

ASSUME BackpressureAssumption ==
  /\ BpL1 \in Nat /\ BpL2 \in Nat /\ BpL3 \in Nat
  /\ ErrLimit \in Nat

\* Indices of LADDER: 0 normal, 1 mild, 2 heavy, 3 circuit.
Levels == 0..3

Higher(a, b) == IF a >= b THEN a ELSE b

DepthTarget(level, depth) ==
  CASE depth >= BpL3 -> 3
    [] depth < BpL3 /\ depth >= BpL2 -> Higher(level, 2)
    [] depth < BpL3 /\ depth < BpL2 /\ depth >= BpL1 -> Higher(level, 1)
    [] OTHER -> level

\* Mutation: an error too few suffices.
TargetOneErrorEarly(level, depth, recent) ==
  IF recent >= ErrLimit /\ level < 2
  THEN Higher(DepthTarget(level, depth), 2)
  ELSE DepthTarget(level, depth)

Target(level, depth, recent) ==
  IF recent > ErrLimit /\ level < 2
  THEN Higher(DepthTarget(level, depth), 2)
  ELSE DepthTarget(level, depth)

Threshold(level) == CASE level = 0 -> 0
                      [] level = 1 -> BpL1
                      [] level = 2 -> BpL2
                      [] OTHER     -> BpL3

\* The level after update(depth).
NextLevel(level, depth, recent, settled) ==
  LET target == Target(level, depth, recent)
  IN  CASE target > level -> target
        [] target < level /\ depth < Threshold(level) /\ settled -> target
        [] OTHER -> level
===============================================================================
