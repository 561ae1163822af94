-------------------------- MODULE BackpressureControl --------------------------
(***************************************************************************)
(* The backpressure controller at work: _stats_loop calls update() once a  *)
(* second with the pool's in_flight, calls start, end and fail in between, *)
(* errors age out of the one-minute window, and the five seconds that must *)
(* separate a lowering from the last change go by.                         *)
(***************************************************************************)
EXTENDS Backpressure

CONSTANTS Workers,    \* settings.workers: the pool's size bounds in_flight
          MaxErrors   \* bound: errors in the window (60 in the code)

ASSUME ControlAssumption == Workers \in Nat /\ MaxErrors \in Nat

VARIABLES level,      \* Backpressure.current_level
          settled,    \* now - last_level_change_t > 5.0
          depth,      \* WorkerPool.in_flight
          errors      \* errors in error_window less than 60 s old

vars == <<level, settled, depth, errors>>

TypeOK ==
  /\ level \in Levels
  /\ settled \in BOOLEAN
  /\ depth \in 0..Workers
  /\ errors \in 0..MaxErrors

Init == level = 0 /\ settled = TRUE /\ depth = 0 /\ errors = 0

CallStarts ==
  /\ depth < Workers
  /\ depth' = depth + 1
  /\ UNCHANGED <<level, settled, errors>>

\* A call fails: record_error(), before the failure is announced and the slot
\* given back (the window holds the last 60).
CallFails ==
  /\ depth > 0
  /\ errors' = IF errors < MaxErrors THEN errors + 1 ELSE errors
  /\ UNCHANGED <<level, settled, depth>>

CallEnds ==
  /\ depth > 0
  /\ depth' = depth - 1
  /\ UNCHANGED <<level, settled, errors>>

ErrorExpires ==
  /\ errors > 0
  /\ errors' = errors - 1
  /\ UNCHANGED <<level, settled, depth>>

FiveSecondsPass ==
  /\ ~ settled
  /\ settled' = TRUE
  /\ UNCHANGED <<level, depth, errors>>

Update ==
  /\ level' = NextLevel(level, depth, errors, settled)
  /\ settled' = (settled /\ level' = level)
  /\ UNCHANGED <<depth, errors>>

Next == CallStarts \/ CallFails \/ CallEnds \/ ErrorExpires \/ FiveSecondsPass \/ Update

Spec == Init /\ [][Next]_vars

\* The stats loop keeps running and time passes; calls come as they may.
FairSpec ==
  Spec /\ WF_vars(Update) /\ WF_vars(FiveSecondsPass) /\ WF_vars(ErrorExpires)

-------------------------------------------------------------------------------
\* A step up the ladder needs a cause that can occur.  The depth update() is fed
\* is the calls in flight, which the pool bounds, so with a pool smaller than
\* bp_l2 and bp_l3 (4, 8 and 12 by default) depth alone reaches "mild", errors alone reach
\* "heavy", and nothing reaches "circuit".
LadderNeedsCause ==
  [][level' > level /\ Workers < BpL2 /\ Workers < BpL3 =>
       \/ level' = 1 /\ depth >= BpL1
       \/ level' = 2 /\ errors > ErrLimit]_vars

\* The comment in update(): "upgrade only after depth has stayed below the
\* level's threshold", that is, once the load is gone for good, the controller
\* comes back to "normal".
LevelRecovers == <>[](depth = 0 /\ errors = 0) => <>[](level = 0)
===============================================================================
