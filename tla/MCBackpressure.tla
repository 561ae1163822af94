---------------------------- MODULE MCBackpressure ----------------------------
(* BackpressureControl with the settings' defaults. *)
EXTENDS BackpressureControl, TLC
===============================================================================
