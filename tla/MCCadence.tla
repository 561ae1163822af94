------------------------------ MODULE MCCadence ------------------------------
(* In ticks of an eighth of a second: windows of 1.5 s, and the ladder's      *)
(* level 0, with which a session starts.                                      *)
EXTENDS Cadence, TLC

DefaultStride == 0 :> 12
DefaultMaxFrames == 0 :> 8
===============================================================================
