------------------------------ MODULE MCSessions ------------------------------
(* Two sessions, the reaper, one client and one observer. *)
EXTENDS Sessions, TLC

CONSTANTS s1, s2, d1, o1

MCSids == {s1, s2}
MCClients == {d1}
MCObservers == {o1}
===============================================================================
