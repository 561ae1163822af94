------------------------------ MODULE MCIngestor ------------------------------
(* Ingestor with two connections on one session; the cfg files choose the    *)
(* channels.  Connections are interchangeable only where no temporal property *)
(* is checked, so no symmetry is used.                                        *)
EXTENDS Ingestor, TLC

CONSTANTS c1, c2

MCConns == {c1, c2}
===============================================================================
