---------------------------- MODULE MCEvtchnFifo ----------------------------
(* Ports 1 and 2 share a queue, port 3 has a higher one of its own.        *)
EXTENDS EvtchnFifo

Priorities == [p \in 1 .. PortCount |-> IF p < 3 THEN 3 ELSE 7]
=============================================================================
