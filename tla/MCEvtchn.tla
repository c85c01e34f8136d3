------------------------------ MODULE MCEvtchn ------------------------------
(* Model-checking instances of Evtchn.  Cpu0 tells a processor apart and    *)
(* the runs have one or two channels, so no symmetry is declared.          *)
EXTENDS Evtchn
=============================================================================
