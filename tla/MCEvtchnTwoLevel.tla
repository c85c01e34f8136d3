-------------------------- MODULE MCEvtchnTwoLevel --------------------------
(* Two words of one port each, so that the cursor of the poll wraps.       *)
EXTENDS EvtchnTwoLevel
=============================================================================
