------------------------------- MODULE MCSync -------------------------------
(* Three CPUs; any of them may own the suspend, so that CPU 0 is the owner *)
(* in some behaviours and a worker in others.                              *)
EXTENDS Sync
=============================================================================
