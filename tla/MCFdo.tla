------------------------------- MODULE MCFdo -------------------------------
(* One class and two identities, so that a device can come back while its  *)
(* predecessor is still being removed.                                     *)
EXTENDS Fdo
\* What happens around the driver, one request kind at a time; the second,
\* smaller, set is for liveness.
Around == {{"device", r} : r \in {"stop", "sleep", "remove"}}
          \cup {{"failure", r} : r \in {"stop", "sleep", "remove"}}
          \cup {{"shutdown", "target", r} : r \in {"stop", "sleep", "remove"}}
Split  == {{"device", "stop"}, {"device", "remove"},
           {"shutdown", "target", "stop"}, {"shutdown", "target", "sleep"}}
=============================================================================
