---------------------------- MODULE MCStoreRing ----------------------------
(* A ring shorter than the messages, so that each is cut up and the indices *)
(* wrap within a message; one reply has a payload and one has none.        *)
EXTENDS StoreRing

RequestSegments == <<2, 1, 1>>
Replies == [t \in 1 .. Threads |-> IF t = 1 THEN 0 ELSE 1]
=============================================================================
