------------------------------ MODULE MCStore ------------------------------
(* Two interchangeable clients: at DISPATCH_LEVEL with two kinds of object  *)
(* at a time, and at PASSIVE_LEVEL with watches and failing allocations.   *)
EXTENDS Store, TLC

BothLevels ==
  {[passive |-> {}, noMemory |-> FALSE, kinds |-> {"transaction", "watch"}],
   [passive |-> {}, noMemory |-> FALSE, kinds |-> {"transaction", "buffer"}],
   [passive |-> {}, noMemory |-> FALSE, kinds |-> {"watch", "buffer"}],
   [passive |-> Clients, noMemory |-> TRUE, kinds |-> {"watch"}]}
Interchangeable == Permutations(Clients)
=============================================================================
