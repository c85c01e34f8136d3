------------------------------- MODULE Balloon -------------------------------
(***************************************************************************)
(* The BALLOON interface (src/src/xenbus/balloon.c): pages are allocated   *)
(* from Windows and given to the hypervisor (inflation), or populated and  *)
(* given back (deflation), at most an array of them at a time, by one      *)
(* thread.  What the hypervisor and the memory manager do in between shows *)
(* in three sets of pages: those Windows has, those with memory behind     *)
(* them, and those in the range set.                                       *)
(*                                                                         *)
(* The range set is what RangeSet shows it to be: it may fail to put or,   *)
(* splitting a range, to get.  Rates, and the time they are measured in,   *)
(* are a choice (Slow).                                                    *)
(***************************************************************************)
EXTENDS Integers, Sequences, FiniteSets

CONSTANTS
  Pfn,         \* page frame numbers
  ArraySize    \* XENBUS_BALLOON_PFN_ARRAY_SIZE

ASSUME BalloonAssumption ==
  Pfn \subseteq Nat \ {0} /\ IsFiniteSet(Pfn) /\ ArraySize \in Nat \ {0}

VARIABLES
  windows,        \* pages the memory manager has
  backed,         \* pages with memory behind them
  balloonSet,     \* contents of Context->RangeSet
  PfnArray,       \* Context->PfnArray, 0 where it was zeroed
  Size,
  balloon,        \* what BalloonAdjust is doing
  leaked,         \* pages that MmAddPhysicalMemory did not take
  balloonFailed   \* a range set operation that is asserted to succeed has failed

balloonVars == <<windows, backed, balloonSet, PfnArray, Size, balloon, leaked, balloonFailed>>

Still == [pc |-> "idle", size |-> 0, requested |-> 0, count |-> 0, n |-> 0, done |-> 0,
          status |-> "success", inflation |-> FALSE, deflation |-> FALSE]
FirstPages(k) == {PfnArray[i] : i \in 1 .. k}
Least(a, b) == IF a < b THEN a ELSE b

BalloonInit ==
  /\ windows = Pfn /\ backed = Pfn /\ balloonSet = {} /\ PfnArray = [i \in 1 .. ArraySize |-> 0]
  /\ Size = 0 /\ balloon = Still /\ leaked = {} /\ balloonFailed = FALSE

-----------------------------------------------------------------------------
(* Heap sort, on the first n elements of a sequence.                       *)

SwapNodes(s, i, j) == [s EXCEPT ![i] = s[j], ![j] = s[i]]

\* A node goes down while a child is larger, to the place of its largest child.
BalloonHeapPushDown(s, start, n) ==
  LET down[k \in [1 .. Len(s) -> Nat] \X (1 .. n)] ==
        LET h == k[1]  i == k[2]  larger == {c \in {2 * i, 2 * i + 1} : c <= n /\ h[c] > h[i]}
        IN IF larger = {} THEN h
           ELSE LET c == CHOOSE x \in larger : \A y \in larger : h[x] >= h[y] IN down[<<SwapNodes(h, i, c), c>>]
  IN down[<<s, start>>]

BalloonCreateHeap(s) ==
  LET heap[i \in 1 .. Len(s) + 1] ==
        IF i > Len(s) THEN s ELSE BalloonHeapPushDown(heap[i + 1], i, Len(s))
  IN heap[1]

\* The largest of the first n goes to their end, for n down to 1.
BalloonSort(s) ==
  LET sorted[n \in 1 .. Len(s) + 1] ==
        IF n > Len(s) THEN BalloonCreateHeap(s)
        ELSE LET swapped == SwapNodes(sorted[n + 1], 1, n)
             IN IF n = 1 THEN swapped ELSE BalloonHeapPushDown(swapped, 1, n - 1)
  IN sorted[1]

\* The orders in which the memory manager may give the pages of a set.
Orders(S) == {f \in [1 .. Cardinality(S) -> S] : \A i, j \in DOMAIN f : f[i] = f[j] => i = j}

-----------------------------------------------------------------------------
(* The pieces of an adjustment.                                            *)

\* BalloonFreePages gives runs of consecutive pages to the memory manager, and stops
\* at the first run it does not take.
BalloonFreePages(array, n) ==
  \E k \in 0 .. n :
    /\ k \in 1 .. n - 1 => array[k + 1] # array[k] + 1
    /\ windows' = windows \cup {array[i] : i \in 1 .. k}
    /\ leaked' = leaked \cup {array[i] : i \in k + 1 .. n}

Zeroed(array, n) == [i \in 1 .. ArraySize |-> IF i <= n THEN 0 ELSE array[i]]
ThisTime == Least(balloon.requested - balloon.count, ArraySize)

\* The loops of BalloonInflate and BalloonDeflate end with Size.
Loop(pc, count, status) ==
  balloon' = [balloon EXCEPT !.pc = pc, !.count = count, !.status = status, !.n = 0, !.done = 0]

-----------------------------------------------------------------------------
(* BalloonAdjust.                                                          *)

\* The flags of FIST are read once; one that would not be looked at is not chosen.
BalloonAdjust(size) ==
  /\ balloon.pc = "idle"
  /\ \E inflation, deflation \in BOOLEAN :
       /\ inflation => size > Size
       /\ deflation => size < Size
       /\ balloon' = [Still EXCEPT !.pc = "adjust", !.size = size,
                                   !.inflation = inflation, !.deflation = deflation]
  /\ UNCHANGED <<windows, backed, balloonSet, PfnArray, Size, leaked, balloonFailed>>

\* The loop: inflate, deflate or return.
BalloonRound ==
  LET go(pc, n) == balloon' = [balloon EXCEPT !.pc = pc, !.requested = n, !.count = 0] IN
  /\ balloon.pc = "adjust"
  /\ \/ /\ Size = balloon.size \/ balloon.status # "success"
        /\ balloon' = Still
     \/ /\ balloon.status = "success" /\ balloon.size > Size
        /\ \/ balloon.inflation /\ balloon' = [balloon EXCEPT !.status = "fist"]
           \/ ~balloon.inflation /\ balloon' = [balloon EXCEPT !.status = "low_memory"]
           \/ ~balloon.inflation /\ go("inflate", balloon.size - Size)
     \/ /\ balloon.status = "success" /\ balloon.size < Size
        /\ \/ balloon.deflation /\ balloon' = [balloon EXCEPT !.status = "fist"]
           \/ ~balloon.deflation /\ go("deflate", Size - balloon.size)
  /\ UNCHANGED <<windows, backed, balloonSet, PfnArray, Size, leaked, balloonFailed>>

BalloonInflated ==
  /\ balloon.pc = "inflate" /\ (balloon.count >= balloon.requested \/ balloon.status # "success")
  /\ Size' = Size + balloon.count /\ Loop("adjust", 0, balloon.status)
  /\ UNCHANGED <<windows, backed, balloonSet, PfnArray, leaked, balloonFailed>>

\* The memory manager gives up to as many pages as asked for, in any order.
BalloonAllocatePfnArray ==
  /\ balloon.pc = "inflate" /\ balloon.count < balloon.requested /\ balloon.status = "success"
  /\ \E S \in SUBSET windows :
       /\ Cardinality(S) <= ThisTime /\ windows' = windows \ S
       /\ \E given \in Orders(S), slow \in BOOLEAN :
            LET n == Cardinality(S)
                sorted == IF n = 0 THEN given ELSE BalloonSort(given) IN
            /\ PfnArray' = [i \in 1 .. ArraySize |-> IF i <= n THEN sorted[i] ELSE PfnArray[i]]
            /\ balloon' = [balloon EXCEPT !.pc = "put", !.n = n,
                             !.status = IF n < ThisTime \/ slow THEN "retry" ELSE @]
  /\ UNCHANGED <<backed, balloonSet, Size, leaked, balloonFailed>>

\* BalloonReleasePfnArray: pages go to the range set, one by one until it fails ...
ReleasePut ==
  /\ balloon.pc = "put"
  /\ \E k \in 0 .. balloon.n :
       /\ balloonSet' = balloonSet \cup FirstPages(k)
       /\ balloon' = [balloon EXCEPT !.pc = "decrease", !.done = k]
  /\ UNCHANGED <<windows, backed, PfnArray, Size, leaked, balloonFailed>>

\* Mutant: the pages that were not released stay in the range set.
ReleaseDecreaseOnly ==
  /\ balloon.pc = "decrease"
  /\ \E released \in 0 .. balloon.done :
       /\ backed' = backed \ FirstPages(released)
       /\ PfnArray' = Zeroed(PfnArray, released)
       /\ balloon' = [balloon EXCEPT !.pc = "free", !.done = released]
  /\ UNCHANGED <<windows, Size, leaked, balloonSet, balloonFailed>>

\* ... then to the hypervisor, which takes some; the range set gives back the others.
ReleaseDecrease ==
  /\ balloon.pc = "decrease"
  /\ \E released \in 0 .. balloon.done :
       LET kept == {PfnArray[i] : i \in released + 1 .. balloon.done} IN
       /\ backed' = backed \ FirstPages(released)
       /\ PfnArray' = Zeroed(PfnArray, released)
       /\ \/ balloonSet' = balloonSet \ kept /\ UNCHANGED balloonFailed
          \/ \E x \in kept : /\ {x - 1, x + 1} \subseteq balloonSet
                              /\ balloonSet' = balloonSet \ (kept \ {x}) /\ balloonFailed' = TRUE
       /\ balloon' = [balloon EXCEPT !.pc = "free", !.done = released]
  /\ UNCHANGED <<windows, Size, leaked>>

\* What was not released is moved to the front of the array and freed.
InflateFree ==
  LET released == balloon.done
      left == balloon.n - released
      moved == [i \in 1 .. ArraySize |-> IF i <= left THEN PfnArray[i + released] ELSE PfnArray[i]]
  IN /\ balloon.pc = "free"
     /\ PfnArray' = Zeroed(moved, left) /\ BalloonFreePages(moved, left)
     /\ Loop("inflate", balloon.count + released, IF released = 0 THEN "retry" ELSE balloon.status)
     /\ UNCHANGED <<backed, balloonSet, Size, balloonFailed>>

BalloonDeflated ==
  /\ balloon.pc = "deflate" /\ (balloon.count >= balloon.requested \/ balloon.status # "success")
  /\ Size' = Size - balloon.count /\ Loop("adjust", 0, balloon.status)
  /\ UNCHANGED <<windows, backed, balloonSet, PfnArray, leaked, balloonFailed>>

IthLowest(S, i) == CHOOSE x \in S : Cardinality({y \in S : y < x}) = i - 1

\* BalloonPopulatePfnArray: the lowest pages of the range set, of which the hypervisor
\* populates some; the others are put back.
BalloonPopulatePfnArray ==
  LET ask == ThisTime
      low == [i \in 1 .. ask |-> IthLowest(balloonSet, i)]
  IN /\ balloon.pc = "deflate" /\ balloon.count < balloon.requested /\ balloon.status = "success"
     /\ ask <= Cardinality(balloonSet)
     /\ \E k \in 0 .. ask :
          LET back == {low[i] : i \in k + 1 .. ask}
              out  == {low[i] : i \in 1 .. k}
          IN /\ backed' = backed \cup out
             /\ PfnArray' = [i \in 1 .. ArraySize |-> IF i <= k THEN low[i] ELSE IF i <= ask THEN 0 ELSE PfnArray[i]]
             /\ \/ balloonSet' = balloonSet \ out /\ UNCHANGED balloonFailed
                \/ \E x \in back : balloonSet' = balloonSet \ (out \cup {x}) /\ balloonFailed' = TRUE
             /\ balloon' = [balloon EXCEPT !.pc = "give", !.n = k, !.status = IF k < ask THEN "retry" ELSE @]
     /\ UNCHANGED <<windows, Size, leaked>>

DeflateFree ==
  /\ balloon.pc = "give"
  /\ PfnArray' = Zeroed(PfnArray, balloon.n) /\ BalloonFreePages(PfnArray, balloon.n)
  /\ Loop("deflate", balloon.count + balloon.n, balloon.status)
  /\ UNCHANGED <<backed, balloonSet, Size, balloonFailed>>

BalloonNext ==
  \/ \E size \in 0 .. Cardinality(Pfn) : BalloonAdjust(size)
  \/ BalloonRound \/ BalloonInflated \/ BalloonAllocatePfnArray \/ ReleasePut \/ ReleaseDecrease
  \/ InflateFree \/ BalloonDeflated \/ BalloonPopulatePfnArray \/ DeflateFree

BalloonSpec == BalloonInit /\ [][BalloonNext]_balloonVars

-----------------------------------------------------------------------------
InArray == IF balloon.pc \in {"put", "decrease", "free", "give"}
           THEN {PfnArray[i] : i \in 1 .. balloon.n} \ {0} ELSE {}

\* However little the hypervisor or the range set takes, Windows only has pages with
\* memory behind them and the array is released in strictly ascending order; and until a
\* call that is asserted to succeed fails, no page is in two places, between two chunks
\* the range set is the pages without memory, and between two adjustments Size counts
\* them.
BalloonExact ==
  /\ windows \subseteq backed
  /\ balloon.pc \in {"put", "decrease"} =>
       \A i \in 1 .. balloon.n - 1 : PfnArray[i] < PfnArray[i + 1]
  /\ ~balloonFailed =>
       /\ windows \cap InArray = {} /\ (windows \cup InArray) \cap leaked = {}
       /\ balloon.pc \in {"idle", "adjust", "inflate", "deflate"} =>
            windows \cup leaked = backed /\ balloonSet = Pfn \ backed
       /\ balloon.pc \in {"idle", "adjust"} => Size = Cardinality(balloonSet)
=============================================================================
