----------------------------- MODULE NumberSet -----------------------------
(***************************************************************************)
(* What the RANGE_SET interface promises its clients                       *)
(* (src/include/range_set_interface.h): a set of numbers.  Put adds an     *)
(* interval that is not there, Get takes out one that is, Pop finds one of *)
(* the length asked for.  Any of them may fail and change nothing.         *)
(***************************************************************************)
EXTENDS Integers

CONSTANT MaxNumber

VARIABLES
  items,    \* the numbers in the set
  popped    \* the interval the last Pop handed out

Intervals == {s .. e : s, e \in 1 .. MaxNumber} \ {{}}

Put(S) == S \cap items = {} /\ items' = items \cup S /\ UNCHANGED popped
Get(S) == S \subseteq items /\ items' = items \ S /\ UNCHANGED popped
Pop(S) == S \subseteq items /\ items' = items \ S /\ popped' = S

Init == items = {} /\ popped = {}
\* The first conjunct follows from the second, as no interval is empty.
Next == items' # items /\ \E S \in Intervals : Put(S) \/ Get(S) \/ Pop(S)
Spec == Init /\ [][Next]_<<items, popped>>
=============================================================================
