------------------------------- MODULE Modules -------------------------------
(***************************************************************************)
(* The list of loaded kernel modules (src/src/xen/module.c), by which       *)
(* addresses are printed and callbacks recognised: sorted, without overlap, *)
(* searched from a cursor at the module that was added last.  Nothing tells *)
(* of an unload: a module is forgotten when another is loaded over it.      *)
(***************************************************************************)
EXTENDS Integers, SequencesExt

CONSTANT MaxAddress
ASSUME ModuleAssumption == MaxAddress \in Nat

Module == {m \in [Start : 1 .. MaxAddress, End : 1 .. MaxAddress] : m.Start <= m.End}

VARIABLES
  modules,    \* Context->List
  here,       \* Context->Cursor: a place in modules, 0 for the head
  loaded,     \* what the list should hold
  misplaced   \* the ASSERT of ModuleAdd failed
moduleVars == <<modules, here, loaded, misplaced>>

ModuleInit == modules = << >> /\ here = 0 /\ loaded = {} /\ misplaced = FALSE

Overlap(m, n) == m.Start <= n.End /\ n.Start <= m.End

\* Mutant: a module that ends at a is passed over.
ModuleSearchForwardsShort(l, c, a) ==
  IF \A k \in c .. Len(l) : l[k].End <= a THEN 0
  ELSE CHOOSE k \in c .. Len(l) : a < l[k].End /\ \A j \in c .. k - 1 : l[j].End <= a

\* From c on, the first module that does not end before a, or the head; and
\* back from c the first that does not start after a.
ModuleSearchForwards(l, c, a) ==
  IF \A k \in c .. Len(l) : l[k].End < a THEN 0
  ELSE CHOOSE k \in c .. Len(l) : a <= l[k].End /\ \A j \in c .. k - 1 : l[j].End < a
ModuleSearchBackwards(l, c, a) ==
  IF \A k \in 1 .. c : a < l[k].Start THEN 0
  ELSE CHOOSE k \in 1 .. c : l[k].Start <= a /\ \A j \in k + 1 .. c : a < l[j].Start

\* Where a turn of ModuleAdd's loop, for the list s.l and the cursor s.c, leaves
\* the search for a module that overlaps the new one.
Reached(s, new) ==
  CASE s.c = 0 -> 0
    [] s.c # 0 /\ s.l[s.c].End < new.Start -> ModuleSearchForwards(s.l, s.c, new.Start)
    [] s.c # 0 /\ new.End < s.l[s.c].Start -> ModuleSearchBackwards(s.l, s.c, new.End)
    [] OTHER -> s.c
InTheWay(s, new) == Reached(s, new) # 0 /\ Overlap(s.l[Reached(s, new)], new)

\* That module is removed, and the cursor moves to a neighbour of it.
WithoutOne(s, new) ==
  LET k == Reached(s, new)
      next == IF k < Len(s.l) THEN k ELSE 0       \* once k is removed
  IN [l |-> RemoveAt(s.l, k),
      c |-> CASE s.l[s.c].End < new.Start -> k - 1
              [] new.End < s.l[s.c].Start -> next
              [] OTHER -> IF next # 0 THEN next ELSE k - 1]

\* With none in the way, the new module goes before the place of a forward search
\* and after that of a backward search.
PlaceFor(s, new) ==
  IF s.c # 0 /\ s.l[s.c].End < new.Start
  THEN IF Reached(s, new) = 0 THEN Len(s.l) + 1 ELSE Reached(s, new)
  ELSE Reached(s, new) + 1

\* ModuleAdd: as each turn of its loop but the last removes a module, they are no
\* more than the modules.
ModuleAdd(start, cursor, new) ==
  LET turn[n \in 0 .. Len(start)] ==
        IF n = 0 THEN [l |-> start, c |-> cursor]
        ELSE LET s == turn[n - 1] IN IF InTheWay(s, new) THEN WithoutOne(s, new) ELSE s
      s == turn[Len(start)]
  IN [l |-> InsertAt(s.l, PlaceFor(s, new), new), at |-> PlaceFor(s, new),
      bad |-> s.c = 0 /\ s.l # << >>]

\* ModuleLoad, also for each module that ModuleInitialize finds; without memory
\* it does nothing.
ModuleLoad(new) ==
  LET added == ModuleAdd(modules, here, new)
  IN /\ modules' = added.l /\ here' = added.at
     /\ misplaced' = (misplaced \/ added.bad)
     /\ loaded' = {m \in loaded : ~Overlap(m, new)} \cup {new}

\* ModuleLookup: the place of the module that holds an address, or 0.
ModuleLookup(a) ==
  IF \A k \in 1 .. Len(modules) : a < modules[k].Start \/ modules[k].End < a THEN 0
  ELSE CHOOSE k \in 1 .. Len(modules) : /\ modules[k].Start <= a /\ a <= modules[k].End
                                        /\ \A j \in 1 .. k - 1 : a < modules[j].Start \/ modules[j].End < a

ModuleNext == \E new \in Module : ModuleLoad(new)

---------------------------------------------------------------------------
(* From wherever the cursor is left: exactly the modules that overlap a new *)
(* one go, the list stays sorted, and an address is found in the module     *)
(* that was loaded there last.                                              *)
ModuleInv ==
  /\ ~misplaced
  /\ \A a \in 1 .. MaxAddress :
       LET k == ModuleLookup(a) owner == {m \in loaded : m.Start <= a /\ a <= m.End}
       IN IF k = 0 THEN owner = {} ELSE owner = {modules[k]}
  /\ \A k \in 1 .. Len(modules) - 1 : modules[k].End < modules[k + 1].Start
=============================================================================
