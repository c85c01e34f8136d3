-------------------------------- MODULE Hole --------------------------------
(***************************************************************************)
(* The hole in the guest's memory where pages of the hypervisor appear     *)
(* (FdoHoleAllocate and FdoHoleFree, src/src/xenbus/fdo.c) and the pages   *)
(* of other domains that GNTTAB maps into it (GnttabMapForeignPages and    *)
(* GnttabUnmapForeignPages, src/src/xenbus/gnttab.c).                      *)
(*                                                                         *)
(* The PCI hole is a run of pages handed out through a range set; with     *)
(* UseMemoryHole the pages are taken from Windows and their memory is      *)
(* given up.  An operation of the range set or of the table of mappings is *)
(* one step; every hypercall that maps a page is one.                      *)
(***************************************************************************)
EXTENDS Integers, FiniteSets

CONSTANTS
  Mapper,      \* threads that map foreign pages
  HoleCount,   \* pages in the hole
  MapCount     \* bound on the pages of one mapping

ASSUME HoleAssumption ==
  IsFiniteSet(Mapper) /\ HoleCount \in Nat \ {0} /\ MapCount \in 1 .. HoleCount

VARIABLES
  holeMode,      \* "none", "pci", "memory"
  holeFree,      \* the range set, or the pages Windows has
  holeMemory,    \* memory mode: pages with memory behind them
  mdls,          \* allocated MDLs, as sets of pages
  MapTable,      \* completed mappings, by their pages
  foreign,       \* pages at which the hypervisor maps another domain's page
  mapper,        \* what each thread is doing, on which MDL, and how many pages it has mapped
  holeFailed     \* a call the code takes for granted has failed

holeVars == <<holeMode, holeFree, holeMemory, mdls, MapTable, foreign, mapper, holeFailed>>

Hole    == 0 .. HoleCount - 1
Resting == [pc |-> "idle", mdl |-> {}, page |-> 0]
Lowest(S)   == CHOOSE x \in S : \A y \in S : x <= y
Nth(S, k)   == CHOOSE x \in S : Cardinality({y \in S : y < x}) = k
Windows(n)  == {S \in SUBSET holeFree : Cardinality(S) = n}
Runs(n)     == {s .. s + n - 1 : s \in Hole} \cap SUBSET holeFree

HoleInit ==
  /\ holeMode = "none" /\ holeFree = {} /\ holeMemory = {} /\ mdls = {} /\ MapTable = {}
  /\ foreign = {} /\ mapper = [t \in Mapper |-> Resting] /\ holeFailed = FALSE

-----------------------------------------------------------------------------
(* The hole.                                                               *)

\* FdoPciHoleCreate puts all of the hole in the range set; a hole in memory needs nothing.
FdoHoleCreate ==
  /\ holeMode = "none"
  /\ holeMode' \in {"pci", "memory"} /\ holeFree' = Hole /\ holeMemory' = Hole
  /\ UNCHANGED <<mdls, MapTable, foreign, mapper, holeFailed>>

\* FdoPciHoleDestroy gets all of the hole, and asserts that it can.
FdoHoleDestroy ==
  /\ holeMode # "none" /\ mdls = {} /\ \A t \in Mapper : mapper[t] = Resting
  /\ holeFree = Hole \/ holeMode = "memory"
  /\ holeMode' = "none" /\ holeFree' = {} /\ holeMemory' = {}
  /\ UNCHANGED <<mdls, MapTable, foreign, mapper, holeFailed>>

\* FdoPciHoleAllocate pops the lowest run; without an MDL it puts it back, and does
\* not look whether the range set took it.
FdoPciHoleAllocate(n, got, S) ==
  /\ holeMode = "pci" /\ Runs(n) # {}
  /\ S = CHOOSE R \in Runs(n) : \A Q \in Runs(n) : Lowest(R) <= Lowest(Q)
  /\ UNCHANGED holeMemory
  /\ \/ got /\ holeFree' = holeFree \ S /\ UNCHANGED holeFailed
     \/ ~got /\ UNCHANGED <<holeFree, holeFailed>>
     \/ ~got /\ holeFree' = holeFree \ S /\ holeFailed' = TRUE

\* FdoMemoryHoleAllocate: when the hypervisor takes only some of the pages, all go back.
FdoMemoryHoleAllocate(n, got, S) ==
  /\ holeMode = "memory" /\ S \in Windows(n)
  /\ \/ /\ got /\ holeFree' = holeFree \ S /\ holeMemory' = holeMemory \ S /\ UNCHANGED holeFailed
     \/ /\ ~got /\ UNCHANGED holeFree
        /\ \E T \in (SUBSET S) \ {S} :
             holeMemory' = holeMemory \ T /\ holeFailed' = (holeFailed \/ T # {})

FdoHoleAllocate(n, got, S) == FdoPciHoleAllocate(n, got, S) \/ FdoMemoryHoleAllocate(n, got, S)

\* FdoMemoryHoleFree checks that all pages are populated, FdoPciHoleFree asserts that
\* the range set takes them.
FdoHoleFree(S) ==
  /\ holeFree' = holeFree \cup S
  /\ holeMemory' = IF holeMode = "memory" THEN holeMemory \cup S ELSE holeMemory
  /\ UNCHANGED holeFailed

-----------------------------------------------------------------------------
(* GnttabMapForeignPages.                                                  *)

MapAllocate(t, n) ==
  /\ holeMode # "none" /\ mapper[t] = Resting
  /\ \E got \in BOOLEAN : \E S \in SUBSET holeFree :
       /\ FdoHoleAllocate(n, got, S)
       /\ mdls' = IF got THEN mdls \cup {S} ELSE mdls
       /\ mapper' = IF got THEN [mapper EXCEPT ![t] = [pc |-> "map", mdl |-> S, page |-> 0]] ELSE mapper
  /\ UNCHANGED <<holeMode, MapTable, foreign>>

\* One page is mapped; or it fails, or the entry for the table cannot be allocated.
MapPage(t) ==
  LET m == mapper[t] IN
  /\ m.pc = "map" /\ m.page < Cardinality(m.mdl)
  /\ \/ /\ foreign' = foreign \cup {Nth(m.mdl, m.page)}
        /\ mapper' = [mapper EXCEPT ![t].page = @ + 1]
     \/ mapper' = [mapper EXCEPT ![t].pc = "unwind"] /\ UNCHANGED foreign
  /\ UNCHANGED <<holeMode, holeFree, holeMemory, mdls, MapTable, holeFailed>>

\* HashTableAdd fails only when it cannot allocate a node.
MapAdd(t) ==
  LET m == mapper[t] IN
  /\ m.pc = "map" /\ m.page = Cardinality(m.mdl)
  /\ \/ MapTable' = MapTable \cup {m.mdl} /\ mapper' = [mapper EXCEPT ![t] = Resting]
     \/ mapper' = [mapper EXCEPT ![t].pc = "unwind"] /\ UNCHANGED MapTable
  /\ UNCHANGED <<holeMode, holeFree, holeMemory, mdls, foreign, holeFailed>>

\* Mutant: the first page stays mapped.
MapUnwindShort(t) ==
  LET m == mapper[t] IN
  /\ m.pc = "unwind"
  /\ IF m.page > 1
     THEN /\ foreign' = foreign \ {Nth(m.mdl, m.page - 1)}
          /\ mapper' = [mapper EXCEPT ![t].page = @ - 1]
          /\ UNCHANGED <<holeFree, holeMemory, mdls, holeFailed>>
     ELSE /\ FdoHoleFree(m.mdl) /\ mdls' = mdls \ {m.mdl}
          /\ mapper' = [mapper EXCEPT ![t] = Resting] /\ UNCHANGED foreign
  /\ UNCHANGED <<holeMode, MapTable>>

\* The pages that were mapped are unmapped, last to first, and the hole gets them back.
MapUnwind(t) ==
  LET m == mapper[t] IN
  /\ m.pc = "unwind"
  /\ IF m.page > 0
     THEN /\ foreign' = foreign \ {Nth(m.mdl, m.page - 1)}
          /\ mapper' = [mapper EXCEPT ![t].page = @ - 1]
          /\ UNCHANGED <<holeFree, holeMemory, mdls, holeFailed>>
     ELSE /\ FdoHoleFree(m.mdl) /\ mdls' = mdls \ {m.mdl}
          /\ mapper' = [mapper EXCEPT ![t] = Resting] /\ UNCHANGED foreign
  /\ UNCHANGED <<holeMode, MapTable>>

-----------------------------------------------------------------------------
(* GnttabUnmapForeignPages.                                                *)

\* The mapping is looked up and removed from the table, which decides who unmaps it ...
UnmapRemove(t, S) ==
  /\ mapper[t] = Resting /\ S \in MapTable /\ MapTable' = MapTable \ {S}
  /\ mapper' = [mapper EXCEPT ![t] = [pc |-> "unmap", mdl |-> S, page |-> 0]]
  /\ UNCHANGED <<holeMode, holeFree, holeMemory, mdls, foreign, holeFailed>>

\* ... page by page, then frees its MDL.
UnmapPage(t) ==
  LET m == mapper[t] IN
  /\ m.pc = "unmap"
  /\ IF m.page < Cardinality(m.mdl)
     THEN /\ foreign' = foreign \ {Nth(m.mdl, m.page)}
          /\ mapper' = [mapper EXCEPT ![t].page = @ + 1]
          /\ UNCHANGED <<holeFree, holeMemory, mdls, holeFailed>>
     ELSE /\ FdoHoleFree(m.mdl) /\ mdls' = mdls \ {m.mdl}
          /\ mapper' = [mapper EXCEPT ![t] = Resting] /\ UNCHANGED foreign
  /\ UNCHANGED <<holeMode, MapTable>>

HoleNext ==
  \/ FdoHoleCreate \/ FdoHoleDestroy
  \/ \E t \in Mapper :
       \/ \E n \in 1 .. MapCount : MapAllocate(t, n)
       \/ MapPage(t) \/ MapAdd(t) \/ MapUnwind(t) \/ UnmapPage(t)
       \/ \E S \in MapTable : UnmapRemove(t, S)

HoleSpec == HoleInit /\ [][HoleNext]_holeVars

-----------------------------------------------------------------------------
\* A page at which the hypervisor maps another domain's page belongs to one mapping that
\* is complete, being made or being undone, whichever call fails and at whichever page:
\* never to the hole, to Windows or to two mappings.  The table holds the complete ones,
\* so that what unmaps them finds every page mapped.  And the hole is whole again once
\* nothing is allocated, as FdoPciHoleDestroy asserts, unless a call taken for granted failed.
HoleExact ==
  /\ foreign \subseteq UNION mdls /\ foreign \cap holeFree = {}
  /\ \A S, T \in mdls : S = T \/ S \cap T = {}
  /\ MapTable \subseteq mdls /\ UNION MapTable \subseteq foreign
  /\ \A t, u \in Mapper : t # u /\ mapper[t].mdl # {} => mapper[t].mdl # mapper[u].mdl
  /\ \A t \in Mapper : mapper[t].pc = "unmap" =>
       \A k \in mapper[t].page .. Cardinality(mapper[t].mdl) - 1 : Nth(mapper[t].mdl, k) \in foreign
  /\ holeMode # "none" /\ ~holeFailed =>
       /\ holeFree \cup UNION mdls = Hole
       /\ holeMode = "memory" => holeMemory = holeFree
  /\ holeFree \cap UNION mdls = {}
=============================================================================
