-------------------------------- MODULE Cache --------------------------------
(***************************************************************************)
(* The CACHE interface (src/src/xenbus/cache.c): objects constructed in    *)
(* slabs, with a magazine per processor in front of them.                  *)
(*                                                                         *)
(* CacheGet and CachePut run at DISPATCH_LEVEL, so a processor is in one   *)
(* of them at a time and its magazine needs no lock.  What they do under   *)
(* the cache's lock is one step; so is the count they keep without it.     *)
(* The monitor thread holds the context's lock while it goes through the   *)
(* caches, reads the count of each and then takes the cache's lock.        *)
(***************************************************************************)
EXTENDS Integers, SequencesExt

CONSTANTS
  CacheCpu,       \* processors
  Slab,           \* identities (addresses) of slabs
  SlabSize,       \* objects in a slab
  MagazineSlots,  \* XENBUS_CACHE_MAGAZINE_SLOTS
  Reservation, Cap

ASSUME CacheAssumption ==
  /\ IsFiniteSet(CacheCpu) /\ IsFiniteSet(Slab)
  /\ SlabSize \in Nat \ {0} /\ MagazineSlots \in Nat
  /\ Reservation \in Nat /\ Cap \in Nat /\ Reservation <= Cap
  /\ "head" \notin Slab

VARIABLES
  life,                     \* "none", "live", "unlisted", "flushed" or, past an assertion, "bug"
  SlabList, Cursor,         \* the list, and a slab on it or "head"
  Constructed, Allocated,   \* the masks of each slab
  Magazine,
  cachePc, object,          \* what each processor is doing, with which object
  inUse,                    \* objects that clients have
  CurrentObjects,
  monitor                   \* "idle", or what the monitor thread is about to do and to which count

slabVars  == <<SlabList, Cursor, Constructed, Allocated>>
cacheVars == <<life, slabVars, Magazine, cachePc, object, inUse, CurrentObjects, monitor>>

Objects   == Slab \X (0 .. SlabSize - 1)
NoObject  == <<"none", 0>>
Idle      == [what |-> "idle", count |-> 0]
OnList    == {SlabList[i] : i \in DOMAIN SlabList}
Count     == SlabSize * Len(SlabList)
Full(allocated, s) == Cardinality(allocated[s]) = SlabSize
Larger(a, b)  == IF a > b THEN a ELSE b
Smaller(a, b) == IF a < b THEN a ELSE b

CacheInit ==
  /\ life = "none" /\ SlabList = <<>> /\ Cursor = "head"
  /\ Constructed = [s \in Slab |-> {}] /\ Allocated = [s \in Slab |-> {}]
  /\ Magazine = [p \in CacheCpu |-> {}] /\ cachePc = [p \in CacheCpu |-> "idle"]
  /\ object = [p \in CacheCpu |-> NoObject] /\ inUse = {} /\ CurrentObjects = 0 /\ monitor = Idle

-----------------------------------------------------------------------------
(* Slabs, under the cache's lock.                                          *)

\* Mutant: the slab goes to the end whatever its occupancy.
CacheInsertSlabLast(list, allocated, new) ==
  [list |-> Append(list, new),
   cursor |-> IF \E i \in DOMAIN list : ~Full(allocated, list[i])
              THEN list[CHOOSE i \in DOMAIN list :
                          ~Full(allocated, list[i]) /\ \A j \in 1 .. i - 1 : Full(allocated, list[j])]
              ELSE new]

\* Before the first slab that is emptier; the cursor is the first one up to it
\* that has room.
CacheInsertSlab(list, allocated, new) ==
  LET before == {i \in DOMAIN list :
                   \A j \in 1 .. i : Cardinality(allocated[list[j]]) >= Cardinality(allocated[new])}
      room   == {i \in before : ~Full(allocated, list[i])}
  IN [list |-> InsertAt(list, Cardinality(before) + 1, new),
      cursor |-> IF room = {} THEN new
                 ELSE list[CHOOSE i \in room : \A j \in room : i <= j]]

Position(list, s) == CHOOSE i \in DOMAIN list : list[i] = s

\* The next entry of the list, or its head.
Flink(list, s) ==
  IF Position(list, s) = Len(list) THEN "head" ELSE list[Position(list, s) + 1]

\* The slab at the cursor: one that is constructed and free, else the first that
\* is not constructed yet.
FreeIndex(s) ==
  LET free == (0 .. SlabSize - 1) \ Allocated[s]
      from == IF Cardinality(Allocated[s]) < Cardinality(Constructed[s])
              THEN 0 ELSE Cardinality(Constructed[s])
  IN CHOOSE i \in free : i >= from /\ \A j \in free : j >= from => i <= j

\* CacheGetObjectFromSlab, and CacheGet's step of the cursor when it is now full.
\* The constructor may fail.
CacheGetObjectFromSlab(p, s, list) ==
  LET i == FreeIndex(s)
      allocated == [Allocated EXCEPT ![s] = @ \cup {i}]
  IN /\ SlabList' = list
     /\ \/ /\ Allocated' = allocated
           /\ Constructed' = [Constructed EXCEPT ![s] = @ \cup {i}]
           /\ Cursor' = IF Full(allocated, s) THEN Flink(list, s) ELSE s
           /\ object' = [object EXCEPT ![p] = <<s, i>>]
           /\ cachePc' = [cachePc EXCEPT ![p] = "got"]
        \/ /\ i \notin Constructed[s]
           /\ cachePc' = [cachePc EXCEPT ![p] = "idle"]
           /\ Cursor' = s /\ UNCHANGED <<Allocated, Constructed, object>>

\* CacheSpill destroys slabs from the end while they are empty and the rest reaches
\* the target: how many that is.
Spillable(target) ==
  LET empty == {i \in DOMAIN SlabList : \A j \in i .. Len(SlabList) : Allocated[SlabList[j]] = {}}
  IN IF Count <= target THEN 0
     ELSE Smaller(Cardinality(empty), (Count - target) \div SlabSize)

\* CacheSpill with CacheDestroySlab, which runs the destructors.
CacheSpill(target) ==
  LET n    == Len(SlabList) - Spillable(target)
      gone == {SlabList[i] : i \in n + 1 .. Len(SlabList)}
  IN /\ SlabList' = SubSeq(SlabList, 1, n)
     /\ Cursor' = IF Cursor \in gone THEN "head" ELSE Cursor
     /\ Constructed' = [s \in Slab |-> IF s \in gone THEN {} ELSE Constructed[s]]
     /\ Allocated' = [s \in Slab |-> IF s \in gone THEN {} ELSE Allocated[s]]

-----------------------------------------------------------------------------
(* Clients.                                                                *)

CacheGet(p) ==
  /\ life = "live" /\ cachePc[p] = "idle"
  /\ \/ \E o \in Magazine[p] :
          /\ Magazine' = [Magazine EXCEPT ![p] = @ \ {o}]
          /\ object' = [object EXCEPT ![p] = o]
          /\ cachePc' = [cachePc EXCEPT ![p] = "got"]
     \/ /\ Magazine[p] = {} /\ cachePc' = [cachePc EXCEPT ![p] = "get"]
        /\ UNCHANGED <<Magazine, object>>
  /\ UNCHANGED <<life, slabVars, inUse, CurrentObjects, monitor>>

\* Under the lock: from the slab at the cursor, else from a new one
\* (CacheCreateSlab), if Cap and memory allow one.
CacheGetLocked(p) ==
  /\ cachePc[p] = "get"
  /\ \/ Cursor # "head" /\ CacheGetObjectFromSlab(p, Cursor, SlabList)
     \/ /\ Cursor = "head" /\ Count + SlabSize <= Cap
        /\ \E s \in Slab \ OnList :
             LET inserted == CacheInsertSlab(SlabList, Allocated, s)
             IN CacheGetObjectFromSlab(p, s, inserted.list)
     \/ /\ Cursor = "head" /\ cachePc' = [cachePc EXCEPT ![p] = "idle"]
        /\ UNCHANGED <<slabVars, object>>
  /\ UNCHANGED <<life, Magazine, inUse, CurrentObjects, monitor>>

Got(p) ==
  /\ cachePc[p] = "got" /\ cachePc' = [cachePc EXCEPT ![p] = "idle"]
  /\ CurrentObjects' = CurrentObjects + 1
  /\ inUse' = inUse \cup {object[p]} /\ object' = [object EXCEPT ![p] = NoObject]
  /\ UNCHANGED <<life, slabVars, Magazine, monitor>>

CachePut(p, o) ==
  /\ life = "live" /\ cachePc[p] = "idle" /\ o \in inUse /\ inUse' = inUse \ {o}
  /\ IF Cardinality(Magazine[p]) < MagazineSlots
     THEN /\ Magazine' = [Magazine EXCEPT ![p] = @ \cup {o}]
          /\ cachePc' = [cachePc EXCEPT ![p] = "gave"] /\ UNCHANGED object
     ELSE /\ object' = [object EXCEPT ![p] = o]
          /\ cachePc' = [cachePc EXCEPT ![p] = "put"] /\ UNCHANGED Magazine
  /\ UNCHANGED <<life, slabVars, CurrentObjects, monitor>>

\* Under the lock: back to its slab, which is inserted anew.
CachePutLocked(p) ==
  LET s == object[p][1]
      allocated == [Allocated EXCEPT ![s] = @ \ {object[p][2]}]
      inserted  == CacheInsertSlab(RemoveAt(SlabList, Position(SlabList, s)), allocated, s)
  IN /\ cachePc[p] = "put" /\ cachePc' = [cachePc EXCEPT ![p] = "gave"]
     /\ Allocated' = allocated /\ SlabList' = inserted.list /\ Cursor' = inserted.cursor
     /\ object' = [object EXCEPT ![p] = NoObject]
     /\ UNCHANGED <<life, Constructed, Magazine, inUse, CurrentObjects, monitor>>

Gave(p) ==
  /\ cachePc[p] = "gave" /\ cachePc' = [cachePc EXCEPT ![p] = "idle"]
  /\ CurrentObjects' = CurrentObjects - 1
  /\ UNCHANGED <<life, slabVars, Magazine, object, inUse, monitor>>

-----------------------------------------------------------------------------
(* CacheCreate, CacheDestroy and the monitor.                              *)

\* CacheFill creates slabs up to the reservation, each below Cap (CacheCreateSlab); if
\* a later one fails the earlier ones are not destroyed and an assertion fails (fail4).
CacheCreate ==
  LET wanted == (Reservation + SlabSize - 1) \div SlabSize IN
  /\ life = "none"
  /\ \E n \in 0 .. wanted, list \in SetToSeqs(Slab) :
       /\ n <= Cardinality(Slab) /\ n * SlabSize <= Cap
       /\ life' = IF n = wanted THEN "live" ELSE IF n = 0 THEN "none" ELSE "bug"
       /\ SlabList' = SubSeq(list, 1, n)
       /\ Cursor' = IF n = 0 THEN "head" ELSE list[1]
  /\ UNCHANGED <<Constructed, Allocated, Magazine, cachePc, object, inUse, CurrentObjects, monitor>>

\* The monitor compares the count with the reservation before it takes the
\* cache's lock.  (It would fill a cache below its reservation: by SlabsOrdered
\* there is none.)
CacheMonitor ==
  /\ life = "live" /\ monitor = Idle /\ Count > Reservation
  /\ monitor' = [what |-> "spill", count |-> Larger(Reservation, Count \div 2)]
  /\ UNCHANGED <<life, slabVars, Magazine, cachePc, object, inUse, CurrentObjects>>

MonitorSpill ==
  /\ monitor.what = "spill" /\ CacheSpill(monitor.count) /\ monitor' = Idle
  /\ UNCHANGED <<life, Magazine, cachePc, object, inUse, CurrentObjects>>

\* The client has put everything back; the context's lock keeps the monitor out.
CacheDestroy ==
  /\ life = "live" /\ monitor = Idle /\ inUse = {} /\ \A p \in CacheCpu : cachePc[p] = "idle"
  /\ life' = "unlisted"
  /\ UNCHANGED <<slabVars, Magazine, cachePc, object, inUse, CurrentObjects, monitor>>

\* Mutant: the last processor's magazine is left alone.
CacheFlushMagazinesButOne ==
  /\ life = "unlisted" /\ life' = "flushed"
  /\ \E last \in CacheCpu : LET out == UNION {Magazine[p] : p \in CacheCpu \ {last}} IN
       /\ Allocated' = [s \in Slab |-> {i \in Allocated[s] : <<s, i>> \notin out}]
       /\ Magazine' = [p \in CacheCpu |-> Magazine[p] \ out]
  /\ UNCHANGED <<SlabList, Cursor, Constructed, cachePc, object, inUse, CurrentObjects, monitor>>

\* __CacheFlushMagazines: back to the slabs, which stay where they are on the list.
CacheFlushMagazines ==
  /\ life = "unlisted" /\ life' = "flushed"
  /\ Allocated' = [s \in Slab |->
       Allocated[s] \ {o[2] : o \in {x \in UNION {Magazine[p] : p \in CacheCpu} : x[1] = s}}]
  /\ Magazine' = [p \in CacheCpu |-> {}]
  /\ UNCHANGED <<SlabList, Cursor, Constructed, cachePc, object, inUse, CurrentObjects, monitor>>

CacheDestroyed ==
  /\ life = "flushed" /\ CacheSpill(0)
  /\ life' = IF SlabList' = <<>> /\ CurrentObjects = 0 THEN "none" ELSE "bug"
  /\ UNCHANGED <<Magazine, cachePc, object, inUse, CurrentObjects, monitor>>

CacheNext ==
  \/ CacheCreate \/ CacheMonitor \/ MonitorSpill
  \/ CacheDestroy \/ CacheFlushMagazines \/ CacheDestroyed
  \/ \E p \in CacheCpu : CacheGet(p) \/ CacheGetLocked(p) \/ Got(p) \/ CachePutLocked(p) \/ Gave(p)
  \/ \E p \in CacheCpu, o \in Objects : CachePut(p, o)

CacheSpec == CacheInit /\ [][CacheNext]_cacheVars

-----------------------------------------------------------------------------
Out(p) == IF cachePc[p] \in {"got", "put"} THEN {object[p]} ELSE {}

\* An object is in one place: every object marked in a slab of the list is with
\* exactly one client, in one magazine or in the hands of one processor, and there
\* are no others; so none is handed out twice and no slab goes while an object of
\* it is out.  It has been constructed, and CurrentObjects counts what clients have.
ObjectsPlaced ==
  LET marked == {o \in Objects : o[2] \in Allocated[o[1]]} IN
  /\ marked = inUse \cup UNION {Magazine[p] \cup Out(p) : p \in CacheCpu}
  /\ \A p \in CacheCpu : Out(p) \cap (inUse \cup Magazine[p]) = {} /\ Magazine[p] \cap inUse = {}
  /\ \A p, q \in CacheCpu : p # q => (Magazine[p] \cup Out(p)) \cap (Magazine[q] \cup Out(q)) = {}
  /\ \A s \in Slab : Allocated[s] \subseteq Constructed[s]
  /\ \A s \in Slab : Constructed[s] = 0 .. Cardinality(Constructed[s]) - 1
  /\ \A s \in Slab \ OnList : Constructed[s] = {}
  /\ CurrentObjects = Cardinality(inUse) + Cardinality({p \in CacheCpu : cachePc[p] \in {"put", "gave"}})

\* CacheAudit: slabs in order of occupancy with the cursor on the first that has
\* room, which CacheGet and CacheSpill rely on; and what they keep: between the
\* reservation and the cap.
SlabsOrdered ==
  life = "live" =>
    /\ \A i, j \in DOMAIN SlabList :
         i < j => Cardinality(Allocated[SlabList[i]]) >= Cardinality(Allocated[SlabList[j]])
    /\ \A i \in DOMAIN SlabList :
         ~Full(Allocated, SlabList[i]) /\ (\A j \in 1 .. i - 1 : Full(Allocated, SlabList[j]))
           => Cursor = SlabList[i]
    /\ Cursor = "head" <=> \A s \in OnList : Full(Allocated, s)
    /\ Reservation <= Count /\ Count <= Cap

CacheInv == ObjectsPlaced /\ SlabsOrdered

\* CacheDestroy finds every object and every slab.
CacheDrained ==
  [][life = "flushed" /\ life' # "flushed" => SlabList' = <<>> /\ CurrentObjects' = 0]_cacheVars
=============================================================================
