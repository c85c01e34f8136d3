------------------------------ MODULE RangeSet ------------------------------
(***************************************************************************)
(* The RANGE_SET interface (src/src/xenbus/range_set.c): a set of numbers  *)
(* as a doubly linked list of ranges, searched from a cursor that stays    *)
(* where the last operation left it.  Each operation holds the spin lock   *)
(* from its first read to its last write, so each is one step.             *)
(*                                                                         *)
(* The list is a sequence; the cursor is a position in it, 0 when it is    *)
(* the list head.  One RANGE that was removed is kept in Spare; without it *)
(* a new one is allocated, which may fail.                                 *)
(***************************************************************************)
EXTENDS Integers, SequencesExt

CONSTANT MaxNumber    \* bound: the numbers are 1 .. MaxNumber

ASSUME RangeSetAssumption == MaxNumber \in Nat

VARIABLES
  rangeSet,     \* List, Cursor and Spare # NULL
  ItemCount,
  popped,       \* the interval the last Pop handed out
  rsFailed      \* an allocation has failed

rsVars == <<rangeSet, ItemCount, popped, rsFailed>>

Empty == [list |-> <<>>, cursor |-> 0, spare |-> FALSE]
Ranges(rs) == {rs.list[i] : i \in DOMAIN rs.list}
Items == UNION {r.start .. r.end : r \in Ranges(rangeSet)}

\* The first (last) of the positions found by a walk along the list, else its head.
FirstOf(found) == IF found = {} THEN 0 ELSE CHOOSE j \in found : \A k \in found : j <= k
LastOf(found) == IF found = {} THEN 0 ELSE CHOOSE j \in found : \A k \in found : j >= k

\* The cursor moves to a neighbour, past the list head to the other end.
RangeSetRemove(rs, after) ==
  LET c == rs.cursor
      n == Len(rs.list) - 1
  IN [list |-> RemoveAt(rs.list, c), spare |-> TRUE,
      cursor |-> IF after THEN IF c <= n THEN c ELSE IF n = 0 THEN 0 ELSE 1
                          ELSE IF c > 1 THEN c - 1 ELSE n]

RangeSetMergeBackwards(rs) ==
  LET c == rs.cursor IN
  IF c > 1 /\ rs.list[c - 1].end = rs.list[c].start - 1
  THEN RangeSetRemove([rs EXCEPT !.list[c - 1].end = rs.list[c].end], FALSE)
  ELSE rs

RangeSetMergeForwards(rs) ==
  LET c == rs.cursor IN
  IF c < Len(rs.list) /\ rs.list[c + 1].start = rs.list[c].end + 1
  THEN RangeSetRemove([rs EXCEPT !.list[c + 1].start = rs.list[c].start], TRUE)
  ELSE rs

RangeSetAdd(rs, range, after) ==
  LET at == IF after THEN rs.cursor + 1
            ELSE IF rs.cursor = 0 THEN Len(rs.list) + 1 ELSE rs.cursor
  IN RangeSetMergeForwards(RangeSetMergeBackwards(
       [list |-> InsertAt(rs.list, at, range), cursor |-> at, spare |-> FALSE]))

NoMemory == ~rangeSet.spare /\ rsFailed' = TRUE

-----------------------------------------------------------------------------
\* The operations.  A client puts what is not there and gets what is; on a
\* stray cursor Put and Get fail their assertions, and nothing follows.
Usable == rangeSet.list # <<>> => rangeSet.cursor # 0

RangeSetPop(count) ==
  LET at == FirstOf({j \in DOMAIN rangeSet.list : rangeSet.list[j].end + 1 - rangeSet.list[j].start >= count})
      r  == rangeSet.list[at]
      left == [rangeSet EXCEPT !.cursor = at, !.list[at].start = r.start + count]
  IN /\ at # 0
     /\ popped' = r.start .. r.start + count - 1
     /\ ItemCount' = ItemCount - count
     /\ rangeSet' = IF r.start + count > r.end THEN RangeSetRemove(left, TRUE) ELSE left
     /\ UNCHANGED rsFailed

\* Where the search for the neighbour of s .. e ends, up or down from the cursor.
RangeSetAddAfter(s) ==
  [rangeSet EXCEPT !.cursor =
     FirstOf({j \in rangeSet.cursor + 1 .. Len(rangeSet.list) : s < rangeSet.list[j].start})]
RangeSetAddBefore(e) ==
  [rangeSet EXCEPT !.cursor =
     LastOf({j \in 1 .. rangeSet.cursor - 1 : e > rangeSet.list[j].end})]

RangeSetPut(s, e) ==
  LET isEmpty == rangeSet.list = <<>>
      after   == isEmpty \/ s <= rangeSet.list[rangeSet.cursor].end
      sought  == IF isEmpty THEN rangeSet
                 ELSE IF after THEN RangeSetAddBefore(e) ELSE RangeSetAddAfter(s)
  IN /\ Usable /\ (s .. e) \cap Items = {}
     /\ UNCHANGED popped
     /\ \/ /\ rangeSet' = RangeSetAdd(sought, [start |-> s, end |-> e], after)
           /\ ItemCount' = ItemCount + (e - s + 1) /\ UNCHANGED rsFailed
        \/ NoMemory /\ rangeSet' = sought /\ UNCHANGED ItemCount

\* Mutant: the new upper range is inserted and the lower one is not cut.
CutNot(rs, s, e) ==
  LET c == rs.cursor IN RangeSetAdd(rs, [start |-> e + 1, end |-> rs.list[c].end], TRUE)

\* The part from s to e leaves the middle of the range at the cursor: the upper
\* remainder becomes a range of its own before the lower one is cut.
Cut(rs, s, e) ==
  LET c     == rs.cursor
      split == RangeSetAdd(rs, [start |-> e + 1, end |-> rs.list[c].end], TRUE)
  IN [split EXCEPT !.list[c].end = s - 1]

RangeSetGet(s, e) ==
  LET c  == rangeSet.cursor
      at == IF s < rangeSet.list[c].start
            THEN LastOf({j \in 1 .. c - 1 : s >= rangeSet.list[j].start})
            ELSE IF s > rangeSet.list[c].end
            THEN FirstOf({j \in c + 1 .. Len(rangeSet.list) : s <= rangeSet.list[j].end})
            ELSE c
      rs == [rangeSet EXCEPT !.cursor = at]
      r  == rangeSet.list[at]
      middle == s # r.start /\ e # r.end
  IN /\ Usable /\ (s .. e) \subseteq Items
     /\ UNCHANGED popped
     /\ \/ /\ rangeSet' = IF s = r.start /\ e = r.end
                          THEN RangeSetRemove(rs, TRUE)
                          ELSE IF s = r.start THEN [rs EXCEPT !.list[at].start = e + 1]
                          ELSE IF e = r.end THEN [rs EXCEPT !.list[at].end = s - 1]
                          ELSE Cut(rs, s, e)
           /\ ItemCount' = ItemCount - (e - s + 1) /\ UNCHANGED rsFailed
        \/ middle /\ NoMemory /\ rangeSet' = rs /\ UNCHANGED ItemCount

\* RangeSetDestroy asserts that the set is empty; RangeSetCreate starts again.
RangeSetDestroy ==
  /\ rangeSet.list = <<>> /\ rangeSet.spare
  /\ rangeSet' = Empty
  /\ UNCHANGED <<ItemCount, popped, rsFailed>>

RangeSetCreate == rangeSet = Empty /\ ItemCount = 0 /\ popped = {} /\ rsFailed = FALSE

RangeSetNext ==
  \/ \E n \in 1 .. MaxNumber : RangeSetPop(n)
  \/ \E s, e \in 1 .. MaxNumber : s <= e /\ (RangeSetPut(s, e) \/ RangeSetGet(s, e))
  \/ RangeSetDestroy

RangeSetSpec == RangeSetCreate /\ [][RangeSetNext]_rsVars

-----------------------------------------------------------------------------
\* Every step of the list is a step of the set, or changes nothing in it: merging,
\* splitting, the cursor and failed allocations do not show.
Abstract == INSTANCE NumberSet WITH items <- Items
ImplementsNumberSet == Abstract!Spec
=============================================================================
