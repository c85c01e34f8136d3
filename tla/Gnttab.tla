------------------------------- MODULE Gnttab -------------------------------
(***************************************************************************)
(* The GNTTAB interface (src/src/xenbus/gnttab.c): grant references, the   *)
(* frames of the table they index, the caches that hand them out, and what *)
(* the hypervisor and a backend make of an entry.                          *)
(*                                                                         *)
(* Each thread uses a cache of its own.  A cache is what Cache shows it to *)
(* be, a pool of constructed entries behind a lock, and the range set what *)
(* RangeSet shows it to be, a set of numbers: Spill stands for the cache   *)
(* destroying free entries.  A reference is a number; frame i holds those  *)
(* from i * PerFrame on.                                                   *)
(***************************************************************************)
EXTENDS Integers, FiniteSets

CONSTANTS
  GtThread,    \* clients
  OneLock,     \* TRUE: they gave their caches the same lock
  GtPassive,   \* the clients that call at PASSIVE_LEVEL
  PerFrame,    \* XENBUS_GNTTAB_ENTRY_PER_FRAME
  Reserved,    \* XENBUS_GNTTAB_RESERVED_ENTRY_COUNT
  MaximumFrameCount,
  Attempts,    \* bound of the loop that revokes an entry (100)
  Page,        \* page frames that clients grant
  MaxResumes   \* bound on the number of suspends

ASSUME GnttabAssumption ==
  /\ IsFiniteSet(GtThread) /\ GtPassive \subseteq GtThread /\ OneLock \in BOOLEAN
  /\ PerFrame \in Nat \ {0} /\ Reserved \in 0 .. PerFrame - 1
  /\ MaximumFrameCount \in Nat \ {0} /\ Attempts \in Nat \ {0} /\ MaxResumes \in Nat

VARIABLES
  gtAcquired,    \* GnttabAcquire has succeeded
  FrameIndex,    \* index of the last frame
  Frame,         \* frames that have an Mdl and are on the physmap
  references,    \* contents of Context->RangeSet
  cached,        \* references of the free entries of each cache
  granted,       \* granted[t]: references the client has, with the page of each
  table,         \* the grant table: page, GTF_permit_access and GTF_reading
  mapping,       \* references the backend has mapped, with the page
  gt,            \* what each thread is doing
  resumes,       \* number of suspends
  stale,         \* references granted before the last suspend, or shut by a revocation that failed
  exhausted      \* references whose revocation gave up, while they may be mapped still

gtVars == <<gtAcquired, FrameIndex, Frame, references, cached, granted, table, mapping, gt,
            resumes, stale, exhausted>>

Reference == 0 .. PerFrame * MaximumFrameCount - 1
Blank     == [page |-> 0, permit |-> FALSE, reading |-> FALSE]
Rest      == [pc |-> "idle", ref |-> 0, page |-> 0, index |-> 0, attempt |-> 0]
InFrame(i) == {r \in i * PerFrame .. (i + 1) * PerFrame - 1 : r >= Reserved}
Held(t)    == {g[1] : g \in granted[t]}

\* A cache's lock is held while an entry of it is constructed.
LockFree(t) ==
  \A u \in GtThread : OneLock \/ u = t => gt[u].pc \notin {"pop", "expand"}

GnttabInit ==
  /\ gtAcquired = FALSE /\ FrameIndex = -1 /\ Frame = {} /\ references = {}
  /\ cached = [t \in GtThread |-> {}] /\ granted = [t \in GtThread |-> {}]
  /\ table = [r \in Reference |-> Blank] /\ mapping = {} /\ gt = [t \in GtThread |-> Rest]
  /\ resumes = 0 /\ stale = {} /\ exhausted = {}

-----------------------------------------------------------------------------
(* Frames.                                                                 *)

\* GnttabAcquire ends with the frame of the reserved entries.
GnttabAcquire ==
  /\ ~gtAcquired /\ gtAcquired' = TRUE
  /\ FrameIndex' = 0 /\ Frame' = {0} /\ references' = InFrame(0)
  /\ UNCHANGED <<cached, granted, table, mapping, gt, resumes, stale, exhausted>>

\* GnttabContract takes the references of each frame out of the range set, and
\* asserts that they are there.
GnttabRelease ==
  /\ gtAcquired /\ \A t \in GtThread : cached[t] = {} /\ granted[t] = {} /\ gt[t] = Rest
  /\ gtAcquired' = FALSE /\ FrameIndex' = -1 /\ Frame' = {}
  /\ references' = references \ UNION {InFrame(i) : i \in 0 .. FrameIndex}
  /\ table' = [r \in Reference |-> Blank] /\ mapping' = {} /\ stale' = {}
  /\ exhausted' = {} /\ UNCHANGED <<cached, granted, gt, resumes>>

\* GnttabExpand takes an index before it has a frame for it ...
GnttabExpand(t) ==
  /\ gt[t].pc = "pop" /\ references = {}
  /\ FrameIndex' = FrameIndex + 1
  /\ gt' = [gt EXCEPT ![t] = [@ EXCEPT !.pc = "expand", !.index = FrameIndex + 1]]
  /\ UNCHANGED <<gtAcquired, Frame, references, cached, granted, table, mapping, resumes,
                 stale, exhausted>>

\* ... and gives an index back when there is no such frame, no page in the hole
\* for it, or the hypervisor does not map it.
GnttabExpanded(t) ==
  LET i == gt[t].index IN
  /\ gt[t].pc = "expand" /\ i <= MaximumFrameCount
  /\ \/ /\ i < MaximumFrameCount
        /\ Frame' = Frame \cup {i} /\ references' = references \cup InFrame(i)
        /\ gt' = [gt EXCEPT ![t].pc = "pop"] /\ UNCHANGED FrameIndex
     \/ /\ FrameIndex' = FrameIndex - 1 /\ gt' = [gt EXCEPT ![t] = Rest]
        /\ UNCHANGED <<Frame, references>>
  /\ UNCHANGED <<gtAcquired, cached, granted, table, mapping, resumes, stale, exhausted>>

-----------------------------------------------------------------------------
(* Clients.                                                                *)

\* GnttabPermitForeignAccess, from CacheGet to the entry it returns: a free entry
\* of the cache, or one that GnttabEntryCtor constructs.
GnttabPermitForeignAccess(t, page) ==
  /\ gtAcquired /\ gt[t] = Rest /\ LockFree(t)
  /\ \/ \E r \in cached[t] :
          /\ cached' = [cached EXCEPT ![t] = @ \ {r}]
          /\ gt' = [gt EXCEPT ![t] = [Rest EXCEPT !.pc = "write", !.ref = r, !.page = page]]
     \/ gt' = [gt EXCEPT ![t] = [Rest EXCEPT !.pc = "pop", !.page = page]] /\ UNCHANGED cached
  /\ UNCHANGED <<gtAcquired, FrameIndex, Frame, references, granted, table, mapping, resumes,
                 stale, exhausted>>

\* GnttabEntryCtor: Pop takes the lowest number.
GnttabEntryCtor(t) ==
  /\ gt[t].pc = "pop" /\ references # {}
  /\ LET r == CHOOSE x \in references : \A y \in references : x <= y IN
     /\ references' = references \ {r}
     /\ gt' = [gt EXCEPT ![t] = [@ EXCEPT !.pc = "write", !.ref = r]]
  /\ UNCHANGED <<gtAcquired, FrameIndex, Frame, cached, granted, table, mapping, resumes,
                 stale, exhausted>>

\* The entry is filled in, and after a barrier the domain is let in.
WriteEntry(t) ==
  /\ gt[t].pc = "write" /\ gt' = [gt EXCEPT ![t].pc = "permit"]
  /\ table' = [table EXCEPT ![gt[t].ref] = [Blank EXCEPT !.page = gt[t].page]]
  /\ UNCHANGED <<gtAcquired, FrameIndex, Frame, references, cached, granted, mapping, resumes,
                 stale, exhausted>>

PermitEntry(t) ==
  /\ gt[t].pc = "permit" /\ gt' = [gt EXCEPT ![t] = Rest]
  /\ table' = [table EXCEPT ![gt[t].ref].permit = TRUE]
  /\ granted' = [granted EXCEPT ![t] = @ \cup {<<gt[t].ref, gt[t].page>>}]
  /\ UNCHANGED <<gtAcquired, FrameIndex, Frame, references, cached, mapping, resumes,
                 stale, exhausted>>

GnttabRevokeForeignAccess(t, r) ==
  /\ gt[t] = Rest /\ r \in Held(t)
  /\ gt' = [gt EXCEPT ![t] = [Rest EXCEPT !.pc = "revoke", !.ref = r]]
  /\ UNCHANGED <<gtAcquired, FrameIndex, Frame, references, cached, granted, table, mapping,
                 resumes, stale, exhausted>>

\* Mutant: the exchange does not look at GTF_reading.
AttemptRevokeBlind(t) ==
  LET r == gt[t].ref IN
  /\ gt[t].pc = "revoke"
  /\ table' = [table EXCEPT ![r].permit = FALSE]
  /\ gt' = [gt EXCEPT ![t].pc = "clear"] /\ UNCHANGED exhausted
  /\ UNCHANGED <<gtAcquired, FrameIndex, Frame, references, cached, granted, mapping, resumes, stale>>

\* One compare and exchange, which fails while the entry is in use.  Attempt is
\* incremented by the loop's test: after the last one that fails it is one more
\* than the bound, and the test for failure sees only the one that succeeds.
AttemptRevoke(t) ==
  LET r == gt[t].ref
      attempt == gt[t].attempt + 1
      last == attempt = Attempts
  IN
  /\ gt[t].pc = "revoke"
  /\ \/ /\ ~table[r].reading
        /\ table' = [table EXCEPT ![r].permit = FALSE]
        /\ gt' = [gt EXCEPT ![t] = IF last THEN Rest ELSE [@ EXCEPT !.pc = "clear"]]
        /\ stale' = IF last THEN stale \cup {r} ELSE stale
        /\ UNCHANGED exhausted
     \/ /\ table[r].reading
        /\ gt' = [gt EXCEPT ![t] = [@ EXCEPT !.attempt = attempt,
                                            !.pc = IF last THEN "clear" ELSE "revoke"]]
        /\ exhausted' = IF last THEN exhausted \cup {r} ELSE exhausted
        /\ UNCHANGED <<table, stale>>
  /\ UNCHANGED <<gtAcquired, FrameIndex, Frame, references, cached, granted, mapping, resumes>>

\* The entry is zeroed and goes back to the cache.
ClearEntry(t) ==
  LET r == gt[t].ref IN
  /\ gt[t].pc = "clear" /\ LockFree(t) /\ gt' = [gt EXCEPT ![t] = Rest]
  /\ table' = [table EXCEPT ![r] = Blank]
  /\ granted' = [granted EXCEPT ![t] = {g \in @ : g[1] # r}]
  /\ cached' = [cached EXCEPT ![t] = @ \cup {r}]
  /\ stale' = stale \ {r}
  /\ UNCHANGED <<gtAcquired, FrameIndex, Frame, references, mapping, resumes, exhausted>>

\* GnttabEntryDtor, for entries the cache destroys.
Spill(t) ==
  /\ LockFree(t)
  /\ \E S \in (SUBSET cached[t]) \ {{}} :
       cached' = [cached EXCEPT ![t] = @ \ S] /\ references' = references \cup S
  /\ UNCHANGED <<gtAcquired, FrameIndex, Frame, granted, table, mapping, gt, resumes,
                 stale, exhausted>>

-----------------------------------------------------------------------------
(* The hypervisor, on behalf of the backend, and a suspend.                *)

BackendMap(r) ==
  /\ table[r].permit /\ \A m \in mapping : m[1] # r
  /\ mapping' = mapping \cup {<<r, table[r].page>>}
  /\ table' = [table EXCEPT ![r].reading = TRUE]
  /\ UNCHANGED <<gtAcquired, FrameIndex, Frame, references, cached, granted, gt, resumes,
                 stale, exhausted>>

BackendUnmap(r) ==
  /\ \E m \in mapping : m[1] = r /\ mapping' = mapping \ {m}
  /\ table' = [table EXCEPT ![r].reading = FALSE] 
  /\ exhausted' = IF table[r].permit THEN exhausted ELSE exhausted \ {r}
  /\ UNCHANGED <<gtAcquired, FrameIndex, Frame, references, cached, granted, gt, resumes, stale>>

\* The domain resumes with an empty grant table; GnttabSuspendCallbackEarly maps
\* its frames and nothing grants the pages anew.
Resume ==
  /\ gtAcquired /\ resumes < MaxResumes /\ resumes' = resumes + 1
  /\ \A t \in GtThread : gt[t].pc \in (IF t \in GtPassive THEN {"idle", "write", "permit", "revoke", "clear"}
                                                         ELSE {"idle"})
  /\ table' = [r \in Reference |-> Blank] /\ mapping' = {}
  /\ Frame' = 0 .. FrameIndex
  /\ stale' = UNION {Held(t) : t \in GtThread}
  /\ exhausted' = {} /\ UNCHANGED <<gtAcquired, FrameIndex, references, cached, granted, gt>>

GnttabNext ==
  \/ GnttabAcquire \/ GnttabRelease \/ Resume
  \/ \E t \in GtThread :
       \/ GnttabExpand(t) \/ GnttabExpanded(t) \/ GnttabEntryCtor(t)
       \/ WriteEntry(t) \/ PermitEntry(t) \/ AttemptRevoke(t) \/ ClearEntry(t) \/ Spill(t)
       \/ \E page \in Page : GnttabPermitForeignAccess(t, page)
       \/ \E r \in Reference : GnttabRevokeForeignAccess(t, r)
  \/ \E r \in Reference : BackendMap(r) \/ BackendUnmap(r)

GnttabSpec == GnttabInit /\ [][GnttabNext]_gtVars

-----------------------------------------------------------------------------
Using(t) == IF gt[t].pc \in {"write", "permit"} THEN {gt[t].ref} ELSE {}
Owned(t) == cached[t] \cup Held(t) \cup Using(t)

\* Every reference of a frame is in one place, the range set or one thread's cache or
\* grants, however threads expand the table and whatever fails: what GnttabContract
\* asserts at the end.  The frames are those up to FrameIndex, but for one being added.
ReferencesKept ==
  /\ references \cup UNION {Owned(t) : t \in GtThread} = UNION {InFrame(i) : i \in Frame}
  /\ \A t \in GtThread :
       /\ Owned(t) \cap references = {}
       /\ cached[t] \cap (Held(t) \cup Using(t)) = {} /\ Held(t) \cap Using(t) = {}
       /\ \A u \in GtThread : u # t => Owned(t) \cap Owned(u) = {}
  /\ Frame = (0 .. FrameIndex) \ {gt[t].index : t \in {u \in GtThread : gt[u].pc = "expand"}}

\* The hypervisor lets a domain in only to a page that its client has granted and not
\* yet had back, and does let it in to each one, until a suspend or an attempt to
\* revoke it; unless the loop that revokes it gave up, a page that the backend has
\* mapped is granted still.
GrantsExact ==
  LET grants == UNION {granted[t] : t \in GtThread} IN
  /\ \A r \in Reference : table[r].permit => <<r, table[r].page>> \in grants
  /\ \A t \in GtThread : \A g \in granted[t] :
       g[1] \in stale \/ table[g[1]].permit \/ (gt[t].pc = "clear" /\ gt[t].ref = g[1])
  /\ \A m \in mapping : m[1] \in exhausted \/ m \in grants

\* GnttabExpand never gets an index beyond the one after the last frame (its ASSERT).
IndexBound == \A t \in GtThread : gt[t].index <= MaximumFrameCount

GnttabInv == ReferencesKept /\ GrantsExact /\ IndexBound
=============================================================================
