------------------------------ MODULE MetaCache ------------------------------
(***************************************************************************)
(* The demand-loaded L2P cache of the DFTL (META_CACHE, META_MGR), the     *)
(* pool and queues of META_REQUESTs that load and flush its pages, and the *)
(* two callers that compete for it: the head of the host (HIL) wait queue  *)
(* and the head of the GC wait queue.                                      *)
(*                                                                         *)
(* The firmware is one polling loop.  `phase` is the place the loop has    *)
(* reached in DFTL_GLOBAL::Run, in the order of the code:                  *)
(*   main -> fil -> gcDone -> metaDone -> metaWait -> gcWait -> hilWait    *)
(*        -> gcStart -> gcRead                                             *)
(* where main is the caller: HIL_Format until the format is done, then     *)
(* nvme_run.                                                               *)
(* A step is one iteration of the inner loop of a phase; what other parts  *)
(* decide (which NAND read has finished, whether a program unit is still   *)
(* programming, when GC starts) is a nondeterministic choice.              *)
(*                                                                         *)
(* Two assumptions: a load of a meta page returns the content stored last  *)
(* (metaFlash is a register), which the layers below give with the         *)
(* exceptions ActiveBlock and FilQueue report; and buffers are there.      *)
(***************************************************************************)
EXTENDS Integers, SequencesExt

CONSTANTS
  Entries,            \* the cache entries, m_astCacheEntry
  Requests,           \* the meta request pool, META_REQUEST_COUNT of them
  MetaPageCount,      \* GetMetaLPNCount()
  L2VPerMetaPage,     \* L2V_PER_META_PAGE
  VPPN,               \* addresses a mapping can hold
  HilDepth,           \* bound: host requests waiting at once
  MaxLPNCount,        \* bound: LPNs of one host request
  GcDepth,            \* the GC request pool, GC_REQUEST_COUNT
  GcTypes,            \* which collectors may start: subset of {"GC", "META"}
  MaxExcess,          \* bound: pages m_nVPC counts too many, see StartGC
  Invalid, NoPage, NoEntry, NoContent   \* INVALID_PPN, INVALID_LPN, NULL

ASSUME SizesAssumption ==
  /\ MetaPageCount \in Nat \ {0}
  /\ L2VPerMetaPage \in Nat \ {0}
  /\ MaxLPNCount \in 1..L2VPerMetaPage + 1   \* a request spans two pages at most
  /\ HilDepth \in Nat
  /\ GcDepth \in Nat
  /\ MaxExcess \in Nat
  /\ Entries # {}
  /\ IsFiniteSet(Entries)
  /\ GcTypes \subseteq {"GC", "META"}

LPN     == 0..(MetaPageCount * L2VPerMetaPage - 1)
MetaLPN == 0..(MetaPageCount - 1)
Offset  == 0..(L2VPerMetaPage - 1)
Address == VPPN \union {Invalid}
Content == [Offset -> Address]

ASSUME SentinelAssumption ==
  /\ Invalid \notin VPPN
  /\ NoPage \notin MetaLPN
  /\ NoEntry \notin Entries
  /\ NoContent \notin Content

VARIABLES
  entry,      \* META_CACHE_ENTRY: page, the three flags and the mappings
  lru,        \* m_dlLRU, most recently used first
  free,       \* m_dlFree
  req,        \* META_REQUEST pool
  waitQ,      \* META_REQUEST_INFO::m_dlWait
  doneQ,      \* META_REQUEST_INFO::m_dlDone
  metaFlash,  \* what a read of a meta page through META_L2V_MGR returns
  nFormat,    \* m_nFormatMetaLPN
  phase,      \* where DFTL_GLOBAL::Run is
  hilQ,       \* HIL_REQUEST_INFO::m_dlWait
  gcQ,        \* GC_REQUEST_INFO::m_dlWait
  gcIssued,   \* GC_REQUEST_INFO::m_dlIssued
  gcDoneQ,    \* GC_REQUEST_INFO::m_dlDone
  gcVictim,   \* per collector: the LPNs of the victim's valid pages not read yet
  gcLeft,     \* per collector: m_nVPC - m_nWriteCount
  gcExcess,   \* pages m_nVPC counts in the user victim that are not there to be read
  latest      \* history: the last mapping SetL2V was given for each LPN

cacheVars == <<entry, lru, free>>
reqVars   == <<req, waitQ, doneQ>>
gcCounts  == <<gcVictim, gcLeft, gcExcess>>
gcVars    == <<gcQ, gcIssued, gcDoneQ, gcCounts>>
vars == <<entry, lru, free, req, waitQ, doneQ, metaFlash, nFormat, phase,
          hilQ, gcQ, gcIssued, gcDoneQ, gcVictim, gcLeft, gcExcess, latest>>

Collectors == {"GC", "META"}    \* IOTYPE_GC of user blocks, IOTYPE_META

Blank == [o \in Offset |-> Invalid]

EntryType ==
  [metaLPN : MetaLPN \union {NoPage},
   valid : BOOLEAN, dirty : BOOLEAN, io : BOOLEAN, l2v : Content]

WaitStatus == {"READ_WAIT", "WRITE_WAIT"}
DoneStatus == {"READ_DONE", "WRITE_DONE"}
Status == {"FREE", "READ_ISSUE"} \union WaitStatus \union DoneStatus

RequestType ==
  [status : Status, metaLPN : MetaLPN \union {NoPage},
   entry : Entries \union {NoEntry}, buf : Content \union {NoContent}]

FreeRequest ==
  [status |-> "FREE", metaLPN |-> NoPage, entry |-> NoEntry, buf |-> NoContent]

HilRequestType ==
  {h \in [cmd : {"READ", "WRITE"}, lpn : LPN, count : 1..MaxLPNCount, done : Nat] :
     h.lpn + h.count - 1 \in LPN /\ h.done < h.count}

GcRequestType ==
  [io : Collectors, status : {"READ_WAIT", "READ_ISSUE", "WRITE_WAIT", "WRITE_DONE"},
   lpn : LPN, buf : Content]

Phases == {"main", "fil", "gcDone", "metaDone", "metaWait", "gcWait", "hilWait",
           "gcStart", "gcRead"}

------------------------------------------------------------------------------
(* The lists and the pool.                                                  *)

MetaLPNOf(n) == n \div L2VPerMetaPage
OffsetOf(n)  == n % L2VPerMetaPage

Formatted == nFormat = MetaPageCount

\* An entry that is on both lists: its links belong to m_dlFree, so a walk of
\* m_dlLRU that passes it never meets the list head again and does not end.
ListsIntact == ToSet(lru) \intersect ToSet(free) = {}

\* GetMetaEntry on the list l: the position of the first entry of page p.
Positions(l, p) == {i \in DOMAIN l : entry[l[i]].metaLPN = p}
\* Mutant: an entry being loaded is not found.
IsCachedWhenValid(l, p) == \E i \in Positions(l, p) : entry[l[i]].valid
IsCached(l, p)  == Positions(l, p) # {}
PositionOf(l, p) == CHOOSE i \in Positions(l, p) : \A j \in Positions(l, p) : i <= j
CachedEntry(l, p) == l[PositionOf(l, p)]

\* list_move_head of a hit; a miss leaves the list as it is.
Touch(l, p) ==
  IF IsCached(l, p)
  THEN Cons(CachedEntry(l, p), RemoveAt(l, PositionOf(l, p)))
  ELSE l

IsMetaAvailable(l, p) == IsCached(l, p) /\ entry[CachedEntry(l, p)].valid

FreeRequests == {r \in Requests : req[r].status = "FREE"}

\* AllocateRequest: the pool's requests are alike, any free one stands for the
\* first of m_dlFree.
FirstFree == CHOOSE r \in FreeRequests : TRUE

StartRequest(status, p, e, buf) ==
  /\ req' = [req EXCEPT ![FirstFree] =
               [status |-> status, metaLPN |-> p, entry |-> e, buf |-> buf]]
  /\ waitQ' = Append(waitQ, FirstFree)

------------------------------------------------------------------------------
(* META_CACHE::_Allocate, called with the LRU list l.  It either gives an   *)
(* entry (AllocateSucceeds), or finds the tail busy, or starts the flush of *)
(* a dirty tail and reports busy (AllocateBusy).                            *)

\* Mutants: the tail is taken although it is busy, or dirty.
AllocateSucceedsBusy(l) == free = <<>> => ~entry[Last(l)].dirty
AllocateSucceedsDirty(l) == free = <<>> => ~entry[Last(l)].io

AllocateSucceeds(l) ==
  free = <<>> => ~entry[Last(l)].io /\ ~entry[Last(l)].dirty

Allocated(l)    == IF free # <<>> THEN Head(free) ELSE Last(l)
\* Mutant: the tail is not unlinked.
AllocatedLruKeepsTail(l) == Cons(Allocated(l), l)

AllocatedLru(l) == Cons(Allocated(l), IF free # <<>> THEN l ELSE Front(l))
AllocatedFree   == IF free # <<>> THEN Tail(free) ELSE free

\* Mutant: the flush of a tail already being flushed starts again.
AllocateBusyTwice(l) ==
  /\ ~AllocateSucceeds(l)
  /\ lru' = l
  /\ UNCHANGED free
  /\ IF FreeRequests = {}
     THEN UNCHANGED <<entry, req, waitQ>>
     ELSE /\ StartRequest("WRITE_WAIT", entry[Last(l)].metaLPN, Last(l),
                          entry[Last(l)].l2v)
          /\ entry' = [entry EXCEPT ![Last(l)].io = TRUE]

AllocateBusy(l) ==
  /\ ~AllocateSucceeds(l)
  /\ lru' = l
  /\ UNCHANGED free
  /\ IF entry[Last(l)].io \/ FreeRequests = {}
     THEN UNCHANGED <<entry, req, waitQ>>
     ELSE /\ StartRequest("WRITE_WAIT", entry[Last(l)].metaLPN, Last(l),
                          entry[Last(l)].l2v)
          /\ entry' = [entry EXCEPT ![Last(l)].io = TRUE]

\* META_CACHE::LoadMeta of page p.
LoadMeta(l, p) ==
  \/ /\ IsCached(l, p)                  \* already being loaded
     /\ lru' = Touch(l, p)
     /\ UNCHANGED <<entry, free, req, waitQ>>
  \/ /\ ~IsCached(l, p)
     /\ AllocateBusy(l)
  \/ /\ ~IsCached(l, p)
     /\ AllocateSucceeds(l)
     /\ FreeRequests # {}
     /\ lru' = AllocatedLru(l)
     /\ free' = AllocatedFree
     /\ entry' = [entry EXCEPT ![Allocated(l)].valid = FALSE,
                               ![Allocated(l)].metaLPN = p,
                               ![Allocated(l)].io = TRUE]
     /\ StartRequest("READ_WAIT", p, Allocated(l), NoContent)
  \/ /\ ~IsCached(l, p)                 \* no request: _Release the entry, which
     /\ AllocateSucceeds(l)             \* does not take it off m_dlLRU
     /\ FreeRequests = {}
     /\ lru' = AllocatedLru(l)
     /\ free' = Cons(Allocated(l), AllocatedFree)
     /\ entry' = [entry EXCEPT ![Allocated(l)].valid = FALSE]
     /\ UNCHANGED <<req, waitQ>>

\* Mutant: the entry is not marked dirty.
SetL2VNotDirty(l, n, v) ==
  /\ lru' = Touch(l, MetaLPNOf(n))
  /\ entry' = [entry EXCEPT ![CachedEntry(l, MetaLPNOf(n))].l2v[OffsetOf(n)] = v]
  /\ latest' = [latest EXCEPT ![n] = v]

\* META_MGR::SetL2V on an available page; l is the list after the lookups.
SetL2V(l, n, v) ==
  LET p == MetaLPNOf(n) IN
  /\ lru' = Touch(l, p)
  /\ entry' = [entry EXCEPT ![CachedEntry(l, p)].l2v[OffsetOf(n)] = v,
                            ![CachedEntry(l, p)].dirty = TRUE]
  /\ latest' = [latest EXCEPT ![n] = v]

------------------------------------------------------------------------------
(* The caller of FTL_Run.  HIL_Format calls META_CACHE::Format until it is  *)
(* done, with a FTL_Run after each call.                                    *)

FormatPage ==
  /\ phase = "main"
  /\ ~Formatted
  /\ AllocateSucceeds(lru)
  /\ lru' = AllocatedLru(lru)
  /\ free' = AllocatedFree
  /\ entry' = [entry EXCEPT ![Allocated(lru)] =
                 [metaLPN |-> nFormat, valid |-> TRUE, dirty |-> TRUE,
                  io |-> @.io, l2v |-> Blank]]
  /\ nFormat' = nFormat + 1
  /\ phase' = "fil"
  /\ UNCHANGED <<reqVars, metaFlash, hilQ, gcVars, latest>>

FormatBusy ==
  /\ phase = "main"
  /\ ~Formatted
  /\ AllocateBusy(lru)
  /\ phase' = "fil"
  /\ UNCHANGED <<doneQ, metaFlash, nFormat, hilQ, gcVars, latest>>

\* nvme_run: a command is taken, DFTL_GLOBAL::ReadPage and WritePage queue it.
HostArrives ==
  /\ phase = "main"
  /\ Formatted
  /\ Len(hilQ) < HilDepth
  /\ \E cmd \in {"READ", "WRITE"}, n \in LPN, c \in 1..MaxLPNCount :
       /\ n + c - 1 \in LPN
       /\ hilQ' = Append(hilQ, [cmd |-> cmd, lpn |-> n, count |-> c, done |-> 0])
  /\ phase' = "fil"
  /\ UNCHANGED <<cacheVars, reqVars, metaFlash, nFormat, gcVars, latest>>

\* No command: nvme_run goes straight to HIL_Run.
NoCommand ==
  /\ phase = "main"
  /\ Formatted
  /\ phase' = "fil"
  /\ UNCHANGED <<cacheVars, reqVars, metaFlash, nFormat, hilQ, gcVars, latest>>

------------------------------------------------------------------------------
(* FIL_Run.  NAND reads finish in any order (the dies are independent).     *)

\* Mutant: the request is not moved to the done queue.
MetaReadCallBackNotQueued(r) ==
  /\ phase = "fil"
  /\ req[r].status = "READ_ISSUE"
  /\ req' = [req EXCEPT ![r].status = "READ_DONE"]
  /\ UNCHANGED <<cacheVars, waitQ, doneQ, metaFlash, nFormat, phase, hilQ, gcVars,
                 latest>>

\* DFTL_GLOBAL::CallBack, FTL_REQUEST_ID_TYPE_META_READ.
MetaReadCallBack(r) ==
  /\ phase = "fil"
  /\ req[r].status = "READ_ISSUE"
  /\ req' = [req EXCEPT ![r].status = "READ_DONE"]
  /\ doneQ' = Append(doneQ, r)
  /\ UNCHANGED <<cacheVars, waitQ, metaFlash, nFormat, phase, hilQ, gcVars, latest>>

\* GC_REQUEST::GCReadDone: back to the wait queue, now to be written.
GCReadDone(g) ==
  /\ phase = "fil"
  /\ g \in gcIssued
  /\ gcIssued' = gcIssued \ {g}
  /\ gcQ' = Append(gcQ, [g EXCEPT !.status = "WRITE_WAIT"])
  /\ UNCHANGED <<cacheVars, reqVars, metaFlash, nFormat, phase, hilQ, gcDoneQ,
                 gcCounts, latest>>

FilRunDone ==
  /\ phase = "fil"
  /\ phase' = "gcDone"
  /\ UNCHANGED <<cacheVars, reqVars, metaFlash, nFormat, hilQ, gcVars, latest>>

------------------------------------------------------------------------------
(* _ProcessGCRequestDoneQ.                                                  *)

\* GC_REQUEST::_ProcessWrite_Done and GC_MGR::IncreaseWriteCount: at the last
\* page of the victim the collection is over (gcLeft = 0).
GCWriteDone ==
  /\ phase = "gcDone"
  /\ gcDoneQ # <<>>
  /\ gcDoneQ' = Tail(gcDoneQ)
  /\ gcLeft' = [gcLeft EXCEPT ![Head(gcDoneQ).io] = @ - 1]
  /\ UNCHANGED <<cacheVars, reqVars, metaFlash, nFormat, phase, hilQ, gcQ,
                 gcIssued, gcVictim, gcExcess, latest>>

GCDoneQEmpty ==
  /\ phase = "gcDone"
  /\ gcDoneQ = <<>>
  /\ phase' = "metaDone"
  /\ UNCHANGED <<cacheVars, reqVars, metaFlash, nFormat, hilQ, gcVars, latest>>

------------------------------------------------------------------------------
(* _ProcessMetaRequestDoneQ: the done queue is emptied from its head.       *)

\* Mutant: the loaded entry is not marked valid.
MetaReadDoneNotValid ==
  /\ phase = "metaDone"
  /\ doneQ # <<>>
  /\ LET r == Head(doneQ) IN
     /\ req[r].status = "READ_DONE"
     /\ entry' = [entry EXCEPT ![req[r].entry].io = FALSE,
                               ![req[r].entry].dirty = FALSE,
                               ![req[r].entry].l2v = req[r].buf]
     /\ req' = [req EXCEPT ![r] = FreeRequest]
  /\ doneQ' = Tail(doneQ)
  /\ UNCHANGED <<lru, free, waitQ, metaFlash, nFormat, phase, hilQ, gcVars, latest>>

\* META_REQUEST::_ProcessRead_Done and META_MGR::LoadDone.
MetaReadDone ==
  /\ phase = "metaDone"
  /\ doneQ # <<>>
  /\ LET r == Head(doneQ) IN
     /\ req[r].status = "READ_DONE"
     /\ entry' = [entry EXCEPT ![req[r].entry].io = FALSE,
                               ![req[r].entry].dirty = FALSE,
                               ![req[r].entry].valid = TRUE,
                               ![req[r].entry].l2v = req[r].buf]
     /\ req' = [req EXCEPT ![r] = FreeRequest]
  /\ doneQ' = Tail(doneQ)
  /\ UNCHANGED <<lru, free, waitQ, metaFlash, nFormat, phase, hilQ, gcVars, latest>>

\* META_REQUEST::_ProcessWrite_Done and META_MGR::StoreDone.
MetaWriteDone ==
  /\ phase = "metaDone"
  /\ doneQ # <<>>
  /\ LET r == Head(doneQ) IN
     /\ req[r].status = "WRITE_DONE"
     /\ entry' = [entry EXCEPT ![req[r].entry].io = FALSE,
                               ![req[r].entry].dirty = FALSE]
     /\ req' = [req EXCEPT ![r] = FreeRequest]
  /\ doneQ' = Tail(doneQ)
  /\ UNCHANGED <<lru, free, waitQ, metaFlash, nFormat, phase, hilQ, gcVars, latest>>

MetaDoneQEmpty ==
  /\ phase = "metaDone"
  /\ doneQ = <<>>
  /\ phase' = "metaWait"
  /\ UNCHANGED <<cacheVars, reqVars, metaFlash, nFormat, hilQ, gcVars, latest>>

------------------------------------------------------------------------------
(* _ProcessMetaRequestWaitQ: from the head, until one cannot proceed.       *)

\* META_REQUEST::_ProcessRead_Wait.  The page is copied from a program unit
\* that still holds it, or read from the NAND.  Either way what arrives is the
\* copy META_L2V_MGR points to now: a NAND page does not change.
MetaReadWait(hit) ==
  /\ phase = "metaWait"
  /\ waitQ # <<>>
  /\ LET r == Head(waitQ) IN
     /\ req[r].status = "READ_WAIT"
     /\ req' = [req EXCEPT
                  ![r].status = IF hit THEN "READ_DONE" ELSE "READ_ISSUE",
                  ![r].buf = metaFlash[req[r].metaLPN]]
     /\ doneQ' = IF hit THEN Append(doneQ, r) ELSE doneQ
  /\ waitQ' = Tail(waitQ)
  /\ UNCHANGED <<cacheVars, metaFlash, nFormat, phase, hilQ, gcVars, latest>>

\* META_REQUEST::_ProcessWrite_Wait: the buffer goes to the meta active block,
\* and META_L2V_MGR::SetL2V makes the old copy of the page invalid.
MetaWriteWait ==
  /\ phase = "metaWait"
  /\ waitQ # <<>>
  /\ LET r == Head(waitQ) IN
     /\ req[r].status = "WRITE_WAIT"
     /\ metaFlash' = [metaFlash EXCEPT ![req[r].metaLPN] = req[r].buf]
     /\ req' = [req EXCEPT ![r].status = "WRITE_DONE"]
     /\ doneQ' = Append(doneQ, r)
     /\ gcVictim' = [gcVictim EXCEPT !["META"] = @ \ {req[r].metaLPN}]
  /\ waitQ' = Tail(waitQ)
  /\ UNCHANGED <<cacheVars, nFormat, phase, hilQ, gcQ, gcIssued, gcDoneQ, gcLeft,
                 gcExcess, latest>>

\* No free buffer, or the program unit is still programming: the queue waits.
MetaWriteBusy ==
  /\ phase = "metaWait"
  /\ waitQ # <<>>
  /\ req[Head(waitQ)].status = "WRITE_WAIT"
  /\ phase' = "gcWait"
  /\ UNCHANGED <<cacheVars, reqVars, metaFlash, nFormat, hilQ, gcVars, latest>>

MetaWaitQEmpty ==
  /\ phase = "metaWait"
  /\ waitQ = <<>>
  /\ phase' = "gcWait"
  /\ UNCHANGED <<cacheVars, reqVars, metaFlash, nFormat, hilQ, gcVars, latest>>

------------------------------------------------------------------------------
(* _ProcessGCRequestWaitQ.                                                  *)

\* GC_MGR::IsGCRunning
IsGCRunning(t) == gcLeft[t] > 0

\* GC_REQUEST_INFO::GetWaitRequest: while the meta GC runs its own requests
\* come first.
GCWaitPosition ==
  LET metas == {i \in DOMAIN gcQ : gcQ[i].io = "META"} IN
  IF IsGCRunning("META") /\ metas # {}
  THEN CHOOSE i \in metas : \A j \in metas : i <= j
  ELSE 1

GCWaitRequest == gcQ[GCWaitPosition]

GCWaitQEmpty ==
  /\ phase = "gcWait"
  /\ gcQ = <<>>
  /\ phase' = "hilWait"
  /\ UNCHANGED <<cacheVars, reqVars, metaFlash, nFormat, hilQ, gcVars, latest>>

\* GC_REQUEST::_ProcessRead_Wait, when it gets a buffer; without one it waits.
GCReadWait ==
  /\ phase = "gcWait"
  /\ gcQ # <<>>
  /\ GCWaitRequest.status = "READ_WAIT"
  /\ gcQ' = RemoveAt(gcQ, GCWaitPosition)
  /\ gcIssued' = gcIssued \union {[GCWaitRequest EXCEPT !.status = "READ_ISSUE"]}
  /\ UNCHANGED <<cacheVars, reqVars, metaFlash, nFormat, phase, hilQ, gcDoneQ,
                 gcCounts, latest>>

GCToWrite == gcQ # <<>> /\ GCWaitRequest.status = "WRITE_WAIT"

\* GC_REQUEST::_IsWritable refuses a user page while the meta GC runs.
GCBlocked == GCWaitRequest.io = "GC" /\ IsGCRunning("META")

GCPage == MetaLPNOf(GCWaitRequest.lpn)

GCWriteBlocked ==
  /\ phase = "gcWait"
  /\ GCToWrite
  /\ GCBlocked
  /\ phase' = "hilWait"
  /\ UNCHANGED <<cacheVars, reqVars, metaFlash, nFormat, hilQ, gcVars, latest>>

\* _CheckAndLoadMeta looks up m_nLPN as a user LPN whatever the request moves,
\* also when it is the LPN of a meta page.
GCWriteMiss ==
  /\ phase = "gcWait"
  /\ ListsIntact
  /\ GCToWrite
  /\ ~GCBlocked
  /\ ~IsMetaAvailable(lru, GCPage)
  /\ LoadMeta(Touch(lru, GCPage), GCPage)
  /\ phase' = "hilWait"
  /\ UNCHANGED <<doneQ, metaFlash, nFormat, hilQ, gcVars, latest>>

GCWriteBusy ==
  /\ phase = "gcWait"
  /\ ListsIntact
  /\ GCToWrite
  /\ ~GCBlocked
  /\ IsMetaAvailable(lru, GCPage)
  /\ lru' = Touch(lru, GCPage)
  /\ phase' = "hilWait"
  /\ UNCHANGED <<entry, free, reqVars, metaFlash, nFormat, hilQ, gcVars, latest>>

\* GC_REQUEST::_ProcessWrite_Wait: a user page is mapped to its new place, a
\* meta page is copied as it was read.  The new place is in the victim itself when
\* that is the block the collector is filling (see StartGC): the copy takes a page
\* that was not written, and is read in its turn if _Read has not passed it.
GCWrite ==
  /\ phase = "gcWait"
  /\ ListsIntact
  /\ GCToWrite
  /\ ~GCBlocked
  /\ IsMetaAvailable(lru, GCPage)
  /\ gcQ' = RemoveAt(gcQ, GCWaitPosition)
  /\ gcDoneQ' = Append(gcDoneQ, [GCWaitRequest EXCEPT !.status = "WRITE_DONE"])
  /\ \/ /\ GCWaitRequest.io = "GC"
        /\ \E v \in VPPN : SetL2V(Touch(lru, GCPage), GCWaitRequest.lpn, v)
        /\ \/ /\ gcVictim' = [gcVictim EXCEPT !["GC"] = @ \ {GCWaitRequest.lpn}]
              /\ UNCHANGED gcExcess
           \/ /\ gcExcess > 0
              /\ gcVictim' = [gcVictim EXCEPT !["GC"] = @ \union {GCWaitRequest.lpn}]
              /\ gcExcess' = gcExcess - 1
        /\ UNCHANGED metaFlash
     \/ /\ GCWaitRequest.io = "META"
        /\ metaFlash' = [metaFlash EXCEPT ![GCWaitRequest.lpn] = GCWaitRequest.buf]
        /\ gcVictim' = [gcVictim EXCEPT !["META"] = @ \ {GCWaitRequest.lpn}]
        /\ lru' = Touch(lru, GCPage)
        /\ UNCHANGED <<entry, latest, gcExcess>>
  /\ UNCHANGED <<free, reqVars, nFormat, phase, hilQ, gcIssued, gcLeft>>

------------------------------------------------------------------------------
(* _ProcessHILRequestWaitQ.                                                 *)

HilHead  == hilQ[1]
HilFirst == MetaLPNOf(HilHead.lpn)
HilLast  == MetaLPNOf(HilHead.lpn + HilHead.count - 1)
HilCur   == HilHead.lpn + HilHead.done

\* Mutant: a write does not wait for the user collector.
HilBlockedByMetaGC == IsGCRunning("META")

\* HIL_REQUEST::_IsReadable and _IsWritable.
HilBlocked ==
  IsGCRunning("META") \/ (HilHead.cmd = "WRITE" /\ IsGCRunning("GC"))

\* The list after IsMetaAvailable of the first and then of the last page.
HilTouched == Touch(Touch(lru, HilFirst), HilLast)

HilAvailable == IsMetaAvailable(lru, HilFirst) /\ IsMetaAvailable(lru, HilLast)

HilWaitQEmpty ==
  /\ phase = "hilWait"
  /\ hilQ = <<>>
  /\ phase' = "gcStart"
  /\ UNCHANGED <<cacheVars, reqVars, metaFlash, nFormat, hilQ, gcVars, latest>>

HilWaitBlocked ==
  /\ phase = "hilWait"
  /\ hilQ # <<>>
  /\ HilBlocked
  /\ phase' = "gcStart"
  /\ UNCHANGED <<cacheVars, reqVars, metaFlash, nFormat, hilQ, gcVars, latest>>

\* HIL_REQUEST::_CheckAndLoadMeta: the last page is looked up only when the
\* first is there.
HilMiss ==
  /\ phase = "hilWait"
  /\ ListsIntact
  /\ hilQ # <<>>
  /\ ~HilBlocked
  /\ \/ /\ ~IsMetaAvailable(lru, HilFirst)
        /\ LoadMeta(Touch(lru, HilFirst), HilFirst)
     \/ /\ IsMetaAvailable(lru, HilFirst)
        /\ ~IsMetaAvailable(lru, HilLast)
        /\ LoadMeta(HilTouched, HilLast)
  /\ phase' = "gcStart"
  /\ UNCHANGED <<doneQ, metaFlash, nFormat, hilQ, gcVars, latest>>

\* HIL_REQUEST::_ProcessRead_Wait, once the mappings are there.  The buffers, which
\* _IsReadable asks for too, are in HostIo; without them the request waits.
HilRead ==
  /\ phase = "hilWait"
  /\ ListsIntact
  /\ hilQ # <<>>
  /\ HilHead.cmd = "READ"
  /\ ~HilBlocked
  /\ HilAvailable
  /\ lru' = HilTouched
  /\ hilQ' = Tail(hilQ)
  /\ UNCHANGED <<entry, free, reqVars, metaFlash, nFormat, phase, gcVars, latest>>

\* One turn of the loop of HIL_REQUEST::_ProcessWrite_Wait: one LPN is written.  Its
\* old copy becomes invalid: a collector would skip it.
HilWrite ==
  /\ phase = "hilWait"
  /\ ListsIntact
  /\ hilQ # <<>>
  /\ HilHead.cmd = "WRITE"
  /\ ~HilBlocked
  /\ HilAvailable
  /\ \E v \in VPPN : SetL2V(HilTouched, HilCur, v)
  /\ gcVictim' = [gcVictim EXCEPT !["GC"] = @ \ {HilCur}]
  /\ hilQ' = IF HilHead.done + 1 = HilHead.count
             THEN Tail(hilQ)
             ELSE [hilQ EXCEPT ![1].done = @ + 1]
  /\ UNCHANGED <<free, reqVars, metaFlash, nFormat, phase, gcQ, gcIssued, gcDoneQ,
                 gcLeft, gcExcess>>

\* ACTIVE_BLOCK::Write finds the program unit still programming.
HilWriteBusy ==
  /\ phase = "hilWait"
  /\ ListsIntact
  /\ hilQ # <<>>
  /\ HilHead.cmd = "WRITE"
  /\ ~HilBlocked
  /\ HilAvailable
  /\ lru' = HilTouched
  /\ phase' = "gcStart"
  /\ UNCHANGED <<entry, free, reqVars, metaFlash, nFormat, hilQ, gcVars, latest>>

------------------------------------------------------------------------------
(* The end of DFTL_GLOBAL::Run.  When free blocks are short (which the      *)
(* blocks decide, and which the format, that writes each meta page once,    *)
(* does not bring about) CheckAndStartGC picks a victim, the meta collector *)
(* first; then GC_MGR::Run lets one collector read one page.                *)

\* The pages that have a valid copy the collector could move.
MappedPages(t) ==
  IF t = "GC" THEN {n \in LPN : latest[n] # Invalid}
              ELSE {p \in MetaLPN : metaFlash[p] # NoContent}

\* m_nVPC is the pages of a block less the invalid ones (line 108): it also counts
\* those nobody has written yet, the excess.  Only the current block of a stream has
\* any, and is no victim as long as it is marked active; but a user block can lose the
\* mark (BlockMgr, VictimCounted).  In a block the host is filling the excess stays,
\* since host writes wait; in the one the collector is filling copies may use it up.
\* The marks of the meta blocks are right (BlockMgr, ActiveMarked).
StartGC(t) ==
  /\ phase = "gcStart"
  /\ Formatted
  /\ t \in GcTypes
  /\ ~IsGCRunning(t)
  /\ t = "GC" => ~IsGCRunning("META")
  /\ \E victim \in SUBSET MappedPages(t), excess \in 0..MaxExcess :
       /\ victim # {} \/ excess > 0
       /\ t = "META" => excess = 0
       /\ gcVictim' = [gcVictim EXCEPT ![t] = victim]
       /\ gcLeft' = [gcLeft EXCEPT ![t] = Cardinality(victim) + excess]
       /\ gcExcess' = IF t = "GC" THEN excess ELSE gcExcess
  /\ phase' = IF t = "META" THEN "gcStart" ELSE "gcRead"
  /\ UNCHANGED <<cacheVars, reqVars, metaFlash, nFormat, hilQ, gcQ, gcIssued,
                 gcDoneQ, latest>>

NoStartGC ==
  /\ phase = "gcStart"
  /\ phase' = "gcRead"
  /\ UNCHANGED <<cacheVars, reqVars, metaFlash, nFormat, hilQ, gcVars, latest>>

\* GC_MGR::Run of the user collector returns while the meta collector runs.
Reader == IF IsGCRunning("META") THEN "META" ELSE "GC"

GCRequestFree == Len(gcQ) + Cardinality(gcIssued) + Len(gcDoneQ) < GcDepth

\* GC_MGR::_Read: the next valid page of the victim is queued to be read.  The
\* data a meta page has in the victim is what will arrive.
GCRead ==
  /\ phase = "gcRead"
  /\ IsGCRunning(Reader)
  /\ GCRequestFree
  /\ \E n \in gcVictim[Reader] :
       /\ gcVictim' = [gcVictim EXCEPT ![Reader] = @ \ {n}]
       /\ gcQ' = Append(gcQ,
                   [io |-> Reader, status |-> "READ_WAIT", lpn |-> n,
                    buf |-> IF Reader = "GC" THEN Blank ELSE metaFlash[n]])
  /\ phase' = "main"
  /\ UNCHANGED <<cacheVars, reqVars, metaFlash, nFormat, hilQ, gcIssued, gcDoneQ,
                 gcLeft, gcExcess, latest>>

NoGCRead ==
  /\ phase = "gcRead"
  /\ ~(IsGCRunning(Reader) /\ GCRequestFree /\ gcVictim[Reader] # {})
  /\ phase' = "main"
  /\ UNCHANGED <<cacheVars, reqVars, metaFlash, nFormat, hilQ, gcVars, latest>>

------------------------------------------------------------------------------
Init ==
  /\ entry = [e \in Entries |-> [metaLPN |-> NoPage, valid |-> FALSE,
                                 dirty |-> FALSE, io |-> FALSE, l2v |-> Blank]]
  /\ lru = <<>>
  /\ free = SetToSeq(Entries)
  /\ req = [r \in Requests |-> FreeRequest]
  /\ waitQ = <<>>
  /\ doneQ = <<>>
  /\ metaFlash = [p \in MetaLPN |-> NoContent]
  /\ nFormat = 0
  /\ phase = "main"
  /\ hilQ = <<>>
  /\ gcQ = <<>>
  /\ gcIssued = {}
  /\ gcDoneQ = <<>>
  /\ gcVictim = [t \in Collectors |-> {}]
  /\ gcLeft = [t \in Collectors |-> 0]
  /\ gcExcess = 0
  /\ latest = [n \in LPN |-> Invalid]

Main     == FormatPage \/ FormatBusy \/ HostArrives \/ NoCommand
MetaDone == MetaReadDone \/ MetaWriteDone \/ MetaDoneQEmpty
MetaWait == (\E hit \in BOOLEAN : MetaReadWait(hit))
            \/ MetaWriteWait \/ MetaWriteBusy \/ MetaWaitQEmpty
GCWait   == GCWaitQEmpty \/ GCReadWait \/ GCWriteBlocked \/ GCWriteMiss
            \/ GCWriteBusy \/ GCWrite
HilWait  == HilWaitQEmpty \/ HilWaitBlocked \/ HilMiss \/ HilRead \/ HilWrite
            \/ HilWriteBusy
GCRun    == (\E t \in Collectors : StartGC(t)) \/ NoStartGC \/ GCRead \/ NoGCRead
Fil      == (\E r \in Requests : MetaReadCallBack(r))
            \/ (\E g \in gcIssued : GCReadDone(g)) \/ FilRunDone
GCDone   == GCWriteDone \/ GCDoneQEmpty

Next == Main \/ Fil \/ GCDone \/ MetaDone \/ MetaWait \/ GCWait \/ HilWait \/ GCRun

Spec == Init /\ [][Next]_vars

------------------------------------------------------------------------------
(* Properties.                                                              *)

\* Every variable stays in its type.
TypeOK ==
  /\ entry \in [Entries -> EntryType]
  /\ lru \in Seq(Entries)
  /\ free \in Seq(Entries)
  /\ req \in [Requests -> RequestType]
  /\ waitQ \in Seq(Requests)
  /\ doneQ \in Seq(Requests)
  /\ metaFlash \in [MetaLPN -> Content \union {NoContent}]
  /\ nFormat \in 0..MetaPageCount
  /\ phase \in Phases
  /\ hilQ \in Seq(HilRequestType)
  /\ gcQ \in Seq(GcRequestType)
  /\ gcIssued \subseteq GcRequestType
  /\ gcDoneQ \in Seq(GcRequestType)
  /\ gcVictim \in [Collectors -> SUBSET LPN]
  /\ gcLeft \in [Collectors -> Int]
  /\ gcExcess \in 0..MaxExcess
  /\ latest \in [LPN -> Address]

Outstanding == {r \in Requests : req[r].status # "FREE"}
IsLoad(r)   == req[r].status \in {"READ_WAIT", "READ_ISSUE", "READ_DONE"}

\* A meta request names the entry it was made for, with the page that entry
\* still holds; the entry is marked m_bIORunning, and is an empty clean one for
\* a load and a valid dirty one for a flush.  These are the assumptions of
\* LoadDone and StoreDone, which write through the pointer they kept.
RequestMatchesEntry ==
  \A r \in Outstanding :
    /\ req[r].entry \in Entries
    /\ LET e == entry[req[r].entry] IN
         /\ e.io
         /\ e.metaLPN = req[r].metaLPN
         /\ e.valid <=> ~IsLoad(r)
         /\ e.dirty <=> ~IsLoad(r)

\* An entry marked m_bIORunning has one request that will clear the mark, and
\* never two: a mark without a request blocks the LRU tail for ever.
OneRequestPerBusyEntry ==
  \A e \in Entries :
    /\ entry[e].io => \E r \in Outstanding : req[r].entry = e
    /\ \A r, s \in Outstanding : req[r].entry = e /\ req[s].entry = e => r = s

\* A request and its entry point at each other, and say the same.
PointersSound == RequestMatchesEntry /\ OneRequestPerBusyEntry

\* A request is in the queue its status says, once, and in no other.
QueuesMatchStatus ==
  /\ \A i, j \in DOMAIN waitQ : waitQ[i] = waitQ[j] => i = j
  /\ \A i, j \in DOMAIN doneQ : doneQ[i] = doneQ[j] => i = j
  /\ ToSet(waitQ) = {r \in Requests : req[r].status \in WaitStatus}
  /\ ToSet(doneQ) = {r \in Requests : req[r].status \in DoneStatus}

\* The moves between the LRU list and the "Free cache entry list" (dftl_meta.h:67)
\* lose no entry and link none twice, and an LRU entry on which nothing runs holds
\* a page, as _Allocate asserts (dftl_meta.cpp:288): one left invalid could neither
\* be loaded nor evicted again.
ListsSound ==
  /\ ListsIntact
  /\ ToSet(lru) \union ToSet(free) = Entries
  /\ IsInjective(lru) /\ IsInjective(free)
  /\ \A e \in ToSet(lru) : ~entry[e].io => entry[e].valid

\* A meta page is never in two entries: GetMetaEntry would serve one copy and
\* SetL2V update it while the other is flushed.
OnePagePerEntry ==
  \A e, f \in Entries :
    entry[e].metaLPN = entry[f].metaLPN /\ entry[e].metaLPN # NoPage => e = f

\* "m_bDirty: this cache entry is updated, need to stored to meta block"
\* (dftl_meta.h:39): an entry that is not dirty is what the meta block holds.
DirtyUntilStored ==
  \A e \in Entries :
    entry[e].valid /\ ~entry[e].dirty
      => entry[e].l2v = metaFlash[entry[e].metaLPN]

\* The mapping a later lookup will find is the last one SetL2V was given, in
\* the cache or, once evicted, in the meta block.
MappingKept ==
  \A n \in LPN :
    LET p == MetaLPNOf(n)
        holders == {e \in Entries : entry[e].valid /\ entry[e].metaLPN = p}
    IN  p < nFormat =>
          IF holders # {}
          THEN \A e \in holders : entry[e].l2v[OffsetOf(n)] = latest[n]
          ELSE metaFlash[p] # NoContent /\ metaFlash[p][OffsetOf(n)] = latest[n]

\* m_nWriteCount falls short of m_nVPC by the excess of the user victim and by nothing
\* else: every other page that is still to be counted is unread, or on its way through
\* the GC queues.  A page invalidated behind the collector's back, or counted twice,
\* would leave the collection open for ever, or end it with a copy under way.  So the
\* collection is over with its last copy exactly if no excess is left by then.
UserPagesCounted ==
  gcLeft["GC"] = gcExcess
                 + Cardinality(gcVictim["GC"])
                 + Cardinality({i \in DOMAIN gcQ : gcQ[i].io = "GC"})
                 + Cardinality({g \in gcIssued : g.io = "GC"})
                 + Cardinality({i \in DOMAIN gcDoneQ : gcDoneQ[i].io = "GC"})

\* Not true of this code (finding 2 in the README): a meta victim, whose pages the
\* flushes invalidate.  "A block GC will be done on the below condition: 1. when nCurReadOffset offset
\* goes up to the end of page. 2. nReadLPNCount == m_nWriteIssuedLPNCount"
\* (dftl_garbagecollector.h:81-83): a meta victim whose valid pages have all been
\* read and written again is not still being collected.
MetaCollectionOver ==
  gcVictim["META"] = {} /\ (\A g \in gcIssued \union ToSet(gcQ) \union ToSet(gcDoneQ) :
                              g.io # "META")
    => ~IsGCRunning("META")

\* An entry on which a NAND operation runs keeps its page until it ends.
BusyEntryKeepsPage ==
  [][\A e \in Entries : entry[e].io => entry'[e].metaLPN = entry[e].metaLPN]_vars

\* The request names a page of the table; a load reads a page that has been
\* stored, and a request past its first step has its data in its buffer.
RequestsSound ==
  \A r \in Outstanding :
    /\ req[r].metaLPN \in MetaLPN
    /\ req[r].status # "READ_WAIT" => req[r].buf \in Content
    /\ req[r].status # "WRITE_WAIT" => metaFlash[req[r].metaLPN] # NoContent

\* A dirty entry is valid, a valid one holds a page, and no entry holds a page
\* that is not formatted yet.
EntriesSound ==
  \A e \in Entries :
    /\ entry[e].dirty => entry[e].valid
    /\ entry[e].valid => entry[e].metaLPN \in MetaLPN
    /\ entry[e].metaLPN \in MetaLPN => entry[e].metaLPN < nFormat

\* As long as no entry is on both lists, all entries are on one, and the free
\* ones are neither busy nor dirty (the ASSERTs of _Allocate) and hold no page.
ListsCover ==
  ListsIntact =>
    /\ ToSet(lru) \union ToSet(free) = Entries
    /\ \A i, j \in DOMAIN free : free[i] = free[j] => i = j
    /\ \A e \in ToSet(free) :
         ~entry[e].io /\ ~entry[e].dirty /\ entry[e].metaLPN = NoPage

\* A formatted page is in the meta block, or in an entry still to be stored.
PagesStored ==
  \A p \in MetaLPN :
    p < nFormat => \/ metaFlash[p] # NoContent
                   \/ \E e \in Entries : entry[e].metaLPN = p /\ entry[e].dirty

\* Until the format is done there is no request of the host or of a collector.
FormatFirst ==
  ~Formatted => /\ ListsIntact
                /\ hilQ = <<>>
                /\ gcQ = <<>>
                /\ gcIssued = {}
                /\ \A t \in Collectors : gcVictim[t] = {}

\* A meta victim's unread pages are pages of the table that are stored.
VictimStored ==
  \A p \in gcVictim["META"] : p \in MetaLPN /\ metaFlash[p] # NoContent

\* The inductive invariant of MetaCacheProofs.
IInv ==
  /\ TypeOK
  /\ QueuesMatchStatus
  /\ RequestMatchesEntry
  /\ OneRequestPerBusyEntry
  /\ OnePagePerEntry
  /\ RequestsSound
  /\ EntriesSound
  /\ ListsCover
  /\ PagesStored
  /\ FormatFirst
  /\ VictimStored

\* Fairness: the loop keeps running, NAND reads finish, a full program unit is
\* programmed and accepts the next page, and a collection that has moved its
\* last page ends.
Fairness ==
  /\ WF_vars(Main \/ FilRunDone \/ GCDone \/ MetaDone \/ MetaWait \/ GCWait
             \/ HilWait \/ GCRun)
  /\ \A r \in Requests : SF_vars(MetaReadCallBack(r))
  /\ SF_vars(MetaWriteWait)
  /\ SF_vars(HilWrite)
  /\ SF_vars(GCWrite)
  /\ SF_vars(\E g \in gcIssued : GCReadDone(g))

FairSpec == Spec /\ Fairness

\* The command at the head of the host queue is served: the two pages of a
\* request that crosses a meta page do not evict each other for ever, and every
\* load and flush it waits for ends.
HostServed == (hilQ # <<>>) ~> (hilQ = <<>>)

\* A user collection with no excess ends, unless a meta collection holds it up: its
\* writes get the meta pages they need although the host and the loads of a collection
\* of both kinds fight for the same entries.  (A meta collection may never end: see
\* MetaCollectionOver.  Nor does a user collection whose excess is not used up: see
\* UserPagesCounted.)
CollectionEnds ==
  IsGCRunning("GC") /\ gcExcess = 0
    ~> ~IsGCRunning("GC") \/ IsGCRunning("META")
=============================================================================
