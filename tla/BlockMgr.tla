------------------------------ MODULE BlockMgr ------------------------------
(***************************************************************************)
(* The blocks of one block manager, the active blocks that are filled from *)
(* its free list, and the collector that gives blocks back.                *)
(*                                                                         *)
(* The user block manager has two streams, "HOST" and "GC", and the host   *)
(* waits while its collector runs; the meta block manager has one, "META", *)
(* in which flushes and the copies of its collector mix at any time.       *)
(*                                                                         *)
(* A block is a virtual block, a page one of its logical pages.  Programs, *)
(* program units and buffers are left out: a page is in a block as soon as *)
(* it is in a program unit.  A write may be refused, when its unit is      *)
(* still being programmed, but never the first one of a block, since the   *)
(* units of its slot are free by then (SlotIsFree in ActiveBlock).         *)
(* A page of a block is read before that block has been released and       *)
(* written again, since the programs of its die wait behind the read.      *)
(***************************************************************************)
EXTENDS Integers, SequencesExt, FiniteSetsExt

CONSTANTS
  Blocks,          \* the blocks of the manager
  PagesPerBlock,   \* GetVPagePerVBlock
  LPN,             \* logical pages
  Threshold,       \* m_nThreshold of the collector
  TurnLimit,       \* pages the queued requests can write in a turn of the loop
  CopyLimit,       \* GC requests
  Meta,            \* is it the meta block manager
  NoBlock,         \* INVALID_VBN
  NoLPN            \* INVALID_LPN

ASSUME SizesAssumption ==
  /\ IsFiniteSet(Blocks)
  /\ PagesPerBlock \in Nat \ {0}
  /\ Threshold \in Nat \ {0}
  /\ TurnLimit \in 1..PagesPerBlock
  /\ CopyLimit \in Nat \ {0}
  /\ Meta \in BOOLEAN

ASSUME SentinelAssumption == NoBlock \notin Blocks /\ NoLPN \notin LPN

Pages   == 0..(PagesPerBlock - 1)
Streams == IF Meta THEN {"META"} ELSE {"HOST", "GC"}

\* The stream of writes that come from above, and the one of copies.
WriteStream == IF Meta THEN "META" ELSE "HOST"
CopyStream  == IF Meta THEN "META" ELSE "GC"

\* A VPPN, and INVALID_VPPN.
Address   == [block : Blocks, page : Pages]
NoAddress == [block |-> NoBlock, page |-> 0]

\* m_nCurVPPN = INVALID_VPPN: the next write goes to a new block.
Full == PagesPerBlock

VARIABLES
  freeList,  \* m_dlFreeBlocks
  used,      \* m_dlUsedBlocks, whose order only breaks ties between victims
  active,    \* m_bActive of a block
  invalid,   \* m_nInvalidLPN of a block
  v2l,       \* m_pnV2L of a block
  valid,     \* m_pbValid of a block
  l2v,       \* the mapping: the page an LPN was last written to
  slot,      \* m_nVBN of the two active blocks of a stream
  cur,       \* the active block of a stream that is being written
  page,      \* the page of m_nCurVPPN of that block, or Full
  victim,    \* m_nVictimVBN
  readOffset,   \* m_nCurReadVPageOffset
  vpc,       \* m_nVPC
  writeCount,\* m_nWriteCount
  copies,    \* GC requests
  metaGC,    \* the collector of the meta block manager, seen from the user's
  phase,     \* where DFTL_GLOBAL::Run is
  written    \* pages written in this turn

blockVars == <<freeList, used, active, invalid>>
pageVars  == <<v2l, valid, l2v>>
slotVars  == <<slot, cur, page>>
gcVars    == <<victim, readOffset, vpc, writeCount>>
vars == <<blockVars, pageVars, slotVars, gcVars, copies, metaGC, phase, written>>

\* A GC request: the page it copies, and the LPN, known when the page is read.
Copy == [from : Address, lpn : LPN \union {NoLPN}, status : {"READ", "WRITE_WAIT", "WRITE_DONE"}]

GCRunning == victim # NoBlock

------------------------------------------------------------------------------
(* ACTIVE_BLOCK::Write, with GetActiveBlock before it.                      *)

\* The block a write goes to: the current one, or the head of the free list.
Fresh(s)  == page[s] = Full
SlotOf(s) == IF Fresh(s) THEN 1 - cur[s] ELSE cur[s]
BlockOf(s) == IF Fresh(s) THEN Head(freeList) ELSE slot[s][cur[s]]
PageOf(s) == IF Fresh(s) THEN 0 ELSE page[s]

\* Mutant: the block that is full is cleared too.
ActiveAfterFullCleared(s) ==
  IF Fresh(s)
  THEN [b \in Blocks |-> b = Head(freeList) \/ (active[b] /\ b \notin {slot[s][0], slot[s][1]})]
  ELSE active

\* _GoToNextActiveBlock: the block that leaves the slot is no longer active, the
\* one that enters it is.
ActiveAfter(s) ==
  IF Fresh(s)
  THEN [b \in Blocks |-> b = Head(freeList) \/ (active[b] /\ b # slot[s][1 - cur[s]])]
  ELSE active

\* Mutant: Allocate does not reset the count.
InvalidAfterNotReset(s, n) ==
  [b \in Blocks |-> invalid[b] + (IF b = l2v[n].block THEN 1 ELSE 0)]

\* BLOCK_MGR::Allocate starts to count, BLOCK_MGR::Invalidate of the page the LPN
\* was at before counts.
InvalidAfter(s, n) ==
  [b \in Blocks |->
     (IF Fresh(s) /\ b = Head(freeList) THEN 0 ELSE invalid[b])
     + (IF b = l2v[n].block THEN 1 ELSE 0)]

\* Mutant: the block is given back with a valid page in it.
ReleasedEarly(s, n) ==
  {b \in {l2v[n].block} \ {NoBlock} : InvalidAfter(s, n)[b] >= PagesPerBlock - 1}

\* VBINFO::IsFullInvalid of the block of that page.
Released(s, n) ==
  {b \in {l2v[n].block} \ {NoBlock} : InvalidAfter(s, n)[b] >= PagesPerBlock}

\* Allocate takes the head of the free list, Release appends to it.
FreeAfter(s, n) ==
  (IF Fresh(s) THEN Tail(freeList) ELSE freeList) \o SetToSeq(Released(s, n))

\* Mutant: the block stays on the list of used blocks.
UsedAfterKept(s, n) == used \union {BlockOf(s)}

UsedAfter(s, n) ==
  (used \union {BlockOf(s)}) \ Released(s, n)

\* Mutant: the block is not erased.
V2LAfterNoErase(s, n) == [v2l EXCEPT ![BlockOf(s)][PageOf(s)] = n]

\* VNAND::ProgramPageSimul, which erases on the first page, then SetL2V and
\* VNAND::Invalidate.
V2LAfter(s, n) ==
  [v2l EXCEPT ![BlockOf(s)] =
     [p \in Pages |-> IF p = PageOf(s) THEN n
                      ELSE IF PageOf(s) = 0 THEN NoLPN ELSE @[p]]]

ValidAfter(s, n) ==
  [b \in Blocks |->
     ((IF b # BlockOf(s) THEN valid[b]
       ELSE IF PageOf(s) = 0 THEN {0} ELSE valid[b] \union {PageOf(s)})
      \ (IF b = l2v[n].block THEN {l2v[n].page} ELSE {}))]

BeingRead(b) == \E c \in copies : c.status = "READ" /\ c.from.block = b

\* The whole of it, for stream s and LPN n.
Write(s, n) ==
  /\ Fresh(s) => freeList # <<>> /\ ~BeingRead(Head(freeList))
  /\ active' = ActiveAfter(s)
  /\ invalid' = InvalidAfter(s, n)
  /\ freeList' = FreeAfter(s, n)
  /\ used' = UsedAfter(s, n)
  /\ v2l' = V2LAfter(s, n)
  /\ valid' = ValidAfter(s, n)
  /\ l2v' = [l2v EXCEPT ![n] = [block |-> BlockOf(s), page |-> PageOf(s)]]
  /\ slot' = [slot EXCEPT ![s][SlotOf(s)] = BlockOf(s)]
  /\ cur' = [cur EXCEPT ![s] = SlotOf(s)]
  /\ page' = [page EXCEPT ![s] = PageOf(s) + 1]

------------------------------------------------------------------------------
(* The turn of DFTL_GLOBAL::Run: FIL_Run and the done queues, which touch    *)
(* different requests and are one phase; the wait queues (meta, GC, host);  *)
(* CheckAndStartGC; GC_MGR::Run.                                            *)

Phase == {"done", "write", "copy", "check", "read"}

\* A copy waits to be written.
CopyDue == \E c \in copies : c.status = "WRITE_WAIT"

\* GC_REQUEST::GCReadDone: the read of the page has ended.
GCReadDone(c) ==
  /\ phase = "done"
  /\ c.status = "READ"
  /\ copies' = (copies \ {c})
       \union {[from |-> c.from, lpn |-> v2l[c.from.block][c.from.page], status |-> "WRITE_WAIT"]}
  /\ UNCHANGED <<blockVars, pageVars, slotVars, gcVars, metaGC, phase, written>>

\* GC_REQUEST::_ProcessWrite_Done and GC_MGR::IncreaseWriteCount.
GCWriteDone(c) ==
  /\ phase = "done"
  /\ c.status = "WRITE_DONE"
  /\ copies' = copies \ {c}
  /\ writeCount' = writeCount + 1
  /\ victim' = IF writeCount + 1 = vpc THEN NoBlock ELSE victim
  /\ UNCHANGED <<blockVars, pageVars, slotVars, readOffset, vpc, metaGC, phase, written>>

\* The meta collector may write its last page too.
DoneEnds ==
  /\ phase = "done"
  /\ \A c \in copies : c.status # "WRITE_DONE"
  /\ phase' = IF ~Meta /\ CopyDue THEN "copy" ELSE "write"
  /\ written' = 0
  /\ \/ UNCHANGED metaGC
     \/ metaGC = "running" /\ metaGC' = "ended"
  /\ UNCHANGED <<blockVars, pageVars, slotVars, gcVars, copies>>

\* GC_REQUEST::_IsWritable and _ProcessWrite_Wait.
GCWrite(c) ==
  /\ phase = "copy"
  /\ c.status = "WRITE_WAIT"
  /\ metaGC # "running"
  /\ Write(CopyStream, c.lpn)
  /\ copies' = (copies \ {c}) \union {[c EXCEPT !.status = "WRITE_DONE"]}
  /\ UNCHANGED <<gcVars, metaGC, phase, written>>

\* Mutant: the host does not wait for the collector.
WriteAllowedInGC == Meta \/ metaGC # "running"

\* HIL_REQUEST::_IsWritable; META_REQUEST::_IsWritable does not look at the collector.
WriteAllowed == Meta \/ (~GCRunning /\ metaGC # "running")

\* HIL_REQUEST::_ProcessWrite_Wait or META_REQUEST::_ProcessWrite_Wait.
WritePage(n) ==
  /\ phase = "write"
  /\ WriteAllowed
  /\ written < TurnLimit
  /\ Write(WriteStream, n)
  /\ written' = written + 1
  /\ UNCHANGED <<gcVars, copies, metaGC, phase>>

\* A queue is empty, or the request at its head cannot go on.
WriteEnds ==
  /\ phase = "write"
  /\ phase' = IF Meta /\ CopyDue THEN "copy" ELSE "check"
  /\ UNCHANGED <<blockVars, pageVars, slotVars, gcVars, copies, metaGC, written>>

CopyEnds ==
  /\ phase = "copy"
  /\ phase' = IF Meta THEN "check" ELSE "write"
  /\ UNCHANGED <<blockVars, pageVars, slotVars, gcVars, copies, metaGC, written>>

\* GC_POLICY_GREEDY::GetVictimVBN: of the blocks that are not active, one with the
\* most invalid pages.
Candidates == {b \in used : ~active[b] /\ invalid[b] > 0}

Victims == {b \in Candidates : \A c \in Candidates : invalid[c] <= invalid[b]}

\* Mutant: the threshold is itself enough.
NeedGCLate == ~GCRunning /\ Len(freeList) < Threshold

NeedGC == ~GCRunning /\ Len(freeList) <= Threshold

\* Mutant: the pages written for the last victim still count.
StartGCKeepsCount ==
  /\ phase = "check"
  /\ NeedGC
  /\ metaGC # "running"
  /\ \E b \in Victims :
       /\ victim' = b
       /\ vpc' = PagesPerBlock - invalid[b]
  /\ readOffset' = 0
  /\ phase' = "read"
  /\ metaGC' = "idle"
  /\ UNCHANGED <<blockVars, pageVars, slotVars, writeCount, copies, written>>

\* GC_MGR::CheckAndStartGC.
StartGC ==
  /\ phase = "check"
  /\ NeedGC
  /\ metaGC # "running"
  /\ \E b \in Victims :
       /\ victim' = b
       /\ vpc' = PagesPerBlock - invalid[b]
  /\ readOffset' = 0
  /\ writeCount' = 0
  /\ phase' = "read"
  /\ metaGC' = "idle"
  /\ UNCHANGED <<blockVars, pageVars, slotVars, copies, written>>

NoStartGC ==
  /\ phase = "check"
  /\ ~NeedGC \/ metaGC = "running" \/ Victims = {}
  /\ phase' = IF GCRunning THEN "read" ELSE "done"
  /\ metaGC' = IF metaGC = "ended" THEN "idle" ELSE metaGC
  /\ UNCHANGED <<blockVars, pageVars, slotVars, gcVars, copies, written>>

\* The meta collector is looked at first.  Bounds: it does not start again in the
\* turn it has ended in, nor when no user collection is due or runs, since it would
\* only delay the host.
MetaGCStarts ==
  /\ ~Meta
  /\ phase = "check"
  /\ metaGC = "idle"
  /\ NeedGC \/ GCRunning
  /\ metaGC' = "running"
  /\ phase' = "done"
  /\ UNCHANGED <<blockVars, pageVars, slotVars, gcVars, copies, written>>

\* The valid pages of the victim still to be read.
ToRead == IF GCRunning THEN {p \in valid[victim] : p >= readOffset} ELSE {}

\* GC_MGR::Run and _Read: the next valid page, if there is a free GC request.
GCRead ==
  /\ phase = "read"
  /\ metaGC # "running"
  /\ ToRead # {}
  /\ Cardinality(copies) < CopyLimit
  /\ copies' = copies \union
       {[from |-> [block |-> victim, page |-> Min(ToRead)], lpn |-> NoLPN, status |-> "READ"]}
  /\ readOffset' = Min(ToRead) + 1
  /\ phase' = "done"
  /\ UNCHANGED <<blockVars, pageVars, slotVars, victim, vpc, writeCount, metaGC, written>>

\* The invalid pages are passed over all the same.
GCReadNothing ==
  /\ phase = "read"
  /\ metaGC # "running"
  /\ ToRead = {} \/ Cardinality(copies) = CopyLimit
  /\ readOffset' = IF ToRead = {} THEN PagesPerBlock ELSE Min(ToRead)
  /\ phase' = "done"
  /\ UNCHANGED <<blockVars, pageVars, slotVars, victim, vpc, writeCount, copies, metaGC, written>>

\* GC_MGR::Run of the user collector returns.
NoGCRead ==
  /\ phase = "read"
  /\ metaGC = "running"
  /\ phase' = "done"
  /\ UNCHANGED <<blockVars, pageVars, slotVars, gcVars, copies, metaGC, written>>

------------------------------------------------------------------------------
\* After the format: every block is free, and its invalid count is that of a block
\* that has been released.  The blocks of the meta block manager have been
\* allocated once from the user block manager, which marks them active.
Init ==
  /\ freeList \in {q \in [1..Cardinality(Blocks) -> Blocks] : IsInjective(q)}
  /\ used = {}
  /\ active = [b \in Blocks |-> Meta]
  /\ invalid = [b \in Blocks |-> PagesPerBlock]
  /\ v2l = [b \in Blocks |-> [p \in Pages |-> NoLPN]]
  /\ valid = [b \in Blocks |-> {}]
  /\ l2v = [n \in LPN |-> NoAddress]
  /\ slot = [s \in Streams |-> [i \in 0..1 |-> NoBlock]]
  /\ cur = [s \in Streams |-> 0]
  /\ page = [s \in Streams |-> Full]
  /\ victim = NoBlock
  /\ readOffset = 0
  /\ vpc = 0
  /\ writeCount = 0
  /\ copies = {}
  /\ metaGC = "idle"
  /\ phase = "done"
  /\ written = 0

Next ==
  \/ \E c \in copies : GCReadDone(c) \/ GCWriteDone(c) \/ GCWrite(c)
  \/ DoneEnds \/ WriteEnds \/ CopyEnds
  \/ \E n \in LPN : WritePage(n)
  \/ StartGC \/ NoStartGC \/ MetaGCStarts
  \/ GCRead \/ GCReadNothing \/ NoGCRead

Spec == Init /\ [][Next]_vars

------------------------------------------------------------------------------
(* Properties.                                                              *)

\* Every variable stays in its type.
TypeOK ==
  /\ freeList \in Seq(Blocks)
  /\ used \subseteq Blocks
  /\ active \in [Blocks -> BOOLEAN]
  /\ invalid \in [Blocks -> 0..PagesPerBlock]
  /\ v2l \in [Blocks -> [Pages -> LPN \union {NoLPN}]]
  /\ valid \in [Blocks -> SUBSET Pages]
  /\ l2v \in [LPN -> Address \union {NoAddress}]
  /\ slot \in [Streams -> [0..1 -> Blocks \union {NoBlock}]]
  /\ cur \in [Streams -> 0..1]
  /\ page \in [Streams -> 0..PagesPerBlock]
  /\ victim \in Blocks \union {NoBlock}
  /\ readOffset \in 0..PagesPerBlock
  /\ vpc \in 0..PagesPerBlock
  /\ writeCount \in Nat
  /\ copies \subseteq Copy
  /\ \A c \in copies : c.status = "READ" <=> c.lpn = NoLPN
  /\ metaGC \in {"idle", "running", "ended"}
  /\ phase \in Phase
  /\ written \in 0..TurnLimit

\* Each block is on one of the two lists, once: no block is lost or released twice.
ListsPartition ==
  /\ IsInjective(freeList)
  /\ ToSet(freeList) \intersect used = {}
  /\ ToSet(freeList) \union used = Blocks

\* The pages of a block that the mapping points to.
MappedPages(b) ==
  {p \in Pages : v2l[b][p] # NoLPN /\ l2v[v2l[b][p]] = [block |-> b, page |-> p]}

\* The pages of a block still to be written.
Unwritten(b) ==
  UNION {IF slot[s][cur[s]] = b /\ page[s] # Full THEN page[s]..(PagesPerBlock - 1) ELSE {} : s \in Streams}

\* The mapping, the valid bitmap and the counts agree: a page is valid exactly if
\* the mapping of its LPN points to it, the invalid count is what the bitmap says
\* (CheckVPC), and a block goes back to the free list when nothing in it is valid
\* any more, and only then.
CountsMatchMapping ==
  \A b \in Blocks :
    /\ valid[b] = MappedPages(b)
    /\ IF b \in used
       THEN /\ invalid[b] = PagesPerBlock - Cardinality(valid[b]) - Cardinality(Unwritten(b))
            /\ invalid[b] < PagesPerBlock
       ELSE valid[b] = {}

\* The block a stream is writing.
Current(s) == IF page[s] = Full THEN NoBlock ELSE slot[s][cur[s]]

\* "this page must be free page" (dftl_vnand.cpp:200): no two streams write one
\* block, and the page that is written next is erased, in a block in use.
CurrentPageErased ==
  \A s \in Streams : Current(s) # NoBlock =>
    /\ Current(s) \in used
    /\ \A p \in page[s]..(PagesPerBlock - 1) : v2l[Current(s)][p] = NoLPN
    /\ \A t \in Streams \ {s} : Current(t) # Current(s)

\* Two assertions that nothing but the thresholds keeps: there is a free block when
\* one is needed (dftl_block.cpp:206), and a victim when the collector wants one
\* (dftl_garbagecollector.cpp:243).
SpaceLeft ==
  /\ NeedGC => Victims # {}
  /\ phase = "write" /\ WriteAllowed /\ written < TurnLimit /\ Fresh(WriteStream) => freeList # <<>>
  /\ phase = "copy" /\ (\E c \in copies : c.status = "WRITE_WAIT") /\ Fresh(CopyStream) => freeList # <<>>

\* Nobody writes an LPN while the collector has a copy of it on the way.
CopyIsCurrent == \A c \in copies : c.status # "WRITE_DONE" => c.from.page \in valid[c.from.block]

\* What m_nVPC counts covers all that a collection still does: the pages written, on
\* their way and still to be read.  So m_nWriteCount stays below m_nVPC, as
\* IncreaseWriteCount asserts (dftl_garbagecollector.cpp:126), and when it gets there no
\* copy is left behind.  Only the user collector, which nobody writes beside.
CollectionCounted ==
  IF GCRunning
  THEN writeCount + Cardinality(copies) + Cardinality(ToRead) <= vpc
  ELSE copies = {}

\* "Valid Page count of VBN @ GC start" (dftl_garbagecollector.h:86): each page that
\* is counted is still to be read, on its way, or written, so the collection ends.
\* Not true of the user block manager: see MCBlockMgrMarks and the README.
VictimCounted ==
  GCRunning => vpc = writeCount + Cardinality(copies) + Cardinality(ToRead)

\* "active block" (dftl_block.h:61): the block that is being written is marked so,
\* which keeps the collector from it, and so is the one that leaves a slot
\* (dftl_activeblock.cpp:546).  Not true of the user block manager: see the finding
\* in the README.
ActiveMarked ==
  \A s \in Streams :
    /\ Current(s) # NoBlock => active[Current(s)]
    /\ Fresh(s) /\ slot[s][1 - cur[s]] # NoBlock => active[slot[s][1 - cur[s]]]
=============================================================================
