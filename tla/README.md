# DaisyPlus_Trim: models and proofs of the flash translation layer

DaisyPlus_Trim is the firmware of an NVMe SSD on a Zynq board. Its core is a
demand-loading, page-mapping flash translation layer (DFTL) that runs in one
polling loop: no thread, no lock, and yet almost every hard behaviour of a
concurrent program, because every operation is cut into steps that wait in
queues and that other operations overtake.

This directory holds TLA+ models of that code, the TLC configurations that check
them on small instances and TLAPS proofs of what holds for every instance.

    tlc -workers 2 -config MetaCacheHost.cfg MCMetaCache.tla
    tlapm MetaCacheProofs.tla
    tlc -workers 2 -config FilQueueOrder.cfg MCFilQueue.tla
    tlapm FilQueueProofs.tla
    tlc -workers 2 -config FilNand.cfg MCFilNand.tla
    tlapm FilNandProofs.tla
    tlc -workers 2 -config BlockMgrUser.cfg MCBlockMgr.tla
    tlc -workers 2 -config BlockMgrMarks.cfg MCBlockMgrMarks.tla
    tlapm BlockMgrProofs.tla
    tlc -workers 2 -config ActiveBlockReads.cfg MCActiveBlock.tla
    tlapm ActiveBlockProofs.tla
    tlc -workers 2 -config HostIo.cfg MCHostIo.tla
    tlapm HostIoProofs.tla
    tlc -workers 2 -config NvmeTask.cfg MCNvmeTask.tla
    tlapm NvmeTaskProofs.tla

## 1. Inventory

Paths are relative to `src/`.

| Component | Files | State | Operations |
|---|---|---|---|
| NVMe task | `hil/nvme/nvme_main.c`, `nvme_io_cmd.c`, `hil/hil.c` | controller state `g_nvmeTask.status`, format progress | `nvme_run`, `handle_nvme_io_cmd`, `HIL_Format`, `HIL_Run` |
| NVMe admin commands | `hil/nvme/nvme_admin_cmd.c`, `nvme_identify.c` | I/O queue registrations | create and delete queues, features, identify |
| Host DMA | `hil/nvme/host_lld.c`, `ftl/dftl/dftl_hdma.cpp` | direct and auto DMA tails (8 bit) and overflow counters | issue Tx/Rx, `check_auto_tx_dma_partial_done` ... |
| FTL front end | `ftl/dftl/dftl_external_interface.cpp`, `dftl_global.cpp` | the components below | `ReadPage`, `WritePage`, `Run`, `CallBack` |
| Request scheduling | `ftl/dftl/dftl_request.cpp` | the three request pools | `REQUEST_MGR::Run`: HIL done, HDMA issued, GC done, meta done; meta wait, GC wait, HIL wait |
| Host requests | `ftl/dftl/dftl_request_hil.cpp` | per request: status, buffers, counts; free, wait, issued, HDMA, done queues | read: wait, NAND, HDMA, done; write: wait (LPN by LPN), done |
| GC requests | `ftl/dftl/dftl_request_gc.cpp` | per request: status, LPN, VPPN, buffer; queues | read wait, read done, write wait, write done |
| Meta requests | `ftl/dftl/dftl_request_meta.cpp` | per request: status, page, cache entry, buffer; queues | load: wait, issue, done; flush: wait, done |
| Meta cache | `ftl/dftl/dftl_meta.cpp` | entries (page, valid, dirty, I/O running, 1024 mappings), LRU and free list, `m_nFormatMetaLPN`, meta L2V table | `Format`, `LoadMeta`, `_Allocate`, `GetL2V`, `SetL2V`, `LoadDone`, `StoreDone` |
| Collectors (user, meta) | `ftl/dftl/dftl_garbagecollector.cpp` | victim, read offset, `m_nVPC`, `m_nWriteCount` | `CheckAndStartGC`, `GetVictimVBN`, `_Read`, `IncreaseWriteCount` |
| Active blocks | `ftl/dftl/dftl_activeblock.cpp` | per stream two slots: block, next page, ring of program units; hash of buffered LPNs | `Write`, `_IssueProgram`, `ProgramDone`, `ReadBufferingLPN`, `_GoToNextActiveBlock` |
| Block manager, virtual NAND | `ftl/dftl/dftl_block.cpp`, `dftl_vnand.cpp` | free and used lists, per block invalid count, valid bitmap, V2L | `Allocate`, `Release`, `Invalidate` |
| Buffer pool | `ftl/dftl/dftl_bufferpool.cpp` | free and used lists | `Allocate`, `Release` |
| FIL | `fil/fil.c`, `fil/fil_request.c` | request pool, per die wait and issued queues, done queue | allocate, wait, issue, done |
| NAND operations, driver | `fil/fil_nand.c`, `fil/nsc_driver.c` | status of the operation on a die, flash controller registers | erase, read, program |
| Lists, utilities | `common/` | none of its own | list insertion, removal, moves |
| Target | `target/` | none of interest | start-up, memory |

### How they interact

The main loop is `nvme_run`: take a command (`FTL_ReadPage`, `FTL_WritePage` put a
host request on the HIL wait queue), then `HIL_Run`, which is
`DFTL_GLOBAL::Run`. Each call of it does, always in this order:

1. `FIL_Run`: NAND operations that have ended call back into the FTL.
2. `REQUEST_MGR::Run`: the done queue of host requests, the transfers under way, the
   done queues of GC and meta requests; then the wait queues of meta, GC and host
   requests. Each wait queue is worked off from its head until one request cannot
   go on; it then stays at the head until the next turn.
3. `GC_MGR::CheckAndStartGC` for the meta and the user collector, then one
   `GC_MGR::Run` of each: at most one page is queued to be read.

Everything that takes time is therefore a request parked in a queue while other
requests change the state it has seen. The meta cache is where they meet: host
and GC requests look up and modify the mapping of their pages, meta requests load
and flush those pages behind their back, and the meta collector moves the flushed
copies.

### What is hard, and what correct means

`PROJECT.json` lists each hazard at its line. In short:

- **Meta cache and meta requests.** An entry is handed out, loaded, written and
  flushed across several turns of the loop, by a pointer kept in a request.
  Correct: an entry being loaded or flushed keeps its page, has exactly one
  request, and no page is in two entries; an update is in the cache until it is
  in the flash; nobody waits for ever for a page.
- **Collectors.** The write count must reach the page count taken at the start
  although pages are invalidated, or not even written, meanwhile. Correct: each page of the victim is
  counted once, every collection ends, and a copy never undoes a newer one.
- **Active blocks, block manager.** Program units are a ring that is filled,
  issued and searched at the same time; a block can be released while a slot
  still names it. Correct: the newest copy of a page is found while it is
  buffered; a slot never disturbs a block that is no longer its own; the free and
  used lists partition the blocks.
- **FIL.** A program of the first page of a block is preceded by an erase, and the
  program goes back to a queue. Correct: page order within a block and read after
  write on a die are kept, requests return to the pool.
- **NAND operations.** The end of an operation is read off words that the controller
  writes early or late. Correct: what is reported ended has ended, and every
  operation is reported.
- **Host requests, host DMA.** 8 bit tail indices and overflow counters decide when
  a transfer is over; callbacks run inside handlers that wait. Correct: no buffer is
  lost or reused before its transfer ended, and every command ends.
- **NVMe task.** Enable, shutdown and reset in any order, written by the loop and by
  an interrupt. Correct: an enabled controller keeps nothing of the time before, and
  what the host asks for is done.

## 2. Plan

1. `MetaCache`: cache, meta requests and the two callers that fight for it. **Done**:
   model, runs, `SeqLemmas`, `MetaCacheProofs`.
2. `BlockMgr`: block lists, invalid counts, valid bitmap, the slots of the active
   blocks, victim selection, the collector. **Done**: model, runs, `BlockMgrProofs`.
   `ActiveBlock`: the rings of program units and the reads that are served from them.
   **Done**: model, run, `ActiveBlockProofs`.
3. `FilQueue`: request pool, per die queues, erase before program. **Done**: model,
   run, `FilQueueProofs`. `FilNand`: the steps of one NAND operation, the controller
   and the arrays, shown to implement `FilQueue`. **Done**: model, run, `FilNandProofs`.
4. `HostIo`: host requests with the buffer pool and the transfers; `HostDma`: the
   indices of the transfers, modulo 2^8. **Done**: model, runs, `HostIoProofs`.
5. `NvmeTask`: the controller status machine and the interrupt. **Done**: model, run,
   `NvmeTaskProofs`.
6. `FlatStore`: the abstract specification of what the FTL promises (a read returns
   the data last written), implemented by the whole write path: `MetaCache`,
   `ActiveBlock`, `BlockMgr` and `FilQueue` composed. **Left.**

How the modules fit: `FilNand` extends `FilQueue` and implements it; `HostIo` extends
`HostDma`; the others meet through named assumptions, each a property of the module
it is taken from:

| Module | takes | from |
|---|---|---|
| `MetaCache` | writes are at some time let through | `HostIo`, `BlockMgr` (`SpaceLeft`), `FilNand` |
| `MetaCache` | a load returns the meta page stored last (`metaFlash` is a register) | `ActiveBlock` (`HitIsCurrent`), `FilQueue` (`ReadFindsPage`) |
| `MetaCache` | the count of a meta victim is exact when it is taken | `BlockMgr` (`ActiveMarked`, of the meta blocks) |
| `MetaCache` | reads and the collectors get their buffers | `HostIo` (`EveryCommandEnds`), for the reads |
| `BlockMgr` | a slot's units are free at the first write | `ActiveBlock` (`SlotIsFree`) |
| `ActiveBlock` | the order in which programs end | `FilQueue` (`PagesInOrder`) |
| `ActiveBlock` | the collector moves pages of blocks in no slot | `BlockMgr` (`ActiveMarked`) |
| `HostIo` | the FIL ends what it is given | `FilNand` (`EveryRequestEnds`) |
| `HostIo` | the head of the wait queue gets its mapping | `MetaCache` (`HostServed`) |

Some of them the code does not give always. `HitIsCurrent` excepts a full ring (section 6)
and `ReadFindsPage` a first page (section 4): a load may then find an older or an
erased page. `ActiveMarked` is not true of the user blocks (section 5). So `MetaCache` does not assume
that the count of a *user* victim is exact; `ActiveBlock` does leave out the pages of a
victim that is in a slot. `HostServed` is checked without collectors: with them the
head may wait for ever for a collection that does not end (finding 2 of section 3, and section 5).

The project keeps to twelve runs and forty properties, each run of a few minutes at
most, so that all of them can be repeated after every change of the code. What has
no run of its own (a second instance, a statement that is not true of the code) is
described with the change of a configuration that shows it.

Later modules keep the conventions of the first: sizes are CONSTANTS with a named
assumption, one action per handler, invariants as conjunctions of named parts, and
no RECURSIVE operator.

## 3. MetaCache

### State

| Variable | Code |
|---|---|
| `entry` | `META_CACHE::m_astCacheEntry`: `m_nMetaLPN`, `m_bValid`, `m_bDirty`, `m_bIORunning`, `m_anL2V` |
| `lru`, `free` | `m_dlLRU` (most recent first), `m_dlFree` |
| `req` | the `META_REQUEST` pool: status, page, cache entry, buffer; the issued queue is the set of requests in `READ_ISSUE`, which finish in any order |
| `waitQ`, `doneQ` | `META_REQUEST_INFO::m_dlWait`, `m_dlDone` |
| `metaFlash` | the content a read through `META_L2V_MGR` finds, in a program unit or on the NAND |
| `nFormat` | `m_nFormatMetaLPN` |
| `phase` | where `DFTL_GLOBAL::Run` is; `main` is its caller |
| `hilQ` | `HIL_REQUEST_INFO::m_dlWait`; `done` counts the LPNs of the head already written |
| `gcQ`, `gcIssued`, `gcDoneQ` | the queues of `GC_REQUEST_INFO` |
| `gcVictim`, `gcLeft` | per collector: the valid pages of the victim at or after the read offset, and `m_nVPC - m_nWriteCount` |
| `gcExcess` | of the user victim: how many pages `m_nVPC` counts that nobody has written |
| `latest` | history only: the last mapping each LPN was given by `SetL2V` |

### Actions

A step is one iteration of the inner loop of a phase, so a phase with an empty
queue, or whose head cannot go on, ends by a step that moves `phase`. `FormatPage`,
`FormatBusy` and `HostArrives` are the callers; `MetaReadCallBack`, `GCReadDone`
the completions of `FIL_Run`; then the done queues, the wait queues, the start of
a collection and the read of one page. `LoadMeta`, `AllocateSucceeds`,
`AllocateBusy`, `Touch`, `SetL2V` are the functions of `META_CACHE` these
handlers call, and take the LRU list as parameter because a handler looks pages
up, and so reorders the list, before it calls them.

What other components decide is a nondeterministic choice: which NAND read has
finished, whether a load is served from a program unit, whether a free buffer and
a program unit that is not programming are there (`MetaWriteBusy`, `HilWriteBusy`,
`GCWriteBusy`), when free blocks are short and which pages the victim holds, and
the address a page is written to. `m_nVPC` is not the number of valid pages: it is the page
count less the invalid count (`dftl_garbagecollector.cpp:108`), which is more if the victim is a
block that is still being written. The active mark keeps such blocks from being a victim, but a user
block can lose it (section 5); how many pages are counted too many, the
*excess*, is therefore a choice too. Host writes wait during a user collection, so the
excess of a host block stays; if the victim is the block the collector fills, its own
copies go into the victim, and may be read again (`GCWrite`). A victim with neither a
valid page nor an excess is not a choice: such a block is released at once
(`BLOCK_MGR::Invalidate`) and is not on the used list the victim is taken from.

Two details are kept because they matter. A meta collection looks its pages up
as if their numbers were user LPNs (`GC_REQUEST::_CheckAndLoadMeta`), and so loads
unrelated pages. And handlers that walk the LRU list require `ListsIntact`: an
entry that is on both lists has the links of the free list, the walk never meets
the head of the LRU list and the firmware hangs, so no further step exists.

### Runs

| Run | Instance | Distinct states | Shows |
|---|---|---|---|
| `MetaCacheHost` | 2 entries, 2 requests, 3 pages, 1 address, requests of 1 or 2 LPNs, with fairness | 77,308 | without a collector every mapping is found again (`MappingKept`), a clean entry is stored (`DirtyUntilStored`), every request is served (`HostServed`) |
| `MetaCacheGC` | as above, user GC | 3,736,180 | lists, entries and requests stay consistent while host and GC compete |
| `MetaCacheBoth` | 1 entry, 1 request, 2 pages, 1 address, both collectors, with fairness | 339,300 | `UserPagesCounted`: a user collection falls short of its count by the excess of its victim and nothing else; `CollectionEnds`: without excess it ends |
| `MetaCacheLostUpdate` | see the cfg | stops at the violation | the first finding below |

Each property states a hazard of `PROJECT.json`:

- `PointersSound` (`RequestMatchesEntry` and `OneRequestPerBusyEntry`): `LoadDone` and
  `StoreDone` write through a pointer several turns old; it must still be the entry
  they think.
- `BusyEntryKeepsPage`, `OnePagePerEntry`: `_Allocate` is called in turn for the host
  and for a collector.
- `QueuesMatchStatus`: a request takes two different paths through the queues.
- `ListsSound`: an entry is on one of the two lists, once; one on the free list is
  free, one that is idle on the other is valid.
- `MappingKept`, `DirtyUntilStored`: no update is lost by an eviction.
- `UserPagesCounted`: what a user collection still has to count is its excess and the
  pages that are unread or on their way. It does not say that a collection is over:
  with an excess that is not used up it is not, and the host waits for ever.
- `HostServed`: two pages of one request do not evict each other for ever. Checked
  without collectors.
- `CollectionEnds`: the host and the collectors do not starve each other of entries, so
  a user collection *without excess* ends, unless a meta collection holds it up, which may not end
  itself (finding 2). That a collection with excess ends is not claimed.

**Bounds.** More pages than entries, so that every lookup can miss, evict and
flush; two entries, so that one page of a two-page request can evict the other,
and one entry where the collectors must fight for it; requests of two LPNs, which
with one mapping per page always cross a page; one address, since the cache never
looks at one and a lost update shows as a mapping that is not there, two where an
older copy may replace a newer one. `HilDepth` 1: only the head of the host queue is ever looked at, and
a request behind it changes nothing. `MaxExcess` 1 tells an exact count from
one that is not; without a user collector it has no effect. `GcDepth` bounds the GC pool: 1 or 2 instead
of the real count. `L2VPerMetaPage` is 1 in the runs and arbitrary in the
proofs. Deadlock is checked in every run.

**As many requests as entries.** The runs that pass have as many meta requests as
entries. The code ties the pool to `USER_CHANNELS` (1 to 8), far below the number of
entries; what happens when the pool runs out is the third observation below. The
proofs assume nothing of the kind.

**Fairness.** Weak fairness of the loop: `nvme_run` never returns. Strong fairness
of `MetaReadCallBack` and `GCReadDone`: the NAND finishes each operation, which
`FIL_Run` sees in some later turn; strong and not weak, because these actions are
enabled in the `fil` phase only. Strong fairness of `MetaWriteWait`, `HilWrite` and
`GCWrite`: a program unit that is programming ends, a block is there, and the
write finds room in some later turn. This assumes what the FIL and the block
manager, not in this module, have to give; it says nothing about `HostArrives` or
`StartGC`, which may or may not happen.

### Findings

The run `MetaCacheLostUpdate` has `expect: violation`: it checks the one property the
code contradicts. The other observations have no run of their own: the change of a
configuration that shows them is given.

1. `MetaCacheLostUpdate` (`dftl_meta.cpp:383`). A flush copies the entry to its
   buffer. A user collection then sets a mapping of the same page; nothing in
   `SetL2V` or its callers looks at `m_bIORunning`. `StoreDone` clears `m_bDirty`, so
   the update is in a clean entry and the next eviction drops it. Without a
   collector it does not occur: `MetaCacheHost` checks the same property and passes,
   because the head of the host queue, whose miss caused the flush, cannot go on
   before `StoreDone`, and nobody behind it is looked at.
2. `MetaCollectionOver` as an invariant of `MetaCacheGC` with `GcTypes = {"META"}`
   (`dftl_garbagecollector.cpp:128`) fails. A flush invalidates an unread page of the
   meta victim; `m_nWriteCount` then stops short of `m_nVPC`, and as a running meta
   collection blocks every host request, so does the host.
3. `MetaCacheGC` with `Requests = {1}` (`dftl_meta.cpp:168`). `_Release` after a failed
   request allocation adds the entry to the free list although `_Allocate` has just
   linked it in the LRU list: `ListsSound` fails. It takes one channel,
   or as many loads and flushes under way as there are channels.
4. `MetaCacheLostUpdate` with `GcTypes = {"META"}` (`dftl_request_meta.cpp:249`). A flush
   between the collector's read and write of a page is undone by the collector's older
   copy: `DirtyUntilStored` fails.

What is left when the four are set aside is proved in `MetaCacheProofs`: without meta
collections the first is the only way to lose an update, and without any collection
there is none.

### Wrong variants

A definition marked `Mutant:` is a deliberately wrong variant of the one that
follows it (a dropped guard, a missing update). None is used by the model. With
the definition replaced by its variant, TLC finds the property violated; the pairs
are listed under `mutants` in `PROJECT.json` and show that each property depends on
that line of the code.

## 4. FilQueue

### State and actions

| Variable | Code |
|---|---|
| `status`, `op` | the pool of `FTL_REQUEST`s: `nStatus`, and `nType` with `stAddr`; `FREE` is the free list |
| `wait`, `issued` | `adlWait`, `adlIssued`, per die (channel and way) |
| `doneQ` | `dlDoneQ` |
| `phase`, `die` | which of `FIL_ProcessDoneQ`, `FIL_ProcessIssuedQ`, `FIL_ProcessWaitQ` runs, and the die its loop is at; `ftl` is the caller |
| `pending` | the operation whose caller spins in `FIL_AllocateRequest` because the pool is empty |
| `queued` | per block, how many pages the FTL has queued to be programmed |
| `cells` | per block, the pages programmed since the last erase |

`Ask` is `FIL_ReadPage` and `FIL_ProgramPage`: the request goes to the tail of its
die's wait queue, as an erase if it programs the first page of a block
(`SUPPORT_AUTO_ERASE`). With an empty pool the caller runs the whole of `FIL_Run`,
again and again, before it goes on (`AskAgain`). `ProcessDone`, `OperationEnds` or
`OperationRuns`, and `Issue` or `NoIssue` are one turn each of the loops of
`FIL_Run`. An operation takes any number of turns, then has its effect on `cells`.

The caller is constrained as the FTL constrains itself: an active block hands out
its pages in order, and a page is read after it was queued. `FIL_EraseBlock` has no
caller in this configuration.

### Runs

| Run | Instance | Distinct states | Shows |
|---|---|---|---|
| `FilQueueOrder` | 1 die, 2 blocks of 3 pages, 3 requests | 550,469 | `NoOverwrite`, `ReadFindsPage`, `PagesInOrder`, `RequestsInQueues`, `OneOperationPerDie` |

The dies share nothing but the pool and the done queue, so the order on a die needs
one die. Three pages tell the second page of a
block, which may get ahead of the first, from the later ones, which may not; three
requests are an erase, one that overtakes it and one behind; two blocks let an
operation on another block of the die get between. Requests are alike, hence the
symmetry. That every request ends is shown by `FilNand`, where the end of an
operation is a consequence and not an assumption.

### Observation

After the erase for the first page of a block (`fil_request.c:376`), the program is put
back to the *head* of the wait queue, "for program after erase". But `FIL_Run` handles
the done queue before the issued queue: an erase that ends is only put on the done
queue, and the same turn goes on to `FIL_ProcessWaitQ`, which issues the request waiting
behind it. `ProgramFollowsErase` says that this does not happen; as an invariant of
`FilQueueOrder` it fails at once. `PagesInOrder` and `ReadFindsPage` state what is left:
the second page of the block may be programmed before the first, and a read of the
first page queued right behind its program finds it erased. The FTL is shielded from the
latter when it takes the page from the program unit that still holds it, which
`ActiveBlock` shows is not always. `ActiveBlock` takes this order over: its
programs of a die end in order, but that a first page is passed once.

## 5. BlockMgr

### State and actions

One module for both block managers; `Meta` says which. The user's has a host and a
GC stream, and host writes wait while its collector runs; the meta one has a single
stream in which flushes and copies mix at any time.

| Variable | Code |
|---|---|
| `freeList`, `used` | `m_dlFreeBlocks`, `m_dlUsedBlocks` (as a set: its order only breaks ties between victims, and any victim with the most invalid pages may be chosen) |
| `active`, `invalid` | `m_bActive`, `m_nInvalidLPN` of each `VBINFO` |
| `v2l`, `valid` | `m_pnV2L`, `m_pbValid` of each block of `VNAND` |
| `l2v` | the mapping; that the meta cache keeps it is `MetaCache` |
| `slot`, `cur`, `page` | the block of each of the two active blocks of a stream, the one in use, and the page of its `m_nCurVPPN` |
| `victim`, `readOffset`, `vpc`, `writeCount` | `GC_MGR` |
| `copies` | the GC requests: source page, LPN, status |
| `metaGC` | the meta collector as the user's sees it: it holds up the host, the copies and the start of a collection |
| `phase`, `written` | where `DFTL_GLOBAL::Run` is, and the pages written in this turn |

`Write` is the whole of `GetActiveBlock` (with `_GoToNextActiveBlock` and `Allocate`),
`ACTIVE_BLOCK::Write`, `ProgramPageSimul`, `SetL2V`, `Invalidate` and `Release`; host
and meta requests (`WritePage`) and the collector (`GCWrite`) call it. `StartGC`,
`GCRead`, `GCReadDone`, `GCWriteDone` are the steps of a collection.

Two facts of the layers below are built in. The first write of a block is never
refused: the units of its slot are free by then (`SlotIsFree` in `ActiveBlock`).
And a page is read before its block has been given back and filled again: the
programs of a die wait behind the read.

### Runs

| Run | Instance | Distinct states | Shows |
|---|---|---|---|
| `BlockMgrUser` | user: 7 blocks of 3 pages, 7 LPNs, threshold 1, 1 GC request | 1,199,923 | the properties below but for `ListsPartition` and the marks |
| `BlockMgrMeta` | meta: 4 blocks of 2 pages, 3 LPNs, threshold 1, 2 GC requests, 2 flushes a turn | 517,916 | lists, counts and marks stay right although flushes invalidate pages of the victim |

- `ListsPartition`, `CountsMatchMapping`, `CurrentPageErased`: a block is erased on the
  word of a count, so the count, the bitmap and the mapping must say the same, and
  the block that is filled must be nobody else's.
- `SpaceLeft`: the two conditions the code only asserts, a free block when one is
  needed and a victim when the collector wants one.
- `CollectionCounted`, `CopyIsCurrent`: a collection of user blocks copies no more pages
  than it counted, leaves no copy behind, and copies none behind the back of a newer
  write. That it copies all it counted is `VictimCounted`, and not true (below).
- `ActiveMarked`: the mark that keeps the collector away.

**Bounds.** The sizes are a drive that is as full as the code can bear. A collection
starts when all blocks but the threshold are in use, which needs an LPN in each of
them: 6 LPNs with 7 blocks. Only with 7 can the free list run dry if collections start
late. On the other hand a victim is sure to exist only if the used blocks outside the
four slots cannot all be full of valid pages, which limits the LPNs to fewer than
`PagesPerBlock * (blocks - threshold - 4) + 2`, here 8. The real drive has the same
shape: 10% over-provisioning and a threshold of 20. The meta instance is
`META_VBLOCK_COUNT_MIN` and `META_GC_THRESHOLD`. A turn writes less than a block. The
meta collector, when it holds up the user's, does not start again in the turn it ends.
With a host turn between any two meta collections the threshold would only have to
be larger by as many blocks as there are such turns.

**View.** `BlockMgrUser` tells states apart by `BlockView`:
names of blocks and LPNs and the place of valid pages within a block that is full are
forgotten. The actions and the properties depend on nothing else; what the invariants
say of a block is part of the view, so none is missed. `BlockMgrMeta`, where a
collector may read a page that is no longer valid, uses plain symmetry.

**Not claimed for meta blocks**: `CopyIsCurrent` and `CollectionCounted`, which do not hold
(items 2 and 4 of the findings of `MetaCache`), and `SpaceLeft`, for two reasons:

- A free block: flushes do not wait for the collector of the meta blocks, and nothing but
  its speed keeps them from filling the last free block before it has given one back.
  With 3 LPNs in 4 blocks they cannot, as each block in use holds an LPN; with 4 LPNs and
  blocks of 5 pages TLC's simulation finds a behaviour in which they do.
- A victim: `_FormatMeta` takes twice the blocks that the mapping pages fill, and at least four
  (`dftl_block.cpp:155-157`). Of those one may be free when a collection starts and two are
  in the slots; so if the mapping pages fill *two* blocks, the one block left may be full of valid
  pages, and `GetVictimVBN` returns `INVALID_VBN` (`dftl_garbagecollector.cpp:243`), which
  `CheckAndStartGC` uses as an index. TLC finds it in `BlockMgrMeta` with 4 LPNs and `SpaceLeft`. For
  all other numbers the formula is enough (`VictimIsFound`, section 10), but for one or three
  blocks filled to the last page, which the theorem leaves open. The 32 GB of `ftl.h` have
  8192 mapping pages, so this is a drive whose virtual blocks have 4096 to 8191 pages of 4 KB.

### Finding

`ActiveMarked` is not true of the user block manager: with 6 LPNs and `CopyLimit = 2`
it fails in `BlockMgrUser` (`dftl_block.cpp:284`). A block in the collector's slot is full, and
host writes invalidate all of it. `Invalidate` releases it although it is marked
active and still named by the slot. While the collector's other block is not yet
full, host writes take it from the free list, fill it, and clear its mark when their
own slots move on. When the collector needs its next block it finds in the slot a
block that is not its own: the assertion at `dftl_activeblock.cpp:546` does not
hold, or, if the host is writing the block at that time, the mark of the host's block is
cleared (`ClearActive`, line 548).

`BlockMgrMarks.cfg` shows where the second case leads. `MCBlockMgrMarks` is `BlockMgr` with
one workload of the host, 106 writes to a drive of 12 blocks of 6 pages and 40 LPNs, and TLC
finds `VictimCounted` violated, in a behaviour of 389 states. The block the
host is writing has no mark, so `GetVictimVBN` (`dftl_garbagecollector.cpp:231`) takes it as
the victim: it has the most invalid pages. `m_nVPC` is the page count less the invalid
count, and so counts the pages that are not written yet; here it is 3, with one valid page.
The write count never gets there. As host writes wait for the end of the
collection, they wait for ever. With `SUPPORT_BLOCK_DEBUG` the assertion of `CheckVPC`
(`dftl_garbagecollector.cpp:117`) would fail. `MarksMakeCountExact` (section 10) says that
nothing but the marks is to blame. `MetaCache` takes the excess over as a choice of
`StartGC`.

The victim can also be the block the collector is filling itself: with 6 LPNs and
`TurnLimit = 2` in `BlockMgrUser` the invariant `victim # NoBlock => victim # Current("GC")`
fails, in a behaviour of 75 states. The collector's new block had been released early and taken
from the free list again, while a slot of the host still named it; when the host's slot
moved on it cleared the mark of what was now the collector's block.

## 6. ActiveBlock

### State and actions

| Variable | Code |
|---|---|
| `cur` | `m_nCurActiveBlockHost`, `m_nCurActiveBlockGC` |
| `page` | `m_nCurVPPN` of each slot, as the page in its block |
| `ring`, `unit` | `m_nCurProgramBuffering`, `m_astBuffering` of each slot |
| `hash` | `BUFFERING_LPN::m_anBufferingLPNCount` |
| `l2v` | the mapping: an address in the block of a slot, `Left` (a block in no slot), or none |
| `issuing` | the full unit for which `_IssueProgram` waits in `FIL_AllocateRequest` |
| `flight` | the programs given to the FIL |

`Write` is `GetActiveBlock`, `_GoToNextActiveBlock` and `ACTIVE_BLOCK::Write` with
`PROGRAM_UNIT::Add`, up to the call of the FIL; `IssueProgram` is the rest of
`_IssueProgram`. Between them only completions can run (`ProgramDone`), which is what
`FIL_Run` does inside the call when no request is free. The collector may write any page
of a block that is in no slot. A read changes nothing here and is the operator `ReadLPN`;
the properties say what it returns in every state in which a read can be made.

### Runs

| Run | Instance | Distinct states | Shows |
|---|---|---|---|
| `ActiveBlockReads` | 2 dies, 2 requests, 3 units of 2 pages a slot, blocks of 4 units, 2 LPNs | 1,744,549 | the properties below |

- `HitIsCurrent`: what is found in a unit is the mapped page, unless a ring is full at
  its cursor. The search neither follows the order of the writes over the two slots nor
  looks at all units: a free unit ends it. The two go together: when a block is full the
  cursor of its slot is at a free unit, so the search of that slot finds nothing, and
  the older slot cannot answer for the newer one. Were the search to step back over
  free units, as its loop suggests, it would return stale pages (`ReachedPastFree`).
- `HostMissIsIssued`: a page of the host stream that is not found has been given to the
  FIL, whose queues put the read behind its program. (Behind it in the queue: a read of
  the first page of a block may still overtake it, see section 4, and as the search ends
  at a free unit it can miss a unit that is being programmed.)
- `SlotIsFree`: the assertion of `_GoToNextActiveBlock`. It holds because a block has at
  least as many pages on each die as there are requests (`ConfigAssumption`; section 10).
- `HashExact`: a bucket of zero, which skips the search, is one with nothing buffered.

**Bounds.** Two dies finish in any order; on one they do so in the order of issue but for
first pages. Three units and two requests keep the relation of the configuration
(three and two a die); four units in a block make ring and block wrap at different
places. Two pages in a unit tell a full one from one that is being filled and let a page
be twice in it; two LPNs are one that is read and one that fills the units.

### Findings

1. `MissIsIssued` in place of `HostMissIsIssued` fails in `ActiveBlockReads`
   (`dftl_activeblock.cpp:199`). The collector's pages are mapped
   to a unit of its own stream and are in no hash; the unit is programmed when it is
   full. A host read, which a user collection does not hold up, goes to a page that has
   not been programmed. When the collection ends the unit keeps its one to three pages
   until the next collection.
2. With `HitIsLatest` the same instance shows the other half of
   `HitIsCurrent` (`dftl_activeblock.cpp:342`). One late die is enough to have the cursor
   at a unit that is being programmed: the oldest. The search starts there and, if the
   page was written again since, returns the older copy. "2 is enough"
   (`dftl_config.h:19`) holds of the number of requests, not of this.

## 7. FilNand

The steps of the NAND operations under the queues of `FilQueue`. `FilQueue` says that
an operation ends at some visit of its die and has its effect then; here the firmware
polls a controller, the controller commands an array, and both take their time.

### State and actions

| Variable | Code |
|---|---|
| `step`, `retry` | `WAY_STATUS` of a die: `nStatus`, one variable for all types of operation, and `nRetry` |
| `report` | the word a status check writes (`V2FStatusCheckAsync`); `none` after it was cleared |
| `completion` | the word a page transfer writes (`V2FReadPageTransferAsync`) |
| `late` | the dies whose transfer has left the controller but not written its word |
| `ctrl` | per channel: the commands the controller works on, oldest first |
| `array` | per die: `ready`, `starting` (a command arrived, the ready bit is still set), `busy` |
| `seen` | history: `cells` of a die when an operation on it was last reported ended |

`Visit` is one call of `NAND_ProcessErase`, `NAND_ProcessRead` or
`NAND_ProcessProgram`, from one `break` to the next: `Start`, `AskStatus`,
`CheckStatus`, `Transfer`, `WaitTransfer`, `CheckTransfer`. `NandIssue` is
`_ProcessWaitQ` with the first step of the operation. `CtrlEnds`, `WordWritten`,
`ArrayStarts` and `ArrayEnds` are the hardware, between any two steps of the
firmware, and `NeighbourCommand` another way of the channel.

A read whose status or transfer fails is begun again `FIL_READ_RETRY` times and then
ends as if done; an erase or a program that fails only prints a message.

### Run

| Run | Instance | Distinct states | Shows |
|---|---|---|---|
| `FilNand` | 1 die, 1 neighbour, 1 block of 1 page, 2 requests, 1 retry | 121,277 | the properties below |

- `ImplementsQueue`: the refinement, `Queue!Spec` with `cells <- seen`. Each step is one
  of `FilQueue` or a stutter, so what is proved and checked of the queues holds of the
  operations as they really run.
- `FreeWayIsQuiet`: what is reported ended has ended; `WAY_STATUS` is at its start for
  the next operation ("must be 0", `fil_nand.c:36`).
- `WorkingArrayUndisturbed`: the ready bit goes off late, and it and the controller are
  looked at one after the other, yet no operation reaches an array at work.
- `EveryRequestEnds`: also for the caller that spins for a request.

**Bounds.** A die, a neighbour that competes for the controller, and two requests, of
which one waits while the other is on the die; one page, so that each program
is preceded by its erase. Two full dies on one channel (24.7 million states) satisfy
the safety properties and `ImplementsQueue` too.

**Fairness.** Weak fairness of the controller and of each die's hardware, and of the
firmware loop. Strong fairness of three meetings of the two, none of which either
side can force: a status check ends before its die is visited again
(`StatusInTime`), the controller is free at some visit although neighbours use it
(`ChannelInTime`, `VisitInTime`). Without the first there is a livelock: a report
that arrives after the visit is thrown away by the next status check.

**Not true of the code.** With `"half"` in `NotReady`, a report with one of the two
ready bits set, `EveryRequestEnds` fails: an erase or a program then looks at
the same report for ever instead of asking again (`fil_nand.c:290`, `679`).
`OneCommandAtATime`: `CHECK_TRANSFER_ISSUABLE` checks nothing, so a transfer may be
written while the controller works for another way; the model lets it wait its turn.

## 8. HostIo and HostDma

### State and actions

| Variable | Code |
|---|---|
| `at`, `idx`, `spinning` | where the thread is in `DFTL_GLOBAL::Run`, the page its loop is at, and whether it is in the loop of `FIL_AllocateRequest` |
| `status`, `count`, `done`, `bufs`, `mark` | `HIL_REQUEST`: `m_nStatus`, `m_nLPNCount`, `m_nDoneLPNCount`, `m_dlBuffer`, `m_nDMAReqTail` with `m_nDMAOverFlowCount` |
| `reads` | the reads a request has in the FIL |
| `waitQ`, `issuedQ`, `doneQ`, `hdmaQ` | the queues of `HIL_REQUEST_INFO` |
| `free`, `others` | `BUFFER_POOL::m_nFreeCount`, and what the collectors and the meta requests hold |
| `unit`, `cur` | the program units of an active block |
| `tx`, `rx` | the two FIFOs of the host DMA: tail, wraps, and the transfers under way |

The actions follow a command from `FTL_ReadPage` or `FTL_WritePage` to its release.
A handler that waits is cut where it waits: for room in a FIFO (`IssueTx`, `IssueRx`),
for a request of the FIL (`Spin`), for the transfers of a unit (`WaitRxDMADone`).
There the hardware goes on and, in `Spin`, callbacks of the FIL change the requests
and the units behind the back of the handler.

`HostDma` has the arithmetic: `HeadIndex`, `IsFull`, `Issued`, `PartialDone`, modulo
`FifoSize` (2^8) and `OverflowSize` (2^32).

### Runs

| Run | Instance | Distinct states | Shows |
|---|---|---|---|
| `HostIo` | 2 requests of 2 pages, 4 buffers, 2 units of 3 pages, 1 FIL request, `FifoSize` 3, `OverflowSize` 2 | 35,682 | the properties below |
| `HostIoRx` | the same | stops | the finding below |

- `QueuesMatchStatus`: the first pages of a read may come back while its later pages
  still wait for the FIL; the last callback finds the request in the issued queue.
- `BuffersHeld`: every buffer is free or held once, and a request has all of its own
  while the NAND or the DMA works on one.
- `TransferCheckExact`: the comparison of wrapped indices tells whether a read's
  transfers are over.
- `EveryCommandEnds`: reads take the buffers of all pages at once, units hold buffers
  until they are full, handlers wait inside the loop that would free them.

**Bounds.** Indices of three values and wraps of two make a wrap, and a wrap of the
wraps, a matter of a few transfers. A command of two pages over units of three is
split over two units. One FIL request makes every second page spin. The invariants
also hold with `OverflowSize` 3 (368,000 states), 3 requests with 6 buffers and 2 FIL
requests (775,000), `FifoSize` 4 (290,000), and commands of one or two pages with
`OverflowSize` 3 (6.8 million).

The three invariants are proved for all sizes in `HostIoProofs` (section 10).

**Why `PoolAssumption`.** A read needs `MaxCount` buffers at once, while a unit that
is partly filled, and the other users, keep theirs. In the code there are 2048
buffers (`HIL_REQUEST_COUNT`), `MAX_NUM_OF_NLB` is 128, the collectors hold at most
512, the meta requests one per channel, and units in program at most
128.

**Why `MarkAssumption`.** The mark of a read is compared with indices whose wraps wrap too.
Of the 2048 requests all but one can issue `MAX_NUM_OF_NLB` transfers each while a mark
waits, less than 2^18, and the indices go round after 2^40. In the run it is 2 of 6.

**Fairness.** Weak fairness of the loop and of the DMA; strong fairness of `Served`
(the head of the wait queue is let through at some time: `MetaCache`) and of the ends
of reads and programs (`FilNand`). Nothing obliges the host or the other users.
Transfers of one direction end in the order of issue: this is the hardware's, and
what an index of the last one presupposes.

**Remarks.** A write is acknowledged when its pages are in units. The mark of its
transfers, in the request, is read by nobody. `FLUSH` completes at once and programs
nothing.

### Finding

`HostIoRx` (`dftl_activeblock.cpp:165`). Before `_IssueProgram` returns it waits, "Wait Rx
DMA Done", with the tail and the wrap count of the unit. `PROGRAM_UNIT::Add` stores
those in the request, and nothing sets the unit's. The check of index 0 of wrap 0 is
then TRUE (until the wraps themselves wrap, after 2^40 transfers), and a full unit is given to the NAND while the host's data is still
on its way: `ProgramAfterTransfer` fails after a few writes.

## 9. NvmeTask

### State and actions

| Variable | Code |
|---|---|
| `status` | `g_nvmeTask.status` |
| `branch`, `todo` | the status `nvme_run` has read in this turn, and the register writes of its branch that are left |
| `direct` | the transfers `check_direct_tx_dma_done` waits for in `handle_identify` |
| `reg` | `cacheEn`, the admin queue register, `CSTS.RDY`, `CSTS.SHST` |
| `sq`, `cq` | the I/O queues set in the controller |
| `cc`, `link`, `pending` | what the host has written to `CC`, the link, and `DEV_IRQ_STATUS_REG` |
| `lost` | history: `nvme_run` has overwritten a status the handler wrote |

`Look` takes a branch of `nvme_run`; `WriteRegister`, `ClearQueue` and `WriteStatus` are
its writes, one by one, and `dev_irq_handler` may come between any two, as may the
host and the link. The commands that change the controller are actions of their own.

### Run

| Run | Instance | Distinct states | Shows |
|---|---|---|---|
| `NvmeTask` | 2 queues, `Patient` | 2,888 | the properties below |

- `FreshWhenEnabled`: a controller that waits to be enabled has no queue and no setting
  of the time before.
- `ReadyIsServed`: a ready bit the host sees is of a controller that works or stops, and
  that works as long as the host wants it to, whatever was overwritten.
- `RequestsServed`: an enable, a disable and a normal shutdown are carried out, unless
  `nvme_run` overwrites the status the handler wrote.

**Bounds.** Two queues, of which one could be left when the other is cleared; three
pass too. `Patient` describes the environment: the host disables only a controller
that is ready, and a fall of the link lasts longer than its interrupt and the turn it
interrupts.

**Fairness.** Weak fairness of `nvme_run`, of the handler and of the direct transfers.
Nothing obliges the host.

**Not true of the code.**

- `NothingIsLost`: the ready bit is written before the status. The host may answer
  first, and its disable or shutdown is then lost to `RUNNING`; after a disable, its
  next enable is lost to `IDLE`. The controller stays so until the next interrupt.
- `FreshWhenEnabled` without `Patient`: two changes before one interrupt are seen as one
  enable, and `WAIT_CC_EN` is entered with the queues of the time before.
- `AbruptIsServed`: `dev_irq_handler` starts a shutdown for the value 1 only
  (`host_lld.c:235`), although `nvme_run` serves both.

**Remarks, not modelled.** `ioSqInfo` and `ioCqInfo` are not cleared by a reset, but
nobody reads them afterwards. `handle_identify` waits for ever if its transfer does not
end, and no reset is served then; the model assumes it ends. Host requests from before
a reset go on and complete with their old slot tags; what the controller does with
those is the hardware's. How interrupts reach the handler is set up by code that is
not in `src/`.

## 10. Proofs

### MetaCacheProofs

`MetaCacheProofs` proves, for all constants that satisfy `SizesAssumption` and
`SentinelAssumption` (any number of entries, requests, pages, mappings per page,
addresses and queue lengths, any subset of collectors):

| Theorem | Statement |
|---|---|
| `Invariant` | `Spec => []IInv` |
| `TypeCorrect` | `Spec => []TypeOK` |
| `RequestsMatchEntries` | `Spec => []PointersSound` |
| `QueuesCorrect` | `Spec => []QueuesMatchStatus` |
| `PagesUnique` | `Spec => []OnePagePerEntry` |
| `BusyEntriesKeepPage` | `Spec => BusyEntryKeepsPage` |

They hold even when the request pool runs out and the lists are corrupted
(item 3 of the findings), because handlers then stop walking the lists.

The inductive invariant `IInv` adds to the properties what their induction needs:

- `RequestsSound`: a request past its first step has its data, and a load is of a
  page that has been stored. Without it `LoadDone` could fill an entry with
  nothing.
- `EntriesSound`: a dirty entry is valid and a valid one holds a formatted page.
  `RequestMatchesEntry` needs the first when a dirty tail is flushed; `OnePagePerEntry`
  needs the second when `FormatPage` takes the next page number.
- `ListsCover`: while no entry is on both lists, each is on one, and those on the
  free list are idle, clean and hold no page. A miss in the LRU list then means
  that no entry at all holds the page, which is what keeps pages unique.
- `PagesStored`: a formatted page is stored, or dirty in an entry that will be
  stored. A page that is missing from the cache was evicted clean, so a load finds
  it.
- `FormatFirst`: there is no request before the end of the format.
- `VictimStored`: what the meta collector copies exists.

The proof has one lemma per action, grouped by what the actions touch
(steps that leave the cache alone, `Touch`, `_Allocate`, the four outcomes of
`LoadMeta`, `SetL2V`, the done handlers), and one step per conjunct an action can
disturb. `SeqLemmas` has the facts about `Cons`, `RemoveAt`, `Front`, `Append` and
`SetToSeq` they rest on: which elements the result has and whether it stays free of
repetitions. `IInv` was checked by TLC as an invariant of the runs of `MetaCache` before
it was proved.

Its second half is about what the cache and its users hold, for the same constants:

| Theorem | Statement |
|---|---|
| `UserPagesAreCounted` | `Spec => []UserPagesCounted` |
| `MappingKeptUndisturbed` | no meta collector: `Spec /\ [][StoredUndisturbed]_vars => [](MappingKept /\ DirtyUntilStored)` |
| `ListsSoundUnlessReleased` | `Spec => [](ListsIntact => ListsSound)` |
| `HostKeepsMapping` | no collector, at least one request: `Spec => []MappingKept` |
| `HostStoresDirty` | the same: `Spec => []DirtyUntilStored` |
| `HostKeepsLists` | the same: `Spec => []ListsSound` |

`UserPagesAreCounted` is about a user victim with any excess (`MaxExcess` is any number): its
collection ends with its last copy exactly if the excess is used up by then. The proof needs to know,
besides (`CountInv`), that a page of the user victim is nowhere twice: unread, in one
waiting request, or in one that is being read. A step then moves one page from one
summand to the next; a copy into the victim itself moves one from the excess to the
unread pages.

`StoredUndisturbed` says of a step that it changes no mapping of a page that is just being
stored. `MappingInv` is inductive under it: the two properties, with what the buffers
hold (`Buffers`: a flush has what its entry has and, when done, what the flash has, a
load what the flash has) and that nothing is mapped in a page that is not formatted yet.
The theorem is therefore the positive side of the first
finding: with the user collector, `SetL2V` on a page being stored is the *only* way to
lose an update. `ListsIntact` is in the same way the other side of the third.

With the host alone neither occurs, and both conditions become theorems (`HostTurn`): at
most one meta request is outstanding. It flushes the tail of the LRU list because the
head of the host queue misses a page, or it loads one of the two pages of that head; so
the head misses that page again, or finds the same busy tail, and can neither make a
second request nor set a mapping. Hence one request is enough, `_Release` is not reached, and
`SetL2V` never meets a page that is being stored. `HostInv` is that together with the
invariants above.

Only model-checked: the liveness properties, and `ListsSound` with the user collector,
which needs as many requests as can be outstanding; only what holds as long as `_Release`
is not reached is proved.

### FilQueueProofs

For every number of requests, dies, blocks and pages allowed by `SizesAssumption` and
`SentinelAssumption`:

| Theorem | Statement |
|---|---|
| `FilTypeCorrect` | `Spec => []TypeOK` |
| `RequestsStayInQueues` | `Spec => []RequestsInQueues` |
| `OneOperation` | `Spec => []OneOperationPerDie` |

The inductive invariant is their conjunction. None of the first two is inductive
alone: that a request on an issued queue has an issued status, which
`RequestsInQueues` says, is what makes `NextStatus` and the effect on the pages well
defined, and the types are what the facts about queues rest on. One lemma per action;
the facts about `Head`, `Tail`, `Append` and `Cons` come from `SeqLemmas`.

With more than one page in a block (`PagesPerBlock > 1`), as in any NAND:

| Theorem | Statement |
|---|---|
| `PagesNotOverwritten` | `Spec => []NoOverwrite` |
| `ReadsFindTheirPage` | `Spec => []ReadFindsPage` |
| `PagesFillInOrder` | `Spec => []PagesInOrder` |

The order on a die is not the order of a queue: an erase that has ended takes its program
back to the head, but by way of the done queue, and what stands behind it goes first.
The inductive invariant `OrderInv` adds to `IInv`:

- `Queues`: an erase that has ended is looked at before the next operation of its die can
  end, and its program then stands at the head. (`TwoErased` is the rare case: an
  erase overtakes a first page that is erased and not yet programmed.)
- `StartedOnce`: of a block one first page at most is erased and not programmed, and only
  the second page can have been programmed before it.
- `FillsInTurn`: but for that page, the erases and programs of a block that remain can be
  numbered in the order they stand in (`Numbered`), each of the page its number says,
  and the pages programmed are those before the first. A read stands behind the
  number of its page.
- `PendingReads`: the caller that spins for a request reads a page that is queued.

The numbers are existentially quantified in the invariant: they are the history of the
block, which the code does not keep. With one page in a block the erase that
overtakes is of the page itself: TLC then finds `NoOverwrite` violated with 1 die, 1 block and
3 requests.

### FilNandProofs

For every number of dies, channels, neighbours, requests, blocks, pages and retries, and
whatever a busy die reports (`"half"` included, which costs liveness only):

| Theorem | Statement |
|---|---|
| `NandImplementsQueue` | `NandSpec => ImplementsQueue`, that is, `Queue!Spec` with `cells <- seen` |
| `FreeWaysAreQuiet` | `NandSpec => []FreeWayIsQuiet` |
| `WorkingArraysUndisturbed` | `NandSpec => []WorkingArrayUndisturbed` |
| `FreePagesProgrammed` | more than one page in a block: `NandSpec => []ArraysProgramFreePages` |

`NandInv` says, for each of the eight steps an operation can be at, what the firmware
knows there (`Knows`): which command of the die is with the controller, whether the
array has done its work, and what the report and completion words it will read can say. The array is ahead of the
firmware: `cells` is `seen`, or `seen` after the operation, from the moment the array ends
to the visit that reports it. The theorems about `FilQueue` are used through an instance
of their module, with `seen` for its pages; `FreePagesProgrammed` carries `NoOverwrite` from
there to the arrays themselves.

### BlockMgrProofs

For every number of blocks, pages and LPNs and for both block managers:

| Theorem | Statement |
|---|---|
| `BlocksTypeCorrect` | `Spec => []TypeOK` |
| `BlocksPartitioned` | `Spec => []ListsPartition` |
| `CountsCorrect` | `Spec => []CountsMatchMapping` |
| `WrittenPageErased` | `Spec => []CurrentPageErased` |
| `CopiesStayCurrent` | user blocks: `Spec => []CopyIsCurrent` |
| `CollectionsCounted` | user blocks: `Spec => []CollectionCounted` |
| `MappedPageIsTheirs` | `Spec => []MappingInverse`: the page an LPN is mapped to holds it |
| `ValidPagesKept` | `Spec => [][ValidUntouched]_vars`: no step erases or overwrites a valid page |
| `MarksMakeCountExact` | user blocks: `Spec /\ []ActiveMarked => []VictimCounted` |
| `MetaBlocksMarked` | meta blocks: `Spec => []ActiveMarked` |
| `SpaceNeverRunsOut` | user blocks, `SpareBlocks`: `Spec => []SpaceLeft` |
| `VictimIsFound` | `Spare(1)`: `Spec => [](NeedGC => Victims # {})` |

`Core` is inductive for both managers. It adds to the four properties that the page an
LPN is mapped to names that LPN (`MappingInverse`), without which invalidating the old
page of an LPN could clear the bit of another one, and that a slot that is being filled
has a block (`PageStarted`). A released block may still be named by a slot (the finding of
section 5); `Core` survives it because such a slot is full. `ReadKnown` is for the reads of the
collector.

For user blocks `UserInv` follows the copies: each is of a page of the victim that has
been passed, no two are of one page, and as host writes wait meanwhile, only copies change
the mapping. `PagesCounted` bounds by `m_nVPC` what is written, under way and ahead; ahead
are also the pages not written yet, as the victim may be a block that is being
written. Under `ActiveMarked` it is an equation (`Exact`), and the collection reads what it
counted; the theorem has this as a hypothesis because the code does not keep it.

`MetaBlocksMarked` (`MarksKept`). The meta manager has one stream, so the block in which a
page was written last is the current one of its slots. A block that has just become full
holds that page, which is valid until the next write, and the next write moves on to the
other slot. So a block is not released while it is current, the two slots never hold the
same block, and clearing the mark of the block that leaves does not clear the other's.
The user manager has two streams, and a host write can release the full block of the
collector's slot, which is the finding of section 5.

`VictimIsFound` and `SpaceNeverRunsOut` rest on a count. A block in use that is marked is in a
slot (`MarkedInSlot`), and there are two slots to a stream. No page holds two LPNs and
no LPN is valid in two pages, so if each block outside the slots had fewer than k invalid
pages, the pages of these blocks would hold more LPNs than there are
(`LPNsFillBlocks`, by an injection of block and page number into the LPNs):

    Spare(k): |LPN| < (|Blocks| - Threshold - slots) * (PagesPerBlock - k + 1)

For `SpaceLeft` the victim must pay for what the host writes, at most `2 * TurnLimit` pages
from one collection to the next: a turn, and one more if a collection of the meta blocks
comes between, which ends before the host's turn. `SpareBlocks` is `Spare(2 * TurnLimit)`, with
two turns no larger than a block. `SpaceInv` counts in pages what can be written before a
block has to be given back: the free blocks and the room in the current block of each
stream (`Space`). Outside a collection it is at least `Least + Owed`, where `Owed` is what the
host may still write before the next one starts, and `Least` is one page short of what two
blocks leave after two turns. With that much a collection that finds
no free block has room for its copies in the collector's own block. Each copy takes a page of
`Space` and leaves one valid page less in the victim, and the last one gives back a whole
block, `2 * TurnLimit` pages more than the copies took; host writes that release a block only
add to it. TLC checked `SpaceInv` on four drives that satisfy `SpareBlocks`, of up to 8 blocks
and 7 LPNs, before it was proved.

`SpareBlocks` is what the configuration is meant to give. The over-provisioning of 10% has to
cover the 24 blocks of the threshold and the slots, and of every other block the share that
two turns write. A turn writes at most the program units of the two slots, 24 pages to a die
(`ACTIVE_BLOCK_BUFFERING_COUNT`), two turns 48, and a virtual block has four times the
pages of a NAND block to a die: with 256 of them 48 of 1024, less than 5%, and of 500 blocks 24 are less
than 5% too. The geometry itself is a constant of the board, outside the repository.
`BlockMgrUser` checks `SpaceLeft` on a drive that is fuller than `SpareBlocks` allows (7 LPNs, where the
theorem wants fewer than 4), so the run is not an instance of the theorem; what is between the
two is only model-checked.

### ActiveBlockProofs

For all constants that satisfy `SizesAssumption`, `ConfigAssumption` and
`SentinelAssumption`:

| Theorem | Statement |
|---|---|
| `ActiveTypeCorrect` | `Spec => []TypeOK` |
| `SlotsAreFree` | `Spec => []SlotIsFree` |
| `HashIsExact` | `Spec => []HashExact` |
| `HitsAreCurrent` | `Spec => []HitIsCurrent` |
| `MissesAreIssued` | `Spec => []HostMissIsIssued` |

`ConfigAssumption` is what the configuration gives: fewer requests than units in a ring,
and as many units of a block on each die as there are requests.

The inductive invariant `IInv`:

- `Structure`: the page counter of a slot says how many units it has given to the FIL, a
  unit that is programmed is at the distance from the ring that its address says, the
  slot that is not written is full, and each unit in program is in flight once.
- `InOrder`, `PassedOnce`: the programs of a stream are in flight in the order of their
  pages; of those of its die that were issued after a program in flight, at most one has
  ended, and only if that program is of a first page.
- `OlderThanMapped`, `MappedIsThere`: a page in a unit of the host stream is not newer than the
  mapped one, and a unit that spans the address an LPN is mapped to holds that LPN.
- `HashExact`, inductive with the types and the above.

`SlotsAreFree` is the argument that had to be found. Say a program of the block a slot
leaves is still in flight. The other slot is full, and so has given a unit of that die
for every request since. If none of them has ended, they are with the first more than
there are requests. If one has, the first is of a first page, and behind it in its own block
there is another unit of the die, in flight too: again more than the requests. `HitsAreCurrent`:
the search steps back from the ring over units of one block, so it meets the newest
copy first; and in the slot that is full the unit at the ring is free, or the ring is
full, so it finds nothing there.

### HostIoProofs

First of the arithmetic alone, for every `FifoSize` and `OverflowSize` greater than 1:

| Theorem | Statement |
|---|---|
| `PartialDoneExact` | with indices and wraps of two numbers, ended and issued, the comparison is TRUE exactly if the mark is not beyond what has ended |
| `CheckDoneExact` | the same of the check of a mark against a FIFO, if fewer than `FifoSize * OverflowSize` transfers were issued since |

Tail, wraps and head stand for two numbers that only grow, how many transfers were
issued and how many have ended (`Counted`, kept by `Issued` and `Ended`:
`IssuedCounted`, `EndedCounted`). Numbers are ordered by their laps and then by their
indices (`LexOrder`), and the full test keeps ended and issued less than a lap apart, so
the comparison of indices, case by case, is the comparison of the numbers.

Then of the firmware, for all constants that satisfy the assumptions of `HostIo`:

| Theorem | Statement |
|---|---|
| `HostIoInvariant` | `Spec => []HostInvariant` |
| `HostTypeCorrect` | `Spec => []TypeOK` |
| `HostQueuesCorrect` | `Spec => []QueuesMatchStatus` |
| `BuffersAreHeld` | `Spec => []BuffersHeld` |
| `TransferChecksExact` | `Spec => []TransferCheckExact` |

`HostInvariant` has four parts:

- `Control`: what a request on each queue has counted, at which step of which handler the
  loop is, and for which request. A callback may end the request a handler is
  working on, and the invariant says what the handler then finds.
- `Pool`: the buffers as sets, `RequestBuffers` and `UnitBuffers`, with their number. The
  free count is what is left, and a handler that is taking the buffers of a read has at
  least as many free as it still needs; no callback takes one.
- `Transfers`: there are two numbers, issued and ended, that the Tx indices stand for, and one
  for the mark of each read (`Marked`). A mark does not grow stale: after it
  only the requests behind it in the queue, and the one that is being issued, can issue
  transfers, `MaxCount` each, and `MarkAssumption` says that they cannot wrap the wraps.
- `Bounded`: the loop variables and the pages of the units.

### NvmeTaskProofs

For any number of queues, with `Patient`:

| Theorem | Statement |
|---|---|
| `TaskInvariant` | `Spec => []TaskInv` |
| `TaskTypeCorrect` | `Spec => []TypeOK` |
| `StartsFresh` | `Spec => []FreshWhenEnabled` |
| `ReadyMeansServed` | `Spec => []ReadyIsServed` |

Neither property is inductive, because the status is written by two actors: what the loop
is in the middle of says what the other may have written. `TaskInv` has

- `TurnSound`: the writes left of a turn are those of its branch but for the first n, and
  what those n have done to the registers and the queues (`EnableAt`, `ShutdownAt`,
  `DisableAt`, `ResetAt`);
- `StatusSound`: which statuses go with the ready bit, and which the interrupt can have
  written during which branch. In particular `WAIT_CC_EN` with the ready bit off means
  that the host wants it on and nothing is pending, or that the link is down;
- `HostSound`: what the host can have asked for. While the ready bit is off it
  asks for no shutdown; while it is on and the host has not cleared its own, at
  most a shutdown is pending;
- `BetweenSound`: between two turns, a controller that is not ready is empty.

The second and third are where `Patient` is needed. `lost` is in none of them: the
writes that are overwritten cost `RequestsServed`, not these two. TLC checked `TaskInv`
to be inductive from every state of its types, with one queue, before it was
proved.

### What has no proof

Each invariant and each action property of a passing run is stated by a theorem, some under
the hypotheses given above. What stays with TLC:

- All liveness under fairness: `HostServed`, `CollectionEnds`, `EveryRequestEnds`, `EveryCommandEnds`
  and `RequestsServed`.
- `SpaceLeft` on drives that are fuller than `SpareBlocks`.
- `ListsSound` while a collection runs, beyond `ListsSoundUnlessReleased`: it holds while
  the request pool does not run out, and the pool of the configuration can.
- `MappingKept` and `DirtyUntilStored` where the theorems have `StoredUndisturbed` as a hypothesis.

## 11. Not modelled

- The flow of data: what a page holds, and the whole path of a write through all
  modules at once (section 2, item 6). A host read needs its mappings to be in the
  cache, and what `MappingKept` checks is the mapping.
- NAND operations in their synchronous form (`bSync`), which no request uses, the
  transfer without ECC and the commands of the set-up. Addresses are pages of blocks.
- Direct Rx transfers, which nobody issues, and `check_auto_tx_dma_done` and
  `check_auto_rx_dma_done`, which nobody calls.
- Admin commands that only answer, the layout of identify data, and the conversion of
  an I/O command's address and length to LPNs.
- Bad blocks, which are left out of the lists at the start and never added, and erase
  counts, which nobody reads; `m_eStatus` of the FTL, read by nobody; statistics, profile counters
  and random numbers.
- The lists of `common/`: sequences, whose facts are in `SeqLemmas`. The start-up of the
  board in `target/`.
