---------------------------- MODULE ActiveBlock ----------------------------
(***************************************************************************)
(* The active blocks of the user data: per stream two slots, each with the *)
(* block it fills and a ring of program units in which pages are gathered  *)
(* and programmed.  A host read looks for its page in the units of the     *)
(* host stream and goes to the NAND when it does not find it there.        *)
(*                                                                         *)
(* The stream of the meta blocks runs the same code; all its writes are    *)
(* entered in a hash, as those of the stream "HOST" are here.              *)
(*                                                                         *)
(* Blocks are named by the slot they are in; a block that has left its     *)
(* slot is only "Left": the units are free by then (SlotIsFree), and reads *)
(* of it are reads of the NAND.                                            *)
(***************************************************************************)
EXTENDS Integers, Sequences, FiniteSets

CONSTANTS
  LPN,             \* logical pages
  Buckets,         \* of the hash of buffered LPNs
  Bucket,          \* GET_BUCKET_INDEX: a function from LPN to Buckets
  UnitCount,       \* ACTIVE_BLOCK_BUFFERING_COUNT
  LpnPerUnit,      \* LPN_PER_PHYSICAL_PAGE
  UnitsPerBlock,   \* physical pages of a virtual block
  Dies,            \* USER_CHANNELS * USER_WAYS
  RequestCount,    \* FTL_REQUEST_COUNT
  Unmapped, Left, NoUnit, NoHit

ASSUME SizesAssumption ==
  /\ Bucket \in [LPN -> Buckets]
  /\ UnitCount \in Nat \ {0}
  /\ LpnPerUnit \in Nat \ {0}
  /\ UnitsPerBlock \in Nat \ {0}
  /\ Dies \in Nat \ {0}
  /\ RequestCount \in Nat \ {0}

\* The configuration: three units a die for two requests a die, and a block has
\* more pages on each die than there are requests.
ASSUME ConfigAssumption ==
  /\ RequestCount < UnitCount
  /\ RequestCount * Dies <= UnitsPerBlock

Streams == {"HOST", "GC"}
Slots   == {0, 1}
Units   == 0..(UnitCount - 1)

\* The page number that stands for INVALID_VPPN: the block is full.
BlockEnd  == UnitsPerBlock * LpnPerUnit
PageNos   == 0..(BlockEnd - 1)
Addresses == [stream : Streams, slot : Slots, page : PageNos]

ASSUME SentinelAssumption ==
  /\ Unmapped \notin Addresses \cup {Left}
  /\ Left \notin Addresses
  /\ NoUnit \notin [stream : Streams, slot : Slots, unit : Units]
  /\ NoHit \notin Addresses

VARIABLES
  cur,      \* m_nCurActiveBlockHost, m_nCurActiveBlockGC
  page,     \* m_nCurVPPN of a slot: the next page of its block
  ring,     \* m_nCurProgramBuffering of a slot
  unit,     \* m_astBuffering of a slot
  hash,     \* m_anBufferingLPNCount
  l2v,      \* the mapping
  issuing,  \* the unit _IssueProgram waits to get a request for
  flight    \* the units given to the FIL, oldest first

vars == <<cur, page, ring, unit, hash, l2v, issuing, flight>>

\* Nothing reads the address of a free unit.
FreeUnit == [free |-> TRUE, programming |-> FALSE, vppn |-> 0, lpns |-> <<>>]

Init ==
  /\ cur = [st \in Streams |-> 0]
  /\ page = [st \in Streams |-> [s \in Slots |-> BlockEnd]]
  /\ ring = [st \in Streams |-> [s \in Slots |-> 0]]
  /\ unit = [st \in Streams |-> [s \in Slots |-> [u \in Units |-> FreeUnit]]]
  /\ hash = [b \in Buckets |-> 0]
  /\ l2v = [lpn \in LPN |-> Unmapped]
  /\ issuing = NoUnit
  /\ flight = <<>>

-----------------------------------------------------------------------------
(* Writing *)

\* GetActiveBlock: does the stream go to its next slot, which slot is written,
\* and at which page.
NeedsNext(st) == page[st][cur[st]] = BlockEnd
WriteSlot(st) == IF NeedsNext(st) THEN 1 - cur[st] ELSE cur[st]
WritePage(st) == IF NeedsNext(st) THEN 0 ELSE page[st][cur[st]]

\* The mapping once _GoToNextActiveBlock has given the slot another block.
SlotLeft(st) ==
  [lpn \in LPN |->
     IF NeedsNext(st) /\ l2v[lpn] \in [stream : {st}, slot : {WriteSlot(st)}, page : PageNos]
     THEN Left ELSE l2v[lpn]]

\* PROGRAM_UNIT::Add: the first page takes the unit and gives it its address.
Added(u, lpn, p) ==
  [u EXCEPT !.free = FALSE,
            !.vppn = IF u.lpns = <<>> THEN p ELSE @,
            !.lpns = Append(@, lpn)]

\* BUFFERING_LPN::Add, for host writes only.
HashAdd(st, lpn) ==
  IF st = "HOST" THEN [hash EXCEPT ![Bucket[lpn]] = @ + 1] ELSE hash

\* ACTIVE_BLOCK::Write, refused while the unit to fill is being programmed; the
\* units of a slot that just got its block are free (SlotIsFree), so a refusal
\* changes nothing.  A unit that is full then has to be issued, before anything
\* else can run but the completions of the FIL.
Write(st, lpn) ==
  LET s == WriteSlot(st)
      p == WritePage(st)
      i == ring[st][s]
      u == Added(unit[st][s][i], lpn, p)
  IN  /\ issuing = NoUnit
      /\ ~unit[st][s][i].programming
      /\ cur' = [cur EXCEPT ![st] = s]
      /\ page' = [page EXCEPT ![st][s] = p + 1]
      /\ unit' = [unit EXCEPT ![st][s][i] = u]
      /\ hash' = HashAdd(st, lpn)
      /\ l2v' = [SlotLeft(st) EXCEPT ![lpn] = [stream |-> st, slot |-> s, page |-> p]]
      /\ issuing' = IF Len(u.lpns) = LpnPerUnit
                    THEN [stream |-> st, slot |-> s, unit |-> i] ELSE NoUnit
      /\ UNCHANGED <<ring, flight>>

HostWrite(lpn) == Write("HOST", lpn)

\* The collector writes a page of a block that is in no slot: the marks keep victims
\* out of the slots, if they are right (BlockMgr, ActiveMarked).
GCWrite(lpn) == l2v[lpn] = Left /\ Write("GC", lpn)

-----------------------------------------------------------------------------
(* Programming *)

\* VNAND::ProgramPage gets a request of the FIL, for which FIL_AllocateRequest
\* waits; completions of other units come in the meantime.  Then the unit is
\* being programmed and the slot goes on to the next one.
IssueProgram ==
  /\ issuing # NoUnit
  /\ Len(flight) < RequestCount
  /\ flight' = Append(flight, [at |-> issuing, passed |-> FALSE])
  /\ unit' = [unit EXCEPT ![issuing.stream][issuing.slot][issuing.unit].programming = TRUE]
  /\ ring' = [ring EXCEPT ![issuing.stream][issuing.slot] = (issuing.unit + 1) % UnitCount]
  /\ issuing' = NoUnit
  /\ UNCHANGED <<cur, page, hash, l2v>>

UnitAt(a) == unit[a.stream][a.slot][a.unit]

\* The physical page of a unit: pages go round the dies.
PPage(a) == UnitAt(a).vppn \div LpnPerUnit
Die(a)   == PPage(a) % Dies

\* The programs of the same die that were issued before flight[i].
Ahead(i) == {j \in 1..(i - 1) : Die(flight[j].at) = Die(flight[i].at)}

\* Mutant: the programs of a die end in any order.
FinishableAnyOrder(i) == TRUE

\* A die programs in the order of issue, but that the program of the first page
\* of a block, which waits for the erase, may be passed once.
Finishable(i) ==
  \A j \in Ahead(i) : PPage(flight[j].at) < Dies /\ ~flight[j].passed

\* What is left in flight, and passed, when flight[i] ends.
Remaining(i) ==
  [k \in 1..(Len(flight) - 1) |->
     IF k >= i THEN flight[k + 1]
     ELSE [flight[k] EXCEPT !.passed = @ \/ k \in Ahead(i)]]

\* Mutant: pages of one bucket are taken off once.
HashRemoveOnce(st, lpns) ==
  IF st = "HOST"
  THEN [b \in Buckets |-> hash[b] - Cardinality({Bucket[lpns[k]] : k \in DOMAIN lpns} \cap {b})]
  ELSE hash

\* BUFFERING_LPN::Remove for each page of a unit.
HashRemove(st, lpns) ==
  IF st = "HOST"
  THEN [b \in Buckets |-> hash[b] - Cardinality({k \in DOMAIN lpns : Bucket[lpns[k]] = b})]
  ELSE hash

\* Mutant: m_nLPNCount keeps its value.
ProgramDoneKeepsCount(i) ==
  LET a == flight[i].at
  IN  /\ Finishable(i)
      /\ hash' = HashRemove(a.stream, UnitAt(a).lpns)
      /\ unit' = [unit EXCEPT ![a.stream][a.slot][a.unit] =
                    [@ EXCEPT !.free = TRUE, !.programming = FALSE, !.vppn = 0]]
      /\ flight' = Remaining(i)
      /\ UNCHANGED <<cur, page, ring, l2v, issuing>>

\* DFTL_GLOBAL::CallBack and ACTIVE_BLOCK::ProgramDone.
ProgramDone(i) ==
  LET a == flight[i].at
  IN  /\ Finishable(i)
      /\ hash' = HashRemove(a.stream, UnitAt(a).lpns)
      /\ unit' = [unit EXCEPT ![a.stream][a.slot][a.unit] = FreeUnit]
      /\ flight' = Remaining(i)
      /\ UNCHANGED <<cur, page, ring, l2v, issuing>>

Next ==
  \/ \E lpn \in LPN : HostWrite(lpn) \/ GCWrite(lpn)
  \/ IssueProgram
  \/ \E i \in DOMAIN flight : ProgramDone(i)

Spec == Init /\ [][Next]_vars

-----------------------------------------------------------------------------
(* Reading: HIL_REQUEST::_ProcessRead_Wait changes nothing here.            *)

\* Mutant: the search starts at the unit issued last.
LookedFromLast(st, s, j) == unit[st][s][(ring[st][s] + 2 * UnitCount - 1 - j) % UnitCount]

\* The j-th unit the search of a slot looks at, from the unit being filled.
Looked(st, s, j) == unit[st][s][(ring[st][s] + UnitCount - j) % UnitCount]

\* Mutant: the search steps back over free units.
ReachedPastFree(st, s) == {j \in Units : ~Looked(st, s, j).free}

\* A free unit ends the search: the loop goes on without a step back.
Reached(st, s) == {j \in Units : \A i \in 0..j : ~Looked(st, s, i).free}

\* ACTIVE_BLOCK::ReadBufferingLPN: the first place that holds the page.
SlotHits(st, s, lpn) ==
  {h \in Reached(st, s) \X (1..LpnPerUnit) :
     LET lpns == Looked(st, s, h[1]).lpns
     IN  h[2] \in DOMAIN lpns /\ lpns[h[2]] = lpn}

Before(g, h) == g[1] < h[1] \/ (g[1] = h[1] /\ g[2] >= h[2])

ReadSlot(st, s, lpn) ==
  LET hits == SlotHits(st, s, lpn)
      h == CHOOSE h \in hits : \A g \in hits : Before(h, g)
  IN  IF hits = {} THEN NoHit
      ELSE [stream |-> st, slot |-> s, page |-> Looked(st, s, h[1]).vppn + h[2] - 1]

\* BUFFERING_LPN::ReadLPN of the host stream: the hash, then slot 0, then slot 1.
ReadLPN(lpn) ==
  IF hash[Bucket[lpn]] = 0 THEN NoHit
  ELSE IF ReadSlot("HOST", 0, lpn) # NoHit THEN ReadSlot("HOST", 0, lpn)
  ELSE ReadSlot("HOST", 1, lpn)

\* Is the page at this address in a unit that has not been given to the FIL?
Unissued(a) ==
  \E u \in Units : LET p == unit[a.stream][a.slot][u]
                   IN  /\ ~p.free /\ ~p.programming
                       /\ a.page - p.vppn \in 0..(Len(p.lpns) - 1)

-----------------------------------------------------------------------------
(* Properties *)

\* Every variable stays in its type; a unit has at most its number of pages.
UnitType ==
  [free : BOOLEAN, programming : BOOLEAN, vppn : PageNos,
   lpns : UNION {[1..n -> LPN] : n \in 0..LpnPerUnit}]

TypeOK ==
  /\ cur \in [Streams -> Slots]
  /\ page \in [Streams -> [Slots -> 0..BlockEnd]]
  /\ ring \in [Streams -> [Slots -> Units]]
  /\ \A st \in Streams, s \in Slots, u \in Units : unit[st][s][u] \in UnitType
  /\ hash \in [Buckets -> Nat]
  /\ l2v \in [LPN -> Addresses \cup {Unmapped, Left}]
  /\ issuing \in [stream : Streams, slot : Slots, unit : Units] \cup {NoUnit}
  /\ \A i \in DOMAIN flight :
       flight[i] \in [at : [stream : Streams, slot : Slots, unit : Units], passed : BOOLEAN]

\* The unit a slot is filling is being programmed: its ring is full, or the
\* program of a first page is late.
RingFull(s) == unit["HOST"][s][ring["HOST"][s]].programming

\* A page found in a unit is the mapped one ("DEBUG_ASSERT(nVPPN ==
\* nBufferingVPPN)", dftl_request_hil.cpp:435), although units are searched
\* neither in the order of their writing nor all, unless a ring is full.
HitIsCurrent ==
  issuing = NoUnit /\ (\A s \in Slots : ~RingFull(s)) =>
    \A lpn \in LPN : ReadLPN(lpn) \in {NoHit, l2v[lpn]}

\* "lookup from the latest to oldest" (dftl_activeblock.cpp:344), whatever the
\* state of the ring.  Not true when the ring is full: the search then starts at
\* the oldest unit.
HitIsLatest ==
  issuing = NoUnit => \A lpn \in LPN : ReadLPN(lpn) \in {NoHit, l2v[lpn]}

\* A host read that finds a page of the host stream in no unit reads a page
\* whose program has been given to the FIL, and so comes after it.
HostMissIsIssued ==
  issuing = NoUnit =>
    \A lpn \in LPN : (l2v[lpn] \in Addresses /\ l2v[lpn].stream = "HOST"
                       /\ ReadLPN(lpn) = NoHit) => ~Unissued(l2v[lpn])

\* Not true of this code: a page of a unit of the collector is in no unit searched.
\* A read gets the page it asks for: "LPN mismatch" (dftl_request_hil.cpp:492) is
\* an error, so a page that is in no unit searched has been given to the FIL.
MissIsIssued ==
  issuing = NoUnit =>
    \A lpn \in LPN : (l2v[lpn] \in Addresses /\ ReadLPN(lpn) = NoHit) => ~Unissued(l2v[lpn])

\* "CheckAllProgramUnitIsFree() == TRUE" (dftl_activeblock.cpp:561): a slot that
\* gets another block has nothing left in flight of the block before.
SlotIsFree ==
  \A st \in Streams :
    NeedsNext(st) /\ issuing = NoUnit =>
      \A u \in Units : unit[st][WriteSlot(st)][u].free

\* The hash counts the buffered pages of the host stream: a bucket of zero means
\* that there is nothing to search.
HashExact ==
  \A b \in Buckets :
    hash[b] = Cardinality({x \in Slots \X Units \X (1..LpnPerUnit) :
                LET lpns == unit["HOST"][x[1]][x[2]].lpns
                IN  x[3] \in DOMAIN lpns /\ Bucket[lpns[x[3]]] = b})
=============================================================================
