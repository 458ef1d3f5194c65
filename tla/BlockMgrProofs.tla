--------------------------- MODULE BlockMgrProofs ---------------------------
(***************************************************************************)
(* For every number of blocks, pages and LPNs, for both block managers: no *)
(* block is lost or given back twice, the counts, the bitmaps and the      *)
(* mapping agree, so a block that is erased holds nothing valid, and each  *)
(* page is erased when it is written. For the user block manager, too: a   *)
(* copy is never overtaken by a newer write, and no collection writes more *)
(* pages than it has counted; with spare blocks, there is a free block     *)
(* whenever one is needed. For the meta block manager: the blocks being    *)
(* written are marked. With spare blocks the collector of either finds a   *)
(* victim.                                                                 *)
(***************************************************************************)
EXTENDS BlockMgr, SeqLemmas

\* m_nCurVPPN is a page of the block of its slot, past the first one as soon as Write
\* has returned, unless the block is full.
PageStarted ==
  \A s \in Streams : page[s] # 0 /\ (page[s] # Full => slot[s][cur[s]] # NoBlock)

\* The page an LPN is at names that LPN.
MappingInverse ==
  \A n \in LPN : l2v[n] # NoAddress => v2l[l2v[n].block][l2v[n].page] = n

\* What the writes of both managers keep.
Core ==
  /\ TypeOK
  /\ PageStarted
  /\ ListsPartition
  /\ CountsMatchMapping
  /\ CurrentPageErased
  /\ MappingInverse

\* A page that is being read has been written and is not erased meanwhile.
ReadKnown ==
  \A c \in copies : c.status = "READ" => v2l[c.from.block][c.from.page] # NoLPN

\* A copy has the LPN of the page it copies.
CopyKnowsLPN ==
  \A c \in copies : c.status = "WRITE_WAIT" => c.lpn = v2l[c.from.block][c.from.page]

\* The copies are of pages of the victim the collector has passed, one of each.
CopiesOfVictim ==
  /\ \A c \in copies : c.from.block = victim /\ c.from.page < readOffset
  /\ \A c, d \in copies : c.from = d.from => c = d

\* The pages of the victim that the collector may still come to.  A victim may be
\* a block that is being written, so the pages that are not yet valid are counted.
Ahead ==
  IF GCRunning THEN {p \in valid[victim] \union Unwritten(victim) : p >= readOffset} ELSE {}

PagesCounted ==
  IF GCRunning
  THEN writeCount + Cardinality(copies) + Cardinality(Ahead) <= vpc
  ELSE copies = {}

\* What holds of the user block manager, where only the collector writes while a
\* collection runs.
UserInv == CopyIsCurrent /\ CopyKnowsLPN /\ CopiesOfVictim /\ PagesCounted

IInv ==
  /\ Core
  /\ IsFiniteSet(copies)
  /\ ReadKnown
  /\ ~Meta => UserInv

(***************************************************************************)
(* Where a write goes, and where its LPN was.                               *)
(***************************************************************************)

LEMMA ConstantFacts ==
  /\ PagesPerBlock \in Nat \ {0}
  /\ IsFiniteSet(Pages) /\ 0 \in Pages /\ Pages \subseteq Nat
  /\ \A p \in Pages : p + 1 \in 1..PagesPerBlock
  /\ NoAddress \notin Address /\ NoAddress.block \notin Blocks
  /\ \A x \in Address : x.block \in Blocks /\ x.page \in Pages /\ x = [block |-> x.block, page |-> x.page]
  /\ WriteStream \in Streams /\ CopyStream \in Streams
  /\ Full = PagesPerBlock
<1>1. PagesPerBlock \in Nat \ {0}
  BY SizesAssumption
<1>2. IsFiniteSet(Pages)
  BY <1>1, FS_Interval DEF Pages
<1>3. NoAddress.block \notin Blocks
  BY SentinelAssumption DEF NoAddress
<1> QED BY <1>1, <1>2, <1>3 DEF Pages, Address, WriteStream, CopyStream, Streams, Full

\* The types of the variables that a write changes.
LEMMA TypeFacts ==
  ASSUME TypeOK
  PROVE  /\ \A b \in Blocks : /\ invalid[b] \in 0..PagesPerBlock
                              /\ valid[b] \subseteq Pages /\ IsFiniteSet(valid[b])
                              /\ Cardinality(valid[b]) \in Nat
                              /\ \A p \in Pages : v2l[b][p] \in LPN \union {NoLPN}
         /\ \A n \in LPN : l2v[n] \in Address \union {NoAddress}
         /\ \A s \in Streams : /\ page[s] \in 0..PagesPerBlock
                               /\ cur[s] \in 0..1
                               /\ slot[s][cur[s]] \in Blocks \union {NoBlock}
         /\ freeList \in Seq(Blocks)
<1>1. ASSUME NEW b \in Blocks
      PROVE  valid[b] \subseteq Pages /\ IsFiniteSet(valid[b]) /\ Cardinality(valid[b]) \in Nat
  <2>1. valid[b] \in SUBSET Pages
    BY DEF TypeOK
  <2>2. IsFiniteSet(valid[b])
    BY <2>1, ConstantFacts, FS_Subset
  <2> QED BY <2>1, <2>2, FS_CardinalityType
<1> QED BY <1>1 DEF TypeOK

LEMMA WritePlace ==
  ASSUME Core, NEW s \in Streams, Fresh(s) => freeList # <<>>
  PROVE  /\ BlockOf(s) \in Blocks
         /\ PageOf(s) \in Pages
         /\ PageOf(s) = 0 <=> Fresh(s)
         /\ Fresh(s) => /\ BlockOf(s) = Head(freeList)
                        /\ BlockOf(s) \in ToSet(freeList)
                        /\ BlockOf(s) \notin used
                        /\ valid[BlockOf(s)] = {}
         /\ ~Fresh(s) => /\ BlockOf(s) = slot[s][cur[s]]
                         /\ BlockOf(s) = Current(s)
                         /\ PageOf(s) = page[s]
                         /\ BlockOf(s) \in used
                         /\ v2l[BlockOf(s)][PageOf(s)] = NoLPN
         /\ PageOf(s) \notin valid[BlockOf(s)]
         /\ \A t \in Streams \ {s} : Current(t) # BlockOf(s)
<1> USE DEF Core
<1>1. CASE Fresh(s)
  <2>1. BlockOf(s) = Head(freeList) /\ PageOf(s) = 0
    BY <1>1 DEF BlockOf, PageOf
  <2>2. Head(freeList) \in Blocks /\ Head(freeList) \in ToSet(freeList)
    BY <1>1, TypeFacts, TailFacts
  <2>3. BlockOf(s) \notin used
    BY <2>1, <2>2 DEF ListsPartition
  <2>4. valid[BlockOf(s)] = {}
    BY <2>1, <2>2, <2>3 DEF CountsMatchMapping
  <2>5. \A t \in Streams : Current(t) # BlockOf(s)
    <3>1. SUFFICES ASSUME NEW t \in Streams, Current(t) = BlockOf(s) PROVE FALSE
      OBVIOUS
    <3>2. Current(t) # NoBlock
      BY <2>1, <2>2, <3>1, SentinelAssumption
    <3> QED BY <2>3, <3>1, <3>2 DEF CurrentPageErased
  <2> QED BY <1>1, <2>1, <2>2, <2>3, <2>4, <2>5, ConstantFacts
<1>2. CASE ~Fresh(s)
  <2>1. BlockOf(s) = slot[s][cur[s]] /\ PageOf(s) = page[s] /\ Current(s) = slot[s][cur[s]]
    BY <1>2 DEF BlockOf, PageOf, Current, Fresh
  <2>2. page[s] \in Pages /\ page[s] # 0
    BY <1>2, TypeFacts, ConstantFacts DEF Fresh, Full, PageStarted, Pages
  <2>3. slot[s][cur[s]] \in Blocks
    BY <1>2, TypeFacts DEF PageStarted, Fresh
  <2>4. Current(s) # NoBlock
    BY <2>1, <2>3, SentinelAssumption
  <2>5. page[s] \in page[s]..(PagesPerBlock - 1)
    BY <1>2, TypeFacts, ConstantFacts DEF Fresh, Full
  <2>6. /\ Current(s) \in used
        /\ v2l[Current(s)][page[s]] = NoLPN
        /\ \A t \in Streams \ {s} : Current(t) # Current(s)
    BY <2>4, <2>5 DEF CurrentPageErased
  <2>7. page[s] \notin valid[Current(s)]
    BY <2>1, <2>3, <2>6 DEF CountsMatchMapping, MappedPages
  <2> QED BY <1>2, <2>1, <2>2, <2>3, <2>6, <2>7
<1> QED BY <1>1, <1>2

\* The page an LPN was at is valid, in a block that is in use.
LEMMA OldPlace ==
  ASSUME Core, NEW n \in LPN, NEW b \in Blocks, b = l2v[n].block
  PROVE  /\ l2v[n] \in Address
         /\ l2v[n] = [block |-> b, page |-> l2v[n].page]
         /\ l2v[n].page \in Pages
         /\ v2l[b][l2v[n].page] = n
         /\ l2v[n].page \in valid[b]
         /\ b \in used
<1> USE DEF Core
<1>1. l2v[n] \in Address
  BY TypeFacts, ConstantFacts
<1>2. l2v[n] # NoAddress /\ l2v[n].page \in Pages /\ l2v[n] = [block |-> b, page |-> l2v[n].page]
  BY <1>1, ConstantFacts
<1>3. v2l[b][l2v[n].page] = n
  BY <1>2 DEF MappingInverse
<1>4. n # NoLPN
  BY SentinelAssumption
<1>5. l2v[n].page \in valid[b]
  <2>1. l2v[n].page \in MappedPages(b)
    BY <1>2, <1>3, <1>4 DEF MappedPages
  <2> QED BY <2>1 DEF CountsMatchMapping
<1>6. b \in used
  BY <1>5 DEF CountsMatchMapping
<1> QED BY <1>1, <1>2, <1>3, <1>5, <1>6

\* What is still to be written of a block: the rest of it if a stream is at it.
LEMMA UnwrittenFacts ==
  ASSUME TypeOK, PageStarted, CurrentPageErased, NEW b \in Blocks
  PROVE  /\ Unwritten(b) \subseteq Pages
         /\ IsFiniteSet(Unwritten(b))
         /\ Cardinality(Unwritten(b)) \in Nat
         /\ (\A s \in Streams : Current(s) # b) => Unwritten(b) = {}
         /\ \A s \in Streams : Current(s) = b =>
              /\ page[s] \in 1..(PagesPerBlock - 1)
              /\ Unwritten(b) = page[s]..(PagesPerBlock - 1)
              /\ Cardinality(Unwritten(b)) = PagesPerBlock - page[s]
<1>1. \A s \in Streams : page[s] \in 1..PagesPerBlock
  BY TypeFacts, ConstantFacts DEF PageStarted
<1>2. b # NoBlock
  BY SentinelAssumption
<1>3. \A s \in Streams : Current(s) = b <=> slot[s][cur[s]] = b /\ page[s] # Full
  BY <1>2 DEF Current
<1>4. \A x : x \in Unwritten(b) <=> \E s \in Streams : Current(s) = b /\ x \in page[s]..(PagesPerBlock - 1)
  BY <1>3 DEF Unwritten
<1>5. Unwritten(b) \subseteq Pages
  <2>1. \A s \in Streams : page[s]..(PagesPerBlock - 1) \subseteq 0..(PagesPerBlock - 1)
    BY <1>1, ConstantFacts
  <2> QED BY <1>4, <2>1 DEF Pages
<1>6. IsFiniteSet(Unwritten(b)) /\ Cardinality(Unwritten(b)) \in Nat
  <2>1. IsFiniteSet(Unwritten(b))
    BY <1>5, ConstantFacts, FS_Subset
  <2> QED BY <2>1, FS_CardinalityType
<1>7. ASSUME NEW s \in Streams, Current(s) = b
      PROVE  /\ page[s] \in 1..(PagesPerBlock - 1)
             /\ Unwritten(b) = page[s]..(PagesPerBlock - 1)
             /\ Cardinality(Unwritten(b)) = PagesPerBlock - page[s]
  <2>1. page[s] \in 1..(PagesPerBlock - 1)
    BY <1>1, <1>3, <1>7, ConstantFacts
  <2>2. \A t \in Streams : Current(t) = b => t = s
    BY <1>2, <1>7 DEF CurrentPageErased
  <2>3. Unwritten(b) = page[s]..(PagesPerBlock - 1)
    BY <1>4, <1>7, <2>2
  <2>4. Cardinality(page[s]..(PagesPerBlock - 1)) = PagesPerBlock - page[s]
    <3>1. PICK a \in 1..(PagesPerBlock - 1) : a = page[s]
      BY <2>1
    <3>2. a \in Int /\ PagesPerBlock - 1 \in Int /\ ~(a > PagesPerBlock - 1)
      BY ConstantFacts
    <3>3. Cardinality(a..(PagesPerBlock - 1)) = (PagesPerBlock - 1) - a + 1
      BY <3>2, FS_Interval
    <3>4. (PagesPerBlock - 1) - a + 1 = PagesPerBlock - a
      BY <3>2, ConstantFacts
    <3> QED BY <3>1, <3>3, <3>4
  <2> QED BY <2>1, <2>3, <2>4
<1> QED BY <1>4, <1>5, <1>6, <1>7

\* Nothing that is still to be written is valid.
LEMMA UnwrittenNotValid ==
  ASSUME Core, NEW b \in Blocks
  PROVE  Unwritten(b) \intersect valid[b] = {}
<1> USE DEF Core
<1>1. SUFFICES ASSUME NEW p \in Unwritten(b), p \in valid[b] PROVE FALSE
  OBVIOUS
<1>2. PICK s \in Streams : Current(s) = b
  BY <1>1, UnwrittenFacts
<1>3. Unwritten(b) = page[s]..(PagesPerBlock - 1) /\ b # NoBlock
  BY <1>2, UnwrittenFacts, SentinelAssumption
<1>4. v2l[b][p] = NoLPN
  BY <1>1, <1>2, <1>3 DEF CurrentPageErased
<1> QED BY <1>1, <1>4 DEF CountsMatchMapping, MappedPages

(***************************************************************************)
(* What a write leaves behind.                                              *)
(***************************************************************************)

\* A block that is being written, and holds the page the LPN was at, is not full.
LEMMA CurrentNotReleased ==
  ASSUME Core, NEW s \in Streams, NEW n \in LPN, Fresh(s) => freeList # <<>>,
         NEW t \in Streams, Current(t) # NoBlock
  PROVE  Current(t) \notin Released(s, n)
<1> USE DEF Core
<1>1. SUFFICES ASSUME Current(t) \in Released(s, n) PROVE FALSE
  OBVIOUS
<1>2. PICK b \in Blocks : b = Current(t)
  BY TypeFacts DEF Current
<1>3. b = l2v[n].block /\ InvalidAfter(s, n)[b] >= PagesPerBlock
  BY <1>1, <1>2 DEF Released
<1>4. b \in used /\ l2v[n].page \in valid[b]
  BY <1>3, OldPlace
<1>5. Fresh(s) => b # Head(freeList)
  BY <1>4, WritePlace
<1>6. InvalidAfter(s, n)[b] = invalid[b] + 1
  BY <1>3, <1>5 DEF InvalidAfter
<1>7. invalid[b] = PagesPerBlock - Cardinality(valid[b]) - Cardinality(Unwritten(b))
  BY <1>4 DEF CountsMatchMapping
<1>8. Cardinality(Unwritten(b)) \in Nat \ {0}
  BY <1>2, UnwrittenFacts, ConstantFacts, TypeFacts
<1>9. Cardinality(valid[b]) \in Nat \ {0}
  BY <1>4, TypeFacts, FS_EmptySet
<1> QED BY <1>3, <1>6, <1>7, <1>8, <1>9, ConstantFacts

\* The blocks that stay in use, and the one that does not.
LEMMA ReleasedFacts ==
  ASSUME Core, NEW s \in Streams, NEW n \in LPN, Fresh(s) => freeList # <<>>
  PROVE  /\ Released(s, n) \subseteq used
         /\ IsFiniteSet(Released(s, n))
         /\ BlockOf(s) \notin Released(s, n)
<1> USE DEF Core
<1>1. Released(s, n) \subseteq {l2v[n].block} \ {NoBlock}
  BY DEF Released
<1>2. IsFiniteSet(Released(s, n))
  BY <1>1, FS_Singleton, FS_Subset
<1>3. Released(s, n) \subseteq used
  <2>1. SUFFICES ASSUME NEW b \in Released(s, n) PROVE b \in used
    OBVIOUS
  <2>2. b = l2v[n].block /\ b \in Blocks
    BY <1>1, TypeFacts, ConstantFacts DEF NoAddress
  <2> QED BY <2>2, OldPlace
<1>4. BlockOf(s) \notin Released(s, n)
  <2>1. CASE Fresh(s)
    BY <1>3, <2>1, WritePlace
  <2>2. CASE ~Fresh(s)
    <3>1. BlockOf(s) = Current(s) /\ Current(s) # NoBlock
      BY <2>2, WritePlace, SentinelAssumption
    <3> QED BY <3>1, CurrentNotReleased
  <2> QED BY <2>1, <2>2
<1> QED BY <1>2, <1>3, <1>4

\* The streams after the write: s has gone on by a page, the others are as they were.
LEMMA StreamsAfter ==
  ASSUME Core, NEW s \in Streams, NEW n \in LPN, Write(s, n)
  PROVE  /\ slot' \in [Streams -> [0..1 -> Blocks \union {NoBlock}]]
         /\ cur' \in [Streams -> 0..1]
         /\ page' \in [Streams -> 0..PagesPerBlock]
         /\ slot'[s][cur'[s]] = BlockOf(s)
         /\ page'[s] = PageOf(s) + 1
         /\ Current(s)' = IF PageOf(s) + 1 = PagesPerBlock THEN NoBlock ELSE BlockOf(s)
         /\ \A t \in Streams \ {s} : /\ page'[t] = page[t]
                                     /\ slot'[t][cur'[t]] = slot[t][cur[t]]
                                     /\ Current(t)' = Current(t)
<1> USE DEF Core
<1>1. BlockOf(s) \in Blocks /\ PageOf(s) + 1 \in 0..PagesPerBlock
  BY WritePlace, ConstantFacts DEF Write
<1>2. SlotOf(s) \in 0..1
  BY TypeFacts DEF SlotOf
<1>3. /\ slot \in [Streams -> [0..1 -> Blocks \union {NoBlock}]]
      /\ cur \in [Streams -> 0..1]
      /\ page \in [Streams -> 0..PagesPerBlock]
  BY DEF TypeOK
<1>4. /\ slot' = [slot EXCEPT ![s][SlotOf(s)] = BlockOf(s)]
      /\ cur' = [cur EXCEPT ![s] = SlotOf(s)]
      /\ page' = [page EXCEPT ![s] = PageOf(s) + 1]
  BY DEF Write
<1> HIDE DEF Core
<1>5. /\ slot'[s][cur'[s]] = BlockOf(s) /\ page'[s] = PageOf(s) + 1
      /\ \A t \in Streams \ {s} : page'[t] = page[t] /\ slot'[t][cur'[t]] = slot[t][cur[t]]
  BY <1>2, <1>3, <1>4
<1>6. /\ slot' \in [Streams -> [0..1 -> Blocks \union {NoBlock}]]
      /\ cur' \in [Streams -> 0..1]
      /\ page' \in [Streams -> 0..PagesPerBlock]
  BY <1>1, <1>2, <1>3, <1>4
<1>7. \A t \in Streams \ {s} : Current(t)' = Current(t)
  BY <1>5 DEF Current
<1>8. Current(s)' = IF PageOf(s) + 1 = PagesPerBlock THEN NoBlock ELSE BlockOf(s)
  BY <1>5 DEF Current, Full
<1> QED BY <1>5, <1>6, <1>7, <1>8

\* The rest of the block that is written gets shorter by a page.
LEMMA UnwrittenAfter ==
  ASSUME Core, NEW s \in Streams, NEW n \in LPN, Write(s, n), NEW b \in Blocks
  PROVE  Unwritten(b)' = IF b = BlockOf(s) THEN (PageOf(s) + 1)..(PagesPerBlock - 1) ELSE Unwritten(b)
<1> USE DEF Core
<1>1. b # NoBlock /\ (Fresh(s) => freeList # <<>>)
  BY SentinelAssumption DEF Write
<1>2. PICK pg \in Pages : pg = PageOf(s)
  BY <1>1, WritePlace
<1>3. \A t \in Streams : /\ Current(t) = b <=> slot[t][cur[t]] = b /\ page[t] # Full
                         /\ Current(t)' = b <=> slot'[t][cur'[t]] = b /\ page'[t] # Full
  BY <1>1 DEF Current
<1>4. \A x : /\ x \in Unwritten(b) <=> \E t \in Streams : Current(t) = b /\ x \in page[t]..(PagesPerBlock - 1)
             /\ x \in Unwritten(b)' <=> \E t \in Streams : Current(t)' = b /\ x \in page'[t]..(PagesPerBlock - 1)
  BY <1>3 DEF Unwritten
<1>5. /\ page'[s] = pg + 1
      /\ Current(s)' = IF pg + 1 = PagesPerBlock THEN NoBlock ELSE BlockOf(s)
      /\ \A t \in Streams \ {s} : page'[t] = page[t] /\ Current(t)' = Current(t)
  BY <1>2, StreamsAfter
<1>6. CASE b = BlockOf(s)
  <2>1. \A t \in Streams \ {s} : Current(t) # b
    BY <1>1, <1>6, WritePlace
  <2>2. \A x : x \in Unwritten(b)' <=> Current(s)' = b /\ x \in (pg + 1)..(PagesPerBlock - 1)
    BY <1>4, <1>5, <2>1
  <2>3. Current(s)' # b => (pg + 1)..(PagesPerBlock - 1) = {}
    BY <1>2, <1>5, <1>6, ConstantFacts
  <2>4. Unwritten(b)' = (pg + 1)..(PagesPerBlock - 1)
    BY <2>2, <2>3
  <2> QED BY <1>2, <1>6, <2>4
<1>7. CASE b # BlockOf(s)
  <2>1. Current(s) # b
    BY <1>1, <1>7, WritePlace DEF Current, Fresh
  <2>2. Current(s)' # b
    BY <1>1, <1>5, <1>7
  <2> QED BY <1>4, <1>5, <1>7, <2>1, <2>2
<1> QED BY <1>6, <1>7

\* The page that is written becomes valid, the one the LPN was at is no longer.
LEMMA ValidPagesAfter ==
  ASSUME Core, NEW s \in Streams, NEW n \in LPN, Write(s, n), NEW b \in Blocks
  PROVE  /\ valid'[b] = (valid[b] \union (IF b = BlockOf(s) THEN {PageOf(s)} ELSE {}))
                        \ (IF b = l2v[n].block THEN {l2v[n].page} ELSE {})
         /\ valid' \in [Blocks -> SUBSET Pages]
<1> USE DEF Core
<1>1. Fresh(s) => freeList # <<>>
  BY DEF Write
<1>2. valid' = ValidAfter(s, n)
  BY DEF Write
<1>3. b = BlockOf(s) /\ PageOf(s) = 0 => valid[b] = {}
  BY <1>1, WritePlace
<1>4. valid'[b] = (valid[b] \union (IF b = BlockOf(s) THEN {PageOf(s)} ELSE {}))
                  \ (IF b = l2v[n].block THEN {l2v[n].page} ELSE {})
  BY <1>2, <1>3 DEF ValidAfter
<1>5. ValidAfter(s, n) \in [Blocks -> SUBSET Pages]
  <2>1. PageOf(s) \in Pages /\ 0 \in Pages /\ \A x \in Blocks : valid[x] \subseteq Pages
    BY <1>1, WritePlace, ConstantFacts, TypeFacts
  <2> QED BY <2>1 DEF ValidAfter
<1> QED BY <1>2, <1>4, <1>5

\* The mapping after the write, and what the pages hold.
LEMMA MappingTypesAfter ==
  ASSUME Core, NEW s \in Streams, NEW n \in LPN, Write(s, n)
  PROVE  /\ l2v' \in [LPN -> Address \union {NoAddress}]
         /\ v2l' \in [Blocks -> [Pages -> LPN \union {NoLPN}]]
<1>1. BlockOf(s) \in Blocks /\ PageOf(s) \in Pages
  BY WritePlace DEF Write
<1>2. /\ l2v \in [LPN -> Address \union {NoAddress}]
      /\ v2l \in [Blocks -> [Pages -> LPN \union {NoLPN}]]
  BY DEF Core, TypeOK
<1>3. /\ l2v' = [l2v EXCEPT ![n] = [block |-> BlockOf(s), page |-> PageOf(s)]]
      /\ v2l' = V2LAfter(s, n)
  BY DEF Write
<1>4. [block |-> BlockOf(s), page |-> PageOf(s)] \in Address
  BY <1>1 DEF Address
<1>5. l2v' \in [LPN -> Address \union {NoAddress}]
  BY <1>2, <1>3, <1>4
<1>6. V2LAfter(s, n) \in [Blocks -> [Pages -> LPN \union {NoLPN}]]
  BY <1>1, <1>2 DEF V2LAfter
<1> QED BY <1>3, <1>5, <1>6

LEMMA MappingAfter ==
  ASSUME Core, NEW s \in Streams, NEW n \in LPN, Write(s, n)
  PROVE  /\ l2v'[n] = [block |-> BlockOf(s), page |-> PageOf(s)]
         /\ \A m \in LPN : m # n => l2v'[m] = l2v[m]
<1>1. l2v \in [LPN -> Address \union {NoAddress}]
  BY DEF Core, TypeOK
<1>2. l2v' = [l2v EXCEPT ![n] = [block |-> BlockOf(s), page |-> PageOf(s)]]
  BY DEF Write
<1> QED BY <1>1, <1>2

LEMMA ContentAfter ==
  ASSUME Core, NEW s \in Streams, NEW n \in LPN, Write(s, n), NEW b \in Blocks, NEW p \in Pages
  PROVE  /\ v2l'[b][p] \in LPN \union {NoLPN}
         /\ b # BlockOf(s) => v2l'[b][p] = v2l[b][p]
         /\ b = BlockOf(s) /\ p = PageOf(s) => v2l'[b][p] = n
         /\ b = BlockOf(s) /\ p # PageOf(s) =>
              v2l'[b][p] = IF PageOf(s) = 0 THEN NoLPN ELSE v2l[b][p]
<1>1. v2l \in [Blocks -> [Pages -> LPN \union {NoLPN}]]
  BY DEF Core, TypeOK
<1>2. v2l' = V2LAfter(s, n)
  BY DEF Write
<1>3. /\ b # BlockOf(s) => V2LAfter(s, n)[b] = v2l[b]
      /\ b = BlockOf(s) => V2LAfter(s, n)[b] =
           [q \in Pages |-> IF q = PageOf(s) THEN n
                            ELSE IF PageOf(s) = 0 THEN NoLPN ELSE v2l[b][q]]
  BY <1>1 DEF V2LAfter
<1>4. v2l'[b][p] \in LPN \union {NoLPN}
  BY MappingTypesAfter
<1> QED BY <1>2, <1>3, <1>4

\* The other pages of the block that is written are kept, unless it was erased, and
\* then nothing was mapped to them.
LEMMA OthersKept ==
  ASSUME Core, NEW s \in Streams, NEW n \in LPN, Write(s, n), NEW m \in LPN \ {n},
         NEW b \in Blocks, NEW p \in Pages, l2v[m] = [block |-> b, page |-> p]
  PROVE  v2l[b][p] = m /\ v2l'[b][p] = m
<1>1. Fresh(s) => freeList # <<>>
  BY DEF Write
<1>2. b = l2v[m].block /\ p = l2v[m].page
  OBVIOUS
<1>3. v2l[b][p] = m /\ p \in valid[b] /\ m # NoLPN
  BY <1>2, OldPlace, SentinelAssumption
<1>4. CASE b # BlockOf(s)
  BY <1>3, <1>4, ContentAfter
<1>5. CASE b = BlockOf(s)
  <2>1. p # PageOf(s) /\ PageOf(s) # 0
    BY <1>1, <1>3, <1>5, WritePlace
  <2> QED BY <1>3, <1>5, <2>1, ContentAfter
<1> QED BY <1>4, <1>5

LEMMA InverseAfter ==
  ASSUME Core, NEW s \in Streams, NEW n \in LPN, Write(s, n)
  PROVE  MappingInverse'
<1>1. BlockOf(s) \in Blocks /\ PageOf(s) \in Pages
  BY WritePlace DEF Write
<1>2. SUFFICES ASSUME NEW m \in LPN, l2v'[m] # NoAddress
               PROVE  v2l'[l2v'[m].block][l2v'[m].page] = m
  BY DEF MappingInverse
<1>3. CASE m = n
  <2>1. PICK b \in Blocks, p \in Pages : b = BlockOf(s) /\ p = PageOf(s)
    BY <1>1
  <2>2. v2l'[b][p] = n
    BY <2>1, ContentAfter
  <2>3. l2v'[n] = [block |-> BlockOf(s), page |-> PageOf(s)]
    BY MappingAfter
  <2>4. l2v'[n].block = b /\ l2v'[n].page = p
    BY <2>1, <2>3
  <2> QED BY <1>3, <2>2, <2>4
<1>4. CASE m # n
  <2>1. l2v'[m] = l2v[m] /\ l2v[m] \in Address
    BY <1>2, <1>4, MappingAfter, TypeFacts DEF Core
  <2>2. PICK b \in Blocks, p \in Pages : l2v[m] = [block |-> b, page |-> p]
    BY <2>1 DEF Address
  <2> QED BY <1>4, <2>1, <2>2, OthersKept
<1> QED BY <1>3, <1>4

LEMMA MappedAfter ==
  ASSUME Core, NEW s \in Streams, NEW n \in LPN, Write(s, n), NEW b \in Blocks
  PROVE  valid'[b] = MappedPages(b)'
<1>1. /\ BlockOf(s) \in Blocks /\ PageOf(s) \in Pages
      /\ Fresh(s) => freeList # <<>>
  BY WritePlace DEF Write
<1>2. n # NoLPN
  BY SentinelAssumption
<1>3. valid'[b] \subseteq Pages
  BY ValidPagesAfter
<1>4. \A p \in Pages : p \in MappedPages(b)' <=>
        v2l'[b][p] # NoLPN /\ l2v'[v2l'[b][p]] = [block |-> b, page |-> p]
  BY DEF MappedPages
<1>5. \A p \in Pages : p \in valid[b] <=> v2l[b][p] # NoLPN /\ l2v[v2l[b][p]] = [block |-> b, page |-> p]
  BY DEF Core, CountsMatchMapping, MappedPages
<1>6. ASSUME NEW p \in Pages, v2l'[b][p] # NoLPN, l2v'[v2l'[b][p]] = [block |-> b, page |-> p]
      PROVE  p \in valid'[b]
  <2>1. PICK m \in LPN : m = v2l'[b][p]
    BY <1>6, ContentAfter
  <2>2. CASE m = n
    <3>1. b = BlockOf(s) /\ p = PageOf(s)
      <4>1. l2v'[n] = [block |-> BlockOf(s), page |-> PageOf(s)]
        BY MappingAfter
      <4>2. l2v'[n] = [block |-> b, page |-> p]
        BY <1>6, <2>1, <2>2
      <4> QED BY <4>1, <4>2
    <3>2. ~(b = l2v[n].block /\ p = l2v[n].page)
      <4>1. p \notin valid[b]
        BY <1>1, <3>1, WritePlace
      <4> QED BY <4>1, OldPlace
    <3> QED BY <3>1, <3>2, ValidPagesAfter
  <2>3. CASE m # n
    <3>1. l2v[m] = [block |-> b, page |-> p]
      BY <1>6, <2>1, <2>3, MappingAfter
    <3>2. v2l[b][p] = m
      BY <2>3, <3>1, OthersKept
    <3>3. p \in valid[b]
      BY <1>5, <1>6, <2>1, <3>1, <3>2
    <3>4. ~(b = l2v[n].block /\ p = l2v[n].page)
      BY <2>3, <3>2, OldPlace
    <3> QED BY <3>3, <3>4, ValidPagesAfter
  <2> QED BY <2>2, <2>3
<1>7. ASSUME NEW p \in Pages, p \in valid'[b]
      PROVE  v2l'[b][p] # NoLPN /\ l2v'[v2l'[b][p]] = [block |-> b, page |-> p]
  <2>1. CASE b = BlockOf(s) /\ p = PageOf(s)
    BY <1>2, <2>1, ContentAfter, MappingAfter
  <2>2. CASE ~(b = BlockOf(s) /\ p = PageOf(s))
    <3>1. p \in valid[b] /\ ~(b = l2v[n].block /\ p = l2v[n].page)
      BY <1>7, <2>2, ValidPagesAfter
    <3>2. PICK m \in LPN : m = v2l[b][p]
      BY <1>5, <3>1, TypeFacts DEF Core
    <3>3. l2v[m] = [block |-> b, page |-> p]
      BY <1>5, <3>1, <3>2
    <3>4. m # n /\ m # NoLPN
      BY <3>1, <3>3, SentinelAssumption
    <3>5. v2l'[b][p] = m /\ l2v'[m] = l2v[m]
      BY <3>3, <3>4, OthersKept, MappingAfter
    <3> QED BY <3>3, <3>4, <3>5
  <2> QED BY <2>1, <2>2
<1> QED BY <1>3, <1>4, <1>6, <1>7 DEF MappedPages

\* The free and the used blocks after the write.
LEMMA ListsAfter ==
  ASSUME Core, NEW s \in Streams, NEW n \in LPN, Write(s, n)
  PROVE  /\ freeList' \in Seq(Blocks)
         /\ used' = (used \union {BlockOf(s)}) \ Released(s, n)
         /\ used' \subseteq Blocks
         /\ ListsPartition'
<1> USE DEF Core
<1> DEFINE kept == IF Fresh(s) THEN Tail(freeList) ELSE freeList
           R == Released(s, n)
<1>1. /\ Fresh(s) => freeList # <<>>
      /\ freeList' = kept \o SetToSeq(R)
      /\ used' = (used \union {BlockOf(s)}) \ R
  BY DEF Write, FreeAfter, UsedAfter
<1>2. R \subseteq used /\ IsFiniteSet(R) /\ BlockOf(s) \notin R
  BY <1>1, ReleasedFacts
<1>3. /\ freeList \in Seq(Blocks) /\ Injective(freeList) /\ used \subseteq Blocks
      /\ ToSet(freeList) \intersect used = {} /\ ToSet(freeList) \union used = Blocks
  BY DEF TypeOK, ListsPartition, IsInjective, Injective
<1>4. /\ kept \in Seq(Blocks) /\ Injective(kept)
      /\ ToSet(kept) = ToSet(freeList) \ {BlockOf(s)}
  <2>1. CASE Fresh(s)
    BY <1>1, <1>3, <2>1, TailFacts, WritePlace
  <2>2. CASE ~Fresh(s)
    <3>1. BlockOf(s) \in used
      BY <2>2, WritePlace
    <3> QED BY <1>3, <2>2, <3>1
  <2> QED BY <2>1, <2>2
<1>5. /\ SetToSeq(R) \in Seq(Blocks) /\ ToSet(SetToSeq(R)) = R /\ Injective(SetToSeq(R))
  <2>1. SetToSeq(R) \in Seq(R) /\ ToSet(SetToSeq(R)) = R /\ Injective(SetToSeq(R))
    BY <1>2, SetToSeqFacts
  <2> QED BY <1>2, <1>3, <2>1
<1> HIDE DEF kept, R
<1>6. ToSet(kept) \intersect ToSet(SetToSeq(R)) = {}
  BY <1>2, <1>3, <1>4, <1>5
<1>7. /\ freeList' \in Seq(Blocks) /\ Injective(freeList')
      /\ ToSet(freeList') = ToSet(kept) \union R
  BY <1>1, <1>4, <1>5, <1>6, ConcatSet, ConcatInjective
<1>8. BlockOf(s) \in Blocks
  BY <1>1, WritePlace
<1>9. IsInjective(freeList')
  BY <1>7 DEF IsInjective, Injective
<1>10. /\ ToSet(freeList') \intersect used' = {}
       /\ ToSet(freeList') \union used' = Blocks
  BY <1>1, <1>2, <1>3, <1>4, <1>7, <1>8
<1> QED BY <1>1, <1>3, <1>7, <1>8, <1>9, <1>10 DEF ListsPartition, R

\* The sizes of the sets the counts are compared with.
LEMMA SizesAfter ==
  ASSUME Core, NEW s \in Streams, NEW n \in LPN, Write(s, n), NEW b \in Blocks,
         NEW pg \in Pages, pg = PageOf(s)
  PROVE  /\ Cardinality(valid'[b]) \in Nat /\ IsFiniteSet(valid'[b])
         /\ b = BlockOf(s) /\ Fresh(s) => Cardinality(valid'[b]) = 1
         /\ b = BlockOf(s) /\ ~Fresh(s) =>
              Cardinality(valid'[b]) = Cardinality(valid[b]) + (IF b = l2v[n].block THEN 0 ELSE 1)
         /\ b # BlockOf(s) =>
              Cardinality(valid'[b]) = Cardinality(valid[b]) - (IF b = l2v[n].block THEN 1 ELSE 0)
         /\ b = BlockOf(s) => Cardinality(Unwritten(b)') = PagesPerBlock - pg - 1
         /\ b = BlockOf(s) /\ ~Fresh(s) => Cardinality(Unwritten(b)) = PagesPerBlock - pg
         /\ b # BlockOf(s) => Unwritten(b)' = Unwritten(b)
<1>1. Fresh(s) => freeList # <<>>
  BY DEF Write
<1>2. PICK V \in SUBSET Pages : V = valid[b]
  BY TypeFacts DEF Core
<1>3. IsFiniteSet(V) /\ Cardinality(V) \in Nat
  BY <1>2, TypeFacts DEF Core
<1>4. valid'[b] = (V \union (IF b = BlockOf(s) THEN {pg} ELSE {}))
                  \ (IF b = l2v[n].block THEN {l2v[n].page} ELSE {})
  BY <1>2, ValidPagesAfter
<1>5. b = BlockOf(s) => pg \notin V
  BY <1>1, <1>2, WritePlace
<1>6. b = l2v[n].block => l2v[n].page \in V
  BY <1>2, OldPlace
<1>7. b = BlockOf(s) /\ Fresh(s) => valid'[b] = {pg}
  <2>1. b = BlockOf(s) /\ Fresh(s) => V = {} /\ b # l2v[n].block
    BY <1>1, <1>2, <1>6, WritePlace
  <2> QED BY <1>4, <2>1
<1>8. /\ IsFiniteSet(V \union {pg})
      /\ pg \notin V => Cardinality(V \union {pg}) = Cardinality(V) + 1
  BY <1>3, FS_AddElement
<1>9. ASSUME NEW W, IsFiniteSet(W), NEW x \in W
      PROVE  IsFiniteSet(W \ {x}) /\ Cardinality(W \ {x}) = Cardinality(W) - 1
  BY <1>9, FS_RemoveElement
<1>10. b = BlockOf(s) /\ ~Fresh(s) =>
         /\ IsFiniteSet(valid'[b])
         /\ Cardinality(valid'[b]) = Cardinality(V) + (IF b = l2v[n].block THEN 0 ELSE 1)
  <2>1. CASE b = l2v[n].block
    <3>1. l2v[n].page \in V \union {pg}
      BY <1>6, <2>1
    <3>2. /\ IsFiniteSet((V \union {pg}) \ {l2v[n].page})
          /\ Cardinality((V \union {pg}) \ {l2v[n].page}) = Cardinality(V \union {pg}) - 1
      BY <1>8, <1>9, <3>1
    <3> QED BY <1>3, <1>4, <1>5, <1>8, <2>1, <3>2
  <2>2. CASE b # l2v[n].block
    BY <1>3, <1>4, <1>5, <1>8, <2>2
  <2> QED BY <2>1, <2>2
<1>11. b # BlockOf(s) =>
         /\ IsFiniteSet(valid'[b])
         /\ Cardinality(valid'[b]) = Cardinality(V) - (IF b = l2v[n].block THEN 1 ELSE 0)
  <2>1. CASE b = l2v[n].block
    <3>1. IsFiniteSet(V \ {l2v[n].page}) /\ Cardinality(V \ {l2v[n].page}) = Cardinality(V) - 1
      BY <1>3, <1>6, <1>9, <2>1
    <3> QED BY <1>3, <1>4, <2>1, <3>1
  <2>2. CASE b # l2v[n].block
    BY <1>3, <1>4, <2>2
  <2> QED BY <2>1, <2>2
<1>12. IsFiniteSet({pg}) /\ Cardinality({pg}) = 1
  BY FS_Singleton
<1>13. IsFiniteSet(valid'[b]) /\ Cardinality(valid'[b]) \in Nat
  <2>1. IsFiniteSet(valid'[b])
    BY <1>7, <1>10, <1>11, <1>12
  <2> QED BY <2>1, FS_CardinalityType
<1>14. b = BlockOf(s) => Cardinality(Unwritten(b)') = PagesPerBlock - pg - 1
  <2>1. pg + 1 \in Int /\ PagesPerBlock - 1 \in Int /\ pg + 1 <= PagesPerBlock
    BY ConstantFacts
  <2>2. Cardinality((pg + 1)..(PagesPerBlock - 1)) =
          IF pg + 1 > PagesPerBlock - 1 THEN 0 ELSE (PagesPerBlock - 1) - (pg + 1) + 1
    BY <2>1, FS_Interval
  <2>3. Cardinality((pg + 1)..(PagesPerBlock - 1)) = PagesPerBlock - pg - 1
    BY <2>1, <2>2, ConstantFacts
  <2> QED BY <2>3, UnwrittenAfter
<1>15. b = BlockOf(s) /\ ~Fresh(s) => Cardinality(Unwritten(b)) = PagesPerBlock - pg
  BY <1>1, WritePlace, UnwrittenFacts DEF Core
<1>16. b # BlockOf(s) => Unwritten(b)' = Unwritten(b)
  BY UnwrittenAfter
<1> QED BY <1>2, <1>7, <1>10, <1>11, <1>12, <1>13, <1>14, <1>15, <1>16

LEMMA CountsAfter ==
  ASSUME Core, NEW s \in Streams, NEW n \in LPN, Write(s, n)
  PROVE  invalid' \in [Blocks -> 0..PagesPerBlock] /\ CountsMatchMapping'
<1>1. /\ Fresh(s) => freeList # <<>>
      /\ used' = (used \union {BlockOf(s)}) \ Released(s, n)
      /\ invalid' = InvalidAfter(s, n)
  BY DEF Write, UsedAfter
<1>2. PICK pg \in Pages : pg = PageOf(s)
  BY <1>1, WritePlace
<1>3. PagesPerBlock \in Nat \ {0} /\ pg \in Nat /\ pg + 1 <= PagesPerBlock
  BY ConstantFacts
<1>4. \A b \in Blocks : invalid[b] \in 0..PagesPerBlock
  BY TypeFacts DEF Core
<1>5. \A b \in Blocks : invalid'[b] = (IF Fresh(s) /\ b = BlockOf(s) THEN 0 ELSE invalid[b])
                                       + (IF b = l2v[n].block THEN 1 ELSE 0)
  BY <1>1, WritePlace DEF InvalidAfter
<1>6. ASSUME NEW b \in Blocks, b \in used \union {BlockOf(s)}
      PROVE  /\ invalid'[b] \in Nat
             /\ invalid'[b] = PagesPerBlock - Cardinality(valid'[b]) - Cardinality(Unwritten(b)')
             /\ b # l2v[n].block => invalid'[b] < PagesPerBlock
             /\ b = l2v[n].block => invalid'[b] <= PagesPerBlock
  <2>1. b \in used =>
          /\ invalid[b] = PagesPerBlock - Cardinality(valid[b]) - Cardinality(Unwritten(b))
          /\ invalid[b] < PagesPerBlock
    BY DEF Core, CountsMatchMapping
  <2>2. Cardinality(valid[b]) \in Nat /\ Cardinality(Unwritten(b)) \in Nat
    BY TypeFacts, UnwrittenFacts DEF Core
  <2>3. CASE b = BlockOf(s) /\ Fresh(s)
    <3>1. b # l2v[n].block
      BY <1>1, <2>3, OldPlace, WritePlace
    <3>2. invalid'[b] = 0
      BY <1>5, <2>3, <3>1
    <3>3. pg = 0
      BY <1>1, <1>2, <2>3, WritePlace
    <3>4. Cardinality(valid'[b]) = 1 /\ Cardinality(Unwritten(b)') = PagesPerBlock - pg - 1
      BY <1>2, <2>3, SizesAfter
    <3> QED BY <1>3, <3>1, <3>2, <3>3, <3>4
  <2>4. CASE b = BlockOf(s) /\ ~Fresh(s)
    <3>1. b \in used
      BY <1>1, <2>4, WritePlace
    <3>2. invalid'[b] = invalid[b] + (IF b = l2v[n].block THEN 1 ELSE 0)
      BY <1>4, <1>5, <2>4
    <3>3. /\ Cardinality(valid'[b]) = Cardinality(valid[b]) + (IF b = l2v[n].block THEN 0 ELSE 1)
          /\ Cardinality(Unwritten(b)') = PagesPerBlock - pg - 1
          /\ Cardinality(Unwritten(b)) = PagesPerBlock - pg
      BY <1>2, <2>4, SizesAfter
    <3> QED BY <1>3, <1>4, <2>1, <2>2, <3>1, <3>2, <3>3
  <2>5. CASE b # BlockOf(s)
    <3>1. b \in used
      BY <1>6, <2>5
    <3>2. invalid'[b] = invalid[b] + (IF b = l2v[n].block THEN 1 ELSE 0)
      BY <1>4, <1>5, <2>5
    <3>3. /\ Cardinality(valid'[b]) = Cardinality(valid[b]) - (IF b = l2v[n].block THEN 1 ELSE 0)
          /\ Unwritten(b)' = Unwritten(b)
      BY <1>2, <2>5, SizesAfter
    <3> QED BY <1>3, <1>4, <2>1, <2>2, <3>1, <3>2, <3>3
  <2> QED BY <2>3, <2>4, <2>5
<1>7. ASSUME NEW b \in Blocks, b \notin used \union {BlockOf(s)}
      PROVE  invalid'[b] = invalid[b] /\ valid'[b] = {}
  <2>1. b # l2v[n].block
    BY <1>7, OldPlace
  <2>2. valid[b] = {}
    BY <1>7 DEF Core, CountsMatchMapping
  <2> QED BY <1>4, <1>5, <1>7, <2>1, <2>2, ValidPagesAfter
<1>8. \A b \in Blocks : invalid'[b] \in 0..PagesPerBlock
  BY <1>3, <1>4, <1>6, <1>7
<1>9. invalid' \in [Blocks -> 0..PagesPerBlock]
  <2>1. DOMAIN invalid' = Blocks /\ invalid' = [b \in Blocks |-> invalid'[b]]
    BY <1>1 DEF InvalidAfter
  <2> QED BY <1>8, <2>1
<1>10. ASSUME NEW b \in Blocks, b \in used'
       PROVE  /\ invalid'[b] = PagesPerBlock - Cardinality(valid'[b]) - Cardinality(Unwritten(b)')
              /\ invalid'[b] < PagesPerBlock
  <2>1. b \in used \union {BlockOf(s)} /\ b \notin Released(s, n)
    BY <1>1, <1>10
  <2>2. CASE b = l2v[n].block
    <3>1. ~(invalid'[b] >= PagesPerBlock)
      BY <1>1, <2>1, <2>2, SentinelAssumption DEF Released
    <3> QED BY <1>3, <1>6, <2>1, <3>1
  <2>3. CASE b # l2v[n].block
    BY <1>6, <2>1, <2>3
  <2> QED BY <2>2, <2>3
<1>11. ASSUME NEW b \in Blocks, b \notin used' PROVE valid'[b] = {}
  <2>1. CASE b \in used \union {BlockOf(s)}
    <3>1. b \in Released(s, n)
      BY <1>1, <1>11, <2>1
    <3>2. invalid'[b] >= PagesPerBlock
      BY <1>1, <3>1 DEF Released
    <3>3. b # BlockOf(s)
      BY <1>1, <3>1, ReleasedFacts
    <3>4. /\ invalid'[b] = PagesPerBlock - Cardinality(valid'[b]) - Cardinality(Unwritten(b)')
          /\ invalid'[b] \in Nat
      BY <1>6, <2>1
    <3>5. /\ Cardinality(valid'[b]) \in Nat /\ IsFiniteSet(valid'[b])
          /\ Unwritten(b)' = Unwritten(b)
      BY <1>2, <3>3, SizesAfter
    <3>6. Cardinality(Unwritten(b)) \in Nat
      BY UnwrittenFacts DEF Core
    <3>7. Cardinality(valid'[b]) = 0
      BY <1>3, <3>2, <3>4, <3>5, <3>6
    <3> QED BY <3>5, <3>7, FS_EmptySet
  <2>2. CASE b \notin used \union {BlockOf(s)}
    BY <1>7, <2>2
  <2> QED BY <2>1, <2>2
<1>12. \A b \in Blocks : valid'[b] = MappedPages(b)'
  BY MappedAfter
<1> QED BY <1>9, <1>10, <1>11, <1>12 DEF CountsMatchMapping

\* The page that each stream writes next is erased.
LEMMA ErasedAfter ==
  ASSUME Core, NEW s \in Streams, NEW n \in LPN, Write(s, n)
  PROVE  CurrentPageErased'
<1>1. /\ Fresh(s) => freeList # <<>>
      /\ used' = (used \union {BlockOf(s)}) \ Released(s, n)
  BY DEF Write, UsedAfter
<1>2. PICK pg \in Pages : pg = PageOf(s)
  BY <1>1, WritePlace
<1>3. PICK B \in Blocks : B = BlockOf(s)
  BY <1>1, WritePlace
<1>4. /\ page'[s] = pg + 1
      /\ Current(s)' = IF pg + 1 = PagesPerBlock THEN NoBlock ELSE B
      /\ \A t \in Streams \ {s} : page'[t] = page[t] /\ Current(t)' = Current(t)
  BY <1>2, <1>3, StreamsAfter
<1>5. B \in used' /\ \A t \in Streams \ {s} : Current(t) # B
  BY <1>1, <1>3, WritePlace, ReleasedFacts
<1>6. ASSUME NEW p \in (pg + 1)..(PagesPerBlock - 1)
      PROVE  v2l'[B][p] = NoLPN
  <2>1. p \in Pages /\ p # pg
    BY <1>6, ConstantFacts DEF Pages
  <2>2. v2l'[B][p] = IF pg = 0 THEN NoLPN ELSE v2l[B][p]
    BY <1>2, <1>3, <2>1, ContentAfter
  <2>3. CASE pg # 0
    <3>1. B = Current(s) /\ page[s] = pg /\ B # NoBlock
      BY <1>1, <1>2, <1>3, <2>3, WritePlace, SentinelAssumption
    <3>2. p \in page[s]..(PagesPerBlock - 1)
      BY <1>6, <3>1, ConstantFacts
    <3> QED BY <2>2, <2>3, <3>1, <3>2 DEF Core, CurrentPageErased
  <2> QED BY <2>2, <2>3
<1>7. ASSUME NEW t \in Streams \ {s}, Current(t) # NoBlock
      PROVE  /\ Current(t) \in used'
             /\ \A p \in page[t]..(PagesPerBlock - 1) : v2l'[Current(t)][p] = NoLPN
             /\ \A u \in Streams \ {t} : Current(u)' # Current(t)
  <2>1. PICK b \in Blocks : b = Current(t)
    BY <1>7, TypeFacts DEF Current, Core
  <2>2. b \in used /\ \A p \in page[t]..(PagesPerBlock - 1) : v2l[b][p] = NoLPN
    BY <1>7, <2>1 DEF Core, CurrentPageErased
  <2>3. b \in used'
    BY <1>1, <1>7, <2>1, <2>2, CurrentNotReleased
  <2>4. b # B
    BY <1>5, <2>1
  <2>5. page[t]..(PagesPerBlock - 1) \subseteq Pages
    BY <1>7, TypeFacts, ConstantFacts DEF Core, Pages
  <2>6. \A p \in page[t]..(PagesPerBlock - 1) : v2l'[b][p] = NoLPN
    BY <1>3, <2>2, <2>4, <2>5, ContentAfter
  <2>7. \A u \in Streams \ {t} : Current(u)' # b
    <3>1. \A u \in Streams \ {t} : Current(u) # b
      BY <1>7, <2>1 DEF Core, CurrentPageErased
    <3>2. b # NoBlock
      BY SentinelAssumption
    <3> QED BY <1>4, <2>4, <3>1, <3>2
  <2> QED BY <2>1, <2>3, <2>6, <2>7
<1>8. ASSUME NEW t \in Streams, Current(t)' # NoBlock
      PROVE  /\ Current(t)' \in used'
             /\ \A p \in page'[t]..(PagesPerBlock - 1) : v2l'[Current(t)'][p] = NoLPN
             /\ \A u \in Streams \ {t} : Current(u)' # Current(t)'
  <2>1. CASE t = s
    BY <1>4, <1>5, <1>6, <1>8, <2>1
  <2>2. CASE t # s
    BY <1>4, <1>7, <1>8, <2>2
  <2> QED BY <2>1, <2>2
<1> QED BY <1>8 DEF CurrentPageErased

\* The types of what a write changes.
WriteTypes ==
  /\ freeList \in Seq(Blocks)
  /\ used \subseteq Blocks
  /\ active \in [Blocks -> BOOLEAN]
  /\ invalid \in [Blocks -> 0..PagesPerBlock]
  /\ v2l \in [Blocks -> [Pages -> LPN \union {NoLPN}]]
  /\ valid \in [Blocks -> SUBSET Pages]
  /\ l2v \in [LPN -> Address \union {NoAddress}]
  /\ slot \in [Streams -> [0..1 -> Blocks \union {NoBlock}]]
  /\ cur \in [Streams -> 0..1]
  /\ page \in [Streams -> 0..PagesPerBlock]

LEMMA WriteKeepsCore ==
  ASSUME Core, NEW s \in Streams, NEW n \in LPN, Write(s, n), WriteTypes' => TypeOK'
  PROVE  Core'
<1>1. active' \in [Blocks -> BOOLEAN]
  <2>1. active' = ActiveAfter(s)
    BY DEF Write
  <2>2. active \in [Blocks -> BOOLEAN]
    BY DEF Core, TypeOK
  <2>3. CASE Fresh(s)
    <3>1. active' = [b \in Blocks |-> b = Head(freeList) \/ (active[b] /\ b # slot[s][1 - cur[s]])]
      BY <2>1, <2>3 DEF ActiveAfter
    <3>2. \A b \in Blocks : (b = Head(freeList) \/ (active[b] /\ b # slot[s][1 - cur[s]])) \in BOOLEAN
      OBVIOUS
    <3> QED BY <3>1, <3>2, Zenon
  <2>4. CASE ~Fresh(s)
    BY <2>1, <2>2, <2>4 DEF ActiveAfter
  <2> QED BY <2>3, <2>4
<1>2. BlockOf(s) \in Blocks /\ PageOf(s) \in Pages
  BY WritePlace DEF Write
<1>3. WriteTypes'
  <2>1. PICK b \in Blocks : b = BlockOf(s)
    BY <1>2
  <2>2. valid' \in [Blocks -> SUBSET Pages]
    BY <2>1, ValidPagesAfter
  <2> QED BY <1>1, <2>2, ListsAfter, CountsAfter, MappingTypesAfter, StreamsAfter DEF WriteTypes
<1>4. PageStarted'
  <2>1. /\ slot'[s][cur'[s]] = BlockOf(s) /\ page'[s] = PageOf(s) + 1
        /\ \A t \in Streams \ {s} : page'[t] = page[t] /\ slot'[t][cur'[t]] = slot[t][cur[t]]
    BY StreamsAfter
  <2>2. PageOf(s) + 1 # 0 /\ BlockOf(s) # NoBlock
    BY <1>2, ConstantFacts, SentinelAssumption
  <2> QED BY <2>1, <2>2 DEF Core, PageStarted
<1> QED BY <1>3, <1>4, ListsAfter, CountsAfter, ErasedAfter, InverseAfter DEF Core

\* A page that is being read stays as it is.
LEMMA WriteKeepsReads ==
  ASSUME Core, ReadKnown, NEW s \in Streams, NEW n \in LPN, Write(s, n),
         NEW c \in copies, c.status = "READ"
  PROVE  v2l'[c.from.block][c.from.page] # NoLPN
<1>1. v2l[c.from.block][c.from.page] # NoLPN
  BY DEF ReadKnown
<1>2. PICK b \in Blocks, p \in Pages : b = c.from.block /\ p = c.from.page
  BY DEF Core, TypeOK, Copy, Address
<1>3. CASE b # BlockOf(s)
  BY <1>1, <1>2, <1>3, ContentAfter
<1>4. CASE b = BlockOf(s) /\ p = PageOf(s)
  BY <1>2, <1>4, ContentAfter, SentinelAssumption
<1>5. CASE b = BlockOf(s) /\ p # PageOf(s)
  <2>1. ~Fresh(s)
    BY <1>2, <1>5 DEF Write, BeingRead, BlockOf
  <2>2. PageOf(s) # 0
    BY <2>1, WritePlace
  <2> QED BY <1>1, <1>2, <1>5, <2>2, ContentAfter
<1> QED BY <1>3, <1>4, <1>5

(***************************************************************************)
(* Steps that write nothing.                                                *)
(***************************************************************************)

LEMMA CoreFrame ==
  ASSUME Core, UNCHANGED <<blockVars, pageVars, slotVars>>, TypeOK'
  PROVE  /\ Core'
         /\ \A b \in Blocks : Unwritten(b)' = Unwritten(b)
<1>1. UNCHANGED <<freeList, used, invalid, v2l, valid, l2v, slot, cur, page>>
  BY DEF blockVars, pageVars, slotVars
<1>2. PageStarted' /\ MappingInverse' /\ ListsPartition'
  BY <1>1 DEF Core, PageStarted, MappingInverse, ListsPartition
<1>3. CurrentPageErased'
  BY <1>1 DEF Core, CurrentPageErased, Current
<1>4. \A b \in Blocks : Unwritten(b)' = Unwritten(b)
  BY <1>1 DEF Unwritten
<1>5. \A b \in Blocks : MappedPages(b)' = MappedPages(b)
  BY <1>1 DEF MappedPages
<1>6. CountsMatchMapping'
  BY <1>1, <1>4, <1>5 DEF Core, CountsMatchMapping
<1> QED BY <1>2, <1>3, <1>4, <1>6 DEF Core

\* The pages ahead of the collector.
LEMMA AheadFacts ==
  ASSUME Core
  PROVE  /\ IsFiniteSet(Ahead) /\ Cardinality(Ahead) \in Nat
         /\ IsFiniteSet(ToRead) /\ Cardinality(ToRead) <= Cardinality(Ahead)
         /\ Cardinality(ToRead) \in Nat
         /\ ToRead \subseteq Pages
<1>1. GCRunning => victim \in Blocks
  BY DEF Core, TypeOK, GCRunning
<1>2. Ahead \subseteq Pages
  BY <1>1, TypeFacts, UnwrittenFacts DEF Ahead, Core
<1>3. ToRead \subseteq Ahead
  BY DEF ToRead, Ahead
<1>4. IsFiniteSet(Ahead)
  BY <1>2, ConstantFacts, FS_Subset
<1>5. IsFiniteSet(ToRead) /\ Cardinality(ToRead) <= Cardinality(Ahead)
  BY <1>3, <1>4, FS_Subset
<1> QED BY <1>2, <1>3, <1>4, <1>5, FS_CardinalityType

\* Fewer pages are ahead if fewer are valid or unwritten, or the collector has passed
\* more of them.
LEMMA AheadShrinks ==
  ASSUME Core, Core', victim' = victim, readOffset' >= readOffset,
         GCRunning => valid'[victim] \union Unwritten(victim)' \subseteq valid[victim] \union Unwritten(victim)
  PROVE  Ahead' \subseteq Ahead /\ Cardinality(Ahead') <= Cardinality(Ahead) /\ Cardinality(Ahead') \in Nat
<1>1. PICK v \in Blocks \union {NoBlock} : v = victim
  BY DEF Core, TypeOK
<1>2. v # NoBlock => v \in Blocks
  OBVIOUS
<1>3. readOffset \in Nat /\ readOffset' \in Nat
  BY ConstantFacts DEF Core, TypeOK
<1>4. /\ Ahead = IF v # NoBlock THEN {p \in valid[v] \union Unwritten(v) : p >= readOffset} ELSE {}
      /\ Ahead' = IF v # NoBlock THEN {p \in valid'[v] \union Unwritten(v)' : p >= readOffset'} ELSE {}
  BY <1>1 DEF Ahead, GCRunning
<1>5. v # NoBlock => valid[v] \union Unwritten(v) \subseteq Nat
  BY <1>2, TypeFacts, UnwrittenFacts, ConstantFacts DEF Core
<1>6. v # NoBlock => valid'[v] \union Unwritten(v)' \subseteq valid[v] \union Unwritten(v)
  BY <1>1 DEF GCRunning
<1>7. Ahead' \subseteq Ahead
  BY <1>3, <1>4, <1>5, <1>6
<1>8. IsFiniteSet(Ahead)
  BY AheadFacts
<1>9. IsFiniteSet(Ahead') /\ Cardinality(Ahead') <= Cardinality(Ahead)
  BY <1>7, <1>8, FS_Subset
<1> QED BY <1>7, <1>9, FS_CardinalityType

LEMMA MinFacts ==
  ASSUME NEW S, S \subseteq Nat, S # {}
  PROVE  Min(S) \in S /\ \A x \in S : Min(S) <= x
BY LeastPosition DEF Min

\* Only the turn of the loop goes on.
LEMMA TurnFrame ==
  ASSUME IInv, UNCHANGED <<blockVars, pageVars, slotVars, gcVars, copies>>, TypeOK'
  PROVE  IInv'
<1>1. Core' /\ \A b \in Blocks : Unwritten(b)' = Unwritten(b)
  BY CoreFrame DEF IInv
<1>2. UNCHANGED <<v2l, valid, victim, readOffset, vpc, writeCount, copies>>
  BY DEF pageVars, gcVars
<1>3. IsFiniteSet(copies') /\ ReadKnown'
  BY <1>2 DEF IInv, ReadKnown
<1>4. ASSUME ~Meta PROVE UserInv'
  <2>1. UserInv
    BY <1>4 DEF IInv
  <2>2. CopyIsCurrent' /\ CopyKnowsLPN' /\ CopiesOfVictim'
    BY <1>2, <2>1 DEF UserInv, CopyIsCurrent, CopyKnowsLPN, CopiesOfVictim
  <2>3. Ahead' = Ahead
    <3>1. GCRunning => victim \in Blocks
      BY DEF IInv, Core, TypeOK, GCRunning
    <3> QED BY <1>1, <1>2, <3>1 DEF Ahead, GCRunning
  <2>4. PagesCounted'
    BY <1>2, <2>1, <2>3 DEF UserInv, PagesCounted, GCRunning
  <2> QED BY <2>2, <2>4 DEF UserInv
<1> QED BY <1>1, <1>3, <1>4 DEF IInv

(***************************************************************************)
(* The requests of the collector.                                           *)
(***************************************************************************)

\* What is known of a copy.
LEMMA CopyFacts ==
  ASSUME IInv, NEW c \in copies
  PROVE  /\ c.from \in Address /\ c.from.block \in Blocks /\ c.from.page \in Pages
         /\ c.status \in {"READ", "WRITE_WAIT", "WRITE_DONE"}
         /\ c.lpn \in LPN \union {NoLPN}
         /\ c.status = "READ" <=> c.lpn = NoLPN
         /\ c = [from |-> c.from, lpn |-> c.lpn, status |-> c.status]
BY DEF IInv, Core, TypeOK, Copy, Address

\* As many copies are on their way after a step of one of them.
LEMMA ReplaceCopy ==
  ASSUME IInv, NEW c \in copies, NEW d, copies' = (copies \ {c}) \union {d}
  PROVE  /\ IsFiniteSet(copies')
         /\ Cardinality(copies) \in Nat \ {0}
         /\ Cardinality(copies') \in Nat
         /\ Cardinality(copies') <= Cardinality(copies)
<1>1. PICK C : C = copies
  OBVIOUS
<1>2. IsFiniteSet(C) /\ c \in C /\ copies' = (C \ {c}) \union {d}
  BY <1>1 DEF IInv
<1>3. Cardinality(C) \in Nat /\ Cardinality(C) # 0
  BY <1>2, FS_CardinalityType, FS_EmptySet
<1>4. IsFiniteSet(C \ {c}) /\ Cardinality(C \ {c}) = Cardinality(C) - 1
  BY <1>2, FS_RemoveElement
<1>5. /\ IsFiniteSet((C \ {c}) \union {d})
      /\ \/ Cardinality((C \ {c}) \union {d}) = Cardinality(C \ {c})
         \/ Cardinality((C \ {c}) \union {d}) = Cardinality(C \ {c}) + 1
  BY <1>4, FS_AddElement
<1> QED BY <1>1, <1>2, <1>3, <1>4, <1>5

LEMMA CopyWritten ==
  ASSUME NEW c \in Copy
  PROVE  [c EXCEPT !.status = "WRITE_DONE"] = [from |-> c.from, lpn |-> c.lpn, status |-> "WRITE_DONE"]
BY DEF Copy

LEMMA GCReadDoneStep ==
  ASSUME IInv, NEW c \in copies, GCReadDone(c)
  PROVE  IInv'
<1> DEFINE d == [from |-> c.from, lpn |-> v2l[c.from.block][c.from.page], status |-> "WRITE_WAIT"]
<1>1. /\ c.status = "READ"
      /\ copies' = (copies \ {c}) \union {d}
      /\ UNCHANGED <<blockVars, pageVars, slotVars>>
      /\ UNCHANGED <<victim, readOffset, vpc, writeCount, metaGC, phase, written>>
      /\ UNCHANGED <<v2l, valid>>
  BY DEF GCReadDone, gcVars, pageVars
<1>2. v2l[c.from.block][c.from.page] \in LPN
  BY <1>1, CopyFacts, TypeFacts DEF IInv, Core, ReadKnown
<1>3. /\ d.from = c.from /\ d.lpn = v2l[c.from.block][c.from.page] /\ d.status = "WRITE_WAIT"
      /\ d \in Copy /\ d.lpn # NoLPN
  BY <1>2, CopyFacts, SentinelAssumption DEF Copy
<1> HIDE DEF d
<1>4. TypeOK'
  BY <1>1, <1>3 DEF TypeOK, IInv, Core, blockVars, pageVars, slotVars
<1>5. Core' /\ \A b \in Blocks : Unwritten(b)' = Unwritten(b)
  BY <1>1, <1>4, CoreFrame DEF IInv
<1>6. ReadKnown'
  BY <1>1, <1>3 DEF IInv, ReadKnown
<1>7. ASSUME ~Meta PROVE UserInv'
  <2>1. UserInv
    BY <1>7 DEF IInv
  <2>2. CopyIsCurrent' /\ CopyKnowsLPN' /\ CopiesOfVictim'
    <3>1. c.status # "WRITE_DONE"
      BY <1>1
    <3>2. \A e \in copies' : e = d \/ (e \in copies /\ e # c)
      BY <1>1
    <3>3. CopyIsCurrent'
      BY <1>1, <1>3, <2>1, <3>1, <3>2 DEF UserInv, CopyIsCurrent
    <3>4. CopyKnowsLPN'
      BY <1>1, <1>3, <2>1, <3>2 DEF UserInv, CopyKnowsLPN
    <3>5. CopiesOfVictim'
      BY <1>1, <1>3, <2>1, <3>2 DEF UserInv, CopiesOfVictim
    <3> QED BY <3>3, <3>4, <3>5
  <2>3. Cardinality(Ahead') <= Cardinality(Ahead) /\ Cardinality(Ahead') \in Nat
    <3>1. readOffset' >= readOffset
      BY <1>1, ConstantFacts DEF IInv, Core, TypeOK
    <3>2. GCRunning => victim \in Blocks
      BY DEF IInv, Core, TypeOK, GCRunning
    <3> QED BY <1>1, <1>5, <3>1, <3>2, AheadShrinks DEF IInv
  <2>4. copies # {}
    OBVIOUS
  <2>5. writeCount \in Nat /\ vpc \in Nat /\ Cardinality(Ahead) \in Nat
    BY AheadFacts DEF IInv, Core, TypeOK
  <2>6. PagesCounted'
    BY <1>1, <2>1, <2>3, <2>4, <2>5, ReplaceCopy DEF UserInv, PagesCounted, GCRunning
  <2> QED BY <2>2, <2>6 DEF UserInv
<1> QED BY <1>1, <1>5, <1>6, <1>7, ReplaceCopy DEF IInv

LEMMA GCWriteDoneStep ==
  ASSUME IInv, NEW c \in copies, GCWriteDone(c)
  PROVE  IInv'
<1>1. /\ copies' = copies \ {c}
      /\ writeCount' = writeCount + 1
      /\ victim' = IF writeCount + 1 = vpc THEN NoBlock ELSE victim
      /\ UNCHANGED <<blockVars, pageVars, slotVars>>
      /\ UNCHANGED <<readOffset, vpc, metaGC, phase, written>>
      /\ UNCHANGED <<v2l, valid>>
  BY DEF GCWriteDone, pageVars
<1>2. TypeOK'
  BY <1>1 DEF TypeOK, IInv, Core, blockVars, pageVars, slotVars
<1>3. Core' /\ \A b \in Blocks : Unwritten(b)' = Unwritten(b)
  BY <1>1, <1>2, CoreFrame DEF IInv
<1>4. PICK C : C = copies
  OBVIOUS
<1>5. /\ IsFiniteSet(C) /\ IsFiniteSet(C \ {c})
      /\ Cardinality(C) \in Nat /\ Cardinality(C \ {c}) = Cardinality(C) - 1
      /\ Cardinality(C) # 0
      /\ Cardinality(C \ {c}) = 0 => C \ {c} = {}
  <2>1. IsFiniteSet(C) /\ c \in C
    BY <1>4 DEF IInv
  <2>2. IsFiniteSet(C \ {c}) /\ Cardinality(C \ {c}) = Cardinality(C) - 1
    BY <2>1, FS_RemoveElement
  <2> QED BY <2>1, <2>2, FS_CardinalityType, FS_EmptySet
<1>6. copies' = C \ {c}
  BY <1>1, <1>4
<1>7. IsFiniteSet(copies') /\ ReadKnown'
  BY <1>1, <1>5, <1>6 DEF IInv, ReadKnown
<1>8. ASSUME ~Meta PROVE UserInv'
  <2>1. UserInv /\ copies # {}
    BY <1>8 DEF IInv
  <2>2. CopyIsCurrent' /\ CopyKnowsLPN'
    BY <1>1, <2>1 DEF UserInv, CopyIsCurrent, CopyKnowsLPN
  <2>3. GCRunning /\ writeCount + Cardinality(C) + Cardinality(Ahead) <= vpc
    BY <1>4, <2>1 DEF UserInv, PagesCounted
  <2>4. writeCount \in Nat /\ vpc \in Nat /\ Cardinality(Ahead) \in Nat
    BY AheadFacts DEF IInv, Core, TypeOK
  <2>5. CASE writeCount + 1 = vpc
    <3>1. Cardinality(C \ {c}) = 0
      BY <1>5, <2>3, <2>4, <2>5
    <3>2. copies' = {} /\ victim' = NoBlock
      BY <1>1, <1>5, <1>6, <2>5, <3>1
    <3> QED BY <2>2, <3>2 DEF UserInv, CopiesOfVictim, PagesCounted, GCRunning
  <2>6. CASE writeCount + 1 # vpc
    <3>1. victim' = victim
      BY <1>1, <2>6
    <3>2. CopiesOfVictim'
      BY <1>1, <2>1, <3>1 DEF UserInv, CopiesOfVictim
    <3>3. Cardinality(Ahead') <= Cardinality(Ahead) /\ Cardinality(Ahead') \in Nat
      <4>1. readOffset' >= readOffset
        BY <1>1, ConstantFacts DEF IInv, Core, TypeOK
      <4>2. GCRunning => victim \in Blocks
        BY DEF IInv, Core, TypeOK, GCRunning
      <4> QED BY <1>1, <1>3, <3>1, <4>1, <4>2, AheadShrinks DEF IInv
    <3>4. writeCount' + Cardinality(C \ {c}) + Cardinality(Ahead') <= vpc'
      BY <1>1, <1>5, <2>3, <2>4, <3>3
    <3>5. PagesCounted'
      BY <1>6, <2>3, <3>1, <3>4 DEF PagesCounted, GCRunning
    <3> QED BY <2>2, <3>2, <3>5 DEF UserInv
  <2> QED BY <2>5, <2>6
<1> QED BY <1>3, <1>7, <1>8 DEF IInv

(***************************************************************************)
(* Writes.                                                                  *)
(***************************************************************************)

\* No block that is in use gets a page that was not still to be written.
LEMMA PagesShrink ==
  ASSUME Core, NEW s \in Streams, NEW n \in LPN, Write(s, n), NEW b \in used
  PROVE  valid'[b] \union Unwritten(b)' \subseteq valid[b] \union Unwritten(b)
<1>1. b \in Blocks /\ (Fresh(s) => freeList # <<>>)
  BY DEF Write, Core, TypeOK
<1>2. PICK pg \in Pages : pg = PageOf(s)
  BY <1>1, WritePlace
<1>3. CASE b # BlockOf(s)
  <2>1. valid'[b] \subseteq valid[b] /\ Unwritten(b)' = Unwritten(b)
    BY <1>1, <1>3, ValidPagesAfter, UnwrittenAfter
  <2> QED BY <2>1
<1>4. CASE b = BlockOf(s)
  <2>1. Current(s) = b /\ page[s] = pg
    BY <1>1, <1>2, <1>4, WritePlace
  <2>2. Unwritten(b) = pg..(PagesPerBlock - 1) /\ pg <= PagesPerBlock - 1
    BY <1>1, <2>1, UnwrittenFacts, ConstantFacts DEF Core
  <2>3. Unwritten(b)' = (pg + 1)..(PagesPerBlock - 1)
    BY <1>1, <1>2, <1>4, UnwrittenAfter
  <2>4. valid'[b] \subseteq valid[b] \union {pg}
    BY <1>1, <1>2, <1>4, ValidPagesAfter
  <2>5. (pg + 1)..(PagesPerBlock - 1) \subseteq pg..(PagesPerBlock - 1) /\ pg \in pg..(PagesPerBlock - 1)
    BY <1>2, <2>2, ConstantFacts
  <2> QED BY <2>2, <2>3, <2>4, <2>5
<1> QED BY <1>3, <1>4

\* A page that is valid in a block in use keeps its LPN, and stays valid unless it
\* is the one the LPN that is written was at.
LEMMA ValidStays ==
  ASSUME Core, NEW s \in Streams, NEW n \in LPN, Write(s, n),
         NEW b \in Blocks, NEW p \in Pages, p \in valid[b]
  PROVE  /\ v2l'[b][p] = v2l[b][p]
         /\ v2l[b][p] # n => p \in valid'[b]
<1>1. Fresh(s) => freeList # <<>>
  BY DEF Write
<1>2. b = BlockOf(s) => p # PageOf(s) /\ PageOf(s) # 0
  BY <1>1, WritePlace
<1>3. v2l'[b][p] = v2l[b][p]
  BY <1>2, ContentAfter
<1>4. v2l[b][p] # n => ~(b = l2v[n].block /\ p = l2v[n].page)
  BY OldPlace
<1> QED BY <1>3, <1>4, ValidPagesAfter

LEMMA WritePageStep ==
  ASSUME IInv, NEW n \in LPN, WritePage(n)
  PROVE  IInv'
<1>1. /\ Write(WriteStream, n)
      /\ Meta \/ ~GCRunning
      /\ written < TurnLimit /\ written' = written + 1
      /\ UNCHANGED <<victim, readOffset, vpc, writeCount, copies, metaGC, phase>>
  BY DEF WritePage, WriteAllowed, gcVars
<1>2. PICK s \in Streams : s = WriteStream
  BY ConstantFacts
<1>3. WriteTypes' => TypeOK'
  <2>1. written' \in 0..TurnLimit
    BY <1>1, SizesAssumption DEF IInv, Core, TypeOK
  <2> QED BY <1>1, <2>1 DEF WriteTypes, TypeOK, IInv, Core
<1>4. Core'
  BY <1>1, <1>2, <1>3, WriteKeepsCore DEF IInv
<1>5. ReadKnown'
  BY <1>1, <1>2, WriteKeepsReads DEF IInv, ReadKnown
<1>6. ASSUME ~Meta PROVE UserInv'
  <2>1. copies = {} /\ ~GCRunning
    BY <1>1, <1>6 DEF IInv, UserInv, PagesCounted
  <2> QED BY <1>1, <2>1 DEF UserInv, CopyIsCurrent, CopyKnowsLPN, CopiesOfVictim, PagesCounted, GCRunning
<1> QED BY <1>1, <1>4, <1>5, <1>6 DEF IInv

LEMMA GCWriteStep ==
  ASSUME IInv, NEW c \in copies, GCWrite(c)
  PROVE  IInv'
<1> DEFINE d == [c EXCEPT !.status = "WRITE_DONE"]
<1>1. /\ c.status = "WRITE_WAIT"
      /\ Write(CopyStream, c.lpn)
      /\ copies' = (copies \ {c}) \union {d}
      /\ UNCHANGED <<victim, readOffset, vpc, writeCount, metaGC, phase, written>>
  BY DEF GCWrite, gcVars
<1>2. PICK s \in Streams, n \in LPN : s = CopyStream /\ n = c.lpn
  BY <1>1, CopyFacts, ConstantFacts
<1>3. Write(s, n)
  BY <1>1, <1>2
<1>4. d.from = c.from /\ d.lpn = n /\ d.status = "WRITE_DONE" /\ d \in Copy /\ n # NoLPN
  <2>1. c \in Copy
    BY DEF IInv, Core, TypeOK
  <2>2. d = [from |-> c.from, lpn |-> n, status |-> "WRITE_DONE"]
    BY <1>2, <2>1, CopyWritten
  <2> QED BY <1>2, <2>1, <2>2, SentinelAssumption DEF Copy
<1> HIDE DEF d
<1>5. WriteTypes' => TypeOK'
  BY <1>1, <1>4 DEF WriteTypes, TypeOK, IInv, Core
<1>6. Core'
  BY <1>3, <1>5, WriteKeepsCore DEF IInv
<1>7. ASSUME NEW e \in copies' PROVE e = d \/ (e \in copies /\ e # c)
  BY <1>1, <1>7
<1>8. ReadKnown'
  <2>1. SUFFICES ASSUME NEW e \in copies', e.status = "READ"
                 PROVE  v2l'[e.from.block][e.from.page] # NoLPN
    BY DEF ReadKnown
  <2>2. e \in copies
    BY <1>4, <1>7, <2>1
  <2> QED BY <1>3, <2>1, <2>2, WriteKeepsReads DEF IInv
<1>9. ASSUME ~Meta PROVE UserInv'
  <2>1. UserInv /\ copies # {}
    BY <1>9 DEF IInv
  <2>2. /\ GCRunning
        /\ c.from.block = victim
        /\ c.from.page \in valid[c.from.block]
        /\ n = v2l[c.from.block][c.from.page]
    BY <1>1, <1>2, <2>1 DEF UserInv, CopyIsCurrent, CopyKnowsLPN, CopiesOfVictim, PagesCounted
  <2>3. PICK v \in Blocks : v = victim
    BY <2>2 DEF GCRunning, IInv, Core, TypeOK
  <2>4. v \in used
    BY <2>2, <2>3 DEF IInv, Core, CountsMatchMapping
  <2>5. l2v[n] = c.from
    <3>1. c.from = [block |-> c.from.block, page |-> c.from.page]
      BY CopyFacts, ConstantFacts
    <3>2. l2v[n] = [block |-> c.from.block, page |-> c.from.page]
      BY <2>2, <2>3 DEF IInv, Core, CountsMatchMapping, MappedPages
    <3> QED BY <3>1, <3>2
  <2>6. ASSUME NEW e \in copies, e # c, e.status # "WRITE_DONE"
        PROVE  /\ e.from.page \in valid'[e.from.block]
               /\ v2l'[e.from.block][e.from.page] = v2l[e.from.block][e.from.page]
    <3>1. e.from.page \in valid[e.from.block] /\ e.from.block = v /\ e.from # c.from
      BY <2>1, <2>3, <2>6 DEF UserInv, CopyIsCurrent, CopiesOfVictim
    <3>2. PICK p \in Pages : p = e.from.page
      BY CopyFacts
    <3>3. v2l[v][p] # n
      <4>1. l2v[v2l[v][p]] = [block |-> v, page |-> p]
        BY <3>1, <3>2 DEF IInv, Core, CountsMatchMapping, MappedPages
      <4>2. e.from = [block |-> v, page |-> p]
        BY <3>1, <3>2, CopyFacts, ConstantFacts
      <4> QED BY <2>5, <3>1, <4>1, <4>2
    <3> QED BY <1>3, <3>1, <3>2, <3>3, ValidStays DEF IInv
  <2>7. CopyIsCurrent'
    BY <1>4, <1>7, <2>6 DEF CopyIsCurrent
  <2>8. CopyKnowsLPN'
    BY <1>4, <1>7, <2>1, <2>6 DEF CopyKnowsLPN, UserInv
  <2>9. CopiesOfVictim'
    BY <1>1, <1>4, <1>7, <2>1 DEF CopiesOfVictim, UserInv
  <2>10. Cardinality(Ahead') <= Cardinality(Ahead) /\ Cardinality(Ahead') \in Nat
    <3>1. readOffset' >= readOffset
      BY <1>1, ConstantFacts DEF IInv, Core, TypeOK
    <3>2. valid'[v] \union Unwritten(v)' \subseteq valid[v] \union Unwritten(v)
      BY <1>3, <2>4, PagesShrink DEF IInv
    <3>3. victim' = v
      BY <1>1, <2>3
    <3>4. Unwritten(victim)' = Unwritten(v)' /\ valid'[victim] = valid'[v]
      BY <2>3, <3>3 DEF Unwritten
    <3> QED BY <1>1, <1>6, <2>3, <3>1, <3>2, <3>4, AheadShrinks DEF IInv
  <2>11. writeCount \in Nat /\ vpc \in Nat /\ Cardinality(Ahead) \in Nat
    BY AheadFacts DEF IInv, Core, TypeOK
  <2>12. PagesCounted'
    BY <1>1, <2>1, <2>2, <2>10, <2>11, ReplaceCopy DEF UserInv, PagesCounted, GCRunning
  <2> QED BY <2>7, <2>8, <2>9, <2>12 DEF UserInv
<1> QED BY <1>1, <1>6, <1>8, <1>9, ReplaceCopy DEF IInv

(***************************************************************************)
(* The collector.                                                           *)
(***************************************************************************)

LEMMA StartGCStep ==
  ASSUME IInv, StartGC
  PROVE  IInv'
<1>1. PICK b \in Victims :
        /\ victim' = b
        /\ vpc' = PagesPerBlock - invalid[b]
  BY DEF StartGC
<1>2. /\ ~GCRunning
      /\ readOffset' = 0 /\ writeCount' = 0 /\ phase' = "read" /\ metaGC' = "idle"
      /\ UNCHANGED <<blockVars, pageVars, slotVars>>
      /\ UNCHANGED <<copies, written, v2l, valid>>
  BY DEF StartGC, NeedGC, pageVars
<1>3. b \in used /\ b \in Blocks
  BY <1>1 DEF Victims, Candidates, IInv, Core, TypeOK
<1>4. /\ PagesPerBlock \in Nat \ {0}
      /\ invalid[b] \in 0..PagesPerBlock
      /\ invalid[b] = PagesPerBlock - Cardinality(valid[b]) - Cardinality(Unwritten(b))
  BY <1>3, TypeFacts, ConstantFacts DEF IInv, Core, CountsMatchMapping
<1>5. TypeOK'
  <2>1. /\ vpc' \in 0..PagesPerBlock /\ victim' \in Blocks
        /\ readOffset' \in 0..PagesPerBlock /\ writeCount' \in Nat
    BY <1>1, <1>2, <1>3, <1>4
  <2> QED BY <1>2, <2>1 DEF TypeOK, IInv, Core, Phase, blockVars, pageVars, slotVars
<1>6. Core' /\ Unwritten(b)' = Unwritten(b)
  BY <1>2, <1>3, <1>5, CoreFrame DEF IInv
<1>7. IsFiniteSet(copies') /\ ReadKnown'
  BY <1>2 DEF IInv, ReadKnown
<1>8. ASSUME ~Meta PROVE UserInv'
  <2>1. copies' = {}
    BY <1>2, <1>8 DEF IInv, UserInv, PagesCounted
  <2>2. PICK V \in SUBSET Pages, U \in SUBSET Pages : V = valid[b] /\ U = Unwritten(b)
    BY <1>3, TypeFacts, UnwrittenFacts DEF IInv, Core
  <2>3. IsFiniteSet(V) /\ IsFiniteSet(U)
    BY <2>2, ConstantFacts, FS_Subset
  <2>4. Cardinality(V \union U) = Cardinality(V) + Cardinality(U)
    <3>1. V \intersect U = {}
      BY <1>3, <2>2, UnwrittenNotValid DEF IInv
    <3>2. Cardinality(V \union U) = Cardinality(V) + Cardinality(U) - Cardinality(V \intersect U)
      BY <2>3, FS_Union
    <3>3. Cardinality(V \intersect U) = 0
      BY <3>1, FS_EmptySet
    <3>4. Cardinality(V) \in Nat /\ Cardinality(U) \in Nat
      BY <2>3, FS_CardinalityType
    <3> QED BY <3>2, <3>3, <3>4
  <2>5. Ahead' = V \union U
    <3>1. Ahead' = {p \in valid'[b] \union Unwritten(b)' : p >= readOffset'}
      BY <1>1, <1>3, SentinelAssumption DEF Ahead, GCRunning, Unwritten
    <3>2. \A p \in V \union U : p >= 0
      BY ConstantFacts
    <3> QED BY <1>2, <1>6, <2>2, <3>1, <3>2
  <2>6. Cardinality(V) \in Nat /\ Cardinality(U) \in Nat
    BY <2>3, FS_CardinalityType
  <2>7. Cardinality(copies') = 0
    BY <2>1, FS_EmptySet
  <2>8. writeCount' + Cardinality(copies') + Cardinality(Ahead') <= vpc'
    BY <1>1, <1>2, <1>4, <2>2, <2>4, <2>5, <2>6, <2>7
  <2>9. PagesCounted'
    BY <1>1, <1>3, <2>8, SentinelAssumption DEF PagesCounted, GCRunning
  <2> QED BY <2>1, <2>9 DEF UserInv, CopyIsCurrent, CopyKnowsLPN, CopiesOfVictim
<1> QED BY <1>6, <1>7, <1>8 DEF IInv

LEMMA GCReadStep ==
  ASSUME IInv, GCRead
  PROVE  IInv'
<1>1. PICK p \in Pages : p = Min(ToRead) /\ p \in ToRead
  <2>1. ToRead # {} /\ ToRead \subseteq Pages
    BY AheadFacts DEF GCRead, IInv
  <2>2. ToRead \subseteq Nat
    BY <2>1, ConstantFacts
  <2>3. Min(ToRead) \in ToRead
    BY <2>1, <2>2, MinFacts
  <2> QED BY <2>1, <2>3
<1>2. PICK v \in Blocks : v = victim /\ GCRunning /\ p \in valid[v] /\ p >= readOffset
  BY <1>1 DEF ToRead, GCRunning, IInv, Core, TypeOK
<1> DEFINE d == [from |-> [block |-> v, page |-> p], lpn |-> NoLPN, status |-> "READ"]
<1>3. /\ copies' = copies \union {d}
      /\ readOffset' = p + 1 /\ phase' = "done"
      /\ UNCHANGED <<blockVars, pageVars, slotVars>>
      /\ UNCHANGED <<victim, vpc, writeCount, metaGC, written, v2l, valid>>
  BY <1>1, <1>2 DEF GCRead, pageVars
<1>4. /\ d.from.block = v /\ d.from.page = p /\ d.lpn = NoLPN /\ d.status = "READ"
      /\ d \in Copy
  BY DEF Copy, Address
<1> HIDE DEF d
<1>5. readOffset \in Nat /\ p + 1 > readOffset /\ p + 1 \in 0..PagesPerBlock /\ p \in Nat
  BY <1>2, ConstantFacts DEF IInv, Core, TypeOK
<1>6. TypeOK'
  BY <1>3, <1>4, <1>5 DEF TypeOK, IInv, Core, Phase, blockVars, pageVars, slotVars
<1>7. Core' /\ \A b \in Blocks : Unwritten(b)' = Unwritten(b)
  BY <1>3, <1>6, CoreFrame DEF IInv
<1>8. v2l[v][p] # NoLPN
  <2>1. valid[v] = MappedPages(v)
    BY DEF IInv, Core, CountsMatchMapping
  <2> QED BY <1>2, <2>1 DEF MappedPages
<1>9. \A e \in copies' : e = d \/ e \in copies
  BY <1>3
<1>10. ReadKnown'
  BY <1>3, <1>4, <1>8, <1>9 DEF IInv, ReadKnown
<1>11. PICK C : C = copies
  OBVIOUS
<1>12. /\ IsFiniteSet(C) /\ IsFiniteSet(C \union {d})
       /\ Cardinality(C) \in Nat /\ Cardinality(C \union {d}) \in Nat
       /\ Cardinality(C \union {d}) <= Cardinality(C) + 1
  <2>1. IsFiniteSet(C)
    BY <1>11 DEF IInv
  <2>2. Cardinality(C) \in Nat
    BY <2>1, FS_CardinalityType
  <2>3. /\ IsFiniteSet(C \union {d})
        /\ \/ Cardinality(C \union {d}) = Cardinality(C)
           \/ Cardinality(C \union {d}) = Cardinality(C) + 1
    BY <2>1, FS_AddElement
  <2> QED BY <2>1, <2>2, <2>3
<1>13. copies' = C \union {d}
  BY <1>3, <1>11
<1>14. ASSUME ~Meta PROVE UserInv'
  <2>1. UserInv
    BY <1>14 DEF IInv
  <2>2. CopyIsCurrent' /\ CopyKnowsLPN'
    BY <1>2, <1>3, <1>4, <1>9, <2>1 DEF UserInv, CopyIsCurrent, CopyKnowsLPN
  <2>3. \A e \in copies : e.from.block = v /\ e.from.page < readOffset /\ e.from.page \in Nat
    BY <1>2, <2>1, CopyFacts, ConstantFacts DEF UserInv, CopiesOfVictim
  <2>4. \A e \in copies : e.from # d.from /\ e.from.page < p + 1
    BY <1>2, <1>4, <1>5, <2>3
  <2>5. CopiesOfVictim'
    <3>1. \A e \in copies' : e.from.block = victim' /\ e.from.page < readOffset'
      BY <1>2, <1>3, <1>4, <1>5, <1>9, <2>3, <2>4
    <3>2. \A e, f \in copies' : e.from = f.from => e = f
      BY <1>9, <2>1, <2>4 DEF UserInv, CopiesOfVictim
    <3> QED BY <3>1, <3>2 DEF CopiesOfVictim
  <2>6. Ahead' \subseteq Ahead \ {p} /\ p \in Ahead
    <3>1. readOffset' >= readOffset
      BY <1>3, <1>5
    <3>2. Ahead' \subseteq Ahead
      BY <1>2, <1>3, <1>7, <3>1, AheadShrinks DEF IInv
    <3>3. p \notin Ahead'
      BY <1>3, <1>5 DEF Ahead
    <3>4. p \in Ahead
      BY <1>2 DEF Ahead
    <3> QED BY <3>2, <3>3, <3>4
  <2>7. PICK A : A = Ahead
    OBVIOUS
  <2>8. /\ IsFiniteSet(A \ {p}) /\ Cardinality(A) \in Nat
        /\ Cardinality(A \ {p}) = Cardinality(A) - 1
    <3>1. IsFiniteSet(A) /\ Cardinality(A) \in Nat
      BY <2>7, AheadFacts DEF IInv
    <3> QED BY <2>6, <2>7, <3>1, FS_RemoveElement
  <2>9. Cardinality(Ahead') <= Cardinality(A) - 1 /\ Cardinality(Ahead') \in Nat
    <3>1. Ahead' \subseteq A \ {p}
      BY <2>6, <2>7
    <3>2. IsFiniteSet(Ahead') /\ Cardinality(Ahead') <= Cardinality(A \ {p})
      BY <2>8, <3>1, FS_Subset
    <3> QED BY <2>8, <3>2, FS_CardinalityType
  <2>10. writeCount + Cardinality(C) + Cardinality(A) <= vpc
    BY <1>2, <1>11, <2>1, <2>7 DEF UserInv, PagesCounted
  <2>11. writeCount \in Nat /\ vpc \in Nat
    BY DEF IInv, Core, TypeOK
  <2>12. writeCount + Cardinality(C \union {d}) + Cardinality(Ahead') <= vpc
    BY <1>12, <2>8, <2>9, <2>10, <2>11
  <2>13. PagesCounted'
    BY <1>2, <1>3, <1>13, <2>12 DEF PagesCounted, GCRunning
  <2> QED BY <2>2, <2>5, <2>13 DEF UserInv
<1> QED BY <1>7, <1>10, <1>12, <1>13, <1>14 DEF IInv

LEMMA GCReadNothingStep ==
  ASSUME IInv, GCReadNothing
  PROVE  IInv'
<1>1. /\ readOffset' = IF ToRead = {} THEN PagesPerBlock ELSE Min(ToRead)
      /\ phase' = "done"
      /\ UNCHANGED <<blockVars, pageVars, slotVars>>
      /\ UNCHANGED <<victim, vpc, writeCount, copies, metaGC, written, v2l, valid>>
  BY DEF GCReadNothing, pageVars
<1>2. /\ readOffset \in 0..PagesPerBlock /\ PagesPerBlock \in Nat
      /\ readOffset' \in 0..PagesPerBlock
      /\ readOffset' >= readOffset
  <2>1. readOffset \in 0..PagesPerBlock /\ PagesPerBlock \in Nat
    BY ConstantFacts DEF IInv, Core, TypeOK
  <2>2. CASE ToRead = {}
    BY <1>1, <2>1, <2>2
  <2>3. CASE ToRead # {}
    <3>1. ToRead \subseteq Pages
      BY AheadFacts DEF IInv
    <3>2. Min(ToRead) \in ToRead
      BY <2>3, <3>1, MinFacts, ConstantFacts
    <3>3. Min(ToRead) >= readOffset
      BY <3>2 DEF ToRead
    <3>4. Min(ToRead) \in Nat /\ Min(ToRead) + 1 \in 1..PagesPerBlock
      BY <3>1, <3>2, ConstantFacts
    <3> QED BY <1>1, <2>1, <2>3, <3>3, <3>4
  <2> QED BY <2>1, <2>2, <2>3
<1>3. TypeOK'
  BY <1>1, <1>2 DEF TypeOK, IInv, Core, Phase, blockVars, pageVars, slotVars
<1>4. Core' /\ \A b \in Blocks : Unwritten(b)' = Unwritten(b)
  BY <1>1, <1>3, CoreFrame DEF IInv
<1>5. IsFiniteSet(copies') /\ ReadKnown'
  BY <1>1 DEF IInv, ReadKnown
<1>6. ASSUME ~Meta PROVE UserInv'
  <2>1. UserInv
    BY <1>6 DEF IInv
  <2>2. CopyIsCurrent' /\ CopyKnowsLPN'
    BY <1>1, <2>1 DEF UserInv, CopyIsCurrent, CopyKnowsLPN
  <2>3. CopiesOfVictim'
    <3>1. \A e \in copies : e.from.page \in Nat
      BY CopyFacts, ConstantFacts
    <3>2. \A e \in copies : e.from.page < readOffset'
      BY <1>2, <2>1, <3>1 DEF UserInv, CopiesOfVictim
    <3> QED BY <1>1, <2>1, <3>2 DEF UserInv, CopiesOfVictim
  <2>4. Cardinality(Ahead') <= Cardinality(Ahead) /\ Cardinality(Ahead') \in Nat
    <3>1. GCRunning => victim \in Blocks
      BY DEF IInv, Core, TypeOK, GCRunning
    <3> QED BY <1>1, <1>2, <1>4, <3>1, AheadShrinks DEF IInv
  <2>5. writeCount \in Nat /\ vpc \in Nat /\ Cardinality(Ahead) \in Nat
    BY AheadFacts DEF IInv, Core, TypeOK
  <2>6. Cardinality(copies) \in Nat
    BY FS_CardinalityType DEF IInv
  <2>7. PagesCounted'
    BY <1>1, <2>1, <2>4, <2>5, <2>6 DEF UserInv, PagesCounted, GCRunning
  <2> QED BY <2>2, <2>3, <2>7 DEF UserInv
<1> QED BY <1>4, <1>5, <1>6 DEF IInv

(***************************************************************************)
(* The theorems.                                                            *)
(***************************************************************************)

LEMMA InitInvariant == Init => IInv
<1> SUFFICES ASSUME Init PROVE IInv
  OBVIOUS
<1> USE DEF Init
<1>1. /\ freeList \in [1..Cardinality(Blocks) -> Blocks] /\ IsInjective(freeList)
      /\ Cardinality(Blocks) \in Nat /\ IsFiniteSet(Blocks)
  BY SizesAssumption, FS_CardinalityType
<1>2. freeList \in Seq(Blocks) /\ ToSet(freeList) = Blocks
  <2>1. freeList \in Injection(1..Cardinality(Blocks), Blocks)
    BY <1>1 DEF Injection, IsInjective
  <2>2. Cardinality(1..Cardinality(Blocks)) = Cardinality(Blocks)
    BY <1>1, FS_Interval
  <2>3. freeList \in Surjection(1..Cardinality(Blocks), Blocks)
    BY <1>1, <2>1, <2>2, FS_Injection
  <2>4. freeList \in Seq(Blocks)
    BY <1>1
  <2> QED BY <1>1, <2>3, <2>4 DEF Surjection, ToSet
<1>3. ListsPartition
  BY <1>1, <1>2 DEF ListsPartition
<1>4. \A s \in Streams : page[s] = Full /\ Current(s) = NoBlock
  BY DEF Current
<1>5. \A b \in Blocks : MappedPages(b) = {}
  BY DEF MappedPages
<1>6. CountsMatchMapping
  BY <1>5 DEF CountsMatchMapping
<1>7. CurrentPageErased
  BY <1>4 DEF CurrentPageErased
<1>8. PageStarted /\ MappingInverse
  BY <1>4, ConstantFacts DEF PageStarted, MappingInverse
<1>9. TypeOK
  <2>1. active \in [Blocks -> BOOLEAN]
    BY SizesAssumption
  <2>2. /\ PagesPerBlock \in 0..PagesPerBlock /\ Full \in 0..PagesPerBlock /\ 0 \in 0..PagesPerBlock
        /\ 0 \in 0..TurnLimit
    BY ConstantFacts, SizesAssumption
  <2> QED BY <1>2, <2>1, <2>2 DEF TypeOK, Phase
<1>10. IsFiniteSet(copies)
  BY FS_EmptySet
<1>11. ReadKnown /\ UserInv
  BY DEF ReadKnown, UserInv, CopyIsCurrent, CopyKnowsLPN, CopiesOfVictim, PagesCounted, GCRunning
<1> QED BY <1>3, <1>6, <1>7, <1>8, <1>9, <1>10, <1>11 DEF IInv, Core

LEMMA NextInvariant ==
  ASSUME IInv, [Next]_vars
  PROVE  IInv'
<1>1. CASE UNCHANGED vars
  <2>1. UNCHANGED <<blockVars, pageVars, slotVars, gcVars, copies, metaGC, phase, written>>
    BY <1>1 DEF vars
  <2>2. TypeOK'
    BY <2>1 DEF IInv, Core, TypeOK, blockVars, pageVars, slotVars, gcVars
  <2> QED BY <2>1, <2>2, TurnFrame
<1>2. CASE \E c \in copies : GCReadDone(c) \/ GCWriteDone(c) \/ GCWrite(c)
  BY <1>2, GCReadDoneStep, GCWriteDoneStep, GCWriteStep
<1>3. CASE \E n \in LPN : WritePage(n)
  BY <1>3, WritePageStep
<1>4. CASE DoneEnds \/ WriteEnds \/ CopyEnds \/ NoStartGC \/ MetaGCStarts \/ NoGCRead
  <2>1. UNCHANGED <<blockVars, pageVars, slotVars, gcVars, copies>>
    BY <1>4 DEF DoneEnds, WriteEnds, CopyEnds, NoStartGC, MetaGCStarts, NoGCRead
  <2>2. phase' \in Phase /\ metaGC' \in {"idle", "running", "ended"} /\ written' \in 0..TurnLimit
    BY <1>4, SizesAssumption
    DEF DoneEnds, WriteEnds, CopyEnds, NoStartGC, MetaGCStarts, NoGCRead, Phase, IInv, Core, TypeOK
  <2>3. TypeOK'
    BY <2>1, <2>2 DEF IInv, Core, TypeOK, blockVars, pageVars, slotVars, gcVars
  <2> QED BY <2>1, <2>3, TurnFrame
<1>5. CASE StartGC
  BY <1>5, StartGCStep
<1>6. CASE GCRead
  BY <1>6, GCReadStep
<1>7. CASE GCReadNothing
  BY <1>7, GCReadNothingStep
<1> QED BY <1>1, <1>2, <1>3, <1>4, <1>5, <1>6, <1>7 DEF Next

LEMMA Invariant == Spec => []IInv
<1>1. IInv /\ [Next]_vars => IInv'
  BY NextInvariant
<1> QED BY InitInvariant, <1>1, PTL DEF Spec

\* Every variable stays in its type, so no count is negative or exceeds the pages of
\* a block, and a copy that is to be written has an LPN.
THEOREM BlocksTypeCorrect == Spec => []TypeOK
<1>1. IInv => TypeOK
  BY DEF IInv, Core
<1> QED BY Invariant, <1>1, PTL

\* Allocate and Release (dftl_block.cpp:203, 259), called by any stream in any order,
\* never lose a block and never have one on both lists or twice on one.
THEOREM BlocksPartitioned == Spec => []ListsPartition
<1>1. IInv => ListsPartition
  BY DEF IInv, Core
<1> QED BY Invariant, <1>1, PTL

\* The mapping, the valid bitmap and the invalid counts, which the code updates one
\* after the other, agree, and a block is released when its last valid page goes.
THEOREM CountsCorrect == Spec => []CountsMatchMapping
<1>1. IInv => CountsMatchMapping
  BY DEF IInv, Core
<1> QED BY Invariant, <1>1, PTL

\* "this page must be free page" (dftl_vnand.cpp:200): whatever the streams and the
\* collector do, a page is erased when it is written, and no two streams share a block.
THEOREM WrittenPageErased == Spec => []CurrentPageErased
<1>1. IInv => CurrentPageErased
  BY DEF IInv, Core
<1> QED BY Invariant, <1>1, PTL

\* In the user block manager the page of a copy stays the one its LPN is mapped to
\* until the copy is written, so the collector never undoes a write.
THEOREM CopiesStayCurrent ==
  ASSUME ~Meta
  PROVE  Spec => []CopyIsCurrent
<1>1. IInv => CopyIsCurrent
  BY DEF IInv, UserInv
<1> QED BY Invariant, <1>1, PTL

\* In the user block manager a collection never writes more than m_nVPC pages, and
\* when it ends no copy is on its way.
THEOREM CollectionsCounted ==
  ASSUME ~Meta
  PROVE  Spec => []CollectionCounted
<1>1. ASSUME IInv PROVE CollectionCounted
  <2>1. /\ Cardinality(ToRead) \in Nat /\ Cardinality(Ahead) \in Nat
        /\ Cardinality(ToRead) <= Cardinality(Ahead)
    BY <1>1, AheadFacts DEF IInv
  <2>2. writeCount \in Nat /\ vpc \in Nat /\ Cardinality(copies) \in Nat
    BY <1>1, FS_CardinalityType DEF IInv, Core, TypeOK
  <2> QED BY <1>1, <2>1, <2>2 DEF IInv, UserInv, PagesCounted, CollectionCounted
<1>2. IInv => CollectionCounted
  BY <1>1
<1> QED BY Invariant, <1>2, PTL

\* Of both block managers: a read of an LPN by way of the mapping finds the page that was
\* written for it, wherever the collector has moved it (SetL2V after ProgramPageSimul).
THEOREM MappedPageIsTheirs == Spec => []MappingInverse
<1>1. IInv => MappingInverse
  BY DEF IInv, Core
<1> QED BY Invariant, <1>1, PTL

\* A page that is valid is neither erased nor overwritten by the step.
ValidUntouched == \A b \in Blocks : \A p \in valid[b] : v2l'[b][p] = v2l[b][p]

LEMMA WriteUntouched ==
  ASSUME Core, NEW s \in Streams, NEW n \in LPN, Write(s, n)
  PROVE  ValidUntouched
<1>1. SUFFICES ASSUME NEW b \in Blocks, NEW p \in valid[b] PROVE v2l'[b][p] = v2l[b][p]
  BY DEF ValidUntouched
<1>2. p \in Pages /\ v2l \in [Blocks -> [Pages -> LPN \union {NoLPN}]] /\ v2l' = V2LAfter(s, n)
  BY TypeFacts DEF Core, TypeOK, Write
<1>3. PICK c \in Blocks : c = BlockOf(s)
  BY WritePlace DEF Write
<1>4. CASE b # c
  BY <1>2, <1>3, <1>4 DEF V2LAfter
<1>5. CASE b = c /\ Fresh(s)
  <2>1. b \notin used
    BY <1>3, <1>5, WritePlace DEF Write
  <2>2. valid[b] = {}
    BY <2>1 DEF Core, CountsMatchMapping
  <2> QED BY <2>2
<1>6. CASE b = c /\ ~Fresh(s)
  <2>1. PageOf(s) = page[s] /\ PageOf(s) # 0
    BY <1>6 DEF PageOf, Core, PageStarted
  <2>2. p # PageOf(s)
    BY <1>3, <1>6, WritePlace DEF Write
  <2> QED BY <1>2, <1>3, <1>6, <2>1, <2>2 DEF V2LAfter
<1> QED BY <1>4, <1>5, <1>6

\* What the lists, the counts and the bitmaps are for: whatever the host, the flushes and
\* the collector do, a page that the mapping points to keeps its data, until its LPN has
\* been written elsewhere (ProgramPageSimul, dftl_vnand.cpp:185, erases on a first page).
THEOREM ValidPagesKept == Spec => [][ValidUntouched]_vars
<1>1. IInv /\ [Next]_vars => [ValidUntouched]_vars
  <2>1. SUFFICES ASSUME IInv, Next PROVE ValidUntouched
    OBVIOUS
  <2>2. CASE UNCHANGED v2l
    BY <2>2 DEF ValidUntouched
  <2>3. CASE \E c \in copies : GCWrite(c)
    <3>1. PICK c \in copies : c.status = "WRITE_WAIT" /\ Write(CopyStream, c.lpn)
      BY <2>3 DEF GCWrite
    <3>2. c.lpn \in LPN /\ CopyStream \in Streams
      BY <2>1, <3>1, CopyFacts, ConstantFacts
    <3> QED BY <2>1, <3>1, <3>2, WriteUntouched DEF IInv
  <2>4. CASE \E n \in LPN : WritePage(n)
    BY <2>1, <2>4, ConstantFacts, WriteUntouched DEF WritePage, IInv
  <2> QED BY <2>1, <2>2, <2>3, <2>4 DEF Next, GCReadDone, GCWriteDone, DoneEnds, WriteEnds,
             CopyEnds, StartGC, NoStartGC, MetaGCStarts, GCRead, GCReadNothing, NoGCRead, pageVars
<1> QED BY Invariant, <1>1, PTL DEF Spec

(***************************************************************************)
(* What the marks of the active blocks are for: if they were right, no      *)
(* victim would be a block that is being written, and a collection would    *)
(* copy exactly the pages it has counted.                                   *)
(***************************************************************************)

Exact ==
  GCRunning =>
    /\ \A s \in Streams : Current(s) # victim
    /\ vpc = writeCount + Cardinality(copies) + Cardinality(ToRead)

\* The copy that takes a step is not taken for another.
LEMMA ReplaceCopyExact ==
  ASSUME IInv, ~Meta, NEW c \in copies, NEW d, d.from = c.from, copies' = (copies \ {c}) \union {d}
  PROVE  Cardinality(copies') = Cardinality(copies)
<1>1. PICK C : C = copies
  OBVIOUS
<1>2. IsFiniteSet(C) /\ c \in C /\ copies' = (C \ {c}) \union {d}
  BY <1>1 DEF IInv
<1>3. d \notin C \ {c}
  BY <1>1 DEF IInv, UserInv, CopiesOfVictim
<1>4. Cardinality(C) \in Nat
  BY <1>2, FS_CardinalityType
<1>5. IsFiniteSet(C \ {c}) /\ Cardinality(C \ {c}) = Cardinality(C) - 1
  BY <1>2, FS_RemoveElement
<1>6. Cardinality((C \ {c}) \union {d}) = Cardinality(C \ {c}) + 1
  BY <1>3, <1>5, FS_AddElement
<1> QED BY <1>1, <1>2, <1>4, <1>5, <1>6

\* Steps that leave the victim, its pages and the streams alone.
LEMMA ExactFrame ==
  ASSUME Exact, UNCHANGED <<victim, readOffset, vpc, valid, slot, cur, page>>,
         writeCount' + Cardinality(copies') = writeCount + Cardinality(copies)
  PROVE  Exact'
<1>1. ToRead' = ToRead
  BY DEF ToRead, GCRunning
<1>2. \A s \in Streams : Current(s)' = Current(s)
  BY DEF Current
<1> QED BY <1>1, <1>2 DEF Exact, GCRunning

LEMMA ExactGCWrite ==
  ASSUME IInv, IInv', ~Meta, Exact, NEW c \in copies, GCWrite(c)
  PROVE  Exact'
<1>1. PICK s \in Streams, n \in LPN : s = CopyStream /\ n = c.lpn /\ Write(s, n)
  BY CopyFacts, ConstantFacts DEF GCWrite
<1>2. UserInv /\ UserInv' /\ copies # {} /\ c.status = "WRITE_WAIT"
  BY DEF IInv, GCWrite
<1>3. /\ GCRunning /\ c.from.block = victim /\ c.from.page < readOffset
      /\ c.from.page \in valid[c.from.block] /\ n = v2l[c.from.block][c.from.page]
  BY <1>1, <1>2 DEF UserInv, CopyIsCurrent, CopyKnowsLPN, CopiesOfVictim, PagesCounted
<1>4. PICK v \in Blocks : v = victim
  BY <1>3 DEF GCRunning, IInv, Core, TypeOK
<1>5. v \in used
  BY <1>3, <1>4 DEF IInv, Core, CountsMatchMapping
<1>6. v # BlockOf(s)
  <2>1. CASE Fresh(s)
    BY <1>1, <1>5, <2>1, WritePlace DEF Write, IInv
  <2>2. CASE ~Fresh(s)
    BY <1>1, <1>3, <1>4, <2>2, WritePlace DEF Exact, IInv
  <2> QED BY <2>1, <2>2
<1>7. UNCHANGED <<victim, readOffset, vpc, writeCount>>
  BY DEF GCWrite, gcVars
<1>8. l2v[n].block = v => l2v[n].page < readOffset
  <2>1. l2v[n] = [block |-> c.from.block, page |-> c.from.page]
    BY <1>3, <1>4 DEF IInv, Core, CountsMatchMapping, MappedPages
  <2> QED BY <1>3, <2>1
<1>9. valid'[v] = valid[v] \ (IF v = l2v[n].block THEN {l2v[n].page} ELSE {})
  BY <1>1, <1>6, ValidPagesAfter DEF IInv
<1>10. valid[v] \subseteq Nat /\ readOffset \in Nat
  BY TypeFacts, ConstantFacts DEF IInv, Core, TypeOK
<1>11. ToRead' = ToRead
  <2>1. ToRead = {p \in valid[v] : p >= readOffset} /\ ToRead' = {p \in valid'[v] : p >= readOffset}
    BY <1>3, <1>4, <1>7 DEF ToRead, GCRunning
  <2> QED BY <1>8, <1>9, <1>10, <2>1
<1>12. Cardinality(copies') = Cardinality(copies)
  <2>1. c \in Copy
    BY DEF IInv, Core, TypeOK
  <2>2. [c EXCEPT !.status = "WRITE_DONE"].from = c.from
    BY <2>1, CopyWritten
  <2> QED BY <2>2, ReplaceCopyExact DEF GCWrite
<1>13. \A t \in Streams : Current(t)' # v
  <2>1. v # NoBlock
    BY SentinelAssumption
  <2> QED BY <1>1, <1>3, <1>4, <1>6, <2>1, StreamsAfter DEF Exact, IInv
<1> QED BY <1>3, <1>4, <1>7, <1>11, <1>12, <1>13 DEF Exact, GCRunning

LEMMA ExactStartGC ==
  ASSUME IInv, ~Meta, ActiveMarked, StartGC
  PROVE  Exact'
<1>1. PICK b \in Victims : victim' = b /\ vpc' = PagesPerBlock - invalid[b]
  BY DEF StartGC
<1>2. /\ ~GCRunning /\ readOffset' = 0 /\ writeCount' = 0
      /\ UNCHANGED <<copies, valid, slot, cur, page>>
  BY DEF StartGC, NeedGC, pageVars, slotVars
<1>3. b \in Blocks /\ b \in used /\ ~active[b] /\ b # NoBlock
  BY SentinelAssumption DEF Victims, Candidates, IInv, Core, TypeOK
<1>4. \A s \in Streams : Current(s) # b
  BY <1>3 DEF ActiveMarked
<1>5. Unwritten(b) = {}
  BY <1>3, <1>4, UnwrittenFacts DEF IInv, Core
<1>6. /\ invalid[b] = PagesPerBlock - Cardinality(valid[b]) - Cardinality({})
      /\ PagesPerBlock \in Nat /\ Cardinality(valid[b]) \in Nat
      /\ valid[b] \subseteq Nat
  BY <1>3, <1>5, TypeFacts, ConstantFacts DEF IInv, Core, CountsMatchMapping
<1>7. Cardinality({}) = 0
  BY FS_EmptySet
<1>8. copies' = {} /\ Cardinality(copies') = 0
  BY <1>2, FS_EmptySet DEF IInv, UserInv, PagesCounted
<1>9. ToRead' = valid[b]
  <2>1. ToRead' = {p \in valid[b] : p >= 0}
    BY <1>1, <1>2, <1>3 DEF ToRead, GCRunning
  <2> QED BY <1>6, <2>1
<1>10. vpc' = Cardinality(valid[b])
  BY <1>1, <1>6, <1>7
<1>11. vpc' = writeCount' + Cardinality(copies') + Cardinality(ToRead')
  BY <1>2, <1>6, <1>8, <1>9, <1>10
<1>12. \A s \in Streams : Current(s)' # victim'
  BY <1>1, <1>2, <1>4 DEF Current
<1> QED BY <1>11, <1>12 DEF Exact

LEMMA ExactGCRead ==
  ASSUME IInv, ~Meta, Exact, GCRead
  PROVE  Exact'
<1>1. PICK p \in Pages : p = Min(ToRead) /\ p \in ToRead /\ \A q \in ToRead : p <= q
  <2>1. ToRead # {} /\ ToRead \subseteq Pages
    BY AheadFacts DEF GCRead, IInv
  <2>2. ToRead \subseteq Nat
    BY <2>1, ConstantFacts
  <2> QED BY <2>1, <2>2, MinFacts
<1>2. GCRunning /\ p >= readOffset /\ p \in valid[victim]
  BY <1>1 DEF ToRead
<1> DEFINE d == [from |-> [block |-> victim, page |-> p], lpn |-> NoLPN, status |-> "READ"]
<1>3. /\ copies' = copies \union {d} /\ readOffset' = p + 1
      /\ UNCHANGED <<victim, vpc, writeCount, valid, slot, cur, page>>
  BY <1>1 DEF GCRead, pageVars, slotVars
<1>4. d \notin copies
  <2>1. \A e \in copies : e.from.page < readOffset /\ e.from.page \in Nat
    BY CopyFacts, ConstantFacts DEF IInv, UserInv, CopiesOfVictim
  <2>2. d.from.page = p /\ p \in Nat /\ readOffset \in Nat
    BY ConstantFacts DEF IInv, Core, TypeOK
  <2> HIDE DEF d
  <2> QED BY <1>2, <2>1, <2>2
<1> HIDE DEF d
<1>5. PICK C, T : C = copies /\ T = ToRead
  OBVIOUS
<1>6. /\ Cardinality(C) \in Nat /\ Cardinality(C \union {d}) = Cardinality(C) + 1
  <2>1. IsFiniteSet(C)
    BY <1>5 DEF IInv
  <2> QED BY <1>4, <1>5, <2>1, FS_CardinalityType, FS_AddElement
<1>7. Cardinality(T) \in Nat /\ Cardinality(T \ {p}) = Cardinality(T) - 1
  <2>1. IsFiniteSet(T)
    BY <1>5, AheadFacts DEF IInv
  <2> QED BY <1>1, <1>5, <2>1, FS_CardinalityType, FS_RemoveElement
<1>8. ToRead' = T \ {p}
  <2>1. ToRead' = {q \in valid[victim] : q >= p + 1}
    BY <1>2, <1>3 DEF ToRead, GCRunning
  <2>2. T = {q \in valid[victim] : q >= readOffset}
    BY <1>2, <1>5 DEF ToRead
  <2>3. valid[victim] \subseteq Nat /\ readOffset \in Nat
    BY <1>2, TypeFacts, ConstantFacts DEF IInv, Core, TypeOK, GCRunning
  <2>4. \A q \in valid[victim] : q >= p + 1 <=> q >= readOffset /\ q # p
    <3>1. \A q \in T : q \in Nat /\ p <= q
      BY <1>1, <1>5, <2>2, <2>3
    <3> QED BY <1>2, <2>2, <2>3, <3>1, ConstantFacts
  <2> QED BY <2>1, <2>2, <2>4
<1>9. copies' = C \union {d}
  BY <1>3, <1>5
<1>10. vpc = writeCount + Cardinality(C) + Cardinality(T) /\ writeCount \in Nat
  BY <1>2, <1>5 DEF Exact, IInv, Core, TypeOK
<1>11. vpc = writeCount + Cardinality(C \union {d}) + Cardinality(T \ {p})
  BY <1>6, <1>7, <1>10
<1>12. \A s \in Streams : Current(s)' = Current(s)
  BY <1>3 DEF Current
<1> QED BY <1>2, <1>3, <1>8, <1>9, <1>11, <1>12 DEF Exact

LEMMA ExactGCReadNothing ==
  ASSUME IInv, Exact, GCReadNothing
  PROVE  Exact'
<1>1. /\ readOffset' = IF ToRead = {} THEN PagesPerBlock ELSE Min(ToRead)
      /\ UNCHANGED <<victim, vpc, writeCount, copies, valid, slot, cur, page>>
  BY DEF GCReadNothing, pageVars, slotVars
<1>2. SUFFICES ASSUME GCRunning PROVE Exact'
  BY <1>1 DEF Exact, GCRunning
<1>3. PICK v \in Blocks : v = victim
  BY <1>2 DEF GCRunning, IInv, Core, TypeOK
<1>4. ToRead = {p \in valid[v] : p >= readOffset} /\ ToRead' = {p \in valid[v] : p >= readOffset'}
  BY <1>1, <1>2, <1>3 DEF ToRead, GCRunning
<1>5. /\ valid[v] \subseteq Pages /\ Pages \subseteq Nat /\ readOffset \in 0..PagesPerBlock
      /\ PagesPerBlock \in Nat /\ \A p \in Pages : p < PagesPerBlock
  <2>1. \A p \in Pages : p < PagesPerBlock
    BY ConstantFacts DEF Pages
  <2> QED BY <2>1, TypeFacts, ConstantFacts DEF IInv, Core, TypeOK
<1>6. ToRead' = ToRead
  <2>1. CASE ToRead = {}
    <3>1. \A p \in valid[v] : p \in Nat /\ p < PagesPerBlock
      BY <1>5
    <3>2. \A p \in valid[v] : ~(p >= readOffset')
      BY <1>1, <1>5, <2>1, <3>1
    <3> QED BY <1>4, <2>1, <3>2
  <2>2. CASE ToRead # {}
    <3>1. ToRead \subseteq Nat
      BY <1>4, <1>5
    <3>2. Min(ToRead) \in ToRead /\ \A q \in ToRead : Min(ToRead) <= q
      BY <2>2, <3>1, MinFacts
    <3>3. PICK m \in Nat : m = Min(ToRead)
      BY <3>1, <3>2
    <3>4. m >= readOffset /\ \A p \in valid[v] : p >= readOffset => m <= p
      BY <1>4, <3>2, <3>3
    <3>5. readOffset' = m
      BY <1>1, <2>2, <3>3
    <3>6. \A p \in valid[v] : p \in Nat
      BY <1>5
    <3>7. \A p \in valid[v] : p >= m <=> p >= readOffset
      BY <1>5, <3>3, <3>4, <3>6
    <3> QED BY <1>4, <3>5, <3>7
  <2> QED BY <2>1, <2>2
<1>7. \A s \in Streams : Current(s)' = Current(s)
  BY <1>1 DEF Current
<1> QED BY <1>1, <1>6, <1>7 DEF Exact, GCRunning

LEMMA ExactStep ==
  ASSUME ~Meta, IInv, ActiveMarked, Exact, [Next]_vars
  PROVE  Exact'
<1>0. IInv'
  BY NextInvariant
<1>1. CASE UNCHANGED vars
  <2>1. UNCHANGED <<victim, readOffset, vpc, valid, slot, cur, page, writeCount, copies>>
    BY <1>1 DEF vars, gcVars, pageVars, slotVars
  <2> QED BY <2>1, ExactFrame
<1>2. CASE \E c \in copies : GCReadDone(c)
  <2>1. PICK c \in copies : GCReadDone(c)
    BY <1>2
  <2>2. UNCHANGED <<victim, readOffset, vpc, valid, slot, cur, page, writeCount>>
    BY <2>1 DEF GCReadDone, gcVars, pageVars, slotVars
  <2> DEFINE d == [from |-> c.from, lpn |-> v2l[c.from.block][c.from.page], status |-> "WRITE_WAIT"]
  <2>3. copies' = (copies \ {c}) \union {d} /\ d.from = c.from
    BY <2>1 DEF GCReadDone
  <2> HIDE DEF d
  <2>4. Cardinality(copies') = Cardinality(copies)
    BY <2>3, ReplaceCopyExact
  <2> QED BY <2>2, <2>4, ExactFrame
<1>3. CASE \E c \in copies : GCWriteDone(c)
  <2>1. PICK c \in copies : GCWriteDone(c)
    BY <1>3
  <2>2. /\ copies' = copies \ {c} /\ writeCount' = writeCount + 1
        /\ victim' = IF writeCount + 1 = vpc THEN NoBlock ELSE victim
        /\ UNCHANGED <<readOffset, vpc, valid, slot, cur, page>>
    BY <2>1 DEF GCWriteDone, pageVars, slotVars
  <2>3. CASE victim' = NoBlock
    BY <2>3 DEF Exact, GCRunning
  <2>4. CASE victim' # NoBlock
    <3>1. PICK C : C = copies
      OBVIOUS
    <3>2. IsFiniteSet(C)
      BY <3>1 DEF IInv
    <3>3. Cardinality(C \ {c}) = Cardinality(C) - 1 /\ Cardinality(C) \in Nat
      BY <3>1, <3>2, FS_RemoveElement, FS_CardinalityType
    <3>4. writeCount \in Nat /\ copies' = C \ {c} /\ victim' = victim
      BY <2>2, <2>4, <3>1 DEF IInv, Core, TypeOK
    <3>5. writeCount' + Cardinality(copies') = writeCount + Cardinality(copies)
      BY <2>2, <3>1, <3>3, <3>4
    <3> QED BY <2>2, <3>4, <3>5, ExactFrame
  <2> QED BY <2>3, <2>4
<1>4. CASE \E c \in copies : GCWrite(c)
  BY <1>0, <1>4, ExactGCWrite
<1>5. CASE \E n \in LPN : WritePage(n)
  <2>1. ~GCRunning /\ victim' = victim
    BY <1>5 DEF WritePage, WriteAllowed, gcVars
  <2> QED BY <2>1 DEF Exact, GCRunning
<1>6. CASE DoneEnds \/ WriteEnds \/ CopyEnds \/ NoStartGC \/ MetaGCStarts \/ NoGCRead
  <2>1. UNCHANGED <<victim, readOffset, vpc, valid, slot, cur, page, writeCount, copies>>
    BY <1>6 DEF DoneEnds, WriteEnds, CopyEnds, NoStartGC, MetaGCStarts, NoGCRead, gcVars, pageVars, slotVars
  <2> QED BY <2>1, ExactFrame
<1> QED BY <1>1, <1>2, <1>3, <1>4, <1>5, <1>6, ExactStartGC, ExactGCRead, ExactGCReadNothing DEF Next

\* In the user block manager a collection would copy exactly the valid pages it has
\* counted, and so end, if "active" marked the blocks that are being written
\* (dftl_block.h:61).  That it does not always is the finding of MCBlockMgrMarks.
THEOREM MarksMakeCountExact ==
  ASSUME ~Meta
  PROVE  Spec /\ []ActiveMarked => []VictimCounted
<1>1. Init => Exact
  BY DEF Init, Exact, GCRunning
<1>2. IInv /\ ActiveMarked /\ Exact /\ [Next]_vars => Exact'
  BY ExactStep
<1>3. Exact => VictimCounted
  BY DEF Exact, VictimCounted
<1> QED BY Invariant, <1>1, <1>2, <1>3, PTL DEF Spec

(***************************************************************************)
(* The marks of the meta blocks, which do say what is being written: one   *)
(* stream fills one block after the other, so a block that has just become *)
(* full holds the page written last and cannot be given back before it is  *)
(* no longer the current one of its slots.                                 *)
(***************************************************************************)

MarksKept ==
  Meta =>
    /\ \A i \in 0..1 : slot["META"][i] # NoBlock => active[slot["META"][i]]
    /\ slot["META"][0] # NoBlock => slot["META"][0] # slot["META"][1]
    /\ Fresh("META") /\ slot["META"][cur["META"]] # NoBlock =>
         PagesPerBlock - 1 \in valid[slot["META"][cur["META"]]]

\* The page that has been written is valid.
LEMMA WrittenValid ==
  ASSUME Core, NEW s \in Streams, NEW n \in LPN, Write(s, n), NEW b \in Blocks, b = BlockOf(s)
  PROVE  PageOf(s) \in valid'[b]
<1>1. PageOf(s) \notin valid[b]
  BY WritePlace DEF Write
<1>2. b = l2v[n].block => l2v[n].page # PageOf(s)
  BY <1>1, OldPlace
<1> QED BY <1>2, ValidPagesAfter

LEMMA MarksWrite ==
  ASSUME Core, MarksKept, Meta, NEW n \in LPN, Write("META", n)
  PROVE  MarksKept'
<1>1. PICK s \in Streams : s = "META"
  BY DEF Streams
<1>2. PICK i \in 0..1 : i = cur[s]
  BY TypeFacts DEF Core
<1>3. /\ \A j \in 0..1 : slot[s][j] \in Blocks \union {NoBlock}
      /\ \A j \in 0..1 : slot[s][j] # NoBlock => active[slot[s][j]]
      /\ slot[s][0] # NoBlock => slot[s][0] # slot[s][1]
      /\ slot \in [Streams -> [0..1 -> Blocks \union {NoBlock}]]
      /\ active \in [Blocks -> BOOLEAN]
  BY <1>1 DEF MarksKept, Core, TypeOK
<1>4. Write(s, n) /\ (Fresh(s) => freeList # <<>>)
  BY <1>1 DEF Write
<1>5. PICK b \in Blocks : b = BlockOf(s)
  BY <1>4, WritePlace
<1>6. slot[s][i] # NoBlock => slot[s][i] \in used
  <2>1. CASE Fresh(s)
    <3>1. slot[s][i] # NoBlock => PagesPerBlock - 1 \in valid[slot[s][i]]
      BY <1>1, <1>2, <2>1 DEF MarksKept
    <3> QED BY <1>3, <3>1 DEF Core, CountsMatchMapping
  <2>2. CASE ~Fresh(s)
    <3>1. Current(s) = slot[s][i]
      BY <1>2, <2>2 DEF Current, Fresh, Full
    <3> QED BY <3>1 DEF Core, CurrentPageErased
  <2> QED BY <2>1, <2>2
<1>7. /\ slot' = [slot EXCEPT ![s][SlotOf(s)] = b]
      /\ active' = ActiveAfter(s)
  BY <1>4, <1>5 DEF Write
<1>8. /\ \A j \in 0..1 : slot'[s][j] # NoBlock => active'[slot'[s][j]]
      /\ slot'[s][0] # NoBlock => slot'[s][0] # slot'[s][1]
  <2>1. CASE Fresh(s)
    <3>1. b = Head(freeList) /\ b \notin used /\ SlotOf(s) = 1 - i
      BY <1>2, <1>4, <1>5, <2>1, WritePlace DEF SlotOf
    <3>2. 1 - i \in 0..1 /\ 1 - i # i /\ \A j \in 0..1 : j = i \/ j = 1 - i
      BY <1>2
    <3>3. slot'[s][1 - i] = b /\ slot'[s][i] = slot[s][i]
      BY <1>3, <1>7, <3>1, <3>2
    <3>4. \A x \in Blocks : active'[x] = (x = b \/ (active[x] /\ x # slot[s][1 - i]))
      BY <1>2, <1>7, <2>1, <3>1 DEF ActiveAfter
    <3>5. slot[s][i] # NoBlock => slot[s][i] # slot[s][1 - i]
      BY <1>2, <1>3
    <3>6. slot[s][i] # b
      BY <1>6, <3>1, SentinelAssumption
    <3>7. \A j \in 0..1 : slot'[s][j] # NoBlock => active'[slot'[s][j]]
      <4>1. active'[b]
        BY <3>4
      <4>2. slot[s][i] # NoBlock => active'[slot[s][i]]
        BY <1>3, <3>4, <3>5
      <4> QED BY <3>2, <3>3, <4>1, <4>2
    <3> QED BY <1>2, <3>2, <3>3, <3>6, <3>7
  <2>2. CASE ~Fresh(s)
    <3>1. SlotOf(s) = i /\ b = slot[s][i]
      BY <1>2, <1>4, <1>5, <2>2, WritePlace DEF SlotOf
    <3>2. slot' = slot
      BY <1>3, <1>7, <3>1
    <3>3. active' = active
      BY <1>7, <2>2 DEF ActiveAfter
    <3> QED BY <1>3, <3>2, <3>3
  <2> QED BY <2>1, <2>2
<1>9. Fresh(s)' /\ slot'[s][cur'[s]] # NoBlock => PagesPerBlock - 1 \in valid'[slot'[s][cur'[s]]]
  <2>1. slot'[s][cur'[s]] = b /\ page'[s] = PageOf(s) + 1
    BY <1>4, <1>5, StreamsAfter
  <2>2. PageOf(s) \in valid'[b]
    BY <1>4, <1>5, WrittenValid
  <2>3. PageOf(s) + 1 = PagesPerBlock => PageOf(s) = PagesPerBlock - 1
    BY <1>4, WritePlace, ConstantFacts
  <2> QED BY <2>1, <2>2, <2>3 DEF Fresh, Full
<1> QED BY <1>1, <1>8, <1>9 DEF MarksKept, Fresh

LEMMA MarksStep ==
  ASSUME IInv, MarksKept, [Next]_vars
  PROVE  MarksKept'
<1>1. CASE UNCHANGED <<slot, cur, page, active, valid>>
  BY <1>1 DEF MarksKept, Fresh
<1>2. CASE Meta /\ \E n \in LPN : Write("META", n)
  BY <1>2, MarksWrite DEF IInv
<1>3. CASE ~Meta
  BY <1>3 DEF MarksKept
<1>4. CASE Meta /\ \E c \in copies : GCWrite(c)
  <2>1. PICK c \in copies : c.status = "WRITE_WAIT" /\ Write("META", c.lpn)
    BY <1>4 DEF GCWrite, CopyStream
  <2>2. c.lpn \in LPN
    BY <2>1, CopyFacts
  <2> QED BY <1>2, <1>4, <2>1, <2>2
<1>5. CASE Meta /\ \E n \in LPN : WritePage(n)
  BY <1>2, <1>5 DEF WritePage, WriteStream
<1>6. ASSUME Next PROVE \/ UNCHANGED <<slot, cur, page, active, valid>>
                        \/ \E c \in copies : GCWrite(c)
                        \/ \E n \in LPN : WritePage(n)
  BY <1>6 DEF Next, GCReadDone, GCWriteDone, DoneEnds, WriteEnds, CopyEnds, StartGC, NoStartGC,
              MetaGCStarts, GCRead, GCReadNothing, NoGCRead, blockVars, pageVars, slotVars
<1> QED BY <1>1, <1>3, <1>4, <1>5, <1>6 DEF vars, blockVars, pageVars, slotVars

\* "active block" (dftl_block.h:61), of the meta blocks: the block that is being
\* written and the one that leaves a slot are marked, though their manager marks every
\* block at the start and clears the mark of one block at a time.
THEOREM MetaBlocksMarked ==
  ASSUME Meta
  PROVE  Spec => []ActiveMarked
<1>1. Init => MarksKept
  <2>1. ASSUME Init, Meta PROVE MarksKept
    <3>1. \A i \in 0..1 : slot["META"][i] = NoBlock
      BY <2>1 DEF Init, Streams
    <3>2. cur["META"] = 0
      BY <2>1 DEF Init, Streams
    <3> QED BY <3>1, <3>2 DEF MarksKept
  <2> QED BY <2>1
<1>2. IInv /\ MarksKept /\ [Next]_vars => MarksKept'
  BY MarksStep
<1>3. ASSUME IInv, MarksKept PROVE ActiveMarked
  <2>1. SUFFICES ASSUME NEW s \in Streams
                 PROVE  /\ Current(s) # NoBlock => active[Current(s)]
                        /\ Fresh(s) /\ slot[s][1 - cur[s]] # NoBlock => active[slot[s][1 - cur[s]]]
    BY DEF ActiveMarked
  <2>2. s = "META" /\ cur[s] \in 0..1
    BY <1>3, TypeFacts DEF Streams, IInv, Core
  <2>3. 1 - cur[s] \in 0..1
    BY <2>2
  <2> QED BY <1>3, <2>2, <2>3 DEF MarksKept, Current
<1>4. IInv /\ MarksKept => ActiveMarked
  BY <1>3
<1> QED BY Invariant, <1>1, <1>2, <1>4, PTL DEF Spec

(***************************************************************************)
(* Space. How far the LPNs can fill the blocks is a matter of counting,    *)
(* and so there is a victim when a collection is due. What the user block  *)
(* manager can still write is counted in pages (Space): a write takes one, *)
(* and only a block that is given back adds some. A collection ends with   *)
(* more than it started with, by what the host may write before the next   *)
(* one starts, so that each starts with what its copies need.              *)
(***************************************************************************)

\* A queue without repetitions is as long as it has elements.
LEMMA InjectiveLength ==
  ASSUME NEW S, NEW q \in Seq(S), Injective(q)
  PROVE  /\ Len(q) \in Nat
         /\ IsFiniteSet(ToSet(q))
         /\ Len(q) = Cardinality(ToSet(q))
<1>1. Len(q) \in Nat /\ DOMAIN q = 1..Len(q) /\ q \in [1..Len(q) -> S]
  OBVIOUS
<1>2. q \in Bijection(1..Len(q), ToSet(q))
  <2>1. \A x \in ToSet(q) : \E i \in 1..Len(q) : q[i] = x
    BY ToSetMember
  <2>2. q \in [1..Len(q) -> ToSet(q)]
    <3>1. \A i \in 1..Len(q) : q[i] \in ToSet(q)
      BY ToSetMember
    <3>2. q = [i \in 1..Len(q) |-> q[i]]
      BY <1>1
    <3> QED BY <3>1, <3>2
  <2>3. IsInjective(q)
    BY DEF Injective, IsInjective
  <2> QED BY <2>1, <2>2, <2>3 DEF Bijection, Injection, Surjection
<1>3. ExistsBijection(1..Len(q), ToSet(q))
  BY <1>2 DEF ExistsBijection
<1>4. IsFiniteSet(ToSet(q))
  BY <1>1, <1>3, FS_NatBijection
<1>5. Cardinality(ToSet(q)) = Len(q)
  BY <1>1, <1>3, FS_CountingElements
<1> QED BY <1>1, <1>4, <1>5

\* No page holds two LPNs, no LPN is valid in two pages: if each of some blocks has k
\* valid pages, there are k times as many LPNs.
LEMMA LPNsFillBlocks ==
  ASSUME Core, IsFiniteSet(LPN), NEW S \in SUBSET Blocks, NEW k \in Nat,
         \A b \in S : Cardinality(valid[b]) >= k
  PROVE  Cardinality(S) * k <= Cardinality(LPN)
<1> DEFINE pages == [b \in S |-> CHOOSE h : h \in Bijection(1..Cardinality(valid[b]), valid[b])]
           lpn == [x \in S \X (1..k) |-> v2l[x[1]][pages[x[1]][x[2]]]]
<1>1. ASSUME NEW b \in S
      PROVE  pages[b] \in Bijection(1..Cardinality(valid[b]), valid[b])
  <2>1. IsFiniteSet(valid[b])
    BY TypeFacts DEF Core
  <2>2. \E h : h \in Bijection(1..Cardinality(valid[b]), valid[b])
    BY <2>1, FS_CardinalityType DEF ExistsBijection
  <2> QED BY <2>2
<1> HIDE DEF pages
<1>2. ASSUME NEW b \in S, NEW i \in 1..k
      PROVE  /\ pages[b][i] \in valid[b]
             /\ \A j \in 1..k : pages[b][i] = pages[b][j] => i = j
  <2>1. PICK m \in Nat : m = Cardinality(valid[b]) /\ m >= k
    BY TypeFacts DEF Core
  <2>2. pages[b] \in Bijection(1..m, valid[b])
    BY <1>1, <2>1
  <2>3. \A j \in 1..k : j \in 1..m
    BY <2>1
  <2> QED BY <2>2, <2>3 DEF Bijection, Injection, IsInjective
<1>3. ASSUME NEW b \in S, NEW i \in 1..k, NEW p, p = pages[b][i]
      PROVE  v2l[b][p] \in LPN /\ l2v[v2l[b][p]] = [block |-> b, page |-> p]
  <2>1. p \in valid[b] /\ p \in Pages
    BY <1>2, <1>3, TypeFacts DEF Core
  <2>2. v2l[b][p] # NoLPN /\ l2v[v2l[b][p]] = [block |-> b, page |-> p]
    BY <2>1 DEF Core, CountsMatchMapping, MappedPages
  <2> QED BY <2>1, <2>2, TypeFacts DEF Core
<1>4. \A x \in S \X (1..k) : x[1] \in S /\ x[2] \in 1..k /\ x = <<x[1], x[2]>>
  OBVIOUS
<1>5. lpn \in Injection(S \X (1..k), LPN)
  <2>1. lpn \in [S \X (1..k) -> LPN]
    BY <1>3, <1>4
  <2>2. ASSUME NEW x \in S \X (1..k), NEW y \in S \X (1..k), lpn[x] = lpn[y]
        PROVE  x = y
    <3>1. PICK b \in S, i \in 1..k : x = <<b, i>>
      OBVIOUS
    <3>2. PICK c \in S, j \in 1..k : y = <<c, j>>
      OBVIOUS
    <3>3. v2l[b][pages[b][i]] = v2l[c][pages[c][j]]
      BY <2>2, <3>1, <3>2
    <3>4. [block |-> b, page |-> pages[b][i]] = [block |-> c, page |-> pages[c][j]]
      BY <1>3, <3>3
    <3>5. b = c /\ pages[b][i] = pages[c][j]
      BY <3>4
    <3> QED BY <1>2, <3>1, <3>2, <3>5
  <2>3. DOMAIN lpn = S \X (1..k)
    OBVIOUS
  <2> HIDE DEF lpn
  <2> QED BY <2>1, <2>2, <2>3 DEF Injection, IsInjective
<1> HIDE DEF lpn
<1>6. Cardinality(S \X (1..k)) <= Cardinality(LPN)
  BY <1>5, FS_Injection
<1>7. IsFiniteSet(S) /\ IsFiniteSet(1..k) /\ Cardinality(1..k) = k
  <2>1. IsFiniteSet(S)
    BY SizesAssumption, FS_Subset
  <2> QED BY <2>1, FS_Interval
<1>8. Cardinality(S \X (1..k)) = Cardinality(S) * Cardinality(1..k)
  BY <1>7, FS_Product
<1> QED BY <1>6, <1>7, <1>8

\* The lengths of the two lists: what is not free is in use.
LEMMA ListLengths ==
  ASSUME NEW q \in Seq(Blocks), IsInjective(q), NEW U \in SUBSET Blocks,
         ToSet(q) \intersect U = {}, ToSet(q) \union U = Blocks
  PROVE  /\ IsFiniteSet(U) /\ Cardinality(U) \in Nat
         /\ Cardinality(Blocks) \in Nat
         /\ Len(q) \in Nat
         /\ Len(q) = Cardinality(Blocks) - Cardinality(U)
         /\ q = <<>> <=> Len(q) = 0
<1>1. Injective(q)
  BY DEF IsInjective, Injective
<1>2. Len(q) \in Nat /\ IsFiniteSet(ToSet(q)) /\ Len(q) = Cardinality(ToSet(q))
  BY <1>1, InjectiveLength
<1>3. IsFiniteSet(Blocks) /\ IsFiniteSet(U)
  BY SizesAssumption, FS_Subset
<1>4. Cardinality(Blocks) \in Nat /\ Cardinality(U) \in Nat
  BY <1>3, FS_CardinalityType
<1>5. Cardinality(Blocks) = Cardinality(ToSet(q)) + Cardinality(U) - Cardinality(ToSet(q) \intersect U)
  BY <1>2, <1>3, FS_Union
<1>6. Cardinality(ToSet(q) \intersect U) = 0
  BY FS_EmptySet
<1>7. q = <<>> <=> Len(q) = 0
  OBVIOUS
<1> QED BY <1>2, <1>3, <1>4, <1>5, <1>6, <1>7

LEMMA FreeLength ==
  ASSUME Core
  PROVE  /\ IsFiniteSet(used) /\ Cardinality(used) \in Nat
         /\ Cardinality(Blocks) \in Nat
         /\ Len(freeList) \in Nat
         /\ Len(freeList) = Cardinality(Blocks) - Cardinality(used)
         /\ freeList = <<>> <=> Len(freeList) = 0
BY ListLengths DEF Core, TypeOK, ListsPartition

\* A write takes a block off the list if it has to, and may give one back.
LEMMA FreeLengthAfter ==
  ASSUME Core, Core', NEW s \in Streams, NEW n \in LPN, Write(s, n)
  PROVE  /\ Len(freeList') \in Nat
         /\ Len(freeList') = Len(freeList) - (IF Fresh(s) THEN 1 ELSE 0)
                                           + (IF Released(s, n) = {} THEN 0 ELSE 1)
<1>1. /\ Fresh(s) => freeList # <<>>
      /\ used' = (used \union {BlockOf(s)}) \ Released(s, n)
  BY DEF Write, UsedAfter
<1>2. PICK b \in Blocks : b = BlockOf(s)
  BY <1>1, WritePlace
<1>3. b \in used <=> ~Fresh(s)
  BY <1>1, <1>2, WritePlace
<1>4. PICK U : U = used
  OBVIOUS
<1>5. IsFiniteSet(U) /\ Cardinality(U) \in Nat
  BY <1>4, FreeLength
<1>6. /\ IsFiniteSet(U \union {b})
      /\ Cardinality(U \union {b}) = IF b \in U THEN Cardinality(U) ELSE Cardinality(U) + 1
  BY <1>5, FS_AddElement
<1>7. Cardinality(used') = Cardinality(U \union {b}) - (IF Released(s, n) = {} THEN 0 ELSE 1)
  <2>1. CASE Released(s, n) = {}
    <3>1. used' = U \union {b}
      BY <1>1, <1>2, <1>4, <2>1
    <3> QED BY <1>5, <1>6, <2>1, <3>1
  <2>2. CASE Released(s, n) # {}
    <3>1. PICK r : Released(s, n) = {r}
      BY <2>2 DEF Released
    <3>2. r \in U \union {b} /\ used' = (U \union {b}) \ {r}
      BY <1>1, <1>2, <1>4, <3>1, ReleasedFacts
    <3>3. Cardinality((U \union {b}) \ {r}) = Cardinality(U \union {b}) - 1
      BY <1>6, <3>2, FS_RemoveElement
    <3> QED BY <2>2, <3>2, <3>3
  <2> QED BY <2>1, <2>2
<1>8. /\ Len(freeList) = Cardinality(Blocks) - Cardinality(U)
      /\ Len(freeList') = Cardinality(Blocks) - Cardinality(used')
      /\ Len(freeList') \in Nat /\ Cardinality(Blocks) \in Nat
  <2>1. Len(freeList) = Cardinality(Blocks) - Cardinality(U) /\ Cardinality(Blocks) \in Nat
    BY <1>4, FreeLength
  <2>2. Len(freeList') = Cardinality(Blocks) - Cardinality(used') /\ Len(freeList') \in Nat
    BY ListLengths DEF Core, TypeOK, ListsPartition
  <2> QED BY <2>1, <2>2
<1> QED BY <1>3, <1>4, <1>5, <1>6, <1>7, <1>8

\* The blocks that the slots of the streams can keep from the collector.
SlotCount == IF Meta THEN 2 ELSE 4

\* Spare blocks: even if the free list is down to the threshold and the blocks of the
\* slots hold nothing, the LPNs do not fill the others so far that each of them has less
\* than k invalid pages.
Spare(k) ==
  /\ IsFiniteSet(LPN)
  /\ Cardinality(Blocks) > Threshold + SlotCount
  /\ Cardinality(LPN) < (Cardinality(Blocks) - Threshold - SlotCount) * (PagesPerBlock - k + 1)

\* A block in use that is marked is in a slot: one that leaves loses its mark.
MarkedInSlot ==
  \A b \in used : active[b] => \E s \in Streams, i \in 0..1 : slot[s][i] = b

InSlots == {slot[s][i] : s \in Streams, i \in 0..1}

LEMMA FourAtMost ==
  ASSUME NEW a, NEW b, NEW c, NEW d
  PROVE  /\ IsFiniteSet({a, b, c, d})
         /\ Cardinality({a, b, c, d}) \in Nat
         /\ Cardinality({a, b, c, d}) <= 4
<1>1. IsFiniteSet({a}) /\ Cardinality({a}) = 1
  BY FS_Singleton
<1>2. IsFiniteSet({a, b}) /\ Cardinality({a, b}) <= 2
  <2>1. {a, b} = {a} \union {b}
    OBVIOUS
  <2> QED BY <1>1, <2>1, FS_AddElement
<1>3. IsFiniteSet({a, b, c}) /\ Cardinality({a, b, c}) <= 3
  <2>1. {a, b, c} = {a, b} \union {c}
    OBVIOUS
  <2>2. Cardinality({a, b}) \in Nat
    BY <1>2, FS_CardinalityType
  <2> QED BY <1>2, <2>1, <2>2, FS_AddElement
<1>4. IsFiniteSet({a, b, c, d}) /\ Cardinality({a, b, c, d}) <= 4
  <2>1. {a, b, c, d} = {a, b, c} \union {d}
    OBVIOUS
  <2>2. Cardinality({a, b, c}) \in Nat
    BY <1>3, FS_CardinalityType
  <2> QED BY <1>3, <2>1, <2>2, FS_AddElement
<1> QED BY <1>4, FS_CardinalityType

LEMMA ProductGrows ==
  ASSUME NEW a \in Nat, NEW c \in Nat, NEW k \in Nat, a <= c
  PROVE  a * k <= c * k
OBVIOUS

LEMMA SlotsCounted ==
  ASSUME Core
  PROVE  /\ IsFiniteSet(InSlots) /\ Cardinality(InSlots) \in Nat
         /\ Cardinality(InSlots) <= SlotCount
<1>1. CASE Meta
  <2>1. InSlots = {slot["META"][0], slot["META"][1]}
    BY <1>1 DEF InSlots, Streams
  <2>2. IsFiniteSet({slot["META"][0]}) /\ Cardinality({slot["META"][0]}) = 1
    BY FS_Singleton
  <2>3. InSlots = {slot["META"][0]} \union {slot["META"][1]}
    BY <2>1
  <2>4. IsFiniteSet(InSlots) /\ Cardinality(InSlots) \in {1, 2}
    BY <2>2, <2>3, FS_AddElement
  <2> QED BY <1>1, <2>4 DEF SlotCount
<1>2. CASE ~Meta
  <2>1. InSlots = {slot["HOST"][0], slot["HOST"][1], slot["GC"][0], slot["GC"][1]}
    BY <1>2 DEF InSlots, Streams
  <2> QED BY <1>2, <2>1, FourAtMost DEF SlotCount
<1> QED BY <1>1, <1>2

\* When the free list is down to the threshold, some block that the collector may take
\* has k invalid pages.
LEMMA BlockToCollect ==
  ASSUME Core, MarkedInSlot, NEW g \in 1..PagesPerBlock, Spare(g), Len(freeList) <= Threshold
  PROVE  \E b \in Candidates : invalid[b] >= g
<1>1. SUFFICES ASSUME \A b \in Candidates : ~ (invalid[b] >= g) PROVE FALSE
  OBVIOUS
<1> DEFINE S == used \ InSlots
           k == PagesPerBlock - g + 1
           a == Cardinality(Blocks) - Threshold - SlotCount
<1>2. g \in Nat \ {0} /\ g <= PagesPerBlock /\ PagesPerBlock \in Nat /\ Threshold \in Nat
  BY SizesAssumption
<1>11. SlotCount \in Nat
  BY DEF SlotCount
<1>3. S \subseteq Blocks
  BY DEF Core, TypeOK
<1>4. ASSUME NEW b \in S PROVE Cardinality(valid[b]) >= k
  <2>1. b \in Blocks /\ b \in used /\ b # NoBlock
    BY <1>3, SentinelAssumption
  <2>2. \A s \in Streams, i \in 0..1 : slot[s][i] # b
    BY <1>4 DEF InSlots
  <2>3. \A s \in Streams : Current(s) # b
    BY <2>1, <2>2, TypeFacts DEF Current, Core
  <2>4. Unwritten(b) = {}
    BY <2>1, <2>3, UnwrittenFacts DEF Core
  <2>5. Cardinality(Unwritten(b)) = 0
    BY <2>4, FS_EmptySet
  <2>6. ~active[b]
    BY <2>1, <2>2 DEF MarkedInSlot
  <2>7. invalid[b] = PagesPerBlock - Cardinality(valid[b]) - Cardinality(Unwritten(b))
    BY <2>1 DEF Core, CountsMatchMapping
  <2>8. Cardinality(valid[b]) \in Nat /\ invalid[b] \in Nat
    BY <2>1, TypeFacts DEF Core
  <2>9. invalid[b] < g
    <3>1. CASE invalid[b] = 0
      BY <1>2, <3>1
    <3>2. CASE invalid[b] > 0
      <4>1. b \in Candidates
        BY <2>1, <2>6, <3>2 DEF Candidates
      <4>2. ~ (invalid[b] >= g)
        BY <1>1, <4>1
      <4> QED BY <1>2, <2>8, <4>2
    <3> QED BY <2>8, <3>1, <3>2
  <2> QED BY <1>2, <2>5, <2>7, <2>8, <2>9
<1>5. k \in Nat /\ a \in Nat /\ Cardinality(LPN) < a * k
  <2>1. Cardinality(Blocks) \in Nat
    BY FreeLength
  <2> QED BY <1>2, <1>11, <2>1 DEF Spare
<1>6. IsFiniteSet(S) /\ Cardinality(S) \in Nat /\ a <= Cardinality(S)
  <2>1. /\ IsFiniteSet(used) /\ Cardinality(used) \in Nat
        /\ Len(freeList) = Cardinality(Blocks) - Cardinality(used)
        /\ Len(freeList) \in Nat /\ Cardinality(Blocks) \in Nat
    BY FreeLength
  <2>2. IsFiniteSet(S) /\ Cardinality(S) = Cardinality(used) - Cardinality(used \intersect InSlots)
    BY <2>1, FS_Difference
  <2>3. IsFiniteSet(InSlots) /\ Cardinality(InSlots) \in Nat /\ Cardinality(InSlots) <= SlotCount
    BY SlotsCounted
  <2>4. /\ IsFiniteSet(InSlots \intersect used)
        /\ Cardinality(used \intersect InSlots) <= Cardinality(InSlots)
    BY <2>3, FS_Intersection
  <2>5. Cardinality(used \intersect InSlots) \in Nat
    BY <2>1, FS_Intersection, FS_CardinalityType
  <2>6. Cardinality(S) \in Nat
    BY <2>2, FS_CardinalityType
  <2> QED BY <1>2, <1>11, <2>1, <2>2, <2>3, <2>4, <2>5, <2>6
<1> HIDE DEF S, k, a
<1>7. Cardinality(S) * k <= Cardinality(LPN)
  BY <1>3, <1>4, <1>5, LPNsFillBlocks DEF Spare
<1>8. a * k <= Cardinality(S) * k
  BY <1>5, <1>6, ProductGrows
<1>9. Cardinality(LPN) \in Nat
  BY FS_CardinalityType DEF Spare
<1>10. a * k \in Nat /\ Cardinality(S) * k \in Nat
  BY <1>5, <1>6
<1> QED BY <1>5, <1>7, <1>8, <1>9, <1>10

\* The greedy choice finds such a block.
LEMMA GreedyVictim ==
  ASSUME Core, MarkedInSlot, NEW g \in 1..PagesPerBlock, Spare(g), Len(freeList) <= Threshold
  PROVE  Victims # {} /\ \A b \in Victims : invalid[b] >= g
<1>1. PICK c \in Candidates : invalid[c] >= g
  BY BlockToCollect
<1>2. \A b \in Candidates : invalid[b] \in Nat /\ PagesPerBlock - invalid[b] \in Nat
  <2>1. Candidates \subseteq Blocks
    BY DEF Candidates, Core, TypeOK
  <2> QED BY <2>1, TypeFacts, ConstantFacts DEF Core
<1> DEFINE rest == {PagesPerBlock - invalid[b] : b \in Candidates}
<1>3. PICK i \in rest : \A j \in rest : i <= j
  <2>1. rest \subseteq Nat /\ rest # {}
    BY <1>1, <1>2
  <2> QED BY <2>1, LeastPosition
<1>4. PICK b \in Candidates : i = PagesPerBlock - invalid[b]
  OBVIOUS
<1>5. \A d \in Candidates : invalid[d] <= invalid[b]
  <2>1. TAKE d \in Candidates
  <2>2. PagesPerBlock - invalid[b] <= PagesPerBlock - invalid[d]
    BY <1>3, <1>4
  <2> QED BY <1>2, <2>2, ConstantFacts
<1>6. b \in Victims
  BY <1>5 DEF Victims
<1>7. ASSUME NEW d \in Victims PROVE invalid[d] >= g
  <2>1. d \in Candidates /\ invalid[c] <= invalid[d]
    BY <1>1, <1>7 DEF Victims
  <2> QED BY <1>1, <1>2, <2>1, SizesAssumption
<1> QED BY <1>6, <1>7

\* A drive with spare blocks: whatever is collected gives back what the host writes in
\* two turns of the loop.
SpareBlocks ==
  /\ 2 * TurnLimit <= PagesPerBlock
  /\ Spare(2 * TurnLimit)

LEMMA VictimPays ==
  ASSUME Core, MarkedInSlot, SpareBlocks, Len(freeList) <= Threshold
  PROVE  Victims # {} /\ \A b \in Victims : invalid[b] >= 2 * TurnLimit
<1>1. 2 * TurnLimit \in 1..PagesPerBlock
  BY SizesAssumption DEF SpareBlocks
<1> QED BY <1>1, GreedyVictim DEF SpareBlocks

\* The pages that can be written before a block has to be given back.
Room(s) == PagesPerBlock - page[s]
Space == PagesPerBlock * Len(freeList) + Room("HOST") + Room("GC")

\* What is left of it when a collection starts: with no free block at all, enough in
\* the block of the collector for the copies.
Least == 2 * PagesPerBlock - 1 - 2 * TurnLimit

\* The pages that the host may still write before the next collection starts: those of
\* this turn, and of one more, since a collection of the meta blocks may come between,
\* which ends before the host's turn to write.
Due == IF phase = "check" THEN 0 ELSE IF phase = "write" THEN TurnLimit - written ELSE TurnLimit

Owed ==
  CASE metaGC = "idle"    -> Due + TurnLimit
    [] metaGC = "running" -> TurnLimit
    [] metaGC = "ended"   -> Due

\* The pages that the collection has written.
MovedCopies == {c \in copies : c.status = "WRITE_DONE"}
Moved == writeCount + Cardinality(MovedCopies)

\* Each page that is written leaves one less valid in the victim, and the last one gives
\* the victim back; a collection takes one block from the free list at most.
CollectionSpace ==
  /\ vpc + 2 * TurnLimit <= PagesPerBlock
  /\ Moved <= vpc
  /\ Moved < vpc =>
       /\ victim \in used
       /\ invalid[victim] = PagesPerBlock - vpc + Moved
       /\ freeList # <<>> \/ Room("GC") >= vpc - Moved
       /\ Space + Moved >= Least
  /\ Moved = vpc => Space + vpc >= Least + PagesPerBlock

SpaceInv ==
  /\ MarkedInSlot
  /\ IF GCRunning THEN CollectionSpace ELSE Space >= Least + Owed

LEMMA SpaceFacts ==
  ASSUME Core, ~Meta
  PROVE  /\ Streams = {"HOST", "GC"} /\ WriteStream = "HOST" /\ CopyStream = "GC"
         /\ \A s \in Streams : Room(s) \in 0..(PagesPerBlock - 1)
         /\ \A s \in Streams : Fresh(s) <=> Room(s) = 0
         /\ Len(freeList) \in Nat
         /\ freeList = <<>> <=> Len(freeList) = 0
         /\ PagesPerBlock * Len(freeList) \in Nat
         /\ Space \in Nat
<1>1. Streams = {"HOST", "GC"} /\ WriteStream = "HOST" /\ CopyStream = "GC"
  BY DEF Streams, WriteStream, CopyStream
<1>2. \A s \in Streams : page[s] \in 1..PagesPerBlock
  BY TypeFacts, ConstantFacts DEF Core, PageStarted
<1>3. /\ \A s \in Streams : Room(s) \in 0..(PagesPerBlock - 1)
      /\ \A s \in Streams : Fresh(s) <=> Room(s) = 0
  BY <1>2, ConstantFacts DEF Room, Fresh, Full
<1>4. Len(freeList) \in Nat /\ (freeList = <<>> <=> Len(freeList) = 0)
  BY FreeLength
<1>5. PagesPerBlock * Len(freeList) \in Nat
  BY <1>4, ConstantFacts
<1>6. Space \in Nat
  BY <1>1, <1>3, <1>5 DEF Space
<1> QED BY <1>1, <1>3, <1>4, <1>5, <1>6

LEMMA OwedFacts ==
  ASSUME Core
  PROVE  /\ TurnLimit \in Nat \ {0} /\ PagesPerBlock \in Nat \ {0} /\ Threshold \in Nat \ {0}
         /\ Due \in 0..TurnLimit
         /\ Owed \in 0..(2 * TurnLimit)
<1>1. TurnLimit \in Nat \ {0} /\ PagesPerBlock \in Nat \ {0} /\ Threshold \in Nat \ {0}
  BY SizesAssumption
<1>2. written \in 0..TurnLimit /\ metaGC \in {"idle", "running", "ended"}
  BY DEF Core, TypeOK
<1>3. Due \in 0..TurnLimit
  BY <1>1, <1>2 DEF Due
<1>4. Owed \in 0..(2 * TurnLimit)
  BY <1>1, <1>2, <1>3 DEF Owed
<1> QED BY <1>1, <1>3, <1>4

LEMMA ProductStep ==
  ASSUME NEW p \in Nat, NEW k \in Nat
  PROVE  p * (k + 1) = p * k + p
OBVIOUS

\* A write takes a page of the space, unless it gives a block back.
LEMMA SpaceAfter ==
  ASSUME Core, Core', ~Meta, NEW s \in Streams, NEW n \in LPN, Write(s, n)
  PROVE  /\ Space' = Space - 1 + (IF Released(s, n) = {} THEN 0 ELSE PagesPerBlock)
         /\ Room(s)' = IF Fresh(s) THEN PagesPerBlock - 1 ELSE Room(s) - 1
         /\ \A t \in Streams \ {s} : Room(t)' = Room(t)
         /\ ~Fresh(s) /\ Released(s, n) = {} => Len(freeList') = Len(freeList)
<1>1. /\ page'[s] = PageOf(s) + 1
      /\ \A t \in Streams \ {s} : page'[t] = page[t]
  BY StreamsAfter
<1>2. Fresh(s) => PageOf(s) = 0 /\ page[s] = PagesPerBlock
  BY DEF PageOf, Fresh, Full
<1>3. ~Fresh(s) => PageOf(s) = page[s]
  BY DEF PageOf
<1>4. page[s] \in 0..PagesPerBlock /\ PagesPerBlock \in Nat \ {0}
  BY TypeFacts, ConstantFacts DEF Core
<1>5. Room(s)' = IF Fresh(s) THEN PagesPerBlock - 1 ELSE Room(s) - 1
  BY <1>1, <1>2, <1>3, <1>4 DEF Room
<1>6. \A t \in Streams \ {s} : Room(t)' = Room(t)
  BY <1>1 DEF Room
<1>7. /\ Len(freeList') \in Nat
      /\ Len(freeList') = Len(freeList) - (IF Fresh(s) THEN 1 ELSE 0)
                                        + (IF Released(s, n) = {} THEN 0 ELSE 1)
  BY FreeLengthAfter
<1>8. PICK k \in Nat, l \in Nat : k = Len(freeList) /\ l = Len(freeList')
  BY <1>7, FreeLength
<1>9. PagesPerBlock * l = PagesPerBlock * k - (IF Fresh(s) THEN PagesPerBlock ELSE 0)
                                            + (IF Released(s, n) = {} THEN 0 ELSE PagesPerBlock)
  <2>1. PICK x \in Nat, y \in Nat : x = PagesPerBlock * k /\ y = PagesPerBlock * l
    BY <1>4
  <2>2. l = k => y = x
    BY <2>1
  <2>3. l = k + 1 => y = x + PagesPerBlock
    BY <1>4, <2>1, ProductStep
  <2>4. k = l + 1 => x = y + PagesPerBlock
    BY <1>4, <2>1, ProductStep
  <2>5. \/ l = k /\ (Fresh(s) <=> Released(s, n) # {})
        \/ l = k + 1 /\ ~Fresh(s) /\ Released(s, n) # {}
        \/ k = l + 1 /\ Fresh(s) /\ Released(s, n) = {}
    BY <1>7, <1>8
  <2>6. y = x - (IF Fresh(s) THEN PagesPerBlock ELSE 0)
              + (IF Released(s, n) = {} THEN 0 ELSE PagesPerBlock)
    BY <1>4, <2>2, <2>3, <2>4, <2>5
  <2> QED BY <2>1, <2>6
<1>10. Room(s)' = Room(s) - 1 + (IF Fresh(s) THEN PagesPerBlock ELSE 0)
  BY <1>2, <1>4, <1>5 DEF Room
<1>11. Room("HOST") \in Int /\ Room("GC") \in Int /\ Streams = {"HOST", "GC"}
  BY SpaceFacts
<1>12. Room("HOST")' + Room("GC")' =
         Room("HOST") + Room("GC") - 1 + (IF Fresh(s) THEN PagesPerBlock ELSE 0)
  BY <1>4, <1>6, <1>10, <1>11
<1>13. PagesPerBlock * k \in Int /\ PagesPerBlock * l \in Int
  BY <1>4
<1>14. Room("HOST")' \in Int /\ Room("GC")' \in Int
  BY <1>4, <1>6, <1>10, <1>11
<1>15. /\ Space = PagesPerBlock * k + Room("HOST") + Room("GC")
       /\ Space' = PagesPerBlock * l + Room("HOST")' + Room("GC")'
  BY <1>8 DEF Space
<1>16. Space' = Space - 1 + (IF Released(s, n) = {} THEN 0 ELSE PagesPerBlock)
  <2>1. PICK x \in Int, y \in Int : x = PagesPerBlock * k /\ y = PagesPerBlock * l
    BY <1>13
  <2>2. PICK h \in Int, g \in Int : h = Room("HOST") /\ g = Room("GC")
    BY <1>11
  <2>3. PICK i \in Int, j \in Int : i = Room("HOST")' /\ j = Room("GC")'
    BY <1>14
  <2>4. Space = x + h + g /\ Space' = y + i + j
    BY <1>15, <2>1, <2>2, <2>3
  <2>5. i + j = h + g - 1 + (IF Fresh(s) THEN PagesPerBlock ELSE 0)
    BY <1>12, <2>2, <2>3
  <2>6. y = x - (IF Fresh(s) THEN PagesPerBlock ELSE 0) + (IF Released(s, n) = {} THEN 0 ELSE PagesPerBlock)
    BY <1>9, <2>1
  <2> QED BY <1>4, <2>4, <2>5, <2>6
<1>17. ~Fresh(s) /\ Released(s, n) = {} => Len(freeList') = Len(freeList)
  BY <1>7, FreeLength
<1> QED BY <1>5, <1>6, <1>16, <1>17

LEMMA MarkedInSlotAfter ==
  ASSUME Core, MarkedInSlot, NEW s \in Streams, NEW n \in LPN, Write(s, n)
  PROVE  MarkedInSlot'
<1>1. /\ slot' = [slot EXCEPT ![s][SlotOf(s)] = BlockOf(s)]
      /\ active' = ActiveAfter(s)
      /\ slot \in [Streams -> [0..1 -> Blocks \union {NoBlock}]]
      /\ Fresh(s) => freeList # <<>>
      /\ used \subseteq Blocks
      /\ \A b \in used' : b \in used \/ b = BlockOf(s)
  BY DEF Write, Core, TypeOK, UsedAfter
<1>2. cur[s] \in 0..1
  BY TypeFacts DEF Core
<1>3. CASE Fresh(s)
  <2>1. SlotOf(s) = 1 - cur[s] /\ SlotOf(s) \in 0..1 /\ BlockOf(s) = Head(freeList)
    BY <1>2, <1>3 DEF SlotOf, BlockOf
  <2>2. /\ slot'[s][SlotOf(s)] = BlockOf(s)
        /\ \A t \in Streams, i \in 0..1 : t # s \/ i # SlotOf(s) => slot'[t][i] = slot[t][i]
    BY <1>1, <2>1
  <2>3. ASSUME NEW b \in used', active'[b]
        PROVE  \E t \in Streams, i \in 0..1 : slot'[t][i] = b
    <3>1. b = Head(freeList) \/ (b \in used /\ active[b] /\ b # slot[s][SlotOf(s)])
      <4>1. b = Head(freeList) \/ b \in used
        BY <1>1, <2>1
      <4>2. b \in used => b \in Blocks
        BY <1>1
      <4> QED BY <1>1, <1>3, <2>1, <2>3, <4>1, <4>2 DEF ActiveAfter
    <3>2. CASE b = Head(freeList)
      BY <2>1, <2>2, <3>2
    <3>3. CASE b \in used /\ active[b] /\ b # slot[s][SlotOf(s)]
      <4>1. PICK t \in Streams, i \in 0..1 : slot[t][i] = b
        BY <3>3 DEF MarkedInSlot
      <4> QED BY <2>2, <3>3, <4>1
    <3> QED BY <3>1, <3>2, <3>3
  <2> QED BY <2>3 DEF MarkedInSlot
<1>4. CASE ~Fresh(s)
  <2>1. SlotOf(s) = cur[s] /\ BlockOf(s) = slot[s][cur[s]]
    BY <1>1, <1>4, WritePlace DEF SlotOf
  <2>2. slot' = slot
    BY <1>1, <1>2, <2>1
  <2>3. active' = active
    BY <1>1, <1>4 DEF ActiveAfter
  <2>4. \A b \in used' : b \in used \/ b = slot[s][cur[s]]
    BY <1>1, <2>1
  <2> QED BY <1>2, <2>2, <2>3, <2>4 DEF MarkedInSlot
<1> QED BY <1>3, <1>4

LEMMA MovedFacts ==
  ASSUME IInv
  PROVE  /\ IsFiniteSet(MovedCopies) /\ Cardinality(MovedCopies) \in Nat
         /\ Cardinality(MovedCopies) <= Cardinality(copies)
         /\ writeCount \in Nat /\ vpc \in 0..PagesPerBlock
         /\ Moved \in Nat
<1>1. IsFiniteSet(copies) /\ MovedCopies \subseteq copies
  BY DEF IInv, MovedCopies
<1>2. /\ IsFiniteSet(MovedCopies) /\ Cardinality(MovedCopies) \in Nat
      /\ Cardinality(MovedCopies) <= Cardinality(copies)
  BY <1>1, FS_Subset, FS_CardinalityType
<1>3. writeCount \in Nat /\ vpc \in 0..PagesPerBlock
  BY DEF IInv, Core, TypeOK
<1> QED BY <1>2, <1>3 DEF Moved

\* Steps that write nothing.
LEMMA SpaceFrame ==
  ASSUME IInv, ~Meta, SpaceInv, UNCHANGED <<blockVars, slotVars, victim, vpc>>,
         Moved' = Moved, ~GCRunning => Space >= Least + Owed'
  PROVE  SpaceInv'
<1>1. UNCHANGED <<freeList, used, active, invalid, slot, cur, page, victim, vpc>>
  BY DEF blockVars, slotVars
<1>2. MarkedInSlot'
  BY <1>1 DEF SpaceInv, MarkedInSlot
<1>3. Space' = Space /\ Room("GC")' = Room("GC") /\ (GCRunning' <=> GCRunning)
  BY <1>1 DEF Space, Room, GCRunning
<1>4. CollectionSpace => CollectionSpace'
  BY <1>1, <1>3 DEF CollectionSpace
<1> QED BY <1>2, <1>3, <1>4 DEF SpaceInv, Least

LEMMA SpaceWritePage ==
  ASSUME IInv, IInv', ~Meta, SpaceInv, NEW n \in LPN, WritePage(n)
  PROVE  SpaceInv'
<1>1. PICK s \in Streams : s = "HOST" /\ Write(s, n)
  BY ConstantFacts DEF WritePage, WriteStream
<1>2. /\ phase = "write" /\ ~GCRunning /\ metaGC # "running"
      /\ written < TurnLimit /\ written' = written + 1
      /\ UNCHANGED <<victim, metaGC, phase>>
  BY DEF WritePage, WriteAllowed, gcVars
<1>3. MarkedInSlot'
  BY <1>1, MarkedInSlotAfter DEF SpaceInv, IInv
<1>4. Space' = Space - 1 + (IF Released(s, n) = {} THEN 0 ELSE PagesPerBlock)
  BY <1>1, SpaceAfter DEF IInv
<1>5. Owed' = Owed - 1
  <2>1. metaGC \in {"idle", "ended"} /\ written \in 0..TurnLimit
    BY <1>2 DEF IInv, Core, TypeOK
  <2>2. Due' = Due - 1 /\ Due \in Int
    BY <1>2, <2>1, OwedFacts DEF Due, IInv
  <2>3. TurnLimit \in Int
    BY SizesAssumption
  <2> QED BY <1>2, <2>1, <2>2, <2>3 DEF Owed
<1>6. Space >= Least + Owed /\ ~GCRunning'
  BY <1>2 DEF SpaceInv, GCRunning
<1>7. Space \in Nat /\ Owed \in Int /\ PagesPerBlock \in Nat /\ Least \in Int /\ Least' = Least
  BY SpaceFacts, OwedFacts DEF IInv, Least
<1>8. Space' >= Least' + Owed'
  BY <1>4, <1>5, <1>6, <1>7
<1> QED BY <1>3, <1>6, <1>8 DEF SpaceInv

\* A copy that is to be written is of a page that is still valid in the victim, and the
\* collection is not at its end.
LEMMA CopyToMove ==
  ASSUME IInv, ~Meta, NEW c \in copies, c.status = "WRITE_WAIT"
  PROVE  /\ GCRunning /\ victim \in Blocks
         /\ c.lpn \in LPN
         /\ l2v[c.lpn] = c.from /\ c.from.block = victim
         /\ Moved < vpc
<1>1. UserInv /\ copies # {} /\ c.status # "WRITE_DONE"
  BY DEF IInv
<1>2. /\ GCRunning /\ c.from.block = victim
      /\ c.from.page \in valid[c.from.block]
      /\ c.lpn = v2l[c.from.block][c.from.page]
      /\ writeCount + Cardinality(copies) + Cardinality(Ahead) <= vpc
  BY <1>1 DEF UserInv, CopyIsCurrent, CopyKnowsLPN, CopiesOfVictim, PagesCounted
<1>3. victim \in Blocks /\ c.lpn \in LPN
  BY <1>2, CopyFacts DEF GCRunning, IInv, Core, TypeOK
<1>4. c.from = [block |-> c.from.block, page |-> c.from.page]
  BY CopyFacts, ConstantFacts
<1>5. l2v[c.lpn] = c.from
  BY <1>2, <1>3, <1>4 DEF IInv, Core, CountsMatchMapping, MappedPages
<1>6. Cardinality(MovedCopies) < Cardinality(copies)
  <2>1. IsFiniteSet(copies) /\ MovedCopies \subseteq copies /\ c \notin MovedCopies
    BY <1>1 DEF IInv, MovedCopies
  <2>2. Cardinality(MovedCopies) # Cardinality(copies)
    BY <2>1, FS_Subset
  <2>3. Cardinality(copies) \in Nat
    BY <2>1, FS_CardinalityType
  <2> QED BY <2>2, <2>3, MovedFacts
<1>7. Cardinality(copies) \in Nat /\ Cardinality(Ahead) \in Nat
  BY AheadFacts, FS_CardinalityType DEF IInv
<1>8. Moved < vpc
  BY <1>2, <1>6, <1>7, MovedFacts DEF Moved
<1> QED BY <1>2, <1>3, <1>5, <1>8

LEMMA MovedAfterWrite ==
  ASSUME IInv, ~Meta, NEW c \in copies, GCWrite(c)
  PROVE  Moved' = Moved + 1
<1> DEFINE d == [c EXCEPT !.status = "WRITE_DONE"]
<1>1. /\ c.status = "WRITE_WAIT" /\ copies' = (copies \ {c}) \union {d} /\ writeCount' = writeCount
  BY DEF GCWrite, gcVars
<1>2. d.status = "WRITE_DONE" /\ d.from = c.from
  <2>1. c \in Copy
    BY DEF IInv, Core, TypeOK
  <2> QED BY <2>1, CopyWritten
<1> HIDE DEF d
<1>3. d \notin copies
  BY <1>1, <1>2 DEF IInv, UserInv, CopiesOfVictim
<1>4. PICK M : M = MovedCopies
  OBVIOUS
<1>5. MovedCopies' = M \union {d} /\ d \notin M
  BY <1>1, <1>2, <1>3, <1>4 DEF MovedCopies
<1>6. Cardinality(M \union {d}) = Cardinality(M) + 1
  BY <1>4, <1>5, MovedFacts, FS_AddElement
<1>7. Moved = writeCount + Cardinality(M) /\ Moved' = writeCount + Cardinality(M \union {d})
  BY <1>1, <1>4, <1>5 DEF Moved
<1>8. writeCount \in Nat /\ Cardinality(M) \in Nat
  BY <1>4, MovedFacts
<1> QED BY <1>6, <1>7, <1>8

\* What a copy that is written does to the victim.
LEMMA VictimAfterWrite ==
  ASSUME IInv, ~Meta, CollectionSpace, NEW c \in copies, GCWrite(c),
         NEW s \in Streams, s = "GC", NEW n \in LPN, n = c.lpn
  PROVE  /\ Write(s, n)
         /\ victim \in used /\ invalid[victim] \in Nat
         /\ invalid'[victim] = invalid[victim] + 1
         /\ Released(s, n) = IF invalid[victim] + 1 >= PagesPerBlock THEN {victim} ELSE {}
         /\ Released(s, n) = {} => victim \in used'
<1>1. c.status = "WRITE_WAIT" /\ Write(s, n)
  BY DEF GCWrite, CopyStream
<1>2. PICK v \in Blocks : v = victim
  BY <1>1, CopyToMove
<1>3. l2v[n].block = v /\ Moved < vpc
  BY <1>1, <1>2, CopyToMove
<1>4. v \in used /\ v # NoBlock /\ invalid[v] \in Nat
  BY <1>2, <1>3, SentinelAssumption, TypeFacts DEF CollectionSpace, IInv, Core
<1>5. Fresh(s) => freeList # <<>> /\ v # Head(freeList)
  BY <1>1, <1>4, WritePlace DEF Write, IInv
<1>6. InvalidAfter(s, n)[v] = invalid[v] + 1
  BY <1>3, <1>4, <1>5 DEF InvalidAfter
<1>7. Released(s, n) = IF invalid[v] + 1 >= PagesPerBlock THEN {v} ELSE {}
  BY <1>3, <1>4, <1>6 DEF Released
<1>8. invalid' = InvalidAfter(s, n) /\ used' = (used \union {BlockOf(s)}) \ Released(s, n)
  BY <1>1 DEF Write, UsedAfter
<1> QED BY <1>1, <1>2, <1>4, <1>6, <1>7, <1>8

LEMMA SpaceGCWrite ==
  ASSUME IInv, IInv', ~Meta, SpaceInv, NEW c \in copies, GCWrite(c)
  PROVE  SpaceInv'
<1>1. c.status = "WRITE_WAIT" /\ UNCHANGED <<victim, vpc>>
  BY DEF GCWrite, gcVars
<1>2. PICK s \in Streams, n \in LPN : s = "GC" /\ n = c.lpn
  BY <1>1, CopyToMove, SpaceFacts DEF IInv
<1>3. GCRunning /\ GCRunning' /\ CollectionSpace /\ Moved < vpc
  BY <1>1, CopyToMove DEF SpaceInv, GCRunning
<1>4. PICK m \in Nat, p \in Nat, w \in Nat : m = Moved /\ p = vpc /\ w = Moved' /\ w = m + 1
  BY MovedFacts, MovedAfterWrite
<1>5. /\ Write(s, n)
      /\ victim \in used
      /\ invalid'[victim] = invalid[victim] + 1
      /\ Released(s, n) = IF invalid[victim] + 1 >= PagesPerBlock THEN {victim} ELSE {}
      /\ Released(s, n) = {} => victim \in used'
  BY <1>2, <1>3, VictimAfterWrite
<1>6. /\ p + 2 * TurnLimit <= PagesPerBlock /\ m < p
      /\ invalid[victim] = PagesPerBlock - p + m
      /\ freeList # <<>> \/ Room("GC") >= p - m
      /\ Space + m >= Least
  BY <1>3, <1>4 DEF CollectionSpace
<1>7. MarkedInSlot'
  BY <1>5, MarkedInSlotAfter DEF SpaceInv, IInv
<1>8. /\ Space' = Space - 1 + (IF Released(s, n) = {} THEN 0 ELSE PagesPerBlock)
      /\ Room("GC")' = IF Fresh(s) THEN PagesPerBlock - 1 ELSE Room("GC") - 1
      /\ ~Fresh(s) /\ Released(s, n) = {} => Len(freeList') = Len(freeList)
  BY <1>2, <1>5, SpaceAfter DEF IInv
<1>9. /\ Space \in Nat /\ Least \in Int /\ Least' = Least /\ Room("GC") \in Nat
      /\ PagesPerBlock \in Nat \ {0} /\ TurnLimit \in Nat \ {0}
  BY SpaceFacts, OwedFacts DEF IInv, Least
<1>10. CASE w < p
  <2>1. Released(s, n) = {} /\ victim' \in used' /\ invalid'[victim'] = PagesPerBlock - p + w
    BY <1>1, <1>4, <1>5, <1>6, <1>9, <1>10
  <2>2. Space' + w >= Least'
    BY <1>4, <1>6, <1>8, <1>9, <2>1
  <2>3. freeList' # <<>> \/ Room("GC")' >= p - w
    <3>1. CASE Fresh(s)
      BY <1>4, <1>6, <1>8, <1>9, <3>1
    <3>2. CASE ~Fresh(s)
      <4>1. freeList' = <<>> => freeList = <<>>
        BY <1>8, <2>1, <3>2, FreeLength DEF IInv
      <4> QED BY <1>4, <1>6, <1>8, <1>9, <3>2, <4>1
    <3> QED BY <3>1, <3>2
  <2>4. vpc' = p /\ Moved' = w
    BY <1>1, <1>4
  <2>5. CollectionSpace'
    BY <1>6, <1>10, <2>1, <2>2, <2>3, <2>4 DEF CollectionSpace
  <2> QED BY <1>3, <1>7, <2>5 DEF SpaceInv
<1>11. CASE w = p
  <2>1. Released(s, n) # {}
    BY <1>4, <1>5, <1>6, <1>9, <1>11
  <2>2. Space' + p >= Least' + PagesPerBlock
    BY <1>4, <1>6, <1>8, <1>9, <1>11, <2>1
  <2>3. vpc' = p /\ Moved' = w
    BY <1>1, <1>4
  <2>4. CollectionSpace'
    BY <1>6, <1>11, <2>2, <2>3 DEF CollectionSpace
  <2> QED BY <1>3, <1>7, <2>4 DEF SpaceInv
<1> QED BY <1>4, <1>6, <1>10, <1>11

LEMMA SpaceGCWriteDone ==
  ASSUME IInv, IInv', ~Meta, SpaceInv, NEW c \in copies, GCWriteDone(c)
  PROVE  SpaceInv'
<1>1. /\ c.status = "WRITE_DONE"
      /\ copies' = copies \ {c} /\ writeCount' = writeCount + 1
      /\ victim' = IF writeCount + 1 = vpc THEN NoBlock ELSE victim
      /\ UNCHANGED <<blockVars, slotVars, vpc>>
  BY DEF GCWriteDone
<1>2. GCRunning /\ CollectionSpace
  <2>1. UserInv /\ copies # {}
    BY DEF IInv
  <2> QED BY <2>1 DEF UserInv, PagesCounted, SpaceInv
<1>3. PICK M : M = MovedCopies
  OBVIOUS
<1>4. MovedCopies' = M \ {c} /\ c \in M
  BY <1>1, <1>3 DEF MovedCopies
<1>5. /\ Cardinality(M \ {c}) = Cardinality(M) - 1
      /\ Cardinality(M) \in Nat /\ Cardinality(M) # 0
  BY <1>3, <1>4, MovedFacts, FS_RemoveElement, FS_EmptySet
<1>6. Moved' = Moved /\ Moved >= writeCount + 1
  BY <1>1, <1>3, <1>4, <1>5, MovedFacts DEF Moved
<1>7. CASE writeCount + 1 = vpc
  <2>1. Moved = vpc
    BY <1>2, <1>6, <1>7, MovedFacts DEF CollectionSpace
  <2>2. Space + vpc >= Least + PagesPerBlock /\ vpc + 2 * TurnLimit <= PagesPerBlock
    BY <1>2, <2>1 DEF CollectionSpace
  <2>3. /\ Space \in Nat /\ Least \in Int /\ vpc \in Nat
        /\ TurnLimit \in Nat /\ PagesPerBlock \in Nat
    BY SpaceFacts, OwedFacts, MovedFacts DEF IInv, Least
  <2>4. Owed' <= 2 * TurnLimit /\ Owed' \in Nat
    <3>1. /\ phase' = phase /\ written' = written /\ metaGC' = metaGC
      BY DEF GCWriteDone
    <3>2. Owed' = Owed
      BY <3>1 DEF Owed, Due
    <3> QED BY <3>2, OwedFacts DEF IInv
  <2>5. Space >= Least + Owed'
    <3>1. PICK q \in Nat : q = Owed' /\ q <= 2 * TurnLimit
      BY <2>4
    <3>2. PICK v \in Nat, l \in Int, t \in Nat, s \in Nat :
            v = vpc /\ l = Least /\ t = TurnLimit /\ s = Space
      BY <2>3
    <3>3. s + v >= l + PagesPerBlock /\ v + 2 * t <= PagesPerBlock /\ q <= 2 * t
      BY <2>2, <3>1, <3>2
    <3>4. s >= l + q
      BY <2>3, <3>3
    <3> QED BY <3>1, <3>2, <3>4
  <2>6. UNCHANGED <<freeList, page, slot, active, used>>
    BY <1>1 DEF blockVars, slotVars
  <2>7. MarkedInSlot' /\ Space' = Space /\ Least' = Least
    BY <2>6 DEF SpaceInv, MarkedInSlot, Space, Room, Least
  <2>8. ~GCRunning'
    BY <1>1, <1>7 DEF GCRunning
  <2> QED BY <2>5, <2>7, <2>8 DEF SpaceInv
<1>8. CASE writeCount + 1 # vpc
  <2>1. victim' = victim
    BY <1>1, <1>8
  <2> QED BY <1>1, <1>2, <1>6, <2>1, SpaceFrame
<1> QED BY <1>7, <1>8

LEMMA SpaceStartGC ==
  ASSUME IInv, IInv', ~Meta, SpareBlocks, SpaceInv, StartGC
  PROVE  SpaceInv'
<1>1. PICK b \in Victims : victim' = b /\ vpc' = PagesPerBlock - invalid[b]
  BY DEF StartGC
<1>2. /\ ~GCRunning /\ Len(freeList) <= Threshold
      /\ phase = "check" /\ metaGC # "running"
      /\ writeCount' = 0
      /\ UNCHANGED <<blockVars, slotVars, copies>>
  BY DEF StartGC, NeedGC
<1>3. UNCHANGED <<freeList, used, active, invalid, slot, cur, page>>
  BY <1>2 DEF blockVars, slotVars
<1>4. MarkedInSlot /\ Space >= Least + Owed
  BY <1>2 DEF SpaceInv
<1>5. invalid[b] >= 2 * TurnLimit
  BY <1>2, <1>4, VictimPays DEF IInv
<1>6. b \in used /\ b \in Blocks /\ b # NoBlock
  BY SentinelAssumption DEF Victims, Candidates, IInv, Core, TypeOK
<1>7. invalid[b] \in Nat /\ invalid[b] < PagesPerBlock
  BY <1>6, TypeFacts DEF IInv, Core, CountsMatchMapping
<1>8. Moved' = 0
  <2>1. copies = {}
    BY <1>2 DEF IInv, UserInv, PagesCounted
  <2>2. MovedCopies' = {}
    BY <1>2, <2>1 DEF MovedCopies
  <2> QED BY <1>2, <2>2, FS_EmptySet DEF Moved
<1>9. /\ TurnLimit \in Nat \ {0} /\ PagesPerBlock \in Nat \ {0}
      /\ Owed \in Nat /\ Space \in Nat /\ Least \in Int /\ Least' = Least
  BY SpaceFacts, OwedFacts DEF IInv, Least
<1>10. Space' = Space /\ Room("GC")' = Room("GC")
  BY <1>3 DEF Space, Room
<1>11. freeList # <<>> \/ Room("GC") >= PagesPerBlock - invalid[b]
  <2>1. SUFFICES ASSUME freeList = <<>> PROVE Room("GC") >= PagesPerBlock - invalid[b]
    OBVIOUS
  <2>2. PagesPerBlock * Len(freeList) = 0
    <3>1. Len(freeList) = 0
      BY <2>1
    <3> QED BY <1>9, <3>1
  <2>3. Room("HOST") \in 0..(PagesPerBlock - 1) /\ Room("GC") \in 0..(PagesPerBlock - 1)
    BY SpaceFacts DEF IInv
  <2>4. Space = Room("HOST") + Room("GC")
    BY <2>2, <2>3 DEF Space
  <2> QED BY <1>4, <1>5, <1>7, <1>9, <2>3, <2>4 DEF Least
<1>12. CollectionSpace'
  <2>1. PICK v \in Nat : v = vpc'
    BY <1>1, <1>7, <1>9
  <2>2. v = PagesPerBlock - invalid[b] /\ v > 0 /\ v + 2 * TurnLimit <= PagesPerBlock
    BY <1>1, <1>5, <1>7, <1>9, <2>1
  <2>3. victim' \in used' /\ invalid'[victim'] = PagesPerBlock - v + 0
    BY <1>1, <1>3, <1>6, <1>7, <1>9, <2>2
  <2>4. freeList' # <<>> \/ Room("GC")' >= v - 0
    BY <1>3, <1>10, <1>11, <2>2
  <2>5. Space' + 0 >= Least'
    BY <1>4, <1>9, <1>10
  <2> QED BY <1>8, <2>1, <2>2, <2>3, <2>4, <2>5 DEF CollectionSpace
<1>13. GCRunning'
  BY <1>1, <1>6 DEF GCRunning
<1>14. MarkedInSlot'
  BY <1>3, <1>4 DEF MarkedInSlot
<1> QED BY <1>12, <1>13, <1>14 DEF SpaceInv

\* Steps of the loop alone.
LEMMA SpaceTurn ==
  ASSUME IInv, ~Meta, SpareBlocks, SpaceInv,
         DoneEnds \/ WriteEnds \/ CopyEnds \/ NoStartGC \/ MetaGCStarts \/ NoGCRead
  PROVE  SpaceInv'
<1>1. UNCHANGED <<blockVars, slotVars, gcVars, copies>>
  BY DEF DoneEnds, WriteEnds, CopyEnds, NoStartGC, MetaGCStarts, NoGCRead
<1>2. UNCHANGED <<victim, vpc>> /\ Moved' = Moved
  BY <1>1 DEF gcVars, Moved, MovedCopies
<1>3. /\ TurnLimit \in Nat \ {0} /\ PagesPerBlock \in Nat \ {0} /\ Threshold \in Nat \ {0}
      /\ written \in 0..TurnLimit /\ metaGC \in {"idle", "running", "ended"} /\ phase \in Phase
  BY OwedFacts DEF IInv, Core, TypeOK
<1>4. Space \in Nat /\ Least \in Int
  BY <1>3, SpaceFacts DEF IInv, Least
<1>5. ASSUME ~GCRunning PROVE Space >= Least + Owed'
  <2>1. Space >= Least + Owed
    BY <1>5 DEF SpaceInv
  <2>2. ASSUME Owed' <= Owed, Owed \in Int, Owed' \in Int PROVE Space >= Least + Owed'
    <3>1. PICK o \in Int, q \in Int : o = Owed /\ q = Owed'
      BY <2>2
    <3>2. q <= o /\ Space >= Least + o
      BY <2>1, <2>2, <3>1
    <3>3. Space >= Least + q
      BY <1>4, <3>2
    <3> QED BY <3>1, <3>3
  <2>3. CASE DoneEnds
    <3>1. /\ phase = "done" /\ phase' \in {"copy", "write"} /\ written' = 0
          /\ metaGC' = metaGC \/ (metaGC = "running" /\ metaGC' = "ended")
      BY <2>3 DEF DoneEnds
    <3>2. Due = TurnLimit /\ Due' = TurnLimit
      BY <1>3, <3>1 DEF Due
    <3> QED BY <1>3, <2>2, <3>1, <3>2 DEF Owed
  <2>4. CASE WriteEnds \/ CopyEnds
    <3>1. /\ \/ phase = "write" /\ phase' = "check"
             \/ phase = "copy" /\ phase' = "write"
          /\ written' = written /\ metaGC' = metaGC
      BY <2>4 DEF WriteEnds, CopyEnds
    <3>2. Due' <= Due /\ Due \in Int /\ Due' \in Int
      BY <1>3, <3>1 DEF Due
    <3> QED BY <1>3, <2>2, <3>1, <3>2 DEF Owed
  <2>5. CASE NoGCRead
    <3>1. phase = "read" /\ phase' = "done" /\ written' = written /\ metaGC' = metaGC
      BY <2>5 DEF NoGCRead
    <3>2. Due' = Due /\ Due \in Int
      BY <1>3, <3>1 DEF Due
    <3> QED BY <1>3, <2>2, <3>1, <3>2 DEF Owed
  <2>6. CASE MetaGCStarts
    <3>1. phase = "check" /\ metaGC = "idle" /\ metaGC' = "running"
      BY <2>6 DEF MetaGCStarts
    <3>2. Owed = 0 + TurnLimit /\ Owed' = TurnLimit
      BY <3>1 DEF Owed, Due
    <3> QED BY <1>3, <2>2, <3>2
  <2>7. CASE NoStartGC
    <3>1. /\ phase = "check" /\ phase' = "done" /\ written' = written
          /\ metaGC' = IF metaGC = "ended" THEN "idle" ELSE metaGC
          /\ ~NeedGC \/ metaGC = "running" \/ Victims = {}
      BY <1>5, <2>7 DEF NoStartGC
    <3>2. CASE metaGC = "running"
      <4>1. Owed = TurnLimit /\ Owed' = TurnLimit
        BY <3>1, <3>2 DEF Owed
      <4> QED BY <1>3, <2>2, <4>1
    <3>3. CASE metaGC # "running"
      <4>1. Due' = TurnLimit /\ metaGC' = "idle"
        BY <1>3, <3>1, <3>3 DEF Due
      <4>2. Owed' = 2 * TurnLimit
        BY <1>3, <4>1 DEF Owed
      <4>3. Len(freeList) \in Nat /\ Len(freeList) > Threshold
        <5>1. Len(freeList) \in Nat
          BY SpaceFacts DEF IInv
        <5>2. ~ (Len(freeList) <= Threshold)
          <6>1. SUFFICES ASSUME Len(freeList) <= Threshold PROVE FALSE
            OBVIOUS
          <6>2. Victims # {}
            BY <6>1, VictimPays DEF IInv, SpaceInv
          <6> QED BY <1>5, <3>1, <3>3, <6>1, <6>2 DEF NeedGC
        <5> QED BY <1>3, <5>1, <5>2
      <4>4. PagesPerBlock * Len(freeList) >= 2 * PagesPerBlock
        <5>1. 2 <= Len(freeList) /\ 2 \in Nat
          BY <1>3, <4>3
        <5>2. 2 * PagesPerBlock <= Len(freeList) * PagesPerBlock
          BY <1>3, <4>3, <5>1, ProductGrows
        <5>3. PagesPerBlock * Len(freeList) = Len(freeList) * PagesPerBlock
          BY <1>3, <4>3
        <5> QED BY <1>3, <5>2, <5>3
      <4>5. Room("HOST") \in Nat /\ Room("GC") \in Nat /\ PagesPerBlock * Len(freeList) \in Nat
        BY SpaceFacts DEF IInv
      <4>6. Space >= 2 * PagesPerBlock
        BY <1>3, <4>4, <4>5 DEF Space
      <4> QED BY <1>3, <1>4, <4>2, <4>6 DEF Least
    <3> QED BY <3>2, <3>3
  <2> QED BY <2>3, <2>4, <2>5, <2>6, <2>7
<1> QED BY <1>1, <1>2, <1>5, SpaceFrame

\* Reads move nothing.
LEMMA SpaceReads ==
  ASSUME IInv, ~Meta, SpaceInv, (\E c \in copies : GCReadDone(c)) \/ GCRead \/ GCReadNothing
  PROVE  SpaceInv'
<1>1. UNCHANGED <<blockVars, slotVars, victim, vpc, writeCount>>
  BY DEF GCReadDone, GCRead, GCReadNothing, gcVars
<1>2. CASE \E c \in copies : GCReadDone(c)
  <2>1. PICK c \in copies : GCReadDone(c)
    BY <1>2
  <2> DEFINE d == [from |-> c.from, lpn |-> v2l[c.from.block][c.from.page], status |-> "WRITE_WAIT"]
  <2>2. c.status = "READ" /\ copies' = (copies \ {c}) \union {d} /\ d.status = "WRITE_WAIT"
    BY <2>1 DEF GCReadDone
  <2> HIDE DEF d
  <2>3. MovedCopies' = MovedCopies
    BY <2>2 DEF MovedCopies
  <2>4. GCRunning
    <3>1. UserInv /\ copies # {}
      BY DEF IInv
    <3> QED BY <3>1 DEF UserInv, PagesCounted
  <2> QED BY <1>1, <2>3, <2>4, SpaceFrame DEF Moved
<1>3. CASE GCRead
  <2> DEFINE d == [from |-> [block |-> victim, page |-> Min(ToRead)], lpn |-> NoLPN, status |-> "READ"]
  <2>1. copies' = copies \union {d} /\ d.status = "READ" /\ GCRunning
    BY <1>3 DEF GCRead, ToRead
  <2> HIDE DEF d
  <2>2. MovedCopies' = MovedCopies
    BY <2>1 DEF MovedCopies
  <2> QED BY <1>1, <2>1, <2>2, SpaceFrame DEF Moved
<1>4. CASE GCReadNothing
  <2>1. /\ phase = "read" /\ phase' = "done"
        /\ UNCHANGED <<copies, metaGC, written>>
    BY <1>4 DEF GCReadNothing
  <2>2. Due' = Due
    BY <2>1 DEF Due
  <2>3. Moved' = Moved /\ Owed' = Owed
    BY <1>1, <2>1, <2>2 DEF Moved, MovedCopies, Owed
  <2> QED BY <1>1, <2>3, SpaceFrame DEF SpaceInv
<1> QED BY <1>2, <1>3, <1>4

LEMMA SpaceStep ==
  ASSUME ~Meta, SpareBlocks, IInv, SpaceInv, [Next]_vars
  PROVE  SpaceInv'
<1>1. IInv'
  BY NextInvariant
<1>2. CASE UNCHANGED vars
  <2>1. UNCHANGED <<blockVars, slotVars, gcVars, copies, metaGC, phase, written>>
    BY <1>2 DEF vars
  <2>2. /\ UNCHANGED <<victim, vpc>> /\ Moved' = Moved /\ Owed' = Owed
    BY <2>1 DEF gcVars, Moved, MovedCopies, Owed, Due
  <2> QED BY <2>1, <2>2, SpaceFrame DEF SpaceInv
<1>3. CASE (\E c \in copies : GCReadDone(c)) \/ GCRead \/ GCReadNothing
  BY <1>3, SpaceReads
<1>4. CASE \E c \in copies : GCWriteDone(c)
  BY <1>1, <1>4, SpaceGCWriteDone
<1>5. CASE \E c \in copies : GCWrite(c)
  BY <1>1, <1>5, SpaceGCWrite
<1>6. CASE \E n \in LPN : WritePage(n)
  BY <1>1, <1>6, SpaceWritePage
<1>7. CASE StartGC
  BY <1>1, <1>7, SpaceStartGC
<1>8. CASE DoneEnds \/ WriteEnds \/ CopyEnds \/ NoStartGC \/ MetaGCStarts \/ NoGCRead
  BY <1>8, SpaceTurn
<1> QED BY <1>2, <1>3, <1>4, <1>5, <1>6, <1>7, <1>8 DEF Next

LEMMA SpaceInit ==
  ASSUME ~Meta, SpareBlocks, IInv, Init
  PROVE  SpaceInv
<1>1. MarkedInSlot /\ ~GCRunning
  BY DEF Init, MarkedInSlot, GCRunning
<1>2. /\ TurnLimit \in Nat \ {0} /\ PagesPerBlock \in Nat \ {0} /\ Threshold \in Nat \ {0}
      /\ Owed \in 0..(2 * TurnLimit)
  BY OwedFacts DEF IInv
<1>3. Len(freeList) >= 2 /\ Len(freeList) \in Nat
  <2>1. Cardinality(Blocks) \in Nat /\ Len(freeList) = Cardinality(Blocks) - Cardinality(used)
    BY FreeLength DEF IInv
  <2>2. Cardinality(used) = 0
    BY FS_EmptySet DEF Init
  <2> QED BY <1>2, <2>1, <2>2 DEF SpareBlocks, Spare, SlotCount
<1>4. PagesPerBlock * Len(freeList) >= 2 * PagesPerBlock
  <2>1. 2 * PagesPerBlock <= Len(freeList) * PagesPerBlock
    BY <1>2, <1>3, ProductGrows
  <2> QED BY <1>2, <1>3, <2>1
<1>5. Room("HOST") \in Nat /\ Room("GC") \in Nat /\ PagesPerBlock * Len(freeList) \in Nat
  BY SpaceFacts DEF IInv
<1>6. Space >= 2 * PagesPerBlock
  BY <1>2, <1>4, <1>5 DEF Space
<1>7. Space >= Least + Owed
  BY <1>2, <1>6, SpaceFacts DEF Least, IInv
<1> QED BY <1>1, <1>7 DEF SpaceInv

LEMMA SpaceInvSuffices ==
  ASSUME ~Meta, SpareBlocks, IInv, SpaceInv
  PROVE  SpaceLeft
<1>1. NeedGC => Victims # {}
  BY VictimPays DEF NeedGC, IInv, SpaceInv
<1>2. ASSUME phase = "write", WriteAllowed, written < TurnLimit, Fresh("HOST")
      PROVE  freeList # <<>>
  <2>1. ~GCRunning /\ metaGC \in {"idle", "ended"} /\ written \in 0..TurnLimit
    BY <1>2 DEF WriteAllowed, IInv, Core, TypeOK
  <2>2. TurnLimit \in Nat \ {0} /\ PagesPerBlock \in Nat \ {0} /\ 2 * TurnLimit <= PagesPerBlock
    BY OwedFacts DEF IInv, SpareBlocks
  <2>3. Owed \in Nat /\ Owed >= 1
    BY <1>2, <2>1, <2>2 DEF Owed, Due
  <2>4. Space >= PagesPerBlock
    BY <2>1, <2>2, <2>3, SpaceFacts DEF SpaceInv, Least, IInv
  <2>5. Room("HOST") = 0 /\ Room("GC") \in 0..(PagesPerBlock - 1)
    BY <1>2, SpaceFacts DEF IInv
  <2>6. SUFFICES ASSUME freeList = <<>> PROVE FALSE
    OBVIOUS
  <2>7. PagesPerBlock * Len(freeList) = 0
    BY <2>2, <2>6
  <2> QED BY <2>2, <2>4, <2>5, <2>7 DEF Space
<1>3. ASSUME NEW c \in copies, c.status = "WRITE_WAIT", Fresh("GC")
      PROVE  freeList # <<>>
  <2>1. GCRunning /\ Moved < vpc
    BY <1>3, CopyToMove
  <2>2. freeList # <<>> \/ Room("GC") >= vpc - Moved
    BY <2>1 DEF SpaceInv, CollectionSpace
  <2>3. Room("GC") = 0
    BY <1>3, SpaceFacts DEF IInv
  <2> QED BY <2>1, <2>2, <2>3, MovedFacts
<1>4. WriteStream = "HOST" /\ CopyStream = "GC"
  BY SpaceFacts DEF IInv
<1> QED BY <1>1, <1>2, <1>3, <1>4 DEF SpaceLeft

\* On a drive with spare blocks the user block manager never runs dry: there is a free
\* block whenever the host or the collector needs one (dftl_block.cpp:206), and a
\* victim whenever the collector wants one (dftl_garbagecollector.cpp:243).
THEOREM SpaceNeverRunsOut ==
  ASSUME ~Meta, SpareBlocks
  PROVE  Spec => []SpaceLeft
<1>1. Init /\ IInv => SpaceInv
  BY SpaceInit
<1>2. IInv /\ SpaceInv /\ [Next]_vars => SpaceInv'
  BY SpaceStep
<1>3. IInv /\ SpaceInv => SpaceLeft
  BY SpaceInvSuffices
<1> QED BY Invariant, <1>1, <1>2, <1>3, PTL DEF Spec

\* The victim, of both managers: the half of SpaceLeft that needs no bound on what is
\* written in a turn.
VictimFound == NeedGC => Victims # {}

\* Steps that write nothing leave the slots, the marks and the lists as they are.
LEMMA MarkedInSlotStep ==
  ASSUME IInv, MarkedInSlot, [Next]_vars
  PROVE  MarkedInSlot'
<1>1. CASE UNCHANGED <<slot, active, used>>
  BY <1>1 DEF MarkedInSlot
<1>2. CASE \E c \in copies : GCWrite(c)
  <2>1. PICK c \in copies : c.status = "WRITE_WAIT" /\ Write(CopyStream, c.lpn)
    BY <1>2 DEF GCWrite
  <2>2. c.lpn \in LPN /\ CopyStream \in Streams
    BY <2>1, CopyFacts, ConstantFacts
  <2> QED BY <2>1, <2>2, MarkedInSlotAfter DEF IInv
<1>3. CASE \E n \in LPN : WritePage(n)
  BY <1>3, ConstantFacts, MarkedInSlotAfter DEF WritePage, IInv
<1>4. ASSUME Next PROVE \/ UNCHANGED <<slot, active, used>>
                        \/ \E c \in copies : GCWrite(c)
                        \/ \E n \in LPN : WritePage(n)
  BY <1>4 DEF Next, GCReadDone, GCWriteDone, DoneEnds, WriteEnds, CopyEnds, StartGC, NoStartGC,
              MetaGCStarts, GCRead, GCReadNothing, NoGCRead, blockVars, slotVars
<1> QED BY <1>1, <1>2, <1>3, <1>4 DEF vars, blockVars, slotVars

\* If the LPNs cannot fill the blocks that are neither free nor in a slot when a
\* collection is due, CheckAndStartGC finds a victim (dftl_garbagecollector.cpp:243), in
\* the user and in the meta block manager.
THEOREM VictimIsFound ==
  ASSUME Spare(1)
  PROVE  Spec => []VictimFound
<1>1. Init => MarkedInSlot
  BY DEF Init, MarkedInSlot
<1>2. IInv /\ MarkedInSlot /\ [Next]_vars => MarkedInSlot'
  BY MarkedInSlotStep
<1>3. ASSUME IInv, MarkedInSlot PROVE VictimFound
  <2>1. 1 \in 1..PagesPerBlock
    BY SizesAssumption
  <2>2. Len(freeList) <= Threshold => Victims # {}
    BY <1>3, <2>1, GreedyVictim DEF IInv
  <2> QED BY <2>2 DEF VictimFound, NeedGC
<1>4. IInv /\ MarkedInSlot => VictimFound
  BY <1>3
<1> QED BY Invariant, <1>1, <1>2, <1>4, PTL DEF Spec
=============================================================================
