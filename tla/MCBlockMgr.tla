---------------------------- MODULE MCBlockMgr ----------------------------
(* BlockMgr on small instances.                                            *)
EXTENDS BlockMgr, TLC

\* The meta block manager, whose collector may read a page that is no longer valid.
Symmetry == Permutations(LPN) \union Permutations(Blocks)

------------------------------------------------------------------------------
(* The view of the user block manager.  A block is known by its place (a slot, *)
(* the victim, the free list) or, when it has none, only by what is in it; an   *)
(* LPN only by the page the mapping points to; a page only by whether it is     *)
(* valid, mapped, or erased, and of the victim whether it has been read.  What  *)
(* the actions do depends on nothing else: blocks and LPNs are compared only    *)
(* with each other, the pages of a block are written and collected in order     *)
(* whichever they are, and the LPN of a page that is not valid is never read,   *)
(* as CopyIsCurrent says.                                                       *)

SlotSeq == <<slot["HOST"][0], slot["HOST"][1], slot["GC"][0], slot["GC"][1], victim>>

Places == SlotSeq \o freeList

BlockView ==
  LET place(b) == {i \in DOMAIN Places : Places[i] = b}
      look(b) == <<place(b), active[b], invalid[b], Cardinality(valid[b]), valid[b] = MappedPages(b),
                   \E p \in Unwritten(b) : p \in valid[b] \/ v2l[b][p] # NoLPN,
                   Cardinality(IF b = victim THEN ToRead ELSE {})>>
      placed == ToSet(Places)
      looks == {look(b) : b \in Blocks \ placed}
      lost(c) == c.status = "WRITE_WAIT" /\ l2v[c.lpn] # c.from
      copy(c) == <<place(c.from.block), c.from.page \in valid[c.from.block], c.status, lost(c)>>
  IN  << {look(b) : b \in Blocks \intersect placed},
         [k \in looks |-> Cardinality({b \in Blocks \ placed : look(b) = k})],
         [k \in {copy(c) : c \in copies} |-> Cardinality({c \in copies : copy(c) = k})],
         used \union ToSet(freeList) = Blocks, cur, page, vpc, writeCount, metaGC, phase, written >>
=============================================================================
