------------------------------ MODULE HostDma ------------------------------
(***************************************************************************)
(* The FIFO of the host DMA, one per direction.  The hardware shows an     *)
(* 8-bit count of the transfers that have ended (the head); the firmware   *)
(* keeps the index of the last transfer it has issued (the tail) and how   *)
(* often that index has wrapped.  A request remembers both as they were    *)
(* when its last transfer was issued, and asks later whether that one has  *)
(* ended.                                                                  *)
(***************************************************************************)
EXTENDS Integers, Sequences

CONSTANTS
  FifoSize,       \* values of the 8-bit indices: 256
  OverflowSize    \* values of the wrap count: 2^32

ASSUME FifoAssumption ==
  /\ FifoSize \in Nat /\ FifoSize > 1
  /\ OverflowSize \in Nat /\ OverflowSize > 1

\* fifoTail and the overflow count of a direction; pending are the owners of the
\* transfers that have not ended, oldest first.
EmptyFifo == [tail |-> 0, over |-> 0, pending |-> <<>>]

\* fifoHead, as HOST_DMA_FIFO_CNT_REG shows it.
HeadIndex(f) == (f.tail - Len(f.pending)) % FifoSize

\* set_auto_tx_dma and set_auto_rx_dma wait while one place is left.
IsFull(f) == (f.tail + 1) % FifoSize = HeadIndex(f)

\* Mutant: the wraps are not counted.
IssuedUncounted(f, owner) ==
  [f EXCEPT !.tail = (@ + 1) % FifoSize, !.pending = Append(@, owner)]

Issued(f, owner) ==
  [tail |-> (f.tail + 1) % FifoSize,
   over |-> IF f.tail + 1 = FifoSize THEN (f.over + 1) % OverflowSize ELSE f.over,
   pending |-> Append(f.pending, owner)]

\* The hardware ends the oldest transfer.
Ended(f) == [f EXCEPT !.pending = Tail(@)]

\* check_auto_tx_dma_partial_done and check_auto_rx_dma_partial_done: has the
\* transfer with this index, of this wrap, ended?
PartialDone(head, tail, over, index, wrap) ==
  \/ head = tail
  \/ head = index
  \/ head < index /\ tail < index /\ (head < tail \/ over # (wrap + 1) % OverflowSize)
  \/ head < index /\ index <= tail /\ over # wrap
  \/ index < head /\ (tail < index \/ head < tail \/ over # wrap)

CheckDone(f, m) == PartialDone(HeadIndex(f), f.tail, f.over, m.tail, m.over)
==============================================================================
