------------------------------- MODULE HostIo -------------------------------
(***************************************************************************)
(* The host requests from the command to the end of their transfers: the   *)
(* queues of HIL_REQUEST_INFO, the pool of page buffers, and the two       *)
(* FIFOs of the host DMA, which the firmware follows by an index that      *)
(* wraps and a count of its wraps.                                         *)
(*                                                                         *)
(* One thread runs the phases of DFTL_GLOBAL::Run in turn (at).  Where it  *)
(* waits inside a handler, for room in a FIFO or for a request of the FIL, *)
(* the hardware goes on, and completions of the NAND call back.            *)
(*                                                                         *)
(* What the other modules settle is a choice here: whether the mapping is  *)
(* loaded and a collector runs (MetaCache), whether a page to read is in a *)
(* program unit (ActiveBlock), and when the NAND ends (FilNand).  The      *)
(* units are those of one active block.  The collectors and the meta       *)
(* requests appear as the buffers they hold.                               *)
(***************************************************************************)
EXTENDS Integers, Sequences, FiniteSets, Functions, HostDma

CONSTANTS
  Requests,       \* the HIL_REQUEST pool
  MaxCount,       \* pages of a command
  Commands,       \* the commands: "READ_WAIT" or "WRITE_WAIT", and how many pages
  BufCount,       \* buffers of the pool
  OthersMax,      \* buffers the collectors and the meta requests hold at most
  UnitCount,      \* ACTIVE_BLOCK_BUFFERING_COUNT
  LpnPerUnit,     \* LPN_PER_PHYSICAL_PAGE
  FilCount        \* FTL_REQUEST_COUNT

\* One unit may hold a buffer and wait for its next page for ever.
ASSUME PoolAssumption ==
  /\ IsFiniteSet(Requests)
  /\ MaxCount \in Nat \ {0} /\ UnitCount \in Nat \ {0} /\ LpnPerUnit \in Nat \ {0}
  /\ Commands \subseteq {"READ_WAIT", "WRITE_WAIT"} \X (1..MaxCount)
  /\ FilCount \in Nat \ {0} /\ OthersMax \in Nat /\ BufCount \in Nat
  /\ MaxCount + 1 + OthersMax <= BufCount

\* While a request waits for its transfers the count of the wraps does not come
\* round: the others of the pool cannot issue that many (request: 128 pages,
\* counts: 2^40 transfers).
ASSUME MarkAssumption ==
  (Cardinality(Requests) - 1) * MaxCount < FifoSize * OverflowSize

VARIABLES
  at,          \* the phase or the loop the firmware is in
  spinning,    \* FIL_AllocateRequest has found no request and runs the FIL
  idx,         \* the loop variable of _ProcessRead_Wait and _NANDReadDone
  status, count, done,   \* per request: m_nStatus, m_nLPNCount, m_nDoneLPNCount
  bufs,        \* per request: the length of m_dlBuffer
  mark,        \* per request: m_nDMAReqTail and m_nDMAOverFlowCount
  reads,       \* per request: its reads in the FIL
  waitQ, issuedQ, doneQ, hdmaQ,
  free,        \* m_nFreeCount of the buffers
  others,      \* buffers the collectors and the meta requests hold
  unit,        \* m_astBuffering: the pages added, and whether it is programming
  cur,         \* m_nCurProgramBuffering
  tx, rx       \* the two FIFOs

reqVars == <<status, count, done, bufs, mark, reads>>
queueVars == <<waitQ, issuedQ, doneQ, hdmaQ>>
poolVars == <<free, others>>
unitVars == <<unit, cur>>
dmaVars == <<tx, rx>>
vars == <<at, spinning, idx, reqVars, queueVars, poolVars, unitVars, dmaVars>>

Units == 0..(UnitCount - 1)
Statuses == {"FREE", "READ_WAIT", "READ_NAND_ISSUED", "READ_NAND_DONE",
             "READ_HDMA_ISSUE", "READ_DONE", "WRITE_WAIT", "WRITE_DONE"}

\* GoToNextStatus.
NextStatus ==
  [READ_WAIT |-> "READ_NAND_ISSUED", READ_NAND_ISSUED |-> "READ_NAND_DONE",
   READ_NAND_DONE |-> "READ_HDMA_ISSUE", READ_HDMA_ISSUE |-> "READ_DONE",
   WRITE_WAIT |-> "WRITE_DONE"]

FreeUnit == [pages |-> 0, programming |-> FALSE]
NoMark == [tail |-> 0, over |-> 0]

Init ==
  /\ at = "FIL" /\ spinning = FALSE /\ idx = 0
  /\ status = [r \in Requests |-> "FREE"]
  /\ count = [r \in Requests |-> 0]
  /\ done = [r \in Requests |-> 0]
  /\ bufs = [r \in Requests |-> 0]
  /\ mark = [r \in Requests |-> NoMark]
  /\ reads = [r \in Requests |-> 0]
  /\ waitQ = <<>> /\ issuedQ = {} /\ doneQ = <<>> /\ hdmaQ = <<>>
  /\ free = BufCount /\ others = 0
  /\ unit = [u \in Units |-> FreeUnit] /\ cur = 0
  /\ tx = EmptyFifo /\ rx = EmptyFifo

------------------------------------------------------------------------------
(* Commands, and what goes on beside the host requests. *)

\* DFTL_GLOBAL::ReadPage and WritePage.  A command that finds no free request
\* runs the FTL until there is one: it arrives when it gets it.
Command(r, s, n) ==
  /\ at = "FIL" /\ status[r] = "FREE"
  /\ status' = [status EXCEPT ![r] = s]
  /\ count' = [count EXCEPT ![r] = n]
  /\ waitQ' = Append(waitQ, r)
  /\ UNCHANGED <<at, spinning, idx, done, bufs, mark, reads, issuedQ, doneQ, hdmaQ,
                 poolVars, unitVars, dmaVars>>

\* GC_REQUEST and META_REQUEST take a buffer when one is free, and give it back.
OthersTakeOrReturn ==
  /\ at = "FIL"
  /\ \/ free > 0 /\ others < OthersMax /\ free' = free - 1 /\ others' = others + 1
     \/ others > 0 /\ free' = free + 1 /\ others' = others - 1
  /\ UNCHANGED <<at, spinning, idx, reqVars, queueVars, unitVars, dmaVars>>

------------------------------------------------------------------------------
(* The FIL: FIL_Run is the first phase, and runs while a request is awaited. *)

Programming == {u \in Units : unit[u].programming}
FilIsFull == SumFunction(reads) + Cardinality(Programming) >= FilCount
FilRuns == at = "FIL" \/ spinning

\* Mutant: the request goes on when its reads in the FIL have ended.
ReadEndsWhenQuiet(r) ==
  /\ FilRuns /\ reads[r] > 0
  /\ reads' = [reads EXCEPT ![r] = @ - 1]
  /\ done' = [done EXCEPT ![r] = @ + 1]
  /\ IF reads[r] = 1
     THEN /\ issuedQ' = issuedQ \ {r}
          /\ doneQ' = Append(doneQ, r)
          /\ status' = [status EXCEPT ![r] = NextStatus[@]]
     ELSE UNCHANGED <<issuedQ, doneQ, status>>
  /\ UNCHANGED <<at, spinning, idx, count, bufs, mark, waitQ, hdmaQ,
                 poolVars, unitVars, dmaVars>>

\* CallBack of a host read: the last one takes the request to the done queue.
ReadEnds(r) ==
  /\ FilRuns /\ reads[r] > 0
  /\ reads' = [reads EXCEPT ![r] = @ - 1]
  /\ done' = [done EXCEPT ![r] = @ + 1]
  /\ IF done[r] + 1 = count[r]
     THEN /\ issuedQ' = issuedQ \ {r}
          /\ doneQ' = Append(doneQ, r)
          /\ status' = [status EXCEPT ![r] = NextStatus[@]]
     ELSE UNCHANGED <<issuedQ, doneQ, status>>
  /\ UNCHANGED <<at, spinning, idx, count, bufs, mark, waitQ, hdmaQ,
                 poolVars, unitVars, dmaVars>>

\* CallBack of a program: ACTIVE_BLOCK::ProgramDone frees the unit and its buffer.
ProgramEnds(u) ==
  /\ FilRuns /\ unit[u].programming
  /\ unit' = [unit EXCEPT ![u] = FreeUnit]
  /\ free' = free + 1
  /\ UNCHANGED <<at, spinning, idx, reqVars, queueVars, others, cur, dmaVars>>

\* FIL_Run comes back: the done queues are next.
FilReturns ==
  /\ at = "FIL" /\ at' = "DONE"
  /\ UNCHANGED <<spinning, idx, reqVars, queueVars, poolVars, unitVars, dmaVars>>

\* FIL_AllocateRequest finds no free request.
Spin ==
  /\ at \in {"READ", "PROGRAM"} /\ ~spinning /\ FilIsFull
  /\ at = "READ" => idx < count[Head(waitQ)]
  /\ spinning' = TRUE
  /\ UNCHANGED <<at, idx, reqVars, queueVars, poolVars, unitVars, dmaVars>>

------------------------------------------------------------------------------
(* The done queue. *)

\* _ProcessRead_NANDReadDone: a transfer for each page, each waiting for room in
\* the FIFO, and then the mark of the last one.
NandReadDone ==
  /\ at = "DONE" /\ doneQ # <<>> /\ status[Head(doneQ)] = "READ_NAND_DONE"
  /\ at' = "TX" /\ idx' = 0
  /\ UNCHANGED <<spinning, reqVars, queueVars, poolVars, unitVars, dmaVars>>

IssueTx ==
  LET r == Head(doneQ)
  IN  /\ at = "TX" /\ idx < bufs[r] /\ ~IsFull(tx)
      /\ tx' = Issued(tx, r)
      /\ idx' = idx + 1
      /\ UNCHANGED <<at, spinning, reqVars, queueVars, poolVars, unitVars, rx>>

TxIssued ==
  LET r == Head(doneQ)
  IN  /\ at = "TX" /\ idx = bufs[r]
      /\ at' = "DONE" /\ idx' = 0
      /\ mark' = [mark EXCEPT ![r] = [tail |-> tx.tail, over |-> tx.over]]
      /\ status' = [status EXCEPT ![r] = NextStatus[@]]
      /\ doneQ' = Tail(doneQ)
      /\ hdmaQ' = Append(hdmaQ, r)
      /\ UNCHANGED <<spinning, count, done, bufs, reads, waitQ, issuedQ,
                     poolVars, unitVars, dmaVars>>

\* The request goes back to the pool; what is not read again is reset here.
Released(r) ==
  /\ status' = [status EXCEPT ![r] = "FREE"]
  /\ count' = [count EXCEPT ![r] = 0]
  /\ done' = [done EXCEPT ![r] = 0]
  /\ mark' = [mark EXCEPT ![r] = NoMark]
  /\ doneQ' = Tail(doneQ)

\* Mutant: one buffer is given back, whatever the request holds.
ReadDoneLeaks ==
  LET r == Head(doneQ)
  IN  /\ at = "DONE" /\ doneQ # <<>> /\ status[r] = "READ_DONE"
      /\ Released(r)
      /\ free' = free + 1
      /\ bufs' = [bufs EXCEPT ![r] = 0]
      /\ UNCHANGED <<at, spinning, idx, reads, waitQ, issuedQ, hdmaQ, others,
                     unitVars, dmaVars>>

\* _ProcessRead_Done.
ReadDone ==
  LET r == Head(doneQ)
  IN  /\ at = "DONE" /\ doneQ # <<>> /\ status[r] = "READ_DONE"
      /\ Released(r)
      /\ free' = free + bufs[r]
      /\ bufs' = [bufs EXCEPT ![r] = 0]
      /\ UNCHANGED <<at, spinning, idx, reads, waitQ, issuedQ, hdmaQ, others,
                     unitVars, dmaVars>>

\* _ProcessWrite_Done.
WriteDone ==
  LET r == Head(doneQ)
  IN  /\ at = "DONE" /\ doneQ # <<>> /\ status[r] = "WRITE_DONE"
      /\ Released(r)
      /\ UNCHANGED <<at, spinning, idx, bufs, reads, waitQ, issuedQ, hdmaQ,
                     poolVars, unitVars, dmaVars>>

DoneQueueEmpty ==
  /\ at = "DONE" /\ doneQ = <<>> /\ at' = "HDMA"
  /\ UNCHANGED <<spinning, idx, reqVars, queueVars, poolVars, unitVars, dmaVars>>

------------------------------------------------------------------------------
(* The queue of the transfers, of which only the head is looked at. *)

HdmaDone ==
  LET r == Head(hdmaQ)
  IN  /\ at = "HDMA" /\ hdmaQ # <<>> /\ CheckDone(tx, mark[r])
      /\ hdmaQ' = Tail(hdmaQ)
      /\ doneQ' = Append(doneQ, r)
      /\ status' = [status EXCEPT ![r] = NextStatus[@]]
      /\ UNCHANGED <<at, spinning, idx, count, done, bufs, mark, reads, waitQ, issuedQ,
                     poolVars, unitVars, dmaVars>>

HdmaEmptyOrBusy ==
  /\ at = "HDMA" /\ (hdmaQ # <<>> => ~CheckDone(tx, mark[Head(hdmaQ)]))
  /\ at' = "WAIT"
  /\ UNCHANGED <<spinning, idx, reqVars, queueVars, poolVars, unitVars, dmaVars>>

------------------------------------------------------------------------------
(* The wait queue: reads. *)

\* Mutant: one free buffer is enough to start.
ReadStartAnyway ==
  LET r == Head(waitQ)
  IN  /\ at = "WAIT" /\ waitQ # <<>> /\ status[r] = "READ_WAIT"
      /\ free > 0
      /\ at' = "READ" /\ idx' = 0
      /\ UNCHANGED <<spinning, reqVars, queueVars, poolVars, unitVars, dmaVars>>

\* _ProcessRead_Wait, when _IsReadable lets it: the buffers of all pages are free.
ReadStart ==
  LET r == Head(waitQ)
  IN  /\ at = "WAIT" /\ waitQ # <<>> /\ status[r] = "READ_WAIT"
      /\ count[r] <= free
      /\ at' = "READ" /\ idx' = 0
      /\ UNCHANGED <<spinning, reqVars, queueVars, poolVars, unitVars, dmaVars>>

\* A buffer for the next page.
TakeBuffer(r) ==
  /\ at = "READ" /\ idx < count[r]
  /\ idx' = idx + 1
  /\ free' = free - 1
  /\ bufs' = [bufs EXCEPT ![r] = @ + 1]

\* The page is not mapped, or found in a program unit.
ReadHit ==
  LET r == Head(waitQ)
  IN  /\ TakeBuffer(r) /\ ~spinning
      /\ done' = [done EXCEPT ![r] = @ + 1]
      /\ UNCHANGED <<at, spinning, status, count, mark, reads, queueVars, others,
                     unitVars, dmaVars>>

\* The page is read from the NAND.
ReadPage ==
  LET r == Head(waitQ)
  IN  /\ TakeBuffer(r) /\ ~FilIsFull
      /\ spinning' = FALSE
      /\ reads' = [reads EXCEPT ![r] = @ + 1]
      /\ UNCHANGED <<at, status, count, done, mark, queueVars, others, unitVars, dmaVars>>

\* All pages are asked for; a request without a read in the FIL is done.
ReadIssued ==
  LET r == Head(waitQ)
  IN  /\ at = "READ" /\ idx = count[r]
      /\ at' = "WAIT" /\ idx' = 0
      /\ waitQ' = Tail(waitQ)
      /\ IF done[r] = count[r]
         THEN /\ status' = [status EXCEPT ![r] = NextStatus[NextStatus[@]]]
              /\ doneQ' = Append(doneQ, r) /\ UNCHANGED issuedQ
         ELSE /\ status' = [status EXCEPT ![r] = NextStatus[@]]
              /\ issuedQ' = issuedQ \cup {r} /\ UNCHANGED doneQ
      /\ UNCHANGED <<spinning, count, done, bufs, mark, reads, hdmaQ,
                     poolVars, unitVars, dmaVars>>

------------------------------------------------------------------------------
(* The wait queue: writes. *)

\* ACTIVE_BLOCK::Write for the next page, when _IsWritable lets it and the unit
\* is not being programmed: the first page of a unit takes the buffer.
WritePage ==
  LET r == Head(waitQ)
  IN  /\ at = "WAIT" /\ waitQ # <<>> /\ status[r] = "WRITE_WAIT"
      /\ done[r] < count[r]
      /\ free > 0 /\ ~unit[cur].programming
      /\ at' = "RX"
      /\ free' = IF unit[cur].pages = 0 THEN free - 1 ELSE free
      /\ UNCHANGED <<spinning, idx, reqVars, queueVars, others, unitVars, dmaVars>>

\* PROGRAM_UNIT::Add issues the transfer of the page, once the FIFO has room; a
\* unit that is full is programmed.  The mark goes to the request, which nothing
\* asks for it: it is left out.
IssueRx ==
  LET r == Head(waitQ)
  IN  /\ at = "RX" /\ ~IsFull(rx)
      /\ rx' = Issued(rx, cur)
      /\ unit' = [unit EXCEPT ![cur].pages = @ + 1]
      /\ done' = [done EXCEPT ![r] = @ + 1]
      /\ at' = IF unit[cur].pages + 1 = LpnPerUnit THEN "PROGRAM" ELSE "WAIT"
      /\ UNCHANGED <<spinning, idx, status, count, bufs, mark, reads, queueVars, poolVars, cur, tx>>

\* _IssueProgram, once the FIL has a request.
IssueProgram ==
  /\ at = "PROGRAM" /\ ~FilIsFull
  /\ at' = "WAIT_RX" /\ spinning' = FALSE
  /\ unit' = [unit EXCEPT ![cur].programming = TRUE]
  /\ cur' = (cur + 1) % UnitCount
  /\ UNCHANGED <<idx, reqVars, queueVars, poolVars, dmaVars>>

\* WaitRxDMADone with the mark of the unit, which nothing sets.
UnitMark == NoMark
WaitRxDMADone ==
  /\ at = "WAIT_RX" /\ CheckDone(rx, UnitMark)
  /\ at' = "WAIT"
  /\ UNCHANGED <<spinning, idx, reqVars, queueVars, poolVars, unitVars, dmaVars>>

\* The loop of _ProcessWrite_Wait has come to its end.
Written ==
  LET r == Head(waitQ)
  IN  /\ at = "WAIT" /\ waitQ # <<>> /\ status[r] = "WRITE_WAIT"
      /\ done[r] = count[r]
      /\ status' = [status EXCEPT ![r] = NextStatus[@]]
      /\ waitQ' = Tail(waitQ)
      /\ doneQ' = Append(doneQ, r)
      /\ UNCHANGED <<at, spinning, idx, count, done, bufs, mark, reads, issuedQ, hdmaQ,
                     poolVars, unitVars, dmaVars>>

\* The queue is empty or its head is refused: for want of buffers, by a collector
\* that runs, or for a page of the mapping that is not loaded.
WaitQueueLeft ==
  /\ at = "WAIT"
  /\ waitQ # <<>> => done[Head(waitQ)] < count[Head(waitQ)]
  /\ at' = "FIL"
  /\ UNCHANGED <<spinning, idx, reqVars, queueVars, poolVars, unitVars, dmaVars>>

------------------------------------------------------------------------------
(* The hardware *)

TxEnds ==
  /\ tx.pending # <<>> /\ tx' = Ended(tx)
  /\ UNCHANGED <<at, spinning, idx, reqVars, queueVars, poolVars, unitVars, rx>>

RxEnds ==
  /\ rx.pending # <<>> /\ rx' = Ended(rx)
  /\ UNCHANGED <<at, spinning, idx, reqVars, queueVars, poolVars, unitVars, tx>>

------------------------------------------------------------------------------
Served == ReadStart \/ WritePage

Firmware ==
  \/ FilReturns \/ Spin
  \/ NandReadDone \/ IssueTx \/ TxIssued \/ ReadDone \/ WriteDone \/ DoneQueueEmpty
  \/ HdmaDone \/ HdmaEmptyOrBusy
  \/ Served \/ ReadHit \/ ReadPage \/ ReadIssued
  \/ IssueRx \/ IssueProgram \/ WaitRxDMADone \/ Written \/ WaitQueueLeft

Next ==
  \/ \E r \in Requests, c \in Commands : Command(r, c[1], c[2])
  \/ OthersTakeOrReturn
  \/ \E r \in Requests : ReadEnds(r)
  \/ \E u \in Units : ProgramEnds(u)
  \/ Firmware
  \/ TxEnds \/ RxEnds

Spec == Init /\ [][Next]_vars

\* The thread runs, and so does the DMA; the FIL ends every request it has
\* (FilNand); the head of the wait queue is not refused for ever for a mapping
\* (MetaCache, HostServed) or a collector, which assumes that collections end.
Fairness ==
  /\ WF_vars(Firmware) /\ SF_vars(Served)
  /\ WF_vars(TxEnds) /\ WF_vars(RxEnds)
  /\ \A r \in Requests : SF_vars(ReadEnds(r))
  /\ \A u \in Units : SF_vars(ProgramEnds(u))
FairSpec == Spec /\ Fairness

------------------------------------------------------------------------------
TypeOK ==
  /\ at \in {"FIL", "DONE", "TX", "HDMA", "WAIT", "READ", "RX", "PROGRAM", "WAIT_RX"}
  /\ spinning \in BOOLEAN /\ idx \in 0..MaxCount
  /\ status \in [Requests -> Statuses]
  /\ count \in [Requests -> 0..MaxCount] /\ done \in [Requests -> 0..MaxCount]
  /\ bufs \in [Requests -> 0..MaxCount] /\ reads \in [Requests -> 0..MaxCount]
  /\ mark \in [Requests -> [tail : 0..(FifoSize - 1), over : 0..(OverflowSize - 1)]]
  /\ free \in 0..BufCount /\ others \in 0..OthersMax
  /\ unit \in [Units -> [pages : 0..LpnPerUnit, programming : BOOLEAN]] /\ cur \in Units

InQueue(q, r) == \E i \in 1..Len(q) : q[i] = r

\* A request is in the one queue of its status, and only there: the last callback
\* of a read never finds it in the wait queue, although reads of its first pages
\* may end while the later ones still wait for the FIL (dftl_global.cpp:142).
QueuesMatchStatus ==
  /\ \A r \in Requests :
       /\ InQueue(waitQ, r) <=> status[r] \in {"READ_WAIT", "WRITE_WAIT"}
       /\ r \in issuedQ <=> status[r] = "READ_NAND_ISSUED"
       /\ InQueue(doneQ, r) <=> status[r] \in {"READ_NAND_DONE", "READ_DONE", "WRITE_DONE"}
       /\ InQueue(hdmaQ, r) <=> status[r] = "READ_HDMA_ISSUE"
  /\ Len(waitQ) + Cardinality(issuedQ) + Len(doneQ) + Len(hdmaQ)
       = Cardinality({r \in Requests : status[r] # "FREE"})

HeldByRequests == Cardinality({x \in Requests \X (1..MaxCount) : x[2] <= bufs[x[1]]})

\* The buffer of the page that is about to be added to a unit counts as the unit's.
HeldByUnits ==
  Cardinality({u \in Units : unit[u].pages > 0 \/ (u = cur /\ at = "RX")})

\* Every buffer is free or held once, by a request, a unit or another user, and a
\* request has all its buffers while the NAND or the DMA works on one: none is
\* lost, taken from an empty pool, or released early, on any of the paths from the
\* check of the free count to the release, callbacks inside a handler included.
BuffersHeld ==
  /\ free >= 0
  /\ free + others + HeldByRequests + HeldByUnits = BufCount
  /\ \A r \in Requests :
       /\ reads[r] > 0 /\ status[r] # "READ_WAIT" => bufs[r] = count[r]
       /\ InQueue(tx.pending, r) => bufs[r] = count[r] /\ count[r] > 0

\* The check of a read's transfers tells whether they have ended: the indices may
\* wrap, and later transfers be issued, any number of times between the issue and
\* the check (host_lld.c:587).
TransferCheckExact ==
  \A r \in Requests :
    status[r] = "READ_HDMA_ISSUE" =>
      (CheckDone(tx, mark[r]) <=> ~InQueue(tx.pending, r))

\* Every host command ends: reads, which need the buffers of all their pages at
\* once, are not starved by what holds a buffer, and nobody waits in a handler for
\* what only the handler's caller would do.
EveryCommandEnds ==
  \A r \in Requests : status[r] # "FREE" ~> status[r] = "FREE"

\* Not true: "Wait Rx DMA Done" (dftl_activeblock.cpp:164).  A unit that is given
\* to the NAND has its data once _IssueProgram returns.
ProgramAfterTransfer ==
  \A u \in Programming : at # "WAIT_RX" => ~InQueue(rx.pending, u)
==============================================================================
