------------------------------ MODULE FilQueue ------------------------------
(***************************************************************************)
(* The flash interface layer: the pool of FTL_REQUESTs, the wait and       *)
(* issued queue of each die (a way of a channel), the queue of the done    *)
(* ones, and FIL_Run, which handles in this order what is done, what is    *)
(* issued and what waits.  A die of the NAND array is the set of pages     *)
(* programmed in each of its blocks.                                       *)
(*                                                                         *)
(* The FTL above queues the pages of a block in order, from page 0, whose  *)
(* program erases the block first, and starts over when the block is full; *)
(* it reads any page it has queued.                                        *)
(***************************************************************************)
EXTENDS Integers, SequencesExt

CONSTANTS
  Requests,        \* the pool, FTL_REQUEST_COUNT requests
  DieCount,        \* USER_CHANNELS * USER_WAYS
  Blocks,          \* the blocks of a die
  PagesPerBlock,   \* pages of a block
  NoOp             \* no operation is held up by an empty pool

ASSUME SizesAssumption ==
  /\ DieCount \in Nat \ {0}
  /\ PagesPerBlock \in Nat \ {0}
  /\ Requests # {}
  /\ IsFiniteSet(Requests)
  /\ Blocks # {}

Dies  == 1..DieCount
Pages == 0..(PagesPerBlock - 1)

\* What FIL_ReadPage and FIL_ProgramPage are called with.
Operation == [type : {"READ", "PROGRAM"}, die : Dies, block : Blocks, page : Pages]

ASSUME SentinelAssumption == NoOp \notin Operation

VARIABLES
  status,    \* FTL_REQUEST::nStatus
  op,        \* the operation of a request: nType and stAddr
  wait,      \* adlWait
  issued,    \* adlIssued
  doneQ,     \* dlDoneQ
  phase,     \* the caller ("ftl"), or the queue FIL_Run is handling
  die,       \* the die the loop of FIL_ProcessIssuedQ or ...WaitQ is at
  pending,   \* the operation whose caller spins in FIL_AllocateRequest
  queued,    \* per die and block: the pages queued to be programmed so far
  cells      \* per die and block: the pages programmed since the last erase

queueVars == <<status, op, wait, issued, doneQ>>
loopVars  == <<phase, die>>
vars == <<queueVars, loopVars, pending, queued, cells>>

\* The statuses in the order of FTL_REQUEST_STATUS, that nStatus++ follows.
WaitStatus   == {"READ_WAIT", "ERASE_WAIT", "PROGRAM_WAIT"}
IssuedStatus == {"READ_ISSUED", "ERASE_ISSUED", "PROGRAM_ISSUED"}
DoneStatus   == {"READ_DONE", "ERASE_DONE", "PROGRAM_DONE"}
Status == {"FREE"} \union WaitStatus \union IssuedStatus \union DoneStatus

NextStatus(s) ==
  CASE s = "READ_WAIT"      -> "READ_ISSUED"
    [] s = "READ_ISSUED"    -> "READ_DONE"
    [] s = "ERASE_WAIT"     -> "ERASE_ISSUED"
    [] s = "ERASE_ISSUED"   -> "ERASE_DONE"
    [] s = "ERASE_DONE"     -> "PROGRAM_WAIT"
    [] s = "PROGRAM_WAIT"   -> "PROGRAM_ISSUED"
    [] s = "PROGRAM_ISSUED" -> "PROGRAM_DONE"

Free == {r \in Requests : status[r] = "FREE"}

FIL_IsIdle == Free = Requests

------------------------------------------------------------------------------
(* The FTL calls FIL_ReadPage, FIL_ProgramPage and FIL_Run.                 *)

\* Mutant: no erase before the first page.
FirstStatusNoErase(o) == IF o.type = "READ" THEN "READ_WAIT" ELSE "PROGRAM_WAIT"

\* _AddToWaitQ: the first page of a block is erased before it is programmed.
FirstStatus(o) ==
  IF o.type = "READ" THEN "READ_WAIT"
  ELSE IF o.page = 0 THEN "ERASE_WAIT"
  ELSE "PROGRAM_WAIT"

\* Mutant: a new request goes to the head of the queue.
AddToWaitQHead(o) ==
  \E r \in Free :
    /\ status' = [status EXCEPT ![r] = FirstStatus(o)]
    /\ op' = [op EXCEPT ![r] = o]
    /\ wait' = [wait EXCEPT ![o.die] = Cons(r, @)]
    /\ UNCHANGED <<issued, doneQ>>

\* The request is taken from the pool and put to the tail of its die's queue.
AddToWaitQ(o) ==
  \E r \in Free :
    /\ status' = [status EXCEPT ![r] = FirstStatus(o)]
    /\ op' = [op EXCEPT ![r] = o]
    /\ wait' = [wait EXCEPT ![o.die] = Append(@, r)]
    /\ UNCHANGED <<issued, doneQ>>

\* What the FTL may ask for next.
Reads == {o \in Operation : o.type = "READ" /\ o.page < queued[o.die][o.block]}
Programs ==
  {o \in Operation : o.type = "PROGRAM"
                     /\ o.page = queued[o.die][o.block] % PagesPerBlock}

\* There is a request in the pool, or FIL_AllocateRequest runs the FIL
\* until one is free.
Ask(o) ==
  /\ phase = "ftl"
  /\ pending = NoOp
  /\ o \in Reads \union Programs
  /\ queued' = IF o.type = "PROGRAM"
               THEN [queued EXCEPT ![o.die][o.block] = o.page + 1]
               ELSE queued
  /\ \/ AddToWaitQ(o) /\ UNCHANGED <<loopVars, pending>>
     \/ /\ Free = {}
        /\ pending' = o
        /\ phase' = "done"
        /\ UNCHANGED <<queueVars, die>>
  /\ UNCHANGED cells

\* The caller that spins looks at the pool again.
AskAgain ==
  /\ phase = "ftl"
  /\ pending # NoOp
  /\ \/ AddToWaitQ(pending) /\ pending' = NoOp /\ UNCHANGED loopVars
     \/ /\ Free = {}
        /\ phase' = "done"
        /\ UNCHANGED <<queueVars, die, pending>>
  /\ UNCHANGED <<queued, cells>>

\* DFTL_GLOBAL::Run calls FIL_Run.
Run ==
  /\ phase = "ftl"
  /\ pending = NoOp
  /\ ~FIL_IsIdle
  /\ phase' = "done"
  /\ UNCHANGED <<queueVars, die, pending, queued, cells>>

------------------------------------------------------------------------------
(* FIL_Run.                                                                 *)

\* Mutant: the program goes to the tail of the queue.
BackToWaitQTail(r) == Append(wait[op[r].die], r)

\* FIL_AddToRequestWaitQ with bHead.
BackToWaitQ(r) == Cons(r, wait[op[r].die])

\* Mutant: the request is not released.
ProcessDoneKeeps ==
  /\ phase = "done"
  /\ doneQ # <<>>
  /\ LET r == Head(doneQ) IN
       /\ status' = [status EXCEPT ![r] = IF @ = "ERASE_DONE" THEN "PROGRAM_WAIT" ELSE @]
       /\ wait' = IF status[r] = "ERASE_DONE"
                  THEN [wait EXCEPT ![op[r].die] = BackToWaitQ(r)] ELSE wait
  /\ doneQ' = Tail(doneQ)
  /\ UNCHANGED <<op, issued, loopVars, pending, queued, cells>>

\* One turn of _ProcessDoneQ: the FTL is called back and the request released,
\* or, after the erase, the program is put back to the head of the wait queue.
ProcessDone ==
  /\ phase = "done"
  /\ doneQ # <<>>
  /\ LET r == Head(doneQ) IN
       \/ /\ status[r] = "ERASE_DONE"
          /\ status' = [status EXCEPT ![r] = NextStatus(@)]
          /\ wait' = [wait EXCEPT ![op[r].die] = BackToWaitQ(r)]
       \/ /\ status[r] # "ERASE_DONE"
          /\ status' = [status EXCEPT ![r] = "FREE"]
          /\ UNCHANGED wait
  /\ doneQ' = Tail(doneQ)
  /\ UNCHANGED <<op, issued, loopVars, pending, queued, cells>>

DoneQEmpty ==
  /\ phase = "done"
  /\ doneQ = <<>>
  /\ phase' = "issued"
  /\ die' = 1
  /\ UNCHANGED <<queueVars, pending, queued, cells>>

\* Mutant: the loop goes one too far.
NextDieTooFar(next) ==
  IF die <= DieCount THEN die' = die + 1 /\ UNCHANGED phase
                     ELSE die' = 1 /\ phase' = next

\* The loop over all ways and channels, then the next queue.
NextDie(next) ==
  IF die < DieCount THEN die' = die + 1 /\ UNCHANGED phase
                    ELSE die' = 1 /\ phase' = next

\* What an operation that has ended has done to the die.
Effect(r) ==
  LET o == op[r] IN
  CASE status[r] = "READ_ISSUED"    -> cells
    [] status[r] = "ERASE_ISSUED"   -> [cells EXCEPT ![o.die][o.block] = {}]
    [] status[r] = "PROGRAM_ISSUED" -> [cells EXCEPT ![o.die][o.block] = @ \union {o.page}]

\* _ProcessIssuedQ: the operation of the die has ended.
OperationEnds(d) ==
  /\ phase = "issued"
  /\ die = d
  /\ issued[d] # <<>>
  /\ LET r == Head(issued[d]) IN
       /\ issued' = [issued EXCEPT ![d] = Tail(@)]
       /\ status' = [status EXCEPT ![r] = NextStatus(@)]
       /\ doneQ' = Append(doneQ, r)
       /\ cells' = Effect(r)
  /\ NextDie("wait")
  /\ UNCHANGED <<op, wait, pending, queued>>

\* There is none, or NAND_Process... says NAND_RESULT_OP_RUNNING.
OperationRuns ==
  /\ phase = "issued"
  /\ NextDie("wait")
  /\ UNCHANGED <<queueVars, pending, queued, cells>>

\* Mutant: a die that is busy is given another operation.
IssuableBusy(d) == wait[d] # <<>>

\* FIL_ProcessWaitQ: anIssuedCount = 0 and anWaitCount > 0.
Issuable(d) == issued[d] = <<>> /\ wait[d] # <<>>

\* _ProcessWaitQ.  NAND_Issue... never ends the operation at once.
Issue ==
  /\ phase = "wait"
  /\ Issuable(die)
  /\ LET r == Head(wait[die]) IN
       /\ wait' = [wait EXCEPT ![die] = Tail(@)]
       /\ issued' = [issued EXCEPT ![die] = Append(@, r)]
       /\ status' = [status EXCEPT ![r] = NextStatus(@)]
  /\ NextDie("ftl")
  /\ UNCHANGED <<op, doneQ, pending, queued, cells>>

NoIssue ==
  /\ phase = "wait"
  /\ ~Issuable(die)
  /\ NextDie("ftl")
  /\ UNCHANGED <<queueVars, pending, queued, cells>>

------------------------------------------------------------------------------
\* Before the first program of a block nothing is known of its pages: the FTL
\* does not read them, and the erase makes them empty.
Init ==
  /\ status = [r \in Requests |-> "FREE"]
  /\ op = [r \in Requests |-> CHOOSE o \in Operation : TRUE]
  /\ wait = [d \in Dies |-> <<>>]
  /\ issued = [d \in Dies |-> <<>>]
  /\ doneQ = <<>>
  /\ phase = "ftl"
  /\ die = 1
  /\ pending = NoOp
  /\ queued = [d \in Dies |-> [b \in Blocks |-> 0]]
  /\ cells = [d \in Dies |-> [b \in Blocks |-> {}]]

FilRun == ProcessDone \/ DoneQEmpty \/ OperationRuns
          \/ (\E d \in Dies : OperationEnds(d)) \/ Issue \/ NoIssue

Next == (\E o \in Operation : Ask(o)) \/ AskAgain \/ Run \/ FilRun

Spec == Init /\ [][Next]_vars

------------------------------------------------------------------------------
(* Properties.                                                              *)

\* Every variable stays in its type.
TypeOK ==
  /\ status \in [Requests -> Status]
  /\ op \in [Requests -> Operation]
  /\ wait \in [Dies -> Seq(Requests)]
  /\ issued \in [Dies -> Seq(Requests)]
  /\ doneQ \in Seq(Requests)
  /\ phase \in {"ftl", "done", "issued", "wait"}
  /\ die \in Dies
  /\ pending \in Operation \union {NoOp}
  /\ queued \in [Dies -> [Blocks -> 0..PagesPerBlock]]
  /\ cells \in [Dies -> [Blocks -> SUBSET Pages]]

NoRepeat(q) == \A i, j \in DOMAIN q : q[i] = q[j] => i = j

\* A request is in the queue its status and its die say, once, and in no other:
\* none is lost between the pool and the three kinds of queues.
RequestsInQueues ==
  /\ \A d \in Dies :
       /\ NoRepeat(wait[d])
       /\ NoRepeat(issued[d])
       /\ ToSet(wait[d]) = {r \in Requests : status[r] \in WaitStatus /\ op[r].die = d}
       /\ ToSet(issued[d]) = {r \in Requests : status[r] \in IssuedStatus /\ op[r].die = d}
  /\ NoRepeat(doneQ)
  /\ ToSet(doneQ) = {r \in Requests : status[r] \in DoneStatus}

\* "issued count is always 1 or 0" (fil_request.c:38): a die runs one operation,
\* and the one status of its way (fil_nand.c:90) is that operation's.
OneOperationPerDie == \A d \in Dies : Len(issued[d]) <= 1

Issued(s) == {r \in Requests : status[r] = s}

Programmed(o) == o.page \in cells[o.die][o.block]

\* "Check overwrite or not erased" (fil_nand.c:704): a page is programmed once
\* after an erase of its block, whatever overtakes what in the queues of the die.
NoOverwrite == \A r \in Issued("PROGRAM_ISSUED") : ~Programmed(op[r])

\* The block of r has been erased to program its first page, which is still to
\* be issued.
Erased(r) == status[r] = "ERASE_DONE" \/ (status[r] = "PROGRAM_WAIT" /\ op[r].page = 0)

SameBlock(r, s) == op[r].die = op[s].die /\ op[r].block = op[s].block

\* A read finds its page programmed: it is queued behind the program, and a later
\* erase of the block is queued behind it.  The one exception is a read of the
\* first page that overtook its program after the erase.
ReadFindsPage ==
  \A r \in Issued("READ_ISSUED") :
    Programmed(op[r])
    \/ (op[r].page = 0 /\ \E s \in Requests : Erased(s) /\ SameBlock(r, s))

\* The pages of a block are programmed in order, but that the second may get
\* ahead of the first, once.
PagesInOrder ==
  \A d \in Dies, b \in Blocks :
    \/ \E n \in 0..PagesPerBlock : cells[d][b] = 0..(n - 1)
    \/ /\ cells[d][b] = {1}
       /\ \E s \in Requests : /\ Erased(s) \/ status[s] = "PROGRAM_ISSUED"
                              /\ op[s] = [type |-> "PROGRAM", die |-> d,
                                          block |-> b, page |-> 0]

\* "add to waitQ for program after erase" (fil_request.c:373), at the head: the
\* first page is programmed next after the erase made for it.  Not true: the next
\* request of the die is issued before the end of the erase is looked at.
ProgramFollowsErase ==
  \A r \in Requests : Erased(r) => issued[op[r].die] = <<>>
=============================================================================
