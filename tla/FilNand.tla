------------------------------- MODULE FilNand -------------------------------
(***************************************************************************)
(* The NAND operations under the queues of FilQueue: each die (a way of a  *)
(* channel) has one step variable, and every turn of FIL_Run takes the     *)
(* operation of a die one visit further.  The ways of a channel share its  *)
(* controller, which takes a command, runs it and writes a word of memory  *)
(* that the firmware polls.                                                *)
(*                                                                         *)
(* What FilQueue leaves open, when an operation ends and what the die has  *)
(* done by then, is settled here by the controller and the arrays, and     *)
(* FilQueue is what this specification implements.                         *)
(***************************************************************************)
EXTENDS FilQueue

CONSTANTS
  ChannelCount,     \* USER_CHANNELS
  Neighbours,       \* further ways of a channel, of which only the commands count
  FIL_READ_RETRY,   \* how often a read is tried again
  NotReady          \* what a die that is busy may report: "early" (neither ready
                    \* bit is set), "half" (one of the two)

ASSUME ControllerAssumption ==
  /\ ChannelCount \in Nat \ {0}
  /\ Neighbours \intersect Dies = {}
  /\ FIL_READ_RETRY \in Nat
  /\ NotReady # {} /\ NotReady \subseteq {"early", "half"}

Channels == 1..ChannelCount
Channel(d) == ((d - 1) % ChannelCount) + 1

VARIABLES
  step,        \* per die: the union of WAY_STATUS, one step for all operations
  retry,       \* per die: WAY_STATUS::nRetry
  report,      \* per die: the word a status check writes
  completion,  \* per die: the word a transfer writes
  late,        \* the dies whose transfer has left the controller, not its word
  ctrl,        \* per channel: the commands the controller is busy with
  array,       \* per die: what the array does
  seen         \* per die: cells as they were when an operation last ended

wayVars == <<step, retry>>
hardVars == <<report, completion, late, ctrl, array>>
nandVars == <<wayVars, hardVars, seen>>
allVars == <<vars, nandVars>>

\* The steps an operation is left in between two visits.  CHECK_..._ISSUABLE of
\* the operation itself is ISSUABLE, of a transfer TRANSFER.
Steps == {"NONE", "ISSUABLE", "WAIT_DONE", "WAIT_STATUS", "CHECK_STATUS",
          "TRANSFER", "WAIT_TRANSFER", "CHECK_TRANSFER"}

Kind(r) ==
  CASE status[r] \in {"READ_WAIT", "READ_ISSUED"} -> "READ"
    [] status[r] \in {"ERASE_WAIT", "ERASE_ISSUED"} -> "ERASE"
    [] OTHER -> "PROGRAM"

------------------------------------------------------------------------------
(* The registers of the controller.                                         *)

\* Mutant: the controller is not looked at.
IsCMDIssuableWay(d) == array[d] # "busy"

\* The ready bit of the way is set: until a command reaches it, too.
IsWayIdle(d) == array[d] # "busy"

IsCMDIssuable(d) == ctrl[Channel(d)] = <<>> /\ IsWayIdle(d)

\* A command is written.  One that is written while another runs waits for it.
Command(d, c) ==
  ctrl' = [ctrl EXCEPT ![Channel(d)] = Append(@, [way |-> d, cmd |-> c])]

\* V2FStatusCheckAsync: the word is cleared and the command written.
StatusCheck(d) == Command(d, "STATUS") /\ report' = [report EXCEPT ![d] = "none"]

\* Mutant: the completion word of the last transfer is kept.
ReadTransferKeeps(d) == Command(d, "TRANSFER") /\ UNCHANGED completion

\* V2FReadPageTransferAsync.
ReadTransfer(d) ==
  Command(d, "TRANSFER") /\ completion' = [completion EXCEPT ![d] = "none"]

\* The controller ends the command at hand: the array is started, or a status is
\* reported, or a page is in the buffer, with its word written at once or later.
CtrlEnds(ch) ==
  /\ ctrl[ch] # <<>>
  /\ ctrl' = [ctrl EXCEPT ![ch] = Tail(@)]
  /\ LET d == Head(ctrl[ch]).way
         c == Head(ctrl[ch]).cmd IN
       \/ d \in Neighbours /\ UNCHANGED <<report, completion, late, array>>
       \/ /\ c \in {"READ", "ERASE", "PROGRAM"}
          /\ array' = [array EXCEPT ![d] = "starting"]
          /\ UNCHANGED <<report, completion, late>>
       \/ /\ c = "STATUS"
          /\ \E w \in IF array[d] = "ready" THEN {"ok", "fail"} ELSE NotReady :
               report' = [report EXCEPT ![d] = w]
          /\ UNCHANGED <<completion, late, array>>
       \/ /\ c = "TRANSFER"
          /\ \/ late' = late \union {d} /\ UNCHANGED completion
             \/ /\ \E w \in {"ok", "uecc"} : completion' = [completion EXCEPT ![d] = w]
                /\ UNCHANGED late
          /\ UNCHANGED <<report, array>>
  /\ UNCHANGED <<vars, wayVars, seen>>

\* The word of a transfer is written after the controller is free.
WordWritten(d) ==
  /\ d \in late
  /\ late' = late \ {d}
  /\ \E w \in {"ok", "uecc"} : completion' = [completion EXCEPT ![d] = w]
  /\ UNCHANGED <<vars, wayVars, report, ctrl, array, seen>>

\* The ready bit of the way goes off.
ArrayStarts(d) ==
  /\ array[d] = "starting"
  /\ array' = [array EXCEPT ![d] = "busy"]
  /\ UNCHANGED <<vars, wayVars, report, completion, late, ctrl, seen>>

\* The array has done the operation of its die.
ArrayEnds(d) ==
  /\ array[d] = "busy"
  /\ array' = [array EXCEPT ![d] = "ready"]
  /\ cells' = Effect(Head(issued[d]))
  /\ UNCHANGED <<queueVars, loopVars, pending, queued>>
  /\ UNCHANGED <<wayVars, report, completion, late, ctrl, seen>>

------------------------------------------------------------------------------
(* NAND_ProcessErase, NAND_ProcessRead and NAND_ProcessProgram, from one    *)
(* break to the next.  d is the die FIL_Run is at.                          *)

\* NAND_RESULT_OP_RUNNING: the operation is visited again from step s.
Runs(d, s) ==
  /\ step' = [step EXCEPT ![d] = s]
  /\ UNCHANGED <<queueVars, seen>>

\* Mutant: the request stays in the issued queue, too.
EndsKeepsIssued(d) ==
  /\ step' = [step EXCEPT ![d] = "NONE"]
  /\ LET r == Head(issued[d]) IN
       /\ status' = [status EXCEPT ![r] = NextStatus(@)]
       /\ doneQ' = Append(doneQ, r)
  /\ seen' = [seen EXCEPT ![d] = cells[d]]
  /\ UNCHANGED <<op, wait, issued>>

\* NAND_RESULT_DONE: _ProcessIssuedQ moves the request to the done queue.
Ends(d) ==
  /\ step' = [step EXCEPT ![d] = "NONE"]
  /\ LET r == Head(issued[d]) IN
       /\ issued' = [issued EXCEPT ![d] = Tail(@)]
       /\ status' = [status EXCEPT ![r] = NextStatus(@)]
       /\ doneQ' = Append(doneQ, r)
  /\ seen' = [seen EXCEPT ![d] = cells[d]]
  /\ UNCHANGED <<op, wait>>

\* The command of the operation is written when the channel and the way are free.
Start(d, k) ==
  /\ step[d] \in {"NONE", "ISSUABLE"}
  /\ IF IsCMDIssuable(d)
     THEN Command(d, k) /\ step' = [step EXCEPT ![d] = "WAIT_DONE"]
     ELSE step' = [step EXCEPT ![d] = "ISSUABLE"] /\ UNCHANGED ctrl
  /\ UNCHANGED <<report, completion, late, array>>

\* Mutant: the read is tried for ever.
ReadFailsAgain(d) == Runs(d, "NONE") /\ UNCHANGED retry

\* A read that has failed starts again, FIL_READ_RETRY times.
ReadFails(d) ==
  /\ retry' = [retry EXCEPT ![d] = @ + 1]
  /\ IF retry'[d] > FIL_READ_RETRY THEN Ends(d) ELSE Runs(d, "NONE")

AskStatus(d) ==
  /\ step[d] = "WAIT_DONE"
  /\ IF IsCMDIssuable(d)
     THEN StatusCheck(d) /\ Runs(d, "WAIT_STATUS")
     ELSE Runs(d, "WAIT_DONE") /\ UNCHANGED <<report, ctrl>>
  /\ UNCHANGED <<retry, completion, late, array>>

\* The report is there, with both ready bits.
IsCmdDone(d) == report[d] \in {"ok", "fail"}

\* The way is idle, or the report is looked at again.  An erase or a program that
\* failed is as good as done.  A read asks again whenever it is not done, the two
\* others unless one ready bit is set: then they stay where they are.
CheckStatus(d, k) ==
  /\ step[d] \in {"WAIT_STATUS", "CHECK_STATUS"}
  /\ \/ /\ step[d] = "WAIT_STATUS" /\ ~IsWayIdle(d)
        /\ Runs(d, "WAIT_STATUS")
        /\ UNCHANGED retry
     \/ /\ step[d] = "CHECK_STATUS" \/ IsWayIdle(d)
        /\ \/ IsCmdDone(d) /\ k # "READ" /\ Ends(d) /\ UNCHANGED retry
           \/ IsCmdDone(d) /\ k = "READ" /\ report[d] = "fail" /\ ReadFails(d)
           \/ /\ IsCmdDone(d) /\ k = "READ" /\ report[d] # "fail"
              /\ Runs(d, "TRANSFER")
              /\ UNCHANGED retry
           \/ /\ ~IsCmdDone(d)
              /\ Runs(d, IF k # "READ" /\ report[d] = "half" THEN "CHECK_STATUS"
                                                             ELSE "WAIT_DONE")
              /\ UNCHANGED retry
  /\ UNCHANGED hardVars

\* CHECK_TRANSFER_ISSUABLE checks nothing.
Transfer(d) ==
  /\ step[d] = "TRANSFER"
  /\ ReadTransfer(d)
  /\ Runs(d, "WAIT_TRANSFER")
  /\ UNCHANGED <<retry, report, late, array>>

WaitTransfer(d) ==
  /\ step[d] = "WAIT_TRANSFER"
  /\ Runs(d, IF IsCMDIssuable(d) THEN "CHECK_TRANSFER" ELSE "WAIT_TRANSFER")
  /\ UNCHANGED <<retry, hardVars>>

CheckTransfer(d) ==
  /\ step[d] = "CHECK_TRANSFER"
  /\ \/ completion[d] = "ok" /\ Ends(d) /\ UNCHANGED retry
     \/ completion[d] = "uecc" /\ ReadFails(d)
     \/ completion[d] = "none" /\ Runs(d, "WAIT_TRANSFER") /\ UNCHANGED retry
  /\ UNCHANGED hardVars

\* _ProcessIssuedQ, for the die the loop is at.
Visit(d) ==
  /\ phase = "issued" /\ die = d /\ issued[d] # <<>>
  /\ LET k == Kind(Head(issued[d])) IN
       \/ Start(d, k) /\ UNCHANGED <<queueVars, retry, seen>>
       \/ AskStatus(d)
       \/ CheckStatus(d, k)
       \/ Transfer(d)
       \/ WaitTransfer(d)
       \/ CheckTransfer(d)
  /\ NextDie("wait")
  /\ UNCHANGED <<pending, queued, cells>>

NoVisit ==
  /\ phase = "issued" /\ issued[die] = <<>>
  /\ NextDie("wait")
  /\ UNCHANGED <<queueVars, pending, queued, cells, nandVars>>

\* _ProcessWaitQ with NAND_IssueRead, NAND_IssueErase or NAND_IssueProgram.
NandIssue ==
  /\ Issue
  /\ LET k == Kind(Head(wait[die])) IN
       /\ Start(die, k)
       /\ retry' = IF k = "READ" THEN [retry EXCEPT ![die] = 0] ELSE retry
  /\ UNCHANGED seen

\* While the loops of FIL_Run are at another way of the channel, that way may be
\* given a command, and a transfer does not wait for the controller.
NeighbourCommand(n, ch) ==
  /\ phase \in {"issued", "wait"}
  /\ \A i \in DOMAIN ctrl[ch] : ctrl[ch][i].way # n
  /\ ctrl' = [ctrl EXCEPT ![ch] = Append(@, [way |-> n, cmd |-> "OTHER"])]
  /\ UNCHANGED <<vars, wayVars, report, completion, late, array, seen>>

------------------------------------------------------------------------------
NandInit ==
  /\ Init
  /\ step = [d \in Dies |-> "NONE"]
  /\ retry = [d \in Dies |-> 0]
  /\ report = [d \in Dies |-> "none"]
  /\ completion = [d \in Dies |-> "none"]
  /\ late = {}
  /\ ctrl = [ch \in Channels |-> <<>>]
  /\ array = [d \in Dies |-> "ready"]
  /\ seen = cells

\* The other steps of FilQueue do not touch the NAND.
QueueStep ==
  /\ (\E o \in Operation : Ask(o)) \/ AskAgain \/ Run
     \/ ProcessDone \/ DoneQEmpty \/ NoIssue
  /\ UNCHANGED nandVars

DieHardware(d) == WordWritten(d) \/ ArrayStarts(d) \/ ArrayEnds(d)

Hardware == (\E ch \in Channels : CtrlEnds(ch)) \/ (\E d \in Dies : DieHardware(d))

NandNext ==
  \/ QueueStep \/ (\E d \in Dies : Visit(d)) \/ NoVisit \/ NandIssue
  \/ \E n \in Neighbours, ch \in Channels : NeighbourCommand(n, ch)
  \/ Hardware

NandSpec == NandInit /\ [][NandNext]_allVars
------------------------------------------------------------------------------
(* Properties.                                                              *)

\* What a way is doing when it has no operation.
Commands(d) == {c \in ToSet(ctrl[Channel(d)]) : c.way = d}

\* Nothing goes on in a way whose operation was reported ended: WAY_STATUS, which
\* the next operation takes over whatever its type ("must be 0", fil_nand.c:36),
\* is back at the start, and neither its array nor the controller nor a transfer
\* still works for it.
FreeWayIsQuiet ==
  \A d \in Dies : issued[d] = <<>> =>
    /\ step[d] = "NONE"
    /\ Commands(d) = {}
    /\ array[d] = "ready"
    /\ d \notin late
    /\ seen[d] = cells[d]

\* A way whose array works is only asked for its status: the checks of the
\* controller and of the ready bit, read at two moments, never let an operation or
\* a transfer through to it, although the ready bit goes off late.
WorkingArrayUndisturbed ==
  \A d \in Dies :
    /\ Cardinality(Commands(d)) <= 1
    /\ array[d] # "ready" => \A c \in Commands(d) : c.cmd = "STATUS"

\* The name of CHECK_TRANSFER_ISSUABLE (fil_nand.c:42): a command is written when
\* the controller is free.  Not true of transfers.
OneCommandAtATime == \A ch \in Channels : Len(ctrl[ch]) <= 1

\* FilQueue, for which an operation acts on the die when it is reported ended.
Queue == INSTANCE FilQueue WITH cells <- seen

\* However the visits of the dies and the work of the controller and the arrays
\* interleave, the queues see operations that end, with what they were to do to
\* the die done by then, or go on.
ImplementsQueue == Queue!Spec

\* Every request is called back and released, whatever its reads and transfers
\* report, and so the caller that spins in FIL_AllocateRequest gets one. (Not with
\* "half" among the reports: see CheckStatus.)
EveryRequestEnds ==
  /\ \A r \in Requests : status[r] # "FREE" ~> status[r] = "FREE"
  /\ pending # NoOp ~> pending = NoOp

\* The controller and the arrays get on, whatever the firmware does.
HardwareFairness ==
  /\ \A ch \in Channels : WF_allVars(CtrlEnds(ch))
  /\ \A d \in Dies : WF_allVars(DieHardware(d))

\* FIL_AllocateRequest, DFTL_GLOBAL::Run and FIL_Run go on.
FirmwareStep ==
  \/ (AskAgain \/ Run \/ ProcessDone \/ DoneQEmpty \/ NoIssue) /\ UNCHANGED nandVars
  \/ (\E d \in Dies : Visit(d)) \/ NoVisit \/ NandIssue

\* The end of a command is not tied to the place the loop over the dies is at: a
\* status check that is written again and again is at some time over before its
\* way is looked at again.
StatusInTime(d) ==
  phase = "done" /\ step[d] = "WAIT_STATUS" /\ CtrlEnds(Channel(d))

ChannelInTime(ch) == phase = "done" /\ CtrlEnds(ch)

\* The other ways of the channel do not get a command in each time before d is
\* visited.
VisitInTime(d) == IsCMDIssuable(d) /\ Visit(d)

NandFairSpec ==
  /\ NandSpec
  /\ HardwareFairness
  /\ WF_allVars(FirmwareStep)
  /\ \A d \in Dies : SF_allVars(StatusInTime(d)) /\ SF_allVars(VisitInTime(d))
  /\ \A ch \in Channels : SF_allVars(ChannelInTime(ch))
=============================================================================
