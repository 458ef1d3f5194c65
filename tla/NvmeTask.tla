------------------------------ MODULE NvmeTask ------------------------------
(***************************************************************************)
(* The states of the NVMe controller as the host enables it, resets it and *)
(* shuts it down.  Two actors write g_nvmeTask.status without a lock: the  *)
(* loop of nvme_run, which writes the registers of the controller one      *)
(* after another and the status at the end, and dev_irq_handler, which     *)
(* interrupts it anywhere.                                                 *)
(*                                                                         *)
(* The host and the link are the environment: a host that keeps to the     *)
(* protocol of the ready bit, and a link that may go down at any time.     *)
(* The I/O commands and the admin commands that change no state of the     *)
(* controller are turns of the loop that leave everything here unchanged.  *)
(***************************************************************************)
EXTENDS Integers, Sequences

CONSTANTS
  QueueCount,     \* the queues the loop clears: 8 in nvme_run
  Patient         \* TRUE: the host does not disable before the ready bit is set,
                  \* and a fall of the link lasts longer than its interrupt and
                  \* the turn of nvme_run it interrupts

ASSUME TaskAssumption == QueueCount \in Nat \ {0} /\ Patient \in BOOLEAN

VARIABLES
  status,     \* g_nvmeTask.status
  branch,     \* the status nvme_run has read in this turn
  todo,       \* the writes of this turn that are left
  direct,     \* direct transfers handle_identify waits for
  reg,        \* cacheEn, the admin queue register, CSTS.RDY and CSTS.SHST
  sq, cq,     \* the I/O queues the controller has
  cc,         \* CC.EN and CC.SHN, written by the host
  link,       \* whether the PCIe link is up
  pending,    \* DEV_IRQ_STATUS_REG
  lost        \* history: nvme_run has overwritten what the handler wrote last

vars == <<status, branch, todo, direct, reg, sq, cq, cc, link, pending, lost>>
hostVars == <<cc, link>>
taskVars == <<branch, todo, direct>>
queueVars == <<sq, cq>>

Statuses == {"IDLE", "WAIT_CC_EN", "RUNNING", "SHUTDOWN", "WAIT_RESET", "RESET"}
Queues == 0..(QueueCount - 1)

TypeOK ==
  /\ status \in Statuses /\ branch \in Statuses
  /\ direct \in 0..2
  /\ reg \in [cacheEn : {0, 1}, admin : {0, 1}, rdy : {0, 1}, shst : {0, 1, 2}]
  /\ sq \subseteq Queues /\ cq \subseteq Queues
  /\ cc \in [en : {0, 1}, shn : 0..2]
  /\ link \in BOOLEAN /\ lost \in BOOLEAN
  /\ pending \subseteq {"link", "en", "shn"}

Init ==
  /\ status = "IDLE" /\ branch = "IDLE"
  /\ todo = <<>> /\ direct = 0
  /\ reg = [cacheEn |-> 0, admin |-> 0, rdy |-> 0, shst |-> 0]
  /\ sq = {} /\ cq = {}
  /\ cc = [en |-> 0, shn |-> 0]
  /\ link = TRUE /\ pending = {} /\ lost = FALSE

-----------------------------------------------------------------------------
(* nvme_run: the writes of each branch, in the order of the code.           *)

Write(what, to) == [what |-> what, to |-> to]

\* Of queues 0 to n - 1, the completion queue before the submission queue.
Clear(n) ==
  [i \in 1..(2 * n) |-> Write(IF i % 2 = 1 THEN "cq" ELSE "sq", (i - 1) \div 2)]

\* Mutant: the bound of the loop is one too low.
ClearQueuesButLast == Clear(QueueCount - 1)

ClearQueues == Clear(QueueCount)

Enable == <<Write("admin", 1), Write("rdy", 1), Write("status", "RUNNING")>>

Shutdown ==
  <<Write("shst", 1)>> \o ClearQueues
    \o <<Write("admin", 0), Write("cacheEn", 0), Write("shst", 2),
         Write("status", "WAIT_RESET")>>

Disable ==
  <<Write("cacheEn", 0), Write("shst", 0), Write("rdy", 0), Write("status", "IDLE")>>

Reset ==
  ClearQueues
    \o <<Write("cacheEn", 0), Write("admin", 0), Write("shst", 0), Write("rdy", 0),
         Write("status", "IDLE")>>

Between == todo = <<>> /\ direct = 0

\* A turn of nvme_run reads the status and the controller's register once.
Look ==
  /\ Between
  /\ \/ status = "WAIT_CC_EN" /\ cc.en = 1 /\ todo' = Enable
     \/ status = "SHUTDOWN" /\ cc.shn # 0 /\ todo' = Shutdown
     \/ status = "WAIT_RESET" /\ cc.en = 0 /\ todo' = Disable
     \/ status = "RESET" /\ todo' = Reset
  /\ branch' = status
  /\ UNCHANGED <<status, direct, reg, queueVars, hostVars, pending, lost>>

WriteRegister ==
  /\ todo # <<>> /\ Head(todo).what \in DOMAIN reg
  /\ reg' = [reg EXCEPT ![Head(todo).what] = Head(todo).to]
  /\ todo' = Tail(todo)
  /\ UNCHANGED <<status, branch, direct, queueVars, hostVars, pending, lost>>

ClearQueue ==
  /\ todo # <<>>
  /\ \/ Head(todo).what = "cq" /\ cq' = cq \ {Head(todo).to} /\ sq' = sq
     \/ Head(todo).what = "sq" /\ sq' = sq \ {Head(todo).to} /\ cq' = cq
  /\ todo' = Tail(todo)
  /\ UNCHANGED <<status, branch, direct, reg, hostVars, pending, lost>>

\* The closing write overwrites whatever the handler wrote since Look.
WriteStatus ==
  /\ todo # <<>> /\ Head(todo).what = "status"
  /\ status' = Head(todo).to
  /\ lost' = (lost \/ status # branch)
  /\ todo' = Tail(todo)
  /\ UNCHANGED <<branch, direct, reg, queueVars, hostVars, pending>>

-----------------------------------------------------------------------------
(* nvme_run in RUNNING: one command a turn.  The host sends commands while  *)
(* the controller is ready, and creates and deletes queues in the order the *)
(* protocol asks for; the controller does not check it.                     *)

Fetched ==
  /\ Between /\ status = "RUNNING"
  /\ link /\ cc.en = 1 /\ reg.rdy = 1 /\ reg.admin = 1

handle_create_io_cq ==
  /\ Fetched
  /\ \E q \in Queues \ cq : cq' = cq \union {q}
  /\ UNCHANGED <<status, taskVars, reg, sq, hostVars, pending, lost>>

\* A submission queue completes to the completion queue of its own number.
handle_create_io_sq ==
  /\ Fetched
  /\ \E q \in cq \ sq : sq' = sq \union {q}
  /\ UNCHANGED <<status, taskVars, reg, cq, hostVars, pending, lost>>

handle_delete_io_sq ==
  /\ Fetched
  /\ \E q \in sq : sq' = sq \ {q}
  /\ UNCHANGED <<status, taskVars, reg, cq, hostVars, pending, lost>>

handle_delete_io_cq ==
  /\ Fetched
  /\ \E q \in cq \ sq : cq' = cq \ {q}
  /\ UNCHANGED <<status, taskVars, reg, sq, hostVars, pending, lost>>

\* VOLATILE_WRITE_CACHE; the other features keep nothing.
handle_set_features ==
  /\ Fetched
  /\ \E on \in {0, 1} : reg' = [reg EXCEPT !.cacheEn = on]
  /\ UNCHANGED <<status, taskVars, queueVars, hostVars, pending, lost>>

\* Two transfers when the data crosses a page of the host.
handle_identify ==
  /\ Fetched
  /\ direct' \in {1, 2}
  /\ UNCHANGED <<status, branch, todo, reg, queueVars, hostVars, pending, lost>>

\* check_direct_tx_dma_done waits inside the handler until the last has ended.
DirectTransferEnds ==
  /\ direct > 0
  /\ direct' = direct - 1
  /\ UNCHANGED <<status, branch, todo, reg, queueVars, hostVars, pending, lost>>

-----------------------------------------------------------------------------
(* dev_irq_handler: clears the register it has read, then looks at the      *)
(* link and the host's registers as they are now.                           *)

LinkStatus(s) == IF "link" \in pending /\ ~link THEN "RESET" ELSE s

\* Mutants: every interrupt of CC.EN is an enable; only an enable is seen.
EnableStatusUnread(s) == IF "en" \notin pending THEN s ELSE "WAIT_CC_EN"
EnableStatusOnly(s) == IF "en" \in pending /\ cc.en = 1 THEN "WAIT_CC_EN" ELSE s

EnableStatus(s) ==
  IF "en" \notin pending THEN s ELSE IF cc.en = 1 THEN "WAIT_CC_EN" ELSE "RESET"

ShutdownStatus(s) == IF "shn" \in pending /\ cc.shn = 1 THEN "SHUTDOWN" ELSE s

\* The handler writes the status; one that it leaves alone may still be lost.
Writes == \/ "link" \in pending /\ ~link
          \/ "en" \in pending
          \/ "shn" \in pending /\ cc.shn = 1

dev_irq_handler ==
  /\ pending # {}
  /\ pending' = {}
  /\ status' = ShutdownStatus(EnableStatus(LinkStatus(status)))
  /\ lost' = (lost /\ ~Writes)
  /\ UNCHANGED <<taskVars, reg, queueVars, hostVars>>

-----------------------------------------------------------------------------
(* The host writes CC, and every change of it raises an interrupt.          *)

HostWrites(new) ==
  /\ cc' = new
  /\ pending' = pending \union {f \in {"en", "shn"} : cc[f] # new[f]}
  /\ UNCHANGED <<status, taskVars, reg, queueVars, link, lost>>

HostEnables ==
  /\ link /\ cc.en = 0 /\ reg.rdy = 0
  /\ HostWrites([en |-> 1, shn |-> 0])

HostDisables ==
  /\ cc.en = 1 /\ (Patient => reg.rdy = 1)
  /\ \E shn \in {0, cc.shn} : HostWrites([en |-> 0, shn |-> shn])

\* A normal shutdown (1) or an abrupt one (2).
HostShutsDown ==
  /\ cc.en = 1 /\ reg.rdy = 1 /\ cc.shn = 0
  /\ \E shn \in {1, 2} : HostWrites([cc EXCEPT !.shn = shn])

LinkGoesDown ==
  /\ link
  /\ link' = FALSE
  /\ cc' = [en |-> 0, shn |-> 0]
  /\ pending' = pending \union {"link"} \union {f \in {"en", "shn"} : cc[f] # 0}
  /\ UNCHANGED <<status, taskVars, reg, queueVars, lost>>

LinkComesUp ==
  /\ ~link /\ (Patient => "link" \notin pending /\ todo = <<>>)
  /\ link' = TRUE
  /\ pending' = pending \union {"link"}
  /\ UNCHANGED <<status, taskVars, reg, queueVars, cc, lost>>

Host == HostEnables \/ HostDisables \/ HostShutsDown \/ LinkGoesDown \/ LinkComesUp

Commands ==
  \/ handle_create_io_cq \/ handle_create_io_sq \/ handle_delete_io_sq
  \/ handle_delete_io_cq \/ handle_set_features \/ handle_identify

nvme_run == Look \/ WriteRegister \/ ClearQueue \/ WriteStatus

Next == nvme_run \/ Commands \/ DirectTransferEnds \/ dev_irq_handler \/ Host

Spec == Init /\ [][Next]_vars

\* The loop never rests, the interrupt is taken, and a direct transfer ends.
\* Nothing obliges the host.
Fairness ==
  /\ WF_vars(nvme_run) /\ WF_vars(dev_irq_handler) /\ WF_vars(DirectTransferEnds)

FairSpec == Spec /\ Fairness

-----------------------------------------------------------------------------
(* Properties.                                                              *)

\* A controller that waits to be enabled has nothing left of the time before:
\* no I/O queue, no admin queue, no cache setting.  The queues are cleared in
\* SHUTDOWN and RESET, and a host that is quick can have its next enable in
\* the status before either has finished.
FreshWhenEnabled ==
  Between /\ status \in {"IDLE", "WAIT_CC_EN"} =>
    /\ sq = {} /\ cq = {}
    /\ reg.admin = 0 /\ reg.cacheEn = 0

\* Between two turns, a ready bit the host sees means a controller that takes
\* commands or is about to stop: it is not idle or waiting to be enabled, its
\* admin queue is on unless it has shut down, and a controller that the host has
\* enabled and does not shut down is RUNNING: it is only a disable, a shutdown or the
\* next enable that nvme_run can overwrite.
ReadyIsServed ==
  Between /\ reg.rdy = 1 =>
    /\ status \notin {"IDLE", "WAIT_CC_EN"}
    /\ reg.admin = 1 \/ reg.shst = 2
    /\ cc = [en |-> 1, shn |-> 0] => status = "RUNNING"

\* What the host asks for is done, unless nvme_run overwrites the status the
\* handler wrote: an enable sets the ready bit, a disable clears it, and a
\* normal shutdown is reported complete.
RequestsServed ==
  /\ (cc.en = 1 /\ reg.rdy = 0) ~> (reg.rdy = 1 \/ cc.en = 0 \/ lost)
  /\ (cc.en = 0 /\ reg.rdy = 1) ~> (reg.rdy = 0 \/ lost)
  /\ (cc.shn = 1) ~> (reg.shst = 2 \/ cc.en = 0 \/ lost)

(* Not true of this code:                                                   *)
(* - NothingIsLost == ~lost.  The ready bit is written before the status,   *)
(*   so the host may answer it first: its disable or its shutdown is lost   *)
(*   to RUNNING, its next enable to IDLE, and the controller then stays as  *)
(*   it is until the next interrupt.                                        *)
(* - FreshWhenEnabled with Patient FALSE: an enable, a disable or a fall of *)
(*   the link, and an enable before one interrupt leave WAIT_CC_EN in a     *)
(*   controller that is running.                                            *)
(* - AbruptIsServed == (cc.shn = 2) ~> (reg.shst = 2 \/ cc.en = 0 \/ lost): *)
(*   the handler starts a shutdown only for 1, though nvme_run serves both. *)
=============================================================================
