----------------------------- MODULE MCNvmeTask -----------------------------
(* NvmeTask on small instances, and two statements that are not true of it.  *)
EXTENDS NvmeTask

\* What dev_irq_handler writes to the status is read by nvme_run before nvme_run
\* overwrites it.  Not true: the ready bit is written first.
NothingIsLost == ~lost

\* An abrupt shutdown is reported complete, as a normal one is.  Not true: the
\* handler (host_lld.c:235) starts a shutdown for SHN = 1 only.
AbruptIsServed == (cc.shn = 2) ~> (reg.shst = 2 \/ cc.en = 0 \/ lost)
=============================================================================
