--------------------------- MODULE FilQueueProofs ---------------------------
(***************************************************************************)
(* For every number of requests, dies and blocks: the types, that no       *)
(* request leaves the queues of the flash interface layer, that a die runs *)
(* one operation at a time, and, when a block has more than one page, that *)
(* a page is neither written over nor read before it is programmed and that *)
(* the pages of a block are programmed in order.                           *)
(***************************************************************************)
EXTENDS FilQueue, SeqLemmas

\* The three are inductive only together: the status of the head of a queue says
\* which step it takes, and RequestsInQueues says what status that is.
IInv == TypeOK /\ RequestsInQueues /\ OneOperationPerDie

(***************************************************************************)
(* Statuses.                                                               *)
(***************************************************************************)

\* nStatus++ takes a waiting operation to an issued one, that to a done one, and
\* the erase that is done to the program that waits.
LEMMA StatusFacts ==
  /\ \A s \in WaitStatus : NextStatus(s) \in IssuedStatus /\ s \notin IssuedStatus \union DoneStatus
  /\ \A s \in IssuedStatus : NextStatus(s) \in DoneStatus /\ s \notin WaitStatus \union DoneStatus
  /\ \A s \in DoneStatus : s \notin WaitStatus \union IssuedStatus
  /\ NextStatus("ERASE_DONE") = "PROGRAM_WAIT"
  /\ "PROGRAM_WAIT" \in WaitStatus
  /\ "FREE" \notin WaitStatus \union IssuedStatus \union DoneStatus
  /\ Status = {"FREE"} \union WaitStatus \union IssuedStatus \union DoneStatus
<1>1. \A s \in WaitStatus : NextStatus(s) \in IssuedStatus
  BY DEF WaitStatus, IssuedStatus, NextStatus
<1>2. \A s \in IssuedStatus : NextStatus(s) \in DoneStatus
  BY DEF DoneStatus, IssuedStatus, NextStatus
<1>3. NextStatus("ERASE_DONE") = "PROGRAM_WAIT" /\ "PROGRAM_WAIT" \in WaitStatus
  BY DEF WaitStatus, NextStatus
<1>4. /\ \A s \in WaitStatus : s \notin IssuedStatus \union DoneStatus
      /\ \A s \in IssuedStatus : s \notin WaitStatus \union DoneStatus
      /\ \A s \in DoneStatus : s \notin WaitStatus \union IssuedStatus
      /\ "FREE" \notin WaitStatus \union IssuedStatus \union DoneStatus
  BY DEF WaitStatus, IssuedStatus, DoneStatus
<1> QED BY <1>1, <1>2, <1>3, <1>4 DEF Status

\* A new request waits.
LEMMA FirstStatusWaits ==
  ASSUME NEW o
  PROVE  FirstStatus(o) \in WaitStatus
BY DEF FirstStatus, WaitStatus

\* An operation names a die, a block and a page.
LEMMA OperationFacts ==
  ASSUME NEW o \in Operation
  PROVE  o.die \in Dies /\ o.block \in Blocks /\ o.page \in Pages
BY DEF Operation

(***************************************************************************)
(* Steps that move no request.                                             *)
(***************************************************************************)

\* The queues and the pool are as they were.
LEMMA QueuesFrame ==
  ASSUME RequestsInQueues, OneOperationPerDie, UNCHANGED queueVars
  PROVE  RequestsInQueues' /\ OneOperationPerDie'
BY DEF RequestsInQueues, OneOperationPerDie, NoRepeat, queueVars

\* The loop over the dies stays within them.
LEMMA NextDieType ==
  ASSUME NEW next \in {"ftl", "wait"},
         die \in Dies, phase \in {"ftl", "done", "issued", "wait"}, NextDie(next)
  PROVE  die' \in Dies /\ phase' \in {"ftl", "done", "issued", "wait"}
BY SizesAssumption DEF NextDie, Dies

\* The FIL starts, finds a queue empty or an operation still running.
LEMMA QuietStep ==
  ASSUME IInv, Run \/ DoneQEmpty \/ OperationRuns \/ NoIssue
  PROVE  IInv'
<1>1. UNCHANGED <<queueVars, pending, queued, cells>>
  BY DEF Run, DoneQEmpty, OperationRuns, NoIssue
<1>2. die' \in Dies /\ phase' \in {"ftl", "done", "issued", "wait"}
  <2>1. 1 \in Dies
    BY SizesAssumption DEF Dies
  <2> QED BY <2>1, NextDieType
        DEF IInv, TypeOK, Run, DoneQEmpty, OperationRuns, NoIssue
<1>3. TypeOK'
  BY <1>1, <1>2 DEF IInv, TypeOK, queueVars
<1> QED BY <1>1, <1>3, QueuesFrame DEF IInv

(***************************************************************************)
(* A request is taken from the pool.                                       *)
(***************************************************************************)

\* FIL_AllocateRequest and _AddToWaitQ.
LEMMA AddToWaitQStep ==
  ASSUME IInv, NEW o \in Operation, AddToWaitQ(o)
  PROVE  /\ status' \in [Requests -> Status]
         /\ op' \in [Requests -> Operation]
         /\ wait' \in [Dies -> Seq(Requests)]
         /\ RequestsInQueues'
         /\ OneOperationPerDie'
<1>1. PICK r \in Free : /\ status' = [status EXCEPT ![r] = FirstStatus(o)]
                        /\ op' = [op EXCEPT ![r] = o]
                        /\ wait' = [wait EXCEPT ![o.die] = Append(@, r)]
                        /\ UNCHANGED <<issued, doneQ>>
  BY DEF AddToWaitQ
<1>2. /\ status \in [Requests -> Status] /\ op \in [Requests -> Operation]
      /\ wait \in [Dies -> Seq(Requests)]
      /\ r \in Requests /\ status[r] = "FREE" /\ o.die \in Dies
      /\ FirstStatus(o) \in WaitStatus
  BY <1>1, FirstStatusWaits, OperationFacts DEF IInv, TypeOK, Free
<1> DEFINE w == Append(wait[o.die], r)
<1>3. r \notin ToSet(wait[o.die])
  BY <1>2, StatusFacts DEF IInv, RequestsInQueues
<1>4. w \in Seq(Requests) /\ ToSet(w) = ToSet(wait[o.die]) \union {r} /\ NoRepeat(w)
  <2>1. wait[o.die] \in Seq(Requests) /\ Injective(wait[o.die])
    BY <1>2 DEF IInv, RequestsInQueues, NoRepeat, Injective
  <2>2. w \in Seq(Requests) /\ ToSet(w) = ToSet(wait[o.die]) \union {r} /\ Injective(w)
    BY <1>2, <1>3, <2>1, AppendFacts
  <2> QED BY <2>2 DEF NoRepeat, Injective
<1> HIDE DEF w
<1>5. /\ wait' = [wait EXCEPT ![o.die] = w]
      /\ \A s \in Requests : s # r => status'[s] = status[s] /\ op'[s] = op[s]
      /\ status'[r] \in WaitStatus /\ op'[r] = o
  BY <1>1, <1>2 DEF w
<1>6. ASSUME NEW d \in Dies
      PROVE  /\ NoRepeat(wait'[d]) /\ NoRepeat(issued'[d])
             /\ ToSet(wait'[d]) = {s \in Requests : status'[s] \in WaitStatus /\ op'[s].die = d}
             /\ ToSet(issued'[d]) = {s \in Requests : status'[s] \in IssuedStatus /\ op'[s].die = d}
  <2>1. /\ NoRepeat(wait[d]) /\ NoRepeat(issued[d])
        /\ ToSet(wait[d]) = {s \in Requests : status[s] \in WaitStatus /\ op[s].die = d}
        /\ ToSet(issued[d]) = {s \in Requests : status[s] \in IssuedStatus /\ op[s].die = d}
    BY DEF IInv, RequestsInQueues
  <2>2. issued'[d] = issued[d] /\ wait'[d] = IF d = o.die THEN w ELSE wait[d]
    BY <1>1, <1>2, <1>5
  <2>3. ToSet(issued'[d]) = {s \in Requests : status'[s] \in IssuedStatus /\ op'[s].die = d}
    <3>1. status[r] \notin IssuedStatus /\ status'[r] \notin IssuedStatus
      BY <1>2, <1>5, StatusFacts
    <3>2. issued'[d] = issued[d]
      BY <2>2
    <3> QED BY <1>5, <2>1, <3>1, <3>2
  <2>4. ToSet(wait'[d]) = {s \in Requests : status'[s] \in WaitStatus /\ op'[s].die = d}
    <3>1. CASE d = o.die
      <4>1. ToSet(wait'[d]) = ToSet(wait[d]) \union {r}
        BY <1>4, <2>2, <3>1
      <4> QED BY <1>2, <1>5, <2>1, <3>1, <4>1
    <3>2. CASE d # o.die
      <4>1. wait'[d] = wait[d]
        BY <2>2, <3>2
      <4> QED BY <1>2, <1>5, <2>1, <3>2, <4>1, StatusFacts
    <3> QED BY <3>1, <3>2
  <2>5. NoRepeat(wait'[d])
    BY <1>4, <2>1, <2>2
  <2> QED BY <2>1, <2>2, <2>3, <2>4, <2>5
<1>7. ToSet(doneQ') = {s \in Requests : status'[s] \in DoneStatus}
  BY <1>1, <1>2, <1>5, StatusFacts DEF IInv, RequestsInQueues
<1>8. RequestsInQueues'
  BY <1>1, <1>6, <1>7 DEF IInv, RequestsInQueues, NoRepeat
<1> QED BY <1>1, <1>2, <1>4, <1>5, <1>8, StatusFacts DEF IInv, OneOperationPerDie

\* FIL_ReadPage and FIL_ProgramPage.
LEMMA AskStep ==
  ASSUME IInv, NEW o \in Operation, Ask(o)
  PROVE  IInv'
<1>1. queued' \in [Dies -> [Blocks -> 0..PagesPerBlock]]
  <2>1. /\ queued \in [Dies -> [Blocks -> 0..PagesPerBlock]]
        /\ o.die \in Dies /\ o.block \in Blocks
    BY OperationFacts DEF IInv, TypeOK
  <2>2. o.page + 1 \in 0..PagesPerBlock
    BY SizesAssumption, OperationFacts DEF Pages
  <2> QED BY <2>1, <2>2 DEF Ask
<1>2. CASE AddToWaitQ(o) /\ UNCHANGED <<loopVars, pending>>
  <2>1. UNCHANGED <<issued, doneQ>>
    BY <1>2 DEF AddToWaitQ
  <2> QED BY <1>1, <1>2, <2>1, AddToWaitQStep DEF IInv, TypeOK, Ask, loopVars
<1>3. CASE UNCHANGED <<queueVars, die>> /\ pending' = o /\ phase' = "done"
  <2>1. TypeOK'
    BY <1>1, <1>3 DEF IInv, TypeOK, Ask, queueVars
  <2> QED BY <1>3, <2>1, QueuesFrame DEF IInv
<1> QED BY <1>2, <1>3 DEF Ask

\* The loop of FIL_AllocateRequest.
LEMMA AskAgainStep ==
  ASSUME IInv, AskAgain
  PROVE  IInv'
<1>1. pending \in Operation /\ UNCHANGED <<queued, cells>>
  BY DEF IInv, TypeOK, AskAgain
<1>2. CASE AddToWaitQ(pending) /\ pending' = NoOp /\ UNCHANGED loopVars
  <2>1. UNCHANGED <<issued, doneQ>>
    BY <1>2 DEF AddToWaitQ
  <2> QED BY <1>1, <1>2, <2>1, AddToWaitQStep DEF IInv, TypeOK, loopVars
<1>3. CASE UNCHANGED <<queueVars, die, pending>> /\ phase' = "done"
  <2>1. TypeOK'
    BY <1>1, <1>3 DEF IInv, TypeOK, queueVars
  <2> QED BY <1>3, <2>1, QueuesFrame DEF IInv
<1> QED BY <1>2, <1>3 DEF AskAgain

(***************************************************************************)
(* A request moves to the next queue.                                      *)
(***************************************************************************)

\* What the head of a queue is, and what the queue is without it.
LEMMA HeadFacts ==
  ASSUME NEW q \in Seq(Requests), q # <<>>, NoRepeat(q)
  PROVE  /\ Head(q) \in Requests /\ Head(q) \in ToSet(q)
         /\ Tail(q) \in Seq(Requests)
         /\ ToSet(Tail(q)) = ToSet(q) \ {Head(q)}
         /\ NoRepeat(Tail(q))
BY TailFacts DEF NoRepeat, Injective

\* What a queue is with a request more, at its tail or at its head.
LEMMA MoreFacts ==
  ASSUME NEW q \in Seq(Requests), NEW r \in Requests, NoRepeat(q), r \notin ToSet(q)
  PROVE  /\ Append(q, r) \in Seq(Requests) /\ Cons(r, q) \in Seq(Requests)
         /\ ToSet(Append(q, r)) = ToSet(q) \union {r}
         /\ ToSet(Cons(r, q)) = ToSet(q) \union {r}
         /\ NoRepeat(Append(q, r)) /\ NoRepeat(Cons(r, q))
<1>1. Injective(q)
  BY DEF NoRepeat, Injective
<1>2. /\ Append(q, r) \in Seq(Requests) /\ ToSet(Append(q, r)) = ToSet(q) \union {r}
      /\ Injective(Append(q, r))
  BY <1>1, AppendFacts
<1>3. Cons(r, q) \in Seq(Requests) /\ ToSet(Cons(r, q)) = ToSet(q) \union {r}
  BY ConsFacts
<1>4. Injective(Cons(r, q))
  BY <1>1, ConsInjective
<1>5. NoRepeat(Append(q, r)) /\ NoRepeat(Cons(r, q))
  BY <1>2, <1>4 DEF NoRepeat, Injective
<1> QED BY <1>2, <1>3, <1>5

\* _ProcessWaitQ: from the wait to the issued queue of the die.
LEMMA IssueStep ==
  ASSUME IInv, Issue
  PROVE  IInv'
<1> DEFINE r == Head(wait[die])
           w == Tail(wait[die])
           i == Append(issued[die], r)
<1>1. /\ status \in [Requests -> Status] /\ op \in [Requests -> Operation]
      /\ wait \in [Dies -> Seq(Requests)] /\ issued \in [Dies -> Seq(Requests)]
      /\ die \in Dies /\ issued[die] = <<>> /\ wait[die] # <<>>
      /\ wait[die] \in Seq(Requests) /\ NoRepeat(wait[die]) /\ NoRepeat(issued[die])
      /\ ToSet(wait[die]) = {s \in Requests : status[s] \in WaitStatus /\ op[s].die = die}
  BY DEF IInv, TypeOK, RequestsInQueues, Issue, Issuable
<1>2. /\ r \in Requests /\ r \in ToSet(wait[die]) /\ w \in Seq(Requests)
      /\ ToSet(w) = ToSet(wait[die]) \ {r} /\ NoRepeat(w)
  BY <1>1, HeadFacts
<1>3. status[r] \in WaitStatus /\ op[r].die = die /\ NextStatus(status[r]) \in IssuedStatus
  BY <1>1, <1>2, StatusFacts
<1>4. r \notin ToSet(issued[die])
  BY <1>1, <1>3, StatusFacts DEF IInv, RequestsInQueues
<1>5. /\ i \in Seq(Requests) /\ ToSet(i) = ToSet(issued[die]) \union {r} /\ NoRepeat(i)
      /\ Len(i) = 1
  <2>1. Len(i) = 1
    BY <1>1, <1>2
  <2> QED BY <1>1, <1>2, <1>4, <2>1, MoreFacts
<1>6. /\ wait' = [wait EXCEPT ![die] = w] /\ issued' = [issued EXCEPT ![die] = i]
      /\ status' = [status EXCEPT ![r] = NextStatus(@)]
      /\ UNCHANGED <<op, doneQ, pending, queued, cells>>
  BY DEF Issue
<1> HIDE DEF r, w, i
<1>7. /\ \A s \in Requests : s # r => status'[s] = status[s]
      /\ status'[r] \in IssuedStatus
  BY <1>1, <1>2, <1>3, <1>6
<1>8. ASSUME NEW d \in Dies
      PROVE  /\ NoRepeat(wait'[d]) /\ NoRepeat(issued'[d]) /\ Len(issued'[d]) <= 1
             /\ ToSet(wait'[d]) = {s \in Requests : status'[s] \in WaitStatus /\ op'[s].die = d}
             /\ ToSet(issued'[d]) = {s \in Requests : status'[s] \in IssuedStatus /\ op'[s].die = d}
  <2>1. /\ NoRepeat(wait[d]) /\ NoRepeat(issued[d]) /\ Len(issued[d]) <= 1
        /\ ToSet(wait[d]) = {s \in Requests : status[s] \in WaitStatus /\ op[s].die = d}
        /\ ToSet(issued[d]) = {s \in Requests : status[s] \in IssuedStatus /\ op[s].die = d}
    BY DEF IInv, RequestsInQueues, OneOperationPerDie
  <2>2. CASE d = die
    <3>1. wait'[d] = w /\ issued'[d] = i
      BY <1>1, <1>6, <2>2
    <3>2. ToSet(wait'[d]) = {s \in Requests : status'[s] \in WaitStatus /\ op'[s].die = d}
      BY <1>2, <1>6, <1>7, <2>1, <2>2, <3>1, StatusFacts
    <3>3. ToSet(issued'[d]) = {s \in Requests : status'[s] \in IssuedStatus /\ op'[s].die = d}
      BY <1>2, <1>3, <1>5, <1>6, <1>7, <2>1, <2>2, <3>1
    <3> QED BY <1>2, <1>5, <3>1, <3>2, <3>3
  <2>3. CASE d # die
    <3>1. wait'[d] = wait[d] /\ issued'[d] = issued[d]
      BY <1>1, <1>6, <2>3
    <3>2. ToSet(wait'[d]) = {s \in Requests : status'[s] \in WaitStatus /\ op'[s].die = d}
      BY <1>3, <1>6, <1>7, <2>1, <2>3, <3>1
    <3>3. ToSet(issued'[d]) = {s \in Requests : status'[s] \in IssuedStatus /\ op'[s].die = d}
      BY <1>3, <1>6, <1>7, <2>1, <2>3, <3>1
    <3> QED BY <2>1, <3>1, <3>2, <3>3
  <2> QED BY <2>2, <2>3
<1>9. ToSet(doneQ') = {s \in Requests : status'[s] \in DoneStatus}
  BY <1>2, <1>3, <1>6, <1>7, StatusFacts DEF IInv, RequestsInQueues
<1>10. RequestsInQueues' /\ OneOperationPerDie'
  BY <1>6, <1>8, <1>9 DEF IInv, RequestsInQueues, OneOperationPerDie, NoRepeat
<1>11. TypeOK'
  <2>1. die' \in Dies /\ phase' \in {"ftl", "done", "issued", "wait"}
    BY NextDieType DEF IInv, TypeOK, Issue
  <2>2. status' \in [Requests -> Status]
    BY <1>1, <1>3, <1>6, StatusFacts
  <2>3. wait' \in [Dies -> Seq(Requests)] /\ issued' \in [Dies -> Seq(Requests)]
    BY <1>1, <1>2, <1>5, <1>6
  <2> QED BY <1>6, <2>1, <2>2, <2>3 DEF IInv, TypeOK
<1> QED BY <1>10, <1>11 DEF IInv

\* _ProcessIssuedQ: from the issued queue of the die to the done queue.
LEMMA OperationEndsStep ==
  ASSUME IInv, NEW d0 \in Dies, OperationEnds(d0)
  PROVE  IInv'
<1> DEFINE r == Head(issued[d0])
           i == Tail(issued[d0])
<1>1. /\ status \in [Requests -> Status] /\ op \in [Requests -> Operation]
      /\ issued \in [Dies -> Seq(Requests)] /\ doneQ \in Seq(Requests)
      /\ issued[d0] # <<>> /\ issued[d0] \in Seq(Requests) /\ NoRepeat(issued[d0])
      /\ NoRepeat(doneQ)
      /\ ToSet(issued[d0]) = {s \in Requests : status[s] \in IssuedStatus /\ op[s].die = d0}
      /\ ToSet(doneQ) = {s \in Requests : status[s] \in DoneStatus}
  BY DEF IInv, TypeOK, RequestsInQueues, OperationEnds
<1>2. /\ r \in Requests /\ r \in ToSet(issued[d0]) /\ i \in Seq(Requests)
      /\ ToSet(i) = ToSet(issued[d0]) \ {r} /\ NoRepeat(i)
      /\ Len(i) <= 1
  <2>1. Len(i) <= 1
    BY <1>1 DEF IInv, OneOperationPerDie
  <2> QED BY <1>1, <2>1, HeadFacts
<1>3. status[r] \in IssuedStatus /\ op[r].die = d0 /\ NextStatus(status[r]) \in DoneStatus
  BY <1>1, <1>2, StatusFacts
<1> DEFINE q == Append(doneQ, r)
<1>4. q \in Seq(Requests) /\ ToSet(q) = ToSet(doneQ) \union {r} /\ NoRepeat(q)
  <2>1. r \notin ToSet(doneQ)
    BY <1>1, <1>3, StatusFacts
  <2> QED BY <1>1, <1>2, <2>1, MoreFacts
<1>5. /\ issued' = [issued EXCEPT ![d0] = i] /\ doneQ' = q
      /\ status' = [status EXCEPT ![r] = NextStatus(@)]
      /\ cells' = Effect(r)
      /\ UNCHANGED <<op, wait, pending, queued>>
  BY DEF OperationEnds
<1> HIDE DEF r, i, q
<1>6. /\ \A s \in Requests : s # r => status'[s] = status[s]
      /\ status'[r] \in DoneStatus
  BY <1>1, <1>2, <1>3, <1>5
<1>7. ASSUME NEW d \in Dies
      PROVE  /\ NoRepeat(wait'[d]) /\ NoRepeat(issued'[d]) /\ Len(issued'[d]) <= 1
             /\ ToSet(wait'[d]) = {s \in Requests : status'[s] \in WaitStatus /\ op'[s].die = d}
             /\ ToSet(issued'[d]) = {s \in Requests : status'[s] \in IssuedStatus /\ op'[s].die = d}
  <2>1. /\ NoRepeat(wait[d]) /\ NoRepeat(issued[d]) /\ Len(issued[d]) <= 1
        /\ ToSet(wait[d]) = {s \in Requests : status[s] \in WaitStatus /\ op[s].die = d}
        /\ ToSet(issued[d]) = {s \in Requests : status[s] \in IssuedStatus /\ op[s].die = d}
    BY DEF IInv, RequestsInQueues, OneOperationPerDie
  <2>2. ToSet(wait'[d]) = {s \in Requests : status'[s] \in WaitStatus /\ op'[s].die = d}
    BY <1>2, <1>3, <1>5, <1>6, <2>1, StatusFacts
  <2>3. CASE d = d0
    <3>1. issued'[d] = i
      BY <1>1, <1>5, <2>3
    <3>2. ToSet(issued'[d]) = {s \in Requests : status'[s] \in IssuedStatus /\ op'[s].die = d}
      BY <1>2, <1>5, <1>6, <2>1, <2>3, <3>1, StatusFacts
    <3> QED BY <1>2, <1>5, <2>1, <2>2, <3>1, <3>2
  <2>4. CASE d # d0
    <3>1. issued'[d] = issued[d]
      BY <1>1, <1>5, <2>4
    <3>2. ToSet(issued'[d]) = {s \in Requests : status'[s] \in IssuedStatus /\ op'[s].die = d}
      BY <1>2, <1>3, <1>5, <1>6, <2>1, <2>4, <3>1
    <3> QED BY <1>5, <2>1, <2>2, <3>1, <3>2
  <2> QED BY <2>3, <2>4
<1>8. ToSet(doneQ') = {s \in Requests : status'[s] \in DoneStatus}
  BY <1>1, <1>2, <1>4, <1>5, <1>6
<1>9. RequestsInQueues' /\ OneOperationPerDie'
  BY <1>4, <1>5, <1>7, <1>8 DEF RequestsInQueues, OneOperationPerDie
<1>10. TypeOK'
  <2>1. die' \in Dies /\ phase' \in {"ftl", "done", "issued", "wait"}
    BY NextDieType DEF IInv, TypeOK, OperationEnds
  <2>2. status' \in [Requests -> Status]
    BY <1>1, <1>3, <1>5, StatusFacts
  <2>3. issued' \in [Dies -> Seq(Requests)]
    BY <1>1, <1>2, <1>5
  <2>4. cells' \in [Dies -> [Blocks -> SUBSET Pages]]
    <3>1. /\ cells \in [Dies -> [Blocks -> SUBSET Pages]]
          /\ op[r].die \in Dies /\ op[r].block \in Blocks /\ op[r].page \in Pages
      BY <1>1, <1>2, OperationFacts DEF IInv, TypeOK
    <3>2. CASE status[r] = "READ_ISSUED"
      BY <1>5, <3>1, <3>2 DEF Effect
    <3>3. CASE status[r] = "ERASE_ISSUED"
      BY <1>5, <3>1, <3>3 DEF Effect
    <3>4. CASE status[r] = "PROGRAM_ISSUED"
      BY <1>5, <3>1, <3>4 DEF Effect
    <3> QED BY <1>3, <3>2, <3>3, <3>4 DEF IssuedStatus
  <2> QED BY <1>4, <1>5, <2>1, <2>2, <2>3, <2>4 DEF IInv, TypeOK
<1> QED BY <1>9, <1>10 DEF IInv

\* _ProcessDoneQ: from the done queue to the pool, or back to the wait queue.
LEMMA ProcessDoneStep ==
  ASSUME IInv, ProcessDone
  PROVE  IInv'
<1> DEFINE r == Head(doneQ)
           q == Tail(doneQ)
<1>1. /\ status \in [Requests -> Status] /\ op \in [Requests -> Operation]
      /\ wait \in [Dies -> Seq(Requests)]
      /\ doneQ \in Seq(Requests) /\ doneQ # <<>> /\ NoRepeat(doneQ)
      /\ ToSet(doneQ) = {s \in Requests : status[s] \in DoneStatus}
  BY DEF IInv, TypeOK, RequestsInQueues, ProcessDone
<1>2. /\ r \in Requests /\ r \in ToSet(doneQ) /\ q \in Seq(Requests)
      /\ ToSet(q) = ToSet(doneQ) \ {r} /\ NoRepeat(q)
  BY <1>1, HeadFacts
<1>3. status[r] \in DoneStatus /\ op[r].die \in Dies
  BY <1>1, <1>2, OperationFacts
<1>4. /\ doneQ' = q
      /\ UNCHANGED <<op, issued, loopVars, pending, queued, cells>>
      /\ \/ /\ status[r] = "ERASE_DONE"
            /\ status' = [status EXCEPT ![r] = NextStatus(@)]
            /\ wait' = [wait EXCEPT ![op[r].die] = BackToWaitQ(r)]
         \/ /\ status' = [status EXCEPT ![r] = "FREE"]
            /\ UNCHANGED wait
  BY DEF ProcessDone
<1> HIDE DEF r, q
<1>5. /\ \A s \in Requests : s # r => status'[s] = status[s]
      /\ status' \in [Requests -> Status]
      /\ status'[r] \notin IssuedStatus \union DoneStatus
  <2>1. CASE status' = [status EXCEPT ![r] = "FREE"]
    BY <1>1, <1>2, <2>1, StatusFacts
  <2>2. CASE status[r] = "ERASE_DONE" /\ status' = [status EXCEPT ![r] = NextStatus(@)]
    <3>1. status' = [status EXCEPT ![r] = "PROGRAM_WAIT"] /\ "PROGRAM_WAIT" \in Status
      BY <2>2, StatusFacts
    <3> QED BY <1>1, <1>2, <3>1, StatusFacts
  <2> QED BY <1>4, <2>1, <2>2
<1>6. ToSet(doneQ') = {s \in Requests : status'[s] \in DoneStatus}
  BY <1>1, <1>2, <1>4, <1>5
<1>7. ASSUME NEW d \in Dies
      PROVE  ToSet(issued'[d]) = {s \in Requests : status'[s] \in IssuedStatus /\ op'[s].die = d}
  <2>1. status[r] \notin IssuedStatus
    BY <1>3, StatusFacts
  <2>2. ToSet(issued[d]) = {s \in Requests : status[s] \in IssuedStatus /\ op[s].die = d}
    BY DEF IInv, RequestsInQueues
  <2> QED BY <1>4, <1>5, <2>1, <2>2
<1>8. ASSUME NEW d \in Dies
      PROVE  /\ wait'[d] \in Seq(Requests) /\ NoRepeat(wait'[d])
             /\ ToSet(wait'[d]) = {s \in Requests : status'[s] \in WaitStatus /\ op'[s].die = d}
  <2>1. /\ wait[d] \in Seq(Requests) /\ NoRepeat(wait[d])
        /\ ToSet(wait[d]) = {s \in Requests : status[s] \in WaitStatus /\ op[s].die = d}
    BY <1>1 DEF IInv, RequestsInQueues
  <2>2. status[r] \notin WaitStatus
    BY <1>3, StatusFacts
  <2>3. CASE status' = [status EXCEPT ![r] = "FREE"] /\ UNCHANGED wait
    <3>1. status'[r] \notin WaitStatus
      BY <1>1, <1>2, <2>3, StatusFacts
    <3> QED BY <1>4, <1>5, <2>1, <2>2, <2>3, <3>1
  <2>4. CASE /\ status[r] = "ERASE_DONE"
             /\ status' = [status EXCEPT ![r] = NextStatus(@)]
             /\ wait' = [wait EXCEPT ![op[r].die] = BackToWaitQ(r)]
    <3>1. status'[r] \in WaitStatus
      BY <1>1, <1>2, <2>4, StatusFacts
    <3>2. CASE d = op[r].die
      <4>1. wait'[d] = Cons(r, wait[d])
        BY <1>1, <1>3, <2>4, <3>2 DEF BackToWaitQ
      <4>2. r \notin ToSet(wait[d])
        BY <2>1, <2>2
      <4>3. /\ wait'[d] \in Seq(Requests) /\ NoRepeat(wait'[d])
            /\ ToSet(wait'[d]) = ToSet(wait[d]) \union {r}
        BY <1>2, <2>1, <4>1, <4>2, MoreFacts
      <4> QED BY <1>2, <1>4, <1>5, <2>1, <3>1, <3>2, <4>3
    <3>3. CASE d # op[r].die
      <4>1. wait'[d] = wait[d]
        BY <1>1, <1>3, <2>4, <3>3
      <4> QED BY <1>2, <1>4, <1>5, <2>1, <2>2, <3>3, <4>1
    <3> QED BY <3>2, <3>3
  <2> QED BY <1>4, <2>3, <2>4
<1>9. RequestsInQueues' /\ OneOperationPerDie'
  BY <1>2, <1>4, <1>6, <1>7, <1>8 DEF IInv, RequestsInQueues, OneOperationPerDie, NoRepeat
<1>10. wait' \in [Dies -> Seq(Requests)]
  <2>1. CASE wait' = [wait EXCEPT ![op[r].die] = BackToWaitQ(r)]
    <3>1. wait'[op[r].die] \in Seq(Requests)
      BY <1>3, <1>8
    <3>2. wait'[op[r].die] = BackToWaitQ(r)
      BY <1>1, <1>3, <2>1
    <3> QED BY <1>1, <2>1, <3>1, <3>2
  <2>2. CASE UNCHANGED wait
    BY <1>1, <2>2
  <2> QED BY <1>4, <2>1, <2>2
<1>11. TypeOK'
  BY <1>2, <1>4, <1>5, <1>10 DEF IInv, TypeOK, loopVars
<1> QED BY <1>9, <1>11 DEF IInv

(***************************************************************************)
(* The theorems.                                                           *)
(***************************************************************************)

\* The FIL starts with every request in the pool.
LEMMA InitInvariant == Init => IInv
<1> SUFFICES ASSUME Init PROVE IInv
  OBVIOUS
<1>1. \E o \in Operation : TRUE
  <2>1. 1 \in Dies /\ 0 \in Pages
    BY SizesAssumption DEF Dies, Pages
  <2>2. PICK b \in Blocks : TRUE
    BY SizesAssumption
  <2>3. [type |-> "READ", die |-> 1, block |-> b, page |-> 0] \in Operation
    BY <2>1, <2>2 DEF Operation
  <2> QED BY <2>3
<1>2. (CHOOSE o \in Operation : TRUE) \in Operation
  BY <1>1
<1>3. 1 \in Dies /\ 0 \in 0..PagesPerBlock
  BY SizesAssumption DEF Dies
<1>4. TypeOK
  BY <1>2, <1>3 DEF Init, TypeOK, Status
<1>5. ToSet(<<>>) = {} /\ NoRepeat(<<>>)
  BY DEF ToSet, NoRepeat
<1>6. \A r \in Requests : status[r] \notin WaitStatus \union IssuedStatus \union DoneStatus
  BY StatusFacts DEF Init
<1>7. RequestsInQueues
  BY <1>5, <1>6 DEF Init, RequestsInQueues
<1>8. OneOperationPerDie
  BY DEF Init, OneOperationPerDie
<1> QED BY <1>4, <1>7, <1>8 DEF IInv

\* Every step keeps it.
LEMMA NextInvariant == IInv /\ [Next]_vars => IInv'
<1> SUFFICES ASSUME IInv, [Next]_vars PROVE IInv'
  OBVIOUS
<1>1. CASE \E o \in Operation : Ask(o)
  BY <1>1, AskStep
<1>2. CASE AskAgain
  BY <1>2, AskAgainStep
<1>3. CASE Run \/ DoneQEmpty \/ OperationRuns \/ NoIssue
  BY <1>3, QuietStep
<1>4. CASE ProcessDone
  BY <1>4, ProcessDoneStep
<1>5. CASE \E d \in Dies : OperationEnds(d)
  BY <1>5, OperationEndsStep
<1>6. CASE Issue
  BY <1>6, IssueStep
<1>7. CASE UNCHANGED vars
  <2>1. UNCHANGED queueVars /\ TypeOK'
    BY <1>7 DEF IInv, TypeOK, vars, queueVars, loopVars
  <2> QED BY <2>1, QueuesFrame DEF IInv
<1> QED BY <1>1, <1>2, <1>3, <1>4, <1>5, <1>6, <1>7 DEF Next, FilRun

\* The three hold in every reachable state.
THEOREM FilInvariant == Spec => []IInv
BY InitInvariant, NextInvariant, PTL DEF Spec

\* Every variable of the flash interface layer keeps its type.
THEOREM FilTypeCorrect == Spec => []TypeOK
<1>1. IInv => TypeOK
  BY DEF IInv
<1> QED BY <1>1, FilInvariant, PTL

\* No request is lost or queued twice between the pool and the queues of fil_request.c.
THEOREM RequestsStayInQueues == Spec => []RequestsInQueues
<1>1. IInv => RequestsInQueues
  BY DEF IInv
<1> QED BY <1>1, FilInvariant, PTL

\* "issued count is always 1 or 0" (fil_request.c:38).
THEOREM OneOperation == Spec => []OneOperationPerDie
<1>1. IInv => OneOperationPerDie
  BY DEF IInv
<1> QED BY <1>1, FilInvariant, PTL

(***************************************************************************)
(* The order of the operations of a die.                                   *)
(***************************************************************************)

\* The requests that will still change which pages of a block are there: the
\* erases, that bring the first page, and the programs of the other pages.
Remaining(d, b) ==
  {r \in Requests : /\ op[r].die = d /\ op[r].block = b
                    /\ \/ status[r] \in {"ERASE_WAIT", "ERASE_ISSUED"}
                       \/ status[r] \in {"PROGRAM_WAIT", "PROGRAM_ISSUED"} /\ op[r].page # 0}

\* The reads of a block that are not done.
ReadsOf(d, b) ==
  {r \in Requests : /\ op[r].die = d /\ op[r].block = b
                    /\ status[r] \in {"READ_WAIT", "READ_ISSUED"}}

Line(d, b) == Remaining(d, b) \union ReadsOf(d, b)

\* The requests whose erase is done and whose first page is not programmed yet.
Started(d, b) ==
  {r \in Requests : /\ op[r].die = d /\ op[r].block = b
                    /\ \/ status[r] = "ERASE_DONE"
                       \/ status[r] \in {"PROGRAM_WAIT", "PROGRAM_ISSUED"} /\ op[r].page = 0}

\* The pages of a block, with the first one that is about to be programmed.
Have(d, b) == cells[d][b] \union (IF Started(d, b) # {} THEN {0} ELSE {})

\* r comes before s in a queue.
Ahead(q, r, s) == \E i, j \in DOMAIN q : i < j /\ q[i] = r /\ q[j] = s

\* r is served before s by die d.
Before(d, r, s) ==
  \/ status[r] \in IssuedStatus /\ status[s] \in WaitStatus
  \/ Ahead(wait[d], r, s)

\* What is queued so far when the pages queued are 0..(n - 1): the page of a
\* pending program is counted in queued before it is in a queue.
AtEnd(d, b, n) ==
  IF pending # NoOp /\ pending.type = "PROGRAM" /\ pending.die = d /\ pending.block = b
  THEN pending.page = n % PagesPerBlock /\ queued[d][b] = pending.page + 1
  ELSE queued[d][b] = n

\* The erases and programs of a block, numbered as they were queued: base is the
\* number of the first that remains, top the number of the next one, and c[k] the
\* number of pages that are there when the first k are done.
Numbered(d, b, num, c, base, top) ==
  /\ base <= top
  /\ \A k \in Nat : k < top => c[k + 1] = (c[k] % PagesPerBlock) + 1
  /\ \A r \in Remaining(d, b) : num[r] \in base..(top - 1) /\ op[r].page = c[num[r]] % PagesPerBlock
  /\ \A k \in base..(top - 1) : \E r \in Remaining(d, b) : num[r] = k
  /\ \A r \in ReadsOf(d, b) : num[r] \in base..top /\ op[r].page < c[num[r]]
  /\ \A r, s \in Line(d, b) :
       Before(d, r, s) => num[r] <= num[s] /\ (r \in Remaining(d, b) => num[r] < num[s])
  /\ AtEnd(d, b, c[top])
  /\ Have(d, b) = 0..(c[base] - 1)

InTurn(d, b) ==
  \E num \in [Requests -> Nat], c \in [Nat -> 0..PagesPerBlock], base, top \in Nat :
    Numbered(d, b, num, c, base, top)

FillsInTurn == \A d \in Dies, b \in Blocks : InTurn(d, b)

\* The status says what the operation is.
StatusMatchesType ==
  \A r \in Requests :
    /\ status[r] \in {"READ_WAIT", "READ_ISSUED", "READ_DONE"} => op[r].type = "READ"
    /\ status[r] \notin {"FREE", "READ_WAIT", "READ_ISSUED", "READ_DONE"} => op[r].type = "PROGRAM"
    /\ status[r] \in {"ERASE_WAIT", "ERASE_ISSUED", "ERASE_DONE"} => op[r].page = 0

\* A program of the first page waits, after its erase, at the head of its die.
ErasedFirst ==
  \A r \in Requests :
    status[r] = "PROGRAM_WAIT" /\ op[r].page = 0 => Head(wait[op[r].die]) = r

\* An operation that has ended is handled before the next of its die can end.
DoneOnce ==
  /\ \A r, s \in Requests :
       status[r] \in DoneStatus /\ status[s] \in DoneStatus /\ op[r].die = op[s].die => r = s
  /\ phase = "issued" => \A r \in Requests : status[r] \in DoneStatus => op[r].die < die

\* An erase that is done while another first page waits on the die: that page is
\* issued before the erase is looked at.
TwoErased ==
  \A r, s \in Requests :
    status[r] = "ERASE_DONE" /\ status[s] = "PROGRAM_WAIT" /\ op[s].page = 0 /\ op[r].die = op[s].die =>
      /\ issued[op[r].die] = <<>>
      /\ \/ phase = "issued" /\ die > op[r].die
         \/ phase = "wait" /\ die <= op[r].die

\* A block has one first page that is erased and not programmed, and only the
\* second page may have been programmed before it.
StartedOnce ==
  \A d \in Dies, b \in Blocks :
    /\ \A r, s \in Started(d, b) : r = s
    /\ \A r \in Started(d, b) :
         \/ cells[d][b] = {}
         \/ /\ cells[d][b] = {1}
            /\ \/ status[r] = "PROGRAM_ISSUED"
               \/ status[r] = "PROGRAM_WAIT" /\ issued[d] = <<>>

\* The caller that spins reads a page that is queued.
PendingReads ==
  pending # NoOp /\ pending.type = "READ" => pending.page < queued[pending.die][pending.block]

\* What the queues and the order they are handled in keep.
Queues == StatusMatchesType /\ ErasedFirst /\ DoneOnce /\ TwoErased

\* The strengthening of IInv for the order of the pages.
OrderInv == IInv /\ Queues /\ StartedOnce /\ FillsInTurn /\ PendingReads

\* A queue without its head keeps the order; the head is before the others.
LEMMA AheadTail ==
  ASSUME NEW q \in Seq(Requests), q # <<>>, NEW r, NEW s
  PROVE  /\ Ahead(Tail(q), r, s) => Ahead(q, r, s)
         /\ s \in ToSet(Tail(q)) => Ahead(q, Head(q), s)
<1>1. /\ Len(Tail(q)) = Len(q) - 1 /\ Len(q) \in Nat \ {0} /\ Head(q) = q[1]
      /\ DOMAIN q = 1..Len(q) /\ DOMAIN Tail(q) = 1..Len(Tail(q))
      /\ \A i \in 1..Len(Tail(q)) : Tail(q)[i] = q[i + 1]
  BY TailFacts
<1>2. ASSUME Ahead(Tail(q), r, s) PROVE Ahead(q, r, s)
  <2>1. PICK i, j \in 1..Len(Tail(q)) : i < j /\ Tail(q)[i] = r /\ Tail(q)[j] = s
    BY <1>1, <1>2 DEF Ahead
  <2>2. i + 1 \in DOMAIN q /\ j + 1 \in DOMAIN q /\ i + 1 < j + 1 /\ q[i + 1] = r /\ q[j + 1] = s
    BY <1>1, <2>1
  <2> QED BY <2>2 DEF Ahead
<1>3. ASSUME s \in ToSet(Tail(q)) PROVE Ahead(q, Head(q), s)
  <2>1. PICK j \in 1..Len(Tail(q)) : Tail(q)[j] = s
    BY <1>1, <1>3 DEF ToSet
  <2>2. 1 \in DOMAIN q /\ j + 1 \in DOMAIN q /\ 1 < j + 1 /\ q[1] = Head(q) /\ q[j + 1] = s
    BY <1>1, <2>1
  <2> QED BY <2>2 DEF Ahead
<1> QED BY <1>2, <1>3

\* A request at the head of a queue changes the order of no others.
LEMMA AheadCons ==
  ASSUME NEW q \in Seq(Requests), NEW x \in Requests, NEW r, NEW s, r # x, s # x,
         Ahead(Cons(x, q), r, s)
  PROVE  Ahead(q, r, s)
<1>1. /\ Len(q) \in Nat /\ Len(Cons(x, q)) = Len(q) + 1
      /\ DOMAIN q = 1..Len(q) /\ DOMAIN Cons(x, q) = 1..(Len(q) + 1)
      /\ Cons(x, q)[1] = x
      /\ \A i \in 1..Len(q) : Cons(x, q)[i + 1] = q[i]
  BY DEF Cons
<1>2. PICK i, j \in 1..(Len(q) + 1) : i < j /\ Cons(x, q)[i] = r /\ Cons(x, q)[j] = s
  BY <1>1 DEF Ahead
<1>3. i # 1 /\ j # 1
  BY <1>1, <1>2
<1>4. i - 1 \in 1..Len(q) /\ j - 1 \in 1..Len(q) /\ i - 1 < j - 1 /\ (i - 1) + 1 = i /\ (j - 1) + 1 = j
  BY <1>1, <1>2, <1>3
<1>5. q[i - 1] = r /\ q[j - 1] = s
  BY <1>1, <1>2, <1>4
<1> QED BY <1>1, <1>4, <1>5 DEF Ahead

\* A request at the tail of a queue is after the others.
LEMMA AheadAppend ==
  ASSUME NEW q \in Seq(Requests), NEW x \in Requests, x \notin ToSet(q), NEW r, NEW s,
         Ahead(Append(q, x), r, s)
  PROVE  r # x /\ (s = x \/ Ahead(q, r, s))
<1>1. /\ Len(q) \in Nat /\ DOMAIN q = 1..Len(q) /\ DOMAIN Append(q, x) = 1..(Len(q) + 1)
      /\ Append(q, x)[Len(q) + 1] = x
      /\ \A i \in 1..Len(q) : Append(q, x)[i] = q[i]
  OBVIOUS
<1>2. PICK i, j \in 1..(Len(q) + 1) : i < j /\ Append(q, x)[i] = r /\ Append(q, x)[j] = s
  BY <1>1 DEF Ahead
<1>3. i \in 1..Len(q) /\ q[i] = r
  BY <1>1, <1>2
<1>4. r # x
  BY <1>1, <1>3 DEF ToSet
<1>5. CASE j = Len(q) + 1
  BY <1>1, <1>2, <1>4, <1>5
<1>6. CASE j # Len(q) + 1
  <2>1. j \in 1..Len(q) /\ q[j] = s
    BY <1>1, <1>2, <1>6
  <2> QED BY <1>1, <1>2, <1>3, <1>4, <2>1 DEF Ahead
<1> QED BY <1>5, <1>6

\* The operation a die runs is the only one.
LEMMA IssuedIsOne ==
  ASSUME IInv, NEW r \in Requests, NEW s \in Requests,
         status[r] \in IssuedStatus, status[s] \in IssuedStatus, op[r].die = op[s].die
  PROVE  r = s
<1>1. op[r].die \in Dies
  BY OperationFacts DEF IInv, TypeOK
<1> DEFINE q == issued[op[r].die]
<1>2. q \in Seq(Requests) /\ Len(q) <= 1 /\ r \in ToSet(q) /\ s \in ToSet(q)
  BY <1>1 DEF IInv, TypeOK, RequestsInQueues, OneOperationPerDie
<1> HIDE DEF q
<1>3. PICK i, j \in 1..Len(q) : q[i] = r /\ q[j] = s
  BY <1>2 DEF ToSet
<1>4. i = j
  BY <1>2, <1>3
<1> QED BY <1>3, <1>4

\* A die that runs an operation, and one that does not.
LEMMA IssuedFacts ==
  ASSUME IInv, NEW r \in Requests
  PROVE  /\ op[r].die \in Dies /\ op[r].block \in Blocks /\ op[r].page \in Pages /\ op[r] \in Operation
         /\ status[r] \in IssuedStatus => issued[op[r].die] # <<>>
         /\ status[r] \in WaitStatus <=> r \in ToSet(wait[op[r].die])
<1>1. op[r].die \in Dies /\ op[r].block \in Blocks /\ op[r].page \in Pages /\ op[r] \in Operation
  BY OperationFacts DEF IInv, TypeOK
<1>2. /\ ToSet(wait[op[r].die]) = {s \in Requests : status[s] \in WaitStatus /\ op[s].die = op[r].die}
      /\ ToSet(issued[op[r].die]) = {s \in Requests : status[s] \in IssuedStatus /\ op[s].die = op[r].die}
  BY <1>1 DEF IInv, RequestsInQueues
<1>3. ToSet(<<>>) = {}
  BY DEF ToSet
<1> QED BY <1>1, <1>2, <1>3

\* What waits or runs does so by its status.
LEMMA LineFacts ==
  ASSUME NEW d, NEW b, NEW r \in Line(d, b)
  PROVE  /\ r \in Requests /\ op[r].die = d /\ op[r].block = b
         /\ status[r] \in WaitStatus \union IssuedStatus
BY DEF Line, Remaining, ReadsOf, WaitStatus, IssuedStatus

\* The operation a die runs for a block has the lowest number.
LEMMA FirstNumber ==
  ASSUME IInv, NEW d, NEW b, NEW r \in Line(d, b), status[r] \in IssuedStatus,
         NEW num \in [Requests -> Nat], NEW c, NEW base \in Nat, NEW top \in Nat,
         Numbered(d, b, num, c, base, top)
  PROVE  num[r] = base
<1>1. r \in Requests /\ op[r].die = d
  BY LineFacts
<1>2. \A s \in Remaining(d, b) : s # r => num[r] <= num[s] /\ (r \in Remaining(d, b) => num[r] < num[s])
  <2> SUFFICES ASSUME NEW s \in Remaining(d, b), s # r
               PROVE  num[r] <= num[s] /\ (r \in Remaining(d, b) => num[r] < num[s])
    OBVIOUS
  <2>1. s \in Line(d, b)
    BY DEF Line
  <2>2. s \in Requests /\ op[s].die = d /\ status[s] \in WaitStatus \union IssuedStatus
    BY <2>1, LineFacts
  <2>3. status[s] \in WaitStatus
    BY <1>1, <2>2, IssuedIsOne
  <2> QED BY <2>1, <2>3 DEF Before, Numbered
<1>3. num[r] \in base..top /\ (r \in Remaining(d, b) => num[r] < top)
  BY <1>1 DEF Numbered, Line
<1>4. CASE base = top
  BY <1>3, <1>4
<1>5. CASE base < top
  <2>1. base \in base..(top - 1)
    BY <1>5
  <2>2. PICK s \in Remaining(d, b) : num[s] = base
    BY <2>1 DEF Numbered
  <2> QED BY <1>1, <1>2, <1>3, <2>2
<1> QED BY <1>3, <1>4, <1>5

(***************************************************************************)
(* Steps that queue no operation and end none.                             *)
(***************************************************************************)

\* A step that only drops reads, and changes the order of none, keeps the numbers.
LEMMA InTurnFrame ==
  ASSUME NEW d, NEW b, InTurn(d, b),
         \A n \in 0..PagesPerBlock : AtEnd(d, b, n) => AtEnd(d, b, n)',
         \A r \in Line(d, b) : op'[r] = op[r],
         Remaining(d, b)' = Remaining(d, b), ReadsOf(d, b)' \subseteq ReadsOf(d, b),
         Have(d, b)' = Have(d, b),
         \A r, s \in Line(d, b) : Before(d, r, s)' => Before(d, r, s)
  PROVE  InTurn(d, b)'
<1>1. PICK num \in [Requests -> Nat], c \in [Nat -> 0..PagesPerBlock], base, top \in Nat :
        Numbered(d, b, num, c, base, top)
  BY DEF InTurn
<1>2. AtEnd(d, b, c[top])'
  BY <1>1 DEF Numbered
<1>3. Line(d, b)' \subseteq Line(d, b)
  BY DEF Line
<1>4. \A r \in Remaining(d, b)' : num[r] \in base..(top - 1) /\ op'[r].page = c[num[r]] % PagesPerBlock
  BY <1>1 DEF Numbered, Line
<1>5. \A k \in base..(top - 1) : \E r \in Remaining(d, b)' : num[r] = k
  BY <1>1 DEF Numbered
<1>6. \A r \in ReadsOf(d, b)' : num[r] \in base..top /\ op'[r].page < c[num[r]]
  BY <1>1 DEF Numbered, Line
<1>7. \A r, s \in Line(d, b)' :
        Before(d, r, s)' => num[r] <= num[s] /\ (r \in Remaining(d, b)' => num[r] < num[s])
  BY <1>1, <1>3 DEF Numbered
<1>8. base <= top /\ (\A k \in Nat : k < top => c[k + 1] = (c[k] % PagesPerBlock) + 1)
      /\ Have(d, b)' = 0..(c[base] - 1)
  BY <1>1 DEF Numbered
<1>9. Numbered(d, b, num, c, base, top)'
  BY <1>2, <1>4, <1>5, <1>6, <1>7, <1>8 DEF Numbered
<1> QED BY <1>9 DEF InTurn

\* What is queued is the same when nothing is asked for.
LEMMA AtEndFrame ==
  ASSUME NEW d, NEW b, UNCHANGED <<pending, queued>>
  PROVE  \A n \in 0..PagesPerBlock : AtEnd(d, b, n) => AtEnd(d, b, n)'
BY DEF AtEnd

\* The FIL starts, finds a queue empty or an operation still running.
LEMMA QuietOrder ==
  ASSUME OrderInv, Run \/ DoneQEmpty \/ OperationRuns \/ NoIssue
  PROVE  Queues' /\ StartedOnce' /\ FillsInTurn' /\ PendingReads'
<1>1. UNCHANGED <<status, op, wait, issued, doneQ, pending, queued, cells>>
  BY DEF Run, DoneQEmpty, OperationRuns, NoIssue, queueVars
<1>2. StatusMatchesType' /\ ErasedFirst' /\ PendingReads'
  BY <1>1 DEF OrderInv, Queues, StatusMatchesType, ErasedFirst, PendingReads
<1>3. StartedOnce'
  BY <1>1 DEF OrderInv, StartedOnce, Started
<1>4. FillsInTurn'
  <2> SUFFICES ASSUME NEW d \in Dies, NEW b \in Blocks PROVE InTurn(d, b)'
    BY DEF FillsInTurn
  <2>1. /\ Remaining(d, b)' = Remaining(d, b) /\ ReadsOf(d, b)' = ReadsOf(d, b)
        /\ Have(d, b)' = Have(d, b)
        /\ \A r, s \in Line(d, b) : Before(d, r, s)' => Before(d, r, s)
    BY <1>1 DEF Remaining, ReadsOf, Have, Started, Before, Ahead
  <2> QED BY <1>1, <2>1, InTurnFrame, AtEndFrame DEF OrderInv, FillsInTurn
<1>5. DoneOnce'
  <2>1. \A r, s \in Requests :
          status'[r] \in DoneStatus /\ status'[s] \in DoneStatus /\ op'[r].die = op'[s].die => r = s
    BY <1>1 DEF OrderInv, Queues, DoneOnce
  <2>2. ASSUME phase' = "issued", NEW r \in Requests, status'[r] \in DoneStatus
        PROVE  op'[r].die < die'
    <3>1. CASE DoneQEmpty
      <4>1. r \in ToSet(doneQ) /\ doneQ = <<>>
        BY <1>1, <2>2, <3>1 DEF OrderInv, IInv, RequestsInQueues, DoneQEmpty
      <4> QED BY <4>1 DEF ToSet
    <3>2. CASE OperationRuns
      <4>1. die' = die + 1 /\ phase = "issued"
        BY <2>2, <3>2 DEF OperationRuns, NextDie
      <4>2. op[r].die < die /\ die \in Nat /\ op[r].die \in Nat
        BY <1>1, <2>2, <4>1, IssuedFacts DEF OrderInv, Queues, DoneOnce, IInv, TypeOK, Dies
      <4> QED BY <1>1, <4>1, <4>2
    <3>3. CASE NoIssue
      BY <2>2, <3>3 DEF NoIssue, NextDie
    <3>4. CASE Run
      BY <2>2, <3>4 DEF Run
    <3> QED BY <3>1, <3>2, <3>3, <3>4
  <2> QED BY <2>1, <2>2 DEF DoneOnce
<1>6. TwoErased'
  <2> SUFFICES ASSUME NEW r \in Requests, NEW s \in Requests,
                      status'[r] = "ERASE_DONE", status'[s] = "PROGRAM_WAIT",
                      op'[s].page = 0, op'[r].die = op'[s].die
               PROVE  /\ issued'[op'[r].die] = <<>>
                      /\ \/ phase' = "issued" /\ die' > op'[r].die
                         \/ phase' = "wait" /\ die' <= op'[r].die
    BY DEF TwoErased
  <2>1. /\ issued[op[r].die] = <<>>
        /\ \/ phase = "issued" /\ die > op[r].die
           \/ phase = "wait" /\ die <= op[r].die
    BY <1>1 DEF OrderInv, Queues, TwoErased
  <2>2. op[r].die \in 1..DieCount /\ die \in 1..DieCount /\ DieCount \in Nat
    BY IssuedFacts, SizesAssumption DEF OrderInv, IInv, TypeOK, Dies
  <2>3. CASE OperationRuns
    BY <1>1, <2>1, <2>2, <2>3 DEF OperationRuns, NextDie
  <2>4. CASE NoIssue
    <3>1. "PROGRAM_WAIT" \in WaitStatus
      BY StatusFacts
    <3>2. s \in ToSet(wait[op[r].die])
      BY <1>1, <3>1, IssuedFacts DEF OrderInv
    <3>3. wait[op[r].die] # <<>>
      BY <3>2 DEF ToSet
    <3>4. die # op[r].die
      BY <2>1, <2>4, <3>3 DEF NoIssue, Issuable
    <3> QED BY <1>1, <2>1, <2>2, <2>4, <3>4 DEF NoIssue, NextDie
  <2>5. CASE Run \/ DoneQEmpty
    BY <2>1, <2>5 DEF Run, DoneQEmpty
  <2> QED BY <2>3, <2>4, <2>5
<1> QED BY <1>2, <1>3, <1>4, <1>5, <1>6 DEF Queues

\* _ProcessDoneQ: what is done is in no line, and the program that follows its
\* erase becomes the head of a die no other first page waits on.
LEMMA ProcessDoneOrder ==
  ASSUME OrderInv, ProcessDone
  PROVE  Queues' /\ StartedOnce' /\ FillsInTurn' /\ PendingReads'
<1> DEFINE r == Head(doneQ)
<1>1. /\ status \in [Requests -> Status] /\ doneQ \in Seq(Requests) /\ doneQ # <<>>
      /\ wait \in [Dies -> Seq(Requests)]
      /\ NoRepeat(doneQ) /\ ToSet(doneQ) = {s \in Requests : status[s] \in DoneStatus}
  BY DEF OrderInv, IInv, TypeOK, RequestsInQueues, ProcessDone
<1>2. r \in Requests /\ status[r] \in DoneStatus
  BY <1>1, HeadFacts
<1>3. /\ phase = "done" /\ phase' = "done"
      /\ UNCHANGED <<op, issued, pending, queued, cells>>
      /\ \/ /\ status[r] = "ERASE_DONE"
            /\ status' = [status EXCEPT ![r] = NextStatus(@)]
            /\ wait' = [wait EXCEPT ![op[r].die] = BackToWaitQ(r)]
         \/ /\ status[r] # "ERASE_DONE"
            /\ status' = [status EXCEPT ![r] = "FREE"]
            /\ UNCHANGED wait
  BY DEF ProcessDone, loopVars
<1> HIDE DEF r
<1>4. /\ \A s \in Requests : s # r => status'[s] = status[s]
      /\ \/ status[r] = "ERASE_DONE" /\ status'[r] = "PROGRAM_WAIT" /\ op[r].page = 0
         \/ status[r] \in {"READ_DONE", "PROGRAM_DONE"} /\ status'[r] = "FREE" /\ UNCHANGED wait
  <2>1. CASE status[r] = "ERASE_DONE"
    <3>1. status' = [status EXCEPT ![r] = "PROGRAM_WAIT"]
      BY <1>3, <2>1, StatusFacts
    <3>2. op[r].page = 0
      BY <1>2, <2>1 DEF OrderInv, Queues, StatusMatchesType
    <3> QED BY <1>1, <1>2, <2>1, <3>1, <3>2
  <2>2. CASE status[r] # "ERASE_DONE"
    BY <1>1, <1>2, <1>3, <2>2 DEF DoneStatus
  <2> QED BY <2>1, <2>2
<1>5. \A s \in Requests : status[s] = "ERASE_DONE" /\ op[s].die = op[r].die => s = r
  BY <1>2 DEF OrderInv, Queues, DoneOnce, DoneStatus
<1>6. \A s, t \in Requests :
        ~(status[t] = "ERASE_DONE" /\ status[s] = "PROGRAM_WAIT" /\ op[s].page = 0
          /\ op[t].die = op[s].die)
  BY <1>3 DEF OrderInv, Queues, TwoErased
<1>7. StatusMatchesType' /\ PendingReads'
  BY <1>2, <1>3, <1>4 DEF OrderInv, Queues, StatusMatchesType, PendingReads
<1>8. ErasedFirst'
  <2> SUFFICES ASSUME NEW s \in Requests, status'[s] = "PROGRAM_WAIT", op'[s].page = 0
               PROVE  Head(wait'[op'[s].die]) = s
    BY DEF ErasedFirst
  <2>1. CASE s = r
    <3>1. wait'[op[r].die] = Cons(r, wait[op[r].die])
      BY <1>1, <1>2, <1>3, <1>4, <2>1, IssuedFacts DEF BackToWaitQ, OrderInv
    <3>2. Head(Cons(r, wait[op[r].die])) = r
      BY <1>1, <1>2, IssuedFacts DEF Cons, OrderInv
    <3> QED BY <1>3, <2>1, <3>1, <3>2
  <2>2. CASE s # r
    <3>1. Head(wait[op[s].die]) = s
      BY <1>3, <1>4, <2>2 DEF OrderInv, Queues, ErasedFirst
    <3>2. wait'[op[s].die] = wait[op[s].die]
      <4>1. status[s] = "PROGRAM_WAIT" /\ op[s].page = 0 /\ op[s].die \in Dies
        BY <1>3, <1>4, <2>2, IssuedFacts DEF OrderInv
      <4>2. status[r] = "ERASE_DONE" => op[r].die # op[s].die
        BY <1>2, <1>6, <4>1
      <4> QED BY <1>1, <1>3, <4>1, <4>2
    <3> QED BY <1>3, <3>1, <3>2
  <2> QED BY <2>1, <2>2
<1>9. DoneOnce'
  <2>1. status'[r] \notin DoneStatus
    BY <1>4 DEF DoneStatus
  <2> QED BY <1>3, <1>4, <2>1 DEF OrderInv, Queues, DoneOnce
<1>10. TwoErased'
  <2> SUFFICES ASSUME NEW t \in Requests, NEW s \in Requests,
                      status'[t] = "ERASE_DONE", status'[s] = "PROGRAM_WAIT",
                      op'[s].page = 0, op'[t].die = op'[s].die
               PROVE  FALSE
    BY DEF TwoErased
  <2>1. t # r /\ status[t] = "ERASE_DONE"
    BY <1>4
  <2>2. s = r
    BY <1>3, <1>4, <1>6, <2>1
  <2> QED BY <1>3, <1>5, <2>1, <2>2
<1>11. ASSUME NEW d, NEW b
       PROVE  Started(d, b)' = Started(d, b) /\ Remaining(d, b)' = Remaining(d, b)
              /\ ReadsOf(d, b)' = ReadsOf(d, b)
  BY <1>3, <1>4 DEF Started, Remaining, ReadsOf
<1>12. StartedOnce'
  <2> SUFFICES ASSUME NEW d \in Dies, NEW b \in Blocks
               PROVE  /\ \A s, t \in Started(d, b)' : s = t
                      /\ \A s \in Started(d, b)' :
                           \/ cells'[d][b] = {}
                           \/ /\ cells'[d][b] = {1}
                              /\ \/ status'[s] = "PROGRAM_ISSUED"
                                 \/ status'[s] = "PROGRAM_WAIT" /\ issued'[d] = <<>>
    BY DEF StartedOnce
  <2>1. /\ \A s, t \in Started(d, b) : s = t
        /\ \A s \in Started(d, b) :
             \/ cells[d][b] = {}
             \/ /\ cells[d][b] = {1}
                /\ \/ status[s] = "PROGRAM_ISSUED"
                   \/ status[s] = "PROGRAM_WAIT" /\ issued[d] = <<>>
    BY DEF OrderInv, StartedOnce
  <2>2. ASSUME NEW s \in Started(d, b), cells[d][b] # {}
        PROVE  s # r
    BY <1>4, <2>1, <2>2
  <2>3. \A s \in Started(d, b) : s \in Requests
    BY DEF Started
  <2> QED BY <1>3, <1>4, <1>11, <2>1, <2>2, <2>3
<1>13. FillsInTurn'
  <2> SUFFICES ASSUME NEW d \in Dies, NEW b \in Blocks PROVE InTurn(d, b)'
    BY DEF FillsInTurn
  <2>1. Have(d, b)' = Have(d, b)
    BY <1>3, <1>11 DEF Have
  <2>2. ASSUME NEW s \in Line(d, b), NEW t \in Line(d, b), Before(d, s, t)'
        PROVE  Before(d, s, t)
    <3>1. s \in Requests /\ t \in Requests /\ s # r /\ t # r
      BY <1>2, LineFacts, StatusFacts
    <3>2. status'[s] = status[s] /\ status'[t] = status[t]
      BY <1>4, <3>1
    <3>3. CASE Ahead(wait'[d], s, t)
      <4>1. wait'[d] = wait[d] \/ wait'[d] = Cons(r, wait[d])
        BY <1>1, <1>3 DEF BackToWaitQ
      <4>2. wait[d] \in Seq(Requests)
        BY <1>1
      <4>3. Ahead(wait[d], s, t)
        BY <1>2, <3>1, <3>3, <4>1, <4>2, AheadCons
      <4> QED BY <4>3 DEF Before
    <3> QED BY <2>2, <3>2, <3>3 DEF Before
  <2> QED BY <1>3, <1>11, <2>1, <2>2, InTurnFrame, AtEndFrame DEF OrderInv, FillsInTurn
<1> QED BY <1>7, <1>8, <1>9, <1>10, <1>12, <1>13 DEF Queues

\* _ProcessWaitQ: the head of the die is served next whether it waits or runs.
LEMMA IssueOrder ==
  ASSUME OrderInv, Issue
  PROVE  Queues' /\ StartedOnce' /\ FillsInTurn' /\ PendingReads'
<1> DEFINE r == Head(wait[die])
<1>1. /\ status \in [Requests -> Status] /\ op \in [Requests -> Operation]
      /\ wait \in [Dies -> Seq(Requests)] /\ issued \in [Dies -> Seq(Requests)]
      /\ die \in Dies /\ issued[die] = <<>> /\ wait[die] # <<>>
      /\ wait[die] \in Seq(Requests) /\ NoRepeat(wait[die])
      /\ ToSet(wait[die]) = {s \in Requests : status[s] \in WaitStatus /\ op[s].die = die}
  BY DEF OrderInv, IInv, TypeOK, RequestsInQueues, Issue, Issuable
<1>2. r \in Requests /\ status[r] \in WaitStatus /\ op[r].die = die /\ r \notin ToSet(Tail(wait[die]))
  BY <1>1, HeadFacts
<1>3. /\ phase = "wait"
      /\ wait' = [wait EXCEPT ![die] = Tail(@)]
      /\ issued' = [issued EXCEPT ![die] = Append(@, r)]
      /\ status' = [status EXCEPT ![r] = NextStatus(@)]
      /\ UNCHANGED <<op, pending, queued, cells>>
      /\ NextDie("ftl")
  BY DEF Issue
<1> HIDE DEF r
<1>4. /\ \A s \in Requests : s # r => status'[s] = status[s]
      /\ \/ status[r] = "READ_WAIT" /\ status'[r] = "READ_ISSUED"
         \/ status[r] = "ERASE_WAIT" /\ status'[r] = "ERASE_ISSUED"
         \/ status[r] = "PROGRAM_WAIT" /\ status'[r] = "PROGRAM_ISSUED"
  BY <1>1, <1>2, <1>3 DEF WaitStatus, NextStatus
<1>5. \A d \in Dies : d # die => wait'[d] = wait[d] /\ issued'[d] = issued[d]
  BY <1>1, <1>3
<1>6. \A s \in Requests : status'[s] = "PROGRAM_WAIT" /\ op[s].page = 0 =>
        s # r /\ op[s].die # die /\ status[s] = "PROGRAM_WAIT"
  <2> SUFFICES ASSUME NEW s \in Requests, status'[s] = "PROGRAM_WAIT", op[s].page = 0
               PROVE  s # r /\ op[s].die # die /\ status[s] = "PROGRAM_WAIT"
    OBVIOUS
  <2>1. s # r /\ status[s] = "PROGRAM_WAIT"
    BY <1>4
  <2>2. op[s].die = die => s = r
    BY <2>1 DEF OrderInv, Queues, ErasedFirst, r
  <2> QED BY <2>1, <2>2
<1>7. StatusMatchesType' /\ PendingReads'
  BY <1>2, <1>3, <1>4 DEF OrderInv, Queues, StatusMatchesType, PendingReads
<1>8. ErasedFirst'
  <2> SUFFICES ASSUME NEW s \in Requests, status'[s] = "PROGRAM_WAIT", op[s].page = 0
               PROVE  Head(wait'[op[s].die]) = s
    BY <1>3 DEF ErasedFirst
  <2>1. op[s].die # die /\ status[s] = "PROGRAM_WAIT" /\ op[s].die \in Dies
    BY <1>6, IssuedFacts DEF OrderInv
  <2> QED BY <1>5, <2>1 DEF OrderInv, Queues, ErasedFirst
<1>9. DoneOnce'
  <2>1. phase' # "issued"
    BY <1>3 DEF NextDie
  <2>2. \A s \in Requests : status'[s] \in DoneStatus => status[s] \in DoneStatus
    BY <1>4 DEF DoneStatus
  <2> QED BY <1>3, <2>1, <2>2 DEF OrderInv, Queues, DoneOnce
<1>10. TwoErased'
  <2> SUFFICES ASSUME NEW t \in Requests, NEW s \in Requests,
                      status'[t] = "ERASE_DONE", status'[s] = "PROGRAM_WAIT",
                      op[s].page = 0, op[t].die = op[s].die
               PROVE  issued'[op[t].die] = <<>> /\ phase' = "wait" /\ die' <= op[t].die
    BY <1>3 DEF TwoErased
  <2>1. op[s].die # die /\ status[s] = "PROGRAM_WAIT" /\ status[t] = "ERASE_DONE"
    BY <1>4, <1>6
  <2>2. issued[op[t].die] = <<>> /\ die <= op[t].die
    BY <1>3, <2>1 DEF OrderInv, Queues, TwoErased
  <2>3. op[t].die \in 1..DieCount /\ die \in 1..DieCount /\ DieCount \in Nat
    BY IssuedFacts, SizesAssumption DEF OrderInv, IInv, TypeOK, Dies
  <2>4. die < op[t].die
    BY <2>1, <2>2, <2>3
  <2>5. die' = die + 1 /\ phase' = "wait"
    BY <1>3, <2>3, <2>4 DEF NextDie
  <2>6. issued'[op[t].die] = issued[op[t].die]
    BY <1>5, <2>1, <2>3 DEF Dies
  <2> QED BY <2>2, <2>3, <2>4, <2>5, <2>6
<1>11. ASSUME NEW d, NEW b
       PROVE  Started(d, b)' = Started(d, b) /\ Remaining(d, b)' = Remaining(d, b)
              /\ ReadsOf(d, b)' = ReadsOf(d, b)
  BY <1>2, <1>3, <1>4 DEF Started, Remaining, ReadsOf
<1>12. StartedOnce'
  <2> SUFFICES ASSUME NEW d \in Dies, NEW b \in Blocks
               PROVE  /\ \A s, t \in Started(d, b)' : s = t
                      /\ \A s \in Started(d, b)' :
                           \/ cells'[d][b] = {}
                           \/ /\ cells'[d][b] = {1}
                              /\ \/ status'[s] = "PROGRAM_ISSUED"
                                 \/ status'[s] = "PROGRAM_WAIT" /\ issued'[d] = <<>>
    BY DEF StartedOnce
  <2>1. /\ \A s, t \in Started(d, b) : s = t
        /\ \A s \in Started(d, b) :
             \/ cells[d][b] = {}
             \/ /\ cells[d][b] = {1}
                /\ \/ status[s] = "PROGRAM_ISSUED"
                   \/ status[s] = "PROGRAM_WAIT" /\ issued[d] = <<>>
    BY DEF OrderInv, StartedOnce
  <2>2. ASSUME NEW s \in Started(d, b), cells[d][b] = {1}
        PROVE  status'[s] = "PROGRAM_ISSUED" \/ (status'[s] = "PROGRAM_WAIT" /\ issued'[d] = <<>>)
    <3>1. s \in Requests /\ op[s].die = d
      BY DEF Started
    <3>2. CASE status[s] = "PROGRAM_ISSUED"
      BY <1>4, <3>1, <3>2
    <3>3. CASE status[s] = "PROGRAM_WAIT" /\ issued[d] = <<>>
      <4>1. op[s].page = 0
        BY <3>3 DEF Started
      <4>2. CASE s = r
        BY <1>4, <3>3, <4>2
      <4>3. CASE s # r
        <5>1. status'[s] = "PROGRAM_WAIT" /\ d # die
          BY <1>4, <1>6, <3>1, <3>3, <4>1, <4>3
        <5> QED BY <1>5, <3>3, <5>1
      <4> QED BY <4>2, <4>3
    <3> QED BY <2>1, <2>2, <3>2, <3>3
  <2> QED BY <1>3, <1>11, <2>1, <2>2
<1>13. FillsInTurn'
  <2> SUFFICES ASSUME NEW d \in Dies, NEW b \in Blocks PROVE InTurn(d, b)'
    BY DEF FillsInTurn
  <2>1. Have(d, b)' = Have(d, b)
    BY <1>3, <1>11 DEF Have
  <2>2. ASSUME NEW s \in Line(d, b), NEW t \in Line(d, b), Before(d, s, t)'
        PROVE  Before(d, s, t)
    <3>1. /\ s \in Requests /\ t \in Requests /\ op[s].die = d /\ op[t].die = d
          /\ wait[d] \in Seq(Requests)
      BY <1>1, LineFacts
    <3>2. CASE Ahead(wait'[d], s, t)
      <4>1. Ahead(wait[d], s, t)
        <5>1. CASE d = die
          <6>1. wait'[d] = Tail(wait[d]) /\ wait[d] # <<>>
            BY <1>1, <1>3, <5>1
          <6> QED BY <3>1, <3>2, <6>1, AheadTail
        <5>2. CASE d # die
          BY <1>5, <3>2, <5>2
        <5> QED BY <5>1, <5>2
      <4> QED BY <4>1 DEF Before
    <3>3. CASE status'[s] \in IssuedStatus /\ status'[t] \in WaitStatus
      <4>1. t # r /\ status[t] \in WaitStatus
        BY <1>2, <1>4, <3>1, <3>3 DEF WaitStatus
      <4>2. CASE s # r
        BY <1>4, <3>1, <3>3, <4>1, <4>2 DEF Before
      <4>3. CASE s = r
        <5>1. d = die /\ t \in ToSet(wait[die])
          BY <1>1, <1>2, <3>1, <4>1, <4>3
        <5>2. t \in ToSet(Tail(wait[die]))
          BY <1>1, <4>1, <5>1, HeadFacts DEF r
        <5>3. Ahead(wait[die], r, t)
          BY <1>1, <5>2, AheadTail DEF r
        <5> QED BY <4>3, <5>1, <5>3 DEF Before
      <4> QED BY <4>2, <4>3
    <3> QED BY <2>2, <3>2, <3>3 DEF Before
  <2> QED BY <1>3, <1>11, <2>1, <2>2, InTurnFrame, AtEndFrame DEF OrderInv, FillsInTurn
<1> QED BY <1>7, <1>8, <1>9, <1>10, <1>12, <1>13 DEF Queues

(***************************************************************************)
(* An operation is queued.                                                 *)
(***************************************************************************)

\* A program, or the erase before it, has the next number.
LEMMA InTurnProgram ==
  ASSUME NEW d, NEW b, NEW r \in Requests, r \notin Line(d, b), InTurn(d, b),
         Remaining(d, b)' = Remaining(d, b) \union {r}, ReadsOf(d, b)' = ReadsOf(d, b),
         Have(d, b)' = Have(d, b),
         \A s \in Requests : s # r => op'[s] = op[s],
         \A n \in 0..PagesPerBlock : AtEnd(d, b, n) =>
           op'[r].page = n % PagesPerBlock /\ AtEnd(d, b, op[r].page + 1)',
         \A s, t \in Requests : Before(d, s, t)' => s # r /\ (t = r \/ Before(d, s, t))
  PROVE  InTurn(d, b)'
<1>1. PICK num \in [Requests -> Nat], c \in [Nat -> 0..PagesPerBlock], base, top \in Nat :
        Numbered(d, b, num, c, base, top)
  BY DEF InTurn
<1>2. /\ base <= top /\ AtEnd(d, b, c[top]) /\ c[top] \in 0..PagesPerBlock
      /\ op'[r].page = c[top] % PagesPerBlock /\ AtEnd(d, b, op[r].page + 1)'
  BY <1>1 DEF Numbered
<1>3. (c[top] % PagesPerBlock) + 1 \in 0..PagesPerBlock
  BY <1>2, SizesAssumption
<1> DEFINE m == [num EXCEPT ![r] = top]
           e == [c EXCEPT ![top + 1] = (c[top] % PagesPerBlock) + 1]
<1>4. /\ m \in [Requests -> Nat] /\ m[r] = top /\ \A s \in Requests : s # r => m[s] = num[s]
      /\ e \in [Nat -> 0..PagesPerBlock] /\ e[top + 1] = (c[top] % PagesPerBlock) + 1
      /\ \A k \in Nat : k <= top => e[k] = c[k]
  BY <1>1, <1>3
<1> HIDE DEF m, e
<1>5. \A k \in Nat : k < top + 1 => e[k + 1] = (e[k] % PagesPerBlock) + 1
  <2> SUFFICES ASSUME NEW k \in Nat, k < top + 1 PROVE e[k + 1] = (e[k] % PagesPerBlock) + 1
    OBVIOUS
  <2>1. CASE k = top
    BY <1>4, <2>1
  <2>2. CASE k < top
    <3>1. k + 1 \in Nat /\ k + 1 <= top /\ k <= top
      BY <2>2
    <3> QED BY <1>1, <1>4, <2>2, <3>1 DEF Numbered
  <2> QED BY <2>1, <2>2
<1>6. Line(d, b)' = Line(d, b) \union {r} /\ \A s \in Line(d, b) : s \in Requests /\ s # r
  BY LineFacts DEF Line
<1>7. ASSUME NEW s \in Remaining(d, b)'
      PROVE  m[s] \in base..((top + 1) - 1) /\ op'[s].page = e[m[s]] % PagesPerBlock
  <2>1. CASE s = r
    BY <1>2, <1>4, <2>1
  <2>2. CASE s # r
    <3>1. s \in Remaining(d, b) /\ s \in Requests
      BY <2>2 DEF Remaining
    <3>2. num[s] \in base..(top - 1) /\ op[s].page = c[num[s]] % PagesPerBlock
      BY <1>1, <3>1 DEF Numbered
    <3> QED BY <1>4, <2>2, <3>1, <3>2
  <2> QED BY <2>1, <2>2
<1>8. ASSUME NEW k \in base..((top + 1) - 1)
      PROVE  \E s \in Remaining(d, b)' : m[s] = k
  <2>1. CASE k = top
    BY <1>4, <2>1
  <2>2. CASE k # top
    <3>1. k \in base..(top - 1)
      BY <2>2
    <3>2. PICK s \in Remaining(d, b) : num[s] = k
      BY <1>1, <3>1 DEF Numbered
    <3>3. s \in Requests /\ s # r
      BY <1>6 DEF Line
    <3> QED BY <1>4, <3>2, <3>3
  <2> QED BY <2>1, <2>2
<1>9. ASSUME NEW s \in ReadsOf(d, b)'
      PROVE  m[s] \in base..(top + 1) /\ op'[s].page < e[m[s]]
  <2>1. s \in ReadsOf(d, b) /\ s \in Requests /\ s # r
    BY <1>6 DEF Line
  <2>2. num[s] \in base..top /\ op[s].page < c[num[s]]
    BY <1>1, <2>1 DEF Numbered
  <2> QED BY <1>4, <2>1, <2>2
<1>10. ASSUME NEW s \in Line(d, b)', NEW t \in Line(d, b)', Before(d, s, t)'
       PROVE  m[s] <= m[t] /\ (s \in Remaining(d, b)' => m[s] < m[t])
  <2>1. s \in Line(d, b) /\ s \in Requests /\ s # r
    BY <1>6, <1>10
  <2>2. m[s] = num[s] /\ num[s] \in Nat
    BY <1>4, <2>1
  <2>3. CASE t = r
    <3>1. num[s] \in base..top /\ (s \in Remaining(d, b) => num[s] < top)
      <4>1. s \in Remaining(d, b) => num[s] \in base..(top - 1)
        BY <1>1 DEF Numbered
      <4>2. s \in ReadsOf(d, b) => num[s] \in base..top
        BY <1>1 DEF Numbered
      <4> QED BY <1>2, <2>1, <4>1, <4>2 DEF Line
    <3> QED BY <1>4, <2>1, <2>2, <2>3, <3>1
  <2>4. CASE t # r
    <3>1. t \in Line(d, b) /\ t \in Requests /\ Before(d, s, t)
      BY <1>6, <1>10, <2>1, <2>4
    <3>2. num[s] <= num[t] /\ (s \in Remaining(d, b) => num[s] < num[t])
      BY <1>1, <2>1, <3>1 DEF Numbered
    <3> QED BY <1>4, <2>1, <2>2, <2>4, <3>1, <3>2
  <2> QED BY <2>3, <2>4
<1>11. AtEnd(d, b, e[top + 1])' /\ Have(d, b)' = 0..(e[base] - 1) /\ base <= top + 1
  BY <1>1, <1>2, <1>4 DEF Numbered
<1>12. Numbered(d, b, m, e, base, top + 1)'
  BY <1>5, <1>7, <1>8, <1>9, <1>10, <1>11 DEF Numbered
<1>13. base \in Nat /\ top + 1 \in Nat
  BY <1>1
<1> QED BY <1>4, <1>12, <1>13 DEF InTurn

\* A read has the number of the program that is queued next.
LEMMA InTurnRead ==
  ASSUME NEW d, NEW b, NEW r \in Requests, r \notin Line(d, b), InTurn(d, b),
         Remaining(d, b)' = Remaining(d, b), ReadsOf(d, b)' = ReadsOf(d, b) \union {r},
         Have(d, b)' = Have(d, b),
         \A s \in Requests : s # r => op'[s] = op[s],
         \A n \in 0..PagesPerBlock : AtEnd(d, b, n) => op'[r].page < n /\ AtEnd(d, b, n)',
         \A s, t \in Requests : Before(d, s, t)' => s # r /\ (t = r \/ Before(d, s, t))
  PROVE  InTurn(d, b)'
<1>1. PICK num \in [Requests -> Nat], c \in [Nat -> 0..PagesPerBlock], base, top \in Nat :
        Numbered(d, b, num, c, base, top)
  BY DEF InTurn
<1>2. base <= top /\ op'[r].page < c[top] /\ AtEnd(d, b, c[top])'
  BY <1>1 DEF Numbered
<1> DEFINE m == [num EXCEPT ![r] = top]
<1>3. m \in [Requests -> Nat] /\ m[r] = top /\ \A s \in Requests : s # r => m[s] = num[s]
  BY <1>1
<1> HIDE DEF m
<1>4. Line(d, b)' = Line(d, b) \union {r} /\ \A s \in Line(d, b) : s \in Requests /\ s # r
  BY LineFacts DEF Line
<1>5. ASSUME NEW s \in Remaining(d, b)'
      PROVE  m[s] \in base..(top - 1) /\ op'[s].page = c[m[s]] % PagesPerBlock
  <2>1. s \in Remaining(d, b) /\ s \in Requests /\ s # r
    BY <1>4 DEF Line
  <2>2. num[s] \in base..(top - 1) /\ op[s].page = c[num[s]] % PagesPerBlock
    BY <1>1, <2>1 DEF Numbered
  <2> QED BY <1>3, <2>1, <2>2
<1>6. ASSUME NEW k \in base..(top - 1)
      PROVE  \E s \in Remaining(d, b)' : m[s] = k
  <2>1. PICK s \in Remaining(d, b) : num[s] = k
    BY <1>1 DEF Numbered
  <2>2. s \in Requests /\ s # r
    BY <1>4 DEF Line
  <2> QED BY <1>3, <2>1, <2>2
<1>7. ASSUME NEW s \in ReadsOf(d, b)'
      PROVE  m[s] \in base..top /\ op'[s].page < c[m[s]]
  <2>1. CASE s = r
    BY <1>2, <1>3, <2>1
  <2>2. CASE s # r
    <3>1. s \in ReadsOf(d, b) /\ s \in Requests
      BY <2>2 DEF ReadsOf
    <3>2. num[s] \in base..top /\ op[s].page < c[num[s]]
      BY <1>1, <3>1 DEF Numbered
    <3> QED BY <1>3, <2>2, <3>1, <3>2
  <2> QED BY <2>1, <2>2
<1>8. ASSUME NEW s \in Line(d, b)', NEW t \in Line(d, b)', Before(d, s, t)'
      PROVE  m[s] <= m[t] /\ (s \in Remaining(d, b)' => m[s] < m[t])
  <2>1. s \in Line(d, b) /\ s \in Requests /\ s # r
    BY <1>4, <1>8
  <2>2. m[s] = num[s] /\ num[s] \in Nat
    BY <1>3, <2>1
  <2>3. CASE t = r
    <3>1. num[s] \in base..top /\ (s \in Remaining(d, b) => num[s] < top)
      <4>1. s \in Remaining(d, b) => num[s] \in base..(top - 1)
        BY <1>1 DEF Numbered
      <4>2. s \in ReadsOf(d, b) => num[s] \in base..top
        BY <1>1 DEF Numbered
      <4> QED BY <1>2, <2>1, <4>1, <4>2 DEF Line
    <3> QED BY <1>3, <2>1, <2>2, <2>3, <3>1
  <2>4. CASE t # r
    <3>1. t \in Line(d, b) /\ t \in Requests /\ Before(d, s, t)
      BY <1>4, <1>8, <2>1, <2>4
    <3>2. num[s] <= num[t] /\ (s \in Remaining(d, b) => num[s] < num[t])
      BY <1>1, <2>1, <3>1 DEF Numbered
    <3> QED BY <1>3, <2>1, <2>2, <2>4, <3>1, <3>2
  <2> QED BY <2>3, <2>4
<1>9. /\ Have(d, b)' = 0..(c[base] - 1)
      /\ \A k \in Nat : k < top => c[k + 1] = (c[k] % PagesPerBlock) + 1
  BY <1>1 DEF Numbered
<1>10. Numbered(d, b, m, c, base, top)'
  BY <1>2, <1>5, <1>6, <1>7, <1>8, <1>9 DEF Numbered
<1> QED BY <1>1, <1>3, <1>10 DEF InTurn

\* FIL_AllocateRequest and _AddToWaitQ: the request is the last of its die.  A
\* program continues what is queued, a read finds it.
LEMMA AddToWaitQOrder ==
  ASSUME OrderInv, NEW o \in Operation, AddToWaitQ(o), UNCHANGED <<loopVars, cells>>,
         \A d \in Dies, b \in Blocks, n \in 0..PagesPerBlock : AtEnd(d, b, n) =>
           IF d = o.die /\ b = o.block
           THEN IF o.type = "PROGRAM"
                THEN o.page = n % PagesPerBlock /\ AtEnd(d, b, o.page + 1)'
                ELSE o.page < n /\ AtEnd(d, b, n)'
           ELSE AtEnd(d, b, n)'
  PROVE  Queues' /\ StartedOnce' /\ FillsInTurn'
<1>1. PICK r \in Free : /\ status' = [status EXCEPT ![r] = FirstStatus(o)]
                        /\ op' = [op EXCEPT ![r] = o]
                        /\ wait' = [wait EXCEPT ![o.die] = Append(@, r)]
                        /\ UNCHANGED <<issued, doneQ>>
  BY DEF AddToWaitQ
<1>2. /\ status \in [Requests -> Status] /\ op \in [Requests -> Operation]
      /\ wait \in [Dies -> Seq(Requests)]
      /\ r \in Requests /\ status[r] = "FREE" /\ o.die \in Dies
      /\ o.type \in {"READ", "PROGRAM"} /\ o.page \in Pages
  BY <1>1, OperationFacts DEF OrderInv, IInv, TypeOK, Free, Operation
<1>3. /\ \A s \in Requests : s # r => status'[s] = status[s] /\ op'[s] = op[s]
      /\ op'[r] = o
      /\ \/ status'[r] = "READ_WAIT" /\ o.type = "READ"
         \/ status'[r] = "ERASE_WAIT" /\ o.type = "PROGRAM" /\ o.page = 0
         \/ status'[r] = "PROGRAM_WAIT" /\ o.type = "PROGRAM" /\ o.page # 0
      /\ UNCHANGED <<issued, cells, phase, die>>
  BY <1>1, <1>2 DEF FirstStatus, loopVars
<1>4. /\ \A d \in Dies : wait'[d] = wait[d] \/ wait'[d] = Append(wait[d], r)
      /\ \A d \in Dies : wait[d] \in Seq(Requests) /\ r \notin ToSet(wait[d])
  <2>1. \A d \in Dies : r \notin ToSet(wait[d])
    BY <1>2, StatusFacts DEF OrderInv, IInv, RequestsInQueues
  <2> QED BY <1>1, <1>2, <2>1
<1>5. StatusMatchesType'
  BY <1>3 DEF OrderInv, Queues, StatusMatchesType
<1>6. ErasedFirst'
  <2> SUFFICES ASSUME NEW s \in Requests, status'[s] = "PROGRAM_WAIT", op'[s].page = 0
               PROVE  Head(wait'[op'[s].die]) = s
    BY DEF ErasedFirst
  <2>1. s # r /\ status[s] = "PROGRAM_WAIT" /\ op'[s] = op[s]
    BY <1>3
  <2>2. "PROGRAM_WAIT" \in WaitStatus
    BY StatusFacts
  <2>3. op[s].die \in Dies /\ s \in ToSet(wait[op[s].die]) /\ Head(wait[op[s].die]) = s
    BY <2>1, <2>2, IssuedFacts DEF OrderInv, Queues, ErasedFirst
  <2>4. wait[op[s].die] # <<>> /\ wait[op[s].die] \in Seq(Requests)
    BY <1>4, <2>3 DEF ToSet
  <2>5. Head(Append(wait[op[s].die], r)) = Head(wait[op[s].die])
    BY <1>2, <2>4
  <2> QED BY <1>4, <2>1, <2>3, <2>5
<1>7. DoneOnce'
  <2>1. \A s \in Requests : status'[s] \in DoneStatus => s # r /\ status[s] \in DoneStatus
    BY <1>3 DEF DoneStatus
  <2> QED BY <1>3, <2>1 DEF OrderInv, Queues, DoneOnce
<1>8. TwoErased'
  <2>1. \A s \in Requests :
          (status'[s] = "ERASE_DONE" \/ (status'[s] = "PROGRAM_WAIT" /\ op'[s].page = 0)) => s # r
    BY <1>3
  <2> QED BY <1>3, <2>1 DEF OrderInv, Queues, TwoErased
<1>9. ASSUME NEW d, NEW b
      PROVE  /\ Started(d, b)' = Started(d, b)
             /\ r \notin Line(d, b)
             /\ Remaining(d, b)' = IF d = o.die /\ b = o.block /\ o.type = "PROGRAM"
                                   THEN Remaining(d, b) \union {r} ELSE Remaining(d, b)
             /\ ReadsOf(d, b)' = IF d = o.die /\ b = o.block /\ o.type = "READ"
                                 THEN ReadsOf(d, b) \union {r} ELSE ReadsOf(d, b)
  <2>1. Started(d, b)' = Started(d, b)
    BY <1>2, <1>3 DEF Started
  <2>2. r \notin Line(d, b)
    BY <1>2 DEF Line, Remaining, ReadsOf
  <2>3. Remaining(d, b)' = IF d = o.die /\ b = o.block /\ o.type = "PROGRAM"
                           THEN Remaining(d, b) \union {r} ELSE Remaining(d, b)
    BY <1>2, <1>3 DEF Remaining
  <2>4. ReadsOf(d, b)' = IF d = o.die /\ b = o.block /\ o.type = "READ"
                         THEN ReadsOf(d, b) \union {r} ELSE ReadsOf(d, b)
    BY <1>2, <1>3 DEF ReadsOf
  <2> QED BY <2>1, <2>2, <2>3, <2>4
<1>10. StartedOnce'
  <2>1. \A d, b : \A s \in Started(d, b) : s \in Requests /\ s # r
    BY <1>2 DEF Started
  <2> QED BY <1>3, <1>9, <2>1 DEF OrderInv, StartedOnce
<1>11. FillsInTurn'
  <2> SUFFICES ASSUME NEW d \in Dies, NEW b \in Blocks PROVE InTurn(d, b)'
    BY DEF FillsInTurn
  <2>1. Have(d, b)' = Have(d, b) /\ InTurn(d, b)
    BY <1>3, <1>9 DEF Have, OrderInv, FillsInTurn
  <2>2. ASSUME NEW s \in Requests, NEW t \in Requests, Before(d, s, t)'
        PROVE  s # r /\ (t = r \/ Before(d, s, t))
    <3>1. CASE status'[s] \in IssuedStatus /\ status'[t] \in WaitStatus
      <4>1. s # r
        BY <1>3, <3>1 DEF IssuedStatus
      <4> QED BY <1>3, <3>1, <4>1 DEF Before
    <3>2. CASE Ahead(wait'[d], s, t)
      <4>1. CASE wait'[d] = wait[d]
        <5>1. Ahead(wait[d], s, t)
          BY <3>2, <4>1
        <5>2. s # r
          BY <1>4, <5>1 DEF Ahead, ToSet
        <5> QED BY <5>1, <5>2 DEF Before
      <4>2. CASE wait'[d] = Append(wait[d], r)
        <5>1. s # r /\ (t = r \/ Ahead(wait[d], s, t))
          BY <1>2, <1>4, <3>2, <4>2, AheadAppend
        <5> QED BY <5>1 DEF Before
      <4> QED BY <1>4, <4>1, <4>2
    <3> QED BY <2>2, <3>1, <3>2 DEF Before
  <2>3. CASE d = o.die /\ b = o.block /\ o.type = "PROGRAM"
    <3>1. Remaining(d, b)' = Remaining(d, b) \union {r} /\ ReadsOf(d, b)' = ReadsOf(d, b)
      BY <1>9, <2>3
    <3>2. \A n \in 0..PagesPerBlock : AtEnd(d, b, n) =>
            op'[r].page = n % PagesPerBlock /\ AtEnd(d, b, op[r].page + 1)'
      BY <1>3, <2>3
    <3> QED BY <1>2, <1>3, <1>9, <2>1, <2>2, <3>1, <3>2, InTurnProgram
  <2>4. CASE d = o.die /\ b = o.block /\ o.type = "READ"
    <3>1. Remaining(d, b)' = Remaining(d, b) /\ ReadsOf(d, b)' = ReadsOf(d, b) \union {r}
      BY <1>9, <2>4
    <3>2. \A n \in 0..PagesPerBlock : AtEnd(d, b, n) => op'[r].page < n /\ AtEnd(d, b, n)'
      BY <1>3, <2>4
    <3> QED BY <1>2, <1>3, <1>9, <2>1, <2>2, <3>1, <3>2, InTurnRead
  <2>5. CASE ~(d = o.die /\ b = o.block)
    <3>1. Remaining(d, b)' = Remaining(d, b) /\ ReadsOf(d, b)' = ReadsOf(d, b)
      BY <1>9, <2>5
    <3>2. \A n \in 0..PagesPerBlock : AtEnd(d, b, n) => AtEnd(d, b, n)'
      BY <2>5
    <3>3. \A s \in Line(d, b) : s \in Requests /\ s # r /\ op'[s] = op[s]
      BY <1>3, <1>9, LineFacts
    <3> QED BY <2>1, <2>2, <3>1, <3>2, <3>3, InTurnFrame
  <2> QED BY <1>2, <2>3, <2>4, <2>5
<1> QED BY <1>5, <1>6, <1>7, <1>8, <1>10, <1>11 DEF Queues

\* FIL_ReadPage and FIL_ProgramPage.
LEMMA AskOrder ==
  ASSUME OrderInv, NEW o \in Operation, Ask(o)
  PROVE  Queues' /\ StartedOnce' /\ FillsInTurn' /\ PendingReads'
<1>1. /\ pending = NoOp /\ UNCHANGED cells /\ o.type \in {"READ", "PROGRAM"}
      /\ o.die \in Dies /\ o.block \in Blocks
      /\ queued \in [Dies -> [Blocks -> 0..PagesPerBlock]]
      /\ NoOp # o
  BY OperationFacts, SentinelAssumption DEF OrderInv, IInv, TypeOK, Ask, Operation
<1>2. \/ /\ o.type = "READ" /\ o.page < queued[o.die][o.block] /\ UNCHANGED queued
      \/ /\ o.type = "PROGRAM" /\ o.page = queued[o.die][o.block] % PagesPerBlock
         /\ queued' = [queued EXCEPT ![o.die][o.block] = o.page + 1]
  BY <1>1 DEF Ask, Reads, Programs
<1>3. ASSUME NEW d \in Dies, NEW b \in Blocks, ~(d = o.die /\ b = o.block /\ o.type = "PROGRAM")
      PROVE  queued'[d][b] = queued[d][b]
  BY <1>1, <1>2, <1>3
<1>4. o.type = "PROGRAM" => queued'[o.die][o.block] = o.page + 1
  BY <1>1, <1>2
<1>5. CASE AddToWaitQ(o) /\ UNCHANGED <<loopVars, pending>>
  <2>1. ASSUME NEW d \in Dies, NEW b \in Blocks, NEW n \in 0..PagesPerBlock, AtEnd(d, b, n)
        PROVE  IF d = o.die /\ b = o.block
               THEN IF o.type = "PROGRAM"
                    THEN o.page = n % PagesPerBlock /\ AtEnd(d, b, o.page + 1)'
                    ELSE o.page < n /\ AtEnd(d, b, n)'
               ELSE AtEnd(d, b, n)'
    <3>1. queued[d][b] = n /\ pending' = NoOp
      BY <1>1, <1>5, <2>1 DEF AtEnd
    <3> QED BY <1>2, <1>3, <1>4, <3>1 DEF AtEnd
  <2>2. PendingReads'
    BY <1>1, <1>5 DEF PendingReads
  <2> QED BY <1>1, <1>5, <2>1, <2>2, AddToWaitQOrder
<1>6. CASE UNCHANGED <<queueVars, die>> /\ pending' = o /\ phase' = "done"
  <2>1. UNCHANGED <<status, op, wait, issued, cells, die>>
    BY <1>1, <1>6 DEF queueVars
  <2>2. phase = "ftl"
    BY DEF Ask
  <2>3. Queues'
    BY <1>6, <2>1, <2>2 DEF OrderInv, Queues, StatusMatchesType, ErasedFirst, DoneOnce, TwoErased
  <2>4. StartedOnce'
    BY <2>1 DEF OrderInv, StartedOnce, Started
  <2>5. FillsInTurn'
    <3> SUFFICES ASSUME NEW d \in Dies, NEW b \in Blocks PROVE InTurn(d, b)'
      BY DEF FillsInTurn
    <3>1. /\ Remaining(d, b)' = Remaining(d, b) /\ ReadsOf(d, b)' = ReadsOf(d, b)
          /\ Have(d, b)' = Have(d, b)
          /\ \A r, s \in Line(d, b) : Before(d, r, s)' => Before(d, r, s)
      BY <2>1 DEF Remaining, ReadsOf, Have, Started, Before, Ahead
    <3>2. ASSUME NEW n \in 0..PagesPerBlock, AtEnd(d, b, n) PROVE AtEnd(d, b, n)'
      <4>1. queued[d][b] = n /\ pending' = o
        BY <1>1, <1>6, <3>2 DEF AtEnd
      <4> QED BY <1>1, <1>2, <1>3, <1>4, <4>1 DEF AtEnd
    <3> QED BY <2>1, <3>1, <3>2, InTurnFrame DEF OrderInv, FillsInTurn
  <2>6. PendingReads'
    BY <1>2, <1>6 DEF PendingReads
  <2> QED BY <2>3, <2>4, <2>5, <2>6
<1> QED BY <1>5, <1>6 DEF Ask

\* The loop of FIL_AllocateRequest.
LEMMA AskAgainOrder ==
  ASSUME OrderInv, AskAgain
  PROVE  Queues' /\ StartedOnce' /\ FillsInTurn' /\ PendingReads'
<1>1. PICK o : o = pending
  OBVIOUS
<1>2. /\ o \in Operation /\ o # NoOp /\ UNCHANGED <<queued, cells>> /\ phase = "ftl"
      /\ o.type \in {"READ", "PROGRAM"}
  BY <1>1, SentinelAssumption DEF OrderInv, IInv, TypeOK, AskAgain, Operation
<1>3. o.type = "READ" => o.page < queued[o.die][o.block]
  BY <1>1, <1>2 DEF OrderInv, PendingReads
<1>4. CASE AddToWaitQ(pending) /\ pending' = NoOp /\ UNCHANGED loopVars
  <2>1. ASSUME NEW d \in Dies, NEW b \in Blocks, NEW n \in 0..PagesPerBlock, AtEnd(d, b, n)
        PROVE  IF d = o.die /\ b = o.block
               THEN IF o.type = "PROGRAM"
                    THEN o.page = n % PagesPerBlock /\ AtEnd(d, b, o.page + 1)'
                    ELSE o.page < n /\ AtEnd(d, b, n)'
               ELSE AtEnd(d, b, n)'
    BY <1>1, <1>2, <1>3, <1>4, <2>1 DEF AtEnd
  <2>2. PendingReads'
    BY <1>4 DEF PendingReads
  <2>3. AddToWaitQ(o)
    BY <1>1, <1>4
  <2> QED BY <1>2, <1>4, <2>1, <2>2, <2>3, AddToWaitQOrder
<1>5. CASE UNCHANGED <<queueVars, die, pending>> /\ phase' = "done"
  <2>1. UNCHANGED <<status, op, wait, issued, cells, die, pending, queued>>
    BY <1>2, <1>5 DEF queueVars
  <2>2. Queues'
    BY <1>2, <1>5, <2>1 DEF OrderInv, Queues, StatusMatchesType, ErasedFirst, DoneOnce, TwoErased
  <2>3. StartedOnce' /\ PendingReads'
    BY <2>1 DEF OrderInv, StartedOnce, Started, PendingReads
  <2>4. FillsInTurn'
    <3> SUFFICES ASSUME NEW d \in Dies, NEW b \in Blocks PROVE InTurn(d, b)'
      BY DEF FillsInTurn
    <3>1. /\ Remaining(d, b)' = Remaining(d, b) /\ ReadsOf(d, b)' = ReadsOf(d, b)
          /\ Have(d, b)' = Have(d, b)
          /\ \A r, s \in Line(d, b) : Before(d, r, s)' => Before(d, r, s)
      BY <2>1 DEF Remaining, ReadsOf, Have, Started, Before, Ahead
    <3> QED BY <2>1, <3>1, InTurnFrame, AtEndFrame DEF OrderInv, FillsInTurn
  <2> QED BY <2>2, <2>3, <2>4
<1> QED BY <1>4, <1>5 DEF AskAgain

(***************************************************************************)
(* An operation ends.                                                      *)
(***************************************************************************)

\* A die that has run an operation of a line: the others of the line wait.
LEMMA OthersWait ==
  ASSUME IInv, NEW d, NEW b, NEW r \in Line(d, b), status[r] \in IssuedStatus,
         NEW s \in Line(d, b), s # r
  PROVE  Before(d, r, s)
<1>1. /\ r \in Requests /\ s \in Requests /\ op[r].die = op[s].die
      /\ status[s] \in WaitStatus \union IssuedStatus
  BY LineFacts
<1>2. status[s] \in WaitStatus
  BY <1>1, IssuedIsOne
<1> QED BY <1>2 DEF Before

\* The erase or program with the lowest number is done.
LEMMA InTurnDone ==
  ASSUME IInv, NEW d, NEW b, NEW r \in Remaining(d, b), status[r] \in IssuedStatus,
         InTurn(d, b), UNCHANGED <<op, pending, queued>>,
         Remaining(d, b)' = Remaining(d, b) \ {r}, ReadsOf(d, b)' = ReadsOf(d, b),
         \A s, t \in Line(d, b) : Before(d, s, t)' => Before(d, s, t),
         \A n \in 0..PagesPerBlock :
           Have(d, b) = 0..(n - 1) /\ op[r].page = n % PagesPerBlock
             => Have(d, b)' = 0..(n % PagesPerBlock)
  PROVE  InTurn(d, b)'
<1>1. PICK num \in [Requests -> Nat], c \in [Nat -> 0..PagesPerBlock], base, top \in Nat :
        Numbered(d, b, num, c, base, top)
  BY DEF InTurn
<1>2. r \in Line(d, b) /\ \A s \in Line(d, b) : s \in Requests
  BY LineFacts DEF Line
<1>3. num[r] = base /\ base < top /\ op[r].page = c[base] % PagesPerBlock
  <2>1. num[r] = base
    BY <1>1, <1>2, FirstNumber
  <2>2. num[r] \in base..(top - 1) /\ op[r].page = c[num[r]] % PagesPerBlock
    BY <1>1 DEF Numbered
  <2> QED BY <1>1, <2>1, <2>2
<1>4. \A s \in Line(d, b) : s # r => base < num[s]
  <2>1. \A s \in Line(d, b) : s # r => Before(d, r, s)
    BY <1>2, OthersWait
  <2> QED BY <1>1, <1>2, <1>3, <2>1 DEF Numbered
<1>5. Have(d, b)' = 0..(c[base + 1] - 1)
  <2>1. c[base] \in 0..PagesPerBlock /\ c[base + 1] = (c[base] % PagesPerBlock) + 1
    BY <1>1, <1>3 DEF Numbered
  <2>2. Have(d, b)' = 0..(c[base] % PagesPerBlock)
    BY <1>1, <1>3, <2>1 DEF Numbered
  <2>3. ((c[base] % PagesPerBlock) + 1) - 1 = c[base] % PagesPerBlock
    <3>1. c[base] % PagesPerBlock \in Nat
      BY <1>2, <1>3, IssuedFacts DEF Pages
    <3> QED BY <3>1
  <2> QED BY <2>1, <2>2, <2>3
<1>6. AtEnd(d, b, c[top])'
  BY <1>1, AtEndFrame DEF Numbered
<1>7. ASSUME NEW s \in Remaining(d, b)'
      PROVE  num[s] \in (base + 1)..(top - 1) /\ op'[s].page = c[num[s]] % PagesPerBlock
  <2>1. s \in Remaining(d, b) /\ s \in Line(d, b) /\ s # r
    BY DEF Line
  <2>2. num[s] \in base..(top - 1) /\ op[s].page = c[num[s]] % PagesPerBlock /\ base < num[s]
    BY <1>1, <1>4, <2>1 DEF Numbered
  <2> QED BY <2>2
<1>8. ASSUME NEW k \in (base + 1)..(top - 1)
      PROVE  \E s \in Remaining(d, b)' : num[s] = k
  <2>1. k \in base..(top - 1) /\ k # base
    OBVIOUS
  <2>2. PICK s \in Remaining(d, b) : num[s] = k
    BY <1>1, <2>1 DEF Numbered
  <2> QED BY <1>3, <2>1, <2>2
<1>9. ASSUME NEW s \in ReadsOf(d, b)'
      PROVE  num[s] \in (base + 1)..top /\ op'[s].page < c[num[s]]
  <2>1. s \in ReadsOf(d, b) /\ s \in Line(d, b) /\ s # r
    BY DEF Line, ReadsOf, Remaining
  <2>2. num[s] \in base..top /\ op[s].page < c[num[s]] /\ base < num[s]
    BY <1>1, <1>4, <2>1 DEF Numbered
  <2> QED BY <2>2
<1>10. \A s, t \in Line(d, b)' :
         Before(d, s, t)' => num[s] <= num[t] /\ (s \in Remaining(d, b)' => num[s] < num[t])
  <2>1. Line(d, b)' \subseteq Line(d, b)
    BY DEF Line
  <2> QED BY <1>1, <2>1 DEF Numbered
<1>11. /\ base + 1 <= top
       /\ \A k \in Nat : k < top => c[k + 1] = (c[k] % PagesPerBlock) + 1
  BY <1>1, <1>3 DEF Numbered
<1>12. Numbered(d, b, num, c, base + 1, top)'
  BY <1>5, <1>6, <1>7, <1>8, <1>9, <1>10, <1>11 DEF Numbered
<1>13. base + 1 \in Nat /\ top \in Nat
  BY <1>1
<1> QED BY <1>1, <1>12, <1>13 DEF InTurn

\* While another first page waits for its turn, only the second page may end.
LEMMA StartedWhileRunning ==
  ASSUME PagesPerBlock > 1, OrderInv, NEW d \in Dies, NEW b \in Blocks,
         NEW r \in Remaining(d, b), status[r] \in IssuedStatus, phase = "issued", die = d,
         NEW s \in Started(d, b)
  PROVE  status[s] = "PROGRAM_WAIT" /\ cells[d][b] = {} /\ op[r].page = 1
<1>1. /\ r \in Requests /\ s \in Requests /\ r # s /\ op[r].die = d /\ op[s].die = d
      /\ r \in Line(d, b)
  BY DEF Remaining, Started, Line
<1>2. status[s] # "PROGRAM_ISSUED"
  BY <1>1, IssuedIsOne DEF OrderInv, IssuedStatus
<1>3. status[s] # "ERASE_DONE"
  BY <1>1 DEF OrderInv, Queues, DoneOnce, DoneStatus, Dies
<1>4. status[s] = "PROGRAM_WAIT"
  BY <1>2, <1>3 DEF Started
<1>5. cells[d][b] = {}
  BY <1>1, <1>4, IssuedFacts DEF OrderInv, StartedOnce
<1>6. PICK num \in [Requests -> Nat], c \in [Nat -> 0..PagesPerBlock], base, top \in Nat :
        Numbered(d, b, num, c, base, top)
  BY DEF OrderInv, FillsInTurn, InTurn
<1>7. num[r] = base
  BY <1>1, <1>6, FirstNumber DEF OrderInv
<1>8. op[r].page = c[base] % PagesPerBlock /\ Have(d, b) = 0..(c[base] - 1)
  BY <1>6, <1>7 DEF Numbered
<1>9. Have(d, b) = {0}
  BY <1>5 DEF Have
<1>10. c[base] \in 0..PagesPerBlock
  BY <1>6
<1>11. c[base] = 1
  <2>1. 0 \in 0..(c[base] - 1) /\ (c[base] > 1 => 1 \in 0..(c[base] - 1))
    BY <1>8, <1>9, <1>10
  <2> QED BY <1>8, <1>9, <1>10, <2>1
<1>12. 1 % PagesPerBlock = 1
  BY SizesAssumption
<1> QED BY <1>4, <1>5, <1>8, <1>11, <1>12

\* _ProcessIssuedQ.
LEMMA OperationEndsOrder ==
  ASSUME PagesPerBlock > 1, OrderInv, NEW d0 \in Dies, OperationEnds(d0)
  PROVE  Queues' /\ StartedOnce' /\ FillsInTurn' /\ PendingReads'
<1> DEFINE r == Head(issued[d0])
<1>1. /\ status \in [Requests -> Status] /\ op \in [Requests -> Operation]
      /\ cells \in [Dies -> [Blocks -> SUBSET Pages]]
      /\ issued \in [Dies -> Seq(Requests)]
      /\ issued[d0] # <<>> /\ issued[d0] \in Seq(Requests) /\ NoRepeat(issued[d0])
      /\ Len(issued[d0]) <= 1
      /\ ToSet(issued[d0]) = {s \in Requests : status[s] \in IssuedStatus /\ op[s].die = d0}
  BY DEF OrderInv, IInv, TypeOK, RequestsInQueues, OneOperationPerDie, OperationEnds
<1>2. /\ r \in Requests /\ status[r] \in IssuedStatus /\ op[r].die = d0
      /\ op[r].block \in Blocks /\ op[r].page \in Pages /\ op[r].page \in Nat
  <2>1. r \in Requests /\ status[r] \in IssuedStatus /\ op[r].die = d0
    BY <1>1, HeadFacts
  <2> QED BY <2>1, IssuedFacts DEF OrderInv, Pages
<1>3. /\ phase = "issued" /\ die = d0 /\ NextDie("wait")
      /\ issued' = [issued EXCEPT ![d0] = Tail(@)]
      /\ status' = [status EXCEPT ![r] = NextStatus(@)]
      /\ cells' = Effect(r)
      /\ UNCHANGED <<op, wait, pending, queued>>
  BY DEF OperationEnds
<1>4. issued'[d0] = <<>> /\ \A d \in Dies : d # d0 => issued'[d] = issued[d]
  <2>1. Tail(issued[d0]) = <<>>
    BY <1>1
  <2> QED BY <1>1, <1>3, <2>1
<1> HIDE DEF r
<1>5. /\ \A s \in Requests : s # r => status'[s] = status[s]
      /\ \/ status[r] = "READ_ISSUED" /\ status'[r] = "READ_DONE"
         \/ status[r] = "ERASE_ISSUED" /\ status'[r] = "ERASE_DONE" /\ op[r].page = 0
         \/ status[r] = "PROGRAM_ISSUED" /\ status'[r] = "PROGRAM_DONE"
  <2>1. status[r] = "ERASE_ISSUED" => op[r].page = 0
    BY <1>2 DEF OrderInv, Queues, StatusMatchesType
  <2> QED BY <1>1, <1>2, <1>3, <2>1 DEF IssuedStatus, NextStatus
<1>6. d0 \in 1..DieCount /\ DieCount \in Nat
  BY SizesAssumption DEF Dies
<1>7. (phase' = "issued" /\ die' = d0 + 1) \/ (phase' = "wait" /\ die' = 1)
  BY <1>3 DEF NextDie
<1>8. StatusMatchesType' /\ PendingReads'
  BY <1>2, <1>3, <1>5 DEF OrderInv, Queues, StatusMatchesType, PendingReads
<1>9. ErasedFirst'
  <2>1. \A s \in Requests : status'[s] = "PROGRAM_WAIT" => status[s] = "PROGRAM_WAIT"
    BY <1>5
  <2> QED BY <1>3, <2>1 DEF OrderInv, Queues, ErasedFirst
<1>10. \A s \in Requests : status[s] \in DoneStatus => op[s].die \in Nat /\ op[s].die < d0
  BY <1>3, IssuedFacts DEF OrderInv, Queues, DoneOnce, Dies
<1>11. DoneOnce'
  <2>1. \A s \in Requests : s # r /\ status'[s] \in DoneStatus => status[s] \in DoneStatus
    BY <1>5
  <2>2. \A s, t \in Requests :
          status'[s] \in DoneStatus /\ status'[t] \in DoneStatus /\ op'[s].die = op'[t].die => s = t
    BY <1>2, <1>3, <1>6, <1>10, <2>1 DEF OrderInv, Queues, DoneOnce
  <2>3. phase' = "issued" => \A s \in Requests : status'[s] \in DoneStatus => op'[s].die < die'
    BY <1>2, <1>3, <1>6, <1>7, <1>10, <2>1
  <2> QED BY <2>2, <2>3 DEF DoneOnce
<1>12. TwoErased'
  <2> SUFFICES ASSUME NEW t \in Requests, NEW s \in Requests,
                      status'[t] = "ERASE_DONE", status'[s] = "PROGRAM_WAIT",
                      op[s].page = 0, op[t].die = op[s].die
               PROVE  /\ issued'[op[t].die] = <<>>
                      /\ \/ phase' = "issued" /\ die' > op[t].die
                         \/ phase' = "wait" /\ die' <= op[t].die
    BY <1>3 DEF TwoErased
  <2>1. status[s] = "PROGRAM_WAIT" /\ op[t].die \in 1..DieCount
    BY <1>5, IssuedFacts DEF OrderInv, Dies
  <2>2. CASE t = r
    BY <1>2, <1>4, <1>6, <1>7, <2>2
  <2>3. CASE t # r
    <3>1. issued[op[t].die] = <<>> /\ die > op[t].die
      BY <1>3, <1>5, <2>1, <2>3 DEF OrderInv, Queues, TwoErased
    <3>2. issued'[op[t].die] = <<>>
      BY <1>4, <2>1, <3>1 DEF Dies
    <3> QED BY <1>3, <1>6, <1>7, <2>1, <3>1, <3>2
  <2> QED BY <2>2, <2>3
<1>13. ASSUME NEW d, NEW b, NEW s \in Line(d, b), NEW t \in Line(d, b), Before(d, s, t)'
       PROVE  Before(d, s, t)
  <2>1. s \in Requests /\ t \in Requests
    BY LineFacts
  <2>2. status'[r] \notin WaitStatus \union IssuedStatus
    BY <1>5 DEF WaitStatus, IssuedStatus
  <2> QED BY <1>3, <1>5, <1>13, <2>1, <2>2 DEF Before
<1>14. ASSUME NEW d \in Dies, NEW b \in Blocks, ~(d = d0 /\ b = op[r].block)
       PROVE  /\ cells'[d][b] = cells[d][b]
              /\ Started(d, b)' = Started(d, b) /\ Remaining(d, b)' = Remaining(d, b)
              /\ ReadsOf(d, b)' = ReadsOf(d, b)
  <2>1. cells'[d][b] = cells[d][b]
    BY <1>1, <1>2, <1>3, <1>5, <1>14 DEF Effect
  <2> QED BY <1>2, <1>3, <1>5, <1>14, <2>1 DEF Started, Remaining, ReadsOf
<1>15. PICK b0 : b0 = op[r].block
  OBVIOUS
<1>16. CASE status[r] = "READ_ISSUED"
  <2>1. UNCHANGED cells
    BY <1>3, <1>16 DEF Effect
  <2>2. ASSUME NEW d, NEW b
        PROVE  /\ Started(d, b)' = Started(d, b) /\ Remaining(d, b)' = Remaining(d, b)
               /\ ReadsOf(d, b)' \subseteq ReadsOf(d, b)
    BY <1>3, <1>5, <1>16 DEF Started, Remaining, ReadsOf
  <2>3. FillsInTurn'
    <3> SUFFICES ASSUME NEW d \in Dies, NEW b \in Blocks PROVE InTurn(d, b)'
      BY DEF FillsInTurn
    <3>1. Have(d, b)' = Have(d, b)
      BY <2>1, <2>2 DEF Have
    <3> QED BY <1>3, <1>13, <2>2, <3>1, InTurnFrame, AtEndFrame DEF OrderInv, FillsInTurn
  <2>4. StartedOnce'
    <3>1. \A d, b : \A s \in Started(d, b) : s \in Requests /\ s # r
      BY <1>16 DEF Started
    <3> QED BY <1>4, <1>5, <2>1, <2>2, <3>1 DEF OrderInv, StartedOnce
  <2> QED BY <1>8, <1>9, <1>11, <1>12, <2>3, <2>4 DEF Queues
<1>17. ASSUME NEW d \in Dies, NEW b \in Blocks, ~(d = d0 /\ b = b0), status[r] # "READ_ISSUED"
       PROVE  /\ InTurn(d, b)'
              /\ \A s, t \in Started(d, b)' : s = t
              /\ \A s \in Started(d, b)' :
                   \/ cells'[d][b] = {}
                   \/ /\ cells'[d][b] = {1}
                      /\ \/ status'[s] = "PROGRAM_ISSUED"
                         \/ status'[s] = "PROGRAM_WAIT" /\ issued'[d] = <<>>
  <2>1. /\ cells'[d][b] = cells[d][b]
        /\ Started(d, b)' = Started(d, b) /\ Remaining(d, b)' = Remaining(d, b)
        /\ ReadsOf(d, b)' = ReadsOf(d, b)
    BY <1>14, <1>15, <1>17
  <2>2. InTurn(d, b)'
    <3>1. Have(d, b)' = Have(d, b)
      BY <2>1 DEF Have
    <3> QED BY <1>3, <1>13, <2>1, <3>1, InTurnFrame, AtEndFrame DEF OrderInv, FillsInTurn
  <2>3. \A s \in Started(d, b) : s \in Requests /\ s # r
    BY <1>2, <1>15, <1>17 DEF Started
  <2> QED BY <1>4, <1>5, <2>1, <2>2, <2>3 DEF OrderInv, StartedOnce
<1>18. ASSUME status[r] # "READ_ISSUED"
       PROVE  /\ InTurn(d0, b0)'
              /\ \A s, t \in Started(d0, b0)' : s = t
              /\ \A s \in Started(d0, b0)' :
                   \/ cells'[d0][b0] = {}
                   \/ /\ cells'[d0][b0] = {1}
                      /\ \/ status'[s] = "PROGRAM_ISSUED"
                         \/ status'[s] = "PROGRAM_WAIT" /\ issued'[d0] = <<>>
  <2>1. b0 \in Blocks /\ InTurn(d0, b0)
    BY <1>2, <1>15 DEF OrderInv, FillsInTurn
  <2>2. ReadsOf(d0, b0)' = ReadsOf(d0, b0)
    BY <1>2, <1>3, <1>5, <1>18 DEF ReadsOf
  <2>3. CASE status[r] = "ERASE_ISSUED"
    <3>1. r \in Remaining(d0, b0) /\ op[r].page = 0
      BY <1>2, <1>5, <1>15, <2>3 DEF Remaining
    <3>2. Started(d0, b0) = {}
      BY <1>2, <1>3, <2>1, <3>1, StartedWhileRunning
    <3>3. Started(d0, b0)' = {r} /\ Remaining(d0, b0)' = Remaining(d0, b0) \ {r}
      <4>1. Started(d0, b0)' = Started(d0, b0) \union {r}
        BY <1>2, <1>3, <1>5, <1>15, <2>3 DEF Started
      <4>2. Remaining(d0, b0)' = Remaining(d0, b0) \ {r}
        BY <1>2, <1>3, <1>5, <1>15, <2>3 DEF Remaining
      <4> QED BY <3>2, <4>1, <4>2
    <3>4. cells'[d0][b0] = {}
      BY <1>1, <1>2, <1>3, <1>15, <2>3 DEF Effect
    <3>5. Have(d0, b0)' = {0}
      BY <3>3, <3>4 DEF Have
    <3>6. \A n \in 0..PagesPerBlock :
            Have(d0, b0) = 0..(n - 1) /\ op[r].page = n % PagesPerBlock
              => Have(d0, b0)' = 0..(n % PagesPerBlock)
      BY <3>1, <3>5
    <3>7. InTurn(d0, b0)'
      BY <1>2, <1>3, <1>13, <2>1, <2>2, <3>1, <3>3, <3>6, InTurnDone DEF OrderInv
    <3> QED BY <3>3, <3>4, <3>7
  <2>4. CASE status[r] = "PROGRAM_ISSUED" /\ op[r].page # 0
    <3>1. r \in Remaining(d0, b0)
      BY <1>2, <1>15, <2>4 DEF Remaining
    <3>2. Started(d0, b0)' = Started(d0, b0) /\ Remaining(d0, b0)' = Remaining(d0, b0) \ {r}
      BY <1>2, <1>3, <1>5, <1>15, <2>4 DEF Started, Remaining
    <3>3. cells'[d0][b0] = cells[d0][b0] \union {op[r].page}
      BY <1>1, <1>2, <1>3, <1>15, <2>4 DEF Effect
    <3>4. Have(d0, b0)' = Have(d0, b0) \union {op[r].page}
      BY <3>2, <3>3 DEF Have
    <3>5. ASSUME NEW n \in 0..PagesPerBlock, Have(d0, b0) = 0..(n - 1), op[r].page = n % PagesPerBlock
          PROVE  Have(d0, b0)' = 0..(n % PagesPerBlock)
      <4>1. PagesPerBlock % PagesPerBlock = 0 /\ (n < PagesPerBlock => n % PagesPerBlock = n)
        BY SizesAssumption
      <4>2. op[r].page = n
        BY <2>4, <3>5, <4>1, SizesAssumption
      <4>3. 0..n = 0..(n - 1) \union {n}
        OBVIOUS
      <4> QED BY <3>4, <3>5, <4>2, <4>3
    <3>6. InTurn(d0, b0)'
      BY <1>2, <1>3, <1>13, <2>1, <2>2, <3>1, <3>2, <3>5, InTurnDone DEF OrderInv
    <3>7. ASSUME NEW s \in Started(d0, b0)
          PROVE  cells'[d0][b0] = {1} /\ status'[s] = "PROGRAM_WAIT"
      <4>1. status[s] = "PROGRAM_WAIT" /\ cells[d0][b0] = {} /\ op[r].page = 1
        BY <1>2, <1>3, <2>1, <3>1, StartedWhileRunning
      <4>2. s \in Requests /\ s # r
        BY <2>4 DEF Started
      <4> QED BY <1>5, <3>3, <4>1, <4>2
    <3> QED BY <1>2, <1>4, <2>1, <3>2, <3>6, <3>7 DEF OrderInv, StartedOnce
  <2>5. CASE status[r] = "PROGRAM_ISSUED" /\ op[r].page = 0
    <3>1. r \in Started(d0, b0)
      BY <1>2, <1>15, <2>5 DEF Started
    <3>2. Started(d0, b0) = {r}
      BY <1>2, <2>1, <3>1 DEF OrderInv, StartedOnce
    <3>3. Started(d0, b0)' = Started(d0, b0) \ {r} /\ Remaining(d0, b0)' = Remaining(d0, b0)
      BY <1>2, <1>3, <1>5, <1>15, <2>5 DEF Started, Remaining
    <3>4. Started(d0, b0)' = {}
      BY <3>2, <3>3
    <3>5. cells'[d0][b0] = cells[d0][b0] \union {0}
      BY <1>1, <1>2, <1>3, <1>15, <2>5 DEF Effect
    <3>6. Have(d0, b0)' = Have(d0, b0)
      BY <3>1, <3>4, <3>5 DEF Have
    <3>7. InTurn(d0, b0)'
      BY <1>3, <1>13, <2>1, <2>2, <3>3, <3>6, InTurnFrame, AtEndFrame
    <3> QED BY <3>4, <3>7
  <2> QED BY <1>2, <1>18, <2>3, <2>4, <2>5 DEF IssuedStatus
<1>19. ASSUME status[r] # "READ_ISSUED"
       PROVE  FillsInTurn' /\ StartedOnce'
  <2>1. \A d \in Dies, b \in Blocks : InTurn(d, b)'
    BY <1>17, <1>18, <1>19
  <2>2. ASSUME NEW d \in Dies, NEW b \in Blocks
        PROVE  /\ \A s, t \in Started(d, b)' : s = t
               /\ \A s \in Started(d, b)' :
                    \/ cells'[d][b] = {}
                    \/ /\ cells'[d][b] = {1}
                       /\ \/ status'[s] = "PROGRAM_ISSUED"
                          \/ status'[s] = "PROGRAM_WAIT" /\ issued'[d] = <<>>
    <3>1. CASE d = d0 /\ b = b0
      BY <1>18, <1>19, <3>1
    <3>2. CASE ~(d = d0 /\ b = b0)
      BY <1>17, <1>19, <3>2
    <3> QED BY <3>1, <3>2
  <2> QED BY <2>1, <2>2 DEF FillsInTurn, StartedOnce
<1> QED BY <1>8, <1>9, <1>11, <1>12, <1>16, <1>19 DEF Queues

(***************************************************************************)
(* The order of the pages.                                                 *)
(***************************************************************************)

\* The FIL starts with empty queues and blocks.
LEMMA InitOrder == Init => OrderInv
<1> SUFFICES ASSUME Init PROVE OrderInv
  OBVIOUS
<1>1. /\ \A r \in Requests : status[r] = "FREE"
      /\ pending = NoOp /\ phase = "ftl"
      /\ \A d \in Dies, b \in Blocks : queued[d][b] = 0 /\ cells[d][b] = {}
  BY DEF Init
<1>2. Queues /\ PendingReads
  BY <1>1 DEF Queues, StatusMatchesType, ErasedFirst, DoneOnce, DoneStatus, TwoErased, PendingReads
<1>3. \A d, b : Started(d, b) = {} /\ Remaining(d, b) = {} /\ ReadsOf(d, b) = {}
  BY <1>1 DEF Started, Remaining, ReadsOf
<1>4. StartedOnce
  BY <1>3 DEF StartedOnce
<1>5. FillsInTurn
  <2> SUFFICES ASSUME NEW d \in Dies, NEW b \in Blocks PROVE InTurn(d, b)
    BY DEF FillsInTurn
  <2> DEFINE num == [r \in Requests |-> 0]
             c == [k \in Nat |-> 0]
  <2>1. /\ num \in [Requests -> Nat] /\ c \in [Nat -> 0..PagesPerBlock]
        /\ c[0] = 0
    BY SizesAssumption
  <2> HIDE DEF num, c
  <2>2. AtEnd(d, b, c[0]) /\ Have(d, b) = 0..(c[0] - 1)
    BY <1>1, <1>3, <2>1 DEF AtEnd, Have
  <2>3. Numbered(d, b, num, c, 0, 0)
    BY <1>3, <2>2 DEF Numbered, Line
  <2>4. 0 \in Nat
    OBVIOUS
  <2> QED BY <2>1, <2>3, <2>4 DEF InTurn
<1> QED BY <1>2, <1>4, <1>5, InitInvariant DEF OrderInv

\* Every step keeps the order.
LEMMA NextOrder ==
  ASSUME PagesPerBlock > 1
  PROVE  OrderInv /\ [Next]_vars => OrderInv'
<1> SUFFICES ASSUME OrderInv, [Next]_vars PROVE OrderInv'
  OBVIOUS
<1>1. IInv'
  BY NextInvariant DEF OrderInv
<1> SUFFICES Queues' /\ StartedOnce' /\ FillsInTurn' /\ PendingReads'
  BY <1>1 DEF OrderInv
<1>2. CASE \E o \in Operation : Ask(o)
  BY <1>2, AskOrder
<1>3. CASE AskAgain
  BY <1>3, AskAgainOrder
<1>4. CASE Run \/ DoneQEmpty \/ OperationRuns \/ NoIssue
  BY <1>4, QuietOrder
<1>5. CASE ProcessDone
  BY <1>5, ProcessDoneOrder
<1>6. CASE \E d \in Dies : OperationEnds(d)
  BY <1>6, OperationEndsOrder
<1>7. CASE Issue
  BY <1>7, IssueOrder
<1>8. CASE UNCHANGED vars
  <2>1. UNCHANGED <<status, op, wait, issued, doneQ, phase, die, pending, queued, cells>>
    BY <1>8 DEF vars, queueVars, loopVars
  <2>2. Queues' /\ PendingReads'
    BY <2>1 DEF OrderInv, Queues, StatusMatchesType, ErasedFirst, DoneOnce, TwoErased, PendingReads
  <2>3. StartedOnce'
    BY <2>1 DEF OrderInv, StartedOnce, Started
  <2>4. FillsInTurn'
    <3> SUFFICES ASSUME NEW d \in Dies, NEW b \in Blocks PROVE InTurn(d, b)'
      BY DEF FillsInTurn
    <3>1. /\ Remaining(d, b)' = Remaining(d, b) /\ ReadsOf(d, b)' = ReadsOf(d, b)
          /\ Have(d, b)' = Have(d, b)
          /\ \A r, s \in Line(d, b) : Before(d, r, s)' => Before(d, r, s)
      BY <2>1 DEF Remaining, ReadsOf, Have, Started, Before, Ahead
    <3> QED BY <2>1, <3>1, InTurnFrame, AtEndFrame DEF OrderInv, FillsInTurn
  <2> QED BY <2>2, <2>3, <2>4
<1> QED BY <1>2, <1>3, <1>4, <1>5, <1>6, <1>7, <1>8 DEF Next, FilRun

\* The order is kept in every reachable state.
THEOREM OrderKept ==
  ASSUME PagesPerBlock > 1
  PROVE  Spec => []OrderInv
BY InitOrder, NextOrder, PTL DEF Spec

\* What the operation a die runs finds there.
LEMMA FirstOfLine ==
  ASSUME OrderInv, NEW r \in Requests, r \in Line(op[r].die, op[r].block),
         status[r] \in IssuedStatus
  PROVE  \E n \in 0..PagesPerBlock :
           /\ Have(op[r].die, op[r].block) = 0..(n - 1)
           /\ r \in Remaining(op[r].die, op[r].block) => op[r].page = n % PagesPerBlock
           /\ r \in ReadsOf(op[r].die, op[r].block) => op[r].page < n
<1>1. PICK d \in Dies, b \in Blocks : d = op[r].die /\ b = op[r].block
  BY IssuedFacts DEF OrderInv
<1>2. PICK num \in [Requests -> Nat], c \in [Nat -> 0..PagesPerBlock], base, top \in Nat :
        Numbered(d, b, num, c, base, top)
  BY DEF OrderInv, FillsInTurn, InTurn
<1>3. num[r] = base
  BY <1>1, <1>2, FirstNumber DEF OrderInv
<1>4. c[base] \in 0..PagesPerBlock
  BY <1>2
<1>5. /\ Have(d, b) = 0..(c[base] - 1)
      /\ r \in Remaining(d, b) => op[r].page = c[base] % PagesPerBlock
      /\ r \in ReadsOf(d, b) => op[r].page < c[base]
  BY <1>2, <1>3 DEF Numbered
<1> QED BY <1>1, <1>4, <1>5

\* The program a die runs is of the first page, that is not programmed since the
\* erase, or of the page after those that are there.
LEMMA OrderPages ==
  ASSUME OrderInv
  PROVE  NoOverwrite
<1> SUFFICES ASSUME NEW r \in Requests, status[r] = "PROGRAM_ISSUED"
             PROVE  ~Programmed(op[r])
  BY DEF NoOverwrite, Issued
<1>1. /\ op[r].die \in Dies /\ op[r].block \in Blocks /\ op[r].page \in Pages
      /\ status[r] \in IssuedStatus
  BY IssuedFacts DEF OrderInv, IssuedStatus
<1>2. CASE op[r].page = 0
  <2>1. r \in Started(op[r].die, op[r].block)
    BY <1>2 DEF Started
  <2> QED BY <1>1, <1>2, <2>1 DEF OrderInv, StartedOnce, Programmed
<1>3. CASE op[r].page # 0
  <2>1. r \in Remaining(op[r].die, op[r].block)
    BY <1>3 DEF Remaining
  <2>2. PICK n \in 0..PagesPerBlock : /\ Have(op[r].die, op[r].block) = 0..(n - 1)
                                      /\ op[r].page = n % PagesPerBlock
    BY <1>1, <2>1, FirstOfLine DEF Line
  <2>3. PagesPerBlock % PagesPerBlock = 0 /\ (n < PagesPerBlock => n % PagesPerBlock = n)
    BY SizesAssumption
  <2>4. op[r].page = n
    BY <1>3, <2>2, <2>3, SizesAssumption
  <2> QED BY <2>2, <2>4 DEF Programmed, Have
<1> QED BY <1>2, <1>3

\* A page is programmed once after an erase of its block ("Check overwrite or not
\* erased", fil_nand.c:704), whatever overtakes what in the queues of the die.
THEOREM PagesNotOverwritten ==
  ASSUME PagesPerBlock > 1
  PROVE  Spec => []NoOverwrite
BY OrderPages, OrderKept, PTL

\* A read is issued when its page is programmed, or is the first page, that it
\* overtook after the erase.
THEOREM ReadsFindTheirPage ==
  ASSUME PagesPerBlock > 1
  PROVE  Spec => []ReadFindsPage
<1>1. OrderInv => ReadFindsPage
  <2> SUFFICES ASSUME OrderInv, NEW r \in Requests, status[r] = "READ_ISSUED", ~Programmed(op[r])
               PROVE  op[r].page = 0 /\ \E s \in Requests : Erased(s) /\ SameBlock(r, s)
    BY DEF ReadFindsPage, Issued
  <2>1. op[r].page \in Pages /\ status[r] \in IssuedStatus
    BY IssuedFacts DEF OrderInv, IssuedStatus
  <2>2. r \in ReadsOf(op[r].die, op[r].block)
    BY DEF ReadsOf
  <2>3. PICK n \in 0..PagesPerBlock : /\ Have(op[r].die, op[r].block) = 0..(n - 1)
                                      /\ op[r].page < n
    BY <2>1, <2>2, FirstOfLine DEF Line
  <2>4. op[r].page \in Have(op[r].die, op[r].block)
    BY <2>1, <2>3 DEF Pages
  <2>5. op[r].page = 0 /\ Started(op[r].die, op[r].block) # {}
    BY <2>4 DEF Have, Programmed
  <2>6. PICK s \in Started(op[r].die, op[r].block) : TRUE
    BY <2>5
  <2>7. s \in Requests /\ op[s].die = op[r].die /\ op[s].block = op[r].block
    BY <2>6 DEF Started
  <2>8. status[s] # "PROGRAM_ISSUED"
    BY <2>1, <2>7, IssuedIsOne DEF OrderInv, IssuedStatus
  <2>9. Erased(s)
    BY <2>6, <2>8 DEF Started, Erased
  <2> QED BY <2>5, <2>7, <2>9 DEF SameBlock
<1> QED BY <1>1, OrderKept, PTL

\* A block fills from its first page on, but that the second page may get ahead
\* of the first.
THEOREM PagesFillInOrder ==
  ASSUME PagesPerBlock > 1
  PROVE  Spec => []PagesInOrder
<1>1. OrderInv => PagesInOrder
  <2> SUFFICES ASSUME OrderInv, NEW d \in Dies, NEW b \in Blocks,
                      ~\E n \in 0..PagesPerBlock : cells[d][b] = 0..(n - 1)
               PROVE  /\ cells[d][b] = {1}
                      /\ \E s \in Requests : /\ Erased(s) \/ status[s] = "PROGRAM_ISSUED"
                                             /\ op[s] = [type |-> "PROGRAM", die |-> d,
                                                         block |-> b, page |-> 0]
    BY DEF PagesInOrder
  <2>1. \E n \in 0..PagesPerBlock : Have(d, b) = 0..(n - 1)
    <3>1. PICK num \in [Requests -> Nat], c \in [Nat -> 0..PagesPerBlock], base, top \in Nat :
            Numbered(d, b, num, c, base, top)
      BY DEF OrderInv, FillsInTurn, InTurn
    <3>2. c[base] \in 0..PagesPerBlock
      BY <3>1
    <3> QED BY <3>1, <3>2 DEF Numbered
  <2>2. Started(d, b) # {}
    BY <2>1 DEF Have
  <2>3. PICK s \in Started(d, b) : TRUE
    BY <2>2
  <2>4. cells[d][b] # {}
    <3>1. 0 \in 0..PagesPerBlock /\ 0..(0 - 1) = {}
      BY SizesAssumption
    <3> QED BY <3>1
  <2>5. cells[d][b] = {1} /\ (status[s] = "PROGRAM_ISSUED" \/ status[s] = "PROGRAM_WAIT")
    BY <2>3, <2>4 DEF OrderInv, StartedOnce
  <2>6. /\ s \in Requests /\ op[s].die = d /\ op[s].block = b /\ op[s].page = 0
        /\ op[s] \in Operation
    BY <2>3, <2>5, IssuedFacts DEF Started, OrderInv
  <2>7. op[s].type = "PROGRAM"
    BY <2>5, <2>6 DEF OrderInv, Queues, StatusMatchesType
  <2>8. op[s] = [type |-> "PROGRAM", die |-> d, block |-> b, page |-> 0]
    BY <2>6, <2>7 DEF Operation
  <2>9. Erased(s) \/ status[s] = "PROGRAM_ISSUED"
    BY <2>5, <2>6 DEF Erased
  <2> QED BY <2>5, <2>6, <2>8, <2>9
<1> QED BY <1>1, OrderKept, PTL
=============================================================================
