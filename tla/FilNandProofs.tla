---------------------------- MODULE FilNandProofs ----------------------------
(***************************************************************************)
(* For every number of dies, channels, requests, blocks, pages and retries *)
(* and whatever a die reports: the steps of the NAND operations implement  *)
(* the queues of FilQueue.  What is proved of those queues is taken over   *)
(* through the instance QueueProofs.                                       *)
(***************************************************************************)
EXTENDS FilNand, SeqLemmas

\* The theorems about the queues, for the cells as they were when an operation
\* was last reported ended.
QueueProofs == INSTANCE FilQueueProofs WITH cells <- seen

------------------------------------------------------------------------------
(* The inductive invariant. *)

\* What the controllers are asked for.
Kinds == {"READ", "ERASE", "PROGRAM"}
Entry == [way : Dies, cmd : Kinds \union {"STATUS", "TRANSFER"}]
         \union [way : Neighbours, cmd : {"OTHER"}]

NandTypeOK ==
  /\ step \in [Dies -> Steps]
  /\ retry \in [Dies -> Nat]
  /\ report \in [Dies -> {"none", "ok", "fail", "early", "half"}]
  /\ completion \in [Dies -> {"none", "ok", "uecc"}]
  /\ late \subseteq Dies
  /\ ctrl \in [Channels -> Seq(Entry)]
  /\ array \in [Dies -> {"ready", "starting", "busy"}]
  /\ cells \in [Dies -> [Blocks -> SUBSET Pages]]

\* Each way has one command in the controller of its channel, and in no other.
OneCommandPerWay ==
  \A ch \in Channels :
    /\ Injective(ctrl[ch])
    /\ \A x \in ToSet(ctrl[ch]) : x.way \in Dies => Channel(x.way) = ch
    /\ \A x, y \in ToSet(ctrl[ch]) : x.way = y.way => x = y

\* The pages of a die once the operation at hand has been done.
After(d) ==
  LET r == Head(issued[d]) IN
  CASE status[r] = "READ_ISSUED"    -> seen[d]
    [] status[r] = "ERASE_ISSUED"   -> [seen[d] EXCEPT ![op[r].block] = {}]
    [] status[r] = "PROGRAM_ISSUED" -> [seen[d] EXCEPT ![op[r].block] = @ \union {op[r].page}]

\* The array has its command: it works on it, or has done it.
Arrayed(d) == cells[d] = IF array[d] = "ready" THEN After(d) ELSE seen[d]

Quiet(d) == Commands(d) = {} /\ array[d] = "ready" /\ d \notin late /\ cells[d] = seen[d]

Cmd(d, c) == [way |-> d, cmd |-> c]

\* What a die whose operation is left in step s knows of the controller and the array.
Knows(d, s) ==
  LET k == Kind(Head(issued[d])) IN
  /\ issued[d] = <<>> => s = "NONE"
  /\ s \in {"NONE", "ISSUABLE"} => Quiet(d)
  /\ s = "WAIT_DONE" =>
       /\ d \notin late
       /\ \/ Commands(d) = {Cmd(d, k)} /\ array[d] = "ready" /\ cells[d] = seen[d]
          \/ Commands(d) \subseteq {Cmd(d, "STATUS")} /\ Arrayed(d)
  /\ s \in {"WAIT_STATUS", "CHECK_STATUS"} =>
       /\ d \notin late
       /\ Arrayed(d)
       /\ \/ Commands(d) = {Cmd(d, "STATUS")} /\ report[d] = "none"
          \/ Commands(d) = {} /\ (report[d] \in {"ok", "fail"} => array[d] = "ready")
  /\ s = "TRANSFER" =>
       /\ d \notin late
       /\ k = "READ" /\ array[d] = "ready" /\ Arrayed(d) /\ Commands(d) = {}
  /\ s \in {"WAIT_TRANSFER", "CHECK_TRANSFER"} =>
       /\ k = "READ" /\ array[d] = "ready" /\ Arrayed(d)
       /\ \/ Commands(d) = {Cmd(d, "TRANSFER")} /\ d \notin late /\ completion[d] = "none"
          \/ Commands(d) = {} /\ (d \in late => completion[d] = "none")

StepKnows(d) == Knows(d, step[d])

StepsKnow == \A d \in Dies : StepKnows(d)

NandInv ==
  /\ QueueProofs!IInv
  /\ NandTypeOK
  /\ OneCommandPerWay
  /\ StepsKnow

(***************************************************************************)
(* The instance of the queues.                                             *)
(***************************************************************************)

\* The assumptions on the constants are those of the instance.
LEMMA QueueAssumptions ==
  QueueProofs!SizesAssumption /\ QueueProofs!SentinelAssumption
<1>1. QueueProofs!SizesAssumption
  BY SizesAssumption DEF QueueProofs!SizesAssumption, QueueProofs!IsFiniteSet, IsFiniteSet
<1>2. QueueProofs!SentinelAssumption
  BY SentinelAssumption
  DEF QueueProofs!SentinelAssumption, QueueProofs!Operation, Operation,
      QueueProofs!Dies, Dies, QueueProofs!Pages, Pages
<1> QED BY <1>1, <1>2

\* What the queues know of the operations at hand and next.
LEMMA QueueFacts ==
  ASSUME QueueProofs!IInv
  PROVE  /\ status \in [Requests -> Status]
         /\ op \in [Requests -> Operation]
         /\ wait \in [Dies -> Seq(Requests)]
         /\ issued \in [Dies -> Seq(Requests)]
         /\ doneQ \in Seq(Requests)
         /\ die \in Dies
         /\ seen \in [Dies -> [Blocks -> SUBSET Pages]]
         /\ \A d \in Dies : issued[d] # <<>> =>
              /\ Head(issued[d]) \in Requests
              /\ status[Head(issued[d])] \in IssuedStatus
              /\ op[Head(issued[d])].die = d
              /\ Tail(issued[d]) = <<>>
         /\ \A d \in Dies : wait[d] # <<>> =>
              /\ Head(wait[d]) \in Requests
              /\ status[Head(wait[d])] \in WaitStatus
              /\ op[Head(wait[d])].die = d
         /\ doneQ # <<>> => Head(doneQ) \in Requests /\ status[Head(doneQ)] \in DoneStatus
<1>1. /\ status \in [Requests -> Status] /\ op \in [Requests -> Operation]
      /\ wait \in [Dies -> Seq(Requests)] /\ issued \in [Dies -> Seq(Requests)]
      /\ doneQ \in Seq(Requests) /\ die \in Dies
      /\ seen \in [Dies -> [Blocks -> SUBSET Pages]]
  BY DEF QueueProofs!IInv, QueueProofs!TypeOK, QueueProofs!Status, QueueProofs!WaitStatus,
         QueueProofs!IssuedStatus, QueueProofs!DoneStatus, Status, WaitStatus, IssuedStatus,
         DoneStatus, QueueProofs!Operation, Operation, QueueProofs!Dies, Dies,
         QueueProofs!Pages, Pages
<1>2. /\ \A d \in Dies :
           /\ Len(issued[d]) <= 1
           /\ ToSet(wait[d]) = {r \in Requests : status[r] \in WaitStatus /\ op[r].die = d}
           /\ ToSet(issued[d]) = {r \in Requests : status[r] \in IssuedStatus /\ op[r].die = d}
      /\ ToSet(doneQ) = {r \in Requests : status[r] \in DoneStatus}
  BY DEF QueueProofs!IInv, QueueProofs!RequestsInQueues, QueueProofs!OneOperationPerDie,
         QueueProofs!WaitStatus, QueueProofs!IssuedStatus, QueueProofs!DoneStatus,
         WaitStatus, IssuedStatus, DoneStatus, QueueProofs!Dies, Dies,
         QueueProofs!ToSet, ToSet
<1>3. ASSUME NEW d \in Dies, issued[d] # <<>>
      PROVE  /\ Head(issued[d]) \in Requests
             /\ Head(issued[d]) \in ToSet(issued[d])
             /\ Tail(issued[d]) = <<>>
  <2> DEFINE q == issued[d]
  <2>1. q \in Seq(Requests) /\ Len(q) <= 1
    BY <1>1, <1>2
  <2> HIDE DEF q
  <2>2. q # <<>>
    BY <1>3 DEF q
  <2>3. Head(q) \in Requests /\ Head(q) \in ToSet(q) /\ Tail(q) \in Seq(Requests)
    BY <2>1, <2>2, TailFacts
  <2>4. Len(Tail(q)) = Len(q) - 1 /\ Len(q) \in Nat \ {0}
    BY <2>1, <2>2, HeadTailProperties, EmptySeq
  <2>5. Tail(q) = <<>>
    BY <2>1, <2>3, <2>4, EmptySeq
  <2> QED BY <2>3, <2>5 DEF q
<1>4. ASSUME NEW d \in Dies, wait[d] # <<>>
      PROVE  Head(wait[d]) \in Requests /\ Head(wait[d]) \in ToSet(wait[d])
  <2>1. wait[d] \in Seq(Requests)
    BY <1>1
  <2> QED BY <1>4, <2>1, TailFacts
<1>5. doneQ # <<>> => Head(doneQ) \in Requests /\ Head(doneQ) \in ToSet(doneQ)
  BY <1>1, TailFacts
<1> QED BY <1>1, <1>2, <1>3, <1>4, <1>5

(***************************************************************************)
(* The commands in the controllers.                                        *)
(***************************************************************************)

\* The channel of a die is one of the channels.
LEMMA ChannelType == \A d \in Dies : Channel(d) \in Channels
<1> SUFFICES ASSUME NEW d \in Dies PROVE Channel(d) \in Channels
  OBVIOUS
<1>1. d - 1 \in Int /\ ChannelCount \in Nat /\ ChannelCount > 0
  BY ControllerAssumption, SizesAssumption DEF Dies
<1>2. (d - 1) % ChannelCount \in 0..(ChannelCount - 1)
  BY <1>1
<1> QED BY <1>1, <1>2 DEF Channel, Channels

\* A way that has no command in the controller is given one.
LEMMA CommandStep ==
  ASSUME ctrl \in [Channels -> Seq(Entry)], OneCommandPerWay,
         NEW x \in Entry, NEW ch \in Channels,
         x.way \in Dies => Channel(x.way) = ch,
         \A y \in ToSet(ctrl[ch]) : y.way # x.way,
         ctrl' = [ctrl EXCEPT ![ch] = Append(@, x)]
  PROVE  /\ ctrl' \in [Channels -> Seq(Entry)]
         /\ OneCommandPerWay'
         /\ \A e \in Dies : Commands(e)' = IF e = x.way THEN {x} ELSE Commands(e)
<1>1. ctrl[ch] \in Seq(Entry) /\ Injective(ctrl[ch]) /\ x \notin ToSet(ctrl[ch])
  BY DEF OneCommandPerWay
<1>2. /\ Append(ctrl[ch], x) \in Seq(Entry)
      /\ ToSet(Append(ctrl[ch], x)) = ToSet(ctrl[ch]) \union {x}
      /\ Injective(Append(ctrl[ch], x))
  BY <1>1, AppendFacts
<1>3. /\ ctrl'[ch] = Append(ctrl[ch], x)
      /\ \A c \in Channels : c # ch => ctrl'[c] = ctrl[c]
      /\ ctrl' \in [Channels -> Seq(Entry)]
  BY <1>2
<1>4. OneCommandPerWay'
  <2> SUFFICES ASSUME NEW c \in Channels
               PROVE  /\ Injective(ctrl'[c])
                      /\ \A y \in ToSet(ctrl'[c]) : y.way \in Dies => Channel(y.way) = c
                      /\ \A y, z \in ToSet(ctrl'[c]) : y.way = z.way => y = z
    BY DEF OneCommandPerWay, Injective
  <2>1. /\ Injective(ctrl[c])
        /\ \A y \in ToSet(ctrl[c]) : y.way \in Dies => Channel(y.way) = c
        /\ \A y, z \in ToSet(ctrl[c]) : y.way = z.way => y = z
    BY DEF OneCommandPerWay
  <2>2. CASE c = ch
    BY <1>2, <1>3, <2>1, <2>2
  <2>3. CASE c # ch
    BY <1>3, <2>1, <2>3
  <2> QED BY <2>2, <2>3
<1>5. ASSUME NEW e \in Dies
      PROVE  Commands(e)' = IF e = x.way THEN {x} ELSE Commands(e)
  <2>1. Commands(e)' = {c \in ToSet(ctrl'[Channel(e)]) : c.way = e}
    BY DEF Commands, ToSet
  <2>2. Channel(e) \in Channels
    BY ChannelType
  <2>3. CASE Channel(e) = ch
    <3>1. Commands(e)' = {c \in ToSet(ctrl[ch]) \union {x} : c.way = e}
      BY <1>2, <1>3, <2>1, <2>3
    <3>2. Commands(e) = {c \in ToSet(ctrl[ch]) : c.way = e}
      BY <2>3 DEF Commands
    <3> QED BY <3>1, <3>2
  <2>4. CASE Channel(e) # ch
    <3>1. ctrl'[Channel(e)] = ctrl[Channel(e)]
      BY <1>3, <2>2, <2>4
    <3>2. Commands(e)' = Commands(e) /\ e # x.way
      BY <2>1, <2>4, <3>1 DEF Commands
    <3> QED BY <3>2
  <2> QED BY <2>3, <2>4
<1> QED BY <1>3, <1>4, <1>5

\* The controller ends the command at hand.
LEMMA ControllerStep ==
  ASSUME ctrl \in [Channels -> Seq(Entry)], OneCommandPerWay,
         NEW ch \in Channels, ctrl[ch] # <<>>,
         ctrl' = [ctrl EXCEPT ![ch] = Tail(@)]
  PROVE  /\ ctrl' \in [Channels -> Seq(Entry)]
         /\ OneCommandPerWay'
         /\ Head(ctrl[ch]) \in Entry
         /\ \A e \in Dies : IF e = Head(ctrl[ch]).way
                            THEN Commands(e) = {Head(ctrl[ch])} /\ Commands(e)' = {}
                            ELSE Commands(e)' = Commands(e)
<1> DEFINE x == Head(ctrl[ch])
           t == Tail(ctrl[ch])
<1>1. ctrl[ch] \in Seq(Entry) /\ Injective(ctrl[ch])
  BY DEF OneCommandPerWay
<1>2. /\ x \in Entry /\ x \in ToSet(ctrl[ch]) /\ t \in Seq(Entry)
      /\ ToSet(t) = ToSet(ctrl[ch]) \ {x} /\ Injective(t)
  BY <1>1, TailFacts
<1>3. /\ ctrl'[ch] = t
      /\ \A c \in Channels : c # ch => ctrl'[c] = ctrl[c]
      /\ ctrl' \in [Channels -> Seq(Entry)]
  BY <1>2
<1> HIDE DEF x, t
<1>4. /\ \A y \in ToSet(ctrl[ch]) : y.way \in Dies => Channel(y.way) = ch
      /\ \A y, z \in ToSet(ctrl[ch]) : y.way = z.way => y = z
  BY DEF OneCommandPerWay
<1>5. OneCommandPerWay'
  <2> SUFFICES ASSUME NEW c \in Channels
               PROVE  /\ Injective(ctrl'[c])
                      /\ \A y \in ToSet(ctrl'[c]) : y.way \in Dies => Channel(y.way) = c
                      /\ \A y, z \in ToSet(ctrl'[c]) : y.way = z.way => y = z
    BY DEF OneCommandPerWay, Injective
  <2>1. CASE c = ch
    BY <1>2, <1>3, <1>4, <2>1
  <2>2. CASE c # ch
    BY <1>3, <2>2 DEF OneCommandPerWay
  <2> QED BY <2>1, <2>2
<1>6. ASSUME NEW e \in Dies
      PROVE  IF e = x.way THEN Commands(e) = {x} /\ Commands(e)' = {}
                          ELSE Commands(e)' = Commands(e)
  <2>1. /\ Commands(e)' = {c \in ToSet(ctrl'[Channel(e)]) : c.way = e}
        /\ Commands(e) = {c \in ToSet(ctrl[Channel(e)]) : c.way = e}
    BY DEF Commands, ToSet
  <2>2. Channel(e) \in Channels
    BY ChannelType
  <2>3. CASE Channel(e) = ch
    <3>1. /\ Commands(e)' = {c \in ToSet(ctrl[ch]) \ {x} : c.way = e}
          /\ Commands(e) = {c \in ToSet(ctrl[ch]) : c.way = e}
      BY <1>2, <1>3, <2>1, <2>3
    <3> QED BY <1>2, <1>4, <3>1
  <2>4. CASE Channel(e) # ch
    <3>1. ctrl'[Channel(e)] = ctrl[Channel(e)]
      BY <1>3, <2>2, <2>4
    <3>2. e # x.way
      BY <1>2, <1>4, <2>4
    <3> QED BY <2>1, <3>1, <3>2
  <2> QED BY <2>3, <2>4
<1> QED BY <1>2, <1>3, <1>5, <1>6 DEF x

(***************************************************************************)
(* What a step leaves alone.                                               *)
(***************************************************************************)

\* Nothing about die e that its step knows of changes.
Same(e) ==
  /\ issued'[e] = issued[e] /\ step'[e] = step[e] /\ Commands(e)' = Commands(e)
  /\ array'[e] = array[e] /\ cells'[e] = cells[e] /\ seen'[e] = seen[e]
  /\ report'[e] = report[e] /\ completion'[e] = completion[e]
  /\ e \in late' <=> e \in late
  /\ issued[e] # <<>> => /\ status'[Head(issued[e])] = status[Head(issued[e])]
                         /\ op'[Head(issued[e])] = op[Head(issued[e])]

LEMMA SameKnows ==
  ASSUME NEW e \in Dies, StepKnows(e), Same(e)
  PROVE  StepKnows(e)'
<1>1. CASE issued[e] = <<>>
  <2>1. step[e] = "NONE" /\ Quiet(e)
    BY <1>1 DEF StepKnows, Knows
  <2>2. step'[e] = "NONE" /\ Quiet(e)'
    BY <2>1 DEF Same, Quiet
  <2> QED BY <2>2 DEF StepKnows, Knows
<1>2. CASE issued[e] # <<>>
  <2>1. Kind(Head(issued[e]))' = Kind(Head(issued[e]))
    BY <1>2 DEF Same, Kind
  <2>2. After(e)' = After(e)
    BY <1>2 DEF Same, After
  <2>3. (Arrayed(e)' <=> Arrayed(e)) /\ (Quiet(e)' <=> Quiet(e))
    BY <2>2 DEF Same, Arrayed, Quiet
  <2> QED BY <1>2, <2>1, <2>3 DEF StepKnows, Knows, Same
<1> QED BY <1>1, <1>2

\* What the operation at hand of die d is: its kind, and what it does.
LEMMA AtHand ==
  ASSUME QueueProofs!IInv, NEW d \in Dies, issued[d] # <<>>
  PROVE  /\ Kind(Head(issued[d])) \in Kinds
         /\ Kind(Head(issued[d])) = "READ" => After(d) = seen[d]
         /\ After(d) \in [Blocks -> SUBSET Pages]
         /\ QueueProofs!Effect(Head(issued[d])) = [seen EXCEPT ![d] = After(d)]
         /\ cells \in [Dies -> [Blocks -> SUBSET Pages]] /\ cells[d] = seen[d]
              => Effect(Head(issued[d])) = [cells EXCEPT ![d] = After(d)]
<1> DEFINE r == Head(issued[d])
<1>1. /\ r \in Requests /\ status[r] \in IssuedStatus /\ op[r].die = d
      /\ seen \in [Dies -> [Blocks -> SUBSET Pages]]
      /\ op[r].block \in Blocks /\ op[r].page \in Pages
  BY QueueFacts DEF Operation
<1>2. Kind(r) = (CASE status[r] = "READ_ISSUED" -> "READ"
                   [] status[r] = "ERASE_ISSUED" -> "ERASE"
                   [] status[r] = "PROGRAM_ISSUED" -> "PROGRAM")
  BY <1>1 DEF Kind, IssuedStatus
<1>3. Kind(r) \in Kinds /\ (Kind(r) = "READ" => status[r] = "READ_ISSUED")
  BY <1>1, <1>2 DEF Kinds, IssuedStatus
<1>4. /\ After(d) \in [Blocks -> SUBSET Pages]
      /\ status[r] = "READ_ISSUED" => After(d) = seen[d]
  BY <1>1 DEF After, IssuedStatus
<1>5. QueueProofs!Effect(r) = [seen EXCEPT ![d] = After(d)]
  <2>1. CASE status[r] = "READ_ISSUED"
    BY <1>1, <2>1 DEF QueueProofs!Effect, After
  <2>2. CASE status[r] = "ERASE_ISSUED"
    BY <1>1, <2>2 DEF QueueProofs!Effect, After
  <2>3. CASE status[r] = "PROGRAM_ISSUED"
    BY <1>1, <2>3 DEF QueueProofs!Effect, After
  <2> QED BY <1>1, <2>1, <2>2, <2>3 DEF IssuedStatus
<1>6. ASSUME cells \in [Dies -> [Blocks -> SUBSET Pages]], cells[d] = seen[d]
      PROVE  Effect(r) = [cells EXCEPT ![d] = After(d)]
  <2>1. CASE status[r] = "READ_ISSUED"
    BY <1>1, <1>6, <2>1 DEF Effect, After
  <2>2. CASE status[r] = "ERASE_ISSUED"
    BY <1>1, <1>6, <2>2 DEF Effect, After
  <2>3. CASE status[r] = "PROGRAM_ISSUED"
    BY <1>1, <1>6, <2>3 DEF Effect, After
  <2> QED BY <1>1, <2>1, <2>2, <2>3 DEF IssuedStatus
<1> QED BY <1>3, <1>4, <1>5, <1>6

\* What a step has to show besides that it is one of the queues' own.
Kept == NandTypeOK' /\ OneCommandPerWay' /\ StepsKnow'

\* A step in which only the operation at hand of die d, r, gets on.
LEMMA OneDie ==
  ASSUME NandInv, NEW d \in Dies, NEW r \in Requests, op[r].die = d,
         StepKnows(d)',
         op' = op,
         \A s \in Requests : s # r => status'[s] = status[s],
         \A e \in Dies \ {d} :
           /\ issued'[e] = issued[e] /\ step'[e] = step[e] /\ Commands(e)' = Commands(e)
           /\ array'[e] = array[e] /\ cells'[e] = cells[e] /\ seen'[e] = seen[e]
           /\ report'[e] = report[e] /\ completion'[e] = completion[e]
           /\ e \in late' <=> e \in late
  PROVE  StepsKnow'
<1>1. ASSUME NEW e \in Dies, e # d PROVE StepKnows(e)'
  <2>1. issued[e] # <<>> => Head(issued[e]) \in Requests /\ op[Head(issued[e])].die = e
    BY QueueFacts DEF NandInv
  <2>2. Same(e)
    BY <1>1, <2>1 DEF Same
  <2> QED BY <2>2, SameKnows DEF NandInv, StepsKnow
<1>2. \A e \in Dies : StepKnows(e)'
  BY <1>1
<1> QED BY <1>2 DEF StepsKnow

(***************************************************************************)
(* The queues' own steps.                                                  *)
(***************************************************************************)

\* A request that is added to a wait queue was free, and is added in the instance.
LEMMA AddToWaitQView ==
  ASSUME NandInv, NEW o \in Operation, AddToWaitQ(o)
  PROVE  /\ QueueProofs!AddToWaitQ(o)
         /\ UNCHANGED issued
         /\ \A e \in Dies : issued[e] # <<>> =>
              /\ status'[Head(issued[e])] = status[Head(issued[e])]
              /\ op'[Head(issued[e])] = op[Head(issued[e])]
<1>1. PICK r \in Free : /\ status' = [status EXCEPT ![r] = FirstStatus(o)]
                        /\ op' = [op EXCEPT ![r] = o]
                        /\ UNCHANGED <<issued, doneQ>>
  BY DEF AddToWaitQ
<1>2. ASSUME NEW e \in Dies, issued[e] # <<>> PROVE Head(issued[e]) \in Requests \ {r}
  BY <1>1, <1>2, QueueFacts DEF NandInv, Free, IssuedStatus
<1>3. status \in [Requests -> Status] /\ op \in [Requests -> Operation]
  BY QueueFacts DEF NandInv
<1>4. QueueProofs!AddToWaitQ(o)
  BY DEF AddToWaitQ, QueueProofs!AddToWaitQ, Free, QueueProofs!Free, FirstStatus,
         QueueProofs!FirstStatus
<1> QED BY <1>1, <1>2, <1>3, <1>4

LEMMA QueueStepKeeps ==
  ASSUME NandInv, QueueStep
  PROVE  QueueProofs!Next /\ Kept
<1> USE DEF NandInv
<1> DEFINE HeadsSame == \A e \in Dies : issued[e] # <<>> =>
              /\ status'[Head(issued[e])] = status[Head(issued[e])]
              /\ op'[Head(issued[e])] = op[Head(issued[e])]
<1>1. UNCHANGED <<step, retry, report, completion, late, ctrl, array, seen>>
  BY DEF QueueStep, nandVars, wayVars, hardVars
<1>2. QueueProofs!Next /\ UNCHANGED <<issued, cells>> /\ HeadsSame
  <2>1. CASE \E o \in Operation : Ask(o)
    <3>1. PICK o \in Operation : Ask(o)
      BY <2>1
    <3>2. o \in QueueProofs!Operation
      BY DEF Operation, QueueProofs!Operation, Dies, QueueProofs!Dies, Pages, QueueProofs!Pages
    <3>3. o \in QueueProofs!Reads \union QueueProofs!Programs
      BY <3>1 DEF Ask, Reads, QueueProofs!Reads, Programs, QueueProofs!Programs, Operation,
         QueueProofs!Operation, Dies, QueueProofs!Dies, Pages, QueueProofs!Pages
    <3>4. CASE AddToWaitQ(o) /\ UNCHANGED <<loopVars, pending>>
      <4>1. QueueProofs!Ask(o)
        BY <1>1, <3>1, <3>3, <3>4, AddToWaitQView DEF Ask, QueueProofs!Ask, loopVars,
           QueueProofs!loopVars
      <4> QED BY <3>1, <3>2, <3>4, <4>1, AddToWaitQView DEF QueueProofs!Next, Ask
    <3>5. CASE Free = {} /\ pending' = o /\ phase' = "done" /\ UNCHANGED <<queueVars, die>>
      <4>1. QueueProofs!Ask(o)
        BY <1>1, <3>1, <3>3, <3>5 DEF Ask, QueueProofs!Ask, Free, QueueProofs!Free, queueVars,
           QueueProofs!queueVars
      <4> QED BY <3>1, <3>2, <3>5, <4>1 DEF QueueProofs!Next, Ask, queueVars
    <3> QED BY <3>1, <3>4, <3>5 DEF Ask
  <2>2. CASE AskAgain
    <3>1. CASE AddToWaitQ(pending) /\ pending' = NoOp /\ UNCHANGED loopVars
      <4>1. pending \in Operation
        BY <2>2 DEF AskAgain, QueueProofs!IInv, QueueProofs!TypeOK, Operation,
           QueueProofs!Operation, Dies, QueueProofs!Dies, Pages, QueueProofs!Pages
      <4>2. QueueProofs!AskAgain
        BY <1>1, <2>2, <3>1, <4>1, AddToWaitQView DEF AskAgain, QueueProofs!AskAgain,
           loopVars, QueueProofs!loopVars
      <4> QED BY <2>2, <3>1, <4>1, <4>2, AddToWaitQView DEF QueueProofs!Next, AskAgain
    <3>2. CASE Free = {} /\ phase' = "done" /\ UNCHANGED <<queueVars, die, pending>>
      <4>1. QueueProofs!AskAgain
        BY <1>1, <2>2, <3>2 DEF AskAgain, QueueProofs!AskAgain, Free, QueueProofs!Free,
           queueVars, QueueProofs!queueVars
      <4> QED BY <2>2, <3>2, <4>1 DEF QueueProofs!Next, AskAgain, queueVars
    <3> QED BY <2>2, <3>1, <3>2 DEF AskAgain
  <2>3. CASE Run
    <3>1. QueueProofs!Run
      BY <1>1, <2>3 DEF Run, QueueProofs!Run, FIL_IsIdle, QueueProofs!FIL_IsIdle, Free,
         QueueProofs!Free, queueVars, QueueProofs!queueVars
    <3> QED BY <2>3, <3>1 DEF QueueProofs!Next, Run, queueVars
  <2>4. CASE ProcessDone
    <3>1. QueueProofs!ProcessDone
      BY <1>1, <2>4 DEF ProcessDone, QueueProofs!ProcessDone, NextStatus,
         QueueProofs!NextStatus, BackToWaitQ, QueueProofs!BackToWaitQ, Cons,
         QueueProofs!Cons, loopVars, QueueProofs!loopVars
    <3>2. /\ Head(doneQ) \in Requests /\ status[Head(doneQ)] \in DoneStatus
          /\ status \in [Requests -> Status]
      BY <2>4, QueueFacts DEF ProcessDone
    <3>3. \A s \in Requests : s # Head(doneQ) => status'[s] = status[s]
      BY <2>4, <3>2 DEF ProcessDone
    <3>4. \A e \in Dies : issued[e] # <<>> => Head(issued[e]) \in Requests \ {Head(doneQ)}
      BY <3>2, QueueFacts DEF IssuedStatus, DoneStatus
    <3>5. UNCHANGED <<op, issued, cells>>
      BY <2>4 DEF ProcessDone
    <3> QED BY <3>1, <3>3, <3>4, <3>5 DEF QueueProofs!Next, QueueProofs!FilRun
  <2>5. CASE DoneQEmpty
    <3>1. QueueProofs!DoneQEmpty
      BY <1>1, <2>5 DEF DoneQEmpty, QueueProofs!DoneQEmpty, queueVars, QueueProofs!queueVars
    <3> QED BY <2>5, <3>1 DEF QueueProofs!Next, QueueProofs!FilRun, DoneQEmpty, queueVars
  <2>6. CASE NoIssue
    <3>1. QueueProofs!NoIssue
      BY <1>1, <2>6 DEF NoIssue, QueueProofs!NoIssue, Issuable, QueueProofs!Issuable, NextDie,
         QueueProofs!NextDie, queueVars, QueueProofs!queueVars
    <3> QED BY <2>6, <3>1 DEF QueueProofs!Next, QueueProofs!FilRun, NoIssue, queueVars
  <2> QED BY <2>1, <2>2, <2>3, <2>4, <2>5, <2>6 DEF QueueStep
<1>3. NandTypeOK' /\ OneCommandPerWay'
  BY <1>1, <1>2 DEF NandTypeOK, OneCommandPerWay, Injective, ToSet
<1>4. ASSUME NEW e \in Dies PROVE StepKnows(e)'
  <2>1. Commands(e)' = Commands(e)
    BY <1>1 DEF Commands, ToSet
  <2>2. Same(e)
    BY <1>1, <1>2, <2>1 DEF Same
  <2> QED BY <2>2, SameKnows DEF StepsKnow
<1> QED BY <1>2, <1>3, <1>4 DEF Kept, StepsKnow

(***************************************************************************)
(* A visit to the operation at hand.                                       *)
(***************************************************************************)

\* The loop of FIL_ProcessIssuedQ is at die d, and goes on.
AtDie(d) ==
  /\ phase = "issued" /\ die = d /\ issued[d] # <<>>
  /\ NextDie("wait")
  /\ UNCHANGED <<pending, queued, cells>>

\* An operation that goes on does so in the instance.
LEMMA RunsView ==
  ASSUME phase = "issued", NextDie("wait"), UNCHANGED <<queueVars, pending, queued, seen>>
  PROVE  QueueProofs!Next
<1>1. QueueProofs!OperationRuns
  BY DEF QueueProofs!OperationRuns, NextDie, QueueProofs!NextDie, queueVars,
         QueueProofs!queueVars
<1> QED BY <1>1 DEF QueueProofs!Next, QueueProofs!FilRun

\* It is left in step s, and the hardware is not touched.
LEMMA RunsKeeps ==
  ASSUME NandInv, NEW d \in Dies, NEW s \in Steps, AtDie(d), Runs(d, s), Knows(d, s),
         retry' \in [Dies -> Nat], UNCHANGED hardVars
  PROVE  QueueProofs!Next /\ Kept
<1>1. QueueProofs!Next
  BY RunsView DEF AtDie, Runs
<1>2. /\ UNCHANGED <<status, op, wait, issued, doneQ, seen, cells,
                     report, completion, late, ctrl, array>>
      /\ step \in [Dies -> Steps]
      /\ step' = [step EXCEPT ![d] = s]
  BY DEF AtDie, Runs, queueVars, hardVars, NandInv, NandTypeOK
<1>3. \A e \in Dies : Commands(e)' = Commands(e)
  BY <1>2 DEF Commands, ToSet
<1>4. StepKnows(d)'
  <2>1. After(d)' = After(d) /\ Kind(Head(issued[d]))' = Kind(Head(issued[d]))
    BY <1>2 DEF After, Kind
  <2>2. (Arrayed(d)' <=> Arrayed(d)) /\ (Quiet(d)' <=> Quiet(d))
    BY <1>2, <1>3, <2>1 DEF Arrayed, Quiet
  <2>3. step'[d] = s
    BY <1>2
  <2> QED BY <1>2, <1>3, <2>1, <2>2, <2>3 DEF StepKnows, Knows
<1>5. StepsKnow'
  <2>1. Head(issued[d]) \in Requests /\ op[Head(issued[d])].die = d
    BY QueueFacts DEF NandInv, AtDie
  <2> QED BY <1>2, <1>3, <1>4, <2>1, OneDie
<1>6. NandTypeOK' /\ OneCommandPerWay'
  BY <1>2 DEF NandInv, NandTypeOK, OneCommandPerWay, Injective, ToSet
<1> QED BY <1>1, <1>5, <1>6 DEF Kept

\* It is done, the hardware has finished with it, and the cells show it.
LEMMA EndsKeeps ==
  ASSUME NandInv, NEW d \in Dies, AtDie(d), Ends(d),
         Commands(d) = {}, array[d] = "ready", d \notin late, Arrayed(d),
         retry' \in [Dies -> Nat], UNCHANGED hardVars
  PROVE  QueueProofs!Next /\ Kept
<1> DEFINE r == Head(issued[d])
<1>1. /\ UNCHANGED <<op, wait, cells, report, completion, late, ctrl, array>>
      /\ step' = [step EXCEPT ![d] = "NONE"]
      /\ seen' = [seen EXCEPT ![d] = cells[d]]
      /\ issued' = [issued EXCEPT ![d] = Tail(@)]
      /\ status' = [status EXCEPT ![r] = NextStatus(@)]
      /\ doneQ' = Append(doneQ, r)
  BY DEF AtDie, Ends, hardVars
<1>2. /\ step \in [Dies -> Steps] /\ issued \in [Dies -> Seq(Requests)]
      /\ seen \in [Dies -> [Blocks -> SUBSET Pages]]
      /\ cells \in [Dies -> [Blocks -> SUBSET Pages]]
      /\ r \in Requests /\ op[r].die = d /\ status \in [Requests -> Status]
      /\ Tail(issued[d]) = <<>>
  BY QueueFacts DEF NandInv, NandTypeOK, AtDie
<1>3. cells[d] = After(d)
  BY DEF Arrayed
<1>4. QueueProofs!Next
  <2>1. seen' = QueueProofs!Effect(r)
    BY <1>1, <1>3, AtHand DEF NandInv, AtDie
  <2>2. QueueProofs!OperationEnds(d)
    BY <1>1, <2>1 DEF QueueProofs!OperationEnds, AtDie, NextDie, QueueProofs!NextDie,
       NextStatus, QueueProofs!NextStatus
  <2>3. d \in QueueProofs!Dies
    BY DEF QueueProofs!Dies, Dies
  <2> QED BY <2>2, <2>3 DEF QueueProofs!Next, QueueProofs!FilRun
<1>5. \A e \in Dies : Commands(e)' = Commands(e)
  BY <1>1 DEF Commands, ToSet
<1>6. StepKnows(d)'
  <2>1. /\ step'[d] = "NONE" /\ issued'[d] = <<>>
        /\ Commands(d)' = {} /\ array'[d] = "ready" /\ d \notin late'
        /\ cells'[d] = seen'[d]
    BY <1>1, <1>2, <1>5
  <2> QED BY <2>1 DEF StepKnows, Knows, Quiet
<1>7. StepsKnow'
  <2>1. /\ \A s \in Requests : s # r => status'[s] = status[s]
        /\ \A e \in Dies \ {d} : issued'[e] = issued[e] /\ step'[e] = step[e]
                                 /\ seen'[e] = seen[e]
    BY <1>1, <1>2
  <2> QED BY <1>1, <1>2, <1>5, <1>6, <2>1, OneDie
<1>8. NandTypeOK' /\ OneCommandPerWay'
  BY <1>1, <1>2 DEF NandInv, NandTypeOK, OneCommandPerWay, Injective, ToSet, Steps
<1> QED BY <1>4, <1>7, <1>8 DEF Kept

\* A read that has failed starts again or ends; it did nothing to the cells.
LEMMA ReadFailsKeeps ==
  ASSUME NandInv, NEW d \in Dies, AtDie(d), ReadFails(d),
         Kind(Head(issued[d])) = "READ",
         Commands(d) = {}, array[d] = "ready", d \notin late, Arrayed(d),
         UNCHANGED hardVars
  PROVE  QueueProofs!Next /\ Kept
<1>1. retry' \in [Dies -> Nat]
  BY DEF NandInv, NandTypeOK, ReadFails
<1>2. CASE Ends(d)
  BY <1>1, <1>2, EndsKeeps
<1>3. CASE Runs(d, "NONE")
  <2>1. cells[d] = seen[d]
    BY AtHand DEF NandInv, AtDie, Arrayed
  <2>2. Knows(d, "NONE")
    BY <2>1 DEF Knows, Quiet
  <2> QED BY <1>1, <1>3, <2>2, RunsKeeps DEF Steps
<1> QED BY <1>2, <1>3 DEF ReadFails

\* The report of a status check is looked at.
LEMMA CheckStatusKeeps ==
  ASSUME NandInv, NEW d \in Dies, AtDie(d), CheckStatus(d, Kind(Head(issued[d])))
  PROVE  QueueProofs!Next /\ Kept
<1> DEFINE k == Kind(Head(issued[d]))
<1>1. /\ step[d] \in {"WAIT_STATUS", "CHECK_STATUS"} /\ UNCHANGED hardVars
      /\ retry \in [Dies -> Nat]
      /\ report[d] \in {"none", "ok", "fail", "early", "half"}
  BY DEF CheckStatus, NandInv, NandTypeOK
<1>2. /\ d \notin late /\ Arrayed(d)
      /\ \/ Commands(d) = {Cmd(d, "STATUS")} /\ report[d] = "none"
         \/ Commands(d) = {} /\ (report[d] \in {"ok", "fail"} => array[d] = "ready")
  BY <1>1 DEF NandInv, StepsKnow, StepKnows, Knows
<1>3. CASE Runs(d, "WAIT_STATUS") /\ UNCHANGED retry
  <2>1. Knows(d, "WAIT_STATUS")
    BY <1>2 DEF Knows, AtDie
  <2> QED BY <1>1, <1>3, <2>1, RunsKeeps DEF Steps
<1>4. CASE IsCmdDone(d) /\ k # "READ" /\ Ends(d) /\ UNCHANGED retry
  BY <1>1, <1>2, <1>4, EndsKeeps DEF IsCmdDone
<1>5. CASE IsCmdDone(d) /\ k = "READ" /\ ReadFails(d)
  BY <1>1, <1>2, <1>5, ReadFailsKeeps DEF IsCmdDone
<1>6. CASE IsCmdDone(d) /\ k = "READ" /\ Runs(d, "TRANSFER") /\ UNCHANGED retry
  <2>1. Knows(d, "TRANSFER")
    BY <1>2, <1>6 DEF Knows, AtDie, IsCmdDone
  <2> QED BY <1>1, <1>6, <2>1, RunsKeeps DEF Steps
<1>7. CASE ~IsCmdDone(d) /\ Runs(d, "WAIT_DONE") /\ UNCHANGED retry
  <2>1. Knows(d, "WAIT_DONE")
    BY <1>2 DEF Knows, AtDie
  <2> QED BY <1>1, <1>7, <2>1, RunsKeeps DEF Steps
<1>8. CASE report[d] = "half" /\ Runs(d, "CHECK_STATUS") /\ UNCHANGED retry
  <2>1. Knows(d, "CHECK_STATUS")
    BY <1>2 DEF Knows, AtDie
  <2> QED BY <1>1, <1>8, <2>1, RunsKeeps DEF Steps
<1> QED BY <1>3, <1>4, <1>5, <1>6, <1>7, <1>8 DEF CheckStatus

\* The completion of a transfer is waited for and looked at.
LEMMA TransferStepsKeep ==
  ASSUME NandInv, NEW d \in Dies, AtDie(d), WaitTransfer(d) \/ CheckTransfer(d)
  PROVE  QueueProofs!Next /\ Kept
<1> DEFINE k == Kind(Head(issued[d]))
<1>1. /\ step[d] \in {"WAIT_TRANSFER", "CHECK_TRANSFER"} /\ UNCHANGED hardVars
      /\ retry \in [Dies -> Nat]
  BY DEF WaitTransfer, CheckTransfer, NandInv, NandTypeOK
<1>2. /\ k = "READ" /\ array[d] = "ready" /\ Arrayed(d)
      /\ \/ Commands(d) = {Cmd(d, "TRANSFER")} /\ d \notin late /\ completion[d] = "none"
         \/ Commands(d) = {} /\ (d \in late => completion[d] = "none")
  BY <1>1 DEF NandInv, StepsKnow, StepKnows, Knows
<1>3. \A s \in {"WAIT_TRANSFER", "CHECK_TRANSFER"} : Knows(d, s) /\ s \in Steps
  BY <1>2 DEF Knows, AtDie, Steps
<1>4. CASE Runs(d, "WAIT_TRANSFER") /\ UNCHANGED retry
  BY <1>1, <1>3, <1>4, RunsKeeps
<1>5. CASE Runs(d, "CHECK_TRANSFER") /\ UNCHANGED retry
  BY <1>1, <1>3, <1>5, RunsKeeps
<1>6. CASE completion[d] = "ok" /\ Ends(d) /\ UNCHANGED retry
  BY <1>1, <1>2, <1>6, EndsKeeps
<1>7. CASE completion[d] = "uecc" /\ ReadFails(d)
  BY <1>1, <1>2, <1>7, ReadFailsKeeps
<1> QED BY <1>4, <1>5, <1>6, <1>7 DEF WaitTransfer, CheckTransfer

(***************************************************************************)
(* A command is written.                                                   *)
(***************************************************************************)

\* To a way that has none in the controller.
LEMMA WayGetsCommand ==
  ASSUME NandInv, NEW d \in Dies, NEW c \in Kinds \union {"STATUS", "TRANSFER"},
         Commands(d) = {}, Command(d, c)
  PROVE  /\ ctrl' \in [Channels -> Seq(Entry)]
         /\ OneCommandPerWay'
         /\ Commands(d)' = {Cmd(d, c)}
         /\ \A e \in Dies \ {d} : Commands(e)' = Commands(e)
<1> DEFINE x == [way |-> d, cmd |-> c]
<1>1. x \in Entry /\ x.way = d /\ x = Cmd(d, c)
  BY DEF Entry, Cmd
<1>2. Channel(d) \in Channels
  BY ChannelType
<1>3. \A y \in ToSet(ctrl[Channel(d)]) : y.way # d
  BY DEF Commands
<1>4. ctrl' = [ctrl EXCEPT ![Channel(d)] = Append(@, x)]
  BY DEF Command
<1> HIDE DEF x
<1>5. ctrl \in [Channels -> Seq(Entry)] /\ OneCommandPerWay
  BY DEF NandInv, NandTypeOK
<1>6. /\ ctrl' \in [Channels -> Seq(Entry)]
      /\ OneCommandPerWay'
      /\ \A e \in Dies : Commands(e)' = IF e = x.way THEN {x} ELSE Commands(e)
  BY <1>1, <1>2, <1>3, <1>4, <1>5, CommandStep
<1> QED BY <1>1, <1>6

\* The controller of the way is free.
LEMMA IssuableWay ==
  ASSUME NEW d \in Dies, IsCMDIssuable(d)
  PROVE  Commands(d) = {}
BY DEF IsCMDIssuable, Commands, ToSet

\* The command of the operation that is, or becomes, the one at hand.
LEMMA StartKeeps ==
  ASSUME NandInv, NEW d \in Dies, NEW k \in Kinds, Start(d, k),
         issued'[d] # <<>>, Kind(Head(issued[d]))' = k, UNCHANGED <<cells, seen>>
  PROVE  /\ step' \in [Dies -> Steps] /\ ctrl' \in [Channels -> Seq(Entry)]
         /\ UNCHANGED <<report, completion, late, array>>
         /\ \A e \in Dies \ {d} : step'[e] = step[e] /\ Commands(e)' = Commands(e)
         /\ OneCommandPerWay'
         /\ StepKnows(d)'
<1>1. /\ step[d] \in {"NONE", "ISSUABLE"} /\ UNCHANGED <<report, completion, late, array>>
      /\ step \in [Dies -> Steps] /\ ctrl \in [Channels -> Seq(Entry)] /\ OneCommandPerWay
  BY DEF Start, NandInv, NandTypeOK
<1>2. Quiet(d)
  BY <1>1 DEF NandInv, StepsKnow, StepKnows, Knows
<1>3. CASE Command(d, k) /\ step' = [step EXCEPT ![d] = "WAIT_DONE"]
  <2>1. /\ ctrl' \in [Channels -> Seq(Entry)] /\ OneCommandPerWay'
        /\ Commands(d)' = {Cmd(d, k)}
        /\ \A e \in Dies \ {d} : Commands(e)' = Commands(e)
    BY <1>2, <1>3, WayGetsCommand DEF Quiet
  <2>2. step' \in [Dies -> Steps] /\ step'[d] = "WAIT_DONE"
    BY <1>1, <1>3 DEF Steps
  <2>3. array'[d] = "ready" /\ d \notin late' /\ cells'[d] = seen'[d]
    BY <1>1, <1>2 DEF Quiet
  <2>4. StepKnows(d)'
    BY <2>1, <2>2, <2>3 DEF StepKnows, Knows, Cmd
  <2> QED BY <1>1, <1>3, <2>1, <2>2, <2>4
<1>4. CASE step' = [step EXCEPT ![d] = "ISSUABLE"] /\ UNCHANGED ctrl
  <2>1. \A e \in Dies : Commands(e)' = Commands(e)
    BY <1>4 DEF Commands, ToSet
  <2>2. step' \in [Dies -> Steps] /\ step'[d] = "ISSUABLE"
    BY <1>1, <1>4 DEF Steps
  <2>3. Quiet(d)'
    BY <1>1, <1>2, <2>1 DEF Quiet
  <2>4. StepKnows(d)'
    BY <2>2, <2>3 DEF StepKnows, Knows
  <2>5. OneCommandPerWay'
    BY <1>1, <1>4 DEF OneCommandPerWay, Injective, ToSet
  <2> QED BY <1>1, <1>4, <2>1, <2>2, <2>4, <2>5
<1> QED BY <1>3, <1>4 DEF Start

\* At a visit: the operation had to wait for the controller or failed before.
LEMMA VisitStartKeeps ==
  ASSUME NandInv, NEW d \in Dies, AtDie(d), Start(d, Kind(Head(issued[d]))),
         UNCHANGED <<queueVars, retry, seen>>
  PROVE  QueueProofs!Next /\ Kept
<1> DEFINE r == Head(issued[d])
<1>1. /\ UNCHANGED <<status, op, issued, cells, seen, retry>> /\ issued[d] # <<>>
      /\ r \in Requests /\ op[r].die = d /\ Kind(r) \in Kinds
  BY AtHand, QueueFacts DEF AtDie, queueVars, NandInv
<1>2. Kind(Head(issued[d]))' = Kind(r)
  BY <1>1 DEF Kind
<1>3. /\ step' \in [Dies -> Steps] /\ ctrl' \in [Channels -> Seq(Entry)]
      /\ UNCHANGED <<report, completion, late, array>>
      /\ \A e \in Dies \ {d} : step'[e] = step[e] /\ Commands(e)' = Commands(e)
      /\ OneCommandPerWay' /\ StepKnows(d)'
  BY <1>1, <1>2, StartKeeps
<1>4. StepsKnow'
  BY <1>1, <1>3, OneDie
<1>5. NandTypeOK'
  BY <1>1, <1>3 DEF NandInv, NandTypeOK
<1> QED BY <1>3, <1>4, <1>5, RunsView DEF Kept, AtDie

\* When the request is taken from the wait queue of its die.
LEMMA NandIssueKeeps ==
  ASSUME NandInv, NandIssue
  PROVE  QueueProofs!Next /\ Kept
<1>0. PICK d \in Dies : d = die
  BY QueueFacts DEF NandInv
<1> DEFINE r == Head(wait[d])
<1>1. /\ wait[d] # <<>> /\ issued[d] = <<>>
      /\ r \in Requests /\ op[r].die = d /\ status[r] \in WaitStatus
      /\ status \in [Requests -> Status] /\ issued \in [Dies -> Seq(Requests)]
      /\ UNCHANGED <<op, cells, seen>>
      /\ issued' = [issued EXCEPT ![d] = Append(@, r)]
      /\ status' = [status EXCEPT ![r] = NextStatus(@)]
  BY <1>0, QueueFacts DEF NandInv, NandIssue, Issue, Issuable
<1>2. QueueProofs!Next
  <2>1. QueueProofs!Issue
    BY <1>0, <1>1 DEF NandIssue, Issue, QueueProofs!Issue, Issuable, QueueProofs!Issuable, NextDie,
       QueueProofs!NextDie, NextStatus, QueueProofs!NextStatus
  <2> QED BY <2>1 DEF QueueProofs!Next, QueueProofs!FilRun
<1>3. issued'[d] # <<>> /\ Head(issued'[d]) = r
  <2>1. issued'[d] = Append(<<>>, r)
    BY <1>1
  <2> QED BY <1>1, <2>1
<1>4. Kind(r) \in Kinds /\ Kind(Head(issued[d]))' = Kind(r)
  <2>1. status'[r] = NextStatus(status[r])
    BY <1>1
  <2>2. CASE status[r] = "READ_WAIT"
    BY <1>3, <2>1, <2>2 DEF Kind, NextStatus, Kinds
  <2>3. CASE status[r] = "ERASE_WAIT"
    BY <1>3, <2>1, <2>3 DEF Kind, NextStatus, Kinds
  <2>4. CASE status[r] = "PROGRAM_WAIT"
    BY <1>3, <2>1, <2>4 DEF Kind, NextStatus, Kinds
  <2> QED BY <1>1, <2>2, <2>3, <2>4 DEF WaitStatus
<1>5. Start(d, Kind(r)) /\ retry' \in [Dies -> Nat]
  BY <1>0 DEF NandIssue, NandInv, NandTypeOK
<1>6. /\ step' \in [Dies -> Steps] /\ ctrl' \in [Channels -> Seq(Entry)]
      /\ UNCHANGED <<report, completion, late, array>>
      /\ \A e \in Dies \ {d} : step'[e] = step[e] /\ Commands(e)' = Commands(e)
      /\ OneCommandPerWay'
      /\ StepKnows(d)'
  BY <1>1, <1>3, <1>4, <1>5, StartKeeps
<1>7. StepsKnow'
  BY <1>1, <1>6, OneDie
<1>8. NandTypeOK'
  BY <1>1, <1>5, <1>6 DEF NandInv, NandTypeOK
<1> QED BY <1>2, <1>6, <1>7, <1>8 DEF Kept

\* A status check or a transfer is written, and the operation goes on to step s.
LEMMA AsksKeeps ==
  ASSUME NandInv, NEW d \in Dies, AtDie(d), NEW s \in Steps, Runs(d, s),
         NEW c \in {"STATUS", "TRANSFER"}, Command(d, c), Commands(d) = {},
         UNCHANGED <<retry, late, array>>,
         report' \in [Dies -> {"none", "ok", "fail", "early", "half"}],
         completion' \in [Dies -> {"none", "ok", "uecc"}],
         \A e \in Dies \ {d} : report'[e] = report[e] /\ completion'[e] = completion[e],
         After(d)' = After(d) /\ Kind(Head(issued[d]))' = Kind(Head(issued[d])) => StepKnows(d)'
  PROVE  QueueProofs!Next /\ Kept
<1>1. /\ UNCHANGED <<status, op, issued, seen, cells, late, array>>
      /\ step \in [Dies -> Steps]
      /\ step' = [step EXCEPT ![d] = s]
  BY DEF AtDie, Runs, queueVars, NandInv, NandTypeOK
<1>2. QueueProofs!Next
  BY RunsView DEF AtDie, Runs
<1>3. /\ ctrl' \in [Channels -> Seq(Entry)] /\ OneCommandPerWay'
      /\ \A e \in Dies \ {d} : Commands(e)' = Commands(e)
  BY WayGetsCommand
<1>4. StepKnows(d)'
  BY <1>1 DEF After, Kind
<1>5. StepsKnow'
  <2>1. Head(issued[d]) \in Requests /\ op[Head(issued[d])].die = d
    BY QueueFacts DEF NandInv, AtDie
  <2> QED BY <1>1, <1>3, <1>4, <2>1, OneDie
<1>6. NandTypeOK'
  BY <1>1, <1>3 DEF NandInv, NandTypeOK
<1> QED BY <1>2, <1>3, <1>5, <1>6 DEF Kept

\* V2FStatusCheckAsync, when the channel and the way are free.
LEMMA AskStatusKeeps ==
  ASSUME NandInv, NEW d \in Dies, AtDie(d), AskStatus(d)
  PROVE  QueueProofs!Next /\ Kept
<1>1. /\ step[d] = "WAIT_DONE" /\ UNCHANGED <<retry, completion, late, array>>
      /\ step \in [Dies -> Steps] /\ retry \in [Dies -> Nat]
      /\ report \in [Dies -> {"none", "ok", "fail", "early", "half"}]
      /\ completion \in [Dies -> {"none", "ok", "uecc"}]
  BY DEF AskStatus, NandInv, NandTypeOK
<1>2. Knows(d, "WAIT_DONE")
  BY <1>1 DEF NandInv, StepsKnow, StepKnows
<1>3. CASE Runs(d, "WAIT_DONE") /\ UNCHANGED <<report, ctrl>>
  BY <1>1, <1>2, <1>3, RunsKeeps DEF hardVars, Steps
<1>4. CASE IsCMDIssuable(d) /\ StatusCheck(d) /\ Runs(d, "WAIT_STATUS")
  <2>1. Commands(d) = {} /\ Arrayed(d) /\ d \notin late
    BY <1>2, <1>4, IssuableWay DEF Knows
  <2>2. /\ Command(d, "STATUS") /\ report' = [report EXCEPT ![d] = "none"]
    BY <1>4 DEF StatusCheck
  <2>3. Commands(d)' = {Cmd(d, "STATUS")}
    BY <2>1, <2>2, WayGetsCommand
  <2>4. ASSUME After(d)' = After(d) PROVE StepKnows(d)'
    <3>1. /\ UNCHANGED <<issued, seen, cells, late, array>>
          /\ step'[d] = "WAIT_STATUS" /\ report'[d] = "none" /\ issued'[d] # <<>>
      BY <1>1, <1>4, <2>2 DEF Runs, AtDie, queueVars
    <3>2. Arrayed(d)'
      BY <2>1, <2>4, <3>1 DEF Arrayed
    <3> QED BY <2>1, <2>3, <3>1, <3>2 DEF StepKnows, Knows
  <2> QED BY <1>1, <1>4, <2>1, <2>2, <2>4, AsksKeeps DEF Steps
<1> QED BY <1>3, <1>4 DEF AskStatus

\* V2FReadPageTransferAsync, which checks nothing.
LEMMA TransferKeeps ==
  ASSUME NandInv, NEW d \in Dies, AtDie(d), Transfer(d)
  PROVE  QueueProofs!Next /\ Kept
<1>1. /\ step[d] = "TRANSFER" /\ Runs(d, "WAIT_TRANSFER")
      /\ UNCHANGED <<retry, report, late, array>>
      /\ Command(d, "TRANSFER") /\ completion' = [completion EXCEPT ![d] = "none"]
      /\ report \in [Dies -> {"none", "ok", "fail", "early", "half"}]
      /\ completion \in [Dies -> {"none", "ok", "uecc"}]
      /\ step \in [Dies -> Steps]
  BY DEF Transfer, ReadTransfer, NandInv, NandTypeOK
<1>2. /\ d \notin late /\ Kind(Head(issued[d])) = "READ" /\ array[d] = "ready"
      /\ Arrayed(d) /\ Commands(d) = {}
  BY <1>1 DEF NandInv, StepsKnow, StepKnows, Knows
<1>3. Commands(d)' = {Cmd(d, "TRANSFER")}
  BY <1>1, <1>2, WayGetsCommand
<1>4. ASSUME After(d)' = After(d), Kind(Head(issued[d]))' = Kind(Head(issued[d]))
      PROVE  StepKnows(d)'
  <2>1. /\ UNCHANGED <<issued, seen, cells, late, array>>
        /\ step'[d] = "WAIT_TRANSFER" /\ completion'[d] = "none" /\ issued'[d] # <<>>
    BY <1>1 DEF Runs, AtDie, queueVars
  <2>2. Arrayed(d)'
    BY <1>2, <1>4, <2>1 DEF Arrayed
  <2> QED BY <1>2, <1>3, <1>4, <2>1, <2>2 DEF StepKnows, Knows
<1> QED BY <1>1, <1>2, <1>4, AsksKeeps DEF Steps

\* _ProcessIssuedQ, for one die.
LEMMA VisitKeeps ==
  ASSUME NandInv, NEW d \in Dies, Visit(d)
  PROVE  QueueProofs!Next /\ Kept
<1>1. AtDie(d)
  BY DEF Visit, AtDie
<1> QED BY <1>1, VisitStartKeeps, AskStatusKeeps, CheckStatusKeeps, TransferKeeps,
           TransferStepsKeep DEF Visit

\* There is no operation to visit.
LEMMA NoVisitKeeps ==
  ASSUME NandInv, NoVisit
  PROVE  QueueProofs!Next /\ Kept
<1>1. UNCHANGED <<queueVars, status, op, issued, cells, step, retry, report, completion,
                  late, ctrl, array, seen>>
  BY DEF NoVisit, nandVars, wayVars, hardVars, queueVars
<1>2. QueueProofs!Next
  BY <1>1, RunsView DEF NoVisit
<1>3. ASSUME NEW e \in Dies PROVE StepKnows(e)'
  <2>1. Commands(e)' = Commands(e)
    BY <1>1 DEF Commands, ToSet
  <2>2. Same(e)
    BY <1>1, <2>1 DEF Same
  <2> QED BY <2>2, SameKnows DEF NandInv, StepsKnow
<1>4. NandTypeOK' /\ OneCommandPerWay'
  BY <1>1 DEF NandInv, NandTypeOK, OneCommandPerWay, Injective, ToSet
<1> QED BY <1>2, <1>3, <1>4 DEF Kept, StepsKnow

(***************************************************************************)
(* The controllers and the arrays.  None of their steps is seen by the     *)
(* queues.                                                                 *)
(***************************************************************************)

\* The firmware does nothing meanwhile.
LEMMA HardwareFrame ==
  ASSUME NandInv, NEW d, d \in Dies => StepKnows(d)',
         UNCHANGED <<status, op, issued, step, seen>>,
         \A e \in Dies \ {d} :
           /\ Commands(e)' = Commands(e)
           /\ array'[e] = array[e] /\ cells'[e] = cells[e]
           /\ report'[e] = report[e] /\ completion'[e] = completion[e]
           /\ e \in late' <=> e \in late
  PROVE  StepsKnow'
<1>1. ASSUME NEW e \in Dies, e # d PROVE StepKnows(e)'
  <2>1. Same(e)
    BY <1>1 DEF Same
  <2> QED BY <2>1, SameKnows DEF NandInv, StepsKnow
<1>2. \A e \in Dies : StepKnows(e)'
  BY <1>1
<1> QED BY <1>2 DEF StepsKnow

\* A command of another way of the channel.
LEMMA NeighbourKeeps ==
  ASSUME NandInv, NEW n \in Neighbours, NEW ch \in Channels, NeighbourCommand(n, ch)
  PROVE  UNCHANGED QueueProofs!vars /\ Kept
<1> DEFINE x == [way |-> n, cmd |-> "OTHER"]
<1>1. /\ UNCHANGED <<queueVars, loopVars, pending, queued, cells, status, op, issued,
                     step, retry, report, completion, late, array, seen>>
      /\ ctrl' = [ctrl EXCEPT ![ch] = Append(@, x)]
      /\ ctrl \in [Channels -> Seq(Entry)] /\ OneCommandPerWay
  BY DEF NeighbourCommand, vars, wayVars, queueVars, NandInv, NandTypeOK
<1>2. x \in Entry /\ x.way = n /\ n \notin Dies
  BY ControllerAssumption DEF Entry
<1>3. \A y \in ToSet(ctrl[ch]) : y.way # n
  <2>1. ctrl[ch] \in Seq(Entry)
    BY <1>1
  <2>2. \A y \in ToSet(ctrl[ch]) : \E i \in DOMAIN ctrl[ch] : ctrl[ch][i] = y
    BY DEF ToSet
  <2> QED BY <2>2 DEF NeighbourCommand
<1> HIDE DEF x
<1>4. /\ ctrl' \in [Channels -> Seq(Entry)] /\ OneCommandPerWay'
      /\ \A e \in Dies : Commands(e)' = IF e = x.way THEN {x} ELSE Commands(e)
  BY <1>1, <1>2, <1>3, CommandStep
<1>5. StepsKnow'
  BY <1>1, <1>2, <1>4, HardwareFrame
<1>6. NandTypeOK'
  BY <1>1, <1>4 DEF NandInv, NandTypeOK
<1>7. UNCHANGED QueueProofs!vars
  BY <1>1 DEF QueueProofs!vars, QueueProofs!queueVars, QueueProofs!loopVars, queueVars, loopVars
<1> QED BY <1>4, <1>5, <1>6, <1>7 DEF Kept

\* The controller ends a command: it is the one its way waits for.
LEMMA CtrlEndsKeeps ==
  ASSUME NandInv, NEW ch \in Channels, CtrlEnds(ch)
  PROVE  UNCHANGED QueueProofs!vars /\ Kept
<1>1. /\ UNCHANGED <<queueVars, loopVars, pending, queued, cells, status, op, issued,
                     step, retry, seen>>
      /\ ctrl[ch] # <<>> /\ ctrl' = [ctrl EXCEPT ![ch] = Tail(@)]
      /\ ctrl \in [Channels -> Seq(Entry)] /\ OneCommandPerWay
      /\ report \in [Dies -> {"none", "ok", "fail", "early", "half"}]
      /\ completion \in [Dies -> {"none", "ok", "uecc"}]
      /\ late \subseteq Dies
      /\ array \in [Dies -> {"ready", "starting", "busy"}]
  BY DEF CtrlEnds, vars, wayVars, queueVars, NandInv, NandTypeOK
<1>x. PICK x \in Entry : x = Head(ctrl[ch])
  BY <1>1, ControllerStep
<1> DEFINE d == x.way
<1>2. /\ ctrl' \in [Channels -> Seq(Entry)] /\ OneCommandPerWay' /\ x \in Entry
      /\ \A e \in Dies : IF e = d THEN Commands(e) = {x} /\ Commands(e)' = {}
                                  ELSE Commands(e)' = Commands(e)
  BY <1>1, <1>x, ControllerStep
<1>3. UNCHANGED QueueProofs!vars
  BY <1>1 DEF QueueProofs!vars, QueueProofs!queueVars, QueueProofs!loopVars, queueVars, loopVars
<1>4. \/ d \in Neighbours /\ x.cmd = "OTHER"
      \/ d \in Dies /\ x.cmd \in Kinds \union {"STATUS", "TRANSFER"} /\ x = Cmd(d, x.cmd)
  BY <1>2 DEF Entry, Cmd
<1>5. \/ d \in Neighbours /\ UNCHANGED <<report, completion, late, array>>
      \/ /\ x.cmd \in Kinds /\ array' = [array EXCEPT ![d] = "starting"]
         /\ UNCHANGED <<report, completion, late>>
      \/ /\ x.cmd = "STATUS"
         /\ \E w \in IF array[d] = "ready" THEN {"ok", "fail"} ELSE NotReady :
               report' = [report EXCEPT ![d] = w]
         /\ UNCHANGED <<completion, late, array>>
      \/ /\ x.cmd = "TRANSFER"
         /\ \/ late' = late \union {d} /\ UNCHANGED completion
            \/ /\ \E w \in {"ok", "uecc"} : completion' = [completion EXCEPT ![d] = w]
               /\ UNCHANGED late
         /\ UNCHANGED <<report, array>>
  BY <1>x DEF CtrlEnds, Kinds
<1> HIDE DEF d
<1> USE DEF Kinds
<1>6. CASE d \in Neighbours
  <2>1. d \notin Dies /\ x.cmd \notin Kinds \union {"STATUS", "TRANSFER"}
    BY <1>4, <1>6, ControllerAssumption
  <2>2. UNCHANGED <<report, completion, late, array>>
    BY <1>5, <2>1
  <2>3. StepsKnow'
    BY <1>1, <1>2, <2>1, <2>2, HardwareFrame
  <2>4. NandTypeOK'
    BY <1>1, <1>2, <2>2 DEF NandInv, NandTypeOK
  <2> QED BY <1>2, <1>3, <2>3, <2>4 DEF Kept
<1>7. CASE d \in Dies
  <2>1. /\ d \notin Neighbours /\ Commands(d) = {Cmd(d, x.cmd)} /\ Commands(d)' = {}
        /\ x.cmd \in Kinds \union {"STATUS", "TRANSFER"}
    BY <1>2, <1>4, <1>7, ControllerAssumption
  <2>2. StepKnows(d)
    BY <1>7 DEF NandInv, StepsKnow
  <2>3. issued[d] # <<>> /\ d \notin late /\ step[d] \in Steps
    BY <1>7, <2>1, <2>2 DEF StepKnows, Knows, Quiet, NandInv, NandTypeOK, Cmd, Steps
  <2>4. After(d)' = After(d) /\ Kind(Head(issued[d]))' = Kind(Head(issued[d]))
    BY <1>1 DEF After, Kind
  <2>5. CASE /\ x.cmd \in Kinds /\ array' = [array EXCEPT ![d] = "starting"]
             /\ UNCHANGED <<report, completion, late>>
    <3>1. step[d] = "WAIT_DONE" /\ cells[d] = seen[d]
      BY <1>7, <2>1, <2>2, <2>3, <2>5 DEF StepKnows, Knows, Quiet, Cmd, Steps
    <3>2. array'[d] = "starting"
      BY <1>1, <1>7, <2>5
    <3>3. Arrayed(d)'
      BY <1>1, <3>1, <3>2 DEF Arrayed
    <3>4. StepKnows(d)'
      BY <1>1, <2>1, <2>3, <2>5, <3>1, <3>3 DEF StepKnows, Knows
    <3>5. StepsKnow'
      BY <1>1, <1>2, <2>5, <3>4, HardwareFrame
    <3>6. NandTypeOK'
      BY <1>1, <1>2, <2>5 DEF NandInv, NandTypeOK
    <3> QED BY <1>2, <1>3, <3>5, <3>6 DEF Kept
  <2>6. CASE /\ x.cmd = "STATUS"
             /\ \E w \in IF array[d] = "ready" THEN {"ok", "fail"} ELSE NotReady :
                  report' = [report EXCEPT ![d] = w]
             /\ UNCHANGED <<completion, late, array>>
    <3>1. PICK w \in IF array[d] = "ready" THEN {"ok", "fail"} ELSE NotReady :
            report' = [report EXCEPT ![d] = w]
      BY <2>6
    <3>2. /\ report'[d] = w /\ w \in {"ok", "fail", "early", "half"}
          /\ w \in {"ok", "fail"} => array[d] = "ready"
      BY <1>1, <1>7, <3>1, ControllerAssumption
    <3>3. step[d] \in {"WAIT_DONE", "WAIT_STATUS", "CHECK_STATUS"} /\ Arrayed(d)
      <4>1. Kind(Head(issued[d])) \in Kinds
        BY <1>7, <2>3, AtHand DEF NandInv
      <4>2. /\ Commands(d) = {Cmd(d, "STATUS")} /\ Commands(d) # {}
            /\ Cmd(d, "STATUS") # Cmd(d, "TRANSFER")
            /\ Cmd(d, "STATUS") # Cmd(d, Kind(Head(issued[d])))
        BY <2>1, <2>6, <4>1 DEF Cmd
      <4>3. step[d] \in {"WAIT_DONE", "WAIT_STATUS", "CHECK_STATUS"}
        BY <2>2, <2>3, <4>2 DEF StepKnows, Knows, Quiet, Steps
      <4> QED BY <2>2, <4>2, <4>3 DEF StepKnows, Knows
    <3>4. Arrayed(d)'
      BY <1>1, <2>4, <2>6, <3>3 DEF Arrayed
    <3>5. StepKnows(d)'
      BY <1>1, <2>1, <2>3, <2>6, <3>2, <3>3, <3>4 DEF StepKnows, Knows
    <3>6. StepsKnow'
      BY <1>1, <1>2, <2>6, <3>1, <3>5, HardwareFrame
    <3>7. NandTypeOK'
      BY <1>1, <1>2, <2>6, <3>1, <3>2 DEF NandInv, NandTypeOK
    <3> QED BY <1>2, <1>3, <3>6, <3>7 DEF Kept
  <2>7. CASE /\ x.cmd = "TRANSFER"
             /\ \/ late' = late \union {d} /\ UNCHANGED completion
                \/ /\ \E w \in {"ok", "uecc"} : completion' = [completion EXCEPT ![d] = w]
                   /\ UNCHANGED late
             /\ UNCHANGED <<report, array>>
    <3>1. /\ step[d] \in {"WAIT_TRANSFER", "CHECK_TRANSFER"}
          /\ Kind(Head(issued[d])) = "READ" /\ array[d] = "ready" /\ Arrayed(d)
          /\ completion[d] = "none"
      <4>1. Kind(Head(issued[d])) \in Kinds
        BY <1>7, <2>3, AtHand DEF NandInv
      <4> QED BY <1>7, <2>1, <2>2, <2>3, <2>7, <4>1 DEF StepKnows, Knows, Quiet, Cmd, Steps
    <3>2. Arrayed(d)'
      BY <1>1, <2>4, <2>7, <3>1 DEF Arrayed
    <3>3. d \in late' => completion'[d] = "none"
      BY <2>3, <2>7, <3>1
    <3>4. StepKnows(d)'
      BY <1>1, <2>1, <2>3, <2>4, <2>7, <3>1, <3>2, <3>3 DEF StepKnows, Knows
    <3>5. \A e \in Dies \ {d} : completion'[e] = completion[e] /\ (e \in late' <=> e \in late)
      BY <1>1, <2>7
    <3>6. StepsKnow'
      BY <1>1, <1>2, <2>7, <3>4, <3>5, HardwareFrame
    <3>7. late' \subseteq Dies /\ completion' \in [Dies -> {"none", "ok", "uecc"}]
      BY <1>1, <1>7, <2>7
    <3>8. NandTypeOK'
      BY <1>1, <1>2, <2>7, <3>7 DEF NandInv, NandTypeOK
    <3> QED BY <1>2, <1>3, <3>6, <3>8 DEF Kept
  <2> QED BY <1>5, <2>1, <2>5, <2>6, <2>7
<1> QED BY <1>4, <1>6, <1>7

\* The word of a transfer is written.
LEMMA WordWrittenKeeps ==
  ASSUME NandInv, NEW d \in Dies, WordWritten(d)
  PROVE  UNCHANGED QueueProofs!vars /\ Kept
<1>1. PICK w \in {"ok", "uecc"} : completion' = [completion EXCEPT ![d] = w]
  BY DEF WordWritten
<1>2. /\ UNCHANGED <<queueVars, loopVars, pending, queued, cells, status, op, issued,
                     step, retry, report, ctrl, array, seen>>
      /\ d \in late /\ late' = late \ {d}
      /\ late \subseteq Dies /\ completion \in [Dies -> {"none", "ok", "uecc"}]
      /\ step[d] \in Steps
  BY DEF WordWritten, vars, wayVars, queueVars, NandInv, NandTypeOK
<1>3. \A e \in Dies : Commands(e)' = Commands(e)
  BY <1>2 DEF Commands, ToSet
<1>4. StepKnows(d)'
  <2>1. After(d)' = After(d) /\ Kind(Head(issued[d]))' = Kind(Head(issued[d]))
    BY <1>2 DEF After, Kind
  <2>2. Arrayed(d)' <=> Arrayed(d)
    BY <1>2, <2>1 DEF Arrayed
  <2>3. StepKnows(d)
    BY DEF NandInv, StepsKnow
  <2>4. step[d] \in {"WAIT_TRANSFER", "CHECK_TRANSFER"}
    BY <1>2, <2>3 DEF StepKnows, Knows, Quiet, Steps
  <2>5. Commands(d) = {}
    BY <1>2, <2>3, <2>4 DEF StepKnows, Knows
  <2>6. d \notin late' /\ Commands(d)' = {}
    BY <1>2, <1>3, <2>5
  <2> QED BY <1>2, <2>1, <2>2, <2>3, <2>4, <2>6 DEF StepKnows, Knows
<1>5. StepsKnow'
  BY <1>1, <1>2, <1>3, <1>4, HardwareFrame
<1>6. NandTypeOK' /\ OneCommandPerWay'
  BY <1>1, <1>2 DEF NandInv, NandTypeOK, OneCommandPerWay, Injective, ToSet
<1>7. UNCHANGED QueueProofs!vars
  BY <1>2 DEF QueueProofs!vars, QueueProofs!queueVars, QueueProofs!loopVars, queueVars, loopVars
<1> QED BY <1>5, <1>6, <1>7 DEF Kept

\* While the array of a die has not ended, its operation waits for its status, which
\* has not been reported to be that it is done.
LEMMA WorkingArray ==
  ASSUME NandInv, NEW d \in Dies, array[d] # "ready"
  PROVE  /\ issued[d] # <<>>
         /\ step[d] \in {"WAIT_DONE", "WAIT_STATUS", "CHECK_STATUS"}
         /\ cells[d] = seen[d] /\ Arrayed(d)
         /\ Commands(d) \subseteq {Cmd(d, "STATUS")}
         /\ step[d] # "WAIT_DONE" => report[d] \notin {"ok", "fail"}
         /\ d \notin late
<1>1. StepKnows(d) /\ step[d] \in Steps
  BY DEF NandInv, StepsKnow, NandTypeOK
<1>2. step[d] \in {"WAIT_DONE", "WAIT_STATUS", "CHECK_STATUS"}
  BY <1>1 DEF StepKnows, Knows, Quiet, Steps
<1>3. Arrayed(d) /\ d \notin late /\ Commands(d) \subseteq {Cmd(d, "STATUS")}
  BY <1>1, <1>2 DEF StepKnows, Knows
<1>4. cells[d] = seen[d]
  BY <1>3 DEF Arrayed
<1> QED BY <1>1, <1>2, <1>3, <1>4 DEF StepKnows, Knows

\* The ready bit of a way goes off, or on again with the operation done.
LEMMA ArrayKeeps ==
  ASSUME NandInv, NEW d \in Dies, ArrayStarts(d) \/ ArrayEnds(d)
  PROVE  UNCHANGED QueueProofs!vars /\ Kept
<1>1. /\ UNCHANGED <<queueVars, loopVars, pending, queued, status, op, issued,
                     step, retry, report, completion, late, ctrl, seen>>
      /\ array[d] # "ready"
      /\ array \in [Dies -> {"ready", "starting", "busy"}]
      /\ cells \in [Dies -> [Blocks -> SUBSET Pages]]
  BY DEF ArrayStarts, ArrayEnds, vars, wayVars, queueVars, NandInv, NandTypeOK
<1>2. /\ issued[d] # <<>>
      /\ step[d] \in {"WAIT_DONE", "WAIT_STATUS", "CHECK_STATUS"}
      /\ cells[d] = seen[d]
      /\ Commands(d) \subseteq {Cmd(d, "STATUS")}
      /\ step[d] # "WAIT_DONE" => report[d] \notin {"ok", "fail"}
      /\ d \notin late
  BY <1>1, WorkingArray
<1>3. After(d)' = After(d) /\ \A e \in Dies : Commands(e)' = Commands(e)
  BY <1>1 DEF After, Commands, ToSet
<1>4. /\ array' \in [Dies -> {"ready", "starting", "busy"}]
      /\ cells' \in [Dies -> [Blocks -> SUBSET Pages]]
      /\ \A e \in Dies \ {d} : array'[e] = array[e] /\ cells'[e] = cells[e]
      /\ Arrayed(d)'
  <2>1. CASE ArrayStarts(d)
    <3>1. array' = [array EXCEPT ![d] = "busy"] /\ UNCHANGED cells
      BY <2>1 DEF ArrayStarts, vars
    <3> QED BY <1>1, <1>2, <1>3, <3>1 DEF Arrayed
  <2>2. CASE ArrayEnds(d)
    <3>1. cells' = [cells EXCEPT ![d] = After(d)] /\ After(d) \in [Blocks -> SUBSET Pages]
      BY <1>1, <1>2, <2>2, AtHand DEF ArrayEnds, NandInv
    <3>2. array' = [array EXCEPT ![d] = "ready"]
      BY <2>2 DEF ArrayEnds
    <3> QED BY <1>1, <1>3, <3>1, <3>2 DEF Arrayed
  <2> QED BY <2>1, <2>2
<1>5. StepKnows(d)'
  <2>1. StepKnows(d)
    BY DEF NandInv, StepsKnow
  <2>2. /\ step'[d] \in {"WAIT_DONE", "WAIT_STATUS", "CHECK_STATUS"}
        /\ issued'[d] # <<>> /\ d \notin late'
        /\ step'[d] # "WAIT_DONE" => report'[d] \notin {"ok", "fail"}
        /\ Commands(d)' = Commands(d) /\ report'[d] = report[d] /\ step'[d] = step[d]
    BY <1>1, <1>2, <1>3
  <2> QED BY <1>2, <1>4, <2>1, <2>2 DEF StepKnows, Knows
<1>6. StepsKnow'
  BY <1>1, <1>3, <1>4, <1>5, HardwareFrame
<1>7. NandTypeOK' /\ OneCommandPerWay'
  BY <1>1, <1>4 DEF NandInv, NandTypeOK, OneCommandPerWay, Injective, ToSet
<1>8. UNCHANGED QueueProofs!vars
  BY <1>1 DEF QueueProofs!vars, QueueProofs!queueVars, QueueProofs!loopVars, queueVars, loopVars
<1> QED BY <1>6, <1>7, <1>8 DEF Kept

(***************************************************************************)
(* The theorems.                                                           *)
(***************************************************************************)

\* Nothing is under way at the start.
LEMMA NandInitial == NandInit => NandInv /\ QueueProofs!Init
<1> SUFFICES ASSUME NandInit PROVE NandInv /\ QueueProofs!Init
  OBVIOUS
<1> USE DEF NandInit
<1>1. QueueProofs!Init
  BY DEF Init, QueueProofs!Init, Operation, QueueProofs!Operation, Dies, QueueProofs!Dies,
         Pages, QueueProofs!Pages
<1>2. QueueProofs!IInv
  BY <1>1, QueueAssumptions, QueueProofs!InitInvariant
<1>3. ctrl \in [Channels -> Seq(Entry)] /\ \A ch \in Channels : ctrl[ch] = <<>>
  OBVIOUS
<1>4. OneCommandPerWay
  BY <1>3 DEF OneCommandPerWay, Injective, ToSet
<1>5. NandTypeOK
  BY <1>3 DEF NandTypeOK, Init, Steps, Pages
<1>6. \A d \in Dies : Commands(d) = {}
  BY <1>3, ChannelType DEF Commands, ToSet
<1>7. StepsKnow
  BY <1>6 DEF StepsKnow, StepKnows, Knows, Quiet, Init
<1> QED BY <1>1, <1>2, <1>4, <1>5, <1>7 DEF NandInv

\* Every step is one of the queues', or none that they see, and keeps the invariant.
LEMMA NandStep == NandInv /\ [NandNext]_allVars => [QueueProofs!Next]_(QueueProofs!vars) /\ NandInv'
<1> SUFFICES ASSUME NandInv, [NandNext]_allVars
             PROVE  [QueueProofs!Next]_(QueueProofs!vars) /\ NandInv'
  OBVIOUS
<1>1. [QueueProofs!Next]_(QueueProofs!vars) /\ Kept
  <2>1. CASE QueueStep
    BY <2>1, QueueStepKeeps
  <2>2. CASE \E d \in Dies : Visit(d)
    BY <2>2, VisitKeeps
  <2>3. CASE NoVisit
    BY <2>3, NoVisitKeeps
  <2>4. CASE NandIssue
    BY <2>4, NandIssueKeeps
  <2>5. CASE \E n \in Neighbours, ch \in Channels : NeighbourCommand(n, ch)
    BY <2>5, NeighbourKeeps
  <2>6. CASE \E ch \in Channels : CtrlEnds(ch)
    BY <2>6, CtrlEndsKeeps
  <2>7. CASE \E d \in Dies : DieHardware(d)
    BY <2>7, WordWrittenKeeps, ArrayKeeps DEF DieHardware
  <2>8. CASE UNCHANGED allVars
    <3>1. UNCHANGED <<queueVars, loopVars, pending, queued, cells, status, op, issued, step,
                      retry, report, completion, late, ctrl, array, seen>>
      BY <2>8 DEF allVars, vars, nandVars, wayVars, hardVars, queueVars
    <3>2. ASSUME NEW e \in Dies PROVE StepKnows(e)'
      <4>1. Commands(e)' = Commands(e)
        BY <3>1 DEF Commands, ToSet
      <4>2. Same(e)
        BY <3>1, <4>1 DEF Same
      <4> QED BY <4>2, SameKnows DEF NandInv, StepsKnow
    <3>3. NandTypeOK' /\ OneCommandPerWay'
      BY <3>1 DEF NandInv, NandTypeOK, OneCommandPerWay, Injective, ToSet
    <3>4. UNCHANGED QueueProofs!vars
      BY <3>1 DEF QueueProofs!vars, QueueProofs!queueVars, QueueProofs!loopVars, queueVars,
         loopVars
    <3> QED BY <3>2, <3>3, <3>4 DEF Kept, StepsKnow
  <2> QED BY <2>1, <2>2, <2>3, <2>4, <2>5, <2>6, <2>7, <2>8 DEF NandNext, Hardware
<1>2. QueueProofs!IInv'
  BY <1>1, QueueAssumptions, QueueProofs!NextInvariant DEF NandInv
<1> QED BY <1>1, <1>2 DEF NandInv, Kept

\* The invariant holds in every reachable state.
THEOREM NandInvariant == NandSpec => []NandInv
BY NandInitial, NandStep, PTL DEF NandSpec

\* Nothing goes on in a way without an operation: the step it shares with the next
\* one, its array, the controller and its transfers are at rest.
THEOREM FreeWaysAreQuiet == NandSpec => []FreeWayIsQuiet
<1>1. NandInv => FreeWayIsQuiet
  BY DEF NandInv, StepsKnow, StepKnows, Knows, Quiet, FreeWayIsQuiet
<1> QED BY <1>1, NandInvariant, PTL

\* A way whose array works is only asked for its status, and never twice at a time.
THEOREM WorkingArraysUndisturbed == NandSpec => []WorkingArrayUndisturbed
<1>1. NandInv => WorkingArrayUndisturbed
  <2> SUFFICES ASSUME NandInv, NEW d \in Dies
               PROVE  /\ Cardinality(Commands(d)) <= 1
                      /\ array[d] # "ready" => \A c \in Commands(d) : c.cmd = "STATUS"
    BY DEF WorkingArrayUndisturbed
  <2>1. \A x, y \in Commands(d) : x = y
    BY ChannelType DEF NandInv, OneCommandPerWay, Commands
  <2>2. Cardinality(Commands(d)) <= 1
    <3>1. CASE Commands(d) = {}
      BY <3>1, FS_EmptySet
    <3>2. CASE Commands(d) # {}
      <4>1. PICK x \in Commands(d) : TRUE
        BY <3>2
      <4>2. Commands(d) = {x}
        BY <2>1, <4>1
      <4>3. Cardinality({x}) = 1
        BY FS_Singleton
      <4> QED BY <4>2, <4>3
    <3> QED BY <3>1, <3>2
  <2>3. array[d] # "ready" => \A c \in Commands(d) : c.cmd = "STATUS"
    BY WorkingArray DEF Cmd
  <2> QED BY <2>2, <2>3
<1> QED BY <1>1, NandInvariant, PTL

\* The next-state relation of the instance is that of Queue.
LEMMA SameQueue ==
  /\ QueueProofs!Init <=> Queue!Init
  /\ QueueProofs!Next <=> Queue!Next
  /\ QueueProofs!vars = Queue!vars
<1>1. QueueProofs!Init <=> Queue!Init
  BY DEF Queue!Init, QueueProofs!Init, Queue!Operation, QueueProofs!Operation, Queue!Dies,
         QueueProofs!Dies, Queue!Pages, QueueProofs!Pages
<1>2. QueueProofs!vars = Queue!vars
  BY DEF Queue!vars, QueueProofs!vars, Queue!queueVars, QueueProofs!queueVars, Queue!loopVars,
         QueueProofs!loopVars
<1>3. QueueProofs!Next <=> Queue!Next
  BY DEF Queue!Next, Queue!Ask, Queue!Operation, Queue!Dies, Queue!Pages, Queue!Reads,
         Queue!Programs, Queue!AddToWaitQ, Queue!Free, Queue!FirstStatus, Queue!loopVars,
         Queue!queueVars, Queue!AskAgain, Queue!Run, Queue!FilRun, Queue!FIL_IsIdle,
         Queue!ProcessDone, Queue!DoneQEmpty, Queue!OperationRuns, Queue!OperationEnds,
         Queue!Issue, Queue!NoIssue, Queue!NextDie, Queue!NextStatus, Queue!Effect,
         Queue!Issuable, Queue!BackToWaitQ, Queue!Cons,
         QueueProofs!Next, QueueProofs!Ask, QueueProofs!Operation, QueueProofs!Dies,
         QueueProofs!Pages, QueueProofs!Reads, QueueProofs!Programs, QueueProofs!AddToWaitQ,
         QueueProofs!Free, QueueProofs!FirstStatus, QueueProofs!loopVars,
         QueueProofs!queueVars, QueueProofs!AskAgain, QueueProofs!Run, QueueProofs!FilRun,
         QueueProofs!FIL_IsIdle, QueueProofs!ProcessDone, QueueProofs!DoneQEmpty,
         QueueProofs!OperationRuns, QueueProofs!OperationEnds, QueueProofs!Issue,
         QueueProofs!NoIssue, QueueProofs!NextDie, QueueProofs!NextStatus,
         QueueProofs!Effect, QueueProofs!Issuable, QueueProofs!BackToWaitQ, QueueProofs!Cons
<1> QED BY <1>1, <1>2, <1>3

\* However visits, controllers and arrays interleave, the queues see operations that
\* go on, or end with what they were to do to the die done.
THEOREM NandImplementsQueue == NandSpec => ImplementsQueue
<1>1. NandInit => Queue!Init
  BY NandInitial, SameQueue
<1>2. NandInv /\ [NandNext]_allVars => [Queue!Next]_(Queue!vars)
  <2> SUFFICES ASSUME NandInv, [NandNext]_allVars PROVE [Queue!Next]_(Queue!vars)
    OBVIOUS
  <2>1. [QueueProofs!Next]_(QueueProofs!vars)
    BY NandStep
  <2>2. CASE QueueProofs!Next
    BY <2>2, SameQueue
  <2>3. CASE UNCHANGED QueueProofs!vars
    BY <2>3 DEF QueueProofs!vars, QueueProofs!queueVars, QueueProofs!loopVars,
       Queue!vars, Queue!queueVars, Queue!loopVars
  <2> QED BY <2>1, <2>2, <2>3
<1>3. Queue!Spec <=> Queue!Init /\ [][Queue!Next]_(Queue!vars)
  BY DEF Queue!Spec
<1> QED BY <1>1, <1>2, <1>3, NandInvariant, PTL DEF NandSpec, ImplementsQueue

\* The page a working array programs is not programmed: what the queues promise of
\* the dies as they see them holds of the arrays, too.
ArraysProgramFreePages ==
  \A d \in Dies :
    LET r == Head(issued[d]) IN
    array[d] # "ready" /\ status[r] = "PROGRAM_ISSUED" =>
      op[r].page \notin cells[d][op[r].block]

\* No array is made to program a page twice after an erase ("Check overwrite or not
\* erased", fil_nand.c:704), although the queues hear of it only when the status is read.
THEOREM FreePagesProgrammed ==
  ASSUME PagesPerBlock > 1
  PROVE  NandSpec => []ArraysProgramFreePages
<1>1. NandInit => QueueProofs!OrderInv
  BY NandInitial, QueueAssumptions, QueueProofs!InitOrder
<1>2. NandInv /\ QueueProofs!OrderInv /\ [NandNext]_allVars => QueueProofs!OrderInv'
  <2>1. QueueProofs!OrderInv /\ [QueueProofs!Next]_(QueueProofs!vars) => QueueProofs!OrderInv'
    BY QueueAssumptions, QueueProofs!NextOrder
  <2> QED BY <2>1, NandStep
<1>3. NandInv /\ QueueProofs!OrderInv => ArraysProgramFreePages
  <2> SUFFICES ASSUME NandInv, QueueProofs!OrderInv, NEW d \in Dies, array[d] # "ready",
                      status[Head(issued[d])] = "PROGRAM_ISSUED"
               PROVE  op[Head(issued[d])].page \notin cells[d][op[Head(issued[d])].block]
    BY DEF ArraysProgramFreePages
  <2>1. issued[d] # <<>> /\ cells[d] = seen[d]
    BY WorkingArray
  <2>2. QueueProofs!NoOverwrite
    BY QueueAssumptions, QueueProofs!OrderPages
  <2>3. Head(issued[d]) \in Requests /\ op[Head(issued[d])].die = d
    BY <2>1, QueueFacts DEF NandInv
  <2> QED BY <2>1, <2>2, <2>3 DEF QueueProofs!NoOverwrite, QueueProofs!Issued, QueueProofs!Programmed
<1> QED BY <1>1, <1>2, <1>3, NandInvariant, PTL DEF NandSpec
=============================================================================
