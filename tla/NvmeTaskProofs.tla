--------------------------- MODULE NvmeTaskProofs ---------------------------
(***************************************************************************)
(* For any number of queues: what the status, the registers, the writes    *)
(* left of a turn and the requests of the host tell of one another, however *)
(* nvme_run, its interrupt and the host interleave.                        *)
(***************************************************************************)
EXTENDS NvmeTask, SequenceTheorems, TLAPS

(***************************************************************************)
(* The writes of the branches, by their place.                             *)
(***************************************************************************)

Registers == {"cacheEn", "admin", "rdy", "shst"}
Steps == [what : Registers \union {"cq", "sq", "status"},
          to   : Queues \union {0, 1, 2} \union Statuses]

LEMMA CountFacts == QueueCount \in Nat /\ QueueCount >= 1 /\ 2 * QueueCount \in Nat
BY TaskAssumption

\* The loop clears the completion queue of q with its write 2q + 1 and the submission
\* queue with the next one.
LEMMA ClearFacts ==
  /\ ClearQueues \in Seq(Steps) /\ Len(ClearQueues) = 2 * QueueCount
  /\ \A q \in Queues : ClearQueues[2 * q + 1] = Write("cq", q)
  /\ \A q \in Queues : ClearQueues[2 * q + 2] = Write("sq", q)
  /\ \A i \in 1..(2 * QueueCount) : \E q \in Queues : i = 2 * q + 1 \/ i = 2 * q + 2
<1>1. PICK n : n = 2 * QueueCount /\ n \in Nat
  BY CountFacts
<1>2. ClearQueues = [i \in 1..n |-> Write(IF i % 2 = 1 THEN "cq" ELSE "sq", (i - 1) \div 2)]
  BY <1>1 DEF ClearQueues, Clear
<1>3. ASSUME NEW i \in 1..n
      PROVE  /\ i % 2 \in {0, 1} /\ (i - 1) \div 2 \in Queues
             /\ i = 2 * ((i - 1) \div 2) + 1 \/ i = 2 * ((i - 1) \div 2) + 2
  <2>1. PICK q : q = (i - 1) \div 2
    OBVIOUS
  <2>2. q \in Int /\ (i - 1 = 2 * q \/ i - 1 = 2 * q + 1) /\ i % 2 \in {0, 1}
    BY <1>1, <2>1, SMT
  <2>3. q \in 0..(QueueCount - 1)
    BY <1>1, <2>2, CountFacts
  <2>4. q \in Queues
    BY <2>3 DEF Queues
  <2>5. i \in Int
    BY <1>1
  <2>6. i = 2 * q + 1 \/ i = 2 * q + 2
    BY <2>2, <2>5
  <2> QED BY <2>1, <2>2, <2>4, <2>6
<1>4. ASSUME NEW i \in 1..n PROVE ClearQueues[i] \in Steps
  <2>1. (i - 1) \div 2 \in Queues
    BY <1>3
  <2> QED BY <1>2, <2>1 DEF Write, Steps
<1>5. ClearQueues \in Seq(Steps) /\ Len(ClearQueues) = n
  <2>1. ClearQueues \in [1..n -> Steps]
    BY <1>2, <1>4
  <2> QED BY <1>1, <2>1
<1>6. ASSUME NEW q \in Queues
      PROVE  ClearQueues[2 * q + 1] = Write("cq", q) /\ ClearQueues[2 * q + 2] = Write("sq", q)
  <2>1. q \in Nat /\ q <= QueueCount - 1
    BY CountFacts DEF Queues
  <2>2. 2 * q + 1 \in 1..n /\ 2 * q + 2 \in 1..n
    BY <1>1, <2>1, CountFacts
  <2>3. (2 * q + 1) % 2 = 1 /\ (2 * q + 2) % 2 = 0
        /\ ((2 * q + 1) - 1) \div 2 = q /\ ((2 * q + 2) - 1) \div 2 = q
    BY <2>1, SMT
  <2>4. \A i \in 1..n : ClearQueues[i] = Write(IF i % 2 = 1 THEN "cq" ELSE "sq", (i - 1) \div 2)
    BY <1>2
  <2>5. PICK i \in 1..n : i = 2 * q + 1
    BY <2>2
  <2>6. PICK j \in 1..n : j = 2 * q + 2
    BY <2>2
  <2>7. i % 2 = 1 /\ j % 2 = 0 /\ (i - 1) \div 2 = q /\ (j - 1) \div 2 = q
    BY <2>3, <2>5, <2>6
  <2>8. ClearQueues[i] = Write("cq", q) /\ ClearQueues[j] = Write("sq", q)
    BY <2>4, <2>7
  <2> QED BY <2>5, <2>6, <2>8
<1> QED BY <1>1, <1>3, <1>5, <1>6

LEMMA EnableFacts ==
  /\ Enable \in Seq(Steps) /\ Len(Enable) = 3
  /\ Enable[1] = Write("admin", 1) /\ Enable[2] = Write("rdy", 1)
  /\ Enable[3] = Write("status", "RUNNING")
<1>1. PICK a, b, c : a = Write("admin", 1) /\ b = Write("rdy", 1) /\ c = Write("status", "RUNNING")
  OBVIOUS
<1>2. a \in Steps /\ b \in Steps /\ c \in Steps
  BY <1>1 DEF Write, Steps, Statuses, Registers
<1>3. Enable = <<a, b, c>>
  BY <1>1 DEF Enable
<1> QED BY <1>1, <1>2, <1>3

LEMMA DisableFacts ==
  /\ Disable \in Seq(Steps) /\ Len(Disable) = 4
  /\ Disable[1] = Write("cacheEn", 0) /\ Disable[2] = Write("shst", 0)
  /\ Disable[3] = Write("rdy", 0) /\ Disable[4] = Write("status", "IDLE")
<1>1. PICK a, b, c, d : /\ a = Write("cacheEn", 0) /\ b = Write("shst", 0)
                        /\ c = Write("rdy", 0) /\ d = Write("status", "IDLE")
  OBVIOUS
<1>2. a \in Steps /\ b \in Steps /\ c \in Steps /\ d \in Steps
  BY <1>1 DEF Write, Steps, Statuses, Registers
<1>3. Disable = <<a, b, c, d>>
  BY <1>1 DEF Disable
<1> QED BY <1>1, <1>2, <1>3

\* What a sequence is that is put together of two.
LEMMA ConcatAt ==
  ASSUME NEW s \in Seq(Steps), NEW t \in Seq(Steps)
  PROVE  /\ s \o t \in Seq(Steps) /\ Len(s \o t) = Len(s) + Len(t)
         /\ \A i \in 1..Len(s) : (s \o t)[i] = s[i]
         /\ \A i \in 1..Len(t) : (s \o t)[Len(s) + i] = t[i]
<1>1. /\ s \o t \in Seq(Steps) /\ Len(s \o t) = Len(s) + Len(t)
      /\ \A i \in 1..Len(s) + Len(t) :
           (s \o t)[i] = IF i <= Len(s) THEN s[i] ELSE t[i - Len(s)]
  OBVIOUS
<1>2. Len(s) \in Nat /\ Len(t) \in Nat
  OBVIOUS
<1>3. ASSUME NEW i \in 1..Len(s) PROVE (s \o t)[i] = s[i]
  <2>1. i \in 1..Len(s) + Len(t) /\ i <= Len(s)
    BY <1>2
  <2> QED BY <1>1, <2>1
<1>4. ASSUME NEW i \in 1..Len(t) PROVE (s \o t)[Len(s) + i] = t[i]
  <2>1. Len(s) + i \in 1..Len(s) + Len(t) /\ ~(Len(s) + i <= Len(s)) /\ (Len(s) + i) - Len(s) = i
    BY <1>2
  <2> QED BY <1>1, <2>1
<1> QED BY <1>1, <1>3, <1>4

LEMMA ResetFacts ==
  /\ Reset \in Seq(Steps) /\ Len(Reset) = 2 * QueueCount + 5
  /\ \A q \in Queues : Reset[2 * q + 1] = Write("cq", q)
  /\ \A q \in Queues : Reset[2 * q + 2] = Write("sq", q)
  /\ Reset[2 * QueueCount + 1] = Write("cacheEn", 0)
  /\ Reset[2 * QueueCount + 2] = Write("admin", 0)
  /\ Reset[2 * QueueCount + 3] = Write("shst", 0)
  /\ Reset[2 * QueueCount + 4] = Write("rdy", 0)
  /\ Reset[2 * QueueCount + 5] = Write("status", "IDLE")
<1>1. PICK a, b, c, d, e : /\ a = Write("cacheEn", 0) /\ b = Write("admin", 0)
                           /\ c = Write("shst", 0) /\ d = Write("rdy", 0)
                           /\ e = Write("status", "IDLE")
  OBVIOUS
<1>2. a \in Steps /\ b \in Steps /\ c \in Steps /\ d \in Steps /\ e \in Steps
  BY <1>1 DEF Write, Steps, Statuses, Registers
<1>3. PICK t : t = <<a, b, c, d, e>>
  OBVIOUS
<1>4. t \in Seq(Steps) /\ Len(t) = 5 /\ t[1] = a /\ t[2] = b /\ t[3] = c /\ t[4] = d /\ t[5] = e
  BY <1>2, <1>3
<1>5. Reset = ClearQueues \o t
  BY <1>1, <1>3 DEF Reset
<1>6. /\ Reset \in Seq(Steps) /\ Len(Reset) = 2 * QueueCount + 5
      /\ \A i \in 1..(2 * QueueCount) : Reset[i] = ClearQueues[i]
      /\ \A i \in 1..5 : Reset[2 * QueueCount + i] = t[i]
  <2>1. ClearQueues \in Seq(Steps) /\ Len(ClearQueues) = 2 * QueueCount
    BY ClearFacts
  <2>2. /\ Reset \in Seq(Steps) /\ Len(Reset) = Len(ClearQueues) + Len(t)
        /\ \A i \in 1..Len(ClearQueues) : Reset[i] = ClearQueues[i]
        /\ \A i \in 1..Len(t) : Reset[Len(ClearQueues) + i] = t[i]
    BY <1>4, <1>5, <2>1, ConcatAt
  <2> QED BY <1>4, <2>1, <2>2
<1>7. ASSUME NEW q \in Queues
      PROVE  2 * q + 1 \in 1..(2 * QueueCount) /\ 2 * q + 2 \in 1..(2 * QueueCount)
  BY CountFacts DEF Queues
<1>8. /\ \A q \in Queues : Reset[2 * q + 1] = Write("cq", q)
      /\ \A q \in Queues : Reset[2 * q + 2] = Write("sq", q)
  BY <1>6, <1>7, ClearFacts
<1>9. 1 \in 1..5 /\ 2 \in 1..5 /\ 3 \in 1..5 /\ 4 \in 1..5 /\ 5 \in 1..5
  OBVIOUS
<1> QED BY <1>1, <1>4, <1>6, <1>8, <1>9

LEMMA ShutdownFacts ==
  /\ Shutdown \in Seq(Steps) /\ Len(Shutdown) = 2 * QueueCount + 5
  /\ Shutdown[1] = Write("shst", 1)
  /\ \A q \in Queues : Shutdown[2 * q + 2] = Write("cq", q)
  /\ \A q \in Queues : Shutdown[2 * q + 3] = Write("sq", q)
  /\ Shutdown[2 * QueueCount + 2] = Write("admin", 0)
  /\ Shutdown[2 * QueueCount + 3] = Write("cacheEn", 0)
  /\ Shutdown[2 * QueueCount + 4] = Write("shst", 2)
  /\ Shutdown[2 * QueueCount + 5] = Write("status", "WAIT_RESET")
<1>1. PICK a, b, c, d, e : /\ e = Write("shst", 1)
                           /\ a = Write("admin", 0) /\ b = Write("cacheEn", 0)
                           /\ c = Write("shst", 2) /\ d = Write("status", "WAIT_RESET")
  OBVIOUS
<1>2. a \in Steps /\ b \in Steps /\ c \in Steps /\ d \in Steps /\ e \in Steps
  BY <1>1 DEF Write, Steps, Statuses, Registers
<1>3. PICK h, t : h = <<e>> /\ t = <<a, b, c, d>>
  OBVIOUS
<1>4. /\ h \in Seq(Steps) /\ Len(h) = 1 /\ h[1] = e
      /\ t \in Seq(Steps) /\ Len(t) = 4 /\ t[1] = a /\ t[2] = b /\ t[3] = c /\ t[4] = d
  BY <1>2, <1>3
<1>5. PICK m : m = h \o ClearQueues
  OBVIOUS
<1>6. Shutdown = m \o t
  BY <1>1, <1>3, <1>5 DEF Shutdown
<1>7. /\ m \in Seq(Steps) /\ Len(m) = 1 + 2 * QueueCount /\ m[1] = e
      /\ \A i \in 1..(2 * QueueCount) : m[1 + i] = ClearQueues[i]
  <2>1. 1 \in 1..Len(h)
    BY <1>4
  <2>2. ClearQueues \in Seq(Steps) /\ Len(ClearQueues) = 2 * QueueCount
    BY ClearFacts
  <2>3. /\ m \in Seq(Steps) /\ Len(m) = Len(h) + Len(ClearQueues)
        /\ \A i \in 1..Len(h) : m[i] = h[i]
        /\ \A i \in 1..Len(ClearQueues) : m[Len(h) + i] = ClearQueues[i]
    BY <1>4, <1>5, <2>2, ConcatAt
  <2> QED BY <1>4, <2>1, <2>2, <2>3
<1>8. /\ Shutdown \in Seq(Steps) /\ Len(Shutdown) = (1 + 2 * QueueCount) + 4
      /\ \A i \in 1..(1 + 2 * QueueCount) : Shutdown[i] = m[i]
      /\ \A i \in 1..4 : Shutdown[(1 + 2 * QueueCount) + i] = t[i]
  <2>1. /\ Shutdown \in Seq(Steps) /\ Len(Shutdown) = Len(m) + Len(t)
        /\ \A i \in 1..Len(m) : Shutdown[i] = m[i]
        /\ \A i \in 1..Len(t) : Shutdown[Len(m) + i] = t[i]
    BY <1>4, <1>6, <1>7, ConcatAt
  <2> QED BY <1>4, <1>7, <2>1
<1>9. ASSUME NEW q \in Queues
      PROVE  Shutdown[2 * q + 2] = Write("cq", q) /\ Shutdown[2 * q + 3] = Write("sq", q)
  <2>1. q \in Nat /\ q <= QueueCount - 1
    BY CountFacts DEF Queues
  <2>2. /\ 2 * q + 1 \in 1..(2 * QueueCount) /\ 2 * q + 2 \in 1..(2 * QueueCount)
        /\ 2 * q + 2 \in 1..(1 + 2 * QueueCount) /\ 2 * q + 3 \in 1..(1 + 2 * QueueCount)
        /\ 1 + (2 * q + 1) = 2 * q + 2 /\ 1 + (2 * q + 2) = 2 * q + 3
    BY <2>1, CountFacts
  <2>3. m[2 * q + 2] = ClearQueues[2 * q + 1] /\ m[2 * q + 3] = ClearQueues[2 * q + 2]
    BY <1>7, <2>2
  <2> QED BY <1>8, <2>2, <2>3, ClearFacts
<1>10. /\ 1 \in 1..4 /\ 2 \in 1..4 /\ 3 \in 1..4 /\ 4 \in 1..4 /\ 1 \in 1..(1 + 2 * QueueCount)
       /\ (1 + 2 * QueueCount) + 1 = 2 * QueueCount + 2
       /\ (1 + 2 * QueueCount) + 2 = 2 * QueueCount + 3
       /\ (1 + 2 * QueueCount) + 3 = 2 * QueueCount + 4
       /\ (1 + 2 * QueueCount) + 4 = 2 * QueueCount + 5
  BY CountFacts
<1>11. /\ Shutdown[1] = e /\ Shutdown[2 * QueueCount + 2] = a /\ Shutdown[2 * QueueCount + 3] = b
       /\ Shutdown[2 * QueueCount + 4] = c /\ Shutdown[2 * QueueCount + 5] = d
  BY <1>4, <1>7, <1>8, <1>10
<1> QED BY <1>1, <1>8, <1>9, <1>10, <1>11

(***************************************************************************)
(* The inductive invariant.                                                *)
(***************************************************************************)

Busy == {"WAIT_CC_EN", "SHUTDOWN", "WAIT_RESET", "RESET"}

Program(b) ==
  CASE b = "WAIT_CC_EN" -> Enable
    [] b = "SHUTDOWN"   -> Shutdown
    [] b = "WAIT_RESET" -> Disable
    [] b = "RESET"      -> Reset

\* What the host can have written, given the turn and the status.  While the ready
\* bit is off nobody asks for a shutdown; while it is on and the host wants it on, the
\* controller is running, or about to, or it shuts down because it was asked to.
HostSound ==
  /\ ~link => cc.en = 0 /\ cc.shn = 0
  /\ reg.rdy = 0 /\ cc.en = 1 => cc.shn = 0
  /\ "shn" \in pending /\ cc.shn = 1 =>
       /\ reg.rdy = 1
       /\ todo = <<>> => status = "RUNNING"
       /\ todo # <<>> => branch = "WAIT_CC_EN"
  /\ reg.rdy = 1 /\ cc.en = 1 =>
       /\ pending \subseteq {"shn"}
       /\ \/ todo = <<>> /\ status = "RUNNING"
          \/ todo # <<>> /\ branch = "WAIT_CC_EN" /\ status = "WAIT_CC_EN"
          \/ /\ cc.shn = 1 /\ pending = {}
             /\ \/ todo = <<>> /\ status \in {"SHUTDOWN", "WAIT_RESET"}
                \/ todo # <<>> /\ branch \in {"WAIT_CC_EN", "SHUTDOWN"} /\ status = "SHUTDOWN"

\* The status that goes with the ready bit and with the turn.
StatusSound ==
  /\ reg.rdy = 1 => \/ status \in {"RUNNING", "SHUTDOWN", "WAIT_RESET", "RESET"}
                    \/ status = "WAIT_CC_EN" /\ todo # <<>> /\ branch = "WAIT_CC_EN"
  /\ reg.rdy = 0 => \/ status \in {"IDLE", "WAIT_CC_EN", "RESET"}
                    \/ status = "WAIT_RESET" /\ todo # <<>> /\ branch = "WAIT_RESET"
  /\ todo # <<>> =>
       /\ status # "RUNNING"
       /\ status = "SHUTDOWN" => branch \in {"WAIT_CC_EN", "SHUTDOWN"}
       /\ status = "WAIT_RESET" => branch = "WAIT_RESET"
  /\ reg.rdy = 0 /\ status = "WAIT_CC_EN" =>
       \/ cc.en = 1 /\ pending = {}
       \/ ~link /\ "link" \in pending

\* Nothing is left of the time before.
Quiet == sq = {} /\ cq = {} /\ reg.admin = 0 /\ reg.cacheEn = 0

BetweenSound ==
  todo = <<>> =>
    /\ reg.rdy = 0 => Quiet
    /\ reg.rdy = 1 => reg.admin = 1 \/ reg.shst = 2
    /\ status = "WAIT_RESET" => Quiet /\ reg.shst = 2

\* What holds when the first n writes of a branch are done.
EnableAt(n) ==
  /\ sq = {} /\ cq = {} /\ reg.cacheEn = 0
  /\ n = 0 => reg.admin = 0
  /\ n > 0 => reg.admin = 1
  /\ n < 2 => reg.rdy = 0 /\ (status = "WAIT_CC_EN" \/ (status = "RESET" /\ ~link))
  /\ n >= 2 => reg.rdy = 1

Cleared(k) ==
  /\ \A q \in cq : k < 2 * q + 1
  /\ \A q \in sq : k < 2 * q + 2

ShutdownAt(n) ==
  /\ reg.rdy = 1
  /\ Cleared(n - 1)
  /\ n >= 2 * QueueCount + 2 => reg.admin = 0
  /\ n >= 2 * QueueCount + 3 => reg.cacheEn = 0
  /\ n >= 2 * QueueCount + 4 => reg.shst = 2

DisableAt(n) ==
  /\ Quiet
  /\ n < 3 => reg.rdy = 1
  /\ n >= 3 => reg.rdy = 0

ResetAt(n) ==
  /\ Cleared(n)
  /\ n >= 2 * QueueCount + 1 => reg.cacheEn = 0
  /\ n >= 2 * QueueCount + 2 => reg.admin = 0
  /\ n >= 2 * QueueCount + 4 => reg.rdy = 0

\* All writes of the branch but the first n are left.
Left(n) ==
  /\ todo \in Seq(Steps) /\ n + Len(todo) = Len(Program(branch))
  /\ \A i \in 1..Len(todo) : todo[i] = Program(branch)[n + i]

Passed(n) ==
  /\ branch = "WAIT_CC_EN" => EnableAt(n)
  /\ branch = "SHUTDOWN" => ShutdownAt(n)
  /\ branch = "WAIT_RESET" => DisableAt(n)
  /\ branch = "RESET" => ResetAt(n)

TurnSound ==
  todo # <<>> => branch \in Busy /\ \E n \in Nat : Left(n) /\ Passed(n)

Sound == HostSound /\ StatusSound /\ BetweenSound

TaskInv == TypeOK /\ Sound /\ TurnSound

LEMMA ProgramFacts ==
  /\ Program("WAIT_CC_EN") = Enable /\ Program("SHUTDOWN") = Shutdown
  /\ Program("WAIT_RESET") = Disable /\ Program("RESET") = Reset
BY DEF Program

LEMMA Proceeds ==
  ASSUME todo # <<>>, NEW n \in Nat, Left(n), todo' = Tail(todo), branch' = branch
  PROVE  /\ Head(todo) = Program(branch)[n + 1] /\ n + 1 <= Len(Program(branch))
         /\ todo' = <<>> <=> n + 1 = Len(Program(branch))
         /\ Left(n + 1)'
<1>1. PICK k : k = Len(todo)
  OBVIOUS
<1>2. k \in Nat /\ k > 0 /\ Head(todo) = todo[1] /\ Tail(todo) \in Seq(Steps)
      /\ Len(Tail(todo)) = k - 1 /\ \A i \in 1..(k - 1) : Tail(todo)[i] = todo[i + 1]
  BY <1>1 DEF Left
<1>3. PICK p : p = Program(branch)
  OBVIOUS
<1>4. p = Program(branch)'
  BY <1>3
<1>5. n + k = Len(p) /\ \A i \in 1..k : todo[i] = p[n + i]
  BY <1>1, <1>3 DEF Left
<1>6. Head(todo) = p[n + 1] /\ n + 1 <= Len(p)
  BY <1>2, <1>5
<1>7. todo' = <<>> <=> n + 1 = Len(p)
  <2>1. todo' = <<>> <=> k - 1 = 0
    BY <1>2, EmptySeq
  <2> QED BY <1>2, <1>5, <2>1
<1>8. ASSUME NEW i \in 1..(k - 1) PROVE todo'[i] = p[(n + 1) + i]
  <2>1. i + 1 \in 1..k /\ n + (i + 1) = (n + 1) + i
    BY <1>2
  <2> QED BY <1>2, <1>5, <2>1
<1>9. todo' \in Seq(Steps) /\ Len(todo') = k - 1 /\ (n + 1) + (k - 1) = Len(p)
  BY <1>2, <1>5
<1>10. Left(n + 1)'
  BY <1>4, <1>8, <1>9 DEF Left
<1> QED BY <1>3, <1>6, <1>7, <1>10

\* What the next write of the branch does.
LEMMA Effect ==
  ASSUME TypeOK, todo # <<>>, WriteRegister \/ ClearQueue \/ WriteStatus,
         NEW w, NEW v, Head(todo) = Write(w, v)
  PROVE  /\ todo' = Tail(todo) /\ UNCHANGED <<branch, direct, cc, link, pending>>
         /\ w \in Registers => reg' = [reg EXCEPT ![w] = v] /\ UNCHANGED <<status, sq, cq, lost>>
         /\ w = "cq" => cq' = cq \ {v} /\ UNCHANGED <<status, reg, sq, lost>>
         /\ w = "sq" => sq' = sq \ {v} /\ UNCHANGED <<status, reg, cq, lost>>
         /\ w = "status" => status' = v /\ lost' \in BOOLEAN /\ UNCHANGED <<reg, sq, cq>>
<1>1. Head(todo).what = w /\ Head(todo).to = v
  BY DEF Write
<1>2. DOMAIN reg = Registers
  BY DEF TypeOK, Registers
<1>3. CASE WriteRegister
  BY <1>1, <1>2, <1>3 DEF WriteRegister, Registers, queueVars, hostVars
<1>4. CASE ClearQueue
  BY <1>1, <1>4 DEF ClearQueue, Registers, queueVars, hostVars
<1>5. CASE WriteStatus
  BY <1>1, <1>5 DEF WriteStatus, Registers, queueVars, hostVars, TypeOK
<1> QED BY <1>3, <1>4, <1>5

\* A turn goes on with its next write.
LEMMA GoesOn ==
  ASSUME NEW n \in Nat, Left(n)', branch' \in Busy, Passed(n)'
  PROVE  TurnSound'
BY DEF TurnSound

(***************************************************************************)
(* The turns of nvme_run, one lemma for each branch.                       *)
(***************************************************************************)

LEMMA EnableTurn ==
  ASSUME TaskInv, todo # <<>>, branch = "WAIT_CC_EN", WriteRegister \/ ClearQueue \/ WriteStatus
  PROVE  TaskInv'
<1>1. PICK n \in Nat : Left(n) /\ Passed(n)
  BY DEF TaskInv, TurnSound
<1>2. TypeOK /\ Sound /\ EnableAt(n)
  BY <1>1 DEF TaskInv, Passed
<1>3. /\ Program(branch) = Enable /\ Len(Enable) = 3 /\ Enable[1] = Write("admin", 1)
      /\ Enable[2] = Write("rdy", 1) /\ Enable[3] = Write("status", "RUNNING")
  BY ProgramFacts, EnableFacts
<1>4. todo' = Tail(todo) /\ UNCHANGED <<branch, direct, cc, link, pending>>
  BY DEF WriteRegister, ClearQueue, WriteStatus, hostVars, queueVars
<1>5. /\ Head(todo) = Enable[n + 1] /\ n + 1 <= 3 /\ (todo' = <<>> <=> n + 1 = 3)
      /\ Left(n + 1)'
  BY <1>1, <1>3, <1>4, Proceeds
<1>6. CASE n = 0
  <2>1. Head(todo) = Write("admin", 1) /\ todo' # <<>>
    BY <1>3, <1>5, <1>6
  <2>2. reg' = [reg EXCEPT !["admin"] = 1] /\ UNCHANGED <<status, sq, cq, lost>>
    BY <1>2, <2>1, Effect DEF Registers
  <2>3. TypeOK'
    BY <1>2, <1>4, <2>2 DEF TypeOK
  <2>4. reg'.rdy = reg.rdy /\ reg'.cacheEn = reg.cacheEn /\ reg'.admin = 1
    BY <1>2, <2>2 DEF TypeOK
  <2>5. Sound'
    BY <1>2, <1>4, <2>1, <2>2, <2>4 DEF Sound, HostSound, StatusSound, BetweenSound
  <2>6. Passed(n + 1)'
    BY <1>2, <1>4, <1>6, <2>2, <2>4 DEF Passed, EnableAt
  <2> QED BY <1>4, <1>5, <2>3, <2>5, <2>6, GoesOn DEF TaskInv, Busy
<1>7. CASE n = 1
  <2>1. Head(todo) = Write("rdy", 1) /\ todo' # <<>>
    BY <1>3, <1>5, <1>7
  <2>2. reg' = [reg EXCEPT !["rdy"] = 1] /\ UNCHANGED <<status, sq, cq, lost>>
    BY <1>2, <2>1, Effect DEF Registers
  <2>3. TypeOK'
    BY <1>2, <1>4, <2>2 DEF TypeOK
  <2>4. reg'.rdy = 1 /\ reg'.cacheEn = reg.cacheEn /\ reg'.admin = reg.admin /\ reg.rdy = 0
        /\ (status = "WAIT_CC_EN" \/ (status = "RESET" /\ ~link))
    BY <1>2, <1>7, <2>2 DEF TypeOK, EnableAt
  <2>5. Sound'
    BY <1>2, <1>4, <2>1, <2>2, <2>4 DEF Sound, HostSound, StatusSound, BetweenSound, TypeOK
  <2>6. Passed(n + 1)'
    BY <1>2, <1>4, <1>7, <2>2, <2>4 DEF Passed, EnableAt
  <2> QED BY <1>4, <1>5, <2>3, <2>5, <2>6, GoesOn DEF TaskInv, Busy
<1>8. CASE n = 2
  <2>1. Head(todo) = Write("status", "RUNNING") /\ todo' = <<>>
    BY <1>3, <1>5, <1>8
  <2>2. status' = "RUNNING" /\ lost' \in BOOLEAN /\ UNCHANGED <<reg, sq, cq>>
    BY <1>2, <2>1, Effect
  <2>3. TypeOK'
    BY <1>2, <1>4, <2>2 DEF TypeOK, Statuses
  <2>4. reg.rdy = 1 /\ reg.admin = 1
    BY <1>2, <1>8 DEF EnableAt
  <2>5. Sound'
    BY <1>2, <1>4, <2>1, <2>2, <2>4 DEF Sound, HostSound, StatusSound, BetweenSound, TypeOK
  <2> QED BY <2>1, <2>3, <2>5 DEF TaskInv, TurnSound
<1> QED BY <1>5, <1>6, <1>7, <1>8

LEMMA DisableTurn ==
  ASSUME TaskInv, todo # <<>>, branch = "WAIT_RESET", WriteRegister \/ ClearQueue \/ WriteStatus
  PROVE  TaskInv'
<1>1. PICK n \in Nat : Left(n) /\ Passed(n)
  BY DEF TaskInv, TurnSound
<1>2. TypeOK /\ Sound /\ DisableAt(n)
  BY <1>1 DEF TaskInv, Passed
<1>3. /\ Program(branch) = Disable /\ Len(Disable) = 4
      /\ Disable[1] = Write("cacheEn", 0) /\ Disable[2] = Write("shst", 0)
      /\ Disable[3] = Write("rdy", 0) /\ Disable[4] = Write("status", "IDLE")
  BY ProgramFacts, DisableFacts
<1>4. todo' = Tail(todo) /\ UNCHANGED <<branch, direct, cc, link, pending>>
  BY DEF WriteRegister, ClearQueue, WriteStatus, hostVars, queueVars
<1>5. /\ Head(todo) = Disable[n + 1] /\ n + 1 <= 4 /\ (todo' = <<>> <=> n + 1 = 4)
      /\ Left(n + 1)'
  BY <1>1, <1>3, <1>4, Proceeds
<1>6. CASE n = 0 \/ n = 1
  <2>1. PICK w \in {"cacheEn", "shst"} : Head(todo) = Write(w, 0)
    BY <1>3, <1>5, <1>6
  <2>2. reg' = [reg EXCEPT ![w] = 0] /\ UNCHANGED <<status, sq, cq, lost>> /\ todo' # <<>>
    BY <1>2, <1>5, <1>6, <2>1, Effect DEF Registers
  <2>3. TypeOK'
    BY <1>2, <1>4, <2>2 DEF TypeOK
  <2>4. reg'.rdy = reg.rdy /\ reg'.admin = reg.admin /\ (reg.cacheEn = 0 => reg'.cacheEn = 0)
    BY <1>2, <2>2 DEF TypeOK
  <2>5. Sound'
    BY <1>2, <1>4, <2>2, <2>4 DEF Sound, HostSound, StatusSound, BetweenSound
  <2>6. Passed(n + 1)'
    BY <1>2, <1>4, <1>6, <2>2, <2>4 DEF Passed, DisableAt, Quiet
  <2> QED BY <1>4, <1>5, <2>3, <2>5, <2>6, GoesOn DEF TaskInv, Busy
<1>7. CASE n = 2
  <2>1. Head(todo) = Write("rdy", 0) /\ todo' # <<>>
    BY <1>3, <1>5, <1>7
  <2>2. reg' = [reg EXCEPT !["rdy"] = 0] /\ UNCHANGED <<status, sq, cq, lost>>
    BY <1>2, <2>1, Effect DEF Registers
  <2>3. TypeOK'
    BY <1>2, <1>4, <2>2 DEF TypeOK
  <2>4. /\ reg'.rdy = 0 /\ reg'.cacheEn = reg.cacheEn /\ reg'.admin = reg.admin /\ reg.rdy = 1
    BY <1>2, <1>7, <2>2 DEF TypeOK, DisableAt
  <2>5. Sound'
    BY <1>2, <1>4, <2>1, <2>2, <2>4 DEF Sound, HostSound, StatusSound, BetweenSound, TypeOK
  <2>6. Passed(n + 1)'
    BY <1>2, <1>4, <1>7, <2>2, <2>4 DEF Passed, DisableAt, Quiet
  <2> QED BY <1>4, <1>5, <2>3, <2>5, <2>6, GoesOn DEF TaskInv, Busy
<1>8. CASE n = 3
  <2>1. Head(todo) = Write("status", "IDLE") /\ todo' = <<>>
    BY <1>3, <1>5, <1>8
  <2>2. status' = "IDLE" /\ lost' \in BOOLEAN /\ UNCHANGED <<reg, sq, cq>>
    BY <1>2, <2>1, Effect
  <2>3. TypeOK'
    BY <1>2, <1>4, <2>2 DEF TypeOK, Statuses
  <2>4. reg.rdy = 0 /\ Quiet'
    BY <1>2, <1>8, <2>2 DEF DisableAt, Quiet
  <2>5. Sound'
    BY <1>2, <1>4, <2>1, <2>2, <2>4 DEF Sound, HostSound, StatusSound, BetweenSound, TypeOK
  <2> QED BY <2>1, <2>3, <2>5 DEF TaskInv, TurnSound
<1> QED BY <1>5, <1>6, <1>7, <1>8

\* The k-th clear of a queue is done, and all are after 2 * QueueCount.
LEMMA ClearsNext ==
  ASSUME TypeOK, NEW k \in Int, Cleared(k), NEW q \in Queues,
         \/ k = 2 * q /\ cq' = cq \ {q} /\ sq' = sq
         \/ k = 2 * q + 1 /\ sq' = sq \ {q} /\ cq' = cq
  PROVE  Cleared(k + 1)'
<1>1. Queues \subseteq Int /\ cq \subseteq Queues /\ sq \subseteq Queues
  BY CountFacts DEF TypeOK, Queues
<1>2. q \in Int
  BY <1>1
<1>3. ASSUME NEW x \in cq' PROVE k + 1 < 2 * x + 1
  <2>1. x \in cq /\ x \in Int
    BY <1>1
  <2>2. k < 2 * x + 1
    BY <2>1 DEF Cleared
  <2>3. (k = 2 * q /\ x # q) \/ k = 2 * q + 1
    OBVIOUS
  <2> QED BY <1>2, <2>1, <2>2, <2>3
<1>4. ASSUME NEW x \in sq' PROVE k + 1 < 2 * x + 2
  <2>1. x \in sq /\ x \in Int
    BY <1>1
  <2>2. k < 2 * x + 2
    BY <2>1 DEF Cleared
  <2>3. k = 2 * q \/ (k = 2 * q + 1 /\ x # q)
    OBVIOUS
  <2> QED BY <1>2, <2>1, <2>2, <2>3
<1> QED BY <1>3, <1>4 DEF Cleared

LEMMA AllCleared ==
  ASSUME TypeOK, NEW k \in Int, Cleared(k), k >= 2 * QueueCount
  PROVE  cq = {} /\ sq = {}
<1>1. ASSUME NEW x \in Queues PROVE ~(k < 2 * x + 1) /\ ~(k < 2 * x + 2)
  <2>1. x \in Int /\ x <= QueueCount - 1 /\ QueueCount \in Int
    BY CountFacts DEF Queues
  <2> QED BY <2>1
<1> QED BY <1>1 DEF Cleared, TypeOK

\* The queue of the k-th clear.
LEMMA WhichQueue ==
  ASSUME NEW k \in Nat, k < 2 * QueueCount
  PROVE  \E q \in Queues : k = 2 * q \/ k = 2 * q + 1
<1>1. k + 1 \in 1..(2 * QueueCount)
  BY CountFacts
<1>2. PICK q \in Queues : k + 1 = 2 * q + 1 \/ k + 1 = 2 * q + 2
  BY <1>1, ClearFacts
<1>3. q \in Int
  BY DEF Queues
<1> QED BY <1>2, <1>3

LEMMA ResetTurn ==
  ASSUME TaskInv, todo # <<>>, branch = "RESET", WriteRegister \/ ClearQueue \/ WriteStatus
  PROVE  TaskInv'
<1>1. PICK n \in Nat : Left(n) /\ Passed(n)
  BY DEF TaskInv, TurnSound
<1>2. TypeOK /\ Sound /\ ResetAt(n)
  BY <1>1 DEF TaskInv, Passed
<1>3. PICK c : c = 2 * QueueCount /\ c \in Nat
  BY CountFacts
<1>4. /\ Program(branch) = Reset /\ Len(Reset) = c + 5
      /\ Reset[c + 1] = Write("cacheEn", 0) /\ Reset[c + 2] = Write("admin", 0)
      /\ Reset[c + 3] = Write("shst", 0) /\ Reset[c + 4] = Write("rdy", 0)
      /\ Reset[c + 5] = Write("status", "IDLE")
  BY <1>3, ProgramFacts, ResetFacts
<1>5. todo' = Tail(todo) /\ UNCHANGED <<branch, direct, cc, link, pending>>
  BY DEF WriteRegister, ClearQueue, WriteStatus, hostVars, queueVars
<1>6. /\ Head(todo) = Reset[n + 1] /\ n + 1 <= c + 5 /\ (todo' = <<>> <=> n + 1 = c + 5)
      /\ Left(n + 1)'
  BY <1>1, <1>4, <1>5, Proceeds
<1>7. CASE n < c
  <2>1. PICK q \in Queues : n = 2 * q \/ n = 2 * q + 1
    BY <1>3, <1>7, WhichQueue
  <2>2. q \in Int /\ todo' # <<>>
    BY <1>3, <1>6, <1>7, CountFacts DEF Queues
  <2>3. /\ n = 2 * q => Head(todo) = Write("cq", q)
        /\ n = 2 * q + 1 => Head(todo) = Write("sq", q)
    <3>1. n = 2 * q => Head(todo) = Reset[2 * q + 1]
      BY <1>6
    <3>2. n = 2 * q + 1 => Head(todo) = Reset[2 * q + 2]
      <4>1. n = 2 * q + 1 => n + 1 = 2 * q + 2
        BY <2>2
      <4> QED BY <1>6, <4>1
    <3> QED BY <2>1, <3>1, <3>2, ResetFacts
  <2>4. /\ UNCHANGED <<status, reg, lost>>
        /\ \/ n = 2 * q /\ cq' = cq \ {q} /\ sq' = sq
           \/ n = 2 * q + 1 /\ sq' = sq \ {q} /\ cq' = cq
    BY <1>2, <2>1, <2>3, Effect
  <2>5. TypeOK'
    BY <1>2, <1>5, <2>4 DEF TypeOK
  <2>6. Cleared(n + 1)'
    BY <1>2, <2>4, ClearsNext DEF ResetAt
  <2>7. Sound'
    BY <1>2, <1>5, <2>2, <2>4 DEF Sound, HostSound, StatusSound, BetweenSound
  <2>8. Passed(n + 1)'
    BY <1>3, <1>5, <1>7, <2>6 DEF Passed, ResetAt
  <2> QED BY <1>5, <1>6, <2>5, <2>7, <2>8, GoesOn DEF TaskInv, Busy
<1>8. CASE n >= c
  <2>1. cq = {} /\ sq = {}
    BY <1>2, <1>3, <1>8, AllCleared DEF ResetAt
  <2>2. CASE n < c + 4
    <3>1. PICK w \in Registers : Head(todo) = Write(w, 0)
                                 /\ (n = c => w = "cacheEn") /\ (n = c + 1 => w = "admin")
                                 /\ (n = c + 2 => w = "shst") /\ (n = c + 3 => w = "rdy")
      <4>1. n = c \/ n = c + 1 \/ n = c + 2 \/ n = c + 3
        BY <1>3, <1>8, <2>2
      <4> QED BY <1>3, <1>4, <1>6, <4>1 DEF Registers
    <3>2. reg' = [reg EXCEPT ![w] = 0] /\ UNCHANGED <<status, sq, cq, lost>> /\ todo' # <<>>
      BY <1>2, <1>3, <1>6, <2>2, <3>1, Effect DEF Registers
    <3>3. TypeOK'
      BY <1>2, <1>5, <3>2 DEF TypeOK, Registers
    <3>4. /\ reg'.rdy \in {reg.rdy, 0} /\ reg'[w] = 0
          /\ \A x \in Registers : x # w => reg'[x] = reg[x]
      BY <1>2, <3>1, <3>2 DEF TypeOK, Registers
    <3>5. Sound'
      BY <1>2, <1>5, <3>2, <3>4 DEF Sound, HostSound, StatusSound, BetweenSound, TypeOK
    <3>6. ResetAt(n + 1)'
      <4>1. Cleared(n + 1)'
        BY <2>1, <3>2 DEF Cleared
      <4>2. n + 1 >= c + 1 => reg'.cacheEn = 0
        BY <1>2, <1>3, <1>8, <3>1, <3>4 DEF ResetAt, Registers
      <4>3. n + 1 >= c + 2 => reg'.admin = 0
        BY <1>2, <1>3, <1>8, <3>1, <3>4 DEF ResetAt, Registers
      <4>4. n + 1 >= c + 4 => reg'.rdy = 0
        BY <1>2, <1>3, <1>8, <2>2, <3>1, <3>4 DEF ResetAt, Registers
      <4> QED BY <1>3, <4>1, <4>2, <4>3, <4>4 DEF ResetAt
    <3> QED BY <1>5, <1>6, <3>3, <3>5, <3>6, GoesOn DEF TaskInv, Busy, Passed
  <2>3. CASE n = c + 4
    <3>1. Head(todo) = Write("status", "IDLE") /\ todo' = <<>>
      BY <1>3, <1>4, <1>6, <2>3
    <3>2. status' = "IDLE" /\ lost' \in BOOLEAN /\ UNCHANGED <<reg, sq, cq>>
      BY <1>2, <3>1, Effect
    <3>3. TypeOK'
      BY <1>2, <1>5, <3>2 DEF TypeOK, Statuses
    <3>4. reg.rdy = 0 /\ Quiet'
      BY <1>2, <1>3, <2>1, <2>3, <3>2 DEF ResetAt, Quiet
    <3>5. Sound'
      BY <1>2, <1>5, <3>1, <3>2, <3>4 DEF Sound, HostSound, StatusSound, BetweenSound, TypeOK
    <3> QED BY <3>1, <3>3, <3>5 DEF TaskInv, TurnSound
  <2> QED BY <1>3, <1>6, <2>2, <2>3
<1> QED BY <1>3, <1>7, <1>8

LEMMA ShutdownTurn ==
  ASSUME TaskInv, todo # <<>>, branch = "SHUTDOWN", WriteRegister \/ ClearQueue \/ WriteStatus
  PROVE  TaskInv'
<1>1. PICK n \in Nat : Left(n) /\ Passed(n)
  BY DEF TaskInv, TurnSound
<1>2. TypeOK /\ Sound /\ ShutdownAt(n)
  BY <1>1 DEF TaskInv, Passed
<1>3. PICK c : c = 2 * QueueCount /\ c \in Nat
  BY CountFacts
<1>4. /\ Program(branch) = Shutdown /\ Len(Shutdown) = c + 5
      /\ Shutdown[1] = Write("shst", 1)
      /\ Shutdown[c + 2] = Write("admin", 0) /\ Shutdown[c + 3] = Write("cacheEn", 0)
      /\ Shutdown[c + 4] = Write("shst", 2) /\ Shutdown[c + 5] = Write("status", "WAIT_RESET")
  BY <1>3, ProgramFacts, ShutdownFacts
<1>5. todo' = Tail(todo) /\ UNCHANGED <<branch, direct, cc, link, pending>>
  BY DEF WriteRegister, ClearQueue, WriteStatus, hostVars, queueVars
<1>6. /\ Head(todo) = Shutdown[n + 1] /\ n + 1 <= c + 5 /\ (todo' = <<>> <=> n + 1 = c + 5)
      /\ Left(n + 1)'
  BY <1>1, <1>4, <1>5, Proceeds
<1>7. (n + 1) - 1 = (n - 1) + 1 /\ n - 1 \in Int
  OBVIOUS
<1>8. CASE n = 0
  <2>1. Head(todo) = Write("shst", 1) /\ todo' # <<>>
    BY <1>3, <1>4, <1>6, <1>8
  <2>2. reg' = [reg EXCEPT !["shst"] = 1] /\ UNCHANGED <<status, sq, cq, lost>>
    BY <1>2, <2>1, Effect DEF Registers
  <2>3. TypeOK'
    BY <1>2, <1>5, <2>2 DEF TypeOK
  <2>4. reg'.rdy = reg.rdy
    BY <1>2, <2>2 DEF TypeOK
  <2>5. Sound'
    BY <1>2, <1>5, <2>1, <2>2, <2>4 DEF Sound, HostSound, StatusSound, BetweenSound
  <2>6. Cleared((n + 1) - 1)'
    <3>1. ASSUME NEW x \in Queues PROVE (n + 1) - 1 < 2 * x + 1 /\ (n + 1) - 1 < 2 * x + 2
      BY <1>8, CountFacts DEF Queues
    <3> QED BY <1>2, <2>2, <3>1 DEF Cleared, TypeOK
  <2>7. ShutdownAt(n + 1)'
    <3>1. ~(n + 1 >= 2 * QueueCount + 2)
      BY <1>8, CountFacts
    <3>2. ~(n + 1 >= 2 * QueueCount + 3) /\ ~(n + 1 >= 2 * QueueCount + 4)
      BY <1>8, CountFacts
    <3> QED BY <1>2, <2>4, <2>6, <3>1, <3>2 DEF ShutdownAt
  <2> QED BY <1>5, <1>6, <2>3, <2>5, <2>7, GoesOn DEF TaskInv, Busy, Passed
<1>9. CASE n > 0 /\ n < c + 1
  <2>1. n - 1 \in Nat /\ n - 1 < 2 * QueueCount
    BY <1>3, <1>9
  <2>2. PICK q \in Queues : n - 1 = 2 * q \/ n - 1 = 2 * q + 1
    BY <2>1, WhichQueue
  <2>3. q \in Int /\ todo' # <<>>
    BY <1>3, <1>6, <1>9, CountFacts DEF Queues
  <2>4. /\ n - 1 = 2 * q => Head(todo) = Write("cq", q)
        /\ n - 1 = 2 * q + 1 => Head(todo) = Write("sq", q)
    <3>1. n - 1 = 2 * q => n + 1 = 2 * q + 2
      BY <2>3
    <3>2. n - 1 = 2 * q + 1 => n + 1 = 2 * q + 3
      BY <2>3
    <3>3. Shutdown[2 * q + 2] = Write("cq", q) /\ Shutdown[2 * q + 3] = Write("sq", q)
      BY ShutdownFacts
    <3> QED BY <1>6, <3>1, <3>2, <3>3
  <2>5. /\ UNCHANGED <<status, reg, lost>>
        /\ \/ n - 1 = 2 * q /\ cq' = cq \ {q} /\ sq' = sq
           \/ n - 1 = 2 * q + 1 /\ sq' = sq \ {q} /\ cq' = cq
    BY <1>2, <2>2, <2>4, Effect
  <2>6. TypeOK'
    BY <1>2, <1>5, <2>5 DEF TypeOK
  <2>7. Cleared((n + 1) - 1)'
    <3>1. Cleared((n - 1) + 1)'
      BY <1>2, <1>7, <2>5, ClearsNext DEF ShutdownAt
    <3> QED BY <1>7, <3>1
  <2>8. Sound'
    BY <1>2, <1>5, <2>3, <2>5 DEF Sound, HostSound, StatusSound, BetweenSound
  <2>9. ShutdownAt(n + 1)'
    <3>1. ~(n + 1 >= c + 3) /\ ~(n + 1 >= c + 4) /\ ~(n + 1 >= c + 2)
      BY <1>3, <1>9
    <3> QED BY <1>2, <1>3, <2>5, <2>7, <3>1 DEF ShutdownAt
  <2> QED BY <1>5, <1>6, <2>6, <2>8, <2>9, GoesOn DEF TaskInv, Busy, Passed
<1>10. CASE n >= c + 1
  <2>1. cq = {} /\ sq = {}
    <3>1. n - 1 >= 2 * QueueCount
      BY <1>3, <1>10
    <3> QED BY <1>2, <1>7, <3>1, AllCleared DEF ShutdownAt
  <2>2. CASE n < c + 4
    <3>1. PICK w \in Registers, v \in {0, 2} :
            /\ Head(todo) = Write(w, v)
            /\ n = c + 1 => w = "admin" /\ v = 0
            /\ n = c + 2 => w = "cacheEn" /\ v = 0
            /\ n = c + 3 => w = "shst" /\ v = 2
            /\ w # "shst" => v = 0
            /\ w # "rdy"
      <4>1. n = c + 1 \/ n = c + 2 \/ n = c + 3
        BY <1>3, <1>10, <2>2
      <4>2. (c + 1) + 1 = c + 2 /\ (c + 2) + 1 = c + 3 /\ (c + 3) + 1 = c + 4
        BY <1>3
      <4> QED BY <1>3, <1>4, <1>6, <4>1, <4>2 DEF Registers
    <3>2. reg' = [reg EXCEPT ![w] = v] /\ UNCHANGED <<status, sq, cq, lost>> /\ todo' # <<>>
      BY <1>2, <1>3, <1>6, <2>2, <3>1, Effect DEF Registers
    <3>3. TypeOK'
      BY <1>2, <1>5, <3>1, <3>2 DEF TypeOK, Registers
    <3>4. /\ reg'.rdy = reg.rdy /\ reg'[w] = v
          /\ \A x \in Registers : x # w => reg'[x] = reg[x]
      BY <1>2, <3>1, <3>2 DEF TypeOK, Registers
    <3>5. Sound'
      BY <1>2, <1>5, <3>2, <3>4 DEF Sound, HostSound, StatusSound, BetweenSound, TypeOK
    <3>6. ShutdownAt(n + 1)'
      <4>1. Cleared((n + 1) - 1)'
        BY <2>1, <3>2 DEF Cleared
      <4>2. n + 1 >= c + 2 => reg'.admin = 0
        BY <1>2, <1>3, <1>10, <3>1, <3>4 DEF ShutdownAt, Registers
      <4>3. n + 1 >= c + 3 => reg'.cacheEn = 0
        BY <1>2, <1>3, <1>10, <3>1, <3>4 DEF ShutdownAt, Registers
      <4>4. n + 1 >= c + 4 => reg'.shst = 2
        BY <1>2, <1>3, <1>10, <2>2, <3>1, <3>4 DEF ShutdownAt, Registers
      <4>5. reg'.rdy = 1
        BY <1>2, <3>4 DEF ShutdownAt
      <4> QED BY <1>3, <4>1, <4>2, <4>3, <4>4, <4>5 DEF ShutdownAt
    <3> QED BY <1>5, <1>6, <3>3, <3>5, <3>6, GoesOn DEF TaskInv, Busy, Passed
  <2>3. CASE n = c + 4
    <3>1. Head(todo) = Write("status", "WAIT_RESET") /\ todo' = <<>>
      <4>1. (c + 4) + 1 = c + 5
        BY <1>3
      <4> QED BY <1>3, <1>4, <1>6, <2>3, <4>1
    <3>2. status' = "WAIT_RESET" /\ lost' \in BOOLEAN /\ UNCHANGED <<reg, sq, cq>>
      BY <1>2, <3>1, Effect
    <3>3. TypeOK'
      BY <1>2, <1>5, <3>2 DEF TypeOK, Statuses
    <3>4. reg.rdy = 1 /\ reg.shst = 2 /\ Quiet'
      BY <1>2, <1>3, <2>1, <2>3, <3>2 DEF ShutdownAt, Quiet
    <3>5. Sound'
      BY <1>2, <1>5, <3>1, <3>2, <3>4 DEF Sound, HostSound, StatusSound, BetweenSound, TypeOK
    <3> QED BY <3>1, <3>3, <3>5 DEF TaskInv, TurnSound
  <2> QED BY <1>3, <1>6, <1>10, <2>2, <2>3
<1> QED BY <1>3, <1>8, <1>9, <1>10

LEMMA TurnPreserves ==
  ASSUME TaskInv, todo # <<>>, WriteRegister \/ ClearQueue \/ WriteStatus
  PROVE  TaskInv'
<1>1. branch \in Busy
  BY DEF TaskInv, TurnSound
<1> QED BY <1>1, EnableTurn, ShutdownTurn, DisableTurn, ResetTurn DEF Busy

\* A turn starts with all its writes.
LEMMA LookPreserves ==
  ASSUME TaskInv, Look
  PROVE  TaskInv'
<1>1. /\ todo = <<>> /\ branch' = status /\ status \in Busy
      /\ UNCHANGED <<status, direct, reg, sq, cq, cc, link, pending, lost>>
      /\ status = "WAIT_CC_EN" => cc.en = 1
      /\ status = "SHUTDOWN" => cc.shn # 0
      /\ status = "WAIT_RESET" => cc.en = 0
      /\ todo' = Program(status)
  BY ProgramFacts DEF Look, Between, Busy, queueVars, hostVars
<1>2. Program(status) \in Seq(Steps) /\ Program(status) # <<>>
  <2>1. Program(status) \in Seq(Steps) /\ Len(Program(status)) # 0
    <3>1. CASE status = "WAIT_CC_EN"
      BY <3>1, ProgramFacts, EnableFacts
    <3>2. CASE status = "SHUTDOWN"
      BY <3>2, ProgramFacts, ShutdownFacts, CountFacts
    <3>3. CASE status = "WAIT_RESET"
      BY <3>3, ProgramFacts, DisableFacts
    <3>4. CASE status = "RESET"
      BY <3>4, ProgramFacts, ResetFacts, CountFacts
    <3> QED BY <1>1, <3>1, <3>2, <3>3, <3>4 DEF Busy
  <2> QED BY <2>1, EmptySeq
<1>3. Left(0)'
  <2>1. \A i \in 1..Len(Program(status)) : Program(status)[i] = Program(status)[0 + i]
    OBVIOUS
  <2>2. 0 + Len(Program(status)) = Len(Program(status))
    BY <1>2
  <2>3. Program(branch)' = Program(status)
    BY <1>1
  <2> QED BY <1>1, <1>2, <2>1, <2>2, <2>3 DEF Left
<1>4. TypeOK /\ Sound
  BY DEF TaskInv
<1>5. TypeOK'
  BY <1>1, <1>4 DEF TypeOK
<1>6. Sound'
  <2>1. todo' # <<>>
    BY <1>1, <1>2
  <2>2. HostSound /\ StatusSound
    BY <1>4 DEF Sound
  <2>3. HostSound'
    BY <1>1, <2>1, <2>2 DEF HostSound, Busy
  <2>4. StatusSound'
    BY <1>1, <2>1, <2>2 DEF StatusSound, Busy
  <2>5. BetweenSound'
    BY <2>1 DEF BetweenSound
  <2> QED BY <2>3, <2>4, <2>5 DEF Sound
<1>7. Passed(0)'
  <2>1. CASE status = "WAIT_CC_EN"
    BY <1>1, <1>4, <2>1 DEF Passed, EnableAt, Sound, StatusSound, BetweenSound, Quiet, TypeOK
  <2>2. CASE status = "SHUTDOWN"
    <3>1. ASSUME NEW x \in Queues PROVE 0 - 1 < 2 * x + 1 /\ 0 - 1 < 2 * x + 2
      BY CountFacts DEF Queues
    <3>2. /\ ~(0 >= 2 * QueueCount + 2) /\ ~(0 >= 2 * QueueCount + 3)
          /\ ~(0 >= 2 * QueueCount + 4)
      BY CountFacts
    <3>3. Cleared(0 - 1)'
      BY <1>1, <1>4, <3>1 DEF Cleared, TypeOK
    <3>4. reg.rdy = 1
      BY <1>1, <1>4, <2>2 DEF Sound, StatusSound, TypeOK
    <3> QED BY <1>1, <2>2, <3>2, <3>3, <3>4 DEF Passed, ShutdownAt
  <2>3. CASE status = "WAIT_RESET"
    BY <1>1, <1>4, <2>3 DEF Passed, DisableAt, Sound, StatusSound, BetweenSound, Quiet, TypeOK
  <2>4. CASE status = "RESET"
    <3>1. ASSUME NEW x \in Queues PROVE 0 < 2 * x + 1 /\ 0 < 2 * x + 2
      BY CountFacts DEF Queues
    <3>2. /\ ~(0 >= 2 * QueueCount + 1) /\ ~(0 >= 2 * QueueCount + 2)
          /\ ~(0 >= 2 * QueueCount + 4)
      BY CountFacts
    <3>3. Cleared(0)'
      BY <1>1, <1>4, <3>1 DEF Cleared, TypeOK
    <3> QED BY <1>1, <2>4, <3>2, <3>3 DEF Passed, ResetAt
  <2> QED BY <1>1, <2>1, <2>2, <2>3, <2>4 DEF Busy
<1>8. branch' \in Busy
  BY <1>1
<1> QED BY <1>3, <1>5, <1>6, <1>7, <1>8, GoesOn DEF TaskInv

(***************************************************************************)
(* The handler of the interrupt, the commands and the host.                *)
(***************************************************************************)

\* Steps that leave the turn and the registers alone.
LEMMA TurnStays ==
  ASSUME TurnSound, UNCHANGED <<branch, todo, reg, sq, cq>>,
         todo # <<>> /\ reg.rdy = 0 /\ branch = "WAIT_CC_EN"
           /\ (status = "WAIT_CC_EN" \/ (status = "RESET" /\ ~link)) =>
              status' = "WAIT_CC_EN" \/ (status' = "RESET" /\ ~link')
  PROVE  TurnSound'
<1> SUFFICES ASSUME todo # <<>> PROVE TurnSound'
  BY DEF TurnSound
<1>1. PICK n \in Nat : Left(n) /\ Passed(n)
  BY DEF TurnSound
<1>2. branch' \in Busy
  BY DEF TurnSound
<1>3. Left(n)'
  <2>1. Program(branch)' = Program(branch)
    OBVIOUS
  <2> QED BY <1>1, <2>1 DEF Left
<1>4. Passed(n)'
  <2>1. branch' = "WAIT_CC_EN" => EnableAt(n)'
    BY <1>1 DEF Passed, EnableAt
  <2>2. branch' = "SHUTDOWN" => ShutdownAt(n)'
    BY <1>1 DEF Passed, ShutdownAt, Cleared
  <2>3. branch' = "WAIT_RESET" => DisableAt(n)'
    BY <1>1 DEF Passed, DisableAt, Quiet
  <2>4. branch' = "RESET" => ResetAt(n)'
    BY <1>1 DEF Passed, ResetAt, Cleared
  <2> QED BY <2>1, <2>2, <2>3, <2>4 DEF Passed
<1> QED BY <1>2, <1>3, <1>4, GoesOn

LEMMA HandlerPreserves ==
  ASSUME TaskInv, dev_irq_handler
  PROVE  TaskInv'
<1>1. TypeOK /\ HostSound /\ StatusSound /\ BetweenSound /\ TurnSound
  BY DEF TaskInv, Sound
<1>2. /\ pending # {} /\ pending' = {} /\ lost' \in BOOLEAN
      /\ UNCHANGED <<branch, todo, direct, reg, sq, cq, cc, link>>
  BY <1>1 DEF dev_irq_handler, taskVars, queueVars, hostVars, TypeOK
<1>3. status' = IF "shn" \in pending /\ cc.shn = 1 THEN "SHUTDOWN"
                ELSE IF "en" \in pending THEN IF cc.en = 1 THEN "WAIT_CC_EN" ELSE "RESET"
                ELSE IF "link" \in pending /\ ~link THEN "RESET" ELSE status
  BY DEF dev_irq_handler, ShutdownStatus, EnableStatus, LinkStatus
<1>4. TypeOK'
  BY <1>1, <1>2, <1>3 DEF TypeOK, Statuses
<1>5. HostSound'
  BY <1>1, <1>2, <1>3 DEF HostSound, StatusSound, TypeOK
<1>6. StatusSound'
  BY <1>1, <1>2, <1>3 DEF HostSound, StatusSound, TypeOK
<1>7. BetweenSound'
  BY <1>1, <1>2, <1>3 DEF BetweenSound, Quiet
<1>8. TurnSound'
  <2>1. todo # <<>> /\ reg.rdy = 0 /\ branch = "WAIT_CC_EN"
          /\ (status = "WAIT_CC_EN" \/ (status = "RESET" /\ ~link)) =>
             status' = "WAIT_CC_EN" \/ (status' = "RESET" /\ ~link')
    BY <1>1, <1>2, <1>3 DEF HostSound, StatusSound, TypeOK
  <2> QED BY <1>1, <1>2, <2>1, TurnStays
<1> QED BY <1>4, <1>5, <1>6, <1>7, <1>8 DEF TaskInv, Sound

LEMMA CommandsPreserve ==
  ASSUME TaskInv, Commands \/ DirectTransferEnds
  PROVE  TaskInv'
<1>1. TypeOK /\ HostSound /\ StatusSound /\ BetweenSound /\ TurnSound
  BY DEF TaskInv, Sound
<1>2. CASE DirectTransferEnds
  <2>1. UNCHANGED <<status, branch, todo, reg, sq, cq, cc, link, pending, lost>>
    BY <1>2 DEF DirectTransferEnds, queueVars, hostVars
  <2>2. TypeOK'
    BY <1>1, <1>2, <2>1 DEF TypeOK, DirectTransferEnds
  <2>3. HostSound' /\ StatusSound' /\ BetweenSound'
    BY <1>1, <2>1 DEF HostSound, StatusSound, BetweenSound, Quiet
  <2>4. TurnSound'
    BY <1>1, <2>1, TurnStays
  <2> QED BY <2>2, <2>3, <2>4 DEF TaskInv, Sound
<1>3. CASE Commands
  <2>1. /\ UNCHANGED <<status, branch, todo, cc, link, pending, lost>>
        /\ todo = <<>> /\ status = "RUNNING" /\ reg.rdy = 1 /\ reg.admin = 1
    BY <1>3 DEF Commands, Fetched, Between, queueVars, hostVars, taskVars, handle_create_io_cq,
         handle_create_io_sq, handle_delete_io_sq, handle_delete_io_cq, handle_set_features,
         handle_identify
  <2>2. TypeOK' /\ reg'.rdy = 1 /\ reg'.admin = 1
    <3>1. CASE handle_create_io_cq \/ handle_create_io_sq
               \/ handle_delete_io_sq \/ handle_delete_io_cq
      <4>1. sq' \subseteq Queues /\ cq' \subseteq Queues /\ UNCHANGED <<reg, direct>>
        BY <1>1, <3>1 DEF TypeOK, handle_create_io_cq, handle_create_io_sq,
             handle_delete_io_sq, handle_delete_io_cq, taskVars
      <4> QED BY <1>1, <2>1, <4>1 DEF TypeOK
    <3>2. CASE handle_set_features
      BY <1>1, <2>1, <3>2 DEF TypeOK, handle_set_features, taskVars, queueVars
    <3>3. CASE handle_identify
      BY <1>1, <2>1, <3>3 DEF TypeOK, handle_identify, queueVars
    <3> QED BY <1>3, <3>1, <3>2, <3>3 DEF Commands
  <2>3. HostSound' /\ StatusSound' /\ BetweenSound'
    BY <1>1, <2>1, <2>2 DEF HostSound, StatusSound, BetweenSound
  <2>4. TurnSound'
    BY <2>1 DEF TurnSound
  <2> QED BY <2>2, <2>3, <2>4 DEF TaskInv, Sound
<1> QED BY <1>2, <1>3

LEMMA HostPreserves ==
  ASSUME Patient, TaskInv, Host
  PROVE  TaskInv'
<1>1. TypeOK /\ HostSound /\ StatusSound /\ BetweenSound /\ TurnSound
  BY DEF TaskInv, Sound
<1>2. UNCHANGED <<status, branch, todo, direct, reg, sq, cq, lost>>
  BY DEF Host, HostEnables, HostDisables, HostShutsDown, LinkGoesDown, LinkComesUp,
     HostWrites, taskVars, queueVars
<1>3. BetweenSound'
  BY <1>1, <1>2 DEF BetweenSound, Quiet
<1>4. CASE HostEnables
  <2>1. /\ link /\ link' /\ cc.en = 0 /\ reg.rdy = 0 /\ cc' = [en |-> 1, shn |-> 0]
        /\ pending' = pending \union {f \in {"en", "shn"} : cc[f] # cc'[f]}
    BY <1>1, <1>4 DEF HostEnables, HostWrites, TypeOK
  <2>2. TypeOK'
    <3>1. cc' \in [en : {0, 1}, shn : 0..2]
      BY <2>1
    <3>2. pending' \subseteq {"link", "en", "shn"} /\ link' \in BOOLEAN
      BY <1>1, <2>1 DEF TypeOK
    <3> QED BY <1>1, <1>2, <3>1, <3>2 DEF TypeOK
  <2>3. HostSound' /\ StatusSound'
    BY <1>1, <1>2, <2>1 DEF HostSound, StatusSound, TypeOK
  <2>4. TurnSound'
    BY <1>1, <1>2, <2>1, TurnStays
  <2> QED BY <1>3, <2>2, <2>3, <2>4 DEF TaskInv, Sound
<1>5. CASE HostDisables
  <2>1. PICK shn \in {0, cc.shn} :
          /\ link' = link /\ cc.en = 1 /\ reg.rdy = 1 /\ cc' = [en |-> 0, shn |-> shn]
          /\ pending' = pending \union {f \in {"en", "shn"} : cc[f] # cc'[f]}
    BY <1>5 DEF HostDisables, HostWrites
  <2>2. TypeOK'
    <3>1. cc' \in [en : {0, 1}, shn : 0..2]
      BY <1>1, <2>1 DEF TypeOK
    <3>2. pending' \subseteq {"link", "en", "shn"} /\ link' \in BOOLEAN
      BY <1>1, <2>1 DEF TypeOK
    <3> QED BY <1>1, <1>2, <3>1, <3>2 DEF TypeOK
  <2>3. HostSound' /\ StatusSound'
    BY <1>1, <1>2, <2>1 DEF HostSound, StatusSound, TypeOK
  <2>4. TurnSound'
    BY <1>1, <1>2, <2>1, TurnStays
  <2> QED BY <1>3, <2>2, <2>3, <2>4 DEF TaskInv, Sound
<1>6. CASE HostShutsDown
  <2>1. PICK shn \in {1, 2} :
          /\ link' = link /\ cc.en = 1 /\ cc.shn = 0 /\ reg.rdy = 1
          /\ cc' = [cc EXCEPT !.shn = shn]
          /\ pending' = pending \union {f \in {"en", "shn"} : cc[f] # cc'[f]}
    BY <1>6 DEF HostShutsDown, HostWrites
  <2>2. cc'.en = 1 /\ cc'.shn = shn /\ pending' = pending \union {"shn"}
    BY <1>1, <2>1 DEF TypeOK
  <2>3. TypeOK'
    BY <1>1, <1>2, <2>1 DEF TypeOK
  <2>4. HostSound' /\ StatusSound'
    BY <1>1, <1>2, <2>1, <2>2 DEF HostSound, StatusSound, TypeOK
  <2>5. TurnSound'
    BY <1>1, <1>2, <2>1, TurnStays
  <2> QED BY <1>3, <2>3, <2>4, <2>5 DEF TaskInv, Sound
<1>7. CASE LinkGoesDown
  <2>1. /\ link /\ link' = FALSE /\ cc' = [en |-> 0, shn |-> 0] /\ "link" \in pending'
        /\ pending' = pending \union {"link"} \union {f \in {"en", "shn"} : cc[f] # 0}
    BY <1>1, <1>7 DEF LinkGoesDown, TypeOK
  <2>2. TypeOK'
    <3>1. cc' \in [en : {0, 1}, shn : 0..2]
      BY <2>1
    <3>2. pending' \subseteq {"link", "en", "shn"} /\ link' \in BOOLEAN
      BY <1>1, <2>1 DEF TypeOK
    <3> QED BY <1>1, <1>2, <3>1, <3>2 DEF TypeOK
  <2>3. HostSound' /\ StatusSound'
    BY <1>1, <1>2, <2>1 DEF HostSound, StatusSound, TypeOK
  <2>4. TurnSound'
    BY <1>1, <1>2, <2>1, TurnStays
  <2> QED BY <1>3, <2>2, <2>3, <2>4 DEF TaskInv, Sound
<1>8. CASE LinkComesUp
  <2>1. /\ ~link /\ link' /\ "link" \notin pending /\ todo = <<>> /\ cc' = cc
        /\ pending' = pending \union {"link"}
    BY <1>1, <1>8 DEF LinkComesUp, TypeOK
  <2>2. TypeOK'
    BY <1>1, <1>2, <2>1 DEF TypeOK
  <2>3. HostSound' /\ StatusSound'
    BY <1>1, <1>2, <2>1 DEF HostSound, StatusSound, TypeOK
  <2>4. TurnSound'
    BY <1>2, <2>1 DEF TurnSound
  <2> QED BY <1>3, <2>2, <2>3, <2>4 DEF TaskInv, Sound
<1> QED BY <1>4, <1>5, <1>6, <1>7, <1>8 DEF Host

LEMMA InitTask == Init => TaskInv
<1> SUFFICES ASSUME Init PROVE TaskInv
  OBVIOUS
<1>1. TypeOK
  <2>1. reg \in [cacheEn : {0, 1}, admin : {0, 1}, rdy : {0, 1}, shst : {0, 1, 2}]
    BY DEF Init
  <2>2. cc \in [en : {0, 1}, shn : 0..2]
    BY DEF Init
  <2> QED BY <2>1, <2>2 DEF Init, TypeOK, Statuses
<1>2. Sound
  BY DEF Init, Sound, HostSound, StatusSound, BetweenSound, Quiet
<1>3. TurnSound
  BY DEF Init, TurnSound
<1> QED BY <1>1, <1>2, <1>3 DEF TaskInv

LEMMA NextTask ==
  ASSUME Patient, TaskInv, [Next]_vars
  PROVE  TaskInv'
<1>1. CASE Look
  BY <1>1, LookPreserves
<1>2. CASE WriteRegister \/ ClearQueue \/ WriteStatus
  <2>1. todo # <<>>
    BY <1>2 DEF WriteRegister, ClearQueue, WriteStatus
  <2> QED BY <1>2, <2>1, TurnPreserves
<1>3. CASE Commands \/ DirectTransferEnds
  BY <1>3, CommandsPreserve
<1>4. CASE dev_irq_handler
  BY <1>4, HandlerPreserves
<1>5. CASE Host
  BY <1>5, HostPreserves
<1>6. CASE UNCHANGED vars
  <2>1. UNCHANGED <<status, branch, todo, direct, reg, sq, cq, cc, link, pending, lost>>
    BY <1>6 DEF vars
  <2>2. TypeOK'
    BY <2>1 DEF TaskInv, TypeOK
  <2>3. HostSound' /\ StatusSound' /\ BetweenSound'
    BY <2>1 DEF TaskInv, Sound, HostSound, StatusSound, BetweenSound, Quiet
  <2>4. TurnSound'
    BY <2>1, TurnStays DEF TaskInv
  <2> QED BY <2>2, <2>3, <2>4 DEF TaskInv, Sound
<1> QED BY <1>1, <1>2, <1>3, <1>4, <1>5, <1>6 DEF Next, nvme_run

(***************************************************************************)
(* The theorems: of a host that waits for the ready bit before it disables, *)
(* and a link that stays down longer than a turn.                          *)
(***************************************************************************)

\* The status goes with the ready bit, with the writes of the turn and with what the
\* host asks for, however nvme_run, its interrupt and the host interleave.
THEOREM TaskInvariant ==
  ASSUME Patient
  PROVE  Spec => []TaskInv
<1>1. TaskInv /\ [Next]_vars => TaskInv'
  BY NextTask
<1> QED BY <1>1, InitTask, PTL DEF Spec

\* nvme_run never writes a status, a register or a queue out of its range.
THEOREM TaskTypeCorrect ==
  ASSUME Patient
  PROVE  Spec => []TypeOK
<1>1. TaskInv => TypeOK
  BY DEF TaskInv
<1> QED BY <1>1, TaskInvariant, PTL

\* A controller that waits to be enabled has nothing left of the time before.
THEOREM StartsFresh ==
  ASSUME Patient
  PROVE  Spec => []FreshWhenEnabled
<1>1. ASSUME TaskInv, Between, status \in {"IDLE", "WAIT_CC_EN"}
      PROVE  Quiet
  <2>1. todo = <<>> /\ TypeOK /\ StatusSound /\ BetweenSound
    BY <1>1 DEF TaskInv, Sound, Between
  <2>2. reg.rdy = 0
    BY <1>1, <2>1 DEF TypeOK, StatusSound
  <2> QED BY <2>1, <2>2 DEF BetweenSound
<1>2. TaskInv => FreshWhenEnabled
  BY <1>1 DEF FreshWhenEnabled, Quiet
<1> QED BY <1>2, TaskInvariant, PTL

\* Between two turns a ready controller takes commands or is about to stop.
THEOREM ReadyMeansServed ==
  ASSUME Patient
  PROVE  Spec => []ReadyIsServed
<1>1. ASSUME TaskInv, Between, reg.rdy = 1
      PROVE  /\ status \notin {"IDLE", "WAIT_CC_EN"}
             /\ reg.admin = 1 \/ reg.shst = 2
             /\ cc = [en |-> 1, shn |-> 0] => status = "RUNNING"
  <2>1. todo = <<>> /\ HostSound /\ StatusSound /\ BetweenSound
    BY <1>1 DEF TaskInv, Sound, Between
  <2>2. status \notin {"IDLE", "WAIT_CC_EN"}
    BY <1>1, <2>1 DEF StatusSound
  <2>3. reg.admin = 1 \/ reg.shst = 2
    BY <1>1, <2>1 DEF BetweenSound
  <2>4. cc = [en |-> 1, shn |-> 0] => status = "RUNNING"
    BY <1>1, <2>1 DEF HostSound
  <2> QED BY <2>2, <2>3, <2>4
<1>2. TaskInv => ReadyIsServed
  BY <1>1 DEF ReadyIsServed
<1> QED BY <1>2, TaskInvariant, PTL
=============================================================================
