---------------------------- MODULE HostIoProofs ----------------------------
(***************************************************************************)
(* Proofs about the host requests.                                         *)
(*                                                                         *)
(* First the DMA FIFO alone: where the 8-bit head, the tail and the count  *)
(* of the wraps stand for numbers of transfers, the check of the firmware  *)
(* says whether a transfer has ended.  Then the inductive invariant of     *)
(* HostIo, in four parts that are proved one on the other: Control (the    *)
(* queues, the phase of the loop and the counts of each request), Pool     *)
(* (the buffers), Transfers (the mark of each request in the queue is the  *)
(* number of its last transfer) and Bounded.  The properties of the runs   *)
(* follow from it at the end.                                              *)
(***************************************************************************)
EXTENDS HostIo, SeqLemmas

\* A number is its laps and the index in the last one.
LEMMA DivMod ==
  ASSUME NEW x \in Nat, NEW n \in Nat, n > 0
  PROVE  /\ x \div n \in Nat /\ x % n \in 0..(n - 1)
         /\ x = n * (x \div n) + (x % n)
BY SMT

\* More laps are not less.
LEMMA MulMonotone ==
  ASSUME NEW n \in Nat, NEW a \in Nat, NEW b \in Nat, a <= b
  PROVE  n * a <= n * b
BY SMT

\* One lap more is n more.
LEMMA MulSucc ==
  ASSUME NEW n \in Nat, NEW a \in Nat
  PROVE  n * (a + 1) = n * a + n /\ n * a \in Nat
BY SMT

\* A number that is no larger has no more laps.
LEMMA LapsOrdered ==
  ASSUME NEW n \in Nat, n > 0, NEW a \in Nat, NEW b \in Nat,
         NEW i \in 0..(n - 1), NEW j \in 0..(n - 1), n * a + i <= n * b + j
  PROVE  a <= b
<1>1. SUFFICES ASSUME b + 1 <= a PROVE FALSE
  OBVIOUS
<1>2. n * (b + 1) <= n * a
  BY <1>1, MulMonotone
<1>3. n * b + n <= n * a /\ n * a \in Nat /\ n * b \in Nat
  BY <1>2, MulSucc
<1> QED
  BY <1>3

\* Numbers are ordered by their laps, then by their indices.
LEMMA LexOrder ==
  ASSUME NEW n \in Nat, n > 0, NEW x \in Nat, NEW y \in Nat
  PROVE  x <= y <=> \/ x \div n < y \div n
                    \/ x \div n = y \div n /\ x % n <= y % n
<1> DEFINE a == x \div n
           b == y \div n
           i == x % n
           j == y % n
<1>1. /\ a \in Nat /\ b \in Nat /\ i \in 0..(n - 1) /\ j \in 0..(n - 1)
      /\ x = n * a + i /\ y = n * b + j
  BY DivMod
<1> HIDE DEF a, b, i, j
<1>2. x <= y => a <= b
  BY <1>1, LapsOrdered
<1>3. y <= x => b <= a
  BY <1>1, LapsOrdered
<1>4. a = b => (x <= y <=> i <= j)
  <2>1. n * a \in Nat
    BY <1>1, MulSucc
  <2> QED
    BY <1>1, <2>1
<1>5. x <= y <=> a < b \/ (a = b /\ i <= j)
  BY <1>1, <1>2, <1>3, <1>4
<1> QED
  BY <1>5 DEF a, b, i, j

\* Numbers less than n apart are equal when their remainders are.
LEMMA ModInjective ==
  ASSUME NEW n \in Nat, n > 0, NEW x \in Nat, NEW y \in Nat, x <= y, y < x + n
  PROVE  x % n = y % n <=> x = y
<1> DEFINE a == x \div n
           b == y \div n
           i == x % n
           j == y % n
<1>1. /\ a \in Nat /\ b \in Nat /\ i \in 0..(n - 1) /\ j \in 0..(n - 1)
      /\ x = n * a + i /\ y = n * b + j
  BY DivMod
<1> HIDE DEF a, b, i, j
<1>2. ASSUME i = j, x # y PROVE FALSE
  <2>1. n * a \in Nat /\ n * b \in Nat /\ n * (a + 1) = n * a + n
    BY <1>1, MulSucc
  <2>2. ~(b <= a)
    <3>1. b <= a => n * b <= n * a
      BY <1>1, MulMonotone
    <3> QED
      BY <1>1, <1>2, <2>1, <3>1
  <2>3. n * (a + 1) <= n * b
    BY <1>1, <2>2, MulMonotone
  <2> QED
    BY <1>1, <1>2, <2>1, <2>3
<1>3. x = y => i = j
  BY DEF i, j
<1> QED
  BY <1>2, <1>3 DEF i, j

\* One more: the index goes on, or wraps into the next lap.
LEMMA NextIndex ==
  ASSUME NEW n \in Nat, n > 1, NEW x \in Nat
  PROVE  /\ (x + 1) % n = IF (x % n) + 1 = n THEN 0 ELSE (x % n) + 1
         /\ (x + 1) \div n = IF (x % n) + 1 = n THEN (x \div n) + 1 ELSE x \div n
         /\ ((x % n) + 1) % n = (x + 1) % n
<1> DEFINE a == x \div n
           i == x % n
           b == (x + 1) \div n
           j == (x + 1) % n
<1>1. /\ a \in Nat /\ b \in Nat /\ i \in 0..(n - 1) /\ j \in 0..(n - 1)
      /\ x = n * a + i /\ x + 1 = n * b + j
  BY DivMod
<1>2. (i + 1) % n = IF i + 1 = n THEN 0 ELSE i + 1
  <2>1. i + 1 \in Nat /\ i + 1 <= n
    BY <1>1
  <2> HIDE DEF i
  <2>2. CASE i + 1 = n
    BY <2>1, <2>2, SMT
  <2>3. CASE i + 1 < n
    BY <2>1, <2>3, SMT
  <2> QED
    BY <2>1, <2>2, <2>3
<1> HIDE DEF a, b, i, j
<1>3. n * a \in Nat /\ n * b \in Nat /\ n * (a + 1) = n * a + n /\ n * (b + 1) = n * b + n
  BY <1>1, MulSucc
<1>4. a <= b
  <2>1. b + 1 <= a => n * (b + 1) <= n * a
    BY <1>1, MulMonotone
  <2> QED
    BY <1>1, <1>3, <2>1
<1>5. ~(a + 2 <= b)
  <2>1. a + 2 <= b => n * (a + 2) <= n * b
    BY <1>1, MulMonotone
  <2>2. n * (a + 2) = n * (a + 1) + n
    BY <1>1, MulSucc
  <2> QED
    BY <1>1, <1>3, <2>1, <2>2
<1>6. \/ b = a /\ j = i + 1
      \/ b = a + 1 /\ j = 0 /\ i + 1 = n
  BY <1>1, <1>3, <1>4, <1>5
<1>7. /\ j = IF i + 1 = n THEN 0 ELSE i + 1
      /\ b = IF i + 1 = n THEN a + 1 ELSE a
  BY <1>1, <1>6
<1> QED
  BY <1>2, <1>7 DEF a, b, i, j

\* Laps do not change the index.
LEMMA SubtractLaps ==
  ASSUME NEW n \in Nat, n > 0, NEW x \in Nat, NEW k \in Nat
  PROVE  (x - n * k) % n = x % n
<1> DEFINE y == x - n * k
<1>1. y \in Int
  BY SMT
<1>2. y % n \in 0..(n - 1) /\ y \div n \in Int /\ y = n * (y \div n) + (y % n)
  <2> HIDE DEF y
  <2> QED
    BY <1>1, SMT
<1> DEFINE a == x \div n
           i == x % n
           b == y \div n
           j == y % n
<1>3. a \in Nat /\ i \in 0..(n - 1) /\ x = n * a + i
  BY DivMod
<1>4. b \in Int /\ j \in 0..(n - 1) /\ y = n * b + j
  BY <1>2
<1>5. n * a + i = n * b + j + n * k
  <2> HIDE DEF a, b, i, j
  <2> QED
    BY <1>3, <1>4 DEF y
<1> HIDE DEF a, b, i, j, y
<1>6. n * a + i = n * (b + k) + j
  BY <1>3, <1>4, <1>5, SMT
<1>7. a = b + k
  <2> DEFINE c == b + k
  <2>1. c \in Int /\ n * a + i = n * c + j
    BY <1>4, <1>6
  <2> HIDE DEF c
  <2>2. ~(a + 1 <= c)
    <3>1. a + 1 <= c => n * (a + 1) <= n * c
      BY <1>3, <2>1, MulMonotone
    <3> QED
      BY <1>3, <1>4, <2>1, <3>1, MulSucc
  <2>3. ~(c + 1 <= a)
    <3>1. ASSUME c + 1 <= a PROVE FALSE
      <4>1. n * (a - c) >= n
        BY <1>3, <2>1, <3>1, SMT
      <4>2. n * (a - c) = n * a - n * c
        BY <1>3, <2>1, SMT
      <4> QED
        BY <1>3, <1>4, <2>1, <4>1, <4>2
    <3> QED
      BY <3>1
  <2> QED
    BY <1>3, <2>1, <2>2, <2>3 DEF c
<1>8. n * a \in Int
  BY <1>3, SMT
<1> QED
  BY <1>3, <1>4, <1>6, <1>7, <1>8 DEF i, j, y

------------------------------------------------------------------------------
\* The check is exact: with the head and the tail less than a round of the FIFO
\* apart, and fewer transfers issued since the mark than the index and the count of
\* its wraps can tell apart, it is TRUE if and only if the transfer of the mark has
\* ended (host_lld.c:587, 647).
THEOREM PartialDoneExact ==
  ASSUME NEW ended \in Nat, NEW issued \in Nat, NEW last \in Nat,
         ended <= issued, issued < ended + FifoSize,
         last <= issued, issued < last + FifoSize * OverflowSize
  PROVE  PartialDone(ended % FifoSize, issued % FifoSize,
                     (issued \div FifoSize) % OverflowSize,
                     last % FifoSize, (last \div FifoSize) % OverflowSize)
         <=> last <= ended
<1> DEFINE h == ended % FifoSize
           t == issued % FifoSize
           q == last % FifoSize
           lh == ended \div FifoSize
           lt == issued \div FifoSize
           lq == last \div FifoSize
<1>1. /\ FifoSize \in Nat /\ FifoSize > 1 /\ OverflowSize \in Nat /\ OverflowSize > 1
  BY FifoAssumption
<1>2. /\ h \in 0..(FifoSize - 1) /\ t \in 0..(FifoSize - 1) /\ q \in 0..(FifoSize - 1)
      /\ lh \in Nat /\ lt \in Nat /\ lq \in Nat
      /\ ended = FifoSize * lh + h /\ issued = FifoSize * lt + t /\ last = FifoSize * lq + q
  BY <1>1, DivMod
<1>3. lh < lt \/ (lh = lt /\ h <= t)
  BY <1>1, LexOrder
<1>4. lq < lt \/ (lq = lt /\ q <= t)
  BY <1>1, LexOrder
<1>5. last <= ended <=> lq < lh \/ (lq = lh /\ q <= h)
  BY <1>1, LexOrder
\* The tail is in the lap of the head, or in the next one and below the head.
<1>6. lt = lh \/ (lt = lh + 1 /\ t < h)
  <2> HIDE DEF h, t, lh, lt
  <2>1. FifoSize * (lh + 1) = FifoSize * lh + FifoSize /\ FifoSize * lh \in Nat
    BY <1>1, <1>2, MulSucc
  <2>2. FifoSize * lt + t < FifoSize * (lh + 1) + h
    BY <1>1, <1>2, <2>1
  <2>3. lt <= lh + 1
    <3>1. FifoSize * lt + t <= FifoSize * (lh + 1) + h
      BY <1>1, <1>2, <2>1, <2>2, MulSucc
    <3>2. /\ lh + 1 \in Nat /\ lt \in Nat /\ FifoSize \in Nat /\ FifoSize > 0
          /\ t \in 0..(FifoSize - 1) /\ h \in 0..(FifoSize - 1)
      BY <1>1, <1>2
    <3> QED
      BY <3>1, <3>2, LapsOrdered
  <2>4. lt = lh + 1 => t < h
    BY <1>1, <1>2, <2>1, <2>2
  <2> QED
    BY <1>2, <1>3, <2>3, <2>4
\* The tail is at most all counted laps ahead of the last, and then below it.
<1>7. lq <= lt /\ lt <= lq + OverflowSize /\ (lt = lq + OverflowSize => t < q)
  <2> HIDE DEF t, q, lt, lq
  <2>1. PICK F, O, M : F = FifoSize /\ O = OverflowSize /\ M = lq + O
    OBVIOUS
  <2>2. F \in Nat /\ F > 1 /\ O \in Nat /\ M \in Nat /\ F * M = F * lq + F * O
        /\ F * lq \in Nat /\ F * lt \in Nat /\ F * M \in Nat
    <3>1. F \in Nat /\ F > 1 /\ O \in Nat /\ lq \in Nat /\ lt \in Nat
      BY <1>1, <1>2, <2>1
    <3> QED BY <2>1, <3>1, SMT
  <2>3. issued < (F * lq + q) + F * O
    BY <1>2, <2>1
  <2>4. F * lt + t < F * M + q
    <3>1. PICK a, b : a = F * lq /\ b = F * O
      OBVIOUS
    <3>2. a \in Nat /\ b \in Int /\ F * M = a + b /\ issued < (a + q) + b /\ issued = F * lt + t
          /\ q \in Nat
      BY <1>1, <1>2, <2>1, <2>2, <2>3, <3>1
    <3> QED BY <3>2
  <2>5. lt <= M
    <3>1. F * lt + t <= F * M + q /\ F > 0 /\ t \in 0..(F - 1) /\ q \in 0..(F - 1)
          /\ lt \in Nat
      BY <1>1, <1>2, <2>1, <2>2, <2>4
    <3> QED BY <2>2, <3>1, LapsOrdered
  <2>6. lt = M => t < q
    BY <1>1, <1>2, <2>1, <2>2, <2>4
  <2>7. lq <= lt
    BY <1>2, <1>4
  <2> QED
    BY <2>1, <2>5, <2>6, <2>7
<1>8. lt % OverflowSize = lq % OverflowSize <=> lt = lq \/ lt = lq + OverflowSize
  <2>1. PICK x, y, n : x = lq /\ y = lt /\ n = OverflowSize
    OBVIOUS
  <2>2. x \in Nat /\ y \in Nat /\ n \in Nat /\ n > 0 /\ x <= y /\ y <= x + n
    BY <1>1, <1>2, <1>7, <2>1
  <2>3. y < x + n => (x % n = y % n <=> x = y)
    BY <2>2, ModInjective
  <2>4. y = x + n => y % n = x % n
    <3>1. ((x + n) - n * 1) % n = (x + n) % n
      <4>1. x + n \in Nat /\ 1 \in Nat
        BY <2>2
      <4> QED BY <2>2, <4>1, SubtractLaps
    <3>2. (x + n) - n * 1 = x
      BY <2>2
    <3> QED BY <3>1, <3>2
  <2>5. y % n = x % n <=> y = x \/ y = x + n
    BY <2>2, <2>3, <2>4
  <2> QED
    BY <2>1, <2>5
<1>9. lq < lt => (lt % OverflowSize = (lq + 1) % OverflowSize <=> lt = lq + 1)
  <2> HIDE DEF lq, lt
  <2> SUFFICES ASSUME lq < lt
               PROVE  lt % OverflowSize = (lq + 1) % OverflowSize <=> lt = lq + 1
    OBVIOUS
  <2>1. lq + 1 \in Nat /\ lq + 1 <= lt /\ lt < (lq + 1) + OverflowSize /\ OverflowSize > 0
    BY <1>1, <1>2, <1>7
  <2>2. (lq + 1) % OverflowSize = lt % OverflowSize <=> lq + 1 = lt
    <3>1. PICK x, y, n : x = lq + 1 /\ y = lt /\ n = OverflowSize
      OBVIOUS
    <3>2. x \in Nat /\ y \in Nat /\ n \in Nat /\ n > 0 /\ x <= y /\ y < x + n
      BY <1>1, <1>2, <2>1, <3>1
    <3>3. x % n = y % n <=> x = y
      BY <3>2, ModInjective
    <3> QED
      BY <3>1, <3>3
  <2> QED
    BY <2>2
<1>10. ((lq % OverflowSize) + 1) % OverflowSize = (lq + 1) % OverflowSize
  BY <1>1, <1>2, NextIndex
<1> DEFINE o == lt % OverflowSize
           w == lq % OverflowSize
           wn == (w + 1) % OverflowSize
<1>11. /\ o = w <=> lt = lq \/ lt = lq + OverflowSize
       /\ lq < lt => (o = wn <=> lt = lq + 1)
  BY <1>8, <1>9, <1>10
<1>12. PartialDone(h, t, o, q, w) <=>
         \/ h = t
         \/ h = q
         \/ h < q /\ t < q /\ (h < t \/ o # wn)
         \/ h < q /\ q <= t /\ o # w
         \/ q < h /\ (t < q \/ h < t \/ o # w)
  BY DEF PartialDone
<1> HIDE DEF h, t, q, lh, lt, lq, o, w, wn
<1>13. PartialDone(h, t, o, q, w) <=> lq < lh \/ (lq = lh /\ q <= h)
  BY <1>1, <1>2, <1>3, <1>4, <1>6, <1>7, <1>11, <1>12
<1> QED
  BY <1>5, <1>13 DEF h, t, q, lt, lq, o, w

------------------------------------------------------------------------------
\* What a FIFO says of the numbers: so many transfers issued, so many ended.
Counted(S, f, issued, ended) ==
  /\ f = [tail |-> issued % FifoSize,
          over |-> (issued \div FifoSize) % OverflowSize,
          pending |-> f.pending]
  /\ f.pending \in Seq(S) /\ Len(f.pending) = issued - ended
  /\ ended <= issued /\ issued < ended + FifoSize

\* The FIFO starts with nothing issued, and the head follows the number that ended.
LEMMA EmptyCounted == \A S : Counted(S, EmptyFifo, 0, 0)
<1>1. 0 % FifoSize = 0 /\ 0 \div FifoSize = 0 /\ 0 % OverflowSize = 0
  BY FifoAssumption, SMT
<1> QED
  BY <1>1, FifoAssumption DEF Counted, EmptyFifo

\* The head the hardware shows is the index of the number of transfers ended.
LEMMA HeadCounted ==
  ASSUME NEW S, NEW f, NEW issued \in Nat, NEW ended \in Nat, Counted(S, f, issued, ended)
  PROVE  HeadIndex(f) = ended % FifoSize
<1> DEFINE k == issued \div FifoSize
<1>1. FifoSize \in Nat /\ FifoSize > 0
  BY FifoAssumption
<1>2. k \in Nat /\ issued = FifoSize * k + (issued % FifoSize)
  BY <1>1, DivMod
<1>3. f.tail = issued % FifoSize /\ Len(f.pending) = issued - ended
  BY DEF Counted
<1>4. issued % FifoSize \in Nat
  BY <1>1, DivMod
<1> HIDE DEF k
<1>5. FifoSize * k \in Nat
  BY <1>1, <1>2, MulSucc
<1>6. f.tail - Len(f.pending) = ended - FifoSize * k
  BY <1>2, <1>3, <1>4, <1>5
<1> QED
  BY <1>1, <1>2, <1>6, SubtractLaps DEF HeadIndex

\* A transfer is issued only where a place is left, and the numbers follow.
LEMMA IssuedCounted ==
  ASSUME NEW f, NEW S, NEW owner \in S, NEW issued \in Nat, NEW ended \in Nat,
         Counted(S, f, issued, ended), ~IsFull(f)
  PROVE  Counted(S, Issued(f, owner), issued + 1, ended)
<1>1. FifoSize \in Nat /\ FifoSize > 1 /\ OverflowSize \in Nat /\ OverflowSize > 1
  BY FifoAssumption
<1>2. HeadIndex(f) = ended % FifoSize
  BY HeadCounted
<1>3. /\ f.tail = issued % FifoSize /\ f.over = (issued \div FifoSize) % OverflowSize
      /\ f.pending \in Seq(S) /\ Len(f.pending) = issued - ended
      /\ ended <= issued /\ issued < ended + FifoSize
  BY DEF Counted
<1>4. issued + 1 # ended + FifoSize
  <2>1. (issued + 1) % FifoSize # ended % FifoSize
    BY <1>1, <1>2, <1>3, NextIndex DEF IsFull
  <2>2. (ended + FifoSize) - FifoSize * 1 = ended
    BY <1>1
  <2>3. (ended + FifoSize) % FifoSize = ended % FifoSize
    <3>1. ended + FifoSize \in Nat /\ 1 \in Nat /\ FifoSize > 0
      BY <1>1
    <3>2. ((ended + FifoSize) - FifoSize * 1) % FifoSize = (ended + FifoSize) % FifoSize
      BY <1>1, <3>1, SubtractLaps
    <3> QED
      BY <2>2, <3>2
  <2> QED
    BY <2>1, <2>3
<1>5. Issued(f, owner).tail = (issued + 1) % FifoSize
  BY <1>1, <1>3, NextIndex DEF Issued
<1>6. Issued(f, owner).over = ((issued + 1) \div FifoSize) % OverflowSize
  <2> DEFINE k == issued \div FifoSize
  <2>1. k \in Nat
    BY <1>1, DivMod
  <2>2. ((k % OverflowSize) + 1) % OverflowSize = (k + 1) % OverflowSize
    BY <1>1, <2>1, NextIndex
  <2>3. (issued + 1) \div FifoSize = IF (issued % FifoSize) + 1 = FifoSize THEN k + 1 ELSE k
    BY <1>1, NextIndex
  <2> QED
    BY <1>3, <2>2, <2>3 DEF Issued
<1>7. /\ Issued(f, owner).pending \in Seq(S)
      /\ Len(Issued(f, owner).pending) = (issued + 1) - ended
  BY <1>3 DEF Issued
<1>8. /\ ended <= issued + 1 /\ issued + 1 < ended + FifoSize
  BY <1>1, <1>3, <1>4
<1> QED
  BY <1>5, <1>6, <1>7, <1>8 DEF Counted, Issued

\* The hardware ends one transfer, and the numbers follow.
LEMMA EndedCounted ==
  ASSUME NEW S, NEW f, NEW issued \in Nat, NEW ended \in Nat,
         Counted(S, f, issued, ended), f.pending # <<>>
  PROVE  Counted(S, Ended(f), issued, ended + 1)
<1>1. f.pending \in Seq(S) /\ Len(f.pending) = issued - ended
  BY DEF Counted
<1>2. Tail(f.pending) \in Seq(S) /\ Len(Tail(f.pending)) = Len(f.pending) - 1
      /\ Len(f.pending) > 0
  BY <1>1
<1>3. /\ ended <= issued /\ issued < ended + FifoSize /\ FifoSize \in Nat
      /\ f = [tail |-> issued % FifoSize, over |-> (issued \div FifoSize) % OverflowSize,
              pending |-> f.pending]
  BY FifoAssumption DEF Counted
<1>4. Ended(f) = [tail |-> issued % FifoSize, over |-> (issued \div FifoSize) % OverflowSize,
                  pending |-> Tail(f.pending)]
  <2> DEFINE t == issued % FifoSize
             o == (issued \div FifoSize) % OverflowSize
             p == f.pending
  <2>1. f = [tail |-> t, over |-> o, pending |-> p]
    BY <1>3
  <2> HIDE DEF t, o, p
  <2>2. [f EXCEPT !.pending = Tail(p)] = [tail |-> t, over |-> o, pending |-> Tail(p)]
    BY <2>1
  <2> QED
    BY <2>2 DEF Ended, t, o, p
<1>5. /\ ended + 1 <= issued /\ issued < (ended + 1) + FifoSize
      /\ Len(Tail(f.pending)) = issued - (ended + 1)
  BY <1>1, <1>2, <1>3
<1>6. Ended(f).pending = Tail(f.pending)
  BY <1>4
<1> QED
  BY <1>2, <1>4, <1>5, <1>6 DEF Counted

\* A request that keeps the tail and the wraps of a FIFO as they were after its
\* last transfer, number last, learns whether that transfer has ended.
THEOREM CheckDoneExact ==
  ASSUME NEW S, NEW f, NEW m, NEW issued \in Nat, NEW ended \in Nat, NEW last \in Nat,
         Counted(S, f, issued, ended), last <= issued, issued < last + FifoSize * OverflowSize,
         m.tail = last % FifoSize, m.over = (last \div FifoSize) % OverflowSize
  PROVE  CheckDone(f, m) <=> last <= ended
<1>1. HeadIndex(f) = ended % FifoSize
  BY HeadCounted
<1>2. /\ f.tail = issued % FifoSize /\ f.over = (issued \div FifoSize) % OverflowSize
      /\ ended <= issued /\ issued < ended + FifoSize
  BY DEF Counted
<1> QED
  BY <1>1, <1>2, PartialDoneExact DEF CheckDone

(***************************************************************************)
(* Control: the queues, the phase and the counts of a request.             *)
(***************************************************************************)

Phases == {"FIL", "DONE", "TX", "HDMA", "WAIT", "READ", "RX", "PROGRAM", "WAIT_RX"}
Marks  == [tail : 0..(FifoSize - 1), over : 0..(OverflowSize - 1)]

Typed ==
  /\ at \in Phases /\ spinning \in BOOLEAN /\ idx \in Nat
  /\ status \in [Requests -> Statuses] /\ count \in [Requests -> 0..MaxCount]
  /\ done \in [Requests -> Nat] /\ bufs \in [Requests -> Nat] /\ reads \in [Requests -> Nat]
  /\ mark \in [Requests -> Marks]
  /\ waitQ \in Seq(Requests) /\ doneQ \in Seq(Requests) /\ hdmaQ \in Seq(Requests)
  /\ free \in Int /\ others \in 0..OthersMax
  /\ unit \in [Units -> [pages : Nat, programming : BOOLEAN]] /\ cur \in Units
  /\ tx \in [tail : 0..(FifoSize - 1), over : 0..(OverflowSize - 1), pending : Seq(Requests)]

\* The requests with one of these statuses.
In(S) == {r \in Requests : status[r] \in S}

InWait == {"READ_WAIT", "WRITE_WAIT"}
InDone == {"READ_NAND_DONE", "READ_DONE", "WRITE_DONE"}

QueuesSound ==
  /\ Injective(waitQ) /\ ToSet(waitQ) = In(InWait)
  /\ issuedQ = In({"READ_NAND_ISSUED"})
  /\ Injective(doneQ) /\ ToSet(doneQ) = In(InDone)
  /\ Injective(hdmaQ) /\ ToSet(hdmaQ) = In({"READ_HDMA_ISSUE"})

\* What a handler that waits has at the head of its queue, callbacks or not.
PhaseSound ==
  /\ spinning => at \in {"READ", "PROGRAM"}
  /\ at = "READ" => /\ waitQ # <<>> /\ status[Head(waitQ)] = "READ_WAIT"
                    /\ idx <= count[Head(waitQ)]
                    /\ spinning => idx < count[Head(waitQ)]
  /\ at = "RX" => /\ waitQ # <<>> /\ status[Head(waitQ)] = "WRITE_WAIT"
                  /\ done[Head(waitQ)] < count[Head(waitQ)]
  /\ at = "TX" => /\ doneQ # <<>> /\ status[Head(doneQ)] = "READ_NAND_DONE"
                  /\ idx <= bufs[Head(doneQ)]

\* The pages of a request that waits for which _ProcessRead_Wait has a buffer.
Taken(r) == IF at = "READ" /\ r = Head(waitQ) THEN idx ELSE 0

RequestSound(r) ==
  /\ status[r] # "FREE" => count[r] >= 1
  /\ done[r] <= count[r]
  /\ status[r] = "FREE" => done[r] = 0
  /\ status[r] \in {"FREE", "WRITE_WAIT", "WRITE_DONE"} => bufs[r] = 0 /\ reads[r] = 0
  /\ status[r] = "READ_WAIT" => bufs[r] = Taken(r) /\ done[r] + reads[r] = Taken(r)
  /\ status[r] = "READ_NAND_ISSUED" =>
       bufs[r] = count[r] /\ done[r] + reads[r] = count[r] /\ reads[r] > 0
  /\ status[r] \in {"READ_NAND_DONE", "READ_HDMA_ISSUE", "READ_DONE"} =>
       bufs[r] = count[r] /\ reads[r] = 0

Control ==
  /\ Typed
  /\ QueuesSound
  /\ PhaseSound
  /\ \A r \in Requests : RequestSound(r)

LEMMA SizeFacts ==
  /\ IsFiniteSet(Requests)
  /\ MaxCount \in Nat \ {0} /\ UnitCount \in Nat \ {0} /\ LpnPerUnit \in Nat \ {0}
  /\ FifoSize \in Nat /\ FifoSize > 1 /\ OverflowSize \in Nat /\ OverflowSize > 1
  /\ OthersMax \in Nat /\ BufCount \in Nat
  /\ Units = 0..(UnitCount - 1) /\ 0 \in Units
BY PoolAssumption, FifoAssumption DEF Units

\* What the head of a queue is, and what is left behind it.
LEMMA QueueFacts ==
  ASSUME NEW q \in Seq(Requests), Injective(q), q # <<>>
  PROVE  /\ Head(q) \in Requests /\ Head(q) \in ToSet(q)
         /\ Tail(q) \in Seq(Requests) /\ Injective(Tail(q))
         /\ ToSet(Tail(q)) = ToSet(q) \ {Head(q)}
BY TailFacts

LEMMA AddFacts ==
  ASSUME NEW q \in Seq(Requests), Injective(q), NEW r \in Requests, r \notin ToSet(q)
  PROVE  /\ Append(q, r) \in Seq(Requests) /\ Injective(Append(q, r))
         /\ ToSet(Append(q, r)) = ToSet(q) \union {r}
         /\ Append(q, r) # <<>>
         /\ q # <<>> => Head(Append(q, r)) = Head(q)
<1>1. Append(q, r) \in Seq(Requests) /\ Injective(Append(q, r))
      /\ ToSet(Append(q, r)) = ToSet(q) \union {r}
  BY AppendFacts
<1> QED BY <1>1

LEMMA StatusMoves ==
  ASSUME Typed, NEW r \in Requests, NEW v, status' = [status EXCEPT ![r] = v], NEW S
  PROVE  In(S)' = IF v \in S THEN In(S) \union {r} ELSE In(S) \ {r}
BY DEF In, Typed

\* The queues while no request changes its status.
LEMMA QueuesStay ==
  ASSUME QueuesSound, UNCHANGED <<status, waitQ, issuedQ, doneQ, hdmaQ>>
  PROVE  QueuesSound'
BY DEF QueuesSound, In

\* DFTL_GLOBAL::ReadPage and WritePage.
LEMMA CommandControl ==
  ASSUME Control, NEW r \in Requests, NEW c \in Commands, Command(r, c[1], c[2])
  PROVE  Control'
<1>1. c[1] \in InWait /\ c[2] \in 1..MaxCount
  BY PoolAssumption DEF InWait
<1>2. PICK s, n : s = c[1] /\ n = c[2]
  OBVIOUS
<1>3. /\ at = "FIL" /\ status[r] = "FREE" /\ s \in InWait /\ n \in 1..MaxCount
      /\ status' = [status EXCEPT ![r] = s] /\ count' = [count EXCEPT ![r] = n]
      /\ waitQ' = Append(waitQ, r)
      /\ UNCHANGED <<at, spinning, idx, done, bufs, mark, reads, issuedQ, doneQ, hdmaQ,
                     poolVars, unitVars, dmaVars>>
  BY <1>1, <1>2 DEF Command
<1>4. Typed /\ QueuesSound /\ PhaseSound
  BY DEF Control
<1>5. r \notin ToSet(waitQ)
  BY <1>3, <1>4 DEF QueuesSound, In, InWait
<1>6. /\ waitQ' \in Seq(Requests) /\ Injective(waitQ') /\ ToSet(waitQ') = ToSet(waitQ) \union {r}
  BY <1>3, <1>4, <1>5, AddFacts DEF Typed, QueuesSound
<1>7. Typed'
  <2>1. status' \in [Requests -> Statuses] /\ count' \in [Requests -> 0..MaxCount]
    BY <1>3, <1>4, SizeFacts DEF Typed, InWait, Statuses
  <2> QED BY <1>3, <1>4, <1>6, <2>1 DEF Typed, poolVars, unitVars, dmaVars
<1>8. QueuesSound'
  <2>1. \A S : In(S)' = IF s \in S THEN In(S) \union {r} ELSE In(S) \ {r}
    BY <1>3, <1>4, StatusMoves
  <2>2. In(InWait)' = In(InWait) \union {r}
    BY <1>3, <2>1
  <2>3. /\ In({"READ_NAND_ISSUED"})' = In({"READ_NAND_ISSUED"})
        /\ In(InDone)' = In(InDone)
        /\ In({"READ_HDMA_ISSUE"})' = In({"READ_HDMA_ISSUE"})
    BY <1>3, <2>1 DEF In, InWait, InDone
  <2> QED BY <1>3, <1>4, <1>6, <2>2, <2>3 DEF QueuesSound
<1>9. PhaseSound'
  BY <1>3, <1>4 DEF PhaseSound
<1>10. ASSUME NEW x \in Requests
       PROVE  RequestSound(x)'
  <2>1. RequestSound(x) /\ Taken(x)' = 0 /\ Taken(x) = 0
    BY <1>3 DEF Control, Taken
  <2>2. CASE x = r
    BY <1>3, <1>4, <2>1, <2>2 DEF RequestSound, Typed, InWait
  <2>3. CASE x # r
    BY <1>3, <1>4, <2>1, <2>3 DEF RequestSound, Typed
  <2> QED BY <2>2, <2>3
<1> QED BY <1>7, <1>8, <1>9, <1>10 DEF Control

\* A step that leaves the requests and their queues alone.
LEMMA SameRequests ==
  ASSUME Control, UNCHANGED <<reqVars, queueVars>>, Typed', PhaseSound',
         \A x \in Requests : status[x] = "READ_WAIT" => Taken(x)' = Taken(x)
  PROVE  Control'
<1>1. QueuesSound'
  BY QueuesStay DEF Control, reqVars, queueVars
<1>2. ASSUME NEW x \in Requests
      PROVE  RequestSound(x)'
  <2>1. RequestSound(x) /\ (status[x] = "READ_WAIT" => Taken(x)' = Taken(x))
    BY DEF Control
  <2> QED BY <2>1 DEF RequestSound, reqVars
<1> QED BY <1>1, <1>2 DEF Control

\* The steps of the loop that only go on to another phase.
LEMMA PhaseControl ==
  ASSUME Control,
         \/ FilReturns \/ DoneQueueEmpty \/ HdmaEmptyOrBusy \/ WaitQueueLeft
         \/ WaitRxDMADone
  PROVE  Control'
<1>1. /\ UNCHANGED <<spinning, idx, reqVars, queueVars, poolVars, unitVars, dmaVars>>
      /\ at \in {"FIL", "DONE", "HDMA", "WAIT", "WAIT_RX"}
      /\ at' \in {"FIL", "DONE", "HDMA", "WAIT"}
  BY DEF FilReturns, DoneQueueEmpty, HdmaEmptyOrBusy, WaitQueueLeft, WaitRxDMADone
<1>2. Typed /\ PhaseSound
  BY DEF Control
<1>3. Typed'
  BY <1>1, <1>2 DEF Typed, Phases, reqVars, queueVars, poolVars, unitVars, dmaVars
<1>4. PhaseSound'
  BY <1>1, <1>2 DEF PhaseSound
<1>5. \A x \in Requests : Taken(x)' = Taken(x)
  BY <1>1 DEF Taken
<1> QED BY <1>1, <1>3, <1>4, <1>5, SameRequests

\* The collectors, the ends of programs and transfers, and a caller that finds no request.
LEMMA BesidesControl ==
  ASSUME Control,
         \/ OthersTakeOrReturn \/ (\E u \in Units : ProgramEnds(u)) \/ RxEnds \/ Spin
  PROVE  Control'
<1>1. /\ UNCHANGED <<at, idx, reqVars, queueVars, cur, tx>>
      /\ spinning' = spinning \/ Spin
  BY DEF OthersTakeOrReturn, ProgramEnds, RxEnds, Spin, unitVars, dmaVars
<1>2. Typed /\ PhaseSound
  BY DEF Control
<1>3. /\ spinning' \in BOOLEAN /\ free' \in Int /\ others' \in 0..OthersMax
      /\ unit' \in [Units -> [pages : Nat, programming : BOOLEAN]]
  <2>1. CASE OthersTakeOrReturn
    <3>1. UNCHANGED <<spinning, unit>>
      BY <2>1 DEF OthersTakeOrReturn, unitVars
    <3>2. free \in Int /\ others \in 0..OthersMax /\ spinning \in BOOLEAN
          /\ unit \in [Units -> [pages : Nat, programming : BOOLEAN]]
      BY <1>2 DEF Typed
    <3>3. \/ free' = free - 1 /\ others < OthersMax /\ others' = others + 1
          \/ free' = free + 1 /\ others > 0 /\ others' = others - 1
      BY <2>1 DEF OthersTakeOrReturn
    <3>4. free' \in Int /\ others' \in 0..OthersMax
      BY <3>2, <3>3, SizeFacts
    <3> QED BY <3>1, <3>2, <3>4
  <2>2. CASE \E u \in Units : ProgramEnds(u)
    <3>1. PICK u \in Units : ProgramEnds(u)
      BY <2>2
    <3>2. FreeUnit \in [pages : Nat, programming : BOOLEAN]
      BY DEF FreeUnit
    <3> QED BY <1>2, <3>1, <3>2 DEF Typed, ProgramEnds
  <2>3. CASE RxEnds \/ Spin
    BY <1>2, <2>3 DEF Typed, RxEnds, Spin, poolVars, unitVars
  <2> QED BY <2>1, <2>2, <2>3
<1>4. Typed'
  BY <1>1, <1>2, <1>3 DEF Typed, reqVars, queueVars
<1>5. PhaseSound'
  <2>1. CASE spinning' = spinning
    BY <1>1, <1>2, <2>1 DEF PhaseSound, reqVars, queueVars
  <2>2. CASE Spin
    BY <1>1, <1>2, <2>2 DEF PhaseSound, Spin, reqVars, queueVars
  <2> QED BY <1>1, <2>1, <2>2
<1>6. \A x \in Requests : Taken(x)' = Taken(x)
  BY <1>1 DEF Taken, queueVars
<1> QED BY <1>1, <1>4, <1>5, <1>6, SameRequests

\* The FIFO stays one.
LEMMA FifoTyped ==
  ASSUME Typed, NEW r \in Requests
  PROVE  /\ Issued(tx, r) \in [tail : 0..(FifoSize - 1), over : 0..(OverflowSize - 1),
                               pending : Seq(Requests)]
         /\ tx.pending # <<>> =>
              Ended(tx) \in [tail : 0..(FifoSize - 1), over : 0..(OverflowSize - 1),
                             pending : Seq(Requests)]
<1>1. /\ tx.tail \in 0..(FifoSize - 1) /\ tx.over \in 0..(OverflowSize - 1)
      /\ tx.pending \in Seq(Requests)
      /\ tx = [tail |-> tx.tail, over |-> tx.over, pending |-> tx.pending]
  BY DEF Typed
<1>2. (tx.tail + 1) % FifoSize \in 0..(FifoSize - 1)
      /\ (tx.over + 1) % OverflowSize \in 0..(OverflowSize - 1)
  <2>1. tx.tail + 1 \in Nat /\ tx.over + 1 \in Nat /\ FifoSize > 0 /\ OverflowSize > 0
    BY <1>1, SizeFacts
  <2> QED BY <2>1, SizeFacts, DivMod
<1>3. Append(tx.pending, r) \in Seq(Requests)
  BY <1>1
<1>4. Issued(tx, r) \in [tail : 0..(FifoSize - 1), over : 0..(OverflowSize - 1),
                         pending : Seq(Requests)]
  BY <1>1, <1>2, <1>3 DEF Issued
<1>5. ASSUME tx.pending # <<>>
      PROVE  Ended(tx) \in [tail : 0..(FifoSize - 1), over : 0..(OverflowSize - 1),
                            pending : Seq(Requests)]
  <2>1. Tail(tx.pending) \in Seq(Requests)
    BY <1>1, <1>5
  <2> QED BY <1>1, <2>1 DEF Ended
<1> QED BY <1>4, <1>5

\* The transfers of a request are issued, and they end.
LEMMA TransferControl ==
  ASSUME Control, NandReadDone \/ IssueTx \/ TxEnds
  PROVE  Control'
<1>1. /\ UNCHANGED <<spinning, reqVars, queueVars, poolVars, unitVars>>
      /\ TxEnds => UNCHANGED <<at, idx>>
      /\ ~TxEnds => at \in {"DONE", "TX"} /\ at' = "TX"
  BY DEF NandReadDone, IssueTx, TxEnds, dmaVars
<1>2. Typed /\ PhaseSound /\ QueuesSound
  BY DEF Control
<1>3. CASE TxEnds
  <2>1. tx' \in [tail : 0..(FifoSize - 1), over : 0..(OverflowSize - 1), pending : Seq(Requests)]
    <3>1. tx.pending # <<>> /\ tx' = Ended(tx)
      BY <1>3 DEF TxEnds
    <3>2. Head(tx.pending) \in Requests
      BY <1>2, <3>1 DEF Typed
    <3> QED BY <1>2, <3>1, <3>2, FifoTyped
  <2>2. Typed'
    BY <1>1, <1>2, <1>3, <2>1 DEF Typed, reqVars, queueVars, poolVars, unitVars
  <2>3. PhaseSound'
    BY <1>1, <1>2, <1>3 DEF PhaseSound, reqVars, queueVars
  <2>4. \A x \in Requests : Taken(x)' = Taken(x)
    BY <1>1, <1>3 DEF Taken, queueVars
  <2> QED BY <1>1, <2>2, <2>3, <2>4, SameRequests
<1>4. CASE NandReadDone \/ IssueTx
  <2>1. at' = "TX" /\ at \in {"DONE", "TX"}
    BY <1>4 DEF NandReadDone, IssueTx
  <2>2. doneQ # <<>> /\ status[Head(doneQ)] = "READ_NAND_DONE" /\ idx' \in Nat
        /\ idx' <= bufs[Head(doneQ)] /\ Head(doneQ) \in Requests
    <3>1. doneQ # <<>> /\ status[Head(doneQ)] = "READ_NAND_DONE"
      BY <1>2, <1>4 DEF NandReadDone, IssueTx, PhaseSound
    <3>2. Head(doneQ) \in Requests /\ bufs[Head(doneQ)] \in Nat
      BY <1>2, <3>1 DEF Typed
    <3> QED BY <1>2, <1>4, <3>1, <3>2 DEF NandReadDone, IssueTx, Typed
  <2>3. tx' \in [tail : 0..(FifoSize - 1), over : 0..(OverflowSize - 1), pending : Seq(Requests)]
    BY <1>2, <1>4, <2>2, FifoTyped DEF NandReadDone, IssueTx, dmaVars, Typed
  <2>4. Typed'
    BY <1>1, <1>2, <2>1, <2>2, <2>3 DEF Typed, Phases, reqVars, queueVars, poolVars, unitVars
  <2>5. PhaseSound'
    BY <1>1, <1>2, <2>1, <2>2 DEF PhaseSound, reqVars, queueVars
  <2>6. \A x \in Requests : Taken(x)' = Taken(x)
    BY <2>1 DEF Taken
  <2> QED BY <1>1, <2>4, <2>5, <2>6, SameRequests
<1> QED BY <1>3, <1>4

\* A request leaves the queues unless it joins another one: what the sets of the queues
\* are when one request changes its status.
LEMMA OneMoves ==
  ASSUME Typed, NEW r \in Requests, NEW v \in Statuses, status' = [status EXCEPT ![r] = v]
  PROVE  /\ status' \in [Requests -> Statuses]
         /\ In(InWait)' = IF v \in InWait THEN In(InWait) \union {r} ELSE In(InWait) \ {r}
         /\ In({"READ_NAND_ISSUED"})' = IF v = "READ_NAND_ISSUED"
                                        THEN In({"READ_NAND_ISSUED"}) \union {r}
                                        ELSE In({"READ_NAND_ISSUED"}) \ {r}
         /\ In(InDone)' = IF v \in InDone THEN In(InDone) \union {r} ELSE In(InDone) \ {r}
         /\ In({"READ_HDMA_ISSUE"})' = IF v = "READ_HDMA_ISSUE"
                                       THEN In({"READ_HDMA_ISSUE"}) \union {r}
                                       ELSE In({"READ_HDMA_ISSUE"}) \ {r}
<1>1. \A S : In(S)' = IF v \in S THEN In(S) \union {r} ELSE In(S) \ {r}
  BY StatusMoves
<1>2. status' \in [Requests -> Statuses]
  BY DEF Typed
<1> QED BY <1>1, <1>2

\* The last callback of a read finds the request on the issued queue: while its later
\* pages wait for the FIL, one of them at least is not read yet.
LEMMA ReadEndsControl ==
  ASSUME Control, NEW r \in Requests, ReadEnds(r)
  PROVE  /\ Control'
         /\ done[r] + 1 = count[r] => status[r] = "READ_NAND_ISSUED"
         /\ status[r] \in {"READ_WAIT", "READ_NAND_ISSUED"}
<1>1. /\ FilRuns /\ reads[r] > 0
      /\ reads' = [reads EXCEPT ![r] = @ - 1]
      /\ done' = [done EXCEPT ![r] = @ + 1]
      /\ UNCHANGED <<at, spinning, idx, count, bufs, mark, waitQ, hdmaQ,
                     poolVars, unitVars, dmaVars>>
      /\ IF done[r] + 1 = count[r]
         THEN /\ issuedQ' = issuedQ \ {r}
              /\ doneQ' = Append(doneQ, r)
              /\ status' = [status EXCEPT ![r] = NextStatus[@]]
         ELSE UNCHANGED <<issuedQ, doneQ, status>>
  BY DEF ReadEnds
<1>2. /\ Typed /\ QueuesSound /\ PhaseSound /\ RequestSound(r)
      /\ status[r] \in Statuses /\ count[r] \in Nat /\ done[r] \in Nat /\ reads[r] \in Nat
      /\ idx \in Nat
  BY DEF Control, Typed
<1>3. at # "TX" /\ (at = "READ" => spinning)
  BY <1>1, <1>2 DEF FilRuns, PhaseSound
<1>4. status[r] \in {"READ_WAIT", "READ_NAND_ISSUED"}
  BY <1>1, <1>2 DEF RequestSound, Statuses
<1>5. status[r] = "READ_WAIT" => at = "READ" /\ r = Head(waitQ) /\ done[r] + reads[r] < count[r]
  <2>1. ASSUME status[r] = "READ_WAIT"
        PROVE  at = "READ" /\ r = Head(waitQ) /\ done[r] + reads[r] < count[r]
    <3>1. done[r] + reads[r] = Taken(r)
      BY <1>2, <2>1 DEF RequestSound
    <3>2. at = "READ" /\ r = Head(waitQ)
      BY <1>1, <1>2, <3>1 DEF Taken
    <3> QED BY <1>2, <1>3, <3>1, <3>2 DEF Taken, PhaseSound
  <2> QED BY <2>1
<1>6. done[r] + 1 = count[r] => status[r] = "READ_NAND_ISSUED"
  BY <1>1, <1>2, <1>4, <1>5
<1>7. \A x \in Requests : Taken(x)' = Taken(x)
  BY <1>1 DEF Taken
<1>8. /\ reads' \in [Requests -> Nat] /\ done' \in [Requests -> Nat]
      /\ \A x \in Requests : x # r => reads'[x] = reads[x] /\ done'[x] = done[x]
      /\ reads'[r] = reads[r] - 1 /\ done'[r] = done[r] + 1
  BY <1>1, <1>2 DEF Typed
<1>9. CASE done[r] + 1 # count[r]
  <2>1. UNCHANGED <<issuedQ, doneQ, status>>
    BY <1>1, <1>9
  <2>2. Typed'
    BY <1>1, <1>2, <1>8, <2>1 DEF Typed, poolVars, unitVars, dmaVars
  <2>3. QueuesSound'
    BY <1>1, <1>2, <2>1, QueuesStay
  <2>4. PhaseSound'
    BY <1>1, <1>2, <1>3, <1>8, <2>1 DEF PhaseSound
  <2>5. ASSUME NEW x \in Requests
        PROVE  RequestSound(x)'
    <3>1. RequestSound(x) /\ Taken(x)' = Taken(x)
      BY <1>7 DEF Control
    <3>2. CASE x = r
      <4>1. /\ status'[r] = status[r] /\ count'[r] = count[r] /\ bufs'[r] = bufs[r]
            /\ done'[r] <= count[r]
            /\ status[r] = "READ_NAND_ISSUED" => reads'[r] > 0
        <5>1. PICK c, d, k : c = count[r] /\ d = done[r] /\ k = reads[r]
          OBVIOUS
        <5>2. /\ c \in Nat /\ d \in Nat /\ k \in Nat /\ d + k <= c /\ d + 1 # c /\ k > 0
              /\ status[r] = "READ_NAND_ISSUED" => d + k = c
          BY <1>1, <1>2, <1>4, <1>5, <1>9, <5>1 DEF RequestSound
        <5>3. d + 1 <= c /\ (d + k = c => k - 1 > 0)
          BY <5>2
        <5> QED BY <1>1, <1>8, <2>1, <5>1, <5>2, <5>3
      <4>2. done'[r] + reads'[r] = done[r] + reads[r]
        BY <1>2, <1>8
      <4> QED BY <1>1, <1>2, <1>4, <2>1, <3>1, <3>2, <4>1, <4>2 DEF RequestSound
    <3>3. CASE x # r
      BY <1>1, <1>8, <2>1, <3>1, <3>3 DEF RequestSound
    <3> QED BY <3>2, <3>3
  <2> QED BY <1>4, <1>6, <2>2, <2>3, <2>4, <2>5 DEF Control
<1>10. CASE done[r] + 1 = count[r]
  <2>1. status[r] = "READ_NAND_ISSUED"
    BY <1>6, <1>10
  <2>2. /\ status' = [status EXCEPT ![r] = "READ_NAND_DONE"]
        /\ issuedQ' = issuedQ \ {r} /\ doneQ' = Append(doneQ, r)
    BY <1>1, <1>10, <2>1 DEF NextStatus
  <2>3. r \notin ToSet(doneQ)
    BY <1>2, <2>1 DEF QueuesSound, In, InDone
  <2>4. doneQ' \in Seq(Requests) /\ Injective(doneQ') /\ ToSet(doneQ') = ToSet(doneQ) \union {r}
    BY <1>2, <2>2, <2>3, AddFacts DEF Typed, QueuesSound
  <2>5. /\ status' \in [Requests -> Statuses]
        /\ In(InWait)' = In(InWait) \ {r}
        /\ In({"READ_NAND_ISSUED"})' = In({"READ_NAND_ISSUED"}) \ {r}
        /\ In(InDone)' = In(InDone) \union {r}
        /\ In({"READ_HDMA_ISSUE"})' = In({"READ_HDMA_ISSUE"}) \ {r}
    <3>1. "READ_NAND_DONE" \in Statuses /\ "READ_NAND_DONE" \notin InWait
          /\ "READ_NAND_DONE" \in InDone
      BY DEF Statuses, InWait, InDone
    <3> QED BY <1>2, <2>2, <3>1, OneMoves
  <2>6. r \notin In(InWait) /\ r \notin In({"READ_HDMA_ISSUE"})
    BY <2>1 DEF In, InWait
  <2>7. QueuesSound'
    <3>1. UNCHANGED <<waitQ, hdmaQ>>
      BY <1>1
    <3>2. In(InWait)' = In(InWait) /\ In({"READ_HDMA_ISSUE"})' = In({"READ_HDMA_ISSUE"})
      BY <2>5, <2>6
    <3> HIDE DEF In
    <3> QED BY <1>2, <2>2, <2>4, <2>5, <3>1, <3>2 DEF QueuesSound
  <2>8. Typed'
    BY <1>1, <1>2, <1>8, <2>4, <2>5 DEF Typed, poolVars, unitVars, dmaVars
  <2>9. \A x \in Requests : x # r => status'[x] = status[x]
    BY <1>2, <2>2 DEF Typed
  <2>10. status'[r] = "READ_NAND_DONE"
    BY <1>2, <2>2 DEF Typed
  <2>11. waitQ # <<>> => Head(waitQ) \in Requests
    BY <1>2 DEF Typed
  <2>12. PhaseSound'
    BY <1>1, <1>2, <1>3, <1>8, <2>1, <2>9, <2>11 DEF PhaseSound
  <2>13. ASSUME NEW x \in Requests
         PROVE  RequestSound(x)'
    <3>1. RequestSound(x) /\ Taken(x)' = Taken(x)
      BY <1>7 DEF Control
    <3>2. CASE x = r
      <4>1. /\ count'[r] = count[r] /\ bufs'[r] = count[r] /\ count[r] >= 1
            /\ done'[r] = count[r] /\ reads'[r] = 0
        BY <1>1, <1>2, <1>8, <1>10, <2>1 DEF RequestSound
      <4> QED BY <1>2, <2>10, <3>2, <4>1 DEF RequestSound
    <3>3. CASE x # r
      BY <1>1, <1>8, <2>9, <3>1, <3>3 DEF RequestSound
    <3> QED BY <3>2, <3>3
  <2> QED BY <1>4, <1>6, <2>7, <2>8, <2>12, <2>13 DEF Control
<1> QED BY <1>4, <1>6, <1>9, <1>10

\* Which queue a request is on.
LEMMA WhereIs ==
  ASSUME QueuesSound, NEW r \in Requests
  PROVE  /\ r \in ToSet(waitQ) <=> status[r] \in InWait
         /\ r \in issuedQ <=> status[r] = "READ_NAND_ISSUED"
         /\ r \in ToSet(doneQ) <=> status[r] \in InDone
         /\ r \in ToSet(hdmaQ) <=> status[r] = "READ_HDMA_ISSUE"
BY DEF QueuesSound, In

\* A step that takes one request from its queue to that of its new status.
LEMMA MovesControl ==
  ASSUME Control, NEW r \in Requests, NEW v \in Statuses, status' = [status EXCEPT ![r] = v],
         Typed', PhaseSound', RequestSound(r)',
         Injective(waitQ'), Injective(doneQ'), Injective(hdmaQ'),
         ToSet(waitQ') = IF v \in InWait THEN ToSet(waitQ) \union {r} ELSE ToSet(waitQ) \ {r},
         issuedQ' = IF v = "READ_NAND_ISSUED" THEN issuedQ \union {r} ELSE issuedQ \ {r},
         ToSet(doneQ') = IF v \in InDone THEN ToSet(doneQ) \union {r} ELSE ToSet(doneQ) \ {r},
         ToSet(hdmaQ') = IF v = "READ_HDMA_ISSUE" THEN ToSet(hdmaQ) \union {r}
                                                  ELSE ToSet(hdmaQ) \ {r},
         \A x \in Requests : x # r =>
           /\ count'[x] = count[x] /\ done'[x] = done[x] /\ bufs'[x] = bufs[x] /\ reads'[x] = reads[x]
           /\ status[x] = "READ_WAIT" => Taken(x)' = Taken(x)
  PROVE  Control'
<1>1. Typed /\ QueuesSound
  BY DEF Control
<1>2. QueuesSound'
  <2>1. /\ In(InWait)' = IF v \in InWait THEN In(InWait) \union {r} ELSE In(InWait) \ {r}
        /\ In({"READ_NAND_ISSUED"})' = IF v = "READ_NAND_ISSUED"
                                       THEN In({"READ_NAND_ISSUED"}) \union {r}
                                       ELSE In({"READ_NAND_ISSUED"}) \ {r}
        /\ In(InDone)' = IF v \in InDone THEN In(InDone) \union {r} ELSE In(InDone) \ {r}
        /\ In({"READ_HDMA_ISSUE"})' = IF v = "READ_HDMA_ISSUE"
                                      THEN In({"READ_HDMA_ISSUE"}) \union {r}
                                      ELSE In({"READ_HDMA_ISSUE"}) \ {r}
    BY <1>1, OneMoves
  <2> HIDE DEF In
  <2>2. /\ ToSet(waitQ) = In(InWait) /\ issuedQ = In({"READ_NAND_ISSUED"})
        /\ ToSet(doneQ) = In(InDone) /\ ToSet(hdmaQ) = In({"READ_HDMA_ISSUE"})
    BY <1>1 DEF QueuesSound
  <2> QED BY <2>1, <2>2 DEF QueuesSound
<1>3. ASSUME NEW x \in Requests, x # r
      PROVE  RequestSound(x)'
  <2>1. RequestSound(x) /\ status'[x] = status[x]
    BY <1>1, <1>3 DEF Control, Typed
  <2> QED BY <1>3, <2>1 DEF RequestSound
<1>4. \A x \in Requests : RequestSound(x)'
  BY <1>3
<1> QED BY <1>2, <1>4 DEF Control

\* The head of the done queue, and what is left when it goes.
LEMMA DoneHead ==
  ASSUME Control, doneQ # <<>>
  PROVE  /\ Head(doneQ) \in Requests /\ status[Head(doneQ)] \in InDone
         /\ Head(doneQ) \notin ToSet(waitQ) /\ Head(doneQ) \notin issuedQ
         /\ Head(doneQ) \notin ToSet(hdmaQ)
         /\ Tail(doneQ) \in Seq(Requests) /\ Injective(Tail(doneQ))
         /\ ToSet(Tail(doneQ)) = ToSet(doneQ) \ {Head(doneQ)}
<1>1. Typed /\ QueuesSound
  BY DEF Control
<1>2. doneQ \in Seq(Requests) /\ Injective(doneQ)
  BY <1>1 DEF Typed, QueuesSound
<1>3. /\ Head(doneQ) \in Requests /\ Head(doneQ) \in ToSet(doneQ)
      /\ Tail(doneQ) \in Seq(Requests) /\ Injective(Tail(doneQ))
      /\ ToSet(Tail(doneQ)) = ToSet(doneQ) \ {Head(doneQ)}
  BY <1>2, QueueFacts
<1>4. status[Head(doneQ)] \in InDone
  BY <1>1, <1>3, WhereIs
<1> QED BY <1>1, <1>3, <1>4, WhereIs DEF InDone, InWait

\* The same of the wait queue and of the queue of the transfers.
LEMMA WaitHead ==
  ASSUME Control, waitQ # <<>>
  PROVE  /\ Head(waitQ) \in Requests /\ status[Head(waitQ)] \in InWait
         /\ Head(waitQ) \notin ToSet(doneQ) /\ Head(waitQ) \notin issuedQ
         /\ Head(waitQ) \notin ToSet(hdmaQ)
         /\ Tail(waitQ) \in Seq(Requests) /\ Injective(Tail(waitQ))
         /\ ToSet(Tail(waitQ)) = ToSet(waitQ) \ {Head(waitQ)}
<1>1. Typed /\ QueuesSound
  BY DEF Control
<1>2. waitQ \in Seq(Requests) /\ Injective(waitQ)
  BY <1>1 DEF Typed, QueuesSound
<1>3. /\ Head(waitQ) \in Requests /\ Head(waitQ) \in ToSet(waitQ)
      /\ Tail(waitQ) \in Seq(Requests) /\ Injective(Tail(waitQ))
      /\ ToSet(Tail(waitQ)) = ToSet(waitQ) \ {Head(waitQ)}
  BY <1>2, QueueFacts
<1>4. status[Head(waitQ)] \in InWait
  BY <1>1, <1>3, WhereIs
<1> QED BY <1>1, <1>3, <1>4, WhereIs DEF InDone, InWait

LEMMA HdmaHead ==
  ASSUME Control, hdmaQ # <<>>
  PROVE  /\ Head(hdmaQ) \in Requests /\ status[Head(hdmaQ)] = "READ_HDMA_ISSUE"
         /\ Head(hdmaQ) \notin ToSet(waitQ) /\ Head(hdmaQ) \notin issuedQ
         /\ Head(hdmaQ) \notin ToSet(doneQ)
         /\ Tail(hdmaQ) \in Seq(Requests) /\ Injective(Tail(hdmaQ))
         /\ ToSet(Tail(hdmaQ)) = ToSet(hdmaQ) \ {Head(hdmaQ)}
<1>1. Typed /\ QueuesSound
  BY DEF Control
<1>2. hdmaQ \in Seq(Requests) /\ Injective(hdmaQ)
  BY <1>1 DEF Typed, QueuesSound
<1>3. /\ Head(hdmaQ) \in Requests /\ Head(hdmaQ) \in ToSet(hdmaQ)
      /\ Tail(hdmaQ) \in Seq(Requests) /\ Injective(Tail(hdmaQ))
      /\ ToSet(Tail(hdmaQ)) = ToSet(hdmaQ) \ {Head(hdmaQ)}
  BY <1>2, QueueFacts
<1>4. status[Head(hdmaQ)] = "READ_HDMA_ISSUE"
  BY <1>1, <1>3, WhereIs
<1> QED BY <1>1, <1>3, <1>4, WhereIs DEF InDone, InWait

\* The transfers of a read are issued, or over.
LEMMA TransferMoves ==
  ASSUME Control, TxIssued \/ HdmaDone
  PROVE  Control'
<1>1. Typed /\ QueuesSound /\ PhaseSound
  BY DEF Control
<1>2. CASE TxIssued
  <2>1. PICK r : r = Head(doneQ)
    OBVIOUS
  <2>2. /\ doneQ # <<>> /\ status[r] = "READ_NAND_DONE" /\ at = "TX"
    BY <1>1, <1>2, <2>1 DEF TxIssued, PhaseSound
  <2>3. /\ r \in Requests /\ r \notin ToSet(waitQ) /\ r \notin issuedQ /\ r \notin ToSet(hdmaQ)
        /\ Tail(doneQ) \in Seq(Requests) /\ Injective(Tail(doneQ))
        /\ ToSet(Tail(doneQ)) = ToSet(doneQ) \ {r}
    BY <2>1, <2>2, DoneHead
  <2>4. /\ at' = "DONE" /\ idx' = 0
        /\ mark' = [mark EXCEPT ![r] = [tail |-> tx.tail, over |-> tx.over]]
        /\ status' = [status EXCEPT ![r] = "READ_HDMA_ISSUE"]
        /\ doneQ' = Tail(doneQ)
        /\ hdmaQ' = Append(hdmaQ, r)
        /\ UNCHANGED <<spinning, count, done, bufs, reads, waitQ, issuedQ,
                       poolVars, unitVars, dmaVars>>
    BY <1>2, <2>1, <2>2 DEF TxIssued, NextStatus
  <2>5. /\ hdmaQ' \in Seq(Requests) /\ Injective(hdmaQ') /\ ToSet(hdmaQ') = ToSet(hdmaQ) \union {r}
    BY <1>1, <2>3, <2>4, AddFacts DEF Typed, QueuesSound
  <2>6. mark' \in [Requests -> Marks]
    BY <1>1, <2>3, <2>4 DEF Typed, Marks
  <2>7. status' \in [Requests -> Statuses] /\ "READ_HDMA_ISSUE" \in Statuses
    BY <1>1, <2>4 DEF Typed, Statuses
  <2>8. Typed'
    BY <1>1, <2>3, <2>4, <2>5, <2>6, <2>7 DEF Typed, Phases, poolVars, unitVars, dmaVars
  <2>9. PhaseSound'
    BY <1>1, <2>2, <2>4 DEF PhaseSound
  <2>10. \A x \in Requests : Taken(x)' = 0 /\ Taken(x) = 0
    BY <2>2, <2>4 DEF Taken
  <2>11. RequestSound(r)'
    <3>1. RequestSound(r) /\ status'[r] = "READ_HDMA_ISSUE"
      BY <1>1, <2>3, <2>4 DEF Control, Typed
    <3> QED BY <2>2, <2>4, <3>1 DEF RequestSound
  <2>12. /\ Injective(waitQ') /\ Injective(doneQ')
         /\ ToSet(waitQ') = ToSet(waitQ) \ {r} /\ issuedQ' = issuedQ \ {r}
         /\ ToSet(doneQ') = ToSet(doneQ) \ {r}
    BY <1>1, <2>3, <2>4 DEF QueuesSound
  <2>13. "READ_HDMA_ISSUE" \notin InWait /\ "READ_HDMA_ISSUE" \notin InDone
    BY DEF InWait, InDone
  <2>14. \A x \in Requests : x # r =>
           /\ count'[x] = count[x] /\ done'[x] = done[x] /\ bufs'[x] = bufs[x] /\ reads'[x] = reads[x]
           /\ status[x] = "READ_WAIT" => Taken(x)' = Taken(x)
    BY <2>4, <2>10
  <2> QED BY <2>3, <2>4, <2>5, <2>7, <2>8, <2>9, <2>11, <2>12, <2>13, <2>14, MovesControl
<1>3. CASE HdmaDone
  <2>1. PICK r : r = Head(hdmaQ)
    OBVIOUS
  <2>2. hdmaQ # <<>> /\ at = "HDMA"
    BY <1>3 DEF HdmaDone
  <2>3. /\ r \in Requests /\ r \notin ToSet(waitQ) /\ r \notin issuedQ /\ r \notin ToSet(doneQ)
        /\ Tail(hdmaQ) \in Seq(Requests) /\ Injective(Tail(hdmaQ))
        /\ ToSet(Tail(hdmaQ)) = ToSet(hdmaQ) \ {r} /\ status[r] = "READ_HDMA_ISSUE"
    BY <2>1, <2>2, HdmaHead
  <2>4. /\ status' = [status EXCEPT ![r] = "READ_DONE"]
        /\ hdmaQ' = Tail(hdmaQ)
        /\ doneQ' = Append(doneQ, r)
        /\ UNCHANGED <<at, spinning, idx, count, done, bufs, mark, reads, waitQ, issuedQ,
                       poolVars, unitVars, dmaVars>>
    BY <1>3, <2>1, <2>3 DEF HdmaDone, NextStatus
  <2>5. /\ doneQ' \in Seq(Requests) /\ Injective(doneQ') /\ ToSet(doneQ') = ToSet(doneQ) \union {r}
    BY <1>1, <2>3, <2>4, AddFacts DEF Typed, QueuesSound
  <2>6. status' \in [Requests -> Statuses] /\ "READ_DONE" \in Statuses
    BY <1>1, <2>4 DEF Typed, Statuses
  <2>7. Typed'
    BY <1>1, <2>3, <2>4, <2>5, <2>6 DEF Typed, Phases, poolVars, unitVars, dmaVars
  <2>8. PhaseSound'
    BY <1>1, <2>2, <2>4 DEF PhaseSound
  <2>9. \A x \in Requests : Taken(x)' = 0 /\ Taken(x) = 0
    BY <2>2, <2>4 DEF Taken
  <2>10. RequestSound(r)'
    <3>1. RequestSound(r) /\ status'[r] = "READ_DONE"
      BY <1>1, <2>3, <2>4 DEF Control, Typed
    <3> QED BY <2>3, <2>4, <3>1 DEF RequestSound
  <2>11. /\ Injective(waitQ') /\ Injective(hdmaQ')
         /\ ToSet(waitQ') = ToSet(waitQ) \ {r} /\ issuedQ' = issuedQ \ {r}
         /\ ToSet(hdmaQ') = ToSet(hdmaQ) \ {r}
    BY <1>1, <2>3, <2>4 DEF QueuesSound
  <2>12. "READ_DONE" \notin InWait /\ "READ_DONE" \in InDone
    BY DEF InWait, InDone
  <2>13. \A x \in Requests : x # r =>
           /\ count'[x] = count[x] /\ done'[x] = done[x] /\ bufs'[x] = bufs[x] /\ reads'[x] = reads[x]
           /\ status[x] = "READ_WAIT" => Taken(x)' = Taken(x)
    BY <2>4, <2>9
  <2> QED BY <2>3, <2>4, <2>5, <2>6, <2>7, <2>8, <2>10, <2>11, <2>12, <2>13, MovesControl
<1> QED BY <1>2, <1>3

\* A request goes back to the pool.
LEMMA ReleaseControl ==
  ASSUME Control, ReadDone \/ WriteDone
  PROVE  Control'
<1>1. Typed /\ QueuesSound /\ PhaseSound
  BY DEF Control
<1>2. PICK r : r = Head(doneQ)
  OBVIOUS
<1>3. /\ at = "DONE" /\ doneQ # <<>> /\ Released(r)
      /\ UNCHANGED <<at, spinning, idx, reads, waitQ, issuedQ, hdmaQ, others, unitVars, dmaVars>>
      /\ status[r] \in {"READ_DONE", "WRITE_DONE"}
  BY <1>2 DEF ReadDone, WriteDone, poolVars
<1>4. /\ r \in Requests /\ r \notin ToSet(waitQ) /\ r \notin issuedQ /\ r \notin ToSet(hdmaQ)
      /\ Tail(doneQ) \in Seq(Requests) /\ Injective(Tail(doneQ))
      /\ ToSet(Tail(doneQ)) = ToSet(doneQ) \ {r}
  BY <1>2, <1>3, DoneHead
<1>5. RequestSound(r) /\ bufs[r] \in Nat /\ free \in Int /\ count[r] \in 0..MaxCount
  BY <1>1, <1>4 DEF Control, Typed
<1>6. bufs' = [bufs EXCEPT ![r] = 0] /\ free' \in Int
  <2>1. CASE ReadDone
    BY <1>2, <1>5, <2>1 DEF ReadDone
  <2>2. CASE WriteDone
    <3>1. bufs[r] = 0 /\ bufs' = bufs /\ free' = free
      BY <1>2, <1>5, <2>2 DEF WriteDone, RequestSound, poolVars
    <3> QED BY <1>1, <1>5, <3>1 DEF Typed
  <2> QED BY <2>1, <2>2
<1>7. /\ status' = [status EXCEPT ![r] = "FREE"] /\ doneQ' = Tail(doneQ)
      /\ count' = [count EXCEPT ![r] = 0] /\ done' = [done EXCEPT ![r] = 0]
      /\ mark' = [mark EXCEPT ![r] = NoMark]
  BY <1>3 DEF Released
<1>8. /\ status' \in [Requests -> Statuses] /\ count' \in [Requests -> 0..MaxCount]
      /\ done' \in [Requests -> Nat] /\ bufs' \in [Requests -> Nat]
      /\ mark' \in [Requests -> Marks] /\ "FREE" \in Statuses
  <2>1. NoMark \in Marks /\ 0 \in 0..MaxCount
    BY SizeFacts DEF NoMark, Marks
  <2> QED BY <1>1, <1>6, <1>7, <2>1 DEF Typed, Statuses
<1>9. Typed'
  BY <1>1, <1>3, <1>4, <1>6, <1>7, <1>8 DEF Typed, unitVars, dmaVars
<1>10. PhaseSound'
  BY <1>1, <1>3 DEF PhaseSound
<1>11. RequestSound(r)'
  <2>1. /\ status'[r] = "FREE" /\ count'[r] = 0 /\ done'[r] = 0 /\ bufs'[r] = 0
        /\ reads'[r] = 0
    BY <1>1, <1>3, <1>4, <1>5, <1>6, <1>7 DEF Typed, RequestSound
  <2> QED BY <2>1 DEF RequestSound
<1>12. /\ Injective(waitQ') /\ Injective(doneQ') /\ Injective(hdmaQ')
       /\ ToSet(waitQ') = ToSet(waitQ) \ {r} /\ issuedQ' = issuedQ \ {r}
       /\ ToSet(doneQ') = ToSet(doneQ) \ {r} /\ ToSet(hdmaQ') = ToSet(hdmaQ) \ {r}
  BY <1>1, <1>3, <1>4, <1>7 DEF QueuesSound
<1>13. "FREE" \notin InWait /\ "FREE" \notin InDone
  BY DEF InWait, InDone
<1>14. \A x \in Requests : x # r =>
         /\ count'[x] = count[x] /\ done'[x] = done[x] /\ bufs'[x] = bufs[x] /\ reads'[x] = reads[x]
         /\ status[x] = "READ_WAIT" => Taken(x)' = Taken(x)
  BY <1>1, <1>3, <1>6, <1>7 DEF Typed, Taken
<1> QED BY <1>4, <1>7, <1>8, <1>9, <1>10, <1>11, <1>12, <1>13, <1>14, MovesControl

\* A command is begun, or the next page of a write, or a unit is issued.
LEMMA StartControl ==
  ASSUME Control, Served \/ IssueProgram
  PROVE  Control'
<1>1. Typed /\ QueuesSound /\ PhaseSound
  BY DEF Control
<1>2. UNCHANGED <<reqVars, queueVars, others, dmaVars>>
  BY DEF Served, ReadStart, WritePage, IssueProgram, poolVars, unitVars
<1>3. CASE ReadStart
  <2>1. /\ at = "WAIT" /\ waitQ # <<>> /\ status[Head(waitQ)] = "READ_WAIT" /\ at' = "READ" /\ idx' = 0
        /\ UNCHANGED <<spinning, poolVars, unitVars>>
    BY <1>3 DEF ReadStart
  <2>2. Head(waitQ) \in Requests /\ count[Head(waitQ)] \in Nat
    BY <1>1, <2>1 DEF Typed
  <2>3. Typed'
    BY <1>1, <1>2, <2>1 DEF Typed, Phases, reqVars, queueVars, poolVars, unitVars, dmaVars
  <2>4. PhaseSound'
    BY <1>1, <1>2, <2>1, <2>2 DEF PhaseSound, reqVars, queueVars
  <2>5. \A x \in Requests : Taken(x)' = Taken(x)
    BY <2>1 DEF Taken
  <2> QED BY <1>2, <2>3, <2>4, <2>5, SameRequests
<1>4. CASE WritePage
  <2>1. /\ at = "WAIT" /\ waitQ # <<>> /\ status[Head(waitQ)] = "WRITE_WAIT" /\ at' = "RX"
        /\ done[Head(waitQ)] < count[Head(waitQ)]
        /\ free' \in {free, free - 1}
        /\ UNCHANGED <<spinning, idx, unitVars>>
    BY <1>4 DEF WritePage
  <2>2. free' \in Int
    BY <1>1, <2>1 DEF Typed
  <2>3. Typed'
    BY <1>1, <1>2, <2>1, <2>2 DEF Typed, Phases, reqVars, queueVars, unitVars, dmaVars
  <2>4. PhaseSound'
    BY <1>1, <1>2, <2>1 DEF PhaseSound, reqVars, queueVars
  <2>5. \A x \in Requests : Taken(x)' = Taken(x)
    BY <2>1 DEF Taken
  <2> QED BY <1>2, <2>3, <2>4, <2>5, SameRequests
<1>5. CASE IssueProgram
  <2>1. /\ at = "PROGRAM" /\ at' = "WAIT_RX" /\ spinning' = FALSE
        /\ unit' = [unit EXCEPT ![cur].programming = TRUE]
        /\ cur' = (cur + 1) % UnitCount
        /\ UNCHANGED <<idx, poolVars>>
    BY <1>5 DEF IssueProgram
  <2>2. cur' \in Units
    <3>1. cur + 1 \in Nat
      BY <1>1, SizeFacts DEF Typed
    <3> QED BY <2>1, <3>1, SizeFacts, DivMod
  <2>3. unit' \in [Units -> [pages : Nat, programming : BOOLEAN]]
    BY <1>1, <2>1 DEF Typed
  <2>4. Typed'
    BY <1>1, <1>2, <2>1, <2>2, <2>3 DEF Typed, Phases, reqVars, queueVars, poolVars, dmaVars
  <2>5. PhaseSound'
    BY <2>1 DEF PhaseSound
  <2>6. \A x \in Requests : Taken(x)' = Taken(x)
    BY <2>1 DEF Taken
  <2> QED BY <1>2, <2>4, <2>5, <2>6, SameRequests
<1> QED BY <1>3, <1>4, <1>5 DEF Served

\* The next page of the read at the head takes its buffer.
LEMMA TakeControl ==
  ASSUME Control, ReadHit \/ ReadPage
  PROVE  Control'
<1>1. Typed /\ QueuesSound /\ PhaseSound
  BY DEF Control
<1>2. PICK r : r = Head(waitQ)
  OBVIOUS
<1>3. /\ at = "READ" /\ idx < count[r] /\ idx' = idx + 1 /\ free' = free - 1
      /\ bufs' = [bufs EXCEPT ![r] = @ + 1]
      /\ spinning' = FALSE
      /\ UNCHANGED <<at, status, count, mark, queueVars, others, unitVars, dmaVars>>
  BY <1>1, <1>2 DEF ReadHit, ReadPage, TakeBuffer, Typed
<1>4. waitQ # <<>> /\ status[r] = "READ_WAIT" /\ r \in Requests
  BY <1>1, <1>2, <1>3, WaitHead DEF PhaseSound
<1>5. /\ idx \in Nat /\ count[r] \in 0..MaxCount /\ bufs[r] \in Nat /\ free \in Int
      /\ done[r] \in Nat /\ reads[r] \in Nat
      /\ bufs[r] = idx /\ done[r] + reads[r] = idx /\ count[r] >= 1
  BY <1>1, <1>2, <1>3, <1>4 DEF Control, Typed, RequestSound, Taken
<1>6. \/ done' = [done EXCEPT ![r] = @ + 1] /\ reads' = reads
      \/ reads' = [reads EXCEPT ![r] = @ + 1] /\ done' = done
  BY <1>2 DEF ReadHit, ReadPage
<1>7. /\ done' \in [Requests -> Nat] /\ reads' \in [Requests -> Nat] /\ bufs' \in [Requests -> Nat]
      /\ done'[r] \in Nat /\ reads'[r] \in Nat
      /\ done'[r] + reads'[r] = idx + 1 /\ bufs'[r] = idx + 1
      /\ \A x \in Requests : x # r => done'[x] = done[x] /\ reads'[x] = reads[x] /\ bufs'[x] = bufs[x]
  <2>1. /\ done \in [Requests -> Nat] /\ reads \in [Requests -> Nat] /\ bufs \in [Requests -> Nat]
        /\ done[r] + 1 \in Nat /\ reads[r] + 1 \in Nat /\ bufs[r] + 1 = idx + 1 /\ bufs[r] + 1 \in Nat
        /\ (done[r] + 1) + reads[r] = idx + 1 /\ done[r] + (reads[r] + 1) = idx + 1
    <3>1. PICK d, k, b, i : d = done[r] /\ k = reads[r] /\ b = bufs[r] /\ i = idx
      OBVIOUS
    <3>2. d \in Nat /\ k \in Nat /\ b \in Nat /\ i \in Nat /\ b = i /\ d + k = i
      BY <1>5, <3>1
    <3>3. /\ d + 1 \in Nat /\ k + 1 \in Nat /\ b + 1 = i + 1 /\ b + 1 \in Nat
          /\ (d + 1) + k = i + 1 /\ d + (k + 1) = i + 1
      BY <3>2
    <3> QED BY <1>1, <3>1, <3>3 DEF Typed
  <2>2. bufs' \in [Requests -> Nat] /\ bufs'[r] = idx + 1 /\ \A x \in Requests : x # r => bufs'[x] = bufs[x]
    BY <1>3, <1>4, <2>1
  <2>3. CASE done' = [done EXCEPT ![r] = @ + 1] /\ reads' = reads
    <3>1. done' \in [Requests -> Nat] /\ done'[r] = done[r] + 1 /\ \A x \in Requests : x # r => done'[x] = done[x]
      BY <1>4, <2>1, <2>3
    <3> QED BY <1>5, <2>1, <2>2, <2>3, <3>1
  <2>4. CASE reads' = [reads EXCEPT ![r] = @ + 1] /\ done' = done
    <3>1. reads' \in [Requests -> Nat] /\ reads'[r] = reads[r] + 1 /\ \A x \in Requests : x # r => reads'[x] = reads[x]
      BY <1>4, <2>1, <2>4
    <3> QED BY <1>5, <2>1, <2>2, <2>4, <3>1
  <2> QED BY <1>6, <2>3, <2>4
<1>8. Typed'
  <2>1. free' \in Int /\ idx' \in Nat
    BY <1>3, <1>5
  <2> QED BY <1>1, <1>3, <1>7, <2>1 DEF Typed, queueVars, unitVars, dmaVars
<1>9. PhaseSound'
  <2>1. idx' <= count'[Head(waitQ)']
    <3>1. count[r] \in Nat
      BY <1>5
    <3> QED BY <1>2, <1>3, <1>5, <3>1 DEF queueVars
  <2> QED BY <1>2, <1>3, <1>4, <2>1 DEF PhaseSound, queueVars
<1>10. ASSUME NEW x \in Requests
       PROVE  RequestSound(x)'
  <2>1. CASE x = r
    <3>1. Taken(r)' = idx + 1
      BY <1>2, <1>3 DEF Taken, queueVars
    <3>2. status'[r] = "READ_WAIT" /\ count'[r] = count[r] /\ done'[r] <= count[r]
      <4>1. count[r] \in Nat
        BY <1>5
      <4> QED BY <1>3, <1>4, <1>5, <1>7, <4>1
    <3> QED BY <1>5, <1>7, <2>1, <3>1, <3>2 DEF RequestSound
  <2>2. CASE x # r
    <3>1. Taken(x)' = Taken(x) /\ RequestSound(x)
      BY <1>2, <1>3, <2>2 DEF Taken, queueVars, Control
    <3> QED BY <1>3, <1>7, <2>2, <3>1 DEF RequestSound
  <2> QED BY <2>1, <2>2
<1>11. QueuesSound'
  BY <1>1, <1>3, QueuesStay DEF queueVars
<1>12. \A x \in Requests : RequestSound(x)'
  BY <1>10
<1> QED BY <1>8, <1>9, <1>11, <1>12 DEF Control

\* A page of a write is added to the unit.
LEMMA AddControl ==
  ASSUME Control, IssueRx
  PROVE  Control'
<1>1. Typed /\ QueuesSound /\ PhaseSound
  BY DEF Control
<1>2. PICK r : r = Head(waitQ)
  OBVIOUS
<1>3. /\ at = "RX" /\ at' \in {"PROGRAM", "WAIT"}
      /\ unit' = [unit EXCEPT ![cur].pages = @ + 1]
      /\ done' = [done EXCEPT ![r] = @ + 1]
      /\ UNCHANGED <<spinning, idx, status, count, bufs, mark, reads, queueVars, poolVars, cur, tx>>
  BY <1>2 DEF IssueRx
<1>4. waitQ # <<>> /\ status[r] = "WRITE_WAIT" /\ r \in Requests /\ done[r] < count[r]
  BY <1>1, <1>2, <1>3, WaitHead DEF PhaseSound
<1>5. /\ done' \in [Requests -> Nat] /\ done'[r] = done[r] + 1 /\ done[r] \in Nat /\ count[r] \in Nat
      /\ \A x \in Requests : x # r => done'[x] = done[x]
  <2>1. done \in [Requests -> Nat] /\ count[r] \in 0..MaxCount
    BY <1>1, <1>4 DEF Typed
  <2>2. done[r] \in Nat /\ count[r] \in Nat
    BY <1>4, <2>1
  <2>3. done' = [done EXCEPT ![r] = done[r] + 1] /\ done[r] + 1 \in Nat
    BY <1>3, <2>2
  <2> QED BY <1>4, <2>1, <2>2, <2>3
<1>6. unit' \in [Units -> [pages : Nat, programming : BOOLEAN]]
  <2>1. /\ unit \in [Units -> [pages : Nat, programming : BOOLEAN]] /\ cur \in Units
        /\ unit[cur].pages \in Nat
    BY <1>1 DEF Typed
  <2>2. [unit[cur] EXCEPT !.pages = @ + 1] \in [pages : Nat, programming : BOOLEAN]
    BY <2>1
  <2>3. unit' = [unit EXCEPT ![cur] = [unit[cur] EXCEPT !.pages = @ + 1]]
    BY <1>3
  <2> QED BY <2>1, <2>2, <2>3
<1>7. Typed'
  BY <1>1, <1>3, <1>5, <1>6 DEF Typed, Phases, queueVars, poolVars
<1>8. PhaseSound'
  BY <1>1, <1>3 DEF PhaseSound
<1>9. ASSUME NEW x \in Requests
      PROVE  RequestSound(x)'
  <2>1. Taken(x)' = Taken(x) /\ RequestSound(x)
    BY <1>3 DEF Taken, Control
  <2>2. done'[r] <= count[r]
    BY <1>4, <1>5
  <2>3. CASE x = r
    BY <1>3, <1>4, <2>1, <2>2, <2>3 DEF RequestSound
  <2>4. CASE x # r
    BY <1>3, <1>5, <2>1, <2>4 DEF RequestSound
  <2> QED BY <2>3, <2>4
<1>10. QueuesSound'
  BY <1>1, <1>3, QueuesStay DEF queueVars
<1>11. \A x \in Requests : RequestSound(x)'
  BY <1>9
<1> QED BY <1>7, <1>8, <1>10, <1>11 DEF Control

\* All pages of the read at the head are asked for, or all of the write are in units.
LEMMA WaitMoves ==
  ASSUME Control, ReadIssued \/ Written
  PROVE  Control'
<1>1. Typed /\ QueuesSound /\ PhaseSound
  BY DEF Control
<1>2. PICK r : r = Head(waitQ)
  OBVIOUS
<1>3. /\ waitQ # <<>>
      /\ \/ status[r] = "READ_WAIT" /\ ReadIssued
         \/ status[r] = "WRITE_WAIT" /\ Written
  <2>1. CASE ReadIssued
    <3>1. at = "READ"
      BY <2>1 DEF ReadIssued
    <3> QED BY <1>1, <1>2, <2>1, <3>1 DEF PhaseSound
  <2>2. CASE Written
    BY <1>2, <2>2 DEF Written
  <2> QED BY <2>1, <2>2
<1>4. /\ r \in Requests /\ r \notin ToSet(doneQ) /\ r \notin issuedQ /\ r \notin ToSet(hdmaQ)
      /\ Tail(waitQ) \in Seq(Requests) /\ Injective(Tail(waitQ))
      /\ ToSet(Tail(waitQ)) = ToSet(waitQ) \ {r}
  BY <1>2, <1>3, WaitHead
<1>5. /\ RequestSound(r) /\ Taken(r) = IF at = "READ" THEN idx ELSE 0
      /\ count[r] \in Nat /\ done[r] \in Nat /\ reads[r] \in Nat /\ bufs[r] \in Nat
  BY <1>1, <1>2, <1>4 DEF Control, Typed, Taken
<1>6. /\ waitQ' = Tail(waitQ)
      /\ UNCHANGED <<spinning, count, done, bufs, mark, reads, hdmaQ, poolVars, unitVars, dmaVars>>
      /\ at \in {"READ", "WAIT"} /\ at' = "WAIT" /\ idx' \in {idx, 0}
  BY <1>2 DEF ReadIssued, Written
<1>7. ~spinning
  <2>1. CASE ReadIssued
    BY <1>1, <1>2, <1>5, <2>1 DEF PhaseSound, ReadIssued
  <2>2. CASE Written
    BY <1>1, <2>2 DEF PhaseSound, Written
  <2> QED BY <1>3, <2>1, <2>2
\* The status it goes to.
<1>8. PICK v \in {"READ_NAND_ISSUED", "READ_NAND_DONE", "WRITE_DONE"} :
        /\ status' = [status EXCEPT ![r] = v]
        /\ issuedQ' = IF v = "READ_NAND_ISSUED" THEN issuedQ \union {r} ELSE issuedQ
        /\ doneQ' = IF v = "READ_NAND_ISSUED" THEN doneQ ELSE Append(doneQ, r)
        /\ v = "WRITE_DONE" => bufs[r] = 0 /\ reads[r] = 0
        /\ v # "WRITE_DONE" => bufs[r] = count[r] /\ done[r] + reads[r] = count[r]
        /\ v = "READ_NAND_ISSUED" => done[r] # count[r]
        /\ v = "READ_NAND_DONE" => done[r] = count[r]
  <2>1. CASE status[r] = "WRITE_WAIT" /\ Written
    <3>1. bufs[r] = 0 /\ reads[r] = 0
      BY <1>5, <2>1 DEF RequestSound
    <3> QED BY <1>2, <2>1, <3>1 DEF Written, NextStatus
  <2>2. CASE status[r] = "READ_WAIT" /\ ReadIssued
    <3>1. bufs[r] = count[r] /\ done[r] + reads[r] = count[r]
      <4>1. at = "READ" /\ idx = count[r]
        BY <1>2, <2>2 DEF ReadIssued
      <4> QED BY <1>5, <2>2, <4>1 DEF RequestSound
    <3>2. /\ NextStatus["READ_WAIT"] = "READ_NAND_ISSUED"
          /\ NextStatus[NextStatus["READ_WAIT"]] = "READ_NAND_DONE"
      BY DEF NextStatus
    <3>3. CASE done[r] = count[r]
      <4>1. /\ status' = [status EXCEPT ![r] = "READ_NAND_DONE"]
            /\ doneQ' = Append(doneQ, r) /\ issuedQ' = issuedQ
        BY <1>2, <2>2, <3>2, <3>3 DEF ReadIssued
      <4> QED BY <3>1, <3>3, <4>1
    <3>4. CASE done[r] # count[r]
      <4>1. /\ status' = [status EXCEPT ![r] = "READ_NAND_ISSUED"]
            /\ issuedQ' = issuedQ \union {r} /\ doneQ' = doneQ
        BY <1>2, <2>2, <3>2, <3>4 DEF ReadIssued
      <4> QED BY <3>1, <3>4, <4>1
    <3> QED BY <3>3, <3>4
  <2> QED BY <1>3, <2>1, <2>2
<1>9. /\ v \in Statuses /\ v \notin InWait /\ (v \in InDone <=> v # "READ_NAND_ISSUED")
      /\ v # "READ_HDMA_ISSUE"
  BY DEF Statuses, InWait, InDone
<1>10. /\ Append(doneQ, r) \in Seq(Requests) /\ Injective(Append(doneQ, r))
       /\ ToSet(Append(doneQ, r)) = ToSet(doneQ) \union {r}
  BY <1>1, <1>4, AddFacts DEF Typed, QueuesSound
<1>11. /\ doneQ' \in Seq(Requests) /\ Injective(doneQ')
       /\ ToSet(doneQ') = IF v \in InDone THEN ToSet(doneQ) \union {r} ELSE ToSet(doneQ) \ {r}
  <2>1. CASE v = "READ_NAND_ISSUED"
    <3>1. doneQ' = doneQ /\ v \notin InDone
      BY <1>8, <1>9, <2>1
    <3> QED BY <1>1, <1>4, <3>1 DEF Typed, QueuesSound
  <2>2. CASE v # "READ_NAND_ISSUED"
    <3>1. doneQ' = Append(doneQ, r) /\ v \in InDone
      BY <1>8, <1>9, <2>2
    <3> QED BY <1>10, <3>1
  <2> QED BY <2>1, <2>2
<1>12. status' \in [Requests -> Statuses] /\ status'[r] = v
  BY <1>1, <1>4, <1>8, <1>9 DEF Typed
<1>13. Typed'
  <2>1. idx' \in Nat
    BY <1>1, <1>6 DEF Typed
  <2> QED BY <1>1, <1>4, <1>6, <1>11, <1>12, <2>1 DEF Typed, Phases, poolVars, unitVars, dmaVars
<1>14. PhaseSound'
  BY <1>6, <1>7 DEF PhaseSound
<1>15. RequestSound(r)'
  <2>1. /\ count'[r] = count[r] /\ done'[r] = done[r] /\ bufs'[r] = bufs[r] /\ reads'[r] = reads[r]
    BY <1>6
  <2>2. /\ done[r] <= count[r] /\ count[r] >= 1
    BY <1>3, <1>5 DEF RequestSound
  <2>3. CASE v = "READ_NAND_ISSUED"
    <3>1. done[r] # count[r] /\ done[r] + reads[r] = count[r] /\ bufs[r] = count[r]
      BY <1>8, <2>3
    <3>2. PICK c, d, k : c = count[r] /\ d = done[r] /\ k = reads[r]
      OBVIOUS
    <3>3. d # c /\ d + k = c /\ d \in Nat /\ c \in Nat /\ k \in Nat
      BY <1>5, <3>1, <3>2
    <3>4. k > 0
      BY <3>3
    <3> QED BY <1>12, <2>1, <2>2, <2>3, <3>1, <3>2, <3>4 DEF RequestSound
  <2>4. CASE v = "READ_NAND_DONE"
    <3>1. done[r] = count[r] /\ done[r] + reads[r] = count[r] /\ bufs[r] = count[r]
      BY <1>8, <2>4
    <3>2. PICK c, d, k : c = count[r] /\ d = done[r] /\ k = reads[r]
      OBVIOUS
    <3>3. d = c /\ d + k = c /\ d \in Nat /\ c \in Nat /\ k \in Nat
      BY <1>5, <3>1, <3>2
    <3>4. k = 0
      BY <3>3
    <3> QED BY <1>12, <2>1, <2>2, <2>4, <3>1, <3>2, <3>4 DEF RequestSound
  <2>5. CASE v = "WRITE_DONE"
    BY <1>8, <1>12, <2>1, <2>2, <2>5 DEF RequestSound
  <2> QED BY <2>3, <2>4, <2>5
<1>16. /\ Injective(waitQ') /\ Injective(hdmaQ')
       /\ ToSet(waitQ') = ToSet(waitQ) \ {r} /\ ToSet(hdmaQ') = ToSet(hdmaQ) \ {r}
       /\ issuedQ' = IF v = "READ_NAND_ISSUED" THEN issuedQ \union {r} ELSE issuedQ \ {r}
  BY <1>1, <1>4, <1>6, <1>8 DEF QueuesSound
<1>17. \A x \in Requests : x # r =>
         /\ count'[x] = count[x] /\ done'[x] = done[x] /\ bufs'[x] = bufs[x] /\ reads'[x] = reads[x]
         /\ status[x] = "READ_WAIT" => Taken(x)' = Taken(x)
  BY <1>2, <1>6 DEF Taken
<1> QED BY <1>4, <1>8, <1>9, <1>11, <1>13, <1>14, <1>15, <1>16, <1>17, MovesControl

\* At the start every request is free.
LEMMA InitControl == Init => Control
<1> SUFFICES ASSUME Init PROVE Control
  OBVIOUS
<1>1. /\ at = "FIL" /\ spinning = FALSE /\ idx = 0
      /\ status = [r \in Requests |-> "FREE"]
      /\ count = [r \in Requests |-> 0] /\ done = [r \in Requests |-> 0]
      /\ bufs = [r \in Requests |-> 0] /\ reads = [r \in Requests |-> 0]
      /\ mark = [r \in Requests |-> NoMark]
      /\ waitQ = <<>> /\ issuedQ = {} /\ doneQ = <<>> /\ hdmaQ = <<>>
      /\ free = BufCount /\ others = 0
      /\ unit = [u \in Units |-> FreeUnit] /\ cur = 0 /\ tx = EmptyFifo
  BY DEF Init
<1>2. Typed
  <2>1. "FREE" \in Statuses /\ 0 \in 0..MaxCount /\ NoMark \in Marks /\ 0 \in 0..OthersMax
        /\ FreeUnit \in [pages : Nat, programming : BOOLEAN] /\ BufCount \in Int /\ 0 \in Units
        /\ EmptyFifo \in [tail : 0..(FifoSize - 1), over : 0..(OverflowSize - 1), pending : Seq(Requests)]
    <3>1. NoMark \in Marks /\ FreeUnit \in [pages : Nat, programming : BOOLEAN]
      BY SizeFacts DEF NoMark, Marks, FreeUnit
    <3>2. EmptyFifo \in [tail : 0..(FifoSize - 1), over : 0..(OverflowSize - 1), pending : Seq(Requests)]
      <4>1. 0 \in 0..(FifoSize - 1) /\ 0 \in 0..(OverflowSize - 1) /\ <<>> \in Seq(Requests)
        BY SizeFacts
      <4> QED BY <4>1 DEF EmptyFifo
    <3>3. 0 \in 0..MaxCount /\ 0 \in 0..OthersMax /\ BufCount \in Int /\ 0 \in Units
      BY SizeFacts
    <3> QED BY <3>1, <3>2, <3>3 DEF Statuses
  <2>2. <<>> \in Seq(Requests) /\ 0 \in Nat
    OBVIOUS
  <2>3. /\ status \in [Requests -> Statuses] /\ count \in [Requests -> 0..MaxCount]
        /\ done \in [Requests -> Nat] /\ bufs \in [Requests -> Nat] /\ reads \in [Requests -> Nat]
        /\ mark \in [Requests -> Marks]
    BY <1>1, <2>1
  <2>4. unit \in [Units -> [pages : Nat, programming : BOOLEAN]]
    BY <1>1, <2>1
  <2>5. /\ waitQ \in Seq(Requests) /\ doneQ \in Seq(Requests) /\ hdmaQ \in Seq(Requests)
        /\ free \in Int /\ others \in 0..OthersMax /\ cur \in Units
        /\ tx \in [tail : 0..(FifoSize - 1), over : 0..(OverflowSize - 1), pending : Seq(Requests)]
    BY <1>1, <2>1, <2>2
  <2>6. at \in Phases /\ spinning \in BOOLEAN /\ idx \in Nat
    BY <1>1 DEF Phases
  <2> QED BY <2>3, <2>4, <2>5, <2>6 DEF Typed
<1>3. QueuesSound
  <2>1. ToSet(<<>>) = {} /\ Injective(<<>>)
    BY DEF ToSet, Injective
  <2>2. \A r \in Requests : status[r] = "FREE"
    BY <1>1
  <2>3. In(InWait) = {} /\ In(InDone) = {} /\ In({"READ_NAND_ISSUED"}) = {} /\ In({"READ_HDMA_ISSUE"}) = {}
    BY <2>2 DEF In, InWait, InDone
  <2> QED BY <1>1, <2>1, <2>3 DEF QueuesSound
<1>4. PhaseSound
  BY <1>1 DEF PhaseSound
<1>5. \A r \in Requests : RequestSound(r)
  BY <1>1 DEF RequestSound
<1> QED BY <1>2, <1>3, <1>4, <1>5 DEF Control

LEMMA NextControl ==
  ASSUME Control, [Next]_vars
  PROVE  Control'
<1>1. CASE \E r \in Requests, c \in Commands : Command(r, c[1], c[2])
  BY <1>1, CommandControl
<1>2. CASE \E r \in Requests : ReadEnds(r)
  BY <1>2, ReadEndsControl
<1>3. CASE OthersTakeOrReturn \/ (\E u \in Units : ProgramEnds(u)) \/ RxEnds
  BY <1>3, BesidesControl
<1>4. CASE TxEnds
  BY <1>4, TransferControl
<1>5. CASE Firmware
  BY <1>5, PhaseControl, BesidesControl, TransferControl, TransferMoves, ReleaseControl,
     StartControl, TakeControl, AddControl, WaitMoves DEF Firmware, Served
<1>6. CASE UNCHANGED vars
  <2>1. Typed' /\ PhaseSound'
    BY <1>6 DEF Control, Typed, PhaseSound, vars, reqVars, queueVars, poolVars, unitVars, dmaVars
  <2>2. UNCHANGED <<reqVars, queueVars>> /\ \A x \in Requests : Taken(x)' = Taken(x)
    BY <1>6 DEF vars, queueVars, Taken
  <2> QED BY <2>1, <2>2, SameRequests
<1> QED BY <1>1, <1>2, <1>3, <1>4, <1>5, <1>6 DEF Next

\* A queue without repetition is as long as its set is large.
LEMMA QueueSize ==
  ASSUME NEW q \in Seq(Requests), Injective(q)
  PROVE  IsFiniteSet(ToSet(q)) /\ Cardinality(ToSet(q)) = Len(q)
<1>1. Len(q) \in Nat /\ DOMAIN q = 1..Len(q)
  OBVIOUS
<1>2. IsFiniteSet(1..Len(q)) /\ Cardinality(1..Len(q)) = Len(q)
  BY <1>1, FS_Interval
<1>3. ExistsBijection(1..Len(q), ToSet(q))
  <2> DEFINE f == [i \in 1..Len(q) |-> q[i]]
  <2>1. f \in [1..Len(q) -> ToSet(q)]
    BY <1>1 DEF ToSet
  <2>2. \A i, j \in 1..Len(q) : f[i] = f[j] => i = j
    BY <1>1 DEF Injective
  <2>3. \A x \in ToSet(q) : \E i \in 1..Len(q) : f[i] = x
    BY <1>1 DEF ToSet
  <2> HIDE DEF f
  <2>4. f \in Bijection(1..Len(q), ToSet(q))
    BY <2>1, <2>2, <2>3 DEF Bijection, Injection, IsInjective, Surjection
  <2> QED BY <2>4 DEF ExistsBijection
<1> QED BY <1>2, <1>3, FS_Bijection

\* Two sets without a common element.
LEMMA DisjointSize ==
  ASSUME NEW A, NEW B, IsFiniteSet(A), IsFiniteSet(B), A \cap B = {}
  PROVE  IsFiniteSet(A \union B) /\ Cardinality(A \union B) = Cardinality(A) + Cardinality(B)
<1>1. /\ IsFiniteSet(A \union B)
      /\ Cardinality(A \union B) = Cardinality(A) + Cardinality(B) - Cardinality(A \cap B)
  BY FS_Union
<1>2. Cardinality(A \cap B) = 0 /\ Cardinality(A) \in Nat /\ Cardinality(B) \in Nat
  BY FS_EmptySet, FS_CardinalityType
<1> QED BY <1>1, <1>2

\* Each request of the pool is on exactly the queue of its status, and the queues are
\* no longer than that: the last callback of a read, say, finds it on the issued queue
\* (dftl_global.cpp:142).
THEOREM HostQueuesCorrect == Spec => []QueuesMatchStatus
<1>1. Init => Control
  BY InitControl
<1>2. Control /\ [Next]_vars => Control'
  BY NextControl
<1>3. ASSUME Control PROVE QueuesMatchStatus
  <2>1. QueuesSound /\ Typed
    BY <1>3 DEF Control
  <2>2. \A q, r : InQueue(q, r) /\ q \in Seq(Requests) <=> r \in ToSet(q) /\ q \in Seq(Requests)
    BY DEF InQueue, ToSet
  <2>3. ASSUME NEW r \in Requests
        PROVE  /\ InQueue(waitQ, r) <=> status[r] \in {"READ_WAIT", "WRITE_WAIT"}
               /\ r \in issuedQ <=> status[r] = "READ_NAND_ISSUED"
               /\ InQueue(doneQ, r) <=> status[r] \in {"READ_NAND_DONE", "READ_DONE", "WRITE_DONE"}
               /\ InQueue(hdmaQ, r) <=> status[r] = "READ_HDMA_ISSUE"
    BY <2>1, <2>2, WhereIs DEF Typed, InWait, InDone
  <2>4. PICK a, b, c, d : a = In(InWait) /\ b = In({"READ_NAND_ISSUED"}) /\ c = In(InDone)
                          /\ d = In({"READ_HDMA_ISSUE"})
    OBVIOUS
  <2>5. /\ Len(waitQ) = Cardinality(a) /\ issuedQ = b
        /\ Len(doneQ) = Cardinality(c) /\ Len(hdmaQ) = Cardinality(d)
    BY <2>1, <2>4, QueueSize DEF QueuesSound, Typed
  <2>6. IsFiniteSet(a) /\ IsFiniteSet(b) /\ IsFiniteSet(c) /\ IsFiniteSet(d)
    <3>1. \A S : In(S) \subseteq Requests
      BY DEF In
    <3> QED BY <2>4, <3>1, SizeFacts, FS_Subset
  <2>7. /\ a \cap b = {} /\ (a \union b) \cap c = {} /\ ((a \union b) \union c) \cap d = {}
    BY <2>4 DEF In, InWait, InDone
  <2>8. {r \in Requests : status[r] # "FREE"} = ((a \union b) \union c) \union d
    <3>1. \A r \in Requests : status[r] \in Statuses
      BY <2>1 DEF Typed
    <3> QED BY <2>4, <3>1 DEF In, InWait, InDone, Statuses
  <2>9. /\ IsFiniteSet(a \union b) /\ Cardinality(a \union b) = Cardinality(a) + Cardinality(b)
    BY <2>6, <2>7, DisjointSize
  <2>10. /\ IsFiniteSet((a \union b) \union c)
         /\ Cardinality((a \union b) \union c) = Cardinality(a \union b) + Cardinality(c)
    BY <2>6, <2>7, <2>9, DisjointSize
  <2>11. Cardinality(((a \union b) \union c) \union d)
           = Cardinality((a \union b) \union c) + Cardinality(d)
    BY <2>6, <2>7, <2>10, DisjointSize
  <2>12. Len(waitQ) + Cardinality(issuedQ) + Len(doneQ) + Len(hdmaQ)
           = Cardinality({r \in Requests : status[r] # "FREE"})
    BY <2>5, <2>8, <2>9, <2>10, <2>11
  <2> QED BY <2>3, <2>12 DEF QueuesMatchStatus
<1> HIDE DEF Control
<1> QED BY <1>1, <1>2, <1>3, PTL DEF Spec

(***************************************************************************)
(* The pool of buffers.                                                    *)
(***************************************************************************)

RequestBuffers == {x \in Requests \X (1..MaxCount) : x[2] <= bufs[x[1]]}
UnitBuffers == {u \in Units : unit[u].pages > 0 \/ (u = cur /\ at = "RX")}

\* A unit that is programmed has pages; the one that is filled is not programmed.
UnitsSound ==
  /\ \A u \in Units : unit[u].programming => unit[u].pages > 0
  /\ at \in {"RX", "PROGRAM"} => ~unit[cur].programming
  /\ at = "PROGRAM" => unit[cur].pages > 0

\* A read that takes its buffers finds one for each page it has left.
Pool ==
  /\ UnitsSound
  /\ free >= 0
  /\ free + others + HeldByRequests + HeldByUnits = BufCount
  /\ at = "READ" => count[Head(waitQ)] - idx <= free

\* There are finitely many buffers.
LEMMA HeldFacts ==
  /\ IsFiniteSet(RequestBuffers) /\ IsFiniteSet(UnitBuffers)
  /\ HeldByRequests = Cardinality(RequestBuffers) /\ HeldByUnits = Cardinality(UnitBuffers)
  /\ HeldByRequests \in Nat /\ HeldByUnits \in Nat
<1>1. IsFiniteSet(1..MaxCount) /\ IsFiniteSet(Units)
  BY SizeFacts, FS_Interval
<1>2. IsFiniteSet(Requests \X (1..MaxCount))
  BY <1>1, SizeFacts, FS_Product
<1>3. RequestBuffers \subseteq Requests \X (1..MaxCount) /\ UnitBuffers \subseteq Units
  BY DEF RequestBuffers, UnitBuffers
<1>4. IsFiniteSet(RequestBuffers) /\ IsFiniteSet(UnitBuffers)
  BY <1>1, <1>2, <1>3, FS_Subset
<1>5. HeldByRequests = Cardinality(RequestBuffers) /\ HeldByUnits = Cardinality(UnitBuffers)
  BY DEF HeldByRequests, HeldByUnits, RequestBuffers, UnitBuffers
<1> QED BY <1>4, <1>5, FS_CardinalityType

LEMMA HeldNext ==
  /\ HeldByRequests' = Cardinality(RequestBuffers') /\ HeldByUnits' = Cardinality(UnitBuffers')
BY DEF HeldByRequests, HeldByUnits, RequestBuffers, UnitBuffers

\* A step that takes and gives nothing.
LEMMA PoolStays ==
  ASSUME Pool, UNCHANGED <<bufs, free, others, unit, cur>>,
         at' = "RX" <=> at = "RX", at' = "PROGRAM" => at = "PROGRAM",
         at' = "READ" => count'[Head(waitQ')] - idx' <= free
  PROVE  Pool'
<1>1. UnitsSound'
  BY DEF Pool, UnitsSound
<1>2. RequestBuffers' = RequestBuffers /\ UnitBuffers' = UnitBuffers
  BY DEF RequestBuffers, UnitBuffers
<1>3. HeldByRequests' = HeldByRequests /\ HeldByUnits' = HeldByUnits
  BY <1>2, HeldFacts, HeldNext
<1> QED BY <1>1, <1>3 DEF Pool

\* The steps of requests and transfers that take and give nothing.
LEMMA QuietPool ==
  ASSUME Control, Pool,
         \/ \E r \in Requests, c \in Commands : Command(r, c[1], c[2])
         \/ \E r \in Requests : ReadEnds(r)
         \/ FilReturns \/ Spin \/ NandReadDone \/ IssueTx \/ TxIssued \/ WriteDone
         \/ DoneQueueEmpty \/ HdmaDone \/ HdmaEmptyOrBusy \/ ReadStart \/ ReadIssued
         \/ WaitRxDMADone \/ Written \/ WaitQueueLeft \/ TxEnds \/ RxEnds
         \/ UNCHANGED vars
  PROVE  Pool'
<1>1. UNCHANGED <<bufs, free, others, unit, cur>>
  BY DEF Command, ReadEnds, FilReturns, Spin, NandReadDone, IssueTx, TxIssued, WriteDone,
         DoneQueueEmpty, HdmaDone, HdmaEmptyOrBusy, ReadStart, ReadIssued, WaitRxDMADone,
         Written, WaitQueueLeft, TxEnds, RxEnds, vars, reqVars, poolVars, unitVars
<1>2. CASE UNCHANGED at
  <2>1. at = "READ" => UNCHANGED <<count, waitQ, idx>>
    BY <1>2 DEF Command, ReadEnds, FilReturns, Spin, NandReadDone, IssueTx, TxIssued, WriteDone,
         DoneQueueEmpty, HdmaDone, HdmaEmptyOrBusy, ReadStart, ReadIssued, WaitRxDMADone,
         Written, WaitQueueLeft, TxEnds, RxEnds, vars, reqVars, queueVars
  <2> QED BY <1>1, <1>2, <2>1, PoolStays DEF Pool
<1>3. CASE ReadStart
  <2>1. /\ at = "WAIT" /\ at' = "READ" /\ idx' = 0 /\ count[Head(waitQ)] <= free
        /\ UNCHANGED <<count, waitQ>> /\ waitQ # <<>>
    BY <1>3 DEF ReadStart, reqVars, queueVars
  <2>2. count[Head(waitQ)] \in Nat /\ free \in Int
    BY <2>1, WaitHead DEF Control, Typed
  <2>3. count'[Head(waitQ')] - idx' <= free
    BY <2>1, <2>2
  <2> QED BY <1>1, <2>1, <2>3, PoolStays
<1>4. CASE \/ FilReturns \/ NandReadDone \/ TxIssued
           \/ DoneQueueEmpty \/ HdmaEmptyOrBusy \/ ReadIssued
           \/ WaitRxDMADone \/ WaitQueueLeft
  <2>1. at \notin {"RX"} /\ at' \notin {"RX", "PROGRAM", "READ"}
    BY <1>4 DEF FilReturns, NandReadDone, TxIssued, DoneQueueEmpty, HdmaEmptyOrBusy, ReadIssued,
                WaitRxDMADone, WaitQueueLeft
  <2> QED BY <1>1, <2>1, PoolStays
<1>5. CASE \/ \E r \in Requests, c \in Commands : Command(r, c[1], c[2])
           \/ \E r \in Requests : ReadEnds(r)
           \/ Spin \/ IssueTx \/ WriteDone \/ HdmaDone \/ Written \/ TxEnds \/ RxEnds
           \/ UNCHANGED vars
  <2>1. UNCHANGED at
    BY <1>5 DEF Command, ReadEnds, Spin, IssueTx, WriteDone, HdmaDone, Written, TxEnds, RxEnds, vars
  <2> QED BY <1>2, <2>1
<1> QED BY <1>3, <1>4, <1>5

\* The other users.
LEMMA OthersPool ==
  ASSUME Control, Pool, OthersTakeOrReturn
  PROVE  Pool'
<1>1. /\ at = "FIL" /\ UNCHANGED <<at, bufs, unit, cur>>
      /\ \/ free > 0 /\ free' = free - 1 /\ others' = others + 1
         \/ others > 0 /\ free' = free + 1 /\ others' = others - 1
  BY DEF OthersTakeOrReturn, reqVars, unitVars
<1>2. UnitsSound'
  BY <1>1 DEF Pool, UnitsSound
<1>3. RequestBuffers' = RequestBuffers /\ UnitBuffers' = UnitBuffers
  BY <1>1 DEF RequestBuffers, UnitBuffers
<1>4. HeldByRequests' = HeldByRequests /\ HeldByUnits' = HeldByUnits
  BY <1>3, HeldFacts, HeldNext
<1>5. free \in Int /\ others \in Nat
  BY DEF Control, Typed
<1>6. free' >= 0 /\ free' + others' = free + others
  BY <1>1, <1>5 DEF Pool
<1>7. free' + others' + HeldByRequests' + HeldByUnits' = BufCount
  BY <1>4, <1>6 DEF Pool
<1> QED BY <1>1, <1>2, <1>6, <1>7 DEF Pool

\* A program ends and its buffer is free again.
LEMMA ProgramEndsPool ==
  ASSUME Control, Pool, NEW u \in Units, ProgramEnds(u)
  PROVE  Pool'
<1>1. /\ unit[u].programming /\ unit' = [unit EXCEPT ![u] = FreeUnit] /\ free' = free + 1
      /\ UNCHANGED <<at, bufs, others, cur, count, waitQ, idx>>
  BY DEF ProgramEnds, reqVars, queueVars
<1>2. /\ unit \in [Units -> [pages : Nat, programming : BOOLEAN]] /\ cur \in Units /\ free \in Int
      /\ others \in Nat /\ FreeUnit = [pages |-> 0, programming |-> FALSE]
  BY DEF Control, Typed, FreeUnit
<1>3. ~(u = cur /\ at \in {"RX", "PROGRAM"})
  BY <1>1 DEF Pool, UnitsSound
<1>4. unit'[u] = FreeUnit /\ \A v \in Units : v # u => unit'[v] = unit[v]
  BY <1>1, <1>2
<1>5. UnitsSound'
  <2>1. \A v \in Units : unit'[v].programming => unit'[v].pages > 0
    BY <1>2, <1>4 DEF Pool, UnitsSound
  <2> QED BY <1>1, <1>2, <1>3, <1>4, <2>1 DEF Pool, UnitsSound
<1>6. UnitBuffers' = UnitBuffers \ {u} /\ u \in UnitBuffers
  BY <1>1, <1>2, <1>3, <1>4 DEF UnitBuffers, Pool, UnitsSound
<1>7. RequestBuffers' = RequestBuffers
  BY <1>1 DEF RequestBuffers
<1>8. HeldByRequests' = HeldByRequests /\ HeldByUnits' = HeldByUnits - 1
  BY <1>6, <1>7, HeldFacts, HeldNext, FS_RemoveElement
<1>9. free' >= 0 /\ free' + others' + HeldByRequests' + HeldByUnits' = BufCount
  <2>1. PICK f, o, h, k : f = free /\ o = others /\ h = HeldByRequests /\ k = HeldByUnits
    OBVIOUS
  <2>2. f \in Int /\ o \in Nat /\ h \in Nat /\ k \in Nat /\ f >= 0 /\ f + o + h + k = BufCount
    BY <1>2, <2>1, HeldFacts DEF Pool
  <2>3. (f + 1) >= 0 /\ (f + 1) + o + h + (k - 1) = BufCount
    BY <2>2
  <2> QED BY <1>1, <1>8, <2>1, <2>3
<1>10. at' = "READ" => count'[Head(waitQ')] - idx' <= free'
  <2>1. ASSUME at = "READ"
        PROVE  count[Head(waitQ)] - idx <= free + 1
    <3>1. waitQ # <<>> /\ idx \in Nat
      BY <2>1 DEF Control, PhaseSound, Typed
    <3>2. count[Head(waitQ)] \in Nat
      BY <3>1, WaitHead DEF Control, Typed
    <3> QED BY <1>2, <2>1, <3>1, <3>2 DEF Pool
  <2> QED BY <1>1, <2>1
<1> QED BY <1>5, <1>9, <1>10 DEF Pool

\* A read gives all its buffers back.
LEMMA ReadDonePool ==
  ASSUME Control, Pool, ReadDone
  PROVE  Pool'
<1>1. PICK r, n : r = Head(doneQ) /\ n = bufs[r]
  OBVIOUS
<1>2. /\ at = "DONE" /\ doneQ # <<>> /\ status[r] = "READ_DONE"
      /\ free' = free + n /\ bufs' = [bufs EXCEPT ![r] = 0]
      /\ UNCHANGED <<at, others, unit, cur>>
  BY <1>1 DEF ReadDone, unitVars
<1>3. r \in Requests
  BY <1>1, <1>2, DoneHead
<1>4. n \in 0..MaxCount /\ bufs \in [Requests -> Nat] /\ free \in Int /\ others \in Nat
  <2>1. /\ RequestSound(r) /\ count[r] \in 0..MaxCount
        /\ bufs \in [Requests -> Nat] /\ free \in Int /\ others \in Nat
    BY <1>3 DEF Control, Typed
  <2>2. bufs[r] = count[r]
    BY <1>2, <2>1 DEF RequestSound
  <2> QED BY <1>1, <2>1, <2>2
<1>5. UnitsSound' /\ UnitBuffers' = UnitBuffers
  BY <1>2 DEF Pool, UnitsSound, UnitBuffers
<1> DEFINE B == {r} \X (1..n)
<1>6. /\ B \subseteq RequestBuffers /\ RequestBuffers' = RequestBuffers \ B
  <2>1. ASSUME NEW x \in Requests \X (1..MaxCount)
        PROVE  x \in RequestBuffers' <=> x \in RequestBuffers /\ x \notin B
    <3>1. PICK y, i : y = x[1] /\ i = x[2] /\ x = <<y, i>> /\ y \in Requests /\ i \in 1..MaxCount
      OBVIOUS
    <3>2. CASE y = r
      <4>1. bufs'[y] = 0 /\ bufs[y] = n
        BY <1>1, <1>2, <1>3, <1>4, <3>2
      <4>2. ~(i <= 0) /\ (i <= n <=> i \in 1..n)
        BY <1>4, <3>1
      <4> QED BY <3>1, <3>2, <4>1, <4>2 DEF RequestBuffers
    <3>3. CASE y # r
      <4>1. bufs'[y] = bufs[y]
        BY <1>2, <1>4, <3>1, <3>3
      <4> QED BY <3>1, <3>3, <4>1 DEF RequestBuffers
    <3> QED BY <3>2, <3>3
  <2>2. B \subseteq RequestBuffers
    <3>1. ASSUME NEW i \in 1..n PROVE i \in 1..MaxCount /\ i <= n
      BY <1>4, SizeFacts
    <3> QED BY <1>1, <1>3, <3>1 DEF RequestBuffers
  <2>3. RequestBuffers \subseteq Requests \X (1..MaxCount) /\ RequestBuffers' \subseteq Requests \X (1..MaxCount)
    BY DEF RequestBuffers
  <2> QED BY <2>1, <2>2, <2>3
<1>7. IsFiniteSet(B) /\ Cardinality(B) = n
  <2>1. IsFiniteSet({r}) /\ Cardinality({r}) = 1 /\ IsFiniteSet(1..n) /\ Cardinality(1..n) = n
    <3>1. n \in Nat
      BY <1>4
    <3>2. IsFiniteSet(1..n) /\ Cardinality(1..n) = n
      BY <3>1, FS_Interval
    <3> QED BY <3>2, FS_Singleton
  <2>2. IsFiniteSet(B) /\ Cardinality(B) = 1 * n
    BY <2>1, FS_Product
  <2> QED BY <1>4, <2>2
<1> HIDE DEF B
<1>8. HeldByRequests' = HeldByRequests - n /\ HeldByUnits' = HeldByUnits
  <2>1. Cardinality(RequestBuffers \ B) = Cardinality(RequestBuffers) - Cardinality(RequestBuffers \cap B)
    BY <1>7, HeldFacts, FS_Difference
  <2>2. RequestBuffers \cap B = B
    BY <1>6
  <2> QED BY <1>5, <1>6, <1>7, <2>1, <2>2, HeldFacts, HeldNext
<1>9. free' >= 0 /\ free' + others' + HeldByRequests' + HeldByUnits' = BufCount
  <2>1. PICK f, o, h, k : f = free /\ o = others /\ h = HeldByRequests /\ k = HeldByUnits
    OBVIOUS
  <2>2. f \in Int /\ o \in Nat /\ h \in Nat /\ k \in Nat /\ f >= 0 /\ f + o + h + k = BufCount /\ n \in Nat
    BY <1>4, <2>1, HeldFacts DEF Pool
  <2>3. (f + n) >= 0 /\ (f + n) + o + (h - n) + k = BufCount
    BY <2>2
  <2> QED BY <1>2, <1>8, <2>1, <2>3
<1> QED BY <1>2, <1>5, <1>9 DEF Pool

\* A read takes a buffer for its next page: there is one.
LEMMA TakePool ==
  ASSUME Control, Pool, ReadHit \/ ReadPage
  PROVE  Pool'
<1>1. PICK r, i : r = Head(waitQ) /\ i = idx
  OBVIOUS
<1>2. /\ at = "READ" /\ i < count[r] /\ idx' = i + 1 /\ free' = free - 1
      /\ bufs' = [bufs EXCEPT ![r] = @ + 1]
      /\ UNCHANGED <<at, count, waitQ, others, unit, cur>>
  BY <1>1 DEF ReadHit, ReadPage, TakeBuffer, queueVars, unitVars
<1>3. waitQ # <<>> /\ status[r] = "READ_WAIT"
  BY <1>1, <1>2 DEF Control, PhaseSound
<1>4. r \in Requests
  BY <1>1, <1>3, WaitHead
<1>5. bufs[r] = i
  <2>1. RequestSound(r)
    BY <1>4 DEF Control
  <2> QED BY <1>1, <1>2, <1>3, <2>1 DEF RequestSound, Taken
<1>6. /\ i \in Nat /\ count[r] \in 0..MaxCount /\ free \in Int /\ others \in Nat
      /\ bufs \in [Requests -> Nat]
  BY <1>1, <1>4 DEF Control, Typed
<1>7. i + 1 \in 1..MaxCount /\ free' >= 0 /\ count[r] - (i + 1) <= free'
  <2>1. PICK c : c = count[r]
    OBVIOUS
  <2>2. c - i <= free /\ c \in Nat /\ c <= MaxCount /\ MaxCount \in Nat /\ i < c
    BY <1>1, <1>2, <1>6, <2>1, SizeFacts DEF Pool
  <2> QED BY <1>2, <1>6, <2>1, <2>2
<1>8. UnitsSound' /\ UnitBuffers' = UnitBuffers
  BY <1>2 DEF Pool, UnitsSound, UnitBuffers
<1>9. /\ RequestBuffers' = RequestBuffers \union {<<r, i + 1>>}
      /\ <<r, i + 1>> \notin RequestBuffers
  <2>1. ASSUME NEW x \in Requests \X (1..MaxCount)
        PROVE  x \in RequestBuffers' <=> x \in RequestBuffers \/ x = <<r, i + 1>>
    <3>1. PICK y, j : y = x[1] /\ j = x[2] /\ x = <<y, j>> /\ y \in Requests /\ j \in 1..MaxCount
      OBVIOUS
    <3>2. CASE y = r
      <4>1. bufs'[y] = i + 1 /\ bufs[y] = i
        BY <1>2, <1>4, <1>5, <1>6, <3>2
      <4>2. j <= i + 1 <=> j <= i \/ j = i + 1
        BY <1>6, <3>1
      <4> QED BY <3>1, <3>2, <4>1, <4>2 DEF RequestBuffers
    <3>3. CASE y # r
      <4>1. bufs'[y] = bufs[y]
        BY <1>2, <1>6, <3>1, <3>3
      <4> QED BY <3>1, <3>3, <4>1 DEF RequestBuffers
    <3> QED BY <3>2, <3>3
  <2>2. RequestBuffers \subseteq Requests \X (1..MaxCount) /\ RequestBuffers' \subseteq Requests \X (1..MaxCount)
    BY DEF RequestBuffers
  <2>3. <<r, i + 1>> \in Requests \X (1..MaxCount)
    BY <1>4, <1>7
  <2>4. <<r, i + 1>> \notin RequestBuffers
    <3>1. ~(i + 1 <= i)
      BY <1>6
    <3> QED BY <1>5, <3>1 DEF RequestBuffers
  <2> QED BY <2>1, <2>2, <2>3, <2>4
<1>10. HeldByRequests' = HeldByRequests + 1 /\ HeldByUnits' = HeldByUnits
  BY <1>8, <1>9, HeldFacts, HeldNext, FS_AddElement
<1>11. free' + others' + HeldByRequests' + HeldByUnits' = BufCount
  <2>1. PICK f, o, h, k : f = free /\ o = others /\ h = HeldByRequests /\ k = HeldByUnits
    OBVIOUS
  <2>2. f \in Int /\ o \in Nat /\ h \in Nat /\ k \in Nat /\ f + o + h + k = BufCount
    BY <1>6, <2>1, HeldFacts DEF Pool
  <2>3. (f - 1) + o + (h + 1) + k = BufCount
    BY <2>2
  <2> QED BY <1>2, <1>10, <2>1, <2>3
<1> QED BY <1>1, <1>2, <1>7, <1>8, <1>11 DEF Pool

\* The first page of a unit takes its buffer, and the unit keeps it until it is
\* programmed.
LEMMA WritePool ==
  ASSUME Control, Pool, WritePage \/ IssueRx \/ IssueProgram
  PROVE  Pool'
<1>1. /\ unit \in [Units -> [pages : Nat, programming : BOOLEAN]] /\ cur \in Units
      /\ free \in Int /\ others \in Nat
  BY DEF Control, Typed
<1>2. UNCHANGED <<bufs, others>> /\ at' # "READ"
  BY DEF WritePage, IssueRx, IssueProgram, reqVars, poolVars
<1>3. HeldByRequests' = HeldByRequests
  <2>1. RequestBuffers' = RequestBuffers
    BY <1>2 DEF RequestBuffers
  <2> QED BY <2>1, HeldFacts, HeldNext
<1>4. CASE WritePage
  <2>1. /\ at = "WAIT" /\ at' = "RX" /\ ~unit[cur].programming /\ UNCHANGED <<unit, cur>>
        /\ free > 0 /\ free' = IF unit[cur].pages = 0 THEN free - 1 ELSE free
    BY <1>4 DEF WritePage, unitVars
  <2>2. UnitsSound'
    BY <2>1 DEF Pool, UnitsSound
  <2>3. CASE unit[cur].pages = 0
    <3>1. UnitBuffers' = UnitBuffers \union {cur} /\ cur \notin UnitBuffers
      BY <1>1, <2>1, <2>3 DEF UnitBuffers
    <3>2. HeldByUnits' = HeldByUnits + 1
      BY <3>1, HeldFacts, HeldNext, FS_AddElement
    <3>3. PICK f, o, h, k : f = free /\ o = others /\ h = HeldByRequests /\ k = HeldByUnits
      OBVIOUS
    <3>4. f \in Int /\ o \in Nat /\ h \in Nat /\ k \in Nat /\ f + o + h + k = BufCount /\ f > 0
      BY <1>1, <2>1, <3>3, HeldFacts DEF Pool
    <3>5. (f - 1) + o + h + (k + 1) = BufCount /\ f - 1 >= 0
      BY <3>4
    <3> QED BY <1>2, <1>3, <2>1, <2>2, <2>3, <3>2, <3>3, <3>5 DEF Pool
  <2>4. CASE unit[cur].pages # 0
    <3>1. UnitBuffers' = UnitBuffers
      BY <1>1, <2>1, <2>4 DEF UnitBuffers
    <3>2. HeldByUnits' = HeldByUnits
      BY <3>1, HeldFacts, HeldNext
    <3> QED BY <1>2, <1>3, <2>1, <2>2, <2>4, <3>2 DEF Pool
  <2> QED BY <2>3, <2>4
<1>5. CASE IssueRx
  <2>1. /\ at = "RX" /\ at' \in {"PROGRAM", "WAIT"} /\ UNCHANGED <<cur, free>>
        /\ unit' = [unit EXCEPT ![cur].pages = @ + 1]
    BY <1>5 DEF IssueRx, poolVars
  <2>2. /\ unit'[cur].pages = unit[cur].pages + 1 /\ unit'[cur].programming = unit[cur].programming
        /\ unit[cur].pages \in Nat
        /\ \A u \in Units : u # cur => unit'[u] = unit[u]
    BY <1>1, <2>1
  <2>3. unit'[cur].pages > 0 /\ ~unit[cur].programming
    BY <2>1, <2>2 DEF Pool, UnitsSound
  <2>4. UnitsSound'
    BY <2>1, <2>2, <2>3 DEF Pool, UnitsSound
  <2>5. UnitBuffers' = UnitBuffers
    <3>1. \A u \in Units : u \in UnitBuffers' <=> u \in UnitBuffers
      BY <1>1, <2>1, <2>2, <2>3 DEF UnitBuffers
    <3> QED BY <3>1 DEF UnitBuffers
  <2>6. HeldByUnits' = HeldByUnits
    BY <2>5, HeldFacts, HeldNext
  <2> QED BY <1>2, <1>3, <2>1, <2>4, <2>6 DEF Pool
<1>6. CASE IssueProgram
  <2>1. /\ at = "PROGRAM" /\ at' = "WAIT_RX" /\ UNCHANGED free
        /\ unit' = [unit EXCEPT ![cur].programming = TRUE]
    BY <1>6 DEF IssueProgram, poolVars
  <2>2. /\ \A u \in Units : unit'[u].pages = unit[u].pages
        /\ \A u \in Units : u # cur => unit'[u].programming = unit[u].programming
    BY <1>1, <2>1
  <2>3. UnitsSound'
    BY <1>1, <2>1, <2>2 DEF Pool, UnitsSound
  <2>4. UnitBuffers' = UnitBuffers
    BY <2>1, <2>2 DEF UnitBuffers
  <2>5. HeldByUnits' = HeldByUnits
    BY <2>4, HeldFacts, HeldNext
  <2> QED BY <1>2, <1>3, <2>1, <2>3, <2>5 DEF Pool
<1> QED BY <1>4, <1>5, <1>6

LEMMA InitPool == Init => Pool
<1> SUFFICES ASSUME Init PROVE Pool
  OBVIOUS
<1>1. /\ at = "FIL" /\ bufs = [r \in Requests |-> 0] /\ free = BufCount /\ others = 0
      /\ unit = [u \in Units |-> FreeUnit]
  BY DEF Init
<1>2. RequestBuffers = {}
  BY <1>1 DEF RequestBuffers
<1>3. UnitBuffers = {} /\ UnitsSound
  BY <1>1 DEF UnitBuffers, UnitsSound, FreeUnit
<1>4. HeldByRequests = 0 /\ HeldByUnits = 0
  BY <1>2, <1>3, HeldFacts, FS_EmptySet
<1> QED BY <1>1, <1>3, <1>4, SizeFacts DEF Pool

LEMMA NextPool ==
  ASSUME Control, Pool, [Next]_vars
  PROVE  Pool'
<1>1. CASE \/ \E r \in Requests, c \in Commands : Command(r, c[1], c[2])
           \/ \E r \in Requests : ReadEnds(r)
           \/ TxEnds \/ RxEnds \/ UNCHANGED vars
  BY <1>1, QuietPool
<1>2. CASE OthersTakeOrReturn
  BY <1>2, OthersPool
<1>3. CASE \E u \in Units : ProgramEnds(u)
  BY <1>3, ProgramEndsPool
<1>4. CASE Firmware
  BY <1>4, QuietPool, ReadDonePool, TakePool, WritePool DEF Firmware, Served
<1> QED BY <1>1, <1>2, <1>3, <1>4 DEF Next

(***************************************************************************)
(* The marks: K[r] is the number of the last transfer of r.                *)
(***************************************************************************)

\* The transfers the request at the head of the done queue has issued.
Issuing == IF at = "TX" THEN idx ELSE 0

\* The mark of r after transfer k, with n requests behind r in the queue.
MarkKept(r, k, n, issued, ended) ==
  /\ mark[r].tail = k % FifoSize /\ mark[r].over = (k \div FifoSize) % OverflowSize
  /\ k <= issued /\ issued <= k + MaxCount * n + Issuing
  /\ k > ended => tx.pending[k - ended] = r
  /\ \A j \in DOMAIN tx.pending : tx.pending[j] = r => ended + j <= k

\* Who owns the transfers that have not ended.
Owned(issued, ended) ==
  /\ \A j \in DOMAIN tx.pending :
       \/ tx.pending[j] \in ToSet(hdmaQ)
       \/ at = "TX" /\ idx > 0 /\ tx.pending[j] = Head(doneQ)
  /\ at = "TX" /\ idx > 0 /\ ended < issued => tx.pending[issued - ended] = Head(doneQ)

Marked(issued, ended, K) ==
  /\ Counted(Requests, tx, issued, ended)
  /\ \A i \in DOMAIN hdmaQ :
       MarkKept(hdmaQ[i], K[hdmaQ[i]], Len(hdmaQ) - i, issued, ended)
  /\ Owned(issued, ended)

Transfers ==
  \E issued \in Nat, ended \in Nat, K \in [Requests -> Nat] : Marked(issued, ended, K)

\* A request in the queue of the transfers is at a place of it.
LEMMA QueuePlace ==
  ASSUME Control
  PROVE  /\ hdmaQ \in Seq(Requests) /\ DOMAIN hdmaQ = 1..Len(hdmaQ) /\ Len(hdmaQ) \in Nat
         /\ \A i \in DOMAIN hdmaQ : hdmaQ[i] \in Requests /\ hdmaQ[i] \in ToSet(hdmaQ)
         /\ \A r \in ToSet(hdmaQ) : \E i \in DOMAIN hdmaQ : hdmaQ[i] = r
<1>1. hdmaQ \in Seq(Requests)
  BY DEF Control, Typed
<1> QED BY <1>1 DEF ToSet

\* The transfers issued behind a request of the queue are fewer than what the count
\* of the wraps can tell apart.
LEMMA LaterFit ==
  ASSUME Control, NEW i \in DOMAIN hdmaQ
  PROVE  MaxCount * (Len(hdmaQ) - i) + Issuing < FifoSize * OverflowSize
<1> DEFINE c == Cardinality(Requests)
           b == FifoSize * OverflowSize
           n == Len(hdmaQ)
<1>1. /\ n \in Nat /\ i \in 1..n /\ MaxCount \in Nat /\ c \in Nat /\ b \in Int
  <2>1. IsFiniteSet(Requests) /\ MaxCount \in Nat /\ FifoSize \in Nat /\ OverflowSize \in Nat
    BY SizeFacts
  <2> QED BY <2>1, QueuePlace, FS_CardinalityType
<1>2. IsFiniteSet(ToSet(hdmaQ)) /\ Cardinality(ToSet(hdmaQ)) = n /\ ToSet(hdmaQ) \subseteq Requests
  BY QueuePlace, QueueSize DEF Control, QueuesSound, In
<1>3. n <= c
  BY <1>2, SizeFacts, FS_Subset
<1>4. MaxCount * (c - 1) < b
  <2>1. (c - 1) * MaxCount < b
    BY MarkAssumption
  <2>2. (c - 1) * MaxCount = MaxCount * (c - 1)
    <3> HIDE DEF c
    <3> QED BY <1>1, SMT
  <2> QED BY <2>1, <2>2
<1>5. CASE at # "TX"
  <2>1. n - i \in Nat /\ c - 1 \in Nat /\ n - i <= c - 1
    BY <1>1, <1>3
  <2>2. MaxCount * (n - i) <= MaxCount * (c - 1)
    BY <1>1, <2>1, MulMonotone
  <2>3. Issuing = 0
    BY <1>5 DEF Issuing
  <2>4. MaxCount * (n - i) \in Nat /\ MaxCount * (c - 1) \in Nat
    BY <1>1, <2>1, MulSucc
  <2> HIDE DEF b, c, n
  <2>5. MaxCount * (n - i) + Issuing < b
    BY <1>1, <1>4, <2>2, <2>3, <2>4
  <2> QED BY <2>5 DEF b, n
<1>6. CASE at = "TX"
  <2>1. /\ doneQ # <<>> /\ status[Head(doneQ)] = "READ_NAND_DONE" /\ idx <= bufs[Head(doneQ)]
    BY <1>6 DEF Control, PhaseSound
  <2>2. PICK h : h = Head(doneQ)
    OBVIOUS
  <2>3. h \in Requests /\ h \notin ToSet(hdmaQ)
    BY <2>1, <2>2, DoneHead
  <2>4. Issuing \in Nat /\ Issuing <= MaxCount
    <3>1. /\ RequestSound(h) /\ count[h] \in 0..MaxCount /\ idx \in Nat
      BY <2>3 DEF Control, Typed
    <3>2. bufs[h] = count[h]
      BY <2>1, <2>2, <3>1 DEF RequestSound
    <3> QED BY <1>1, <1>6, <2>1, <2>2, <3>1, <3>2 DEF Issuing
  <2>5. Cardinality(ToSet(hdmaQ) \union {h}) = n + 1
    BY <1>2, <2>3, FS_AddElement
  <2>6. ToSet(hdmaQ) \union {h} \subseteq Requests
    BY <1>2, <2>3
  <2>7. n + 1 <= c
    BY <2>5, <2>6, SizeFacts, FS_Subset
  <2>8. n - i + 1 \in Nat /\ n - i \in Nat /\ c - 1 \in Nat /\ n - i + 1 <= c - 1
    BY <1>1, <2>7
  <2>9. MaxCount * (n - i + 1) <= MaxCount * (c - 1)
    BY <1>1, <2>8, MulMonotone
  <2>10. MaxCount * (n - i + 1) = MaxCount * (n - i) + MaxCount /\ MaxCount * (n - i) \in Nat
         /\ MaxCount * (c - 1) \in Nat
    BY <1>1, <2>8, MulSucc
  <2> HIDE DEF b, c, n
  <2>11. MaxCount * (n - i) + Issuing < b
    BY <1>1, <1>4, <2>4, <2>9, <2>10
  <2> QED BY <2>11 DEF b, n
<1> QED BY <1>5, <1>6

\* The check of a request of the queue is exact.
LEMMA CheckOfMarked ==
  ASSUME Control, NEW issued \in Nat, NEW ended \in Nat, NEW K \in [Requests -> Nat],
         Marked(issued, ended, K), NEW i \in DOMAIN hdmaQ
  PROVE  /\ CheckDone(tx, mark[hdmaQ[i]]) <=> K[hdmaQ[i]] <= ended
         /\ K[hdmaQ[i]] <= ended <=> hdmaQ[i] \notin ToSet(tx.pending)
<1>1. PICK r, k : r = hdmaQ[i] /\ k = K[r]
  OBVIOUS
<1>2. r \in Requests /\ k \in Nat
  BY <1>1, QueuePlace
<1>3. MarkKept(r, k, Len(hdmaQ) - i, issued, ended) /\ Counted(Requests, tx, issued, ended)
  BY <1>1 DEF Marked
<1>4. issued < k + FifoSize * OverflowSize
  <2>1. PICK a, b, c : a = MaxCount * (Len(hdmaQ) - i) /\ b = FifoSize * OverflowSize /\ c = Issuing
    OBVIOUS
  <2>2. a \in Int /\ b \in Int /\ c \in Nat
    <3>1. MaxCount \in Nat /\ FifoSize \in Nat /\ OverflowSize \in Nat /\ Len(hdmaQ) - i \in Int
      BY SizeFacts, QueuePlace
    <3>2. Issuing \in Nat
      BY DEF Issuing, Control, Typed
    <3> QED BY <2>1, <3>1, <3>2
  <2>3. a + c < b /\ issued <= k + a + c
    BY <1>3, <2>1, LaterFit DEF MarkKept
  <2> QED BY <1>2, <2>1, <2>2, <2>3
<1>5. CheckDone(tx, mark[r]) <=> k <= ended
  <2>1. k <= issued /\ mark[r].tail = k % FifoSize /\ mark[r].over = (k \div FifoSize) % OverflowSize
    BY <1>3 DEF MarkKept
  <2> QED BY <1>2, <1>3, <1>4, <2>1, CheckDoneExact
<1>6. k <= ended <=> r \notin ToSet(tx.pending)
  <2>1. tx.pending \in Seq(Requests) /\ Len(tx.pending) = issued - ended /\ k <= issued
    BY <1>3 DEF Counted, MarkKept
  <2>2. ASSUME k > ended PROVE r \in ToSet(tx.pending)
    <3>1. k - ended \in 1..Len(tx.pending)
      BY <1>2, <2>1, <2>2
    <3>2. tx.pending[k - ended] = r
      BY <1>3, <2>2 DEF MarkKept
    <3> QED BY <2>1, <3>1, <3>2 DEF ToSet
  <2>3. ASSUME r \in ToSet(tx.pending) PROVE k > ended
    <3>1. PICK j \in DOMAIN tx.pending : tx.pending[j] = r
      BY <2>3 DEF ToSet
    <3>2. ended + j <= k /\ j \in Nat /\ j > 0
      BY <1>3, <2>1, <3>1 DEF MarkKept
    <3> QED BY <1>2, <3>2
  <2> QED BY <1>2, <2>2, <2>3
<1> QED BY <1>1, <1>5, <1>6

\* The steps that neither issue nor end a transfer, nor touch the queue.
LEMMA TransfersStay ==
  ASSUME Control, Transfers, UNCHANGED <<tx, hdmaQ>>,
         \A r \in ToSet(hdmaQ) : mark'[r] = mark[r],
         \/ at = "TX" /\ UNCHANGED <<at, idx, doneQ>>
         \/ at # "TX" /\ (at' = "TX" => idx' = 0)
  PROVE  Transfers'
<1>1. PICK issued \in Nat, ended \in Nat, K \in [Requests -> Nat] : Marked(issued, ended, K)
  BY DEF Transfers
<1>2. Issuing' = Issuing
  BY DEF Issuing
<1>3. Owned(issued, ended)'
  BY <1>1 DEF Marked, Owned
<1>4. ASSUME NEW i \in DOMAIN hdmaQ
      PROVE  MarkKept(hdmaQ[i], K[hdmaQ[i]], Len(hdmaQ) - i, issued, ended)'
  <2>1. MarkKept(hdmaQ[i], K[hdmaQ[i]], Len(hdmaQ) - i, issued, ended)
    BY <1>1 DEF Marked
  <2>2. mark'[hdmaQ[i]] = mark[hdmaQ[i]]
    BY QueuePlace
  <2> QED BY <1>2, <2>1, <2>2 DEF MarkKept
<1>5. Marked(issued, ended, K)'
  BY <1>1, <1>3, <1>4 DEF Marked
<1> QED BY <1>5 DEF Transfers

\* All steps but those of the transfers themselves.
LEMMA QuietTransfers ==
  ASSUME Control, Transfers,
         \/ \E r \in Requests, c \in Commands : Command(r, c[1], c[2])
         \/ OthersTakeOrReturn
         \/ \E r \in Requests : ReadEnds(r)
         \/ \E u \in Units : ProgramEnds(u)
         \/ FilReturns \/ Spin \/ NandReadDone \/ ReadDone \/ WriteDone \/ DoneQueueEmpty
         \/ HdmaEmptyOrBusy \/ ReadStart \/ WritePage \/ ReadHit \/ ReadPage \/ ReadIssued
         \/ IssueRx \/ IssueProgram \/ WaitRxDMADone \/ Written \/ WaitQueueLeft
         \/ RxEnds \/ UNCHANGED vars
  PROVE  Transfers'
<1>1. UNCHANGED <<tx, hdmaQ>>
  BY DEF Command, OthersTakeOrReturn, ReadEnds, ProgramEnds, FilReturns, Spin, NandReadDone,
         ReadDone, WriteDone, DoneQueueEmpty, HdmaEmptyOrBusy, ReadStart, WritePage, ReadHit,
         ReadPage, ReadIssued, IssueRx, IssueProgram, WaitRxDMADone, Written, WaitQueueLeft,
         RxEnds, vars, queueVars, dmaVars
<1>2. \/ at = "TX" /\ UNCHANGED <<at, idx, doneQ>>
      \/ at # "TX" /\ (at' = "TX" => idx' = 0)
  <2>1. CASE RxEnds \/ UNCHANGED vars
    BY <2>1 DEF RxEnds, vars, queueVars
  <2>2. CASE NandReadDone
    BY <2>2 DEF NandReadDone
  <2>3. CASE (\E r \in Requests : ReadEnds(r)) \/ (\E u \in Units : ProgramEnds(u))
    <3>1. FilRuns /\ UNCHANGED at
      BY <2>3 DEF ReadEnds, ProgramEnds
    <3>2. at # "TX"
      BY <3>1 DEF FilRuns, Control, PhaseSound
    <3> QED BY <3>1, <3>2
  <2>4. CASE \/ \E r \in Requests, c \in Commands : Command(r, c[1], c[2])
             \/ OthersTakeOrReturn \/ FilReturns \/ Spin \/ ReadDone \/ WriteDone
             \/ DoneQueueEmpty \/ HdmaEmptyOrBusy \/ ReadStart \/ WritePage \/ ReadHit
             \/ ReadPage \/ ReadIssued \/ IssueRx \/ IssueProgram \/ WaitRxDMADone
             \/ Written \/ WaitQueueLeft
    BY <2>4 DEF Command, OthersTakeOrReturn, FilReturns, Spin, ReadDone, WriteDone,
         DoneQueueEmpty, HdmaEmptyOrBusy, ReadStart, WritePage, ReadHit, ReadPage, ReadIssued,
         TakeBuffer, IssueRx, IssueProgram, WaitRxDMADone, Written, WaitQueueLeft
  <2> QED BY <2>1, <2>2, <2>3, <2>4
<1>3. \A r \in ToSet(hdmaQ) : mark'[r] = mark[r]
  <2>1. CASE ReadDone \/ WriteDone
    <3>1. doneQ # <<>> /\ mark' = [mark EXCEPT ![Head(doneQ)] = NoMark]
      BY <2>1 DEF ReadDone, WriteDone, Released
    <3>2. Head(doneQ) \notin ToSet(hdmaQ) /\ mark \in [Requests -> Marks]
      BY <3>1, DoneHead DEF Control, Typed
    <3>3. ToSet(hdmaQ) \subseteq Requests
      BY DEF Control, QueuesSound, In
    <3> QED BY <3>1, <3>2, <3>3
  <2>2. CASE ~(ReadDone \/ WriteDone)
    <3>1. UNCHANGED mark
      BY <2>2 DEF Command, OthersTakeOrReturn, ReadEnds, ProgramEnds, FilReturns, Spin,
         NandReadDone, DoneQueueEmpty, HdmaEmptyOrBusy, ReadStart, WritePage, ReadHit,
         ReadPage, ReadIssued, IssueRx, IssueProgram, WaitRxDMADone, Written, WaitQueueLeft,
         RxEnds, vars, reqVars
    <3> QED BY <3>1
  <2> QED BY <2>1, <2>2
<1> QED BY <1>1, <1>2, <1>3, TransfersStay

\* One more transfer of the request at the head of the done queue.
LEMMA IssueTransfers ==
  ASSUME Control, Transfers, IssueTx
  PROVE  Transfers'
<1>1. PICK issued \in Nat, ended \in Nat, K \in [Requests -> Nat] : Marked(issued, ended, K)
  BY DEF Transfers
<1>2. PICK h : h = Head(doneQ)
  OBVIOUS
<1>3. /\ at = "TX" /\ at' = "TX" /\ ~IsFull(tx) /\ tx' = Issued(tx, h) /\ idx' = idx + 1
      /\ UNCHANGED <<mark, doneQ, hdmaQ>>
  BY <1>2 DEF IssueTx, reqVars, queueVars
<1>4. h \in Requests /\ h \notin ToSet(hdmaQ) /\ idx \in Nat
  <2>1. doneQ # <<>> /\ idx \in Nat
    BY <1>3 DEF Control, PhaseSound, Typed
  <2> QED BY <1>2, <2>1, DoneHead
<1>5. Counted(Requests, tx, issued, ended) /\ Counted(Requests, tx', issued + 1, ended)
  <2>1. Counted(Requests, tx, issued, ended)
    BY <1>1 DEF Marked
  <2> QED BY <1>3, <1>4, <2>1, IssuedCounted
<1>6. PICK p, n : p = tx.pending /\ n = Len(p)
  OBVIOUS
<1>7. p \in Seq(Requests) /\ n = issued - ended /\ n \in Nat /\ tx'.pending = Append(p, h)
  <2>1. p \in Seq(Requests) /\ n = issued - ended
    BY <1>5, <1>6 DEF Counted
  <2>2. tx'.pending = Append(p, h)
    BY <1>3, <1>6 DEF Issued
  <2>3. n \in Nat
    <3>1. p \in Seq(Requests)
      BY <2>1
    <3>2. Len(p) \in Nat
      BY <3>1
    <3> QED BY <1>6, <3>2
  <2> QED BY <2>1, <2>2, <2>3
<1>8. /\ DOMAIN p = 1..n /\ DOMAIN tx'.pending = 1..(n + 1) /\ tx'.pending[n + 1] = h
      /\ \A j \in 1..n : tx'.pending[j] = p[j]
  <2>1. PICK q : q = Append(p, h)
    OBVIOUS
  <2>2. p \in Seq(Requests) /\ h \in Requests /\ n = Len(p) /\ tx'.pending = q
    BY <1>4, <1>6, <1>7, <2>1
  <2>3. /\ DOMAIN p = 1..n /\ DOMAIN q = 1..(n + 1) /\ q[n + 1] = h
        /\ \A j \in 1..n : q[j] = p[j]
    BY <2>1, <2>2
  <2> QED BY <2>2, <2>3
<1>9. Issuing = idx /\ Issuing' = idx + 1
  BY <1>3 DEF Issuing
<1>10. ASSUME NEW i \in DOMAIN hdmaQ
       PROVE  MarkKept(hdmaQ[i], K[hdmaQ[i]], Len(hdmaQ) - i, issued + 1, ended)'
  <2>1. PICK r, k, a : r = hdmaQ[i] /\ k = K[r] /\ a = MaxCount * (Len(hdmaQ) - i)
    OBVIOUS
  <2>2. MarkKept(r, k, Len(hdmaQ) - i, issued, ended)
    BY <1>1, <2>1 DEF Marked
  <2>3. r \in ToSet(hdmaQ) /\ r # h /\ k \in Nat /\ a \in Int
    <3>1. Len(hdmaQ) - i \in Int /\ MaxCount \in Nat /\ hdmaQ[i] \in Requests /\ hdmaQ[i] \in ToSet(hdmaQ)
      BY QueuePlace, SizeFacts
    <3> QED BY <1>4, <2>1, <3>1
  <2>4. k <= issued + 1 /\ issued + 1 <= k + a + Issuing'
    BY <1>4, <1>9, <2>1, <2>2, <2>3 DEF MarkKept
  <2>5. k > ended => tx'.pending[k - ended] = r
    <3>1. ASSUME k > ended PROVE k - ended \in 1..n /\ p[k - ended] = r
      BY <1>6, <1>7, <2>2, <2>3, <3>1 DEF MarkKept
    <3> QED BY <1>8, <3>1
  <2>6. \A j \in DOMAIN tx'.pending : tx'.pending[j] = r => ended + j <= k
    <3>1. ASSUME NEW j \in 1..(n + 1), tx'.pending[j] = r PROVE j \in 1..n /\ p[j] = r
      <4>1. j # n + 1
        BY <1>8, <2>3, <3>1
      <4>2. j \in 1..n
        BY <1>7, <4>1
      <4> QED BY <1>8, <3>1, <4>2
    <3> QED BY <1>6, <1>8, <2>2, <3>1 DEF MarkKept
  <2> QED BY <1>3, <2>1, <2>2, <2>4, <2>5, <2>6 DEF MarkKept
<1>11. Owned(issued + 1, ended)'
  <2>1. idx' > 0 /\ Head(doneQ') = h
    BY <1>2, <1>3, <1>4
  <2>2. tx'.pending[(issued + 1) - ended] = h
    <3>1. (issued + 1) - ended = n + 1
      BY <1>7
    <3> QED BY <1>8, <3>1
  <2>3. ASSUME NEW j \in DOMAIN tx'.pending
        PROVE  tx'.pending[j] \in ToSet(hdmaQ) \/ tx'.pending[j] = h
    <3>1. CASE j = n + 1
      BY <1>8, <3>1
    <3>2. CASE j # n + 1
      <4>1. j \in 1..n
        BY <1>7, <1>8, <3>2
      <4>2. p[j] \in ToSet(hdmaQ) \/ p[j] = h
        BY <1>1, <1>2, <1>6, <1>8, <4>1 DEF Marked, Owned
      <4> QED BY <1>8, <4>1, <4>2
    <3> QED BY <3>1, <3>2
  <2> QED BY <1>3, <2>1, <2>2, <2>3 DEF Owned
<1>12. Marked(issued + 1, ended, K)'
  BY <1>3, <1>5, <1>10, <1>11 DEF Marked
<1> QED BY <1>12 DEF Transfers

\* The request is marked with its last transfer and goes to the end of the queue.
LEMMA MarkTransfers ==
  ASSUME Control, Transfers, TxIssued
  PROVE  Transfers'
<1>1. PICK issued \in Nat, ended \in Nat, K \in [Requests -> Nat] : Marked(issued, ended, K)
  BY DEF Transfers
<1>2. PICK h, n : h = Head(doneQ) /\ n = Len(hdmaQ)
  OBVIOUS
<1>3. /\ at = "TX" /\ at' = "DONE" /\ idx = bufs[h] /\ hdmaQ' = Append(hdmaQ, h)
      /\ mark' = [mark EXCEPT ![h] = [tail |-> tx.tail, over |-> tx.over]]
      /\ UNCHANGED tx
  BY <1>2 DEF TxIssued, dmaVars
<1>4. h \in Requests /\ h \notin ToSet(hdmaQ) /\ idx \in 1..MaxCount
  <2>1. doneQ # <<>> /\ status[h] = "READ_NAND_DONE"
    BY <1>2, <1>3 DEF Control, PhaseSound
  <2>2. h \in Requests /\ h \notin ToSet(hdmaQ)
    BY <1>2, <2>1, DoneHead
  <2>3. RequestSound(h) /\ count[h] \in 0..MaxCount
    BY <2>2 DEF Control, Typed
  <2>4. bufs[h] = count[h] /\ count[h] >= 1
    BY <2>1, <2>3 DEF RequestSound
  <2> QED BY <1>3, <2>2, <2>3, <2>4, SizeFacts
<1>5. /\ n \in Nat /\ DOMAIN hdmaQ = 1..n /\ DOMAIN hdmaQ' = 1..(n + 1)
      /\ Len(hdmaQ') = n + 1 /\ hdmaQ'[n + 1] = h
      /\ \A i \in 1..n : hdmaQ'[i] = hdmaQ[i] /\ hdmaQ[i] \in ToSet(hdmaQ) /\ hdmaQ[i] \in Requests
      /\ ToSet(hdmaQ') = ToSet(hdmaQ) \union {h}
  <2>1. PICK q, s : q = hdmaQ /\ s = Append(q, h)
    OBVIOUS
  <2>2. q \in Seq(Requests) /\ n = Len(q) /\ hdmaQ' = s
    BY <1>2, <1>3, <2>1, QueuePlace
  <2>3. /\ n \in Nat /\ DOMAIN q = 1..n /\ DOMAIN s = 1..(n + 1) /\ Len(s) = n + 1 /\ s[n + 1] = h
        /\ \A i \in 1..n : s[i] = q[i]
    BY <1>4, <2>1, <2>2
  <2>4. ToSet(s) = ToSet(q) \union {h}
    BY <1>4, <2>1, <2>2, AppendFacts
  <2> QED BY <2>1, <2>2, <2>3, <2>4, QueuePlace
<1>6. /\ Counted(Requests, tx, issued, ended) /\ tx.tail = issued % FifoSize
      /\ tx.over = (issued \div FifoSize) % OverflowSize
      /\ tx.pending \in Seq(Requests) /\ Len(tx.pending) = issued - ended
      /\ DOMAIN tx.pending = 1..(issued - ended)
  BY <1>1 DEF Marked, Counted
<1>7. Issuing = idx /\ Issuing' = 0
  BY <1>3 DEF Issuing
<1>8. /\ mark'[h] = [tail |-> tx.tail, over |-> tx.over]
      /\ \A r \in Requests : r # h => mark'[r] = mark[r]
  <2>1. mark \in [Requests -> Marks]
    BY DEF Control, Typed
  <2> QED BY <1>3, <1>4, <2>1
<1> DEFINE L == [K EXCEPT ![h] = issued]
<1>9. L \in [Requests -> Nat] /\ L[h] = issued /\ \A r \in Requests : r # h => L[r] = K[r]
  BY <1>4
<1> HIDE DEF L
<1>10. ASSUME NEW i \in 1..n
       PROVE  MarkKept(hdmaQ[i], L[hdmaQ[i]], Len(hdmaQ) - i, issued, ended)'
  <2>1. PICK r, k : r = hdmaQ[i] /\ k = K[r]
    OBVIOUS
  <2>2. MarkKept(r, k, n - i, issued, ended)
    BY <1>1, <1>2, <1>5, <2>1 DEF Marked
  <2>3. r \in Requests /\ r # h /\ k \in Nat /\ hdmaQ'[i] = r /\ L[r] = k /\ mark'[r] = mark[r]
    BY <1>4, <1>5, <1>8, <1>9, <2>1
  <2>4. issued <= k + MaxCount * (Len(hdmaQ') - i) + Issuing'
    <3>1. n - i \in Nat /\ Len(hdmaQ') - i = (n - i) + 1 /\ MaxCount \in Nat
      BY <1>5, SizeFacts
    <3>2. PICK a, b : a = MaxCount * (n - i) /\ b = MaxCount * ((n - i) + 1)
      OBVIOUS
    <3>3. a \in Nat /\ b = a + MaxCount
      BY <3>1, <3>2, MulSucc
    <3>4. issued <= k + a + idx
      BY <1>7, <2>2, <3>2 DEF MarkKept
    <3>5. issued <= k + b + 0
      BY <1>4, <2>3, <3>1, <3>3, <3>4
    <3> QED BY <1>7, <3>1, <3>2, <3>5
  <2>5. PICK m : m = Len(hdmaQ') - i
    OBVIOUS
  <2>6. MarkKept(r, k, m, issued, ended)'
    BY <1>3, <2>2, <2>3, <2>4, <2>5 DEF MarkKept
  <2> QED BY <2>3, <2>5, <2>6
<1>11. MarkKept(h, issued, 0, issued, ended)'
  <2>1. issued > ended => tx.pending[issued - ended] = h
    BY <1>1, <1>2, <1>3, <1>4 DEF Marked, Owned
  <2>2. \A j \in DOMAIN tx.pending : ended + j <= issued
    BY <1>6
  <2>3. issued <= issued + MaxCount * 0 + 0
    BY SizeFacts, SMT
  <2> QED BY <1>3, <1>6, <1>7, <1>8, <2>1, <2>2, <2>3 DEF MarkKept
<1>12. ASSUME NEW i \in DOMAIN hdmaQ'
       PROVE  MarkKept(hdmaQ[i], L[hdmaQ[i]], Len(hdmaQ) - i, issued, ended)'
  <2>1. CASE i = n + 1
    <3>1. hdmaQ'[i] = h /\ L[h] = issued /\ Len(hdmaQ') - i = 0
      BY <1>5, <1>9, <2>1
    <3> QED BY <1>11, <3>1
  <2>2. CASE i # n + 1
    <3>1. i \in 1..n
      BY <1>5, <2>2
    <3> QED BY <1>10, <3>1
  <2> QED BY <2>1, <2>2
<1>13. Owned(issued, ended)'
  <2>1. \A j \in DOMAIN tx.pending : tx.pending[j] \in ToSet(hdmaQ) \/ tx.pending[j] = h
    BY <1>1, <1>2 DEF Marked, Owned
  <2> QED BY <1>3, <1>5, <2>1 DEF Owned
<1>14. Marked(issued, ended, L)'
  BY <1>3, <1>6, <1>12, <1>13 DEF Marked
<1> QED BY <1>9, <1>14 DEF Transfers

\* The oldest transfer ends.
LEMMA EndTransfers ==
  ASSUME Control, Transfers, TxEnds
  PROVE  Transfers'
<1>1. PICK issued \in Nat, ended \in Nat, K \in [Requests -> Nat] : Marked(issued, ended, K)
  BY DEF Transfers
<1>2. /\ tx.pending # <<>> /\ tx' = Ended(tx) /\ UNCHANGED <<at, idx, mark, doneQ, hdmaQ>>
  BY DEF TxEnds, reqVars, queueVars
<1>3. Counted(Requests, tx, issued, ended) /\ Counted(Requests, tx', issued, ended + 1)
  <2>1. Counted(Requests, tx, issued, ended)
    BY <1>1 DEF Marked
  <2> QED BY <1>2, <2>1, EndedCounted
<1>4. PICK p, q, n : p = tx.pending /\ q = tx'.pending /\ n = Len(p)
  OBVIOUS
<1>5. p \in Seq(Requests) /\ p # <<>> /\ q = Tail(p) /\ n = issued - ended
  <2>1. p \in Seq(Requests) /\ p # <<>> /\ n = issued - ended
    BY <1>2, <1>3, <1>4 DEF Counted
  <2>2. tx \in [tail : 0..(FifoSize - 1), over : 0..(OverflowSize - 1), pending : Seq(Requests)]
    BY DEF Control, Typed
  <2>3. tx'.pending = Tail(tx.pending)
    BY <1>2, <2>2 DEF Ended
  <2> QED BY <1>4, <2>1, <2>3
<1>6. /\ n \in Nat /\ n >= 1 /\ DOMAIN p = 1..n /\ DOMAIN q = 1..(n - 1)
      /\ \A j \in 1..(n - 1) : q[j] = p[j + 1]
  <2>1. p \in Seq(Requests) /\ p # <<>> /\ q = Tail(p) /\ n = Len(p)
    BY <1>4, <1>5
  <2> QED BY <2>1
<1>7. Issuing' = Issuing
  BY <1>2 DEF Issuing
<1>8. ASSUME NEW i \in DOMAIN hdmaQ
      PROVE  MarkKept(hdmaQ[i], K[hdmaQ[i]], Len(hdmaQ) - i, issued, ended + 1)'
  <2>1. PICK r, k : r = hdmaQ[i] /\ k = K[r]
    OBVIOUS
  <2>2. MarkKept(r, k, Len(hdmaQ) - i, issued, ended)
    BY <1>1, <2>1 DEF Marked
  <2>3. k \in Nat
    <3>1. r \in Requests
      BY <2>1, QueuePlace
    <3> QED BY <2>1, <3>1
  <2>4. ASSUME k > ended + 1 PROVE q[k - (ended + 1)] = r
    <3>1. k <= issued /\ k - (ended + 1) \in 1..(n - 1) /\ (k - (ended + 1)) + 1 = k - ended
      BY <1>5, <1>6, <2>2, <2>3, <2>4 DEF MarkKept
    <3>2. p[k - ended] = r
      BY <1>4, <2>2, <2>3, <2>4 DEF MarkKept
    <3> QED BY <1>6, <3>1, <3>2
  <2>5. ASSUME NEW j \in 1..(n - 1), q[j] = r PROVE (ended + 1) + j <= k
    <3>1. j + 1 \in 1..n /\ p[j + 1] = r
      BY <1>6, <2>5
    <3>2. ended + (j + 1) <= k
      BY <1>4, <1>6, <2>2, <3>1 DEF MarkKept
    <3> QED BY <2>3, <3>2
  <2> QED BY <1>2, <1>4, <1>6, <1>7, <2>1, <2>2, <2>4, <2>5 DEF MarkKept
<1>9. Owned(issued, ended + 1)'
  <2>1. ASSUME NEW j \in 1..(n - 1)
        PROVE  \/ q[j] \in ToSet(hdmaQ)
               \/ at = "TX" /\ idx > 0 /\ q[j] = Head(doneQ)
    <3>1. j + 1 \in 1..n /\ q[j] = p[j + 1]
      BY <1>6
    <3> QED BY <1>1, <1>4, <1>6, <3>1 DEF Marked, Owned
  <2>2. ASSUME at = "TX", idx > 0, ended + 1 < issued
        PROVE  q[issued - (ended + 1)] = Head(doneQ)
    <3>1. issued - (ended + 1) \in 1..(n - 1) /\ (issued - (ended + 1)) + 1 = issued - ended
      BY <1>5, <1>6, <2>2
    <3>2. p[issued - ended] = Head(doneQ)
      BY <1>1, <1>4, <2>2 DEF Marked, Owned
    <3> QED BY <1>6, <3>1, <3>2
  <2> QED BY <1>2, <1>4, <1>6, <2>1, <2>2 DEF Owned
<1>10. Marked(issued, ended + 1, K)'
  BY <1>2, <1>3, <1>8, <1>9 DEF Marked
<1> QED BY <1>10 DEF Transfers

\* A request whose transfers have ended leaves the queue: none of them is pending.
LEMMA HdmaTransfers ==
  ASSUME Control, Transfers, HdmaDone
  PROVE  Transfers'
<1>1. PICK issued \in Nat, ended \in Nat, K \in [Requests -> Nat] : Marked(issued, ended, K)
  BY DEF Transfers
<1>2. PICK h, n : h = Head(hdmaQ) /\ n = Len(hdmaQ)
  OBVIOUS
<1>3. /\ at = "HDMA" /\ hdmaQ # <<>> /\ CheckDone(tx, mark[h]) /\ hdmaQ' = Tail(hdmaQ)
      /\ UNCHANGED <<at, idx, mark, tx>>
  BY <1>2 DEF HdmaDone, dmaVars
<1>4. /\ n \in Nat /\ n >= 1 /\ h = hdmaQ[1] /\ 1 \in DOMAIN hdmaQ
      /\ DOMAIN hdmaQ = 1..n /\ DOMAIN hdmaQ' = 1..(n - 1) /\ Len(hdmaQ') = n - 1
      /\ \A i \in 1..(n - 1) : hdmaQ'[i] = hdmaQ[i + 1]
  <2>1. PICK q, s : q = hdmaQ /\ s = Tail(q)
    OBVIOUS
  <2>2. q \in Seq(Requests) /\ n = Len(q) /\ hdmaQ' = s /\ q # <<>> /\ h = Head(q)
    BY <1>2, <1>3, <2>1, QueuePlace
  <2>3. /\ n \in Nat /\ n >= 1 /\ h = q[1] /\ DOMAIN q = 1..n
        /\ DOMAIN s = 1..(n - 1) /\ Len(s) = n - 1
        /\ \A i \in 1..(n - 1) : s[i] = q[i + 1]
    BY <2>1, <2>2
  <2>4. 1 \in DOMAIN q
    BY <2>3
  <2> QED BY <2>1, <2>2, <2>3, <2>4
<1>5. h \notin ToSet(tx.pending)
  BY <1>1, <1>3, <1>4, CheckOfMarked
<1>6. ToSet(hdmaQ') = ToSet(hdmaQ) \ {h}
  BY <1>2, <1>3, HdmaHead
<1>7. Issuing' = Issuing
  BY <1>3 DEF Issuing
<1>8. ASSUME NEW i \in DOMAIN hdmaQ'
      PROVE  MarkKept(hdmaQ[i], K[hdmaQ[i]], Len(hdmaQ) - i, issued, ended)'
  <2>1. i + 1 \in DOMAIN hdmaQ /\ hdmaQ'[i] = hdmaQ[i + 1] /\ Len(hdmaQ') - i = Len(hdmaQ) - (i + 1)
    BY <1>2, <1>4
  <2>2. MarkKept(hdmaQ'[i], K[hdmaQ'[i]], Len(hdmaQ') - i, issued, ended)
    BY <1>1, <2>1 DEF Marked
  <2> QED BY <1>3, <1>7, <2>2 DEF MarkKept
<1>9. Owned(issued, ended)'
  <2>1. \A j \in DOMAIN tx.pending : tx.pending[j] \in ToSet(hdmaQ)
    BY <1>1, <1>3 DEF Marked, Owned
  <2>2. \A j \in DOMAIN tx.pending : tx.pending[j] \in ToSet(tx.pending)
    BY DEF ToSet
  <2> QED BY <1>3, <1>5, <1>6, <2>1, <2>2 DEF Owned
<1>10. Marked(issued, ended, K)'
  BY <1>1, <1>3, <1>8, <1>9 DEF Marked
<1> QED BY <1>10 DEF Transfers

LEMMA InitTransfers == Init => Transfers
<1> SUFFICES ASSUME Init PROVE Transfers
  OBVIOUS
<1>1. hdmaQ = <<>> /\ tx = EmptyFifo /\ at = "FIL"
  BY DEF Init
<1>2. Counted(Requests, tx, 0, 0)
  BY <1>1, EmptyCounted
<1>3. DOMAIN hdmaQ = {} /\ DOMAIN tx.pending = {}
  BY <1>1 DEF EmptyFifo
<1> DEFINE K == [r \in Requests |-> 0]
<1>4. K \in [Requests -> Nat]
  OBVIOUS
<1> HIDE DEF K
<1>5. Marked(0, 0, K)
  BY <1>1, <1>2, <1>3 DEF Marked, Owned
<1> QED BY <1>4, <1>5 DEF Transfers

LEMMA NextTransfers ==
  ASSUME Control, Transfers, [Next]_vars
  PROVE  Transfers'
<1>1. CASE \/ \E r \in Requests, c \in Commands : Command(r, c[1], c[2])
           \/ OthersTakeOrReturn
           \/ \E r \in Requests : ReadEnds(r)
           \/ \E u \in Units : ProgramEnds(u)
           \/ RxEnds \/ UNCHANGED vars
  BY <1>1, QuietTransfers
<1>2. CASE TxEnds
  BY <1>2, EndTransfers
<1>3. CASE Firmware
  BY <1>3, QuietTransfers, IssueTransfers, MarkTransfers, HdmaTransfers DEF Firmware, Served
<1> QED BY <1>1, <1>2, <1>3 DEF Next

(***************************************************************************)
(* The bounds of the loop variable and of the units.                       *)
(***************************************************************************)

\* A unit that is full is programmed at once.
Bounded ==
  /\ at \notin {"READ", "TX"} => idx = 0
  /\ \A u \in Units :
       /\ unit[u].pages <= LpnPerUnit
       /\ unit[u].pages = LpnPerUnit => unit[u].programming \/ (u = cur /\ at = "PROGRAM")

LEMMA InitBounded == Init => Bounded
BY SizeFacts DEF Init, Bounded, FreeUnit

\* The loop variable is zero again when its loop is left.
LEMMA IndexReset ==
  ASSUME Control, Bounded, [Next]_vars
  PROVE  at' \notin {"READ", "TX"} => idx' = 0
<1>1. CASE \/ \E r \in Requests, c \in Commands : Command(r, c[1], c[2])
           \/ OthersTakeOrReturn \/ (\E r \in Requests : ReadEnds(r))
           \/ (\E u \in Units : ProgramEnds(u)) \/ TxEnds \/ RxEnds \/ UNCHANGED vars
  <2>1. UNCHANGED <<at, idx>>
    BY <1>1 DEF Command, OthersTakeOrReturn, ReadEnds, ProgramEnds, TxEnds, RxEnds, vars
  <2> QED BY <2>1 DEF Bounded
<1>2. CASE \/ FilReturns \/ Spin \/ ReadDone \/ WriteDone \/ DoneQueueEmpty \/ HdmaDone
           \/ HdmaEmptyOrBusy \/ WritePage \/ IssueRx \/ IssueProgram \/ WaitRxDMADone
           \/ Written \/ WaitQueueLeft
  BY <1>2 DEF Bounded, FilReturns, Spin, ReadDone, WriteDone, DoneQueueEmpty, HdmaDone,
              HdmaEmptyOrBusy, WritePage, IssueRx, IssueProgram, WaitRxDMADone, Written,
              WaitQueueLeft
<1>3. CASE \/ NandReadDone \/ IssueTx \/ TxIssued \/ ReadStart \/ ReadHit \/ ReadPage \/ ReadIssued
  BY <1>3 DEF NandReadDone, IssueTx, TxIssued, ReadStart, ReadHit, ReadPage, ReadIssued, TakeBuffer
<1> QED BY <1>1, <1>2, <1>3 DEF Next, Firmware, Served

LEMMA NextBounded ==
  ASSUME Control, Pool, Bounded, [Next]_vars
  PROVE  Bounded'
<1>1. at' \notin {"READ", "TX"} => idx' = 0
  BY IndexReset
<1>2. unit \in [Units -> [pages : Nat, programming : BOOLEAN]] /\ cur \in Units
      /\ LpnPerUnit \in Nat \ {0}
  BY SizeFacts DEF Control, Typed
<1>3. CASE \/ \E r \in Requests, c \in Commands : Command(r, c[1], c[2])
           \/ OthersTakeOrReturn \/ (\E r \in Requests : ReadEnds(r))
           \/ TxEnds \/ RxEnds \/ UNCHANGED vars
           \/ FilReturns \/ Spin \/ NandReadDone \/ IssueTx \/ TxIssued \/ ReadDone \/ WriteDone
           \/ DoneQueueEmpty \/ HdmaDone \/ HdmaEmptyOrBusy \/ ReadStart \/ WritePage \/ ReadHit
           \/ ReadPage \/ ReadIssued \/ WaitRxDMADone \/ Written \/ WaitQueueLeft
  <2>1. UNCHANGED <<unit, cur>> /\ (at = "PROGRAM" => at' = "PROGRAM")
    BY <1>3 DEF Command, OthersTakeOrReturn, ReadEnds, TxEnds, RxEnds, vars, FilReturns, Spin,
         NandReadDone, IssueTx, TxIssued, ReadDone, WriteDone, DoneQueueEmpty, HdmaDone,
         HdmaEmptyOrBusy, ReadStart, WritePage, ReadHit, ReadPage, ReadIssued, TakeBuffer,
         WaitRxDMADone, Written, WaitQueueLeft, unitVars
  <2> QED BY <1>1, <2>1 DEF Bounded
<1>4. CASE \E u \in Units : ProgramEnds(u)
  <2>1. PICK u \in Units : ProgramEnds(u)
    BY <1>4
  <2>2. unit' = [unit EXCEPT ![u] = FreeUnit] /\ UNCHANGED <<at, cur>>
    BY <2>1 DEF ProgramEnds
  <2>3. \A v \in Units : unit'[v] = unit[v] \/ unit'[v].pages = 0
    BY <1>2, <2>2 DEF FreeUnit
  <2> QED BY <1>1, <1>2, <2>2, <2>3 DEF Bounded
<1>5. CASE IssueRx
  <2>1. /\ at = "RX" /\ UNCHANGED cur /\ unit' = [unit EXCEPT ![cur].pages = @ + 1]
        /\ at' = IF unit[cur].pages + 1 = LpnPerUnit THEN "PROGRAM" ELSE "WAIT"
    BY <1>5 DEF IssueRx
  <2>2. ~unit[cur].programming
    BY <2>1 DEF Pool, UnitsSound
  <2>3. unit[cur].pages < LpnPerUnit /\ unit[cur].pages \in Nat
    BY <1>2, <2>1, <2>2 DEF Bounded
  <2>4. /\ unit'[cur].pages = unit[cur].pages + 1
        /\ \A v \in Units : v # cur => unit'[v] = unit[v]
    BY <1>2, <2>1
  <2>5. /\ unit'[cur].pages <= LpnPerUnit
        /\ unit'[cur].pages = LpnPerUnit => at' = "PROGRAM"
    BY <1>2, <2>1, <2>3, <2>4
  <2>6. \A v \in Units : v # cur => /\ unit[v].pages <= LpnPerUnit
                                    /\ unit[v].pages = LpnPerUnit => unit[v].programming
    BY <2>1 DEF Bounded
  <2> QED BY <1>1, <2>1, <2>4, <2>5, <2>6 DEF Bounded
<1>6. CASE IssueProgram
  <2>1. at = "PROGRAM" /\ unit' = [unit EXCEPT ![cur].programming = TRUE]
    BY <1>6 DEF IssueProgram
  <2>2. /\ unit'[cur].programming
        /\ \A v \in Units : /\ unit'[v].pages = unit[v].pages
                            /\ v # cur => unit'[v].programming = unit[v].programming
    BY <1>2, <2>1
  <2> QED BY <1>1, <2>2 DEF Bounded
<1> QED BY <1>3, <1>4, <1>5, <1>6 DEF Next, Firmware, Served

------------------------------------------------------------------------------
\* The inductive invariant: the requests and their queues, the pool, the marks, and
\* the bounds.
HostInvariant == Control /\ Pool /\ Transfers /\ Bounded

\* The requests go through their states as their queues say, no buffer is counted
\* twice or lost, and each mark is the number of its transfer (dftl_request_hil.cpp,
\* buffer.cpp, host_lld.c).
THEOREM HostIoInvariant == Spec => []HostInvariant
<1>1. Init => HostInvariant
  BY InitControl, InitPool, InitTransfers, InitBounded DEF HostInvariant
<1>2. HostInvariant /\ [Next]_vars => HostInvariant'
  BY NextControl, NextPool, NextTransfers, NextBounded DEF HostInvariant
<1> QED BY <1>1, <1>2, PTL DEF Spec

\* Every page buffer is free or held once, on every path from the check of the free
\* count to the release, callbacks inside a handler included; and a read has all its
\* buffers while the NAND or the DMA works on one of them (buffer.cpp:106).
THEOREM BuffersAreHeld == Spec => []BuffersHeld
<1>1. ASSUME HostInvariant PROVE BuffersHeld
  <2>1. Control /\ Pool /\ Transfers /\ Typed /\ QueuesSound
    BY <1>1 DEF HostInvariant, Control
  <2>2. PICK issued \in Nat, ended \in Nat, K \in [Requests -> Nat] : Marked(issued, ended, K)
    BY <2>1 DEF Transfers
  <2>3. ASSUME NEW r \in Requests, reads[r] > 0, status[r] # "READ_WAIT"
        PROVE  bufs[r] = count[r]
    <3>1. RequestSound(r) /\ status[r] \in Statuses
      BY <2>1 DEF Control, Typed
    <3> QED BY <2>3, <3>1 DEF RequestSound, Statuses
  <2>4. ASSUME NEW r \in Requests, InQueue(tx.pending, r)
        PROVE  bufs[r] = count[r] /\ count[r] > 0
    <3>1. PICK j \in DOMAIN tx.pending : tx.pending[j] = r
      <4>1. tx.pending \in Seq(Requests)
        BY <2>1 DEF Typed
      <4> QED BY <2>4, <4>1 DEF InQueue
    <3>2. r \in ToSet(hdmaQ) \/ (at = "TX" /\ r = Head(doneQ))
      BY <2>2, <3>1 DEF Marked, Owned
    <3>3. status[r] \in {"READ_HDMA_ISSUE", "READ_NAND_DONE"}
      <4>1. at = "TX" => status[Head(doneQ)] = "READ_NAND_DONE"
        BY <2>1 DEF Control, PhaseSound
      <4> QED BY <2>1, <3>2, <4>1, WhereIs
    <3>4. RequestSound(r) /\ count[r] \in 0..MaxCount
      BY <2>1 DEF Control, Typed
    <3>5. bufs[r] = count[r] /\ count[r] >= 1
      BY <3>3, <3>4 DEF RequestSound
    <3> QED BY <3>4, <3>5
  <2>5. free >= 0 /\ free + others + HeldByRequests + HeldByUnits = BufCount
    BY <2>1 DEF Pool
  <2> QED BY <2>3, <2>4, <2>5 DEF BuffersHeld
<1> QED BY <1>1, HostIoInvariant, PTL

\* A read in the queue of the transfers is found done exactly when none of its
\* transfers is pending, however often the index and the count of its wraps have come
\* round since (host_lld.c:587).
THEOREM TransferChecksExact == Spec => []TransferCheckExact
<1>1. ASSUME HostInvariant PROVE TransferCheckExact
  <2>1. Control /\ Transfers /\ QueuesSound /\ Typed
    BY <1>1 DEF HostInvariant, Control
  <2>2. PICK issued \in Nat, ended \in Nat, K \in [Requests -> Nat] : Marked(issued, ended, K)
    BY <2>1 DEF Transfers
  <2>3. ASSUME NEW r \in Requests, status[r] = "READ_HDMA_ISSUE"
        PROVE  CheckDone(tx, mark[r]) <=> ~InQueue(tx.pending, r)
    <3>1. r \in ToSet(hdmaQ)
      BY <2>1, <2>3, WhereIs
    <3>2. PICK i \in DOMAIN hdmaQ : hdmaQ[i] = r
      BY <2>1, <3>1, QueuePlace
    <3>3. CheckDone(tx, mark[r]) <=> r \notin ToSet(tx.pending)
      BY <2>1, <2>2, <3>2, CheckOfMarked
    <3>4. InQueue(tx.pending, r) <=> r \in ToSet(tx.pending)
      <4>1. tx.pending \in Seq(Requests)
        BY <2>1 DEF Typed
      <4> QED BY <4>1 DEF InQueue, ToSet
    <3> QED BY <3>3, <3>4
  <2> QED BY <2>3 DEF TransferCheckExact
<1> QED BY <1>1, HostIoInvariant, PTL

\* Every variable stays in its range: no request has more pages done, buffers or reads
\* than a command may have, no unit more pages than it holds, and the free count never
\* wraps below zero (m_nFreeCount, m_nLPNCount, m_nDoneLPNCount).
THEOREM HostTypeCorrect == Spec => []TypeOK
<1>1. ASSUME HostInvariant PROVE TypeOK
  <2>1. Control /\ Typed /\ PhaseSound /\ QueuesSound /\ Pool /\ Bounded
    BY <1>1 DEF HostInvariant, Control
  <2>2. ASSUME NEW r \in Requests
        PROVE  done[r] \in 0..MaxCount /\ bufs[r] \in 0..MaxCount /\ reads[r] \in 0..MaxCount
    <3>1. /\ RequestSound(r) /\ count[r] \in 0..MaxCount /\ done[r] \in Nat /\ bufs[r] \in Nat
          /\ reads[r] \in Nat /\ status[r] \in Statuses /\ MaxCount \in Nat /\ idx \in Nat
      BY <2>1, SizeFacts DEF Control, Typed
    <3>2. status[r] = "READ_WAIT" => Taken(r) \in Nat /\ Taken(r) <= count[r]
      BY <2>1, <3>1 DEF Taken, PhaseSound
    <3>3. bufs[r] <= count[r] /\ reads[r] <= count[r] /\ done[r] <= count[r]
      BY <3>1, <3>2 DEF RequestSound, Statuses
    <3> QED BY <3>1, <3>3
  <2>3. idx \in 0..MaxCount
    <3>1. idx \in Nat /\ MaxCount \in Nat
      BY <2>1, SizeFacts DEF Typed
    <3>2. CASE at = "READ"
      <4>1. Head(waitQ) \in Requests /\ idx <= count[Head(waitQ)]
        BY <2>1, <3>2, WaitHead DEF PhaseSound
      <4>2. count[Head(waitQ)] \in 0..MaxCount
        BY <2>1, <4>1 DEF Typed
      <4> QED BY <3>1, <4>1, <4>2
    <3>3. CASE at = "TX"
      <4>1. Head(doneQ) \in Requests /\ idx <= bufs[Head(doneQ)]
        BY <2>1, <3>3, DoneHead DEF PhaseSound
      <4>2. bufs[Head(doneQ)] \in 0..MaxCount
        BY <2>2, <4>1
      <4> QED BY <3>1, <4>1, <4>2
    <3>4. CASE at \notin {"READ", "TX"}
      BY <2>1, <3>1, <3>4 DEF Bounded
    <3> QED BY <3>2, <3>3, <3>4
  <2>4. free \in 0..BufCount
    <3>1. /\ free \in Int /\ free >= 0 /\ others \in Nat /\ HeldByRequests \in Nat /\ HeldByUnits \in Nat
          /\ free + others + HeldByRequests + HeldByUnits = BufCount /\ BufCount \in Nat
      BY <2>1, HeldFacts, SizeFacts DEF Pool, Typed
    <3> QED BY <3>1
  <2>5. unit \in [Units -> [pages : 0..LpnPerUnit, programming : BOOLEAN]]
    <3>1. unit \in [Units -> [pages : Nat, programming : BOOLEAN]] /\ LpnPerUnit \in Nat
      BY <2>1, SizeFacts DEF Typed
    <3>2. ASSUME NEW u \in Units
          PROVE  unit[u] \in [pages : 0..LpnPerUnit, programming : BOOLEAN]
      <4>1. unit[u].pages <= LpnPerUnit /\ unit[u] \in [pages : Nat, programming : BOOLEAN]
        BY <2>1, <3>1 DEF Bounded
      <4> QED BY <3>1, <4>1
    <3> QED BY <3>1, <3>2
  <2>6. /\ done \in [Requests -> 0..MaxCount] /\ bufs \in [Requests -> 0..MaxCount]
        /\ reads \in [Requests -> 0..MaxCount]
    BY <2>1, <2>2 DEF Typed
  <2>7. /\ at \in Phases /\ spinning \in BOOLEAN
        /\ status \in [Requests -> Statuses] /\ count \in [Requests -> 0..MaxCount]
        /\ mark \in [Requests -> Marks] /\ others \in 0..OthersMax /\ cur \in Units
    BY <2>1 DEF Typed
  <2> QED BY <2>3, <2>4, <2>5, <2>6, <2>7 DEF TypeOK, Phases, Marks
<1> QED BY <1>1, HostIoInvariant, PTL
=============================================================================
