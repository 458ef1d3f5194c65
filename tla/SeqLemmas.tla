------------------------------ MODULE SeqLemmas ------------------------------
(***************************************************************************)
(* What the list and queue operators of the models do to the set of the    *)
(* elements of a sequence.  The lists of the firmware (common/list.h) are  *)
(* sequences in the models; the proofs need which elements a list holds    *)
(* after an operation, seldom their order.                                 *)
(***************************************************************************)
EXTENDS SequencesExt, FiniteSetTheorems, SequenceTheorems, WellFoundedInduction,
        TLAPS

\* A nonempty set of positions has a least one: what a walk from the head finds.
LEMMA LeastPosition ==
  ASSUME NEW S, S \subseteq Nat, S # {}
  PROVE  \E i \in S : \A j \in S : i <= j
<1> DEFINE R == {ss \in Nat \X Nat : ss[1] < ss[2]}
<1>1. IsWellFoundedOn(R, Nat)
  BY NatLessThanWellFounded DEF OpToRel
<1>2. PICK i \in S : \A j \in S : ~ (<<j, i>> \in R)
  BY <1>1, WFMin
<1>3. \A j \in S : ~ (j < i)
  BY <1>2
<1> QED BY <1>3

\* The elements of a sequence are what its positions hold.
LEMMA ToSetMember ==
  ASSUME NEW S, NEW s \in Seq(S)
  PROVE  /\ ToSet(s) \subseteq S
         /\ \A x : x \in ToSet(s) <=> \E i \in 1..Len(s) : s[i] = x
<1>1. DOMAIN s = 1..Len(s) /\ \A i \in 1..Len(s) : s[i] \in S
  OBVIOUS
<1> QED BY <1>1 DEF ToSet

\* A concatenation holds the elements of both sequences.
LEMMA ConcatSet ==
  ASSUME NEW S, NEW s \in Seq(S), NEW t \in Seq(S)
  PROVE  /\ s \o t \in Seq(S)
         /\ ToSet(s \o t) = ToSet(s) \union ToSet(t)
<1> DEFINE u == s \o t
<1>1. /\ u \in Seq(S)
      /\ Len(u) = Len(s) + Len(t)
      /\ \A i \in 1..Len(s) + Len(t) :
           u[i] = IF i <= Len(s) THEN s[i] ELSE t[i - Len(s)]
  BY ConcatProperties
<1> HIDE DEF u
<1>2. Len(s) \in Nat /\ Len(t) \in Nat
  OBVIOUS
<1>3. ASSUME NEW x, x \in ToSet(u) PROVE x \in ToSet(s) \union ToSet(t)
  <2>1. PICK i \in 1..Len(u) : u[i] = x
    BY <1>1, <1>3, ToSetMember
  <2>2. CASE i <= Len(s)
    <3>1. i \in 1..Len(s) /\ s[i] = x
      BY <1>1, <1>2, <2>1, <2>2
    <3> QED BY <3>1, ToSetMember
  <2>3. CASE i > Len(s)
    <3>1. i - Len(s) \in 1..Len(t) /\ t[i - Len(s)] = x
      BY <1>1, <1>2, <2>1, <2>3
    <3> QED BY <3>1, ToSetMember
  <2> QED BY <1>2, <2>2, <2>3
<1>4. ASSUME NEW x, x \in ToSet(s) PROVE x \in ToSet(u)
  <2>1. PICK i \in 1..Len(s) : s[i] = x
    BY <1>4, ToSetMember
  <2>2. i \in 1..Len(u) /\ u[i] = x
    BY <1>1, <1>2, <2>1
  <2> QED BY <1>1, <2>2, ToSetMember
<1>5. ASSUME NEW x, x \in ToSet(t) PROVE x \in ToSet(u)
  <2>1. PICK i \in 1..Len(t) : t[i] = x
    BY <1>5, ToSetMember
  <2>2. /\ i + Len(s) \in 1..Len(u)
        /\ ~(i + Len(s) <= Len(s))
        /\ (i + Len(s)) - Len(s) = i
    BY <1>1, <1>2, <2>1
  <2>3. u[i + Len(s)] = t[(i + Len(s)) - Len(s)]
    BY <1>1, <2>2
  <2>4. u[i + Len(s)] = x
    BY <2>1, <2>2, <2>3
  <2> QED BY <1>1, <2>2, <2>4, ToSetMember
<1>6. ToSet(u) = ToSet(s) \union ToSet(t)
  BY <1>3, <1>4, <1>5
<1> QED BY <1>1, <1>6 DEF u

\* list_add_head puts an element on a list and takes none off.
LEMMA ConsFacts ==
  ASSUME NEW S, NEW s \in Seq(S), NEW x \in S
  PROVE  /\ Cons(x, s) \in Seq(S)
         /\ ToSet(Cons(x, s)) = ToSet(s) \union {x}
<1> DEFINE t == <<x>>
<1>1. t \in Seq(S) /\ Len(t) = 1 /\ t[1] = x
  OBVIOUS
<1>2. Cons(x, s) = t \o s
  BY DEF Cons
<1> HIDE DEF t
<1>3. ToSet(t) = {x}
  <2>1. \A y : y \in ToSet(t) <=> \E i \in 1..Len(t) : t[i] = y
    BY <1>1, ToSetMember
  <2>2. 1..Len(t) = {1}
    BY <1>1
  <2> QED BY <1>1, <2>1, <2>2
<1>4. t \o s \in Seq(S) /\ ToSet(t \o s) = ToSet(t) \union ToSet(s)
  BY <1>1, ConcatSet
<1> QED BY <1>2, <1>3, <1>4

\* A segment holds the elements at its positions.
LEMMA SubSeqSet ==
  ASSUME NEW S, NEW s \in Seq(S), NEW m \in Nat \ {0}, NEW n \in 0..Len(s)
  PROVE  /\ SubSeq(s, m, n) \in Seq(S)
         /\ ToSet(SubSeq(s, m, n)) = {s[j] : j \in m..n}
<1> DEFINE u == SubSeq(s, m, n)
<1>1. \A j \in m..n : s[j] \in S
  OBVIOUS
<1>2. /\ u \in Seq(S)
      /\ Len(u) = IF m <= n THEN n - m + 1 ELSE 0
      /\ \A i \in 1..n - m + 1 : u[i] = s[m + i - 1]
  BY <1>1, SubSeqProperties
<1> HIDE DEF u
<1>3. ASSUME NEW x, x \in ToSet(u) PROVE x \in {s[j] : j \in m..n}
  <2>1. PICK i \in 1..Len(u) : u[i] = x
    BY <1>2, <1>3, ToSetMember
  <2>2. m <= n
    BY <1>2, <2>1
  <2>3. m + i - 1 \in m..n /\ s[m + i - 1] = x
    BY <1>2, <2>1, <2>2
  <2> QED BY <2>3
<1>4. ASSUME NEW j \in m..n PROVE s[j] \in ToSet(u)
  <2>1. j - m + 1 \in 1..Len(u) /\ j - m + 1 \in 1..n - m + 1 /\ m + (j - m + 1) - 1 = j
    BY <1>2
  <2>2. u[j - m + 1] = s[m + (j - m + 1) - 1]
    BY <1>2, <2>1
  <2>3. u[j - m + 1] = s[j]
    BY <2>1, <2>2
  <2> QED BY <1>2, <2>1, <2>3, ToSetMember
<1>5. ToSet(u) = {s[j] : j \in m..n}
  BY <1>3, <1>4
<1> QED BY <1>2, <1>5 DEF u

\* list_del of a position takes off at most the element it holds.
LEMMA RemoveAtFacts ==
  ASSUME NEW S, NEW s \in Seq(S), NEW i \in DOMAIN s
  PROVE  /\ s[i] \in S
         /\ RemoveAt(s, i) \in Seq(S)
         /\ ToSet(RemoveAt(s, i)) \subseteq ToSet(s)
         /\ ToSet(RemoveAt(s, i)) \union {s[i]} = ToSet(s)
<1>1. /\ DOMAIN s = 1..Len(s) /\ Len(s) \in Nat /\ i \in 1..Len(s)
      /\ s[i] \in S
  OBVIOUS
<1> DEFINE a == SubSeq(s, 1, i - 1)
           b == SubSeq(s, i + 1, Len(s))
<1>2. a \in Seq(S) /\ ToSet(a) = {s[j] : j \in 1..i - 1}
  BY <1>1, SubSeqSet
<1>3. b \in Seq(S) /\ ToSet(b) = {s[j] : j \in i + 1..Len(s)}
  BY <1>1, SubSeqSet
<1>a. RemoveAt(s, i) = a \o b
  BY DEF RemoveAt
<1> HIDE DEF a, b
<1>b. a \o b \in Seq(S) /\ ToSet(a \o b) = ToSet(a) \union ToSet(b)
  BY <1>2, <1>3, ConcatSet
<1>4. /\ RemoveAt(s, i) \in Seq(S)
      /\ ToSet(RemoveAt(s, i)) = {s[j] : j \in 1..i - 1} \union {s[j] : j \in i + 1..Len(s)}
  BY <1>2, <1>3, <1>a, <1>b
<1>5. 1..Len(s) = (1..i - 1) \union {i} \union (i + 1..Len(s))
  BY <1>1
<1> QED BY <1>1, <1>4, <1>5 DEF ToSet

\* What list_del leaves, position by position.
LEMMA RemoveAtPoints ==
  ASSUME NEW S, NEW s \in Seq(S), NEW k \in DOMAIN s
  PROVE  /\ Len(RemoveAt(s, k)) = Len(s) - 1
         /\ \A i \in 1..Len(s) - 1 : RemoveAt(s, k)[i] = IF i < k THEN s[i] ELSE s[i + 1]
<1>1. /\ DOMAIN s = 1..Len(s) /\ Len(s) \in Nat /\ k \in 1..Len(s)
  OBVIOUS
<1> DEFINE a == SubSeq(s, 1, k - 1)
           b == SubSeq(s, k + 1, Len(s))
<1>2. a \in Seq(S) /\ Len(a) = k - 1 /\ \A i \in 1..k - 1 : a[i] = s[i]
  BY <1>1
<1>3. b \in Seq(S) /\ Len(b) = Len(s) - k /\ \A i \in 1..Len(s) - k : b[i] = s[k + i]
  BY <1>1
<1>4. RemoveAt(s, k) = a \o b
  BY DEF RemoveAt
<1> HIDE DEF a, b
<1>5. /\ Len(a \o b) = Len(a) + Len(b)
      /\ \A i \in 1..Len(a) + Len(b) :
           (a \o b)[i] = IF i <= Len(a) THEN a[i] ELSE b[i - Len(a)]
  BY <1>2, <1>3, ConcatProperties
<1>6. Len(a) + Len(b) = Len(s) - 1
  BY <1>1, <1>2, <1>3
<1>7. ASSUME NEW i \in 1..Len(s) - 1
      PROVE  (a \o b)[i] = IF i < k THEN s[i] ELSE s[i + 1]
  <2>1. CASE i < k
    <3>1. i \in 1..k - 1 /\ i <= Len(a)
      BY <1>1, <1>2, <2>1
    <3> QED BY <1>2, <1>5, <1>6, <2>1, <3>1
  <2>2. CASE ~(i < k)
    <3>1. i - (k - 1) \in 1..Len(s) - k /\ ~(i <= Len(a)) /\ k + (i - (k - 1)) = i + 1
      BY <1>1, <1>2, <2>2
    <3> QED BY <1>2, <1>3, <1>5, <1>6, <2>2, <3>1
  <2> QED BY <2>1, <2>2
<1> QED BY <1>4, <1>5, <1>6, <1>7

\* A list without its last element, and that element, make up the list.
LEMMA FrontFacts ==
  ASSUME NEW S, NEW s \in Seq(S), s # <<>>
  PROVE  /\ Last(s) \in S
         /\ Front(s) \in Seq(S)
         /\ ToSet(Front(s)) \union {Last(s)} = ToSet(s)
<1>1. Len(s) \in Nat \ {0} /\ s[Len(s)] \in S /\ Len(s) - 1 \in 0..Len(s)
  OBVIOUS
<1>2. Front(s) \in Seq(S) /\ ToSet(Front(s)) = {s[j] : j \in 1..Len(s) - 1}
  BY <1>1, SubSeqSet DEF Front
<1>3. ToSet(s) = {s[j] : j \in 1..Len(s)}
  BY DEF ToSet
<1>4. 1..Len(s) = (1..Len(s) - 1) \union {Len(s)}
  BY <1>1
<1> QED BY <1>1, <1>2, <1>3, <1>4 DEF Last

\* No element is twice on the queue.
Injective(q) == \A i, j \in DOMAIN q : q[i] = q[j] => i = j

\* Removing the head of a queue, that holds nothing twice, removes just the head.
LEMMA TailFacts ==
  ASSUME NEW S, NEW q \in Seq(S), q # <<>>
  PROVE  /\ Head(q) \in S
         /\ Head(q) \in ToSet(q)
         /\ Tail(q) \in Seq(S)
         /\ ToSet(Tail(q)) \union {Head(q)} = ToSet(q)
         /\ Injective(q) => Injective(Tail(q)) /\ ToSet(Tail(q)) = ToSet(q) \ {Head(q)}
<1> DEFINE t == Tail(q)
<1>1. /\ Head(q) \in S
      /\ t \in Seq(S)
      /\ Len(t) = Len(q) - 1
      /\ \A i \in 1..Len(t) : t[i] = q[i + 1]
  BY HeadTailProperties
<1>2. Len(q) \in Nat \ {0} /\ Head(q) = q[1] /\ 1 \in 1..Len(q)
  OBVIOUS
<1> HIDE DEF t
<1>3. DOMAIN t = 1..Len(t) /\ DOMAIN q = 1..Len(q)
  BY <1>1
<1>4. ASSUME NEW x, x \in ToSet(t)
      PROVE  x \in ToSet(q) /\ \E i \in 2..Len(q) : q[i] = x
  <2>1. PICK i \in 1..Len(t) : t[i] = x
    BY <1>1, <1>4, ToSetMember
  <2>2. i + 1 \in 2..Len(q) /\ q[i + 1] = x
    BY <1>1, <1>2, <2>1
  <2>3. i + 1 \in 1..Len(q)
    BY <2>2
  <2> QED BY <2>2, <2>3, ToSetMember
<1>5. ASSUME NEW x, x \in ToSet(q), x # Head(q) PROVE x \in ToSet(t)
  <2>1. PICK i \in 1..Len(q) : q[i] = x
    BY <1>5, ToSetMember
  <2>2. i - 1 \in 1..Len(t) /\ (i - 1) + 1 = i
    BY <1>1, <1>2, <1>5, <2>1
  <2>3. t[i - 1] = q[(i - 1) + 1]
    BY <1>1, <2>2
  <2> QED BY <1>1, <2>1, <2>2, <2>3, ToSetMember
<1>6. Head(q) \in ToSet(q)
  BY <1>2, ToSetMember
<1>7. ToSet(t) \union {Head(q)} = ToSet(q)
  BY <1>4, <1>5, <1>6
<1>8. ASSUME Injective(q) PROVE Injective(t) /\ ToSet(t) = ToSet(q) \ {Head(q)}
  <2>1. ASSUME NEW i \in 1..Len(t), NEW j \in 1..Len(t), t[i] = t[j] PROVE i = j
    <3>1. i + 1 \in 1..Len(q) /\ j + 1 \in 1..Len(q) /\ q[i + 1] = q[j + 1]
      BY <1>1, <1>2, <2>1
    <3>2. i + 1 = j + 1
      BY <1>3, <1>8, <3>1 DEF Injective
    <3> QED BY <3>2
  <2>2. Head(q) \notin ToSet(t)
    <3>1. SUFFICES ASSUME Head(q) \in ToSet(t) PROVE FALSE
      OBVIOUS
    <3>2. PICK i \in 2..Len(q) : q[i] = Head(q)
      BY <1>4, <3>1
    <3>3. i \in 1..Len(q) /\ i # 1
      BY <3>2
    <3> QED BY <1>2, <1>3, <1>8, <3>2, <3>3 DEF Injective
  <2> QED BY <1>3, <1>7, <2>1, <2>2 DEF Injective
<1> QED BY <1>1, <1>6, <1>7, <1>8 DEF t

\* list_add_tail puts an element on a queue; nothing is twice on it if the element
\* was not there.
LEMMA AppendFacts ==
  ASSUME NEW S, NEW q \in Seq(S), NEW x \in S
  PROVE  /\ Append(q, x) \in Seq(S)
         /\ ToSet(Append(q, x)) = ToSet(q) \union {x}
         /\ Injective(q) /\ x \notin ToSet(q) => Injective(Append(q, x))
<1> DEFINE t == Append(q, x)
<1>1. /\ t \in Seq(S)
      /\ Len(t) = Len(q) + 1
      /\ \A i \in 1..Len(q) : t[i] = q[i]
      /\ t[Len(q) + 1] = x
  BY AppendProperties
<1> HIDE DEF t
<1>2. /\ DOMAIN t = 1..Len(t) /\ DOMAIN q = 1..Len(q) /\ Len(q) \in Nat
      /\ 1..Len(t) = 1..Len(q) \union {Len(q) + 1}
  BY <1>1
<1>3. \A y : y \in ToSet(t) <=> \E i \in 1..Len(t) : t[i] = y
  BY <1>1, ToSetMember
<1>4. \A y : y \in ToSet(q) <=> \E i \in 1..Len(q) : q[i] = y
  BY ToSetMember
<1>5. ToSet(t) = ToSet(q) \union {x}
  BY <1>1, <1>2, <1>3, <1>4
<1>6. ASSUME Injective(q), x \notin ToSet(q),
             NEW i \in 1..Len(t), NEW j \in 1..Len(t), t[i] = t[j]
      PROVE  i = j
  <2>1. CASE i \in 1..Len(q) /\ j \in 1..Len(q)
    BY <1>1, <1>2, <1>6, <2>1 DEF Injective
  <2>2. CASE i = Len(q) + 1 /\ j \in 1..Len(q)
    BY <1>1, <1>4, <1>6, <2>2
  <2>3. CASE j = Len(q) + 1 /\ i \in 1..Len(q)
    BY <1>1, <1>4, <1>6, <2>3
  <2>4. CASE i = Len(q) + 1 /\ j = Len(q) + 1
    BY <2>4
  <2> QED BY <1>2, <2>1, <2>2, <2>3, <2>4
<1>7. Injective(q) /\ x \notin ToSet(q) => Injective(t)
  BY <1>2, <1>6 DEF Injective
<1> QED BY <1>1, <1>5, <1>7 DEF t

\* Nothing is twice on a queue if the element list_add_head puts on it was not there.
LEMMA ConsInjective ==
  ASSUME NEW S, NEW q \in Seq(S), NEW x \in S, Injective(q), x \notin ToSet(q)
  PROVE  Injective(Cons(x, q))
<1> DEFINE h == <<x>>
           t == h \o q
<1>1. h \in Seq(S) /\ Len(h) = 1 /\ h[1] = x
  OBVIOUS
<1>2. Cons(x, q) = t
  BY DEF Cons
<1> HIDE DEF h
<1>3. /\ t \in Seq(S)
      /\ Len(t) = 1 + Len(q)
      /\ \A i \in 1..1 + Len(q) : t[i] = IF i <= 1 THEN h[i] ELSE q[i - 1]
  <2>1. /\ t \in Seq(S)
        /\ Len(t) = Len(h) + Len(q)
        /\ \A i \in 1..Len(h) + Len(q) : t[i] = IF i <= Len(h) THEN h[i] ELSE q[i - Len(h)]
    BY <1>1, ConcatProperties
  <2> HIDE DEF t
  <2> QED BY <1>1, <2>1
<1> HIDE DEF t
<1>4. DOMAIN t = 1..Len(t) /\ DOMAIN q = 1..Len(q) /\ Len(q) \in Nat
  BY <1>3
<1>5. t[1] = x /\ \A i \in 2..Len(t) : i - 1 \in 1..Len(q) /\ t[i] = q[i - 1]
  <2>1. 1 \in 1..1 + Len(q) /\ t[1] = h[1]
    BY <1>3, <1>4
  <2>2. ASSUME NEW i \in 2..Len(t) PROVE i - 1 \in 1..Len(q) /\ t[i] = q[i - 1]
    <3>1. i \in 1..1 + Len(q) /\ ~(i <= 1) /\ i - 1 \in 1..Len(q)
      BY <1>3, <1>4
    <3> QED BY <1>3, <3>1
  <2> QED BY <1>1, <2>1, <2>2
<1>6. \A i \in 2..Len(t) : t[i] # x
  BY <1>5, ToSetMember
<1>7. ASSUME NEW i \in 1..Len(t), NEW j \in 1..Len(t), t[i] = t[j] PROVE i = j
  <2>1. CASE i = 1 \/ j = 1
    BY <1>3, <1>4, <1>5, <1>6, <1>7, <2>1
  <2>2. CASE i # 1 /\ j # 1
    <3>1. i \in 2..Len(t) /\ j \in 2..Len(t)
      BY <1>3, <1>4, <2>2
    <3>2. i - 1 \in 1..Len(q) /\ j - 1 \in 1..Len(q) /\ q[i - 1] = q[j - 1]
      BY <1>5, <1>7, <3>1
    <3>3. i - 1 = j - 1
      BY <1>4, <3>2 DEF Injective
    <3> QED BY <3>3
  <2> QED BY <2>1, <2>2
<1> QED BY <1>2, <1>4, <1>7 DEF Injective

\* Nothing is twice on a queue to which elements are added that were not on it.
LEMMA ConcatInjective ==
  ASSUME NEW S, NEW s \in Seq(S), NEW t \in Seq(S),
         Injective(s), Injective(t), ToSet(s) \intersect ToSet(t) = {}
  PROVE  Injective(s \o t)
<1> DEFINE u == s \o t
<1>1. /\ u \in Seq(S)
      /\ Len(u) = Len(s) + Len(t)
      /\ \A i \in 1..Len(s) + Len(t) :
           u[i] = IF i <= Len(s) THEN s[i] ELSE t[i - Len(s)]
  BY ConcatProperties
<1> HIDE DEF u
<1>2. /\ DOMAIN u = 1..Len(u) /\ DOMAIN s = 1..Len(s) /\ DOMAIN t = 1..Len(t)
      /\ Len(s) \in Nat /\ Len(t) \in Nat
  BY <1>1
<1>3. ASSUME NEW i \in 1..Len(u)
      PROVE  \/ i \in 1..Len(s) /\ u[i] = s[i]
             \/ i - Len(s) \in 1..Len(t) /\ u[i] = t[i - Len(s)]
  <2>1. u[i] = IF i <= Len(s) THEN s[i] ELSE t[i - Len(s)]
    BY <1>1
  <2>2. CASE i <= Len(s)
    <3>1. i \in 1..Len(s)
      BY <1>2, <2>2
    <3> QED BY <2>1, <2>2, <3>1
  <2>3. CASE ~(i <= Len(s))
    <3>1. i - Len(s) \in 1..Len(t)
      BY <1>1, <1>2, <2>3
    <3> QED BY <2>1, <2>3, <3>1
  <2> QED BY <2>2, <2>3
<1>4. ASSUME NEW i \in 1..Len(s), NEW j \in 1..Len(t) PROVE s[i] # t[j]
  <2>1. s[i] \in ToSet(s) /\ t[j] \in ToSet(t)
    BY ToSetMember
  <2> QED BY <2>1
<1>5. ASSUME NEW i \in 1..Len(u), NEW j \in 1..Len(u), u[i] = u[j] PROVE i = j
  <2>1. CASE i \in 1..Len(s) /\ u[i] = s[i]
    <3>1. j \in 1..Len(s) /\ u[j] = s[j]
      BY <1>3, <1>4, <1>5, <2>1
    <3> QED BY <1>2, <1>5, <2>1, <3>1 DEF Injective
  <2>2. CASE i - Len(s) \in 1..Len(t) /\ u[i] = t[i - Len(s)]
    <3>1. j - Len(s) \in 1..Len(t) /\ u[j] = t[j - Len(s)]
      BY <1>3, <1>4, <1>5, <2>2
    <3>2. i - Len(s) = j - Len(s)
      BY <1>2, <1>5, <2>2, <3>1 DEF Injective
    <3> QED BY <1>1, <1>2, <3>2
  <2> QED BY <1>3, <2>1, <2>2
<1> QED BY <1>2, <1>5 DEF Injective, u

\* The initial free list holds every element of the pool, once.
LEMMA SetToSeqFacts ==
  ASSUME NEW S, IsFiniteSet(S)
  PROVE  /\ SetToSeq(S) \in Seq(S)
         /\ ToSet(SetToSeq(S)) = S
         /\ Injective(SetToSeq(S))
<1> DEFINE n == Cardinality(S)
           f == SetToSeq(S)
<1>1. n \in Nat /\ ExistsBijection(1..n, S)
  BY FS_CardinalityType
<1>2. \E g \in [1..n -> S] : IsInjective(g)
  BY <1>1 DEF ExistsBijection, Bijection, Injection
<1>3. f \in [1..n -> S] /\ IsInjective(f)
  BY <1>2 DEF SetToSeq
<1>4. IsFiniteSet(1..n) /\ Cardinality(1..n) = n
  BY <1>1, FS_Interval
<1>5. f \in Surjection(1..n, S)
  BY <1>3, <1>4, FS_Injection DEF Injection
<1> HIDE DEF f, n
<1>6. f \in Seq(S) /\ DOMAIN f = 1..n
  BY <1>1, <1>3
<1>7. ToSet(f) = S
  BY <1>3, <1>5, <1>6 DEF ToSet, Surjection
<1>8. Injective(f)
  BY <1>3, <1>6 DEF Injective, IsInjective
<1> QED BY <1>6, <1>7, <1>8 DEF f

\* What list_add leaves, position by position.
LEMMA ConsPoints ==
  ASSUME NEW S, NEW s \in Seq(S), NEW x \in S
  PROVE  /\ Len(Cons(x, s)) = Len(s) + 1
         /\ Cons(x, s)[1] = x
         /\ \A i \in 1..Len(s) : Cons(x, s)[i + 1] = s[i]
<1> DEFINE h == <<x>>
           t == h \o s
<1>1. h \in Seq(S) /\ Len(h) = 1 /\ h[1] = x /\ Len(s) \in Nat
  OBVIOUS
<1>2. Cons(x, s) = t
  BY DEF Cons
<1>3. /\ Len(t) = Len(h) + Len(s)
      /\ \A i \in 1..Len(h) + Len(s) : t[i] = IF i <= Len(h) THEN h[i] ELSE s[i - Len(h)]
  BY <1>1, ConcatProperties
<1> HIDE DEF h, t
<1>4. t[1] = x
  BY <1>1, <1>3
<1>5. ASSUME NEW i \in 1..Len(s)
      PROVE  t[i + 1] = s[i]
  <2>1. i + 1 \in 1..Len(h) + Len(s) /\ ~(i + 1 <= Len(h)) /\ i + 1 - Len(h) = i
    BY <1>1
  <2> QED BY <1>3, <2>1
<1> QED BY <1>1, <1>2, <1>3, <1>4, <1>5

\* list_del leaves nothing twice, and takes the element off.
LEMMA RemoveAtInjective ==
  ASSUME NEW S, NEW s \in Seq(S), NEW k \in DOMAIN s, Injective(s)
  PROVE  Injective(RemoveAt(s, k)) /\ s[k] \notin ToSet(RemoveAt(s, k))
<1> DEFINE p == RemoveAt(s, k)
<1>1. /\ p \in Seq(S) /\ Len(p) = Len(s) - 1
      /\ \A i \in 1..Len(s) - 1 : p[i] = IF i < k THEN s[i] ELSE s[i + 1]
  BY RemoveAtFacts, RemoveAtPoints
<1>2. /\ DOMAIN s = 1..Len(s) /\ Len(s) \in Nat /\ k \in 1..Len(s)
      /\ DOMAIN p = 1..Len(s) - 1
  BY <1>1
<1> HIDE DEF p
<1> DEFINE f(i) == IF i < k THEN i ELSE i + 1
<1>3. \A i \in DOMAIN p : f(i) \in DOMAIN s /\ f(i) # k /\ p[i] = s[f(i)]
  BY <1>1, <1>2
<1>4. \A i, j \in DOMAIN p : f(i) = f(j) => i = j
  BY <1>2
<1> HIDE DEF f
<1>5. Injective(p)
  BY <1>3, <1>4 DEF Injective
<1>6. s[k] \notin ToSet(p)
  BY <1>3 DEF Injective, ToSet
<1> QED BY <1>5, <1>6 DEF p

\* Nothing is twice on a list without its last element, and that element is off.
LEMMA FrontInjective ==
  ASSUME NEW S, NEW s \in Seq(S), s # <<>>, Injective(s)
  PROVE  Injective(Front(s)) /\ Last(s) \notin ToSet(Front(s))
<1> DEFINE p == Front(s)
<1>1. Len(s) \in Nat \ {0} /\ DOMAIN s = 1..Len(s)
  OBVIOUS
<1>2. Len(p) = Len(s) - 1 /\ DOMAIN p = 1..Len(s) - 1
      /\ \A i \in 1..Len(s) - 1 : p[i] = s[i]
  BY <1>1 DEF Front
<1> HIDE DEF p
<1>3. Injective(p)
  BY <1>1, <1>2 DEF Injective
<1>4. Last(s) \notin ToSet(p)
  BY <1>1, <1>2 DEF Injective, ToSet, Last
<1> QED BY <1>3, <1>4 DEF p

\* list_move_head of the head changes nothing.
LEMMA MoveHead ==
  ASSUME NEW S, NEW s \in Seq(S), s # <<>>
  PROVE  Cons(s[1], RemoveAt(s, 1)) = s
<1> DEFINE p == RemoveAt(s, 1)
           c == Cons(s[1], p)
<1>1. 1 \in DOMAIN s /\ Len(s) \in Nat \ {0} /\ s[1] \in S
  OBVIOUS
<1>2. /\ p \in Seq(S) /\ Len(p) = Len(s) - 1
      /\ \A i \in 1..Len(s) - 1 : p[i] = IF i < 1 THEN s[i] ELSE s[i + 1]
  BY <1>1, RemoveAtFacts, RemoveAtPoints
<1> HIDE DEF p
<1>3. /\ c \in Seq(S) /\ Len(c) = Len(p) + 1 /\ c[1] = s[1]
      /\ \A i \in 1..Len(p) : c[i + 1] = p[i]
  BY <1>1, <1>2, ConsFacts, ConsPoints
<1> HIDE DEF c
<1>4. ASSUME NEW i \in 1..Len(s)
      PROVE  c[i] = s[i]
  <2>1. CASE i = 1
    BY <1>3, <2>1
  <2>2. CASE i # 1
    <3>1. i - 1 \in 1..Len(p) /\ ~(i - 1 < 1) /\ i - 1 + 1 = i
      BY <1>1, <1>2, <2>2
    <3> QED BY <1>2, <1>3, <3>1
  <2> QED BY <2>1, <2>2
<1>5. c = s
  BY <1>1, <1>2, <1>3, <1>4, SeqEqual
<1> QED BY <1>5 DEF c, p
=============================================================================
