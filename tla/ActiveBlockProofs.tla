-------------------------- MODULE ActiveBlockProofs --------------------------
(***************************************************************************)
(* For every number of units, pages, dies and requests that the            *)
(* configuration allows: a slot that gets another block has nothing in     *)
(* flight, the hash counts the buffered pages, a host read that finds its  *)
(* page in a unit finds the mapped one, and one that finds it in no unit   *)
(* reads a page that has been given to the FIL.                            *)
(***************************************************************************)
EXTENDS ActiveBlock, SeqLemmas

(***************************************************************************)
(* The inductive invariant.                                                *)
(***************************************************************************)

Places  == [stream : Streams, slot : Slots, unit : Units]
Flights == [at : Places, passed : BOOLEAN]

Typed ==
  /\ TypeOK
  /\ unit \in [Streams -> [Slots -> [Units -> UnitType]]]
  /\ flight \in Seq(Flights)

\* The unit a slot fills, its pages, and how many units of the block of the slot
\* have been given to the FIL.
Filling(st, s) == unit[st][s][ring[st][s]]
Fill(st, s)  == IF Filling(st, s).programming THEN 0 ELSE Len(Filling(st, s).lpns)
Given(st, s) == (page[st][s] - Fill(st, s)) \div LpnPerUnit

\* The page counter of a slot is where its units are; the slot that is not written
\* is full, and only the unit that waits to be issued is.
SlotSound(st, s) ==
  /\ Given(st, s) \in 0..UnitsPerBlock
  /\ page[st][s] = LpnPerUnit * Given(st, s) + Fill(st, s)
  /\ s # cur[st] => page[st][s] = BlockEnd
  /\ Fill(st, s) = LpnPerUnit => issuing = [stream |-> st, slot |-> s, unit |-> ring[st][s]]

InFlight(a) == \E i \in DOMAIN flight : flight[i].at = a

\* A unit is free, or the one its slot fills, or being programmed at the distance
\* from the ring that its address says.
UnitSound(st, s, u) ==
  LET w == unit[st][s][u]
  IN  /\ w.free => ~w.programming /\ w.lpns = <<>>
      /\ ~w.free /\ ~w.programming =>
           u = ring[st][s] /\ w.lpns # <<>> /\ w.vppn = LpnPerUnit * Given(st, s)
      /\ w.programming =>
           /\ ~w.free /\ Len(w.lpns) = LpnPerUnit
           /\ InFlight([stream |-> st, slot |-> s, unit |-> u])
           /\ \E q \in 0..(Given(st, s) - 1) :
                /\ w.vppn = LpnPerUnit * q
                /\ Given(st, s) - q <= UnitCount
                /\ \/ u + (Given(st, s) - q) = ring[st][s]
                   \/ u + (Given(st, s) - q) = ring[st][s] + UnitCount

FlightSound ==
  /\ Len(flight) <= RequestCount
  /\ \A i \in DOMAIN flight : UnitAt(flight[i].at).programming
  /\ \A i, j \in DOMAIN flight : flight[i].at = flight[j].at => i = j

IssuingSound ==
  issuing # NoUnit =>
    /\ issuing.slot = cur[issuing.stream]
    /\ issuing.unit = ring[issuing.stream][issuing.slot]
    /\ ~UnitAt(issuing).programming
    /\ Len(UnitAt(issuing).lpns) = LpnPerUnit

Structure ==
  /\ \A st \in Streams, s \in Slots : SlotSound(st, s)
  /\ \A st \in Streams, s \in Slots, u \in Units : UnitSound(st, s, u)
  /\ FlightSound
  /\ IssuingSound

\* The programs of a stream are in flight in the order of their pages.
InOrder ==
  \A i, j \in DOMAIN flight :
    LET a == flight[i].at
        b == flight[j].at
    IN  i < j /\ a.stream = b.stream =>
          IF a.slot = b.slot THEN PPage(a) < PPage(b) ELSE a.slot # cur[a.stream]

\* The units of the stream and the die of unit a that were given to the FIL after it.
After(a) ==
  {x \in Slots \X (0..(UnitsPerBlock - 1)) :
     /\ x[2] < Given(a.stream, x[1])
     /\ x[2] % Dies = Die(a)
     /\ IF x[1] = a.slot THEN PPage(a) < x[2] ELSE x[1] = cur[a.stream]}

StillIn(st, x) ==
  \E i \in DOMAIN flight : /\ flight[i].at.stream = st
                           /\ flight[i].at.slot = x[1]
                           /\ PPage(flight[i].at) = x[2]

\* At most one of them has ended before it, and only past the first page of a block.
PassedOnce ==
  \A i \in DOMAIN flight :
    LET a == flight[i].at
    IN  /\ \A x, y \in After(a) :
             ~StillIn(a.stream, x) /\ ~StillIn(a.stream, y) => x = y /\ flight[i].passed
        /\ flight[i].passed => PPage(a) < Dies /\ RequestCount > 1

\* A page in a unit of the host stream is not newer than the mapped one.
OlderThanMapped ==
  \A s \in Slots, u \in Units :
    LET w == unit["HOST"][s][u]
    IN  \A k \in DOMAIN w.lpns :
          LET m == l2v[w.lpns[k]]
          IN  /\ m \in Addresses /\ m.stream = "HOST"
              /\ IF m.slot = s THEN w.vppn + k - 1 <= m.page ELSE s # cur["HOST"]

\* Of the units of a slot, one that spans page p of the block has y there.
Holds(units, p, y) ==
  \A u \in Units :
    LET k == p - units[u].vppn + 1
    IN  k \in DOMAIN units[u].lpns => units[u].lpns[k] = y

\* A mapped page has been written, and a unit that spans its address holds it.
MappedIsThere ==
  \A lpn \in LPN : l2v[lpn] \in Addresses =>
    LET m == l2v[lpn]
    IN  m.page < page[m.stream][m.slot] /\ Holds(unit[m.stream][m.slot], m.page, lpn)

IInv ==
  /\ Typed
  /\ Structure
  /\ InOrder
  /\ PassedOnce
  /\ HashExact
  /\ OlderThanMapped
  /\ MappedIsThere

(***************************************************************************)
(* Arithmetic.                                                             *)
(***************************************************************************)

LEMMA SizeFacts ==
  /\ LpnPerUnit \in Nat \ {0} /\ UnitsPerBlock \in Nat \ {0} /\ UnitCount \in Nat \ {0}
  /\ Dies \in Nat \ {0} /\ RequestCount \in Nat \ {0}
  /\ BlockEnd = LpnPerUnit * UnitsPerBlock /\ BlockEnd \in Nat
  /\ Units = 0..(UnitCount - 1)
<1>1. UnitsPerBlock * LpnPerUnit = LpnPerUnit * UnitsPerBlock
      /\ UnitsPerBlock * LpnPerUnit \in Nat
  BY SizesAssumption
<1> QED BY <1>1, SizesAssumption DEF BlockEnd, Units

\* Whole units follow one another.
LEMMA MulLess ==
  ASSUME NEW d \in Nat, NEW m \in Nat, NEW n \in Nat, m < n
  PROVE  d * m + d <= d * n
<1>1. n - m - 1 \in Nat
  OBVIOUS
<1>2. PICK k \in Nat : n = m + 1 + k
  BY <1>1
<1>3. d * n = d * m + d + d * k /\ d * k \in Nat /\ d * m \in Nat
  BY <1>2
<1> QED BY <1>3

LEMMA DivMod ==
  ASSUME NEW n \in Nat, NEW d \in Nat \ {0}
  PROVE  n = d * (n \div d) + (n % d) /\ n \div d \in Nat /\ n % d \in 0..(d - 1)
OBVIOUS

\* A number is its quotient and its remainder in one way.
LEMMA DivModUnique ==
  ASSUME NEW d \in Nat \ {0}, NEW m \in Nat, NEW r \in 0..(d - 1)
  PROVE  (d * m + r) \div d = m /\ (d * m + r) % d = r
<1> DEFINE n == d * m + r
           q == n \div d
           t == n % d
<1>1. n \in Nat
  OBVIOUS
<1>2. n = d * q + t /\ q \in Nat /\ t \in 0..(d - 1)
  BY <1>1, DivMod
<1>3. d * m + r = d * q + t
  BY <1>2
<1>4. d * m \in Nat /\ d * q \in Nat
  BY <1>2
<1> HIDE DEF n, q, t
<1>5. ~(m < q)
  BY <1>2, <1>3, <1>4, MulLess
<1>6. ~(q < m)
  BY <1>2, <1>3, <1>4, MulLess
<1>7. q = m
  BY <1>2, <1>5, <1>6
<1>8. t = r
  BY <1>2, <1>3, <1>7
<1> QED BY <1>7, <1>8 DEF n, q, t

LEMMA MulDiv ==
  ASSUME NEW d \in Nat \ {0}, NEW m \in Nat
  PROVE  (d * m) \div d = m
<1>1. 0 \in 0..(d - 1) /\ d * m + 0 = d * m
  OBVIOUS
<1> QED BY <1>1, DivModUnique

\* The pages of a block that go to die d.
LEMMA DiePage ==
  ASSUME NEW d \in 0..(Dies - 1), NEW k \in Nat
  PROVE  (d + k * Dies) % Dies = d /\ d + k * Dies \in Nat
<1>1. Dies * k + d = d + k * Dies /\ d + k * Dies \in Nat
  BY SizeFacts
<1> QED BY <1>1, SizeFacts, DivModUnique

(***************************************************************************)
(* Units and slots.                                                        *)
(***************************************************************************)

LpnLists == UNION {[1..n -> LPN] : n \in 0..LpnPerUnit}

\* The pages of a unit are a short sequence.
LEMMA LpnsFacts ==
  ASSUME NEW l
  PROVE  l \in LpnLists <=> l \in Seq(LPN) /\ Len(l) <= LpnPerUnit
<1>1. ASSUME l \in LpnLists
      PROVE  l \in Seq(LPN) /\ Len(l) <= LpnPerUnit
  <2>1. PICK n \in 0..LpnPerUnit : l \in [1..n -> LPN]
    BY <1>1 DEF LpnLists
  <2> QED BY <2>1, SizeFacts
<1>2. ASSUME l \in Seq(LPN), Len(l) <= LpnPerUnit
      PROVE  l \in LpnLists
  <2>1. Len(l) \in 0..LpnPerUnit /\ l \in [1..Len(l) -> LPN]
    BY <1>2, SizeFacts
  <2> QED BY <2>1 DEF LpnLists
<1> QED BY <1>1, <1>2

LEMMA UnitFacts ==
  ASSUME NEW w
  PROVE  w \in UnitType =>
           /\ w.free \in BOOLEAN /\ w.programming \in BOOLEAN
           /\ w.vppn \in PageNos /\ w.vppn \in Nat
           /\ w.lpns \in Seq(LPN) /\ Len(w.lpns) <= LpnPerUnit /\ Len(w.lpns) \in Nat
<1> SUFFICES ASSUME w \in UnitType
             PROVE  /\ w.free \in BOOLEAN /\ w.programming \in BOOLEAN
                    /\ w.vppn \in PageNos /\ w.vppn \in Nat
                    /\ w.lpns \in Seq(LPN) /\ Len(w.lpns) <= LpnPerUnit /\ Len(w.lpns) \in Nat
  OBVIOUS
<1>1. /\ w.free \in BOOLEAN /\ w.programming \in BOOLEAN /\ w.vppn \in PageNos
      /\ w.lpns \in LpnLists
  BY DEF UnitType, LpnLists
<1>2. w.vppn \in Nat
  <2>1. BlockEnd \in Nat /\ w.vppn \in 0..(BlockEnd - 1)
    BY <1>1, SizeFacts DEF PageNos
  <2> QED BY <2>1
<1>3. w.lpns \in Seq(LPN) /\ Len(w.lpns) <= LpnPerUnit
  BY <1>1, LpnsFacts
<1>4. Len(w.lpns) \in Nat
  BY <1>3
<1> QED BY <1>1, <1>2, <1>3, <1>4

\* The types, place by place.
LEMMA TypeFacts ==
  ASSUME Typed, NEW st \in Streams, NEW s \in Slots
  PROVE  /\ cur[st] \in Slots /\ page[st][s] \in 0..BlockEnd /\ ring[st][s] \in Units
         /\ ring[st][s] \in Nat
         /\ \A u \in Units : unit[st][s][u] \in UnitType
         /\ Filling(st, s) \in UnitType
         /\ Fill(st, s) \in 0..LpnPerUnit
<1>1. /\ cur[st] \in Slots /\ page[st][s] \in 0..BlockEnd /\ ring[st][s] \in Units
      /\ \A u \in Units : unit[st][s][u] \in UnitType
  BY DEF Typed, TypeOK
<1>2. Filling(st, s) \in UnitType
  BY <1>1 DEF Filling
<1>3. Fill(st, s) \in 0..LpnPerUnit
  BY <1>2, UnitFacts, SizeFacts DEF Fill
<1> QED BY <1>1, <1>2, <1>3, SizeFacts

\* The pages of a slot's block that are in whole units determine what was given.
LEMMA GivenIs ==
  ASSUME NEW st \in Streams, NEW s \in Slots, NEW n \in Nat,
         page[st][s] = LpnPerUnit * n + Fill(st, s), Fill(st, s) \in Nat
  PROVE  Given(st, s) = n
<1>1. page[st][s] - Fill(st, s) = LpnPerUnit * n
  <2>1. LpnPerUnit * n \in Nat
    BY SizeFacts
  <2> QED BY <2>1
<1> QED BY <1>1, MulDiv, SizeFacts DEF Given

LEMMA GivenIsNext ==
  ASSUME NEW st \in Streams, NEW s \in Slots, NEW n \in Nat,
         page'[st][s] = LpnPerUnit * n + Fill(st, s)', Fill(st, s)' \in Nat
  PROVE  Given(st, s)' = n
<1>1. page'[st][s] - Fill(st, s)' = LpnPerUnit * n
  <2>1. LpnPerUnit * n \in Nat
    BY SizeFacts
  <2> QED BY <2>1
<1>2. Given(st, s)' = (page'[st][s] - Fill(st, s)') \div LpnPerUnit
  BY DEF Given
<1> QED BY <1>1, <1>2, MulDiv, SizeFacts

\* The state of a slot: how far it is, and when it is full.
LEMMA SlotFacts ==
  ASSUME Typed, Structure, NEW st \in Streams, NEW s \in Slots
  PROVE  /\ Given(st, s) \in 0..UnitsPerBlock /\ Fill(st, s) \in 0..LpnPerUnit
         /\ page[st][s] = LpnPerUnit * Given(st, s) + Fill(st, s)
         /\ s # cur[st] => page[st][s] = BlockEnd
         /\ issuing # [stream |-> st, slot |-> s, unit |-> ring[st][s]]
              => Fill(st, s) < LpnPerUnit
         /\ issuing # [stream |-> st, slot |-> s, unit |-> ring[st][s]] /\ page[st][s] = BlockEnd
              => Given(st, s) = UnitsPerBlock /\ Fill(st, s) = 0
         /\ page[st][s] # BlockEnd => Given(st, s) < UnitsPerBlock
<1>1. SlotSound(st, s)
  BY DEF Structure
<1>2. Fill(st, s) \in 0..LpnPerUnit
  BY TypeFacts
<1>3. /\ Given(st, s) \in 0..UnitsPerBlock
      /\ page[st][s] = LpnPerUnit * Given(st, s) + Fill(st, s)
      /\ s # cur[st] => page[st][s] = BlockEnd
      /\ Fill(st, s) = LpnPerUnit => issuing = [stream |-> st, slot |-> s, unit |-> ring[st][s]]
  BY <1>1 DEF SlotSound
<1>4. PICK g, f, p : g = Given(st, s) /\ f = Fill(st, s) /\ p = page[st][s]
  OBVIOUS
<1>5. /\ g \in 0..UnitsPerBlock /\ f \in 0..LpnPerUnit /\ p = LpnPerUnit * g + f
      /\ p \in 0..BlockEnd
  BY <1>2, <1>3, <1>4, TypeFacts
<1>6. g < UnitsPerBlock \/ g = UnitsPerBlock
  BY <1>5, SizeFacts
<1>7. g < UnitsPerBlock => LpnPerUnit * g + LpnPerUnit <= BlockEnd
  BY <1>5, SizeFacts, MulLess
<1>8. LpnPerUnit * g \in Nat
  BY <1>5, SizeFacts
<1>9. f < LpnPerUnit /\ p = BlockEnd => g = UnitsPerBlock /\ f = 0
  BY <1>5, <1>6, <1>7, <1>8, SizeFacts
<1>10. p # BlockEnd => g < UnitsPerBlock
  BY <1>5, <1>6, <1>8, SizeFacts
<1>11. issuing # [stream |-> st, slot |-> s, unit |-> ring[st][s]] => f < LpnPerUnit
  BY <1>3, <1>4, <1>5, SizeFacts
<1> QED BY <1>2, <1>3, <1>4, <1>9, <1>10, <1>11

\* A unit being programmed, and its flight.
LEMMA ProgrammingFacts ==
  ASSUME Typed, Structure, NEW st \in Streams, NEW s \in Slots, NEW u \in Units,
         unit[st][s][u].programming
  PROVE  LET a == [stream |-> st, slot |-> s, unit |-> u]
         IN  /\ a \in Places /\ InFlight(a) /\ UnitAt(a) = unit[st][s][u]
             /\ PPage(a) \in 0..(Given(st, s) - 1)
             /\ unit[st][s][u].vppn = LpnPerUnit * PPage(a)
             /\ Len(unit[st][s][u].lpns) = LpnPerUnit /\ ~unit[st][s][u].free
             /\ Given(st, s) - PPage(a) <= UnitCount
             /\ \/ u + (Given(st, s) - PPage(a)) = ring[st][s]
                \/ u + (Given(st, s) - PPage(a)) = ring[st][s] + UnitCount
<1> DEFINE a == [stream |-> st, slot |-> s, unit |-> u]
           w == unit[st][s][u]
<1>1. a \in Places /\ UnitAt(a) = w
  BY DEF Places, UnitAt
<1>2. UnitSound(st, s, u)
  BY DEF Structure
<1>3. /\ ~w.free /\ Len(w.lpns) = LpnPerUnit /\ InFlight(a)
  BY <1>2 DEF UnitSound
<1>4. PICK q \in 0..(Given(st, s) - 1) :
           /\ w.vppn = LpnPerUnit * q
           /\ Given(st, s) - q <= UnitCount
           /\ \/ u + (Given(st, s) - q) = ring[st][s]
              \/ u + (Given(st, s) - q) = ring[st][s] + UnitCount
  BY <1>2 DEF UnitSound
<1>5. Given(st, s) \in Nat
  BY SlotFacts, SizeFacts
<1>6. PPage(a) = q
  <2>1. q \in Nat
    BY <1>5
  <2>2. UnitAt(a).vppn = LpnPerUnit * q
    BY <1>1, <1>4
  <2> QED BY <2>1, <2>2, MulDiv, SizeFacts DEF PPage
<1> QED BY <1>1, <1>3, <1>4, <1>6

\* What is in flight is being programmed.
LEMMA FlightFacts ==
  ASSUME Typed, Structure, NEW i \in DOMAIN flight
  PROVE  LET a == flight[i].at
         IN  /\ flight[i] \in Flights /\ a \in Places /\ flight[i].passed \in BOOLEAN
             /\ a.stream \in Streams /\ a.slot \in Slots /\ a.unit \in Units
             /\ a = [stream |-> a.stream, slot |-> a.slot, unit |-> a.unit]
             /\ unit[a.stream][a.slot][a.unit].programming
             /\ PPage(a) \in 0..(Given(a.stream, a.slot) - 1)
             /\ PPage(a) \in 0..(UnitsPerBlock - 1)
             /\ Die(a) \in 0..(Dies - 1)
<1> DEFINE a == flight[i].at
<1>1. flight \in Seq(Flights)
  BY DEF Typed
<1>2. flight[i] \in Flights
  BY <1>1
<1>3. /\ a \in Places /\ flight[i].passed \in BOOLEAN
  BY <1>2 DEF Flights
<1>4. /\ a.stream \in Streams /\ a.slot \in Slots /\ a.unit \in Units
      /\ a = [stream |-> a.stream, slot |-> a.slot, unit |-> a.unit]
  BY <1>3 DEF Places
<1>5. unit[a.stream][a.slot][a.unit].programming
  BY DEF Structure, FlightSound, UnitAt
<1>6. PPage(a) \in 0..(Given(a.stream, a.slot) - 1)
  BY <1>4, <1>5, ProgrammingFacts
<1>7. Given(a.stream, a.slot) \in 0..UnitsPerBlock
  BY <1>4, SlotFacts
<1>8. PPage(a) \in 0..(UnitsPerBlock - 1) /\ PPage(a) \in Nat
  BY <1>6, <1>7, SizeFacts
<1>9. Die(a) \in 0..(Dies - 1)
  BY <1>8, DivMod, SizeFacts DEF Die
<1> QED BY <1>2, <1>3, <1>4, <1>5, <1>6, <1>8, <1>9

(***************************************************************************)
(* A slot that gets another block.                                         *)
(***************************************************************************)

\* The units of a stream that are in flight are no more than the requests.
StillSet(st) == {x \in Slots \X (0..(UnitsPerBlock - 1)) : StillIn(st, x)}

LEMMA StillFew ==
  ASSUME Typed, Structure, NEW st \in Streams
  PROVE  IsFiniteSet(StillSet(st)) /\ Cardinality(StillSet(st)) <= RequestCount
<1> DEFINE I == {i \in DOMAIN flight : flight[i].at.stream = st}
           f == [i \in I |-> <<flight[i].at.slot, PPage(flight[i].at)>>]
<1>1. flight \in Seq(Flights) /\ Len(flight) <= RequestCount /\ Len(flight) \in Nat
  BY DEF Typed, Structure, FlightSound
<1>2. IsFiniteSet(1..Len(flight)) /\ Cardinality(1..Len(flight)) = Len(flight)
  BY <1>1, FS_Interval
<1>3. I \in SUBSET (1..Len(flight))
  BY <1>1
<1>4. IsFiniteSet(I) /\ Cardinality(I) <= RequestCount
  <2>1. IsFiniteSet(I) /\ Cardinality(I) <= Cardinality(1..Len(flight))
    BY <1>2, <1>3, FS_Subset
  <2>2. Cardinality(I) \in Nat
    BY <2>1, FS_CardinalityType
  <2> QED BY <1>1, <1>2, <2>1, <2>2, SizeFacts
<1>5. ASSUME NEW i \in I
      PROVE  f[i] \in StillSet(st)
  <2>1. i \in DOMAIN flight
    OBVIOUS
  <2>2. flight[i].at.slot \in Slots /\ PPage(flight[i].at) \in 0..(UnitsPerBlock - 1)
    BY <2>1, FlightFacts
  <2>3. f[i] = <<flight[i].at.slot, PPage(flight[i].at)>>
    OBVIOUS
  <2>4. StillIn(st, <<flight[i].at.slot, PPage(flight[i].at)>>)
    BY <2>1 DEF StillIn
  <2> QED BY <2>2, <2>3, <2>4 DEF StillSet
<1>6. ASSUME NEW x \in StillSet(st)
      PROVE  \E i \in I : f[i] = x
  <2>1. PICK i \in DOMAIN flight : /\ flight[i].at.stream = st
                                   /\ flight[i].at.slot = x[1]
                                   /\ PPage(flight[i].at) = x[2]
    BY DEF StillSet, StillIn
  <2>2. x = <<x[1], x[2]>>
    BY DEF StillSet
  <2> QED BY <2>1, <2>2
<1>7. f \in Surjection(I, StillSet(st))
  <2>1. f \in [I -> StillSet(st)]
    BY <1>5
  <2> QED BY <1>6, <2>1 DEF Surjection
<1> HIDE DEF f, I
<1>8. IsFiniteSet(StillSet(st)) /\ Cardinality(StillSet(st)) <= Cardinality(I)
  BY <1>4, <1>7, FS_Surjection
<1>9. Cardinality(I) \in Nat /\ Cardinality(StillSet(st)) \in Nat
  BY <1>4, <1>8, FS_CardinalityType
<1> QED BY <1>4, <1>8, <1>9, SizeFacts

\* A full block has a unit of each die for each request.
LEMMA DieUnits ==
  ASSUME NEW d \in 0..(Dies - 1), NEW c
  PROVE  LET A == {<<c, d + k * Dies>> : k \in 0..(RequestCount - 1)}
         IN  /\ IsFiniteSet(A) /\ Cardinality(A) = RequestCount
             /\ \A x \in A : /\ x = <<c, x[2]>> /\ x[2] \in 0..(UnitsPerBlock - 1)
                             /\ x[2] % Dies = d
<1> DEFINE A == {<<c, d + k * Dies>> : k \in 0..(RequestCount - 1)}
           f == [k \in 0..(RequestCount - 1) |-> <<c, d + k * Dies>>]
<1>1. IsFiniteSet(0..(RequestCount - 1)) /\ Cardinality(0..(RequestCount - 1)) = RequestCount
  BY SizeFacts, FS_Interval
<1>2. ASSUME NEW k \in 0..(RequestCount - 1)
      PROVE  /\ (d + k * Dies) % Dies = d /\ d + k * Dies \in 0..(UnitsPerBlock - 1)
  <2>1. (d + k * Dies) % Dies = d /\ d + k * Dies \in Nat
    BY SizeFacts, DiePage
  <2>2. Dies * k + Dies <= Dies * RequestCount
    BY SizeFacts, MulLess
  <2>3. Dies * k = k * Dies /\ Dies * RequestCount = RequestCount * Dies /\ k * Dies \in Nat
        /\ RequestCount * Dies \in Nat
    BY SizeFacts
  <2> QED BY <2>1, <2>2, <2>3, SizeFacts, ConfigAssumption
<1>3. ASSUME NEW k \in 0..(RequestCount - 1), NEW m \in 0..(RequestCount - 1), k < m
      PROVE  d + k * Dies # d + m * Dies
  <2>1. Dies * k + Dies <= Dies * m
    BY <1>3, SizeFacts, MulLess
  <2>2. Dies * k = k * Dies /\ Dies * m = m * Dies /\ k * Dies \in Nat /\ m * Dies \in Nat
    BY SizeFacts
  <2> QED BY <2>1, <2>2, SizeFacts
<1>4. \A k, m \in 0..(RequestCount - 1) : f[k] = f[m] => k = m
  <2> SUFFICES ASSUME NEW k \in 0..(RequestCount - 1), NEW m \in 0..(RequestCount - 1),
                      f[k] = f[m], k # m
               PROVE  FALSE
    OBVIOUS
  <2>1. d + k * Dies = d + m * Dies
    OBVIOUS
  <2>2. k < m \/ m < k
    BY SizeFacts
  <2> QED BY <1>3, <2>1, <2>2
<1>5. f \in Bijection(0..(RequestCount - 1), A)
  <2>1. f \in [0..(RequestCount - 1) -> A]
    OBVIOUS
  <2>2. \A x \in A : \E k \in 0..(RequestCount - 1) : f[k] = x
    OBVIOUS
  <2>3. f \in Injection(0..(RequestCount - 1), A)
    BY <1>4, <2>1 DEF Injection, IsInjective
  <2> QED BY <2>1, <2>2, <2>3 DEF Bijection, Surjection
<1>6. ASSUME NEW x \in A
      PROVE  x = <<c, x[2]>> /\ x[2] \in 0..(UnitsPerBlock - 1) /\ x[2] % Dies = d
  <2>1. PICK k \in 0..(RequestCount - 1) : x = <<c, d + k * Dies>>
    OBVIOUS
  <2> QED BY <1>2, <2>1
<1> HIDE DEF f, A
<1>7. IsFiniteSet(A) /\ Cardinality(A) = RequestCount
  BY <1>1, <1>5, FS_Bijection DEF ExistsBijection
<1> QED BY <1>6, <1>7 DEF A

\* Nothing is in flight of the block that a slot leaves: all of its dies have ended
\* at least all but the first of the programs that the other slot has made since.
LEMMA LeavesFree ==
  ASSUME IInv, NEW st \in Streams, NeedsNext(st), issuing = NoUnit, NEW u \in Units
  PROVE  /\ WriteSlot(st) = 1 - cur[st] /\ WriteSlot(st) \in Slots
         /\ unit[st][WriteSlot(st)][u].free
<1>1. /\ Typed /\ Structure /\ cur[st] \in Slots
  BY TypeFacts DEF IInv, Slots
<1>2. PICK c, s : c = cur[st] /\ s = 1 - cur[st]
  OBVIOUS
<1>3. /\ c \in Slots /\ s \in Slots /\ s # c /\ WriteSlot(st) = s
  BY <1>1, <1>2 DEF WriteSlot, Slots
<1>4. ASSUME NEW t \in Slots
      PROVE  issuing # [stream |-> st, slot |-> t, unit |-> ring[st][t]]
  <2>1. [stream |-> st, slot |-> t, unit |-> ring[st][t]] \in Places
    BY <1>1, TypeFacts DEF Places
  <2> QED BY <2>1, SentinelAssumption DEF Places
<1>5. /\ Given(st, c) = UnitsPerBlock /\ Given(st, s) = UnitsPerBlock /\ Fill(st, s) = 0
  BY <1>1, <1>2, <1>3, <1>4, SlotFacts DEF NeedsNext
<1>6. UnitSound(st, s, u) /\ unit[st][s][u] \in UnitType
  BY <1>1, <1>3, TypeFacts DEF Structure
<1>7. ASSUME unit[st][s][u].programming
      PROVE  FALSE
  <2> DEFINE a == [stream |-> st, slot |-> s, unit |-> u]
  <2>1. PICK i \in DOMAIN flight : flight[i].at = a
    BY <1>1, <1>3, <1>7, ProgrammingFacts DEF InFlight
  <2>2. PICK q, d : q = PPage(a) /\ d = Die(a)
    OBVIOUS
  <2>3. q \in 0..(UnitsPerBlock - 1) /\ d \in 0..(Dies - 1) /\ d = q % Dies
    BY <1>1, <2>1, <2>2, FlightFacts DEF Die
  <2> DEFINE A == {<<c, d + k * Dies>> : k \in 0..(RequestCount - 1)}
             x0 == <<s, q>>
             x1 == <<s, q + Dies>>
             S == StillSet(st)
  <2>4. /\ IsFiniteSet(A) /\ Cardinality(A) = RequestCount
        /\ \A x \in A : x = <<c, x[2]>> /\ x[2] \in 0..(UnitsPerBlock - 1) /\ x[2] % Dies = d
    BY <2>3, DieUnits
  <2>5. IsFiniteSet(S) /\ Cardinality(S) <= RequestCount
    BY <1>1, StillFew
  <2>6. x0 \in S /\ x0 \notin A
    <3>1. StillIn(st, x0)
      BY <2>1, <2>2 DEF StillIn
    <3>2. x0 \notin A
      BY <1>3, <2>4
    <3> QED BY <1>3, <2>3, <3>1, <3>2 DEF StillSet
  <2>7. ASSUME NEW x \in A
        PROVE  x \in After(a) /\ (StillIn(st, x) => x \in S) /\ x[1] # s
    <3>1. x[1] = c /\ x = <<c, x[2]>> /\ x[2] \in 0..(UnitsPerBlock - 1) /\ x[2] % Dies = d
      BY <2>4
    <3>2. x \in Slots \X (0..(UnitsPerBlock - 1))
      BY <1>3, <3>1
    <3>3. x[2] < Given(st, x[1])
      BY <1>5, <3>1, SizeFacts
    <3> QED BY <1>2, <1>3, <2>2, <3>1, <3>2, <3>3 DEF After, StillSet
  <2>8. /\ \A x, y \in After(a) : ~StillIn(st, x) /\ ~StillIn(st, y)
                                    => x = y /\ flight[i].passed
        /\ flight[i].passed => q < Dies /\ RequestCount > 1
    BY <2>1, <2>2 DEF IInv, PassedOnce
  <2> HIDE DEF A, S, x0, x1
  <2>9. Cardinality(S) \in Nat
    BY <2>5, FS_CardinalityType
  <2>10. CASE \A x \in A : StillIn(st, x)
    <3>1. A \union {x0} \in SUBSET S
      BY <2>6, <2>7, <2>10
    <3>2. Cardinality(A \union {x0}) = RequestCount + 1
      BY <2>4, <2>6, FS_AddElement
    <3>3. Cardinality(A \union {x0}) <= Cardinality(S)
      BY <2>5, <3>1, FS_Subset
    <3> QED BY <2>5, <2>9, <3>2, <3>3, SizeFacts
  <2>11. CASE \E x \in A : ~StillIn(st, x)
    <3>1. PICK x \in A : ~StillIn(st, x)
      BY <2>11
    <3>2. flight[i].passed /\ \A y \in After(a) : y # x => StillIn(st, y)
      BY <2>7, <2>8, <3>1
    <3>3. q < Dies /\ RequestCount > 1 /\ q = d
      <4>1. q < Dies /\ RequestCount > 1
        BY <2>8, <3>2
      <4>2. q \in Nat /\ Dies * 0 + q = q /\ q \in 0..(Dies - 1)
        BY <2>3, <4>1, SizeFacts
      <4>3. q % Dies = q
        BY <4>2, SizeFacts, DivModUnique
      <4> QED BY <2>3, <4>1, <4>3
    <3>4. q + Dies \in 0..(UnitsPerBlock - 1) /\ (q + Dies) % Dies = d
      <4>1. Dies * 1 + Dies <= Dies * RequestCount
        BY <3>3, SizeFacts, MulLess
      <4>2. Dies * RequestCount = RequestCount * Dies /\ RequestCount * Dies \in Nat
            /\ Dies * 1 = Dies
        BY SizeFacts
      <4>3. q + Dies \in 0..(UnitsPerBlock - 1)
        BY <2>3, <3>3, <4>1, <4>2, SizeFacts, ConfigAssumption
      <4>4. (d + 1 * Dies) % Dies = d /\ 1 * Dies = Dies
        BY <2>3, SizeFacts, DiePage
      <4> QED BY <3>3, <4>3, <4>4
    <3>5. x1 \in After(a) /\ x1 # x
      <4>1. x1 \in Slots \X (0..(UnitsPerBlock - 1)) /\ x1[1] = s /\ x1[2] = q + Dies
        BY <1>3, <3>4 DEF x1
      <4>2. x1[2] < Given(st, x1[1]) /\ q < x1[2]
        BY <1>5, <2>3, <3>4, <4>1, SizeFacts
      <4>3. x1 \in After(a)
        BY <2>2, <3>4, <4>1, <4>2 DEF After
      <4> QED BY <2>7, <3>1, <4>1, <4>3
    <3>6. x1 \in S
      <4>1. StillIn(st, x1) /\ x1 \in Slots \X (0..(UnitsPerBlock - 1))
        BY <3>2, <3>5 DEF After
      <4> QED BY <4>1 DEF S, StillSet
    <3>7. x1 \notin A /\ x0 # x1
      <4>1. q # q + Dies
        BY <2>3, SizeFacts
      <4>2. x1[1] = s /\ x0[2] = q /\ x1[2] = q + Dies
        BY DEF x0, x1
      <4> QED BY <2>7, <4>1, <4>2
    <3>8. IsFiniteSet(A \ {x}) /\ Cardinality(A \ {x}) = RequestCount - 1
      BY <2>4, <3>1, FS_RemoveElement
    <3> DEFINE B == A \ {x}
    <3>9. x0 \notin B /\ x1 \notin B \union {x0}
      BY <2>6, <3>7
    <3>10. B \union {x0} \union {x1} \in SUBSET S
      BY <2>6, <2>7, <3>2, <3>6
    <3>11. IsFiniteSet(B) /\ Cardinality(B) = RequestCount - 1
      BY <3>8
    <3> HIDE DEF B
    <3>12. IsFiniteSet(B \union {x0}) /\ Cardinality(B \union {x0}) = RequestCount
      <4>1. IsFiniteSet(B \union {x0}) /\ Cardinality(B \union {x0}) = Cardinality(B) + 1
        BY <3>9, <3>11, FS_AddElement
      <4> QED BY <3>11, <4>1, SizeFacts
    <3> DEFINE C == B \union {x0}
    <3> HIDE DEF C
    <3>13. Cardinality(C \union {x1}) = Cardinality(C) + 1
      BY <3>9, <3>12, FS_AddElement DEF C
    <3>14. Cardinality(C \union {x1}) <= Cardinality(S)
      BY <2>5, <3>10, FS_Subset DEF C
    <3> QED BY <2>5, <2>9, <3>12, <3>13, <3>14, SizeFacts DEF C
  <2> QED BY <2>10, <2>11
<1>8. ASSUME ~unit[st][s][u].programming, ~unit[st][s][u].free
      PROVE  FALSE
  <2>1. u = ring[st][s] /\ unit[st][s][u].lpns # <<>>
    BY <1>6, <1>8 DEF UnitSound
  <2>2. Len(unit[st][s][u].lpns) = 0
    BY <1>5, <1>8, <2>1 DEF Fill, Filling
  <2> QED BY <1>6, <2>1, <2>2, UnitFacts
<1> QED BY <1>2, <1>3, <1>7, <1>8

(***************************************************************************)
(* What the three steps change.                                            *)
(***************************************************************************)

\* EXCEPT, one field after the other.
LEMMA ThreeFields == ASSUME NEW f, NEW o, NEW k, NEW l, NEW lpn, NEW p, NEW z
  PROVE  [[free |-> f, programming |-> o, vppn |-> k, lpns |-> l]
             EXCEPT !.free = z, !.vppn = p, !.lpns = lpn]
         = [free |-> z, programming |-> o, vppn |-> p, lpns |-> lpn]
<1> DEFINE w == [free |-> f, programming |-> o, vppn |-> k, lpns |-> l]
<1>1. [w EXCEPT !.free = z, !.vppn = p, !.lpns = lpn]
      = [[[w EXCEPT !.free = z] EXCEPT !.vppn = p] EXCEPT !.lpns = lpn]
  <2> HIDE DEF w
  <2> QED OBVIOUS
<1>2. [w EXCEPT !.free = z] = [free |-> z, programming |-> o, vppn |-> k, lpns |-> l]
  OBVIOUS
<1>3. [[free |-> z, programming |-> o, vppn |-> k, lpns |-> l] EXCEPT !.vppn = p]
      = [free |-> z, programming |-> o, vppn |-> p, lpns |-> l]
  OBVIOUS
<1>4. [[free |-> z, programming |-> o, vppn |-> p, lpns |-> l] EXCEPT !.lpns = lpn]
      = [free |-> z, programming |-> o, vppn |-> p, lpns |-> lpn]
  OBVIOUS
<1> HIDE DEF w
<1>5. [w EXCEPT !.free = z, !.vppn = p, !.lpns = lpn]
      = [free |-> z, programming |-> o, vppn |-> p, lpns |-> lpn]
  BY <1>1, <1>2, <1>3, <1>4
<1> QED BY <1>5 DEF w
\* PROGRAM_UNIT::Add, field by field.
LEMMA AddedRecord ==
  ASSUME NEW w \in UnitType, NEW lpn, NEW p
  PROVE  Added(w, lpn, p) = [free |-> FALSE, programming |-> w.programming,
                             vppn |-> IF w.lpns = <<>> THEN p ELSE w.vppn,
                             lpns |-> Append(w.lpns, lpn)]
<1>1. PICK f, o, k, l : w = [free |-> f, programming |-> o, vppn |-> k, lpns |-> l]
  BY DEF UnitType
<1>2. PICK z, v, m : z = FALSE /\ v = (IF l = <<>> THEN p ELSE k) /\ m = Append(l, lpn)
  OBVIOUS
<1>3. Added(w, lpn, p) = [w EXCEPT !.free = z, !.vppn = v, !.lpns = m]
  BY <1>1, <1>2 DEF Added
<1>4. Added(w, lpn, p) = [free |-> z, programming |-> o, vppn |-> v, lpns |-> m]
  BY <1>1, <1>3, ThreeFields
<1> QED BY <1>1, <1>2, <1>4

\* One unit changes.
OnlyUnit(st, s, i, v) ==
  /\ unit' \in [Streams -> [Slots -> [Units -> UnitType]]]
  /\ unit'[st][s][i] = v
  /\ \A t \in Streams, r \in Slots, u \in Units :
       ~(t = st /\ r = s /\ u = i) => unit'[t][r][u] = unit[t][r][u]

LEMMA UnitUpdate ==
  ASSUME Typed, NEW st \in Streams, NEW s \in Slots, NEW i \in Units, NEW v \in UnitType,
         unit' = [unit EXCEPT ![st][s][i] = v]
  PROVE  OnlyUnit(st, s, i, v)
<1>1. /\ unit \in [Streams -> [Slots -> [Units -> UnitType]]]
      /\ unit[st] \in [Slots -> [Units -> UnitType]] /\ unit[st][s] \in [Units -> UnitType]
  BY DEF Typed
<1> DEFINE a == [unit[st][s] EXCEPT ![i] = v]
           b == [unit[st] EXCEPT ![s] = a]
<1>2. a \in [Units -> UnitType] /\ a[i] = v /\ \A u \in Units : u # i => a[u] = unit[st][s][u]
  BY <1>1
<1> HIDE DEF a
<1>3. b \in [Slots -> [Units -> UnitType]] /\ b[s] = a
      /\ \A r \in Slots : r # s => b[r] = unit[st][r]
  BY <1>1, <1>2
<1>4. unit' = [unit EXCEPT ![st] = b]
  BY DEF a
<1> HIDE DEF b
<1>5. /\ unit' \in [Streams -> [Slots -> [Units -> UnitType]]] /\ unit'[st] = b
      /\ \A t \in Streams : t # st => unit'[t] = unit[t]
  BY <1>1, <1>3, <1>4
<1> QED BY <1>2, <1>3, <1>5 DEF OnlyUnit

\* A write adds to unit i of slot s, whose pages were w.lpns and which is the n-th of
\* the block; the slot has just got its block, or is the current one.
Written(st, lpn, s, i, w, n) ==
  /\ issuing = NoUnit
  /\ s = WriteSlot(st) /\ s \in Slots /\ i = ring[st][s] /\ i \in Units
  /\ w = unit[st][s][i] /\ w \in UnitType /\ ~w.programming
  /\ n \in 0..(UnitsPerBlock - 1)
  /\ Len(w.lpns) < LpnPerUnit
  /\ w.lpns # <<>> => w.vppn = LpnPerUnit * n
  /\ IF NeedsNext(st)
     THEN n = 0 /\ cur[st] \in Slots /\ s = 1 - cur[st] /\ \A u \in Units : unit[st][s][u].free
     ELSE n = Given(st, s) /\ s = cur[st]
  /\ WritePage(st) = LpnPerUnit * n + Len(w.lpns) /\ WritePage(st) \in PageNos
  /\ OnlyUnit(st, s, i, [free |-> FALSE, programming |-> FALSE, vppn |-> LpnPerUnit * n,
                         lpns |-> Append(w.lpns, lpn)])
  /\ cur' = [cur EXCEPT ![st] = s]
  /\ page' = [page EXCEPT ![st][s] = WritePage(st) + 1]
  /\ hash' = HashAdd(st, lpn)
  /\ l2v' = [SlotLeft(st) EXCEPT ![lpn] = [stream |-> st, slot |-> s, page |-> WritePage(st)]]
  /\ issuing' = IF Len(w.lpns) + 1 = LpnPerUnit
                THEN [stream |-> st, slot |-> s, unit |-> i] ELSE NoUnit
  /\ UNCHANGED <<ring, flight>>

LEMMA WriteFacts ==
  ASSUME IInv, NEW st \in Streams, NEW lpn \in LPN, Write(st, lpn)
  PROVE  \E s, i, w, n : Written(st, lpn, s, i, w, n)
<1> DEFINE s == WriteSlot(st)
           p == WritePage(st)
           i == ring[st][s]
           w == unit[st][s][i]
           n == IF NeedsNext(st) THEN 0 ELSE Given(st, s)
           u == Added(w, lpn, p)
           v == [free |-> FALSE, programming |-> FALSE, vppn |-> LpnPerUnit * n,
                 lpns |-> Append(w.lpns, lpn)]
<1>1. /\ issuing = NoUnit /\ ~w.programming
      /\ cur' = [cur EXCEPT ![st] = s]
      /\ page' = [page EXCEPT ![st][s] = p + 1]
      /\ unit' = [unit EXCEPT ![st][s][i] = u]
      /\ hash' = HashAdd(st, lpn)
      /\ l2v' = [SlotLeft(st) EXCEPT ![lpn] = [stream |-> st, slot |-> s, page |-> p]]
      /\ issuing' = IF Len(u.lpns) = LpnPerUnit
                    THEN [stream |-> st, slot |-> s, unit |-> i] ELSE NoUnit
      /\ UNCHANGED <<ring, flight>>
  BY DEF Write
<1>2. Typed /\ Structure /\ cur[st] \in Slots
  BY TypeFacts DEF IInv, Slots
<1>3. IF NeedsNext(st) THEN s = 1 - cur[st] ELSE s = cur[st]
  BY DEF WriteSlot
<1>4. s \in Slots
  BY <1>2, <1>3 DEF Slots
<1>5. i \in Units /\ w \in UnitType /\ Filling(st, s) = w /\ page[st][s] \in 0..BlockEnd
  BY <1>2, <1>4, TypeFacts DEF Filling
<1>6. w.lpns \in Seq(LPN) /\ Len(w.lpns) \in Nat /\ w.free \in BOOLEAN
  BY <1>5, UnitFacts
<1>7. UnitSound(st, s, i)
  BY <1>2, <1>4, <1>5 DEF Structure
<1>8. NeedsNext(st) => (\A t \in Units : unit[st][s][t].free) /\ w.lpns = <<>>
  BY <1>1, <1>5, <1>7, LeavesFree DEF UnitSound
<1>9. issuing # [stream |-> st, slot |-> s, unit |-> ring[st][s]]
  <2>1. [stream |-> st, slot |-> s, unit |-> i] \in Places
    BY <1>4, <1>5 DEF Places
  <2> QED BY <1>1, <2>1, SentinelAssumption DEF Places
<1>10. /\ n \in 0..(UnitsPerBlock - 1) /\ Len(w.lpns) < LpnPerUnit
       /\ p = LpnPerUnit * n + Len(w.lpns)
       /\ w.lpns # <<>> => w.vppn = LpnPerUnit * n
  <2>1. CASE NeedsNext(st)
    <3>1. n = 0 /\ p = 0 /\ Len(w.lpns) = 0
      BY <1>8, <2>1 DEF WritePage
    <3>2. LpnPerUnit * 0 = 0
      BY SizeFacts
    <3> QED BY <1>8, <2>1, <3>1, <3>2, SizeFacts
  <2>2. CASE ~NeedsNext(st)
    <3>1. n = Given(st, s) /\ p = page[st][s] /\ page[st][s] # BlockEnd
      BY <1>3, <2>2 DEF WritePage, NeedsNext
    <3>2. Fill(st, s) = Len(w.lpns)
      BY <1>1, <1>5 DEF Fill
    <3>3. /\ Given(st, s) \in 0..UnitsPerBlock /\ Given(st, s) < UnitsPerBlock
          /\ Fill(st, s) < LpnPerUnit /\ page[st][s] = LpnPerUnit * Given(st, s) + Fill(st, s)
      BY <1>2, <1>4, <1>9, <3>1, SlotFacts
    <3>4. w.lpns # <<>> => w.vppn = LpnPerUnit * n
      BY <1>1, <1>7, <3>1 DEF UnitSound
    <3> QED BY <3>1, <3>2, <3>3, <3>4, SizeFacts
  <2> QED BY <2>1, <2>2
<1> HIDE DEF n
<1>11. p \in PageNos /\ LpnPerUnit * n \in PageNos
  <2>1. n \in Nat /\ n < UnitsPerBlock
    BY <1>10, SizeFacts
  <2>2. LpnPerUnit * n + LpnPerUnit <= LpnPerUnit * UnitsPerBlock /\ LpnPerUnit * n \in Nat
    BY <2>1, SizeFacts, MulLess
  <2>3. Len(w.lpns) \in Nat /\ Len(w.lpns) < LpnPerUnit /\ p = LpnPerUnit * n + Len(w.lpns)
    BY <1>6, <1>10
  <2>4. PICK x, y, z, e : /\ x = LpnPerUnit * n /\ y = p /\ z = Len(w.lpns)
                          /\ e = BlockEnd
    OBVIOUS
  <2>5. x \in Nat /\ z \in Nat /\ z < LpnPerUnit /\ y = x + z /\ x + LpnPerUnit <= e /\ e \in Nat
    BY <2>2, <2>3, <2>4, SizeFacts
  <2>6. x \in 0..(e - 1) /\ y \in 0..(e - 1)
    BY <2>5, SizeFacts
  <2> QED BY <2>4, <2>6 DEF PageNos
<1>12. u = v
  <2>1. (IF w.lpns = <<>> THEN p ELSE w.vppn) = LpnPerUnit * n
    <3>1. w.lpns = <<>> => p = LpnPerUnit * n
      <4>1. LpnPerUnit * n \in Nat
        BY <1>10, SizeFacts
      <4> QED BY <1>10, <4>1
    <3> QED BY <1>10, <3>1
  <2>2. u = [free |-> FALSE, programming |-> w.programming,
             vppn |-> IF w.lpns = <<>> THEN p ELSE w.vppn, lpns |-> Append(w.lpns, lpn)]
    BY <1>5, AddedRecord
  <2>3. PICK o : o = w.programming
    OBVIOUS
  <2>4. o = FALSE
    BY <1>1, <1>5, <2>3 DEF UnitType
  <2> QED BY <2>1, <2>2, <2>3, <2>4
<1>13. v \in UnitType
  <2>1. Append(w.lpns, lpn) \in Seq(LPN) /\ Len(Append(w.lpns, lpn)) = Len(w.lpns) + 1
    BY <1>6
  <2>2. Len(Append(w.lpns, lpn)) <= LpnPerUnit
    <3>1. PICK m, d : m = Len(w.lpns) /\ d = LpnPerUnit
      OBVIOUS
    <3>2. m \in Nat /\ d \in Nat /\ m < d
      BY <1>6, <1>10, <3>1, SizeFacts
    <3>3. m + 1 <= d
      BY <3>2
    <3> QED BY <2>1, <3>1, <3>3
  <2>3. Append(w.lpns, lpn) \in LpnLists
    BY <2>1, <2>2, LpnsFacts
  <2> QED BY <1>11, <2>3 DEF UnitType, LpnLists
<1>14. Len(u.lpns) = Len(w.lpns) + 1
  BY <1>6, <1>12
<1>15. OnlyUnit(st, s, i, v)
  BY <1>1, <1>2, <1>4, <1>5, <1>12, <1>13, UnitUpdate
<1>16. IF NeedsNext(st)
       THEN n = 0 /\ cur[st] \in Slots /\ s = 1 - cur[st] /\ \A t \in Units : unit[st][s][t].free
       ELSE n = Given(st, s) /\ s = cur[st]
  BY <1>2, <1>3, <1>8 DEF n
<1>17. Written(st, lpn, s, i, w, n)
  BY <1>1, <1>4, <1>5, <1>10, <1>11, <1>14, <1>15, <1>16 DEF Written
<1> QED BY <1>17

\* A slot none of whose pages and whose unit to fill do not change.
LEMMA SlotFrame ==
  ASSUME NEW t \in Streams, NEW r \in Slots,
         page'[t][r] = page[t][r], ring'[t][r] = ring[t][r],
         unit'[t][r][ring[t][r]] = unit[t][r][ring[t][r]]
  PROVE  Fill(t, r)' = Fill(t, r) /\ Given(t, r)' = Given(t, r)
<1>1. Filling(t, r)' = Filling(t, r)
  BY DEF Filling
<1>2. Fill(t, r)' = Fill(t, r)
  BY <1>1 DEF Fill
<1> QED BY <1>2 DEF Given

\* The slots and the units after a write.
LEMMA WrittenSlots ==
  ASSUME IInv, NEW st \in Streams, NEW lpn \in LPN, NEW s, NEW i, NEW w, NEW n,
         Written(st, lpn, s, i, w, n)
  PROVE  /\ Given(st, s)' = n /\ Fill(st, s)' = Len(w.lpns) + 1
         /\ page'[st][s] = LpnPerUnit * n + Fill(st, s)'
         /\ Fill(st, s)' \in 1..LpnPerUnit
         /\ cur'[st] = s /\ \A t \in Streams : t # st => cur'[t] = cur[t]
         /\ \A t \in Streams, r \in Slots : ~(t = st /\ r = s) =>
              page'[t][r] = page[t][r] /\ Fill(t, r)' = Fill(t, r) /\ Given(t, r)' = Given(t, r)
         /\ w.lpns \in Seq(LPN) /\ Len(w.lpns) \in Nat
         /\ ring' = ring /\ flight' = flight
<1>1. Typed
  BY DEF IInv
<1>2. s \in Slots /\ i \in Units /\ i = ring[st][s] /\ w \in UnitType /\ n \in 0..(UnitsPerBlock - 1)
  BY DEF Written
<1>3. w.lpns \in Seq(LPN) /\ Len(w.lpns) \in Nat /\ ring' = ring /\ flight' = flight
  BY <1>2, UnitFacts DEF Written
<1>4. cur'[st] = s /\ \A t \in Streams : t # st => cur'[t] = cur[t]
  BY <1>1 DEF Written, Typed, TypeOK
<1>5. /\ page'[st][s] = WritePage(st) + 1
      /\ \A t \in Streams, r \in Slots : ~(t = st /\ r = s) => page'[t][r] = page[t][r]
  BY <1>1, <1>2 DEF Written, Typed, TypeOK
<1>6. ASSUME NEW t \in Streams, NEW r \in Slots, ~(t = st /\ r = s)
      PROVE  /\ page'[t][r] = page[t][r] /\ Fill(t, r)' = Fill(t, r)
             /\ Given(t, r)' = Given(t, r)
  <2>1. unit'[t][r][ring[t][r]] = unit[t][r][ring[t][r]]
    <3>1. ring[t][r] \in Units
      BY <1>1, TypeFacts
    <3> QED BY <1>6, <3>1 DEF Written, OnlyUnit
  <2> QED BY <1>3, <1>5, <1>6, <2>1, SlotFrame
<1>7. Fill(st, s)' = Len(w.lpns) + 1
  <2>1. Filling(st, s)' = [free |-> FALSE, programming |-> FALSE, vppn |-> LpnPerUnit * n,
                           lpns |-> Append(w.lpns, lpn)]
    BY <1>2, <1>3 DEF Filling, Written, OnlyUnit
  <2> QED BY <1>3, <2>1 DEF Fill
<1>8. Len(w.lpns) < LpnPerUnit /\ WritePage(st) = LpnPerUnit * n + Len(w.lpns)
  BY DEF Written
<1>9. Fill(st, s)' \in 1..LpnPerUnit
  BY <1>3, <1>7, <1>8, SizeFacts
<1>10. page'[st][s] = LpnPerUnit * n + Fill(st, s)'
  <2>1. PICK x : x = LpnPerUnit * n /\ x \in Nat
    BY <1>2, SizeFacts
  <2> QED BY <1>3, <1>5, <1>7, <1>8, <2>1
<1>11. Given(st, s)' = n
  <2>1. n \in Nat /\ Fill(st, s)' \in Nat
    BY <1>2, <1>9, SizeFacts
  <2> QED BY <1>2, <1>10, <2>1, GivenIsNext
<1> QED BY <1>3, <1>4, <1>6, <1>7, <1>9, <1>10, <1>11

\* What is in flight after a write was in flight before, at the same pages.
LEMMA WrittenFlight ==
  ASSUME IInv, NEW st \in Streams, NEW lpn \in LPN, NEW s, NEW i, NEW w, NEW n,
         Written(st, lpn, s, i, w, n), NEW k \in DOMAIN flight
  PROVE  LET a == flight[k].at
         IN  /\ UnitAt(a)' = UnitAt(a) /\ PPage(a)' = PPage(a) /\ Die(a)' = Die(a)
             /\ ~(a.stream = st /\ a.slot = s /\ NeedsNext(st))
<1> DEFINE a == flight[k].at
<1>1. Typed /\ Structure
  BY DEF IInv
<1>2. /\ a.stream \in Streams /\ a.slot \in Slots /\ a.unit \in Units
      /\ unit[a.stream][a.slot][a.unit].programming
  BY <1>1, FlightFacts
<1>3. w = unit[st][s][i] /\ ~w.programming /\ s \in Slots
  BY DEF Written
<1>4. ~(a.stream = st /\ a.slot = s /\ a.unit = i)
  BY <1>2, <1>3
<1>5. UnitAt(a)' = UnitAt(a)
  BY <1>2, <1>4 DEF Written, OnlyUnit, UnitAt
<1>6. PPage(a)' = PPage(a) /\ Die(a)' = Die(a)
  BY <1>5 DEF PPage, Die
<1>7. ~(a.stream = st /\ a.slot = s /\ NeedsNext(st))
  <2> SUFFICES ASSUME a.stream = st, a.slot = s, NeedsNext(st) PROVE FALSE
    OBVIOUS
  <2>1. unit[st][s][a.unit].free /\ unit[st][s][a.unit].programming
    BY <1>2 DEF Written
  <2> QED BY <1>1, <1>2, <1>3, <2>1, ProgrammingFacts
<1> QED BY <1>5, <1>6, <1>7

LEMMA WrittenStructure ==
  ASSUME IInv, NEW st \in Streams, NEW lpn \in LPN, NEW s, NEW i, NEW w, NEW n,
         Written(st, lpn, s, i, w, n)
  PROVE  Structure'
<1>1. Typed /\ Structure
  BY DEF IInv
<1>2. /\ s \in Slots /\ i \in Units /\ i = ring[st][s] /\ w \in UnitType
      /\ n \in 0..(UnitsPerBlock - 1) /\ w = unit[st][s][i] /\ issuing = NoUnit
  BY DEF Written
<1>3. /\ Given(st, s)' = n /\ Fill(st, s)' = Len(w.lpns) + 1
      /\ page'[st][s] = LpnPerUnit * n + Fill(st, s)'
      /\ Fill(st, s)' \in 1..LpnPerUnit
      /\ cur'[st] = s /\ \A t \in Streams : t # st => cur'[t] = cur[t]
      /\ \A t \in Streams, r \in Slots : ~(t = st /\ r = s) =>
           page'[t][r] = page[t][r] /\ Fill(t, r)' = Fill(t, r) /\ Given(t, r)' = Given(t, r)
      /\ w.lpns \in Seq(LPN) /\ Len(w.lpns) \in Nat
      /\ ring' = ring /\ flight' = flight
  BY WrittenSlots
<1>4. issuing' = IF Fill(st, s)' = LpnPerUnit
                 THEN [stream |-> st, slot |-> s, unit |-> i] ELSE NoUnit
  BY <1>3 DEF Written
<1>5. ASSUME NEW t \in Streams, NEW r \in Slots
      PROVE  SlotSound(t, r)'
  <2>1. CASE t = st /\ r = s
    <3>1. n \in 0..UnitsPerBlock
      BY <1>2, SizeFacts
    <3> QED BY <1>2, <1>3, <1>4, <2>1, <3>1 DEF SlotSound
  <2>2. CASE ~(t = st /\ r = s)
    <3>1. issuing # [stream |-> t, slot |-> r, unit |-> ring[t][r]]
      <4>1. [stream |-> t, slot |-> r, unit |-> ring[t][r]] \in Places
        BY <1>1, TypeFacts DEF Places
      <4> QED BY <1>2, <4>1, SentinelAssumption DEF Places
    <3>2. /\ Given(t, r) \in 0..UnitsPerBlock /\ Fill(t, r) \in 0..LpnPerUnit
          /\ page[t][r] = LpnPerUnit * Given(t, r) + Fill(t, r)
          /\ r # cur[t] => page[t][r] = BlockEnd
          /\ Fill(t, r) < LpnPerUnit
      BY <1>1, <3>1, SlotFacts
    <3>3. r # cur'[t] => page[t][r] = BlockEnd
      <4>1. CASE t # st
        BY <1>3, <3>2, <4>1
      <4>2. CASE t = st /\ NeedsNext(st)
        <5>1. cur[st] \in Slots /\ s = 1 - cur[st]
          BY <4>2 DEF Written
        <5>2. r = cur[st]
          BY <2>2, <4>2, <5>1 DEF Slots
        <5> QED BY <4>2, <5>2 DEF NeedsNext
      <4>3. CASE t = st /\ ~NeedsNext(st)
        <5>1. s = cur[st]
          BY <4>3 DEF Written
        <5> QED BY <2>2, <3>2, <4>3, <5>1
      <4> QED BY <4>1, <4>2, <4>3
    <3>4. Fill(t, r) # LpnPerUnit
      BY <3>2, SizeFacts
    <3> QED BY <1>3, <2>2, <3>2, <3>3, <3>4 DEF SlotSound
  <2> QED BY <2>1, <2>2
<1>6. ASSUME NEW a
      PROVE  InFlight(a)' <=> InFlight(a)
  BY <1>3 DEF InFlight
<1>7. ASSUME NEW t \in Streams, NEW r \in Slots, NEW u \in Units
      PROVE  UnitSound(t, r, u)'
  <2>1. UnitSound(t, r, u)
    BY <1>1 DEF Structure
  <2>2. CASE t = st /\ r = s /\ u = i
    <3>1. unit'[t][r][u] = [free |-> FALSE, programming |-> FALSE, vppn |-> LpnPerUnit * n,
                            lpns |-> Append(w.lpns, lpn)]
      BY <2>2 DEF Written, OnlyUnit
    <3>2. Append(w.lpns, lpn) # <<>>
      BY <1>3
    <3>3. /\ ~unit'[t][r][u].free /\ ~unit'[t][r][u].programming
          /\ unit'[t][r][u].lpns = Append(w.lpns, lpn)
          /\ unit'[t][r][u].vppn = LpnPerUnit * n
      BY <3>1
    <3>4. u = ring'[t][r] /\ n = Given(t, r)'
      BY <1>2, <1>3, <2>2
    <3> QED BY <3>2, <3>3, <3>4 DEF UnitSound
  <2>3. CASE t = st /\ r = s /\ u # i /\ NeedsNext(st)
    <3>1. unit'[t][r][u] = unit[t][r][u] /\ unit[t][r][u].free
      BY <2>3 DEF Written, OnlyUnit
    <3>2. ~unit[t][r][u].programming /\ unit[t][r][u].lpns = <<>>
      BY <2>1, <3>1 DEF UnitSound
    <3> QED BY <3>1, <3>2 DEF UnitSound
  <2>4. CASE ~(t = st /\ r = s /\ (u = i \/ NeedsNext(st)))
    <3>1. unit'[t][r][u] = unit[t][r][u]
      BY <2>4 DEF Written, OnlyUnit
    <3>2. Given(t, r)' = Given(t, r)
      <4>1. ~NeedsNext(st) => n = Given(st, s)
        BY DEF Written
      <4> QED BY <1>3, <2>4, <4>1
    <3> QED BY <1>3, <1>6, <2>1, <3>1, <3>2 DEF UnitSound
  <2> QED BY <2>2, <2>3, <2>4
<1>8. FlightSound'
  <2>1. \A k \in DOMAIN flight : UnitAt(flight[k].at)' = UnitAt(flight[k].at)
    BY WrittenFlight
  <2>2. FlightSound
    BY <1>1 DEF Structure
  <2> QED BY <1>3, <2>1, <2>2 DEF FlightSound
<1>9. IssuingSound'
  <2> SUFFICES ASSUME issuing' # NoUnit
               PROVE  IssuingSound'
    BY DEF IssuingSound
  <2>1. issuing' = [stream |-> st, slot |-> s, unit |-> i] /\ Fill(st, s)' = LpnPerUnit
    BY <1>4
  <2>2. UnitAt(issuing)' = unit'[st][s][i]
    BY <2>1 DEF UnitAt
  <2>3. unit'[st][s][i] = [free |-> FALSE, programming |-> FALSE, vppn |-> LpnPerUnit * n,
                           lpns |-> Append(w.lpns, lpn)]
    BY DEF Written, OnlyUnit
  <2>4. Len(Append(w.lpns, lpn)) = LpnPerUnit
    BY <1>3, <2>1
  <2>5. ~UnitAt(issuing)'.programming /\ Len(UnitAt(issuing)'.lpns) = LpnPerUnit
    BY <2>2, <2>3, <2>4
  <2>6. issuing'.slot = cur'[issuing'.stream] /\ issuing'.unit = ring'[issuing'.stream][issuing'.slot]
    BY <1>2, <1>3, <2>1
  <2> QED BY <2>5, <2>6 DEF IssuingSound
<1> QED BY <1>5, <1>7, <1>8, <1>9 DEF Structure

\* A write, even the first of a block, leaves the order of what is in flight.
LEMMA WrittenOrder ==
  ASSUME IInv, NEW st \in Streams, NEW lpn \in LPN, NEW s, NEW i, NEW w, NEW n,
         Written(st, lpn, s, i, w, n)
  PROVE  InOrder' /\ PassedOnce'
<1>1. Typed /\ Structure /\ InOrder /\ PassedOnce /\ n \in 0..(UnitsPerBlock - 1)
  BY DEF IInv, Written
<1>2. /\ Given(st, s)' = n
      /\ cur'[st] = s /\ \A t \in Streams : t # st => cur'[t] = cur[t]
      /\ \A t \in Streams, r \in Slots : ~(t = st /\ r = s) => Given(t, r)' = Given(t, r)
      /\ flight' = flight
  BY WrittenSlots
<1>3. \A k \in DOMAIN flight :
        LET a == flight[k].at
        IN  /\ PPage(a)' = PPage(a) /\ Die(a)' = Die(a)
            /\ ~(a.stream = st /\ a.slot = s /\ NeedsNext(st))
            /\ a.stream \in Streams /\ a.slot \in Slots
  BY <1>1, WrittenFlight, FlightFacts
<1>4. /\ NeedsNext(st) => n = 0 /\ cur[st] \in Slots /\ s = 1 - cur[st]
      /\ ~NeedsNext(st) => n = Given(st, s) /\ s = cur[st]
  BY DEF Written
<1>5. InOrder'
  <2> SUFFICES ASSUME NEW j \in DOMAIN flight, NEW k \in DOMAIN flight,
                      j < k, flight[j].at.stream = flight[k].at.stream
               PROVE  LET a == flight[j].at
                          b == flight[k].at
                      IN  IF a.slot = b.slot THEN PPage(a) < PPage(b)
                          ELSE a.slot # cur'[a.stream]
    BY <1>2, <1>3 DEF InOrder
  <2> DEFINE a == flight[j].at
             b == flight[k].at
  <2>1. IF a.slot = b.slot THEN PPage(a) < PPage(b) ELSE a.slot # cur[a.stream]
    BY <1>1 DEF InOrder
  <2>2. a.slot # cur[a.stream] => a.slot # cur'[a.stream]
    <3>1. CASE a.stream = st /\ NeedsNext(st)
      BY <1>2, <1>3, <3>1
    <3>2. CASE a.stream = st /\ ~NeedsNext(st)
      BY <1>2, <1>4, <3>2
    <3>3. CASE a.stream # st
      BY <1>2, <1>3, <3>3
    <3> QED BY <3>1, <3>2, <3>3
  <2> QED BY <2>1, <2>2
<1>6. ASSUME NEW k \in DOMAIN flight, NEW x, x \in After(flight[k].at)'
      PROVE  x \in After(flight[k].at)
  <2> DEFINE a == flight[k].at
  <2>1. /\ x \in Slots \X (0..(UnitsPerBlock - 1)) /\ x[1] \in Slots
        /\ x[2] \in 0..(UnitsPerBlock - 1)
    BY <1>6 DEF After
  <2>2. /\ x[2] < Given(a.stream, x[1])' /\ x[2] % Dies = Die(a)
        /\ IF x[1] = a.slot THEN PPage(a) < x[2] ELSE x[1] = cur'[a.stream]
    BY <1>2, <1>3, <1>6 DEF After
  <2>3. ~(a.stream = st /\ x[1] = s /\ NeedsNext(st))
    BY <1>2, <1>4, <2>1, <2>2, SizeFacts
  <2>4. x[2] < Given(a.stream, x[1])
    BY <1>2, <1>3, <1>4, <2>1, <2>2, <2>3
  <2>5. x[1] # a.slot => x[1] = cur[a.stream]
    BY <1>2, <1>3, <1>4, <2>1, <2>2, <2>3
  <2> QED BY <2>1, <2>2, <2>4, <2>5 DEF After
<1>7. ASSUME NEW k \in DOMAIN flight, NEW x
      PROVE  StillIn(flight[k].at.stream, x)' <=> StillIn(flight[k].at.stream, x)
  BY <1>2, <1>3 DEF StillIn
<1>8. PassedOnce'
  <2> SUFFICES ASSUME NEW k \in DOMAIN flight
               PROVE  LET a == flight[k].at
                      IN  /\ \A x, y \in After(a)' :
                               ~StillIn(a.stream, x)' /\ ~StillIn(a.stream, y)'
                                 => x = y /\ flight[k].passed
                          /\ flight[k].passed => PPage(a) < Dies /\ RequestCount > 1
    BY <1>2, <1>3 DEF PassedOnce
  <2> QED BY <1>1, <1>6, <1>7 DEF PassedOnce
<1> QED BY <1>5, <1>8

\* A page of a unit of a slot, other than the one being filled, is of an earlier page
\* of the block than what is written now.
LEMMA EarlierUnit ==
  ASSUME IInv, NEW st \in Streams, NEW lpn \in LPN, NEW s, NEW i, NEW w, NEW n,
         Written(st, lpn, s, i, w, n),
         NEW u \in Units, u # i, NEW k \in DOMAIN unit[st][s][u].lpns
  PROVE  ~NeedsNext(st) /\ unit[st][s][u].vppn + k - 1 < LpnPerUnit * n
         /\ unit[st][s][u].vppn \in Nat /\ k \in 1..LpnPerUnit
         /\ unit[st][s][u].vppn + Len(unit[st][s][u].lpns) <= LpnPerUnit * n
         /\ Len(unit[st][s][u].lpns) = LpnPerUnit
<1> DEFINE x == unit[st][s][u]
<1>1. Typed /\ Structure /\ s \in Slots /\ n \in 0..(UnitsPerBlock - 1) /\ i = ring[st][s]
      /\ issuing = NoUnit
  BY DEF IInv, Written
<1>2. UnitSound(st, s, u) /\ x \in UnitType
  BY <1>1, TypeFacts DEF Structure
<1>3. x.lpns \in Seq(LPN) /\ x.lpns # <<>> /\ x.vppn \in Nat
  BY <1>2, UnitFacts
<1>4. ~x.free
  BY <1>2, <1>3 DEF UnitSound
<1>5. ~NeedsNext(st) /\ n = Given(st, s)
  BY <1>4 DEF Written
<1>6. x.programming
  BY <1>1, <1>2, <1>4 DEF UnitSound
<1>7. PICK q \in 0..(Given(st, s) - 1) : x.vppn = LpnPerUnit * q
  BY <1>2, <1>6 DEF UnitSound
<1>8. Len(x.lpns) = LpnPerUnit
  BY <1>2, <1>6 DEF UnitSound
<1>9. q \in Nat /\ n \in Nat /\ q < n
  BY <1>1, <1>5, <1>7, SizeFacts
<1>10. LpnPerUnit * q + LpnPerUnit <= LpnPerUnit * n
  BY <1>9, SizeFacts, MulLess
<1>11. PICK a, b : a = LpnPerUnit * q /\ b = LpnPerUnit * n
  OBVIOUS
<1>12. a \in Nat /\ b \in Nat /\ a + LpnPerUnit <= b /\ x.vppn = a
  BY <1>7, <1>9, <1>10, <1>11, SizeFacts
<1>13. k \in 1..LpnPerUnit
  BY <1>3, <1>8
<1>14. a + k - 1 < b
  BY <1>12, <1>13, SizeFacts
<1> QED BY <1>3, <1>5, <1>8, <1>11, <1>12, <1>13, <1>14

\* The mapping after a write.
LEMMA WrittenMapping ==
  ASSUME IInv, NEW st \in Streams, NEW lpn \in LPN, NEW s, NEW i, NEW w, NEW n,
         Written(st, lpn, s, i, w, n)
  PROVE  /\ l2v'[lpn] = [stream |-> st, slot |-> s, page |-> WritePage(st)]
         /\ [stream |-> st, slot |-> s, page |-> WritePage(st)] \in Addresses
         /\ \A y \in LPN : y # lpn =>
              \/ l2v'[y] = l2v[y]
              \/ l2v'[y] = Left /\ NeedsNext(st) /\ l2v[y] \in Addresses
                 /\ l2v[y].stream = st /\ l2v[y].slot = s
         /\ \A y \in LPN : y # lpn /\ l2v'[y] \in Addresses =>
              /\ l2v'[y] = l2v[y]
              /\ ~(NeedsNext(st) /\ l2v[y].stream = st /\ l2v[y].slot = s)
         /\ l2v' \in [LPN -> Addresses \cup {Unmapped, Left}]
<1>1. /\ s \in Slots /\ s = WriteSlot(st) /\ WritePage(st) \in PageNos
      /\ l2v' = [SlotLeft(st) EXCEPT ![lpn] = [stream |-> st, slot |-> s, page |-> WritePage(st)]]
  BY DEF Written
<1>2. l2v \in [LPN -> Addresses \cup {Unmapped, Left}]
  BY DEF IInv, Typed, TypeOK
<1>3. [stream |-> st, slot |-> s, page |-> WritePage(st)] \in Addresses
  BY <1>1 DEF Addresses
<1>4. SlotLeft(st) \in [LPN -> Addresses \cup {Unmapped, Left}]
  BY <1>2 DEF SlotLeft
<1>5. /\ l2v' \in [LPN -> Addresses \cup {Unmapped, Left}]
      /\ l2v'[lpn] = [stream |-> st, slot |-> s, page |-> WritePage(st)]
      /\ \A y \in LPN : y # lpn => l2v'[y] = SlotLeft(st)[y]
  BY <1>1, <1>3, <1>4
<1>6. ASSUME NEW y \in LPN, y # lpn
      PROVE  /\ \/ l2v'[y] = l2v[y]
                \/ l2v'[y] = Left /\ NeedsNext(st) /\ l2v[y] \in Addresses
                   /\ l2v[y].stream = st /\ l2v[y].slot = s
             /\ l2v'[y] \in Addresses =>
                  /\ l2v'[y] = l2v[y]
                  /\ ~(NeedsNext(st) /\ l2v[y].stream = st /\ l2v[y].slot = s)
  <2> DEFINE T == [stream : {st}, slot : {s}, page : PageNos]
  <2>1. l2v'[y] = IF NeedsNext(st) /\ l2v[y] \in T THEN Left ELSE l2v[y]
    BY <1>1, <1>5, <1>6 DEF SlotLeft
  <2>2. l2v[y] \in Addresses => (l2v[y] \in T <=> l2v[y].stream = st /\ l2v[y].slot = s)
    <3> SUFFICES ASSUME l2v[y] \in Addresses
                 PROVE  l2v[y] \in T <=> l2v[y].stream = st /\ l2v[y].slot = s
      OBVIOUS
    <3>1. PICK t \in Streams, r \in Slots, p \in PageNos :
                 l2v[y] = [stream |-> t, slot |-> r, page |-> p]
      BY DEF Addresses
    <3> QED BY <3>1
  <2>3. l2v[y] \in T => l2v[y] \in Addresses
    BY <1>1 DEF Addresses
  <2>4. Left \notin Addresses
    BY SentinelAssumption
  <2> QED BY <2>1, <2>2, <2>3, <2>4
<1> QED BY <1>3, <1>5, <1>6

\* No page in a unit of the host stream becomes newer than the mapped one.
LEMMA WrittenOlder ==
  ASSUME IInv, NEW st \in Streams, NEW lpn \in LPN, NEW s, NEW i, NEW w, NEW n,
         Written(st, lpn, s, i, w, n), st = "GC" => l2v[lpn] = Left
  PROVE  OlderThanMapped'
<1>1. Typed /\ Structure /\ OlderThanMapped
  BY DEF IInv
<1>2. /\ s \in Slots /\ i \in Units /\ w = unit[st][s][i] /\ n \in 0..(UnitsPerBlock - 1)
      /\ NeedsNext(st) => /\ cur[st] \in Slots /\ s = 1 - cur[st]
                          /\ \A u \in Units : unit[st][s][u].free
      /\ ~NeedsNext(st) => s = cur[st]
      /\ w.lpns # <<>> => w.vppn = LpnPerUnit * n
      /\ WritePage(st) = LpnPerUnit * n + Len(w.lpns)
  BY DEF Written
<1>3. cur'[st] = s /\ w.lpns \in Seq(LPN) /\ Len(w.lpns) \in Nat
      /\ \A t \in Streams : t # st => cur'[t] = cur[t]
  BY WrittenSlots
<1> DEFINE m0 == [stream |-> st, slot |-> s, page |-> WritePage(st)]
<1>4. /\ l2v'[lpn] = m0 /\ m0 \in Addresses
      /\ \A y \in LPN : y # lpn =>
           \/ l2v'[y] = l2v[y]
           \/ l2v'[y] = Left /\ NeedsNext(st) /\ l2v[y] \in Addresses
              /\ l2v[y].stream = st /\ l2v[y].slot = s
  BY WrittenMapping
<1>5. ASSUME NEW r \in Slots, NEW u \in Units, NEW k \in DOMAIN unit["HOST"][r][u].lpns
      PROVE  LET x == unit["HOST"][r][u]
                 m == l2v[x.lpns[k]]
             IN  /\ m \in Addresses /\ m.stream = "HOST"
                 /\ IF m.slot = r THEN x.vppn + k - 1 <= m.page ELSE r # cur["HOST"]
                 /\ x.lpns[k] \in LPN /\ "HOST" \in Streams
  <2>1. "HOST" \in Streams
    BY DEF Streams
  <2>2. unit["HOST"][r][u] \in UnitType
    BY <1>1, <2>1, TypeFacts
  <2>3. unit["HOST"][r][u].lpns \in Seq(LPN)
    BY <2>2, UnitFacts
  <2>4. unit["HOST"][r][u].lpns[k] \in LPN
    BY <2>3
  <2> QED BY <1>1, <2>1, <2>4 DEF OlderThanMapped
<1>6. CASE st = "GC"
  <2>1. \A r \in Slots, u \in Units : unit'["HOST"][r][u] = unit["HOST"][r][u]
    BY <1>6 DEF Written, OnlyUnit, Streams
  <2>2. cur'["HOST"] = cur["HOST"]
    BY <1>3, <1>6 DEF Streams
  <2>3. ASSUME NEW r \in Slots, NEW u \in Units, NEW k \in DOMAIN unit["HOST"][r][u].lpns
        PROVE  l2v'[unit["HOST"][r][u].lpns[k]] = l2v[unit["HOST"][r][u].lpns[k]]
    <3>1. /\ l2v[unit["HOST"][r][u].lpns[k]] \in Addresses
          /\ l2v[unit["HOST"][r][u].lpns[k]].stream = "HOST"
          /\ unit["HOST"][r][u].lpns[k] \in LPN
      BY <1>5
    <3> QED BY <1>4, <1>6, <3>1, SentinelAssumption
  <2> QED BY <1>5, <2>1, <2>2, <2>3 DEF OlderThanMapped
<1>7. CASE st = "HOST"
  <2> SUFFICES ASSUME NEW r \in Slots, NEW u \in Units, NEW k \in DOMAIN unit'["HOST"][r][u].lpns
               PROVE  LET x == unit'["HOST"][r][u]
                          m == l2v'[x.lpns[k]]
                      IN  /\ m \in Addresses /\ m.stream = "HOST"
                          /\ IF m.slot = r THEN x.vppn + k - 1 <= m.page ELSE r # cur'["HOST"]
    BY DEF OlderThanMapped
  <2> DEFINE x == unit'["HOST"][r][u]
             y == x.lpns[k]
  <2>1. m0.stream = "HOST" /\ m0.slot = s /\ m0.page = WritePage(st) /\ WritePage(st) \in Nat
    <3>1. WritePage(st) \in PageNos /\ BlockEnd \in Nat
      BY SizeFacts DEF Written
    <3>2. WritePage(st) \in Nat
      BY <3>1 DEF PageNos
    <3> QED BY <1>7, <3>2
  <2>2. CASE r = s /\ u = i
    <3>1. x = [free |-> FALSE, programming |-> FALSE, vppn |-> LpnPerUnit * n,
               lpns |-> Append(w.lpns, lpn)]
      BY <1>7, <2>2 DEF Written, OnlyUnit
    <3>2. x.vppn = LpnPerUnit * n /\ x.lpns = Append(w.lpns, lpn)
      BY <3>1
    <3>3. k \in 1..(Len(w.lpns) + 1)
      BY <1>3, <3>2
    <3>4. PICK b : b = LpnPerUnit * n /\ b \in Nat
      BY <1>2, SizeFacts
    <3>5. x.vppn + k - 1 <= WritePage(st)
      BY <1>2, <1>3, <3>2, <3>3, <3>4
    <3>6. CASE y = lpn
      BY <1>4, <2>1, <2>2, <3>5, <3>6
    <3>7. CASE y # lpn
      <4>1. k \in 1..Len(w.lpns) /\ y = w.lpns[k] /\ k \in DOMAIN w.lpns /\ w.lpns # <<>>
        BY <1>3, <3>2, <3>3, <3>7
      <4>2. ~NeedsNext(st)
        <5>1. NeedsNext(st) => w.free
          BY <1>2
        <5>2. UnitSound(st, s, i)
          BY <1>1, <1>2 DEF Structure
        <5> QED BY <1>2, <4>1, <5>1, <5>2 DEF UnitSound
      <4>3. /\ l2v[y] \in Addresses /\ l2v[y].stream = "HOST" /\ y \in LPN
            /\ IF l2v[y].slot = s THEN w.vppn + k - 1 <= l2v[y].page ELSE s # cur["HOST"]
        BY <1>2, <1>5, <1>7, <4>1
      <4>4. l2v'[y] = l2v[y]
        BY <1>4, <3>7, <4>2, <4>3
      <4>5. l2v[y].slot = s /\ w.vppn + k - 1 <= l2v[y].page /\ w.vppn = LpnPerUnit * n
        BY <1>2, <1>7, <4>1, <4>2, <4>3
      <4> QED BY <2>2, <3>2, <4>3, <4>4, <4>5
    <3> QED BY <3>6, <3>7
  <2>3. CASE ~(r = s /\ u = i)
    <3>1. x = unit["HOST"][r][u] /\ k \in DOMAIN unit["HOST"][r][u].lpns
      BY <1>7, <2>3 DEF Written, OnlyUnit, Streams
    <3>2. /\ l2v[y] \in Addresses /\ l2v[y].stream = "HOST" /\ y \in LPN
          /\ IF l2v[y].slot = r THEN x.vppn + k - 1 <= l2v[y].page ELSE r # cur["HOST"]
      BY <1>5, <3>1
    <3>3. r = s => ~NeedsNext(st) /\ x.vppn + k - 1 < LpnPerUnit * n /\ x.vppn \in Nat
                   /\ k \in 1..LpnPerUnit
      BY <1>7, <2>3, <3>1, EarlierUnit
    <3>4. CASE y = lpn
      <4>1. r = s => x.vppn + k - 1 <= WritePage(st)
        <5>1. PICK b : b = LpnPerUnit * n /\ b \in Nat
          BY <1>2, SizeFacts
        <5>2. WritePage(st) = b + Len(w.lpns) /\ Len(w.lpns) \in Nat
          BY <1>2, <1>3, <5>1
        <5>3. PICK v : v = x.vppn
          OBVIOUS
        <5>4. r = s => v + k - 1 < b /\ v \in Nat /\ k \in Nat
          BY <3>3, <5>1, <5>3, SizeFacts
        <5> QED BY <5>1, <5>2, <5>3, <5>4
      <4> QED BY <1>3, <1>4, <1>7, <2>1, <3>4, <4>1
    <3>5. CASE y # lpn
      <4>1. ~(NeedsNext(st) /\ l2v[y].slot = s)
        <5> SUFFICES ASSUME NeedsNext(st), l2v[y].slot = s PROVE FALSE
          OBVIOUS
        <5>1. r # s
          BY <3>3
        <5>2. r = cur[st]
          BY <1>2, <5>1 DEF Slots
        <5> QED BY <1>7, <3>2, <5>1, <5>2
      <4>2. l2v'[y] = l2v[y]
        BY <1>4, <3>2, <3>5, <4>1
      <4>3. r # cur["HOST"] => r # s
        BY <1>2, <1>7, <3>3
      <4> QED BY <1>3, <1>7, <3>2, <4>2, <4>3
    <3> QED BY <3>4, <3>5
  <2> QED BY <2>2, <2>3
<1> QED BY <1>6, <1>7 DEF Streams

\* What is mapped is where the mapping says, also what has just been written.
LEMMA WrittenThere ==
  ASSUME IInv, NEW st \in Streams, NEW lpn \in LPN, NEW s, NEW i, NEW w, NEW n,
         Written(st, lpn, s, i, w, n)
  PROVE  MappedIsThere'
<1>1. Typed /\ Structure /\ MappedIsThere
  BY DEF IInv
<1>2. /\ s \in Slots /\ i \in Units /\ w = unit[st][s][i] /\ n \in 0..(UnitsPerBlock - 1)
      /\ NeedsNext(st) => \A u \in Units : unit[st][s][u].free
      /\ ~NeedsNext(st) => s = cur[st]
      /\ w.lpns # <<>> => w.vppn = LpnPerUnit * n
      /\ WritePage(st) = LpnPerUnit * n + Len(w.lpns)
      /\ Len(w.lpns) < LpnPerUnit /\ WritePage(st) \in PageNos
  BY DEF Written
<1>3. /\ page'[st][s] = LpnPerUnit * n + Fill(st, s)' /\ Fill(st, s)' = Len(w.lpns) + 1
      /\ w.lpns \in Seq(LPN) /\ Len(w.lpns) \in Nat
      /\ \A t \in Streams, r \in Slots : ~(t = st /\ r = s) => page'[t][r] = page[t][r]
  BY WrittenSlots
<1> DEFINE m0 == [stream |-> st, slot |-> s, page |-> WritePage(st)]
<1>4. /\ l2v'[lpn] = m0
      /\ \A y \in LPN : y # lpn /\ l2v'[y] \in Addresses =>
           l2v'[y] = l2v[y] /\ ~(NeedsNext(st) /\ l2v[y].stream = st /\ l2v[y].slot = s)
  BY WrittenMapping
<1>5. PICK b : b = LpnPerUnit * n /\ b \in Nat
  BY <1>2, SizeFacts
<1>6. WritePage(st) = b + Len(w.lpns) /\ page'[st][s] = b + Len(w.lpns) + 1
  BY <1>2, <1>3, <1>5
<1>7. ~NeedsNext(st) => page[st][s] = b + Len(w.lpns)
  BY <1>2, <1>6 DEF WritePage
<1>8. /\ unit'[st][s][i].vppn = b /\ unit'[st][s][i].lpns = Append(w.lpns, lpn)
      /\ \A t \in Streams, r \in Slots, u \in Units :
           ~(t = st /\ r = s /\ u = i) => unit'[t][r][u] = unit[t][r][u]
  <2>1. unit'[st][s][i] = [free |-> FALSE, programming |-> FALSE, vppn |-> LpnPerUnit * n,
                           lpns |-> Append(w.lpns, lpn)]
    BY DEF Written, OnlyUnit
  <2>2. unit'[st][s][i].vppn = b /\ unit'[st][s][i].lpns = Append(w.lpns, lpn)
    BY <1>5, <2>1
  <2> QED BY <2>2 DEF Written, OnlyUnit
<1> SUFFICES ASSUME NEW y \in LPN, l2v'[y] \in Addresses
             PROVE  LET m == l2v'[y]
                    IN  m.page < page'[m.stream][m.slot] /\ Holds(unit'[m.stream][m.slot], m.page, y)
  BY DEF MappedIsThere
<1>9. CASE y = lpn
  <2>0. PICK p : p = b + Len(w.lpns)
    OBVIOUS
  <2>1. m0.stream = st /\ m0.slot = s /\ m0.page = p
    BY <1>6, <2>0
  <2>2. p < page'[st][s]
    BY <1>3, <1>5, <1>6, <2>0
  <2>3. ASSUME NEW u \in Units, NEW k, k = p - unit'[st][s][u].vppn + 1,
               k \in DOMAIN unit'[st][s][u].lpns
        PROVE  unit'[st][s][u].lpns[k] = y
    <3>1. CASE u = i
      <4>1. k = Len(w.lpns) + 1
        BY <1>3, <1>5, <1>8, <2>0, <2>3, <3>1
      <4> QED BY <1>3, <1>8, <1>9, <3>1, <4>1
    <3>2. CASE u # i
      <4> DEFINE x == unit[st][s][u]
      <4>1. k \in DOMAIN x.lpns /\ k = p - x.vppn + 1
        BY <1>2, <1>8, <2>3, <3>2 DEF Streams
      <4>2. x.vppn + k - 1 < LpnPerUnit * n /\ x.vppn \in Nat /\ k \in 1..LpnPerUnit
        BY <3>2, <4>1, EarlierUnit
      <4>3. x.vppn + k - 1 < b /\ k \in Nat
        BY <1>5, <4>2, SizeFacts
      <4>4. PICK o, e, z : o = x.vppn /\ e = Len(w.lpns) /\ z = k
        OBVIOUS
      <4>5. o \in Nat /\ e \in Nat /\ z \in Nat /\ b \in Nat /\ o + z - 1 < b /\ z = b + e - o + 1
        BY <1>3, <1>5, <2>0, <4>1, <4>2, <4>3, <4>4
      <4>6. FALSE
        BY <4>5
      <4> QED BY <4>6
    <3> QED BY <3>1, <3>2
  <2>4. Holds(unit'[st][s], p, y)
    BY <2>3 DEF Holds
  <2>5. l2v'[y].stream = st /\ l2v'[y].slot = s /\ l2v'[y].page = p
    BY <1>4, <1>9, <2>1
  <2> QED BY <2>2, <2>4, <2>5
<1>10. CASE y # lpn
  <2> DEFINE m == l2v[y]
  <2>1. l2v'[y] = m /\ m \in Addresses /\ ~(NeedsNext(st) /\ m.stream = st /\ m.slot = s)
    BY <1>4, <1>10
  <2>2. m.stream \in Streams /\ m.slot \in Slots /\ m.page \in Nat
    <3>1. m.stream \in Streams /\ m.slot \in Slots /\ m.page \in PageNos
      BY <2>1 DEF Addresses
    <3> QED BY <3>1, SizeFacts DEF PageNos
  <2>3. m.page < page[m.stream][m.slot] /\ Holds(unit[m.stream][m.slot], m.page, y)
    BY <1>1, <2>1 DEF MappedIsThere
  <2>4. CASE m.stream = st /\ m.slot = s
    <3>1. page[st][s] = b + Len(w.lpns) /\ m.page < b + Len(w.lpns)
      BY <1>7, <2>1, <2>3, <2>4
    <3>2. m.page < page'[st][s]
      BY <1>3, <1>5, <1>6, <2>2, <3>1
    <3>3. ASSUME NEW u \in Units, NEW k, k = m.page - unit'[st][s][u].vppn + 1,
                 k \in DOMAIN unit'[st][s][u].lpns
          PROVE  unit'[st][s][u].lpns[k] = y
      <4>1. CASE u = i
        <5>1. k \in 1..(Len(w.lpns) + 1) /\ k = m.page - b + 1
          BY <1>3, <1>8, <3>3, <4>1
        <5>2. k \in 1..Len(w.lpns)
          BY <1>3, <1>5, <2>2, <3>1, <5>1
        <5>3. w.lpns # <<>> /\ k \in DOMAIN w.lpns /\ Append(w.lpns, lpn)[k] = w.lpns[k]
          BY <1>3, <5>2
        <5>4. w.vppn = b
          BY <1>2, <1>5, <5>3
        <5>5. w.lpns[k] = y
          BY <1>2, <2>3, <2>4, <5>1, <5>3, <5>4 DEF Holds
        <5> QED BY <1>8, <4>1, <5>3, <5>5
      <4>2. CASE u # i
        <5>1. unit'[st][s][u] = unit[st][s][u]
          BY <1>2, <1>8, <4>2
        <5> QED BY <2>3, <2>4, <3>3, <5>1 DEF Holds
      <4> QED BY <4>1, <4>2
    <3>4. Holds(unit'[st][s], m.page, y)
      BY <3>3 DEF Holds
    <3> QED BY <2>1, <2>4, <3>2, <3>4
  <2>5. CASE ~(m.stream = st /\ m.slot = s)
    <3>1. page'[m.stream][m.slot] = page[m.stream][m.slot]
      BY <1>3, <2>2, <2>5
    <3>2. \A u \in Units : unit'[m.stream][m.slot][u] = unit[m.stream][m.slot][u]
      BY <1>8, <2>2, <2>5
    <3>3. Holds(unit'[m.stream][m.slot], m.page, y)
      BY <2>3, <3>2 DEF Holds
    <3> QED BY <2>1, <2>3, <3>1, <3>3
  <2> QED BY <2>4, <2>5
<1> QED BY <1>9, <1>10

(***************************************************************************)
(* The hash.                                                               *)
(***************************************************************************)

\* The places, in the units of a stream, of the pages of a bucket.
BucketPlaces(units, b) ==
  {x \in Slots \X Units \X (1..LpnPerUnit) :
     LET lpns == units[x[1]][x[2]].lpns
     IN  x[3] \in DOMAIN lpns /\ Bucket[lpns[x[3]]] = b}

LEMMA HashIs ==
  HashExact <=> \A b \in Buckets : hash[b] = Cardinality(BucketPlaces(unit["HOST"], b))
BY DEF HashExact, BucketPlaces

LEMMA HashIsNext ==
  HashExact' <=> \A b \in Buckets : hash'[b] = Cardinality(BucketPlaces(unit'["HOST"], b))
BY DEF HashExact, BucketPlaces

LEMMA PlacesFinite ==
  ASSUME NEW units, NEW b
  PROVE  IsFiniteSet(BucketPlaces(units, b))
<1>1. IsFiniteSet(Slots) /\ IsFiniteSet(Units) /\ IsFiniteSet(1..LpnPerUnit)
  <2>1. Slots = 0..1 /\ 0 \in Int /\ 1 \in Int /\ UnitCount - 1 \in Int /\ LpnPerUnit \in Int
    BY SizeFacts DEF Slots
  <2>2. IsFiniteSet(0..1) /\ IsFiniteSet(0..(UnitCount - 1)) /\ IsFiniteSet(1..LpnPerUnit)
    BY <2>1, FS_Interval
  <2> QED BY <2>1, <2>2, SizeFacts
<1>2. IsFiniteSet(Units \X (1..LpnPerUnit))
  BY <1>1, FS_Product
<1>3. IsFiniteSet(Slots \X Units \X (1..LpnPerUnit))
  <2>1. IsFiniteSet(Slots \X (Units \X (1..LpnPerUnit)))
    BY <1>1, <1>2, FS_Product
  <2> DEFINE f == [x \in Slots \X (Units \X (1..LpnPerUnit)) |-> <<x[1], x[2][1], x[2][2]>>]
  <2>2. \A z \in Slots \X Units \X (1..LpnPerUnit) :
          \E x \in Slots \X (Units \X (1..LpnPerUnit)) : f[x] = z
    <3> SUFFICES ASSUME NEW z \in Slots \X Units \X (1..LpnPerUnit)
                 PROVE  \E x \in Slots \X (Units \X (1..LpnPerUnit)) : f[x] = z
      OBVIOUS
    <3>1. PICK r \in Slots, u \in Units, k \in 1..LpnPerUnit : z = <<r, u, k>>
      OBVIOUS
    <3>2. <<r, <<u, k>>>> \in Slots \X (Units \X (1..LpnPerUnit))
      OBVIOUS
    <3>3. f[<<r, <<u, k>>>>] = <<r, u, k>>
      BY <3>2
    <3> QED BY <3>1, <3>2, <3>3
  <2>3. f \in [Slots \X (Units \X (1..LpnPerUnit)) -> Slots \X Units \X (1..LpnPerUnit)]
    OBVIOUS
  <2>4. f \in Surjection(Slots \X (Units \X (1..LpnPerUnit)), Slots \X Units \X (1..LpnPerUnit))
    BY <2>2, <2>3 DEF Surjection
  <2> QED BY <2>1, <2>4, FS_Surjection
<1>4. BucketPlaces(units, b) \subseteq Slots \X Units \X (1..LpnPerUnit)
  BY DEF BucketPlaces
<1> QED BY <1>3, <1>4, FS_Subset

\* BUFFERING_LPN::Add counts the page that a write adds.
LEMMA WrittenHash ==
  ASSUME IInv, NEW st \in Streams, NEW lpn \in LPN, NEW s, NEW i, NEW w, NEW n,
         Written(st, lpn, s, i, w, n)
  PROVE  HashExact' /\ hash' \in [Buckets -> Nat]
<1>1. Typed /\ HashExact /\ hash \in [Buckets -> Nat]
  BY DEF IInv, Typed, TypeOK
<1>2. s \in Slots /\ i \in Units /\ w = unit[st][s][i] /\ Len(w.lpns) < LpnPerUnit
  BY DEF Written
<1>3. w.lpns \in Seq(LPN) /\ Len(w.lpns) \in Nat
  BY WrittenSlots
<1>4. CASE st = "GC"
  <2>1. hash' = hash
    BY <1>4 DEF Written, HashAdd
  <2>2. \A r \in Slots, u \in Units : unit'["HOST"][r][u] = unit["HOST"][r][u]
    BY <1>4 DEF Written, OnlyUnit, Streams
  <2>3. \A b : BucketPlaces(unit'["HOST"], b) = BucketPlaces(unit["HOST"], b)
    BY <2>2 DEF BucketPlaces
  <2> QED BY <1>1, <2>1, <2>3, HashIs, HashIsNext
<1>5. CASE st = "HOST"
  <2> DEFINE c == Bucket[lpn]
             z == <<s, i, Len(w.lpns) + 1>>
             A(b) == BucketPlaces(unit["HOST"], b)
             B(b) == BucketPlaces(unit'["HOST"], b)
  <2>1. c \in Buckets /\ hash' = [hash EXCEPT ![c] = @ + 1]
    BY <1>5, SizesAssumption DEF Written, HashAdd
  <2>2. z \in Slots \X Units \X (1..LpnPerUnit)
    <3>1. Len(w.lpns) + 1 \in 1..LpnPerUnit
      BY <1>2, <1>3, SizeFacts
    <3> QED BY <1>2, <3>1
  <2>3. \A b : z \notin A(b)
    BY <1>2, <1>3, <1>5 DEF BucketPlaces
  <2>4. unit'["HOST"][s][i].lpns = Append(w.lpns, lpn)
    <3>1. unit'[st][s][i] = [free |-> FALSE, programming |-> FALSE, vppn |-> LpnPerUnit * n,
                             lpns |-> Append(w.lpns, lpn)]
      BY DEF Written, OnlyUnit
    <3> QED BY <1>5, <3>1
  <2>5. ASSUME NEW x \in Slots \X Units \X (1..LpnPerUnit), NEW b, x # z
        PROVE  x \in A(b) <=> x \in B(b)
    <3>1. PICK r \in Slots, u \in Units, k \in 1..LpnPerUnit : x = <<r, u, k>>
      OBVIOUS
    <3>2. CASE r = s /\ u = i
      <4>1. k # Len(w.lpns) + 1
        BY <2>5, <3>1, <3>2
      <4>2. k \in DOMAIN Append(w.lpns, lpn) <=> k \in DOMAIN w.lpns
        BY <1>3, <4>1
      <4>3. k \in DOMAIN w.lpns => Append(w.lpns, lpn)[k] = w.lpns[k]
        BY <1>3
      <4> QED BY <1>2, <1>5, <2>4, <3>1, <3>2, <4>2, <4>3 DEF BucketPlaces
    <3>3. CASE ~(r = s /\ u = i)
      <4>1. unit'["HOST"][r][u] = unit["HOST"][r][u]
        BY <1>5, <3>3 DEF Written, OnlyUnit, Streams
      <4> QED BY <3>1, <4>1 DEF BucketPlaces
    <3> QED BY <3>2, <3>3
  <2>6. ASSUME NEW b
        PROVE  z \in B(b) <=> b = c
    <3>1. Len(w.lpns) + 1 \in DOMAIN Append(w.lpns, lpn)
          /\ Append(w.lpns, lpn)[Len(w.lpns) + 1] = lpn
      BY <1>3
    <3> QED BY <2>2, <2>4, <3>1 DEF BucketPlaces
  <2>7. \A b : A(b) \subseteq Slots \X Units \X (1..LpnPerUnit)
               /\ B(b) \subseteq Slots \X Units \X (1..LpnPerUnit)
    BY DEF BucketPlaces
  <2>8. \A b : IsFiniteSet(A(b))
    BY PlacesFinite
  <2> HIDE DEF A, B, z, c
  <2>9. ASSUME NEW b \in Buckets
        PROVE  hash'[b] = Cardinality(B(b)) /\ hash'[b] \in Nat
    <3>1. hash[b] = Cardinality(A(b)) /\ hash[b] \in Nat
      BY <1>1, HashIs DEF A
    <3>2. CASE b = c
      <4>1. B(b) = A(b) \union {z}
        BY <2>2, <2>5, <2>6, <2>7, <3>2
      <4>2. Cardinality(B(b)) = Cardinality(A(b)) + 1
        BY <2>3, <2>8, <4>1, FS_AddElement
      <4>3. hash'[b] = hash[b] + 1
        BY <1>1, <2>1, <3>2
      <4> QED BY <3>1, <4>2, <4>3
    <3>3. CASE b # c
      <4>1. B(b) = A(b)
        BY <2>3, <2>5, <2>6, <2>7, <3>3
      <4>2. hash'[b] = hash[b]
        BY <1>1, <2>1, <3>3
      <4> QED BY <3>1, <4>1, <4>2
    <3> QED BY <3>2, <3>3
  <2>10. hash' \in [Buckets -> Nat]
    BY <1>1, <2>1
  <2> QED BY <2>9, <2>10, HashIsNext DEF B
<1> QED BY <1>4, <1>5 DEF Streams

LEMMA WrittenTyped ==
  ASSUME IInv, NEW st \in Streams, NEW lpn \in LPN, NEW s, NEW i, NEW w, NEW n,
         Written(st, lpn, s, i, w, n)
  PROVE  Typed'
<1>1. Typed /\ s \in Slots /\ i \in Units /\ WritePage(st) \in PageNos
      /\ ring' = ring /\ flight' = flight
  BY DEF IInv, Written
<1>2. cur' \in [Streams -> Slots]
  BY <1>1 DEF Written, Typed, TypeOK
<1>3. page' \in [Streams -> [Slots -> 0..BlockEnd]]
  <2>1. WritePage(st) + 1 \in 0..BlockEnd
    <3>1. PICK e : e = BlockEnd /\ e \in Nat
      BY SizeFacts
    <3>2. WritePage(st) \in 0..(e - 1)
      BY <1>1, <3>1 DEF PageNos
    <3> QED BY <3>1, <3>2
  <2>2. page \in [Streams -> [Slots -> 0..BlockEnd]] /\ page' = [page EXCEPT ![st][s] = WritePage(st) + 1]
    BY <1>1 DEF Written, Typed, TypeOK
  <2> QED BY <1>1, <2>1, <2>2
<1>4. unit' \in [Streams -> [Slots -> [Units -> UnitType]]]
  BY DEF Written, OnlyUnit
<1>5. hash' \in [Buckets -> Nat]
  BY WrittenHash
<1>6. l2v' \in [LPN -> Addresses \cup {Unmapped, Left}]
  BY WrittenMapping
<1>7. issuing' \in [stream : Streams, slot : Slots, unit : Units] \cup {NoUnit}
  BY <1>1 DEF Written
<1>8. \A st1 \in Streams, s1 \in Slots, u \in Units : unit'[st1][s1][u] \in UnitType
  BY <1>4
<1>9. ring' \in [Streams -> [Slots -> Units]] /\ flight' \in Seq(Flights)
  BY <1>1 DEF Typed, TypeOK
<1>10. \A k \in DOMAIN flight' :
         flight'[k] \in [at : [stream : Streams, slot : Slots, unit : Units], passed : BOOLEAN]
  BY <1>1 DEF Typed, TypeOK
<1>11. TypeOK'
  BY <1>2, <1>3, <1>5, <1>6, <1>7, <1>8, <1>9, <1>10 DEF TypeOK
<1> QED BY <1>4, <1>9, <1>11 DEF Typed

\* ACTIVE_BLOCK::Write, for the host and for the collector.
LEMMA WriteInv ==
  ASSUME IInv, NEW lpn \in LPN, HostWrite(lpn) \/ GCWrite(lpn)
  PROVE  IInv'
<1>1. PICK st \in Streams : Write(st, lpn) /\ (st = "GC" => l2v[lpn] = Left)
  <2>1. "HOST" \in Streams /\ "GC" \in Streams /\ "HOST" # "GC"
    BY DEF Streams
  <2> QED BY <2>1 DEF HostWrite, GCWrite
<1>2. PICK s, i, w, n : Written(st, lpn, s, i, w, n)
  BY <1>1, WriteFacts
<1>3. Typed' /\ Structure' /\ InOrder' /\ PassedOnce' /\ HashExact'
  BY <1>2, WrittenTyped, WrittenStructure, WrittenOrder, WrittenHash
<1>4. OlderThanMapped' /\ MappedIsThere'
  BY <1>1, <1>2, WrittenOlder, WrittenThere
<1> QED BY <1>3, <1>4 DEF IInv

(***************************************************************************)
(* Giving a unit to the FIL.                                               *)
(***************************************************************************)

\* No unit gets another page, and units may lose theirs.
LEMMA FewerPages ==
  ASSUME IInv, UNCHANGED <<cur, page, l2v>>,
         \A st \in Streams, s \in Slots, u \in Units :
           \/ unit'[st][s][u].vppn = unit[st][s][u].vppn /\ unit'[st][s][u].lpns = unit[st][s][u].lpns
           \/ unit'[st][s][u].lpns = <<>>
  PROVE  OlderThanMapped' /\ MappedIsThere'
<1>1. OlderThanMapped /\ MappedIsThere /\ "HOST" \in Streams
  BY DEF IInv, Streams
<1>2. OlderThanMapped'
  <2> SUFFICES ASSUME NEW s \in Slots, NEW u \in Units, NEW k \in DOMAIN unit'["HOST"][s][u].lpns
               PROVE  LET x == unit'["HOST"][s][u]
                          m == l2v[x.lpns[k]]
                      IN  /\ m \in Addresses /\ m.stream = "HOST"
                          /\ IF m.slot = s THEN x.vppn + k - 1 <= m.page ELSE s # cur["HOST"]
    BY DEF OlderThanMapped
  <2>1. unit'["HOST"][s][u].lpns # <<>>
    OBVIOUS
  <2>2. /\ unit'["HOST"][s][u].vppn = unit["HOST"][s][u].vppn
        /\ unit'["HOST"][s][u].lpns = unit["HOST"][s][u].lpns
    BY <1>1, <2>1
  <2> QED BY <1>1, <2>2 DEF OlderThanMapped
<1>3. MappedIsThere'
  <2> SUFFICES ASSUME NEW y \in LPN, l2v[y] \in Addresses
               PROVE  LET m == l2v[y]
                      IN  m.page < page[m.stream][m.slot] /\ Holds(unit'[m.stream][m.slot], m.page, y)
    BY DEF MappedIsThere
  <2> DEFINE m == l2v[y]
  <2>1. m.page < page[m.stream][m.slot] /\ Holds(unit[m.stream][m.slot], m.page, y)
    BY <1>1 DEF MappedIsThere
  <2>2. m.stream \in Streams /\ m.slot \in Slots
    BY DEF Addresses
  <2>3. ASSUME NEW u \in Units, NEW k, k = m.page - unit'[m.stream][m.slot][u].vppn + 1,
               k \in DOMAIN unit'[m.stream][m.slot][u].lpns
        PROVE  unit'[m.stream][m.slot][u].lpns[k] = y
    <3>1. unit'[m.stream][m.slot][u].lpns # <<>>
      BY <2>3
    <3>2. /\ unit'[m.stream][m.slot][u].vppn = unit[m.stream][m.slot][u].vppn
          /\ unit'[m.stream][m.slot][u].lpns = unit[m.stream][m.slot][u].lpns
      BY <2>2, <3>1
    <3> QED BY <2>1, <2>3, <3>2 DEF Holds
  <2>4. Holds(unit'[m.stream][m.slot], m.page, y)
    BY <2>3 DEF Holds
  <2> QED BY <2>1, <2>4
<1> QED BY <1>2, <1>3

\* The unit being issued is i of slot s, the g-th of the block.
Issued(st, s, i, g, v) ==
  /\ issuing = [stream |-> st, slot |-> s, unit |-> i]
  /\ st \in Streams /\ s \in Slots /\ i \in Units
  /\ s = cur[st] /\ i = ring[st][s]
  /\ ~unit[st][s][i].programming /\ ~unit[st][s][i].free
  /\ Len(unit[st][s][i].lpns) = LpnPerUnit
  /\ unit[st][s][i].vppn = LpnPerUnit * g
  /\ g = Given(st, s) /\ g \in 0..(UnitsPerBlock - 1)
  /\ page[st][s] = LpnPerUnit * g + LpnPerUnit
  /\ v \in UnitType /\ v.programming /\ ~v.free
  /\ v.vppn = unit[st][s][i].vppn /\ v.lpns = unit[st][s][i].lpns
  /\ OnlyUnit(st, s, i, v)
  /\ Len(flight) < RequestCount
  /\ flight' = Append(flight, [at |-> issuing, passed |-> FALSE])
  /\ ring' = [ring EXCEPT ![st][s] = (i + 1) % UnitCount]
  /\ issuing' = NoUnit
  /\ UNCHANGED <<cur, page, hash, l2v>>

LEMMA IssueFacts ==
  ASSUME IInv, IssueProgram
  PROVE  \E st, s, i, g, v : Issued(st, s, i, g, v)
<1>1. PICK st, s, i : st = issuing.stream /\ s = issuing.slot /\ i = issuing.unit
  OBVIOUS
<1>2. /\ issuing # NoUnit /\ Len(flight) < RequestCount
      /\ flight' = Append(flight, [at |-> issuing, passed |-> FALSE])
      /\ unit' = [unit EXCEPT ![st][s][i].programming = TRUE]
      /\ ring' = [ring EXCEPT ![st][s] = (i + 1) % UnitCount]
      /\ issuing' = NoUnit
      /\ UNCHANGED <<cur, page, hash, l2v>>
  BY <1>1 DEF IssueProgram
<1>3. Typed /\ Structure /\ issuing \in Places
  BY <1>2 DEF IInv, Typed, TypeOK, Places
<1>4. /\ st \in Streams /\ s \in Slots /\ i \in Units
      /\ issuing = [stream |-> st, slot |-> s, unit |-> i]
  BY <1>1, <1>3 DEF Places
<1> DEFINE w == unit[st][s][i]
           g == Given(st, s)
           v == [w EXCEPT !.programming = TRUE]
<1>5. s = cur[st] /\ i = ring[st][s] /\ ~w.programming /\ Len(w.lpns) = LpnPerUnit
  BY <1>1, <1>2, <1>3 DEF Structure, IssuingSound, UnitAt
<1>6. w \in UnitType /\ UnitSound(st, s, i)
  BY <1>3, <1>4, TypeFacts DEF Structure
<1>7. w.lpns # <<>> /\ ~w.free
  <2>1. w.lpns # <<>>
    BY <1>5, <1>6, UnitFacts, SizeFacts
  <2> QED BY <1>6, <2>1 DEF UnitSound
<1>8. w.vppn = LpnPerUnit * g
  BY <1>5, <1>6, <1>7 DEF UnitSound
<1>9. /\ g \in 0..UnitsPerBlock /\ page[st][s] = LpnPerUnit * g + Fill(st, s)
      /\ page[st][s] \in 0..BlockEnd
  BY <1>3, <1>4, SlotFacts, TypeFacts
<1>10. Fill(st, s) = LpnPerUnit
  BY <1>5 DEF Fill, Filling
<1>11. g \in 0..(UnitsPerBlock - 1)
  <2>1. g # UnitsPerBlock
    <3> SUFFICES ASSUME g = UnitsPerBlock PROVE FALSE
      OBVIOUS
    <3>1. page[st][s] = BlockEnd + LpnPerUnit
      BY <1>9, <1>10, SizeFacts
    <3> QED BY <1>9, <3>1, SizeFacts
  <2> QED BY <1>9, <2>1, SizeFacts
<1>12. v \in UnitType /\ v.programming /\ ~v.free /\ v.vppn = w.vppn /\ v.lpns = w.lpns
  <2>1. PICK f, o, k, l : /\ w = [free |-> f, programming |-> o, vppn |-> k, lpns |-> l]
                          /\ f \in BOOLEAN /\ k \in PageNos
                          /\ l \in UNION {[1..m -> LPN] : m \in 0..LpnPerUnit}
    BY <1>6 DEF UnitType
  <2>2. v = [free |-> f, programming |-> TRUE, vppn |-> k, lpns |-> l]
    <3>1. PICK z : z = TRUE
      OBVIOUS
    <3>2. v = [w EXCEPT !.programming = z]
      BY <3>1
    <3>3. [[free |-> f, programming |-> o, vppn |-> k, lpns |-> l] EXCEPT !.programming = z]
          = [free |-> f, programming |-> z, vppn |-> k, lpns |-> l]
      <4> HIDE DEF w, v
      <4> QED OBVIOUS
    <3> HIDE DEF w, v
    <3> QED BY <2>1, <3>1, <3>2, <3>3
  <2>3. v \in UnitType
    BY <2>1, <2>2 DEF UnitType
  <2>4. ~f
    BY <1>7, <2>1
  <2> QED BY <2>1, <2>2, <2>3, <2>4
<1>13. unit' = [unit EXCEPT ![st][s][i] = v]
  BY <1>2
<1>14. OnlyUnit(st, s, i, v)
  BY <1>3, <1>4, <1>12, <1>13, UnitUpdate
<1> HIDE DEF w, g, v
<1>15. Issued(st, s, i, g, v)
  BY <1>2, <1>4, <1>5, <1>7, <1>8, <1>9, <1>10, <1>11, <1>12, <1>14 DEF Issued, w, g
<1> QED BY <1>15

\* The ring goes on to a unit that is either free or being programmed.
LEMMA NextUnit ==
  ASSUME NEW i \in Units
  PROVE  LET j == (i + 1) % UnitCount
         IN  j \in Units /\ j # i /\ (j = i + 1 \/ (i = UnitCount - 1 /\ j = 0))
<1>1. UnitCount > 1 /\ i \in Nat /\ i < UnitCount
  BY SizeFacts, ConfigAssumption
<1>2. CASE i + 1 < UnitCount
  <2>1. UnitCount * 0 + (i + 1) = i + 1 /\ i + 1 \in 0..(UnitCount - 1)
    BY <1>1, <1>2, SizeFacts
  <2>2. (i + 1) % UnitCount = i + 1
    BY <2>1, SizeFacts, DivModUnique
  <2> QED BY <1>1, <1>2, <2>2, SizeFacts
<1>3. CASE i + 1 = UnitCount
  <2>1. UnitCount * 1 + 0 = UnitCount /\ 0 \in 0..(UnitCount - 1)
    BY <1>1, SizeFacts
  <2>2. UnitCount % UnitCount = 0
    BY <2>1, SizeFacts, DivModUnique
  <2> QED BY <1>1, <1>3, <2>2, SizeFacts
<1> QED BY <1>1, <1>2, <1>3, SizeFacts

LEMMA IssuedSlots ==
  ASSUME IInv, NEW st, NEW s, NEW i, NEW g, NEW v, Issued(st, s, i, g, v)
  PROVE  /\ Given(st, s)' = g + 1 /\ Fill(st, s)' = 0
         /\ page'[st][s] = LpnPerUnit * (g + 1)
         /\ \A t \in Streams, r \in Slots : ~(t = st /\ r = s) =>
              ring'[t][r] = ring[t][r] /\ Fill(t, r)' = Fill(t, r) /\ Given(t, r)' = Given(t, r)
         /\ ring'[st][s] = (i + 1) % UnitCount
<1>1. Typed /\ Structure /\ st \in Streams /\ s \in Slots /\ i \in Units /\ i = ring[st][s]
      /\ g \in 0..(UnitsPerBlock - 1) /\ page' = page
  BY DEF IInv, Issued
<1>2. PICK j : j = (i + 1) % UnitCount
  OBVIOUS
<1>3. j \in Units /\ j # i
  BY <1>1, <1>2, NextUnit
<1>4. /\ ring'[st][s] = j
      /\ \A t \in Streams, r \in Slots : ~(t = st /\ r = s) => ring'[t][r] = ring[t][r]
  BY <1>1, <1>2 DEF Issued, Typed, TypeOK
<1>5. ASSUME NEW t \in Streams, NEW r \in Slots, ~(t = st /\ r = s)
      PROVE  Fill(t, r)' = Fill(t, r) /\ Given(t, r)' = Given(t, r)
  <2>1. ring[t][r] \in Units
    BY <1>1, TypeFacts
  <2>2. unit'[t][r][ring[t][r]] = unit[t][r][ring[t][r]]
    BY <1>5, <2>1 DEF Issued, OnlyUnit
  <2> QED BY <1>1, <1>4, <1>5, <2>2, SlotFrame
<1>6. Fill(st, s)' = 0
  <2>1. unit'[st][s][j] = unit[st][s][j]
    BY <1>1, <1>3 DEF Issued, OnlyUnit
  <2>2. UnitSound(st, s, j)
    BY <1>1, <1>3 DEF Structure
  <2>3. unit[st][s][j].programming \/ unit[st][s][j].lpns = <<>>
    BY <1>1, <1>3, <2>2 DEF UnitSound
  <2>4. Filling(st, s)' = unit[st][s][j]
    BY <1>4, <2>1 DEF Filling
  <2> QED BY <2>3, <2>4 DEF Fill
<1>7. page'[st][s] = LpnPerUnit * (g + 1)
  <2>1. LpnPerUnit * (g + 1) = LpnPerUnit * g + LpnPerUnit
    BY <1>1, SizeFacts
  <2> QED BY <1>1, <2>1 DEF Issued
<1>8. Given(st, s)' = g + 1
  <2>1. g + 1 \in Nat /\ LpnPerUnit * (g + 1) \in Nat
    BY <1>1, SizeFacts
  <2>2. page'[st][s] = LpnPerUnit * (g + 1) + Fill(st, s)' /\ Fill(st, s)' \in Nat
    BY <1>6, <1>7, <2>1
  <2> QED BY <1>1, <2>1, <2>2, GivenIsNext
<1> QED BY <1>2, <1>4, <1>5, <1>6, <1>7, <1>8

\* The flights after an issue.
LEMMA IssuedFlights ==
  ASSUME IInv, NEW st, NEW s, NEW i, NEW g, NEW v, Issued(st, s, i, g, v)
  PROVE  /\ Len(flight) \in Nat /\ DOMAIN flight = 1..Len(flight)
         /\ DOMAIN flight' = 1..(Len(flight) + 1) /\ Len(flight') = Len(flight) + 1
         /\ \A k \in DOMAIN flight :
              /\ flight'[k] = flight[k]
              /\ flight[k].at # issuing
              /\ UnitAt(flight[k].at)' = UnitAt(flight[k].at)
              /\ PPage(flight[k].at)' = PPage(flight[k].at)
              /\ Die(flight[k].at)' = Die(flight[k].at)
         /\ flight'[Len(flight) + 1] = [at |-> issuing, passed |-> FALSE]
         /\ flight' \in Seq(Flights)
<1>1. Typed /\ Structure /\ st \in Streams /\ s \in Slots /\ i \in Units
      /\ issuing = [stream |-> st, slot |-> s, unit |-> i]
      /\ flight' = Append(flight, [at |-> issuing, passed |-> FALSE])
      /\ ~unit[st][s][i].programming
  BY DEF IInv, Issued
<1>2. flight \in Seq(Flights) /\ [at |-> issuing, passed |-> FALSE] \in Flights
  BY <1>1 DEF Typed, Flights, Places
<1>3. /\ Len(flight) \in Nat /\ DOMAIN flight = 1..Len(flight)
      /\ DOMAIN flight' = 1..(Len(flight) + 1) /\ Len(flight') = Len(flight) + 1
      /\ \A k \in DOMAIN flight : flight'[k] = flight[k]
      /\ flight'[Len(flight) + 1] = [at |-> issuing, passed |-> FALSE]
      /\ flight' \in Seq(Flights)
  BY <1>1, <1>2
<1>4. ASSUME NEW k \in DOMAIN flight
      PROVE  /\ flight[k].at # issuing
             /\ UnitAt(flight[k].at)' = UnitAt(flight[k].at)
             /\ PPage(flight[k].at)' = PPage(flight[k].at)
             /\ Die(flight[k].at)' = Die(flight[k].at)
  <2> DEFINE a == flight[k].at
  <2>1. a.stream \in Streams /\ a.slot \in Slots /\ a.unit \in Units
        /\ unit[a.stream][a.slot][a.unit].programming
    BY <1>1, FlightFacts
  <2>2. ~(a.stream = st /\ a.slot = s /\ a.unit = i)
    BY <1>1, <2>1
  <2>3. unit'[a.stream][a.slot][a.unit] = unit[a.stream][a.slot][a.unit]
    BY <2>1, <2>2 DEF Issued, OnlyUnit
  <2>4. flight'[k].at = a
    BY <1>3
  <2>5. UnitAt(flight[k].at)' = UnitAt(a)
    BY <2>3, <2>4 DEF UnitAt
  <2> QED BY <1>1, <2>2, <2>5 DEF PPage, Die
<1> QED BY <1>3, <1>4

LEMMA IssuedStructure ==
  ASSUME IInv, NEW st, NEW s, NEW i, NEW g, NEW v, Issued(st, s, i, g, v)
  PROVE  Structure'
<1>1. /\ Typed /\ Structure /\ st \in Streams /\ s \in Slots /\ i \in Units /\ i = ring[st][s]
      /\ g \in 0..(UnitsPerBlock - 1) /\ page' = page /\ cur' = cur /\ s = cur[st]
      /\ g = Given(st, s) /\ issuing' = NoUnit /\ Len(flight) < RequestCount
      /\ issuing = [stream |-> st, slot |-> s, unit |-> i]
  BY DEF IInv, Issued
<1>2. /\ Given(st, s)' = g + 1 /\ Fill(st, s)' = 0
      /\ page'[st][s] = LpnPerUnit * (g + 1)
      /\ \A t \in Streams, r \in Slots : ~(t = st /\ r = s) =>
           ring'[t][r] = ring[t][r] /\ Fill(t, r)' = Fill(t, r) /\ Given(t, r)' = Given(t, r)
      /\ ring'[st][s] = (i + 1) % UnitCount
  BY IssuedSlots
<1>3. PICK j : /\ ring'[st][s] = j /\ j \in Units /\ j # i
               /\ (j = i + 1 \/ (i = UnitCount - 1 /\ j = 0))
  BY <1>1, <1>2, NextUnit
<1>4. /\ Len(flight) \in Nat /\ DOMAIN flight = 1..Len(flight)
      /\ DOMAIN flight' = 1..(Len(flight) + 1) /\ Len(flight') = Len(flight) + 1
      /\ \A k \in DOMAIN flight :
           /\ flight'[k] = flight[k] /\ flight[k].at # issuing
           /\ UnitAt(flight[k].at)' = UnitAt(flight[k].at)
      /\ flight'[Len(flight) + 1] = [at |-> issuing, passed |-> FALSE]
  BY IssuedFlights
<1>5. g \in Nat /\ i \in Nat /\ j \in Nat /\ i < UnitCount /\ j < UnitCount /\ UnitCount \in Nat
  BY <1>1, <1>3, SizeFacts
<1>6. ASSUME NEW t \in Streams, NEW r \in Slots
      PROVE  SlotSound(t, r)'
  <2>1. CASE t = st /\ r = s
    <3>1. g + 1 \in 0..UnitsPerBlock
      BY <1>1, SizeFacts
    <3>2. LpnPerUnit * (g + 1) + 0 = LpnPerUnit * (g + 1)
      BY <1>5, SizeFacts
    <3> QED BY <1>1, <1>2, <2>1, <3>1, <3>2, SizeFacts DEF SlotSound
  <2>2. CASE ~(t = st /\ r = s)
    <3>1. issuing # [stream |-> t, slot |-> r, unit |-> ring[t][r]]
      BY <1>1, <2>2
    <3>2. /\ Given(t, r) \in 0..UnitsPerBlock /\ Fill(t, r) \in 0..LpnPerUnit
          /\ page[t][r] = LpnPerUnit * Given(t, r) + Fill(t, r)
          /\ r # cur[t] => page[t][r] = BlockEnd
          /\ Fill(t, r) < LpnPerUnit
      BY <1>1, <3>1, SlotFacts
    <3>3. Fill(t, r) # LpnPerUnit
      BY <3>2, SizeFacts
    <3> QED BY <1>1, <1>2, <2>2, <3>2, <3>3 DEF SlotSound
  <2> QED BY <2>1, <2>2
<1>7. ASSUME NEW a, InFlight(a)
      PROVE  InFlight(a)'
  <2>1. PICK k \in DOMAIN flight : flight[k].at = a
    BY <1>7 DEF InFlight
  <2>2. k \in DOMAIN flight' /\ flight'[k].at = a
    BY <1>4, <2>1
  <2> QED BY <2>2 DEF InFlight
<1>8. ASSUME NEW t \in Streams, NEW r \in Slots, NEW u \in Units
      PROVE  UnitSound(t, r, u)'
  <2>1. UnitSound(t, r, u)
    BY <1>1 DEF Structure
  <2>2. CASE ~(t = st /\ r = s)
    <3>1. unit'[t][r][u] = unit[t][r][u]
      BY <2>2 DEF Issued, OnlyUnit
    <3> QED BY <1>2, <1>7, <2>1, <2>2, <3>1 DEF UnitSound
  <2>3. CASE t = st /\ r = s /\ u = i
    <3>1. /\ unit'[t][r][u] = v /\ v.programming /\ ~v.free
          /\ Len(v.lpns) = LpnPerUnit /\ v.vppn = LpnPerUnit * g
      BY <2>3 DEF Issued, OnlyUnit
    <3>2. InFlight([stream |-> t, slot |-> r, unit |-> u])'
      <4>1. Len(flight) + 1 \in DOMAIN flight'
        BY <1>4
      <4>2. flight'[Len(flight) + 1].at = [stream |-> t, slot |-> r, unit |-> u]
        BY <1>1, <1>4, <2>3
      <4> QED BY <4>1, <4>2 DEF InFlight
    <3>3. /\ g \in 0..((g + 1) - 1) /\ (g + 1) - g <= UnitCount
          /\ \/ u + ((g + 1) - g) = j
             \/ u + ((g + 1) - g) = j + UnitCount
      BY <1>3, <1>5, <2>3
    <3> QED BY <1>2, <1>3, <2>3, <3>1, <3>2, <3>3 DEF UnitSound
  <2>4. CASE t = st /\ r = s /\ u # i
    <3>1. unit'[t][r][u] = unit[t][r][u]
      BY <2>4 DEF Issued, OnlyUnit
    <3>2. unit[t][r][u].programming \/ unit[t][r][u].free
      BY <1>1, <2>1, <2>4 DEF UnitSound
    <3>3. CASE ~unit[t][r][u].programming
      BY <2>1, <3>1, <3>2, <3>3 DEF UnitSound
    <3>4. CASE unit[t][r][u].programming
      <4>1. /\ ~unit[t][r][u].free /\ Len(unit[t][r][u].lpns) = LpnPerUnit
            /\ InFlight([stream |-> t, slot |-> r, unit |-> u])
        BY <2>1, <3>4 DEF UnitSound
      <4>2. PICK q \in 0..(Given(t, r) - 1) :
                 /\ unit[t][r][u].vppn = LpnPerUnit * q
                 /\ Given(t, r) - q <= UnitCount
                 /\ \/ u + (Given(t, r) - q) = ring[t][r]
                    \/ u + (Given(t, r) - q) = ring[t][r] + UnitCount
        BY <2>1, <3>4 DEF UnitSound
      <4>3. /\ q \in 0..(g - 1) /\ g - q <= UnitCount
            /\ u + (g - q) = i \/ u + (g - q) = i + UnitCount
            /\ u \in Nat /\ u < UnitCount
        BY <1>1, <2>4, <4>2, SizeFacts
      <4>4. q \in 0..((g + 1) - 1) /\ (g + 1) - q <= UnitCount
        BY <1>5, <2>4, <4>3
      <4>5. u + ((g + 1) - q) = j \/ u + ((g + 1) - q) = j + UnitCount
        BY <1>3, <1>5, <4>3, <4>4
      <4>6. InFlight([stream |-> t, slot |-> r, unit |-> u])'
        BY <1>7, <4>1
      <4> QED BY <1>2, <1>3, <2>4, <3>1, <3>4, <4>1, <4>2, <4>4, <4>5, <4>6 DEF UnitSound
    <3> QED BY <3>3, <3>4
  <2> QED BY <2>2, <2>3, <2>4
<1>9. FlightSound'
  <2>1. FlightSound
    BY <1>1 DEF Structure
  <2>2. Len(flight') <= RequestCount
    BY <1>1, <1>4, SizeFacts
  <2>3. ASSUME NEW k \in DOMAIN flight'
        PROVE  UnitAt(flight[k].at)'.programming
    <3>1. CASE k \in DOMAIN flight
      BY <1>4, <2>1, <3>1 DEF FlightSound
    <3>2. CASE k = Len(flight) + 1
      <4>1. flight'[k].at = [stream |-> st, slot |-> s, unit |-> i]
        BY <1>1, <1>4, <3>2
      <4>2. unit'[st][s][i] = v /\ v.programming
        BY DEF Issued, OnlyUnit
      <4> QED BY <4>1, <4>2 DEF UnitAt
    <3> QED BY <1>4, <3>1, <3>2
  <2>4. ASSUME NEW k \in DOMAIN flight', NEW m \in DOMAIN flight', flight'[k].at = flight'[m].at
        PROVE  k = m
    BY <1>4, <2>1, <2>4 DEF FlightSound
  <2> QED BY <2>2, <2>3, <2>4 DEF FlightSound
<1>10. IssuingSound'
  BY <1>1 DEF IssuingSound
<1> QED BY <1>6, <1>8, <1>9, <1>10 DEF Structure

\* What is given to the FIL is the last of its stream.
LEMMA IssuedOrder ==
  ASSUME IInv, NEW st, NEW s, NEW i, NEW g, NEW v, Issued(st, s, i, g, v)
  PROVE  InOrder' /\ PassedOnce'
<1>1. /\ Typed /\ Structure /\ InOrder /\ PassedOnce
      /\ st \in Streams /\ s \in Slots /\ i \in Units
      /\ g \in 0..(UnitsPerBlock - 1) /\ cur' = cur /\ s = cur[st]
      /\ g = Given(st, s) /\ g \in Nat
      /\ issuing = [stream |-> st, slot |-> s, unit |-> i]
  BY SizeFacts DEF IInv, Issued
<1>2. /\ Given(st, s)' = g + 1
      /\ \A t \in Streams, r \in Slots : ~(t = st /\ r = s) => Given(t, r)' = Given(t, r)
  BY IssuedSlots
<1>3. PICK L : L = Len(flight)
  OBVIOUS
<1>4. /\ L \in Nat /\ DOMAIN flight = 1..L /\ DOMAIN flight' = 1..(L + 1)
      /\ \A k \in DOMAIN flight :
           /\ flight'[k] = flight[k]
           /\ PPage(flight[k].at)' = PPage(flight[k].at)
           /\ Die(flight[k].at)' = Die(flight[k].at)
      /\ flight'[L + 1] = [at |-> issuing, passed |-> FALSE]
  BY <1>3, IssuedFlights
<1>5. flight'[L + 1].at = issuing /\ flight'[L + 1].passed = FALSE
  BY <1>4
<1>6. PPage(flight[L + 1].at)' = g
  <2>1. unit'[st][s][i].vppn = LpnPerUnit * g
    BY DEF Issued, OnlyUnit
  <2>2. UnitAt(flight[L + 1].at)' = unit'[st][s][i]
    BY <1>1, <1>5 DEF UnitAt
  <2> QED BY <1>1, <2>1, <2>2, MulDiv, SizeFacts DEF PPage
<1>7. ASSUME NEW k \in DOMAIN flight
      PROVE  /\ flight[k].at.stream \in Streams /\ flight[k].at.slot \in Slots
             /\ PPage(flight[k].at) \in 0..(Given(flight[k].at.stream, flight[k].at.slot) - 1)
             /\ PPage(flight[k].at) \in Nat
  <2>1. /\ flight[k].at.stream \in Streams /\ flight[k].at.slot \in Slots
        /\ PPage(flight[k].at) \in 0..(Given(flight[k].at.stream, flight[k].at.slot) - 1)
        /\ PPage(flight[k].at) \in 0..(UnitsPerBlock - 1)
    BY <1>1, FlightFacts
  <2> QED BY <2>1, SizeFacts
<1>8. InOrder'
  <2> SUFFICES ASSUME NEW j \in DOMAIN flight', NEW k \in DOMAIN flight',
                      j < k, flight'[j].at.stream = flight'[k].at.stream
               PROVE  IF flight'[j].at.slot = flight'[k].at.slot
                      THEN PPage(flight[j].at)' < PPage(flight[k].at)'
                      ELSE flight'[j].at.slot # cur[flight'[j].at.stream]
    BY <1>1 DEF InOrder
  <2>1. j \in DOMAIN flight
    BY <1>4
  <2>2. CASE k \in DOMAIN flight
    BY <1>1, <1>4, <2>1, <2>2 DEF InOrder
  <2>3. CASE k = L + 1
    <3>1. flight'[k].at.slot = s /\ flight'[k].at.stream = st
      BY <1>1, <1>5, <2>3
    <3>2. flight'[j].at = flight[j].at /\ flight[j].at.stream = st
      BY <1>4, <2>1, <3>1
    <3>3. CASE flight[j].at.slot = s
      <4>1. PPage(flight[j].at) \in 0..(g - 1)
        BY <1>1, <1>7, <2>1, <3>2, <3>3
      <4>2. PPage(flight[j].at) < g
        BY <1>1, <4>1
      <4> QED BY <1>4, <1>6, <2>1, <2>3, <3>1, <3>2, <3>3, <4>2
    <3>4. CASE flight[j].at.slot # s
      BY <1>1, <3>1, <3>2, <3>4
    <3> QED BY <3>3, <3>4
  <2> QED BY <1>4, <2>2, <2>3
<1>9. ASSUME NEW k \in DOMAIN flight, NEW a, a = flight[k].at, NEW x, x \in After(a)'
      PROVE  x \in After(a) \/ (a.stream = st /\ x[1] = s /\ x[2] = g)
  <2>1. /\ x \in Slots \X (0..(UnitsPerBlock - 1)) /\ x[1] \in Slots
        /\ x[2] \in 0..(UnitsPerBlock - 1) /\ x[2] \in Nat
    <3>1. /\ x \in Slots \X (0..(UnitsPerBlock - 1)) /\ x[1] \in Slots
          /\ x[2] \in 0..(UnitsPerBlock - 1)
      BY <1>9 DEF After
    <3> QED BY <3>1, SizeFacts
  <2>2. PPage(a)' = PPage(a) /\ Die(a)' = Die(a)
    <3>1. UnitAt(a)' = UnitAt(a)
      <4>1. flight'[k].at = a
        BY <1>4, <1>9
      <4>2. UnitAt(flight[k].at)' = UnitAt(a)
        BY <1>9, IssuedFlights
      <4> QED BY <4>1, <4>2 DEF UnitAt
    <3> QED BY <3>1 DEF PPage, Die
  <2>3. /\ x[2] < Given(a.stream, x[1])' /\ x[2] % Dies = Die(a)
        /\ IF x[1] = a.slot THEN PPage(a) < x[2] ELSE x[1] = cur[a.stream]
    BY <1>1, <1>9, <2>2 DEF After
  <2>4. CASE a.stream = st /\ x[1] = s
    <3>1. x[2] < g + 1
      BY <1>2, <2>3, <2>4
    <3>2. x[2] < g \/ x[2] = g
      BY <1>1, <2>1, <3>1
    <3> QED BY <1>1, <2>1, <2>3, <2>4, <3>2 DEF After
  <2>5. CASE ~(a.stream = st /\ x[1] = s)
    <3>1. a.stream \in Streams
      BY <1>7, <1>9
    <3>2. Given(a.stream, x[1])' = Given(a.stream, x[1])
      BY <1>2, <2>1, <2>5, <3>1
    <3> QED BY <2>1, <2>3, <3>2 DEF After
  <2> QED BY <2>4, <2>5
<1>10. ASSUME NEW t, NEW x, StillIn(t, x)
       PROVE  StillIn(t, x)'
  <2>1. PICK k \in DOMAIN flight : /\ flight[k].at.stream = t /\ flight[k].at.slot = x[1]
                                   /\ PPage(flight[k].at) = x[2]
    BY <1>10 DEF StillIn
  <2>2. k \in DOMAIN flight' /\ flight'[k] = flight[k] /\ PPage(flight[k].at)' = x[2]
    BY <1>4, <2>1
  <2> QED BY <2>1, <2>2 DEF StillIn
<1>11. ASSUME NEW x, x[1] = s, x[2] = g
       PROVE  StillIn(st, x)'
  <2>1. L + 1 \in DOMAIN flight' /\ flight'[L + 1].at.stream = st /\ flight'[L + 1].at.slot = s
    BY <1>1, <1>4, <1>5
  <2> QED BY <1>6, <1>11, <2>1 DEF StillIn
<1>12. PassedOnce'
  <2> SUFFICES ASSUME NEW k \in DOMAIN flight'
               PROVE  /\ \A x, y \in After(flight[k].at)' :
                           ~StillIn(flight[k].at.stream, x)' /\ ~StillIn(flight[k].at.stream, y)'
                             => x = y /\ flight'[k].passed
                      /\ flight'[k].passed => PPage(flight[k].at)' < Dies /\ RequestCount > 1
    BY DEF PassedOnce
  <2>1. CASE k \in DOMAIN flight
    <3> PICK a : a = flight[k].at
      OBVIOUS
    <3>1. /\ \A x, y \in After(a) :
               ~StillIn(a.stream, x) /\ ~StillIn(a.stream, y) => x = y /\ flight[k].passed
          /\ flight[k].passed => PPage(a) < Dies /\ RequestCount > 1
      BY <1>1, <2>1 DEF PassedOnce
    <3>2. ASSUME NEW x \in After(a)', ~StillIn(a.stream, x)'
          PROVE  x \in After(a) /\ ~StillIn(a.stream, x)
      BY <1>9, <1>10, <1>11, <2>1, <3>2
    <3>3. \A x, y \in After(a)' :
            ~StillIn(a.stream, x)' /\ ~StillIn(a.stream, y)' => x = y /\ flight[k].passed
      BY <3>1, <3>2
    <3>4. flight'[k] = flight[k] /\ PPage(flight[k].at)' = PPage(flight[k].at)
      BY <1>4, <2>1
    <3>5. After(flight[k].at)' = After(a)'
      BY <3>4 DEF After, PPage, Die, UnitAt
    <3>6. \A x : StillIn(flight[k].at.stream, x)' <=> StillIn(a.stream, x)'
      BY <3>4 DEF StillIn
    <3> QED BY <3>1, <3>3, <3>4, <3>5, <3>6
  <2>2. CASE k = L + 1
    <3>1. ASSUME NEW x \in After(flight[k].at)'
          PROVE  FALSE
      <4>1. /\ x[1] \in Slots /\ x[2] \in 0..(UnitsPerBlock - 1) /\ x[2] < Given(st, x[1])'
            /\ IF x[1] = s THEN g < x[2] ELSE x[1] = cur[st]
        BY <1>1, <1>5, <1>6, <2>2 DEF After
      <4>2. x[1] = s /\ g < x[2] /\ x[2] < g + 1
        BY <1>1, <1>2, <4>1
      <4> QED BY <1>1, <4>1, <4>2, SizeFacts
    <3> QED BY <1>5, <2>2, <3>1
  <2> QED BY <1>4, <2>1, <2>2
<1> QED BY <1>8, <1>12

\* ACTIVE_BLOCK::_IssueProgram.
LEMMA IssueInv ==
  ASSUME IInv, IssueProgram
  PROVE  IInv'
<1>1. PICK st, s, i, g, v : Issued(st, s, i, g, v)
  BY IssueFacts
<1>2. /\ Typed /\ HashExact /\ st \in Streams /\ s \in Slots /\ i \in Units
      /\ UNCHANGED <<cur, page, hash, l2v>> /\ issuing' = NoUnit
      /\ ring' = [ring EXCEPT ![st][s] = (i + 1) % UnitCount]
      /\ v.vppn = unit[st][s][i].vppn /\ v.lpns = unit[st][s][i].lpns
  BY <1>1 DEF IInv, Issued
<1>3. ASSUME NEW t \in Streams, NEW r \in Slots, NEW u \in Units
      PROVE  unit'[t][r][u].vppn = unit[t][r][u].vppn /\ unit'[t][r][u].lpns = unit[t][r][u].lpns
  <2>1. CASE t = st /\ r = s /\ u = i
    BY <1>1, <1>2, <2>1 DEF Issued, OnlyUnit
  <2>2. CASE ~(t = st /\ r = s /\ u = i)
    BY <1>1, <2>2 DEF Issued, OnlyUnit
  <2> QED BY <2>1, <2>2
<1>4. Structure' /\ InOrder' /\ PassedOnce'
  BY <1>1, IssuedStructure, IssuedOrder
<1>5. OlderThanMapped' /\ MappedIsThere'
  BY <1>2, <1>3, FewerPages
<1>6. HashExact'
  <2>1. \A r \in Slots, u \in Units : unit'["HOST"][r][u].lpns = unit["HOST"][r][u].lpns
    BY <1>3 DEF Streams
  <2>2. \A b : BucketPlaces(unit'["HOST"], b) = BucketPlaces(unit["HOST"], b)
    BY <2>1 DEF BucketPlaces
  <2> QED BY <1>2, <2>2, HashIs, HashIsNext
<1>7. Typed'
  <2>1. unit' \in [Streams -> [Slots -> [Units -> UnitType]]]
    BY <1>1 DEF Issued, OnlyUnit
  <2>2. ring' \in [Streams -> [Slots -> Units]]
    <3>1. (i + 1) % UnitCount \in Units
      BY <1>2, NextUnit
    <3> QED BY <1>2, <3>1 DEF Typed, TypeOK
  <2>3. flight' \in Seq(Flights)
    BY <1>1, IssuedFlights
  <2>4. \A k \in DOMAIN flight' :
          flight'[k] \in [at : [stream : Streams, slot : Slots, unit : Units], passed : BOOLEAN]
    <3>1. \A k \in DOMAIN flight' : flight'[k] \in Flights
      BY <2>3
    <3> QED BY <3>1 DEF Flights, Places
  <2>5. TypeOK'
    BY <1>2, <2>1, <2>2, <2>4 DEF Typed, TypeOK
  <2> QED BY <2>1, <2>3, <2>5 DEF Typed
<1> QED BY <1>4, <1>5, <1>6, <1>7 DEF IInv

(***************************************************************************)
(* The end of a program.                                                   *)
(***************************************************************************)

\* The program in flight at e, of unit u of slot s, ends.
Ended(e, st, s, u) ==
  /\ e \in DOMAIN flight /\ flight[e].at = [stream |-> st, slot |-> s, unit |-> u]
  /\ st \in Streams /\ s \in Slots /\ u \in Units
  /\ unit[st][s][u].programming
  /\ Finishable(e)
  /\ OnlyUnit(st, s, u, FreeUnit)
  /\ hash' = HashRemove(st, unit[st][s][u].lpns)
  /\ flight' = Remaining(e)
  /\ UNCHANGED <<cur, page, ring, l2v, issuing>>

LEMMA EndFacts ==
  ASSUME IInv, NEW e \in DOMAIN flight, ProgramDone(e)
  PROVE  \E st, s, u : Ended(e, st, s, u)
<1>1. PICK a, st, s, u : a = flight[e].at /\ st = a.stream /\ s = a.slot /\ u = a.unit
  OBVIOUS
<1>2. Typed /\ Structure
  BY DEF IInv
<1>3. /\ st \in Streams /\ s \in Slots /\ u \in Units
      /\ a = [stream |-> st, slot |-> s, unit |-> u] /\ unit[st][s][u].programming
  BY <1>1, <1>2, FlightFacts
<1>4. /\ Finishable(e)
      /\ hash' = HashRemove(st, unit[st][s][u].lpns)
      /\ unit' = [unit EXCEPT ![st][s][u] = FreeUnit]
      /\ flight' = Remaining(e)
      /\ UNCHANGED <<cur, page, ring, l2v, issuing>>
  BY <1>1, <1>3 DEF ProgramDone, UnitAt
<1>5. FreeUnit \in UnitType
  <2>1. 0 \in PageNos
    <3>1. BlockEnd # 0
      BY SizeFacts
    <3> QED BY <3>1, SizeFacts DEF PageNos
  <2>2. <<>> \in LpnLists
    <3>1. PICK l : l = <<>>
      OBVIOUS
    <3>2. l \in Seq(LPN) /\ Len(l) = 0
      BY <3>1
    <3>3. Len(l) <= LpnPerUnit
      BY <3>2, SizeFacts
    <3> QED BY <3>1, <3>2, <3>3, LpnsFacts
  <2> QED BY <2>1, <2>2 DEF FreeUnit, UnitType, LpnLists
<1>6. OnlyUnit(st, s, u, FreeUnit)
  BY <1>2, <1>3, <1>4, <1>5, UnitUpdate
<1>7. Ended(e, st, s, u)
  BY <1>1, <1>3, <1>4, <1>6 DEF Ended
<1> QED BY <1>7

\* The place in flight before flight[e] ended.
Old(e, k) == IF k >= e THEN k + 1 ELSE k

LEMMA EndedFlights ==
  ASSUME IInv, NEW e, NEW st, NEW s, NEW u, Ended(e, st, s, u)
  PROVE  /\ Len(flight) \in Nat /\ e \in 1..Len(flight) /\ DOMAIN flight = 1..Len(flight)
         /\ DOMAIN flight' = 1..(Len(flight) - 1) /\ Len(flight') = Len(flight) - 1
         /\ flight' \in Seq(Flights)
         /\ \A k \in DOMAIN flight' :
              /\ Old(e, k) \in DOMAIN flight /\ Old(e, k) # e
              /\ flight'[k].at = flight[Old(e, k)].at
              /\ flight[Old(e, k)].passed => flight'[k].passed
              /\ flight'[k].passed => flight[Old(e, k)].passed \/ Old(e, k) \in Ahead(e)
              /\ Old(e, k) \in Ahead(e) => flight'[k].passed
         /\ \A k, m \in DOMAIN flight' : /\ k < m => Old(e, k) < Old(e, m)
                                         /\ Old(e, k) = Old(e, m) => k = m
         /\ \A m \in DOMAIN flight : m # e => \E k \in DOMAIN flight' : Old(e, k) = m
<1>1. flight \in Seq(Flights) /\ e \in DOMAIN flight
  BY DEF IInv, Ended, Typed
<1>2. PICK L : L = Len(flight)
  OBVIOUS
<1>3. L \in Nat /\ DOMAIN flight = 1..L /\ e \in 1..L /\ L - 1 \in Nat
  BY <1>1, <1>2
<1>4. flight' = [k \in 1..(L - 1) |->
                   IF k >= e THEN flight[k + 1]
                   ELSE [flight[k] EXCEPT !.passed = @ \/ k \in Ahead(e)]]
  BY <1>2 DEF Ended, Remaining
<1>5. ASSUME NEW k \in 1..(L - 1)
      PROVE  /\ Old(e, k) \in DOMAIN flight /\ Old(e, k) # e
             /\ flight'[k] \in Flights
             /\ flight'[k].at = flight[Old(e, k)].at
             /\ flight[Old(e, k)].passed => flight'[k].passed
             /\ flight'[k].passed => flight[Old(e, k)].passed \/ Old(e, k) \in Ahead(e)
             /\ Old(e, k) \in Ahead(e) => flight'[k].passed
  <2>1. k \in 1..L /\ k + 1 \in 1..L /\ k \in Nat
    BY <1>3
  <2>2. CASE k >= e
    <3>1. Old(e, k) = k + 1 /\ k + 1 # e /\ k + 1 \notin Ahead(e)
      BY <1>3, <2>1, <2>2 DEF Old, Ahead
    <3>2. flight'[k] = flight[k + 1] /\ flight[k + 1] \in Flights
      BY <1>1, <1>3, <1>4, <2>1, <2>2
    <3> QED BY <1>3, <2>1, <3>1, <3>2
  <2>3. CASE ~(k >= e)
    <3>1. Old(e, k) = k /\ k # e
      BY <1>3, <2>1, <2>3 DEF Old
    <3>2. flight'[k] = [flight[k] EXCEPT !.passed = @ \/ k \in Ahead(e)] /\ flight[k] \in Flights
      BY <1>1, <1>3, <1>4, <2>1, <2>3
    <3>3. PICK f : f = flight[k]
      OBVIOUS
    <3>4. PICK p : p = (f.passed \/ k \in Ahead(e))
      OBVIOUS
    <3>5. f \in Flights /\ f.passed \in BOOLEAN /\ p \in BOOLEAN
      BY <3>2, <3>3, <3>4 DEF Flights
    <3>6. flight'[k] = [f EXCEPT !.passed = p]
      BY <3>2, <3>3, <3>4
    <3>7. flight'[k].at = f.at /\ flight'[k].passed = p /\ flight'[k] \in Flights
      BY <3>5, <3>6 DEF Flights
    <3> QED BY <1>3, <2>1, <3>1, <3>3, <3>4, <3>7
  <2> QED BY <2>2, <2>3
<1>6. DOMAIN flight' = 1..(L - 1) /\ flight' \in Seq(Flights) /\ Len(flight') = L - 1
  <2>1. flight' \in [1..(L - 1) -> Flights]
    BY <1>4, <1>5
  <2> QED BY <1>3, <2>1
<1>7. ASSUME NEW k \in 1..(L - 1), NEW m \in 1..(L - 1)
      PROVE  (k < m => Old(e, k) < Old(e, m)) /\ (Old(e, k) = Old(e, m) => k = m)
  BY <1>3 DEF Old
<1>8. ASSUME NEW m \in 1..L, m # e
      PROVE  \E k \in 1..(L - 1) : Old(e, k) = m
  <2>1. CASE m < e
    <3>1. m \in 1..(L - 1) /\ Old(e, m) = m
      BY <1>3, <2>1 DEF Old
    <3> QED BY <3>1
  <2>2. CASE m > e
    <3>1. m - 1 \in 1..(L - 1) /\ Old(e, m - 1) = m
      BY <1>3, <2>2 DEF Old
    <3> QED BY <3>1
  <2> QED BY <1>3, <1>8, <2>1, <2>2
<1> QED BY <1>2, <1>3, <1>5, <1>6, <1>7, <1>8

\* The slots and what is still in flight after the end of a program.
LEMMA EndedSlots ==
  ASSUME IInv, NEW e, NEW st, NEW s, NEW u, Ended(e, st, s, u)
  PROVE  /\ \A t \in Streams, r \in Slots : Fill(t, r)' = Fill(t, r) /\ Given(t, r)' = Given(t, r)
         /\ \A m \in DOMAIN flight : m # e =>
              LET a == flight[m].at
              IN  /\ a.stream \in Streams /\ a.slot \in Slots /\ a.unit \in Units
                  /\ unit'[a.stream][a.slot][a.unit] = unit[a.stream][a.slot][a.unit]
<1>1. /\ Typed /\ Structure /\ st \in Streams /\ s \in Slots /\ u \in Units
      /\ UNCHANGED <<cur, page, ring>> /\ unit[st][s][u].programming
      /\ e \in DOMAIN flight /\ flight[e].at = [stream |-> st, slot |-> s, unit |-> u]
  BY DEF IInv, Ended
<1>2. ASSUME NEW t \in Streams, NEW r \in Slots
      PROVE  Fill(t, r)' = Fill(t, r) /\ Given(t, r)' = Given(t, r)
  <2>1. CASE t = st /\ r = s /\ ring[t][r] = u
    <3>1. Filling(t, r)' = FreeUnit
      BY <1>1, <2>1 DEF Filling, Ended, OnlyUnit
    <3>2. FreeUnit.programming = FALSE /\ Len(FreeUnit.lpns) = 0
      BY DEF FreeUnit
    <3>3. Fill(t, r)' = 0
      BY <3>1, <3>2 DEF Fill
    <3>4. Fill(t, r) = 0
      BY <1>1, <2>1 DEF Fill, Filling
    <3> QED BY <1>1, <3>3, <3>4 DEF Given
  <2>2. CASE ~(t = st /\ r = s /\ ring[t][r] = u)
    <3>1. ring[t][r] \in Units
      BY <1>1, TypeFacts
    <3>2. unit'[t][r][ring[t][r]] = unit[t][r][ring[t][r]]
      BY <2>2, <3>1 DEF Ended, OnlyUnit
    <3> QED BY <1>1, <3>2, SlotFrame
  <2> QED BY <2>1, <2>2
<1>3. ASSUME NEW m \in DOMAIN flight, m # e
      PROVE  LET a == flight[m].at
             IN  /\ a.stream \in Streams /\ a.slot \in Slots /\ a.unit \in Units
                 /\ unit'[a.stream][a.slot][a.unit] = unit[a.stream][a.slot][a.unit]
  <2>1. /\ flight[m].at.stream \in Streams /\ flight[m].at.slot \in Slots
        /\ flight[m].at.unit \in Units
        /\ flight[m].at = [stream |-> flight[m].at.stream, slot |-> flight[m].at.slot,
                           unit |-> flight[m].at.unit]
    BY <1>1, FlightFacts
  <2>2. flight[m].at # flight[e].at
    BY <1>1, <1>3 DEF Structure, FlightSound
  <2>3. ~(flight[m].at.stream = st /\ flight[m].at.slot = s /\ flight[m].at.unit = u)
    BY <1>1, <2>1, <2>2
  <2> QED BY <2>1, <2>3 DEF Ended, OnlyUnit
<1> QED BY <1>2, <1>3

\* Of the units that are still in flight, nothing changes.
LEMMA EndedUnits ==
  ASSUME IInv, NEW e, NEW st, NEW s, NEW u, Ended(e, st, s, u),
         NEW m \in DOMAIN flight, m # e, NEW a, a = flight[m].at
  PROVE  UnitAt(a)' = UnitAt(a) /\ PPage(a)' = PPage(a) /\ Die(a)' = Die(a)
<1>1. unit'[a.stream][a.slot][a.unit] = unit[a.stream][a.slot][a.unit]
  BY EndedSlots
<1>2. UnitAt(a)' = UnitAt(a)
  BY <1>1 DEF UnitAt
<1> QED BY <1>2 DEF PPage, Die

LEMMA EndedStructure ==
  ASSUME IInv, NEW e, NEW st, NEW s, NEW u, Ended(e, st, s, u)
  PROVE  Structure'
<1>1. /\ Typed /\ Structure /\ st \in Streams /\ s \in Slots /\ u \in Units
      /\ UNCHANGED <<cur, page, ring, issuing>> /\ unit[st][s][u].programming
      /\ flight[e].at = [stream |-> st, slot |-> s, unit |-> u]
  BY DEF IInv, Ended
<1>2. \A t \in Streams, r \in Slots : Fill(t, r)' = Fill(t, r) /\ Given(t, r)' = Given(t, r)
  BY EndedSlots
<1>3. /\ Len(flight) \in Nat /\ DOMAIN flight = 1..Len(flight) /\ Len(flight') = Len(flight) - 1
      /\ \A k \in DOMAIN flight' :
           /\ Old(e, k) \in DOMAIN flight /\ Old(e, k) # e
           /\ flight'[k].at = flight[Old(e, k)].at
      /\ \A k, m \in DOMAIN flight' : Old(e, k) = Old(e, m) => k = m
      /\ \A m \in DOMAIN flight : m # e => \E k \in DOMAIN flight' : Old(e, k) = m
  BY EndedFlights
<1>4. ASSUME NEW t \in Streams, NEW r \in Slots
      PROVE  SlotSound(t, r)'
  <2>1. SlotSound(t, r)
    BY <1>1 DEF Structure
  <2> QED BY <1>1, <1>2, <2>1 DEF SlotSound
<1>5. ASSUME NEW a, InFlight(a), a # flight[e].at
      PROVE  InFlight(a)'
  <2>1. PICK m \in DOMAIN flight : flight[m].at = a
    BY <1>5 DEF InFlight
  <2>2. PICK k \in DOMAIN flight' : Old(e, k) = m
    BY <1>3, <1>5, <2>1
  <2>3. flight'[k].at = a
    BY <1>3, <2>1, <2>2
  <2> QED BY <2>3 DEF InFlight
<1>6. ASSUME NEW t \in Streams, NEW r \in Slots, NEW v \in Units
      PROVE  UnitSound(t, r, v)'
  <2>1. CASE t = st /\ r = s /\ v = u
    <3>1. unit'[t][r][v] = FreeUnit
      BY <2>1 DEF Ended, OnlyUnit
    <3>2. FreeUnit.free /\ ~FreeUnit.programming /\ FreeUnit.lpns = <<>>
      BY DEF FreeUnit
    <3> QED BY <3>1, <3>2 DEF UnitSound
  <2>2. CASE ~(t = st /\ r = s /\ v = u)
    <3>1. unit'[t][r][v] = unit[t][r][v]
      BY <2>2 DEF Ended, OnlyUnit
    <3>2. UnitSound(t, r, v)
      BY <1>1 DEF Structure
    <3>3. [stream |-> t, slot |-> r, unit |-> v] # flight[e].at
      BY <1>1, <2>2
    <3>4. InFlight([stream |-> t, slot |-> r, unit |-> v])
            => InFlight([stream |-> t, slot |-> r, unit |-> v])'
      BY <1>5, <3>3
    <3> QED BY <1>1, <1>2, <3>1, <3>2, <3>4 DEF UnitSound
  <2> QED BY <2>1, <2>2
<1>7. FlightSound'
  <2>1. FlightSound
    BY <1>1 DEF Structure
  <2>2. Len(flight') <= RequestCount
    BY <1>3, <2>1, SizeFacts DEF FlightSound
  <2>3. ASSUME NEW k \in DOMAIN flight'
        PROVE  UnitAt(flight[k].at)'.programming
    <3>1. PICK a, m : a = flight[m].at /\ m = Old(e, k)
      OBVIOUS
    <3>2. flight'[k].at = a /\ m \in DOMAIN flight /\ m # e
      BY <1>3, <3>1
    <3>3. UnitAt(a)' = UnitAt(a)
      BY <3>1, <3>2, EndedUnits
    <3>4. UnitAt(a).programming
      BY <2>1, <3>1, <3>2 DEF FlightSound
    <3>5. UnitAt(flight[k].at)' = UnitAt(a)'
      BY <3>2 DEF UnitAt
    <3> QED BY <3>3, <3>4, <3>5
  <2>4. ASSUME NEW k \in DOMAIN flight', NEW m \in DOMAIN flight', flight'[k].at = flight'[m].at
        PROVE  k = m
    BY <1>3, <2>1, <2>4 DEF FlightSound
  <2> QED BY <2>2, <2>3, <2>4 DEF FlightSound
<1>8. IssuingSound'
  <2> SUFFICES ASSUME issuing # NoUnit PROVE IssuingSound'
    BY <1>1 DEF IssuingSound
  <2>1. /\ issuing.slot = cur[issuing.stream]
        /\ issuing.unit = ring[issuing.stream][issuing.slot]
        /\ ~UnitAt(issuing).programming
        /\ Len(UnitAt(issuing).lpns) = LpnPerUnit
    BY <1>1 DEF Structure, IssuingSound
  <2>2. issuing \in Places
    BY <1>1 DEF Typed, TypeOK, Places
  <2>3. issuing.stream \in Streams /\ issuing.slot \in Slots /\ issuing.unit \in Units
    BY <2>2 DEF Places
  <2>4. ~(issuing.stream = st /\ issuing.slot = s /\ issuing.unit = u)
    BY <1>1, <2>1 DEF UnitAt
  <2>5. UnitAt(issuing)' = UnitAt(issuing)
    BY <1>1, <2>3, <2>4 DEF UnitAt, Ended, OnlyUnit
  <2> QED BY <1>1, <2>1, <2>5 DEF IssuingSound
<1> QED BY <1>4, <1>6, <1>7, <1>8 DEF Structure

\* A program that ends before others of its die passes them, which none of them
\* allows twice.
LEMMA EndedOrder ==
  ASSUME IInv, NEW e, NEW st, NEW s, NEW u, Ended(e, st, s, u)
  PROVE  InOrder' /\ PassedOnce'
<1>1. /\ Typed /\ Structure /\ InOrder /\ PassedOnce /\ st \in Streams /\ s \in Slots
      /\ UNCHANGED <<cur, page, ring, issuing>> /\ Finishable(e) /\ e \in DOMAIN flight
      /\ flight[e].at = [stream |-> st, slot |-> s, unit |-> u]
  BY DEF IInv, Ended
<1>2. \A t \in Streams, r \in Slots : Given(t, r)' = Given(t, r)
  BY EndedSlots
<1>3. /\ Len(flight) \in Nat /\ DOMAIN flight = 1..Len(flight) /\ e \in 1..Len(flight)
      /\ DOMAIN flight' = 1..(Len(flight) - 1)
      /\ \A k \in DOMAIN flight' :
           /\ Old(e, k) \in DOMAIN flight /\ Old(e, k) # e
           /\ flight'[k].at = flight[Old(e, k)].at
           /\ flight[Old(e, k)].passed => flight'[k].passed
           /\ flight'[k].passed => flight[Old(e, k)].passed \/ Old(e, k) \in Ahead(e)
           /\ Old(e, k) \in Ahead(e) => flight'[k].passed
      /\ \A k, m \in DOMAIN flight' : k < m => Old(e, k) < Old(e, m)
      /\ \A m \in DOMAIN flight : m # e => \E k \in DOMAIN flight' : Old(e, k) = m
  BY EndedFlights
<1>4. ASSUME NEW k \in DOMAIN flight'
      PROVE  PPage(flight[k].at)' = PPage(flight[Old(e, k)].at)
  <2>1. PICK a, m : a = flight[m].at /\ m = Old(e, k)
    OBVIOUS
  <2>2. flight'[k].at = a /\ m \in DOMAIN flight /\ m # e
    BY <1>3, <2>1
  <2>3. PPage(a)' = PPage(a)
    BY <2>1, <2>2, EndedUnits
  <2>4. PPage(flight[k].at)' = PPage(a)'
    BY <2>2 DEF PPage, UnitAt
  <2> QED BY <2>1, <2>3, <2>4
<1>5. InOrder'
  <2> SUFFICES ASSUME NEW j \in DOMAIN flight', NEW k \in DOMAIN flight',
                      j < k, flight'[j].at.stream = flight'[k].at.stream
               PROVE  IF flight'[j].at.slot = flight'[k].at.slot
                      THEN PPage(flight[j].at)' < PPage(flight[k].at)'
                      ELSE flight'[j].at.slot # cur[flight'[j].at.stream]
    BY <1>1 DEF InOrder
  <2>1. PICK m, n : m = Old(e, j) /\ n = Old(e, k)
    OBVIOUS
  <2>2. /\ m \in DOMAIN flight /\ n \in DOMAIN flight /\ m < n
        /\ flight'[j].at = flight[m].at /\ flight'[k].at = flight[n].at
    BY <1>3, <2>1
  <2>3. IF flight[m].at.slot = flight[n].at.slot
        THEN PPage(flight[m].at) < PPage(flight[n].at)
        ELSE flight[m].at.slot # cur[flight[m].at.stream]
    BY <1>1, <2>2 DEF InOrder
  <2> QED BY <1>4, <2>1, <2>2, <2>3
<1>6. PICK p : p = PPage(flight[e].at)
  OBVIOUS
<1>7. ASSUME NEW t, NEW x, ~StillIn(t, x)'
      PROVE  ~StillIn(t, x) \/ (t = st /\ x[1] = s /\ x[2] = p)
  <2> SUFFICES ASSUME NEW m \in DOMAIN flight,
                      flight[m].at.stream = t, flight[m].at.slot = x[1], PPage(flight[m].at) = x[2]
               PROVE  t = st /\ x[1] = s /\ x[2] = p
    BY DEF StillIn
  <2>1. m = e
    <3> SUFFICES ASSUME m # e PROVE FALSE
      OBVIOUS
    <3>1. PICK k \in DOMAIN flight' : Old(e, k) = m
      BY <1>3
    <3>2. flight'[k].at = flight[m].at /\ PPage(flight[k].at)' = x[2]
      BY <1>3, <1>4, <3>1
    <3>3. StillIn(t, x)'
      BY <3>1, <3>2 DEF StillIn
    <3> QED BY <1>7, <3>3
  <2> QED BY <1>1, <1>6, <2>1
<1>8. ASSUME NEW m \in DOMAIN flight, m # e, NEW a, a = flight[m].at
      PROVE  After(a)' = After(a)
  <2>1. PPage(a)' = PPage(a) /\ Die(a)' = Die(a)
    BY <1>8, EndedUnits
  <2>2. a.stream \in Streams
    BY <1>1, <1>8, FlightFacts
  <2>3. \A r \in Slots : Given(a.stream, r)' = Given(a.stream, r)
    BY <1>2, <2>2
  <2> QED BY <1>1, <2>1, <2>3 DEF After
<1>9. ASSUME NEW m \in DOMAIN flight, m # e, NEW a, a = flight[m].at, a.stream = st,
             NEW x \in After(a), x[1] = s, x[2] = p
      PROVE  m \in Ahead(e) /\ m < e /\ ~flight[m].passed /\ PPage(a) < Dies
  <2>1. /\ p % Dies = Die(a)
        /\ IF s = a.slot THEN PPage(a) < p ELSE s = cur[st]
    BY <1>9 DEF After
  <2>2. PPage(a) \in Nat /\ p \in Nat
    <3>1. PPage(a) \in 0..(UnitsPerBlock - 1) /\ p \in 0..(UnitsPerBlock - 1)
      BY <1>1, <1>6, <1>9, FlightFacts
    <3> QED BY <3>1, SizeFacts
  <2>3. ~(e < m)
    <3> SUFFICES ASSUME e < m PROVE FALSE
      OBVIOUS
    <3>1. IF s = a.slot THEN p < PPage(a) ELSE s # cur[st]
      BY <1>1, <1>6, <1>9 DEF InOrder
    <3> QED BY <2>1, <2>2, <3>1
  <2>4. m < e /\ m \in 1..(e - 1)
    BY <1>3, <1>9, <2>3
  <2>5. Die(flight[e].at) = p % Dies
    BY <1>6 DEF Die
  <2>6. m \in Ahead(e)
    BY <1>9, <2>1, <2>4, <2>5 DEF Ahead
  <2>7. PPage(flight[m].at) < Dies /\ ~flight[m].passed
    BY <1>1, <2>6 DEF Finishable
  <2> QED BY <1>9, <2>4, <2>6, <2>7
<1>10. ASSUME NEW k \in DOMAIN flight'
       PROVE  /\ \A x, y \in After(flight[k].at)' :
                   ~StillIn(flight[k].at.stream, x)' /\ ~StillIn(flight[k].at.stream, y)'
                     => x = y /\ flight'[k].passed
              /\ flight'[k].passed => PPage(flight[k].at)' < Dies /\ RequestCount > 1
  <2>1. PICK m, a : m = Old(e, k) /\ a = flight[m].at
    OBVIOUS
  <2>2. /\ m \in DOMAIN flight /\ m # e /\ flight'[k].at = a
        /\ flight[m].passed => flight'[k].passed
        /\ flight'[k].passed => flight[m].passed \/ m \in Ahead(e)
        /\ m \in Ahead(e) => flight'[k].passed
        /\ PPage(flight[k].at)' = PPage(a)
    BY <1>3, <1>4, <2>1
  <2>3. /\ \A x, y \in After(a) :
             ~StillIn(a.stream, x) /\ ~StillIn(a.stream, y) => x = y /\ flight[m].passed
        /\ flight[m].passed => PPage(a) < Dies /\ RequestCount > 1
    BY <1>1, <2>1, <2>2 DEF PassedOnce
  <2>4. After(flight[k].at)' = After(a)
    <3>1. After(flight[k].at)' = After(a)'
      BY <2>2 DEF After, PPage, Die, UnitAt
    <3> QED BY <1>8, <2>1, <2>2, <3>1
  <2>5. \A x : StillIn(flight[k].at.stream, x)' <=> StillIn(a.stream, x)'
    BY <2>2 DEF StillIn
  <2>6. ASSUME NEW x \in After(a), NEW y \in After(a), ~StillIn(a.stream, x)', ~StillIn(a.stream, y)'
        PROVE  x = y /\ flight'[k].passed
    <3>1. CASE ~StillIn(a.stream, x) /\ ~StillIn(a.stream, y)
      BY <2>2, <2>3, <3>1
    <3>2. CASE StillIn(a.stream, x) \/ StillIn(a.stream, y)
      <4>1. PICK z \in After(a) : a.stream = st /\ z[1] = s /\ z[2] = p
        BY <1>7, <2>6, <3>2
      <4>2. m \in Ahead(e) /\ ~flight[m].passed
        BY <1>9, <2>1, <2>2, <4>1
      <4>3. StillIn(a.stream, x) /\ StillIn(a.stream, y)
        BY <2>3, <4>2
      <4>4. x[1] = s /\ x[2] = p /\ y[1] = s /\ y[2] = p
        BY <1>7, <2>6, <4>3
      <4>5. x = y
        BY <4>4 DEF After
      <4> QED BY <2>2, <4>2, <4>5
    <3> QED BY <3>1, <3>2
  <2>7. flight'[k].passed => PPage(a) < Dies /\ RequestCount > 1
    <3>1. CASE flight[m].passed
      BY <2>3, <3>1
    <3>2. CASE m \in Ahead(e)
      <4>1. m \in 1..(e - 1) /\ PPage(a) < Dies
        BY <1>1, <2>1, <3>2 DEF Ahead, Finishable
      <4>2. Len(flight) <= RequestCount
        BY <1>1 DEF Structure, FlightSound
      <4> QED BY <1>3, <4>1, <4>2, SizeFacts
    <3> QED BY <2>2, <3>1, <3>2
  <2> QED BY <2>2, <2>4, <2>5, <2>6, <2>7
<1>11. PassedOnce'
  BY <1>10 DEF PassedOnce
<1> QED BY <1>5, <1>11

\* BUFFERING_LPN::Remove takes off what the unit of the program counted.
LEMMA EndedHash ==
  ASSUME IInv, NEW e, NEW st, NEW s, NEW u, Ended(e, st, s, u)
  PROVE  HashExact' /\ hash' \in [Buckets -> Nat]
<1>1. Typed /\ HashExact /\ hash \in [Buckets -> Nat] /\ st \in Streams /\ s \in Slots /\ u \in Units
      /\ hash' = HashRemove(st, unit[st][s][u].lpns)
  BY DEF IInv, Typed, TypeOK, Ended
<1>2. /\ unit'[st][s][u].lpns = <<>>
      /\ \A t \in Streams, r \in Slots, v \in Units :
           ~(t = st /\ r = s /\ v = u) => unit'[t][r][v] = unit[t][r][v]
  BY DEF Ended, OnlyUnit, FreeUnit
<1>3. CASE st = "GC"
  <2>1. hash' = hash
    BY <1>1, <1>3 DEF HashRemove
  <2>2. \A r \in Slots, v \in Units : unit'["HOST"][r][v] = unit["HOST"][r][v]
    BY <1>2, <1>3 DEF Streams
  <2>3. \A b : BucketPlaces(unit'["HOST"], b) = BucketPlaces(unit["HOST"], b)
    BY <2>2 DEF BucketPlaces
  <2> QED BY <1>1, <2>1, <2>3, HashIs, HashIsNext
<1>4. CASE st = "HOST"
  <2> DEFINE l == unit["HOST"][s][u].lpns
             K(b) == {k \in DOMAIN l : Bucket[l[k]] = b}
             A(b) == BucketPlaces(unit["HOST"], b)
             B(b) == BucketPlaces(unit'["HOST"], b)
             R(b) == {x \in A(b) : x[1] = s /\ x[2] = u}
             f(b) == [k \in K(b) |-> <<s, u, k>>]
  <2>1. hash' = [b \in Buckets |-> hash[b] - Cardinality(K(b))]
    BY <1>1, <1>4 DEF HashRemove
  <2>2. DOMAIN l \subseteq 1..LpnPerUnit
    <3>1. unit["HOST"][s][u] \in UnitType
      BY <1>1, <1>4, TypeFacts
    <3>2. l \in Seq(LPN) /\ Len(l) <= LpnPerUnit /\ Len(l) \in Nat
      BY <3>1, UnitFacts
    <3> QED BY <3>2, SizeFacts
  <2>3. ASSUME NEW b
        PROVE  B(b) = A(b) \ R(b)
    <3>1. ASSUME NEW x \in Slots \X Units \X (1..LpnPerUnit)
          PROVE  x \in B(b) <=> x \in A(b) /\ ~(x[1] = s /\ x[2] = u)
      <4>1. x[1] \in Slots /\ x[2] \in Units
        OBVIOUS
      <4>2. CASE x[1] = s /\ x[2] = u
        BY <1>2, <1>4, <4>2 DEF BucketPlaces
      <4>3. CASE ~(x[1] = s /\ x[2] = u)
        BY <1>2, <1>4, <4>1, <4>3 DEF BucketPlaces, Streams
      <4> QED BY <4>2, <4>3
    <3>2. A(b) \subseteq Slots \X Units \X (1..LpnPerUnit) /\ B(b) \subseteq Slots \X Units \X (1..LpnPerUnit)
      BY DEF BucketPlaces
    <3> HIDE DEF A, B
    <3> QED BY <3>1, <3>2
  <2>4. ASSUME NEW b
        PROVE  f(b) \in Bijection(K(b), R(b))
    <3>1. ASSUME NEW k \in K(b)
          PROVE  <<s, u, k>> \in R(b)
      BY <1>1, <2>2, <3>1 DEF BucketPlaces
    <3>2. ASSUME NEW x \in R(b)
          PROVE  x[3] \in K(b) /\ x = <<s, u, x[3]>>
      <4>1. x \in Slots \X Units \X (1..LpnPerUnit)
        BY <3>2 DEF BucketPlaces
      <4> QED BY <3>2, <4>1 DEF BucketPlaces
    <3> HIDE DEF K, R
    <3>3. f(b) \in [K(b) -> R(b)]
      BY <3>1
    <3>4. \A x \in R(b) : \E k \in K(b) : f(b)[k] = x
      BY <3>2
    <3>5. \A k, m \in K(b) : f(b)[k] = f(b)[m] => k = m
      OBVIOUS
    <3> QED BY <3>3, <3>4, <3>5 DEF Bijection, Injection, IsInjective, Surjection
  <2>5. ASSUME NEW b
        PROVE  IsFiniteSet(A(b)) /\ R(b) \subseteq A(b)
    BY PlacesFinite
  <2> HIDE DEF A, B, R, K, f
  <2>6. ASSUME NEW b \in Buckets
        PROVE  hash'[b] = Cardinality(B(b)) /\ hash'[b] \in Nat
    <3>1. hash[b] = Cardinality(A(b)) /\ hash[b] \in Nat
      BY <1>1, HashIs DEF A
    <3>2. IsFiniteSet(K(b))
      <4>1. K(b) \subseteq 1..LpnPerUnit
        BY <2>2 DEF K
      <4>2. IsFiniteSet(1..LpnPerUnit)
        <5>1. 1 \in Int /\ LpnPerUnit \in Int
          BY SizeFacts
        <5> QED BY <5>1, FS_Interval
      <4> QED BY <4>1, <4>2, FS_Subset
    <3>3. Cardinality(K(b)) = Cardinality(R(b))
      <4>1. ExistsBijection(K(b), R(b))
        BY <2>4 DEF ExistsBijection
      <4> QED BY <3>2, <4>1, FS_Bijection
    <3>4. A(b) \intersect R(b) = R(b)
      BY <2>5
    <3>5. IsFiniteSet(B(b)) /\ Cardinality(B(b)) = Cardinality(A(b)) - Cardinality(R(b))
      BY <2>3, <2>5, <3>4, FS_Difference
    <3>6. hash'[b] = hash[b] - Cardinality(K(b))
      BY <2>1
    <3>7. Cardinality(B(b)) \in Nat
      BY <3>5, FS_CardinalityType
    <3> QED BY <3>1, <3>3, <3>5, <3>6, <3>7
  <2>7. hash' \in [Buckets -> Nat]
    BY <2>1, <2>6
  <2> QED BY <2>6, <2>7, HashIsNext DEF B
<1> QED BY <1>1, <1>3, <1>4 DEF Streams

\* DFTL_GLOBAL::CallBack and ACTIVE_BLOCK::ProgramDone.
LEMMA EndInv ==
  ASSUME IInv, NEW e \in DOMAIN flight, ProgramDone(e)
  PROVE  IInv'
<1>1. PICK st, s, u : Ended(e, st, s, u)
  BY EndFacts
<1>2. /\ Typed /\ st \in Streams /\ s \in Slots /\ u \in Units
      /\ UNCHANGED <<cur, page, ring, l2v, issuing>>
  BY <1>1 DEF IInv, Ended
<1>3. ASSUME NEW t \in Streams, NEW r \in Slots, NEW v \in Units
      PROVE  \/ /\ unit'[t][r][v].vppn = unit[t][r][v].vppn
                /\ unit'[t][r][v].lpns = unit[t][r][v].lpns
             \/ unit'[t][r][v].lpns = <<>>
  <2>1. FreeUnit.lpns = <<>>
    BY DEF FreeUnit
  <2>2. CASE t = st /\ r = s /\ v = u
    <3>1. unit'[t][r][v] = FreeUnit
      BY <1>1, <2>2 DEF Ended, OnlyUnit
    <3> QED BY <2>1, <3>1
  <2>3. CASE ~(t = st /\ r = s /\ v = u)
    <3>1. unit'[t][r][v] = unit[t][r][v]
      BY <1>1, <2>3 DEF Ended, OnlyUnit
    <3> QED BY <3>1
  <2> QED BY <2>2, <2>3
<1>4. Structure' /\ InOrder' /\ PassedOnce' /\ HashExact' /\ hash' \in [Buckets -> Nat]
  BY <1>1, EndedStructure, EndedOrder, EndedHash
<1>5. OlderThanMapped' /\ MappedIsThere'
  BY <1>2, <1>3, FewerPages
<1>6. Typed'
  <2>1. unit' \in [Streams -> [Slots -> [Units -> UnitType]]] /\ flight' \in Seq(Flights)
    BY <1>1, EndedFlights DEF Ended, OnlyUnit
  <2>2. \A k \in DOMAIN flight' :
          flight'[k] \in [at : [stream : Streams, slot : Slots, unit : Units], passed : BOOLEAN]
    <3>1. \A k \in DOMAIN flight' : flight'[k] \in Flights
      BY <2>1
    <3> QED BY <3>1 DEF Flights, Places
  <2>3. TypeOK'
    <3>1. \A t \in Streams, r \in Slots, v \in Units : unit'[t][r][v] \in UnitType
      BY <2>1
    <3> QED BY <1>2, <1>4, <2>2, <3>1 DEF Typed, TypeOK
  <2> QED BY <2>1, <2>3 DEF Typed
<1> QED BY <1>4, <1>5, <1>6 DEF IInv

LEMMA InitInv ==
  ASSUME Init
  PROVE  IInv
<1>1. /\ cur = [st \in Streams |-> 0]
      /\ page = [st \in Streams |-> [s \in Slots |-> BlockEnd]]
      /\ ring = [st \in Streams |-> [s \in Slots |-> 0]]
      /\ unit = [st \in Streams |-> [s \in Slots |-> [u \in Units |-> FreeUnit]]]
      /\ hash = [b \in Buckets |-> 0]
      /\ l2v = [lpn \in LPN |-> Unmapped]
      /\ issuing = NoUnit /\ flight = <<>>
  BY DEF Init
<1>2. FreeUnit \in UnitType
  <2>1. 0 \in PageNos
    <3>1. BlockEnd # 0
      BY SizeFacts
    <3> QED BY <3>1, SizeFacts DEF PageNos
  <2>2. <<>> \in LpnLists
    <3>1. PICK l : l = <<>>
      OBVIOUS
    <3>2. l \in Seq(LPN) /\ Len(l) = 0
      BY <3>1
    <3>3. Len(l) <= LpnPerUnit
      BY <3>2, SizeFacts
    <3> QED BY <3>1, <3>2, <3>3, LpnsFacts
  <2> QED BY <2>1, <2>2 DEF FreeUnit, UnitType, LpnLists
<1>3. FreeUnit.free /\ ~FreeUnit.programming /\ FreeUnit.lpns = <<>> /\ Len(FreeUnit.lpns) = 0
  BY DEF FreeUnit
<1>4. 0 \in Units /\ 0 \in Slots /\ BlockEnd \in 0..BlockEnd
  BY SizeFacts DEF Slots
<1>5. Typed
  <2>1. unit \in [Streams -> [Slots -> [Units -> UnitType]]]
    BY <1>1, <1>2
  <2>2. /\ cur \in [Streams -> Slots] /\ page \in [Streams -> [Slots -> 0..BlockEnd]]
        /\ ring \in [Streams -> [Slots -> Units]]
        /\ hash \in [Buckets -> Nat]
        /\ l2v \in [LPN -> Addresses \cup {Unmapped, Left}]
    BY <1>1, <1>4
  <2>3. flight \in Seq(Flights) /\ DOMAIN flight = {}
    BY <1>1
  <2> QED BY <1>1, <2>1, <2>2, <2>3 DEF Typed, TypeOK
<1>6. ASSUME NEW st \in Streams, NEW s \in Slots
      PROVE  Fill(st, s) = 0 /\ Given(st, s) = UnitsPerBlock
  <2>1. Filling(st, s) = FreeUnit
    BY <1>1, <1>4 DEF Filling
  <2>2. Fill(st, s) = 0
    BY <1>3, <2>1 DEF Fill
  <2>3. page[st][s] = LpnPerUnit * UnitsPerBlock + Fill(st, s) /\ Fill(st, s) \in Nat
        /\ UnitsPerBlock \in Nat
    BY <1>1, <2>2, SizeFacts
  <2>4. Given(st, s) = UnitsPerBlock
    BY <2>3, GivenIs
  <2> QED BY <2>2, <2>4
<1>7. Structure
  <2>1. ASSUME NEW st \in Streams, NEW s \in Slots
        PROVE  SlotSound(st, s)
    BY <1>1, <1>6, SizeFacts DEF SlotSound
  <2>2. ASSUME NEW st \in Streams, NEW s \in Slots, NEW u \in Units
        PROVE  UnitSound(st, s, u)
    <3>1. unit[st][s][u] = FreeUnit
      BY <1>1
    <3> QED BY <1>3, <3>1 DEF UnitSound
  <2>3. FlightSound
    BY <1>1, SizeFacts DEF FlightSound
  <2>4. IssuingSound
    BY <1>1 DEF IssuingSound
  <2> QED BY <2>1, <2>2, <2>3, <2>4 DEF Structure
<1>8. InOrder /\ PassedOnce
  BY <1>1 DEF InOrder, PassedOnce
<1>9. \A s \in Slots, u \in Units : unit["HOST"][s][u].lpns = <<>>
  BY <1>1, <1>3 DEF Streams
<1>10. HashExact
  <2>1. ASSUME NEW b
        PROVE  BucketPlaces(unit["HOST"], b) = {}
    BY <1>9 DEF BucketPlaces
  <2> QED BY <1>1, <2>1, HashIs, FS_EmptySet
<1>11. OlderThanMapped
  BY <1>9 DEF OlderThanMapped
<1>12. MappedIsThere
  BY <1>1, SentinelAssumption DEF MappedIsThere
<1> QED BY <1>5, <1>7, <1>8, <1>10, <1>11, <1>12 DEF IInv

LEMMA NextInv ==
  ASSUME IInv, [Next]_vars
  PROVE  IInv'
<1>1. CASE \E lpn \in LPN : HostWrite(lpn) \/ GCWrite(lpn)
  BY <1>1, WriteInv
<1>2. CASE IssueProgram
  BY <1>2, IssueInv
<1>3. CASE \E e \in DOMAIN flight : ProgramDone(e)
  BY <1>3, EndInv
<1>4. CASE UNCHANGED vars
  <2>1. /\ cur' = cur /\ page' = page /\ ring' = ring /\ unit' = unit /\ hash' = hash
        /\ l2v' = l2v /\ issuing' = issuing /\ flight' = flight
    BY <1>4 DEF vars
  <2>2. Typed'
    BY <2>1 DEF IInv, Typed, TypeOK
  <2>3. \A st, s : Fill(st, s)' = Fill(st, s) /\ Given(st, s)' = Given(st, s)
    BY <2>1 DEF Fill, Given, Filling
  <2>8. \A a : InFlight(a)' <=> InFlight(a)
    BY <2>1 DEF InFlight
  <2>4. Structure'
    <3>1. Structure
      BY DEF IInv
    <3>2. ASSUME NEW st \in Streams, NEW s \in Slots
          PROVE  SlotSound(st, s)'
      BY <2>1, <2>3, <3>1 DEF Structure, SlotSound
    <3>3. ASSUME NEW st \in Streams, NEW s \in Slots, NEW u \in Units
          PROVE  UnitSound(st, s, u)'
      <4>1. UnitSound(st, s, u) /\ Given(st, s)' = Given(st, s)
        BY <2>3, <3>1 DEF Structure
      <4>2. InFlight([stream |-> st, slot |-> s, unit |-> u])'
              <=> InFlight([stream |-> st, slot |-> s, unit |-> u])
        BY <2>8
      <4> QED BY <2>1, <4>1, <4>2 DEF UnitSound
    <3>4. FlightSound'
      BY <2>1, <3>1 DEF Structure, FlightSound, UnitAt
    <3>5. IssuingSound'
      BY <2>1, <3>1 DEF Structure, IssuingSound, UnitAt
    <3> QED BY <3>2, <3>3, <3>4, <3>5 DEF Structure
  <2>5. InOrder'
    BY <2>1 DEF IInv, InOrder, PPage, UnitAt
  <2>6. PassedOnce'
    <3>1. \A a : PPage(a)' = PPage(a) /\ Die(a)' = Die(a)
      BY <2>1 DEF PPage, Die, UnitAt
    <3>2. \A a : After(a)' = After(a)
      BY <2>1, <2>3, <3>1 DEF After
    <3>3. ASSUME NEW t, NEW x
          PROVE  StillIn(t, x)' <=> StillIn(t, x)
      BY <2>1 DEF StillIn, PPage, UnitAt
    <3>4. ASSUME NEW i \in DOMAIN flight
          PROVE  LET a == flight[i].at
                 IN  /\ \A x, y \in After(a)' :
                          ~StillIn(a.stream, x)' /\ ~StillIn(a.stream, y)'
                            => x = y /\ flight'[i].passed
                     /\ flight'[i].passed => PPage(a)' < Dies /\ RequestCount > 1
      BY <2>1, <3>1, <3>2, <3>3 DEF IInv, PassedOnce
    <3> QED BY <2>1, <3>4 DEF PassedOnce
  <2>7. HashExact' /\ OlderThanMapped' /\ MappedIsThere'
    BY <2>1 DEF IInv, HashExact, OlderThanMapped, MappedIsThere
  <2> QED BY <2>2, <2>4, <2>5, <2>6, <2>7 DEF IInv
<1> QED BY <1>1, <1>2, <1>3, <1>4 DEF Next

(***************************************************************************)
(* The theorems.                                                           *)
(***************************************************************************)

\* What the slots, the units in flight, the hash and the mapping know of each
\* other, after every write, issue and end of a program.
THEOREM ActiveBlockInvariant == Spec => []IInv
<1>1. Init => IInv
  BY InitInv
<1>2. IInv /\ [Next]_vars => IInv'
  BY NextInv
<1> QED BY <1>1, <1>2, PTL DEF Spec

\* Every variable of ACTIVE_BLOCK and BUFFERING_LPN stays in its type: a unit has at
\* most LPN_PER_PHYSICAL_PAGE pages, a bucket is never negative.
THEOREM ActiveTypeCorrect == Spec => []TypeOK
<1>1. IInv => TypeOK
  BY DEF IInv, Typed
<1> QED BY <1>1, ActiveBlockInvariant, PTL

\* "CheckAllProgramUnitIsFree() == TRUE" (dftl_activeblock.cpp:561): a slot that gets
\* another block has no unit of the block before, written or in flight.
THEOREM SlotsAreFree == Spec => []SlotIsFree
<1>1. IInv => SlotIsFree
  BY LeavesFree DEF SlotIsFree
<1> QED BY <1>1, ActiveBlockInvariant, PTL

\* A bucket of m_anBufferingLPNCount counts the pages of the units of the host stream.
THEOREM HashIsExact == Spec => []HashExact
<1>1. IInv => HashExact
  BY DEF IInv
<1> QED BY <1>1, ActiveBlockInvariant, PTL

(***************************************************************************)
(* Reading.                                                                *)
(***************************************************************************)

LookedAt(st, s, j) == (ring[st][s] + UnitCount - j) % UnitCount

LEMMA LookedFacts ==
  ASSUME Typed, NEW st \in Streams, NEW s \in Slots, NEW j \in Units
  PROVE  /\ LookedAt(st, s, j) \in Units
         /\ Looked(st, s, j) = unit[st][s][LookedAt(st, s, j)]
         /\ Looked(st, s, j) \in UnitType
         /\ j = 0 => LookedAt(st, s, j) = ring[st][s]
         /\ \/ LookedAt(st, s, j) + j = ring[st][s]
            \/ LookedAt(st, s, j) + j = ring[st][s] + UnitCount
<1>1. PICK r, n, v : r = ring[st][s] /\ n = UnitCount /\ v = LookedAt(st, s, j)
  OBVIOUS
<1>2. n \in Nat \ {0} /\ r \in 0..(n - 1) /\ j \in 0..(n - 1) /\ v = (r + n - j) % n
  BY <1>1, TypeFacts, SizeFacts DEF LookedAt
<1>3. v \in 0..(n - 1) /\ (v + j = r \/ v + j = r + n) /\ (j = 0 => v = r)
  <2>1. CASE j <= r
    <3>1. PICK t : t = r - j
      OBVIOUS
    <3>2. t \in 0..(n - 1) /\ r + n - j = n * 1 + t
      BY <1>2, <2>1, <3>1
    <3>3. (n * 1 + t) % n = t
      BY <1>2, <3>2, DivModUnique
    <3>4. v = t
      BY <1>2, <3>2, <3>3
    <3> QED BY <1>2, <2>1, <3>1, <3>4
  <2>2. CASE r < j
    <3>1. r + n - j \in 0..(n - 1) /\ r + n - j = n * 0 + (r + n - j)
      BY <1>2, <2>2
    <3>2. v = r + n - j
      BY <1>2, <3>1, DivModUnique
    <3> QED BY <1>2, <2>2, <3>2
  <2> QED BY <1>2, <2>1, <2>2
<1>4. v \in Units /\ unit[st][s][v] \in UnitType
  BY <1>1, <1>2, <1>3, TypeFacts, SizeFacts
<1> QED BY <1>1, <1>3, <1>4 DEF Looked, LookedAt

\* The search of a slot meets the units of its block from the last one back.
LEMMA LookedPages ==
  ASSUME Typed, Structure, NEW st \in Streams, NEW s \in Slots, NEW j \in Units,
         ~Looked(st, s, j).free, ~Filling(st, s).programming
  PROVE  LET w == Looked(st, s, j)
         IN  /\ Given(st, s) - j \in Nat
             /\ w.vppn = LpnPerUnit * (Given(st, s) - j)
             /\ j = 0 => Len(w.lpns) = Fill(st, s)
             /\ j # 0 => Len(w.lpns) = LpnPerUnit
<1>1. PICK r, v, g, w : /\ r = ring[st][s] /\ v = LookedAt(st, s, j) /\ g = Given(st, s)
                        /\ w = Looked(st, s, j)
  OBVIOUS
<1>2. /\ v \in Units /\ w = unit[st][s][v] /\ r \in Units /\ g \in 0..UnitsPerBlock
      /\ (v + j = r \/ v + j = r + UnitCount) /\ (j = 0 => v = r)
  BY <1>1, LookedFacts, TypeFacts, SlotFacts
<1>3. UnitSound(st, s, v)
  BY <1>2 DEF Structure
<1>4. CASE j = 0
  <2>1. v = r /\ ~w.programming /\ w = Filling(st, s)
    BY <1>1, <1>2, <1>4 DEF Filling
  <2>2. w.vppn = LpnPerUnit * g
    BY <1>1, <1>2, <1>3, <2>1 DEF UnitSound
  <2>3. Len(w.lpns) = Fill(st, s)
    BY <2>1 DEF Fill
  <2>4. g - j = g /\ g \in Nat
    BY <1>2, <1>4, SizeFacts
  <2> QED BY <1>1, <1>4, <2>2, <2>3, <2>4
<1>5. CASE j # 0
  <2>1. v # r
    BY <1>2, <1>5, SizeFacts
  <2>2. w.programming
    BY <1>1, <1>2, <1>3, <2>1 DEF UnitSound
  <2>3. PICK q : q = PPage([stream |-> st, slot |-> s, unit |-> v])
    OBVIOUS
  <2>4. /\ q \in 0..(g - 1) /\ w.vppn = LpnPerUnit * q /\ Len(w.lpns) = LpnPerUnit
        /\ g - q <= UnitCount
        /\ (v + (g - q) = r \/ v + (g - q) = r + UnitCount)
    BY <1>1, <1>2, <2>2, <2>3, ProgrammingFacts
  <2>5. PICK n \in Nat \ {0} : n = UnitCount
    BY SizeFacts
  <2>6. v \in 0..(n - 1) /\ r \in 0..(n - 1) /\ j \in 1..(n - 1) /\ q \in 0..(g - 1) /\ g \in Nat
    BY <1>2, <1>5, <2>4, <2>5, SizeFacts
  <2>7. PICK d \in 1..n : d = g - q
    BY <2>4, <2>5, <2>6
  <2>8. (v + j = r \/ v + j = r + n) /\ (v + d = r \/ v + d = r + n)
    BY <1>2, <2>4, <2>5, <2>7
  <2>9. d = j
    BY <2>6, <2>7, <2>8
  <2>10. q = g - j /\ q \in Nat
    BY <2>6, <2>7, <2>9
  <2> QED BY <1>1, <1>5, <2>4, <2>10
<1> QED BY <1>4, <1>5

\* The place that comes before all others is the one read.
LEMMA ReadsFirst ==
  ASSUME NEW st, NEW s, NEW lpn, NEW h \in SlotHits(st, s, lpn),
         \A g \in SlotHits(st, s, lpn) : Before(h, g)
  PROVE  ReadSlot(st, s, lpn) =
           [stream |-> st, slot |-> s, page |-> Looked(st, s, h[1]).vppn + h[2] - 1]
<1> DEFINE H == SlotHits(st, s, lpn)
           c == CHOOSE x \in H : \A g \in H : Before(x, g)
<1>1. c \in H /\ \A g \in H : Before(c, g)
  OBVIOUS
<1>2. Before(c, h) /\ Before(h, c)
  BY <1>1
<1>3. ASSUME NEW g \in H
      PROVE  g = <<g[1], g[2]>> /\ g[1] \in Int /\ g[2] \in Int
  BY SizeFacts DEF SlotHits, Reached
<1>4. c[1] = h[1] /\ c[2] = h[2]
  BY <1>1, <1>2, <1>3 DEF Before
<1> QED BY <1>1, <1>4 DEF ReadSlot

\* A page held by the units searched is the mapped page of the slot.
LEMMA HitMeans ==
  ASSUME IInv, NEW s \in Slots, NEW lpn \in LPN, NEW h \in SlotHits("HOST", s, lpn)
  PROVE  /\ h[1] \in Units /\ h[1] \in Nat /\ h[2] \in 1..LpnPerUnit
         /\ h[2] \in DOMAIN Looked("HOST", s, h[1]).lpns
         /\ Looked("HOST", s, h[1]).lpns[h[2]] = lpn
         /\ \A i \in 0..h[1] : ~Looked("HOST", s, i).free
         /\ l2v[lpn] \in Addresses /\ l2v[lpn].stream = "HOST"
         /\ IF l2v[lpn].slot = s
            THEN Looked("HOST", s, h[1]).vppn + h[2] - 1 <= l2v[lpn].page
            ELSE s # cur["HOST"]
<1>1. Typed /\ OlderThanMapped /\ "HOST" \in Streams
  BY DEF IInv, Streams
<1>2. PICK j, k : j = h[1] /\ k = h[2]
  OBVIOUS
<1>3. /\ j \in Units /\ k \in 1..LpnPerUnit
      /\ k \in DOMAIN Looked("HOST", s, j).lpns /\ Looked("HOST", s, j).lpns[k] = lpn
      /\ \A i \in 0..j : ~Looked("HOST", s, i).free
  BY <1>2 DEF SlotHits, Reached
<1>4. j \in Nat
  BY <1>3, SizeFacts
<1>5. LookedAt("HOST", s, j) \in Units
      /\ Looked("HOST", s, j) = unit["HOST"][s][LookedAt("HOST", s, j)]
  BY <1>1, <1>3, LookedFacts
<1>6. /\ l2v[lpn] \in Addresses /\ l2v[lpn].stream = "HOST"
      /\ IF l2v[lpn].slot = s
         THEN Looked("HOST", s, j).vppn + k - 1 <= l2v[lpn].page
         ELSE s # cur["HOST"]
  BY <1>1, <1>3, <1>5 DEF OlderThanMapped
<1> QED BY <1>2, <1>3, <1>4, <1>6

\* The slot that is not written has no unit to search.
LEMMA NoHitElsewhere ==
  ASSUME IInv, issuing = NoUnit, NEW s \in Slots, ~RingFull(s), s # cur["HOST"], NEW lpn \in LPN
  PROVE  ReadSlot("HOST", s, lpn) = NoHit
<1>1. Typed /\ Structure /\ "HOST" \in Streams
  BY DEF IInv, Streams
<1>2. PICK r : r = ring["HOST"][s]
  OBVIOUS
<1>3. r \in Units /\ unit["HOST"][s][r] \in UnitType /\ ~unit["HOST"][s][r].programming
      /\ Filling("HOST", s) = unit["HOST"][s][r]
  BY <1>1, <1>2, TypeFacts DEF RingFull, Filling
<1>4. Fill("HOST", s) = 0
  <2>1. [stream |-> "HOST", slot |-> s, unit |-> ring["HOST"][s]] # NoUnit
    <3>1. [stream |-> "HOST", slot |-> s, unit |-> r]
            \in [stream : Streams, slot : Slots, unit : Units]
      BY <1>1, <1>3
    <3> QED BY <1>2, <3>1, SentinelAssumption
  <2> QED BY <1>1, <2>1, SlotFacts
<1>5. Len(unit["HOST"][s][r].lpns) = 0 /\ unit["HOST"][s][r].lpns \in Seq(LPN)
  BY <1>3, <1>4, UnitFacts DEF Fill
<1>6. unit["HOST"][s][r].lpns = <<>>
  BY <1>5
<1>7. unit["HOST"][s][r].free
  <2>1. UnitSound("HOST", s, r)
    BY <1>1, <1>3 DEF Structure
  <2> QED BY <1>3, <1>6, <2>1 DEF UnitSound
<1>8. Looked("HOST", s, 0) = unit["HOST"][s][r] /\ 0 \in Units
  <2>1. 0 \in Units
    BY SizeFacts
  <2> QED BY <1>1, <1>2, <2>1, LookedFacts
<1>9. SlotHits("HOST", s, lpn) = {}
  <2> SUFFICES ASSUME NEW h \in SlotHits("HOST", s, lpn)
               PROVE  FALSE
    OBVIOUS
  <2>1. h[1] \in Nat /\ \A i \in 0..h[1] : ~Looked("HOST", s, i).free
    BY HitMeans
  <2> QED BY <1>7, <1>8, <2>1
<1> QED BY <1>9 DEF ReadSlot

\* A search that finds a page finds the mapped one first: the units between the unit of
\* the mapped page and the one filled are not free.
LEMMA HitIsMapped ==
  ASSUME IInv, NEW lpn \in LPN, NEW s, s = cur["HOST"], ~RingFull(s), issuing = NoUnit,
         NEW g0 \in SlotHits("HOST", s, lpn)
  PROVE  ReadSlot("HOST", s, lpn) = l2v[lpn]
<1>1. /\ Typed /\ Structure /\ MappedIsThere /\ "HOST" \in Streams
      /\ s \in Slots
  <2>1. Typed /\ Structure /\ MappedIsThere /\ "HOST" \in Streams
    BY DEF IInv, Streams
  <2> QED BY <2>1 DEF Typed, TypeOK
<1>2. PICK m, p, g, f, d : /\ m = l2v[lpn] /\ p = m.page /\ g = Given("HOST", s)
                           /\ f = Fill("HOST", s) /\ d = LpnPerUnit
  OBVIOUS
<1>3. /\ m \in Addresses /\ m.stream = "HOST" /\ m.slot = s
      /\ m = [stream |-> "HOST", slot |-> s, page |-> p] /\ p \in PageNos
  <2>1. m \in Addresses /\ m.stream = "HOST" /\ m.slot = s
    BY <1>1, <1>2, HitMeans
  <2> QED BY <1>2, <2>1 DEF Addresses
<1>4. p \in Nat
  <2>1. BlockEnd \in Nat /\ p \in 0..(BlockEnd - 1)
    BY <1>3, SizeFacts DEF PageNos
  <2> QED BY <2>1
<1>5. PICK q, t : q = p \div d /\ t = p % d
  OBVIOUS
<1>6. d \in Nat \ {0} /\ q \in Nat /\ t \in 0..(d - 1) /\ p = d * q + t
  BY <1>2, <1>4, <1>5, SizeFacts, DivMod
<1>7. /\ g \in Nat /\ f \in 0..(d - 1) /\ p < d * g + f
      /\ Holds(unit["HOST"][s], p, lpn)
  <2>1. g \in Nat /\ f \in 0..d /\ page["HOST"][s] = d * g + f
    BY <1>1, <1>2, SlotFacts, SizeFacts
  <2>2. f < d
    <3>1. [stream |-> "HOST", slot |-> s, unit |-> ring["HOST"][s]]
            \in [stream : Streams, slot : Slots, unit : Units]
      BY <1>1, TypeFacts
    <3>2. issuing # [stream |-> "HOST", slot |-> s, unit |-> ring["HOST"][s]]
      BY <3>1, SentinelAssumption
    <3> QED BY <1>1, <1>2, <3>2, SlotFacts
  <2>3. p < page["HOST"][s] /\ Holds(unit["HOST"][s], p, lpn)
    BY <1>1, <1>2, <1>3 DEF MappedIsThere
  <2> QED BY <1>6, <2>1, <2>2, <2>3
<1>8. q <= g
  <2>1. g < q => d * g + d <= d * q
    BY <1>6, <1>7, MulLess
  <2>2. d * g \in Nat /\ d * q \in Nat
    BY <1>6, <1>7
  <2> QED BY <1>6, <1>7, <2>1, <2>2
<1>9. ~Filling("HOST", s).programming
  BY DEF RingFull, Filling
<1> DEFINE a == g - q
           h == <<a, t + 1>>
<1>10. ASSUME NEW x \in SlotHits("HOST", s, lpn)
       PROVE  x[1] \in Units /\ x[1] \in Nat /\ a <= x[1] /\ Before(h, x)
              /\ \A i \in 0..x[1] : ~Looked("HOST", s, i).free
  <2>1. PICK j, k : j = x[1] /\ k = x[2]
    OBVIOUS
  <2>2. /\ j \in Units /\ j \in Nat /\ k \in 1..d
        /\ \A i \in 0..j : ~Looked("HOST", s, i).free
        /\ Looked("HOST", s, j).vppn + k - 1 <= p
    BY <1>1, <1>2, <1>3, <2>1, HitMeans
  <2>3. PICK b : b = g - j
    OBVIOUS
  <2>4. b \in Nat /\ Looked("HOST", s, j).vppn = d * b
    <3>1. ~Looked("HOST", s, j).free
      BY <2>2
    <3> QED BY <1>1, <1>2, <1>9, <2>2, <2>3, <3>1, LookedPages
  <2>5. d * b + (k - 1) <= d * q + t
    BY <1>6, <2>2, <2>4
  <2>6. q < b => d * q + d <= d * b
    BY <1>6, <2>4, MulLess
  <2>7. b <= q /\ (b = q => k - 1 <= t)
    <3>1. d * b \in Nat /\ d * q \in Nat
      BY <1>6, <2>4
    <3> QED BY <1>6, <2>2, <2>4, <2>5, <2>6, <3>1
  <2>8. a <= j /\ (a = j => k <= t + 1)
    BY <1>6, <1>7, <2>2, <2>3, <2>4, <2>7
  <2>9. Before(h, x)
    BY <1>6, <1>7, <2>1, <2>2, <2>8 DEF Before
  <2> QED BY <2>1, <2>2, <2>8, <2>9
<1>11. /\ a \in Units /\ a \in Nat /\ \A i \in 0..a : ~Looked("HOST", s, i).free
  <2>1. PICK j : j = g0[1]
    OBVIOUS
  <2>2. j \in Units /\ j \in Nat /\ a <= j /\ \A i \in 0..j : ~Looked("HOST", s, i).free
    BY <1>10, <2>1
  <2>3. a \in Nat
    BY <1>6, <1>7, <1>8
  <2>4. a \in Units
    BY <2>2, <2>3, SizeFacts
  <2> QED BY <2>2, <2>3, <2>4
<1>12. Looked("HOST", s, a).vppn = d * q /\ t + 1 \in DOMAIN Looked("HOST", s, a).lpns
  <2>1. PICK w : w = Looked("HOST", s, a)
    OBVIOUS
  <2>2. ~w.free /\ w \in UnitType
    BY <1>1, <1>11, <2>1, LookedFacts
  <2>3. /\ w.vppn = LpnPerUnit * (Given("HOST", s) - a)
        /\ a = 0 => Len(w.lpns) = Fill("HOST", s)
        /\ a # 0 => Len(w.lpns) = LpnPerUnit
    BY <1>1, <1>9, <1>11, <2>1, <2>2, LookedPages
  <2>4. Given("HOST", s) - a = q
    BY <1>2, <1>6, <1>7
  <2>5. t < Len(w.lpns)
    <3>1. CASE a = 0
      <4>1. g = q
        BY <1>6, <1>7, <3>1
      <4>2. d * q + t < d * q + f /\ d * q \in Nat
        BY <1>6, <1>7, <4>1
      <4>3. t < f
        BY <1>6, <1>7, <4>2
      <4>4. Len(w.lpns) = f
        BY <1>2, <2>3, <3>1
      <4> QED BY <4>3, <4>4
    <3>2. CASE a # 0
      BY <1>2, <1>6, <2>3, <3>2
    <3> QED BY <3>1, <3>2
  <2>6. w.lpns \in Seq(LPN) /\ Len(w.lpns) \in Nat
    BY <2>2, UnitFacts
  <2> QED BY <1>2, <1>6, <2>1, <2>3, <2>4, <2>5, <2>6
<1>13. Looked("HOST", s, a).lpns[t + 1] = lpn
  <2>1. PICK v : v = LookedAt("HOST", s, a)
    OBVIOUS
  <2>2. v \in Units /\ Looked("HOST", s, a) = unit["HOST"][s][v]
    BY <1>1, <1>11, <2>1, LookedFacts
  <2>3. p - unit["HOST"][s][v].vppn + 1 = t + 1
    <3>1. d * q \in Nat
      BY <1>6
    <3> QED BY <1>6, <1>12, <2>2, <3>1
  <2> QED BY <1>7, <1>12, <2>2, <2>3 DEF Holds
<1>14. h \in SlotHits("HOST", s, lpn)
  <2>1. a \in Reached("HOST", s) /\ t + 1 \in 1..LpnPerUnit
    BY <1>2, <1>6, <1>11 DEF Reached
  <2>2. h \in Reached("HOST", s) \X (1..LpnPerUnit) /\ h[1] = a /\ h[2] = t + 1
    BY <2>1
  <2> QED BY <1>12, <1>13, <2>2 DEF SlotHits
<1>15. ReadSlot("HOST", s, lpn) =
         [stream |-> "HOST", slot |-> s, page |-> Looked("HOST", s, h[1]).vppn + h[2] - 1]
  BY <1>10, <1>14, ReadsFirst
<1>16. Looked("HOST", s, h[1]).vppn + h[2] - 1 = p
  <2>1. d * q \in Nat
    BY <1>6
  <2> QED BY <1>6, <1>12, <2>1
<1> QED BY <1>2, <1>3, <1>15, <1>16

\* "DEBUG_ASSERT(nVPPN == nBufferingVPPN)" (dftl_request_hil.cpp:435): a page that
\* BUFFERING_LPN::ReadLPN finds in a unit is the mapped one, unless the ring is full.
THEOREM HitsAreCurrent == Spec => []HitIsCurrent
<1>1. ASSUME IInv
      PROVE  HitIsCurrent
  <2> SUFFICES ASSUME issuing = NoUnit, \A s \in Slots : ~RingFull(s), NEW lpn \in LPN
               PROVE  ReadLPN(lpn) \in {NoHit, l2v[lpn]}
    BY DEF HitIsCurrent
  <2>1. ASSUME NEW s \in Slots
        PROVE  ReadSlot("HOST", s, lpn) \in {NoHit, l2v[lpn]}
    <3>1. CASE s # cur["HOST"]
      BY <1>1, <3>1, NoHitElsewhere
    <3>2. CASE s = cur["HOST"]
      <4>1. CASE SlotHits("HOST", s, lpn) = {}
        BY <4>1 DEF ReadSlot
      <4>2. CASE SlotHits("HOST", s, lpn) # {}
        BY <1>1, <3>2, <4>2, HitIsMapped
      <4> QED BY <4>1, <4>2
    <3> QED BY <3>1, <3>2
  <2>2. 0 \in Slots /\ 1 \in Slots
    BY DEF Slots
  <2> QED BY <2>1, <2>2 DEF ReadLPN
<1> QED BY <1>1, ActiveBlockInvariant, PTL

\* The unit of the mapped page, when it is not given to the FIL, is the first searched.
LEMMA UnissuedIsFound ==
  ASSUME IInv, NEW lpn \in LPN, l2v[lpn] \in Addresses, l2v[lpn].stream = "HOST",
         Unissued(l2v[lpn])
  PROVE  hash[Bucket[lpn]] # 0 /\ ReadSlot("HOST", l2v[lpn].slot, lpn) = l2v[lpn]
<1>1. Typed /\ Structure /\ HashExact /\ OlderThanMapped /\ MappedIsThere /\ "HOST" \in Streams
  BY DEF IInv, Streams
<1>2. PICK m, s, p : m = l2v[lpn] /\ s = m.slot /\ p = m.page
  OBVIOUS
<1>3. s \in Slots /\ p \in PageNos /\ m = [stream |-> "HOST", slot |-> s, page |-> p]
  BY <1>2 DEF Addresses
<1>4. p \in Nat
  <2>1. BlockEnd \in Nat /\ p \in 0..(BlockEnd - 1)
    BY <1>3, SizeFacts DEF PageNos
  <2> QED BY <2>1
<1>5. PICK u \in Units :
        /\ ~unit["HOST"][s][u].free /\ ~unit["HOST"][s][u].programming
        /\ p - unit["HOST"][s][u].vppn \in 0..(Len(unit["HOST"][s][u].lpns) - 1)
  BY <1>2, <1>3 DEF Unissued
<1>6. PICK w : w = unit["HOST"][s][u]
  OBVIOUS
<1>7. w \in UnitType /\ w.vppn \in Nat /\ w.lpns \in Seq(LPN) /\ Len(w.lpns) \in Nat
      /\ Len(w.lpns) <= LpnPerUnit
  BY <1>1, <1>3, <1>6, TypeFacts, UnitFacts
<1>8. u = ring["HOST"][s]
  <2>1. UnitSound("HOST", s, u)
    BY <1>1, <1>3 DEF Structure
  <2> QED BY <1>5, <2>1 DEF UnitSound
<1>9. PICK k : k = p - w.vppn + 1
  OBVIOUS
<1>10. k \in DOMAIN w.lpns /\ k \in 1..LpnPerUnit /\ w.lpns[k] = lpn /\ w.vppn + k - 1 = p
  <2>1. k \in 1..Len(w.lpns) /\ w.vppn + k - 1 = p
    <3>1. PICK n, o : n = Len(w.lpns) /\ o = w.vppn
      OBVIOUS
    <3>2. p - o \in 0..(n - 1) /\ n \in Nat /\ o \in Nat /\ k = p - o + 1
      BY <1>5, <1>6, <1>7, <1>9, <3>1
    <3>3. k \in 1..n /\ o + k - 1 = p
      BY <1>4, <3>2
    <3> QED BY <3>1, <3>3
  <2>2. k \in DOMAIN w.lpns /\ k \in 1..LpnPerUnit
    BY <1>7, <2>1, SizeFacts
  <2>3. Holds(unit["HOST"][s], p, lpn)
    BY <1>1, <1>2, <1>3 DEF MappedIsThere
  <2> QED BY <1>6, <1>9, <2>1, <2>2, <2>3 DEF Holds
<1>11. Looked("HOST", s, 0) = w /\ 0 \in Units
  <2>1. 0 \in Units
    BY SizeFacts
  <2> QED BY <1>1, <1>3, <1>6, <1>8, <2>1, LookedFacts
<1> DEFINE h == <<0, k>>
<1>12. h \in SlotHits("HOST", s, lpn)
  <2>1. 0 \in Reached("HOST", s)
    BY <1>5, <1>6, <1>11 DEF Reached
  <2>2. h \in Reached("HOST", s) \X (1..LpnPerUnit) /\ h[1] = 0 /\ h[2] = k
    BY <1>10, <2>1
  <2> QED BY <1>10, <1>11, <2>2 DEF SlotHits
<1>13. ASSUME NEW x \in SlotHits("HOST", s, lpn)
       PROVE  Before(h, x)
  <2>1. /\ x[1] \in Nat /\ x[2] \in 1..LpnPerUnit
        /\ Looked("HOST", s, x[1]).vppn + x[2] - 1 <= p
    BY <1>1, <1>2, <1>3, HitMeans
  <2>2. x[1] = 0 => x[2] <= k
    BY <1>4, <1>7, <1>9, <1>11, <2>1, SizeFacts
  <2> QED BY <1>10, <2>1, <2>2, SizeFacts DEF Before
<1>14. ReadSlot("HOST", s, lpn) = m
  <2>1. ReadSlot("HOST", s, lpn) =
          [stream |-> "HOST", slot |-> s, page |-> Looked("HOST", s, h[1]).vppn + h[2] - 1]
    BY <1>12, <1>13, ReadsFirst
  <2> QED BY <1>3, <1>10, <1>11, <2>1
<1>15. hash[Bucket[lpn]] # 0
  <2>1. Bucket[lpn] \in Buckets
    BY SizesAssumption
  <2>2. <<s, u, k>> \in BucketPlaces(unit["HOST"], Bucket[lpn])
    <3>1. <<s, u, k>> \in Slots \X Units \X (1..LpnPerUnit)
      BY <1>3, <1>10
    <3> QED BY <1>6, <1>10, <3>1 DEF BucketPlaces
  <2>3. IsFiniteSet(BucketPlaces(unit["HOST"], Bucket[lpn]))
    BY PlacesFinite
  <2>4. Cardinality(BucketPlaces(unit["HOST"], Bucket[lpn])) # 0
    BY <2>2, <2>3, FS_EmptySet
  <2> QED BY <1>1, <2>1, <2>4, HashIs
<1> QED BY <1>2, <1>14, <1>15

\* A host read that finds a page of the host stream in no unit
\* (HIL_REQUEST::_ProcessRead_Wait) reads a page whose program has been given to the FIL.
THEOREM MissesAreIssued == Spec => []HostMissIsIssued
<1>1. ASSUME IInv
      PROVE  HostMissIsIssued
  <2> SUFFICES ASSUME NEW lpn \in LPN, l2v[lpn] \in Addresses, l2v[lpn].stream = "HOST",
                      ReadLPN(lpn) = NoHit, Unissued(l2v[lpn])
               PROVE  FALSE
    BY DEF HostMissIsIssued
  <2>1. hash[Bucket[lpn]] # 0 /\ ReadSlot("HOST", l2v[lpn].slot, lpn) = l2v[lpn]
    BY <1>1, UnissuedIsFound
  <2>2. l2v[lpn] # NoHit /\ l2v[lpn].slot \in {0, 1}
    BY SentinelAssumption DEF Addresses, Slots
  <2> QED BY <2>1, <2>2 DEF ReadLPN
<1> QED BY <1>1, ActiveBlockInvariant, PTL
=============================================================================
