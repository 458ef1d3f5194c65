--------------------------- MODULE MetaCacheProofs ---------------------------
(***************************************************************************)
(* For every size of the cache, of the request pool and of the table.      *)
(* First the types, the agreement between requests, queues and cache       *)
(* entries, and that an entry on which a NAND operation runs keeps its     *)
(* page.  Then what the cache and its users hold: every page of a user     *)
(* victim is counted; the cache and the meta block together hold every     *)
(* mapping as long as none changes in a page that is being stored; the     *)
(* lists are sound as long as no entry is released; and with the host      *)
(* alone both always hold.                                                 *)
(***************************************************************************)
EXTENDS MetaCache, SeqLemmas, FunctionTheorems

(***************************************************************************)
(* Arithmetic of meta page numbers.                                        *)
(***************************************************************************)

\* The meta page of an LPN is in the table.
LEMMA MetaLPNOfType ==
  ASSUME NEW n \in LPN
  PROVE  MetaLPNOf(n) \in MetaLPN
<1> DEFINE L == L2VPerMetaPage
           P == MetaPageCount
           q == n \div L
<1>1. L \in Nat \ {0} /\ P \in Nat \ {0} /\ n \in Nat /\ n <= P * L - 1
  BY SizesAssumption DEF LPN
<1>2. q \in Nat /\ n = L * q + (n % L) /\ n % L \in 0..(L - 1)
  BY <1>1
<1>3. ~ (q >= P)
  <2> SUFFICES ASSUME q >= P PROVE FALSE
    OBVIOUS
  <2>1. q - P \in Nat /\ q = P + (q - P)
    BY <1>1, <1>2
  <2>2. PICK d \in Nat : q = P + d
    BY <2>1
  <2>3. q * L = P * L + d * L /\ d * L \in Nat
    BY <1>1, <2>2
  <2> QED BY <1>1, <1>2, <2>3
<1> QED BY <1>1, <1>2, <1>3 DEF MetaLPN, MetaLPNOf

\* Nothing that has been stored is the absence of content.
LEMMA ContentFacts ==
  /\ Blank \in Content
  /\ NoContent \notin Content
  /\ NoPage \notin MetaLPN
  /\ NoEntry \notin Entries
BY SentinelAssumption DEF Blank, Content, Address

(***************************************************************************)
(* The lists.                                                              *)
(***************************************************************************)

\* GetMetaEntry reorders the list, and a hit is an entry of the list that holds
\* the page.
LEMMA TouchFacts ==
  ASSUME NEW l \in Seq(Entries), NEW p
  PROVE  /\ Touch(l, p) \in Seq(Entries)
         /\ ToSet(Touch(l, p)) = ToSet(l)
         /\ IsCached(l, p) => /\ CachedEntry(l, p) \in ToSet(l)
                              /\ CachedEntry(l, p) \in Entries
                              /\ entry[CachedEntry(l, p)].metaLPN = p
<1>1. CASE IsCached(l, p)
  <2>1. Positions(l, p) \subseteq DOMAIN l /\ DOMAIN l \subseteq Nat /\ Positions(l, p) # {}
    BY <1>1 DEF Positions, IsCached
  <2>2. \E i \in Positions(l, p) : \A j \in Positions(l, p) : i <= j
    BY <2>1, LeastPosition
  <2>3. PositionOf(l, p) \in Positions(l, p)
    BY <2>2 DEF PositionOf
  <2> DEFINE i == PositionOf(l, p)
  <2>4. i \in DOMAIN l /\ entry[l[i]].metaLPN = p
    BY <2>3 DEF Positions
  <2> HIDE DEF i
  <2>5. /\ l[i] \in Entries
        /\ RemoveAt(l, i) \in Seq(Entries)
        /\ ToSet(RemoveAt(l, i)) \union {l[i]} = ToSet(l)
    BY <2>4, RemoveAtFacts
  <2> DEFINE x == l[i]
             rest == RemoveAt(l, i)
  <2>a. x \in Entries /\ rest \in Seq(Entries)
    BY <2>5
  <2> HIDE DEF x, rest
  <2>b. Cons(x, rest) \in Seq(Entries) /\ ToSet(Cons(x, rest)) = ToSet(rest) \union {x}
    BY <2>a, ConsFacts
  <2>6. /\ Cons(l[i], RemoveAt(l, i)) \in Seq(Entries)
        /\ ToSet(Cons(l[i], RemoveAt(l, i))) = ToSet(RemoveAt(l, i)) \union {l[i]}
    BY <2>b DEF x, rest
  <2>7. CachedEntry(l, p) = l[i] /\ Touch(l, p) = Cons(l[i], RemoveAt(l, i))
    BY <1>1 DEF Touch, CachedEntry, i
  <2> QED BY <2>4, <2>5, <2>6, <2>7
<1>2. CASE ~IsCached(l, p)
  BY <1>2 DEF Touch
<1> QED BY <1>1, <1>2

\* An entry _Allocate hands out is neither busy nor dirty, and moves to the LRU
\* list; when it hands out none, the tail of the LRU list is busy or dirty.
LEMMA AllocateFacts ==
  ASSUME IInv, ListsIntact, NEW l \in Seq(Entries), ToSet(l) = ToSet(lru)
  PROVE  /\ AllocateSucceeds(l) =>
              /\ Allocated(l) \in Entries
              /\ ~entry[Allocated(l)].io
              /\ ~entry[Allocated(l)].dirty
              /\ AllocatedLru(l) \in Seq(Entries)
              /\ AllocatedFree \in Seq(Entries)
              /\ Allocated(l) \in ToSet(AllocatedLru(l))
              /\ ToSet(AllocatedLru(l)) \union ToSet(AllocatedFree) = Entries
              /\ ToSet(AllocatedLru(l)) \intersect ToSet(AllocatedFree) = {}
              /\ ToSet(AllocatedFree) \subseteq ToSet(free)
              /\ ToSet(lru) \subseteq ToSet(AllocatedLru(l))
              /\ Injective(AllocatedFree)
         /\ ~AllocateSucceeds(l) =>
              /\ Last(l) \in Entries
              /\ entry[Last(l)].io \/ entry[Last(l)].dirty
<1>1. /\ free \in Seq(Entries)
      /\ ToSet(l) \union ToSet(free) = Entries
      /\ ToSet(l) \intersect ToSet(free) = {}
      /\ Injective(free)
      /\ \A e \in ToSet(free) : ~entry[e].io /\ ~entry[e].dirty
  BY DEF IInv, TypeOK, ListsCover, ListsIntact, Injective
<1>2. CASE free # <<>>
  <2>1. /\ Head(free) \in Entries
        /\ Head(free) \in ToSet(free)
        /\ Tail(free) \in Seq(Entries)
        /\ Injective(Tail(free))
        /\ ToSet(Tail(free)) = ToSet(free) \ {Head(free)}
    BY <1>1, <1>2, TailFacts
  <2> DEFINE x == Head(free)
  <2>a. x \in Entries
    BY <2>1
  <2> HIDE DEF x
  <2>b. Cons(x, l) \in Seq(Entries) /\ ToSet(Cons(x, l)) = ToSet(l) \union {x}
    BY <2>a, ConsFacts
  <2>2. /\ Cons(Head(free), l) \in Seq(Entries)
        /\ ToSet(Cons(Head(free), l)) = ToSet(l) \union {Head(free)}
    BY <2>b DEF x
  <2>3. /\ Allocated(l) = Head(free)
        /\ AllocatedLru(l) = Cons(Head(free), l)
        /\ AllocatedFree = Tail(free)
        /\ AllocateSucceeds(l)
    BY <1>2 DEF Allocated, AllocatedLru, AllocatedFree, AllocateSucceeds
  <2> QED BY <1>1, <2>1, <2>2, <2>3
<1>3. CASE free = <<>>
  <2>1. ToSet(free) = {}
    BY <1>3 DEF ToSet
  <2>2. l # <<>>
    BY <1>1, <2>1, SizesAssumption DEF ToSet
  <2>3. /\ Last(l) \in Entries
        /\ Front(l) \in Seq(Entries)
        /\ ToSet(Front(l)) \union {Last(l)} = ToSet(l)
    BY <2>2, FrontFacts
  <2>4. /\ Cons(Last(l), Front(l)) \in Seq(Entries)
        /\ ToSet(Cons(Last(l), Front(l))) = ToSet(Front(l)) \union {Last(l)}
    BY <2>3, ConsFacts
  <2>5. /\ Allocated(l) = Last(l)
        /\ AllocatedLru(l) = Cons(Last(l), Front(l))
        /\ AllocatedFree = free
        /\ AllocateSucceeds(l) <=> ~entry[Last(l)].io /\ ~entry[Last(l)].dirty
    BY <1>3 DEF Allocated, AllocatedLru, AllocatedFree, AllocateSucceeds
  <2> QED BY <1>1, <2>1, <2>3, <2>4, <2>5
<1> QED BY <1>2, <1>3

(***************************************************************************)
(* Steps that leave the cache and the requests alone.                      *)
(***************************************************************************)

\* A step that at most reorders the LRU list keeps what the invariant says of
\* entries, requests and queues.
LEMMA CacheFrame ==
  ASSUME IInv,
         ToSet(lru') = ToSet(lru),
         UNCHANGED <<entry, free, req, waitQ, doneQ, metaFlash, nFormat>>,
         TypeOK', FormatFirst', VictimStored'
  PROVE  IInv'
<1>1. QueuesMatchStatus'
  BY DEF IInv, QueuesMatchStatus
<1>2. RequestMatchesEntry'
  BY DEF IInv, RequestMatchesEntry, Outstanding, IsLoad
<1>3. OneRequestPerBusyEntry'
  BY DEF IInv, OneRequestPerBusyEntry, Outstanding
<1>a. OnePagePerEntry'
  BY DEF IInv, OnePagePerEntry
<1>4. RequestsSound'
  BY DEF IInv, RequestsSound, Outstanding
<1>5. EntriesSound'
  BY DEF IInv, EntriesSound
<1>6. ListsCover'
  BY DEF IInv, ListsCover, ListsIntact
<1>7. PagesStored'
  BY DEF IInv, PagesStored
<1> QED BY <1>1, <1>2, <1>3, <1>a, <1>4, <1>5, <1>6, <1>7 DEF IInv

\* The end of a phase.
LEMMA PhaseStep ==
  ASSUME IInv, phase' \in Phases,
         UNCHANGED <<cacheVars, reqVars, metaFlash, nFormat, hilQ, gcVars, latest>>
  PROVE  IInv'
<1>1. TypeOK'
  BY DEF IInv, TypeOK, cacheVars, reqVars, gcVars, gcCounts
<1>2. FormatFirst'
  BY DEF IInv, FormatFirst, Formatted, ListsIntact, cacheVars, gcVars, gcCounts
<1>3. VictimStored'
  BY DEF IInv, VictimStored, gcVars, gcCounts
<1> QED BY <1>1, <1>2, <1>3, CacheFrame DEF cacheVars, reqVars

\* A lookup that finds the page and does nothing more.
LEMMA LookupStep ==
  ASSUME IInv, phase' \in Phases, hilQ' \in Seq(HilRequestType), Formatted,
         lru' \in Seq(Entries), ToSet(lru') = ToSet(lru),
         UNCHANGED <<entry, free, reqVars, metaFlash, nFormat, gcVars, latest>>
  PROVE  IInv'
<1>1. TypeOK'
  BY DEF IInv, TypeOK, reqVars, gcVars, gcCounts
<1>2. FormatFirst'
  BY DEF FormatFirst, Formatted
<1>3. VictimStored'
  BY DEF IInv, VictimStored, gcVars, gcCounts
<1> QED BY <1>1, <1>2, <1>3, CacheFrame DEF reqVars

\* A command of the host joins the queue.
LEMMA HostArrivesStep ==
  ASSUME IInv, HostArrives
  PROVE  IInv'
<1>1. PICK cmd \in {"READ", "WRITE"}, n \in LPN, c \in 1..MaxLPNCount :
        /\ n + c - 1 \in LPN
        /\ hilQ' = Append(hilQ, [cmd |-> cmd, lpn |-> n, count |-> c, done |-> 0])
  BY DEF HostArrives
<1> DEFINE h == [cmd |-> cmd, lpn |-> n, count |-> c, done |-> 0]
<1>2. h \in HilRequestType
  BY <1>1 DEF HilRequestType
<1>3. hilQ \in Seq(HilRequestType)
  BY DEF IInv, TypeOK
<1> HIDE DEF h
<1>4. Append(hilQ, h) \in Seq(HilRequestType)
  BY <1>2, <1>3, AppendFacts
<1>5. hilQ' \in Seq(HilRequestType)
  BY <1>1, <1>4 DEF h
<1>6. /\ lru' \in Seq(Entries) /\ ToSet(lru') = ToSet(lru)
      /\ phase' \in Phases
  BY DEF HostArrives, cacheVars, IInv, TypeOK, Phases
<1> QED BY <1>5, <1>6, LookupStep DEF HostArrives, cacheVars

\* A page of the victim that has been read goes back to the GC wait queue.
LEMMA GCReadDoneStep ==
  ASSUME IInv, NEW g \in gcIssued, GCReadDone(g)
  PROVE  IInv'
<1> DEFINE h == [g EXCEPT !.status = "WRITE_WAIT"]
<1>1. g \in GcRequestType /\ gcQ \in Seq(GcRequestType)
  BY DEF IInv, TypeOK
<1>2. h \in GcRequestType
  BY <1>1 DEF GcRequestType
<1> HIDE DEF h
<1>3. Append(gcQ, h) \in Seq(GcRequestType)
  BY <1>1, <1>2, AppendFacts
<1>4. gcQ' = Append(gcQ, h)
  BY DEF GCReadDone, h
<1>5. TypeOK'
  BY <1>3, <1>4 DEF IInv, TypeOK, GCReadDone, cacheVars, reqVars, gcCounts
<1>6. FormatFirst'
  BY DEF IInv, FormatFirst, Formatted, GCReadDone
<1>7. VictimStored'
  BY DEF IInv, VictimStored, GCReadDone, gcCounts
<1> QED BY <1>5, <1>6, <1>7, CacheFrame DEF GCReadDone, cacheVars, reqVars

\* A page of the victim is counted.
LEMMA GCWriteDoneStep ==
  ASSUME IInv, GCWriteDone
  PROVE  IInv'
<1>1. gcDoneQ \in Seq(GcRequestType) /\ gcDoneQ # <<>>
  BY DEF IInv, TypeOK, GCWriteDone
<1>2. Head(gcDoneQ) \in GcRequestType /\ Tail(gcDoneQ) \in Seq(GcRequestType)
  BY <1>1, TailFacts
<1> DEFINE t == Head(gcDoneQ).io
<1>a. t \in Collectors
  BY <1>2 DEF GcRequestType
<1>b. gcLeft' = [gcLeft EXCEPT ![t] = @ - 1]
  BY DEF GCWriteDone
<1> HIDE DEF t
<1>3. gcLeft' \in [Collectors -> Int]
  BY <1>a, <1>b DEF IInv, TypeOK
<1>4. TypeOK'
  BY <1>2, <1>3 DEF IInv, TypeOK, GCWriteDone, cacheVars, reqVars
<1>5. FormatFirst'
  BY DEF IInv, FormatFirst, Formatted, ListsIntact, GCWriteDone, cacheVars
<1>6. VictimStored'
  BY DEF IInv, VictimStored, GCWriteDone
<1> QED BY <1>4, <1>5, <1>6, CacheFrame DEF GCWriteDone, cacheVars, reqVars

\* GetWaitRequest gives a request of the queue.
LEMMA GCWaitPositionFacts ==
  ASSUME TypeOK, gcQ # <<>>
  PROVE  /\ GCWaitPosition \in DOMAIN gcQ
         /\ GCWaitRequest \in GcRequestType
         /\ RemoveAt(gcQ, GCWaitPosition) \in Seq(GcRequestType)
<1> DEFINE metas == {i \in DOMAIN gcQ : gcQ[i].io = "META"}
<1>1. gcQ \in Seq(GcRequestType) /\ DOMAIN gcQ \subseteq Nat /\ 1 \in DOMAIN gcQ
  BY DEF TypeOK
<1>2. GCWaitPosition \in DOMAIN gcQ
  <2>1. CASE IsGCRunning("META") /\ metas # {}
    <3>1. \E i \in metas : \A j \in metas : i <= j
      BY <1>1, <2>1, LeastPosition
    <3> QED BY <2>1, <3>1 DEF GCWaitPosition
  <2>2. CASE ~(IsGCRunning("META") /\ metas # {})
    BY <1>1, <2>2 DEF GCWaitPosition
  <2> QED BY <2>1, <2>2
<1> QED BY <1>1, <1>2, RemoveAtFacts DEF GCWaitRequest

\* The NAND read of a page of the victim is issued.
LEMMA GCReadWaitStep ==
  ASSUME IInv, GCReadWait
  PROVE  IInv'
<1> DEFINE g == GCWaitRequest
           h == [g EXCEPT !.status = "READ_ISSUE"]
<1>1. g \in GcRequestType /\ gcQ' \in Seq(GcRequestType)
  BY GCWaitPositionFacts DEF IInv, GCReadWait
<1> HIDE DEF g
<1>2. h \in GcRequestType
  BY <1>1 DEF GcRequestType
<1>3. gcIssued' = gcIssued \union {h}
  BY DEF GCReadWait, g
<1> HIDE DEF h
<1>4. TypeOK'
  BY <1>1, <1>2, <1>3 DEF IInv, TypeOK, GCReadWait, cacheVars, reqVars, gcCounts
<1>5. FormatFirst'
  BY DEF IInv, FormatFirst, Formatted, GCReadWait
<1>6. VictimStored'
  BY DEF IInv, VictimStored, GCReadWait, gcCounts
<1> QED BY <1>4, <1>5, <1>6, CacheFrame DEF GCReadWait, cacheVars, reqVars

\* A collection starts on a victim whose valid pages are mapped.
LEMMA StartGCStep ==
  ASSUME IInv, NEW t \in Collectors, StartGC(t)
  PROVE  IInv'
<1>1. PICK victim \in SUBSET MappedPages(t), excess \in 0..MaxExcess :
        /\ gcVictim' = [gcVictim EXCEPT ![t] = victim]
        /\ gcLeft' = [gcLeft EXCEPT ![t] = Cardinality(victim) + excess]
        /\ gcExcess' = IF t = "GC" THEN excess ELSE gcExcess
  BY DEF StartGC
<1>2. MetaLPN \subseteq LPN
  <2>1. ASSUME NEW p \in MetaLPN PROVE p \in LPN
    <3> DEFINE L == L2VPerMetaPage
               P == MetaPageCount
    <3>1. L \in Nat \ {0} /\ P \in Nat \ {0} /\ p \in 0..P - 1
      BY SizesAssumption DEF MetaLPN
    <3>2. PICK d \in Nat : L = d + 1
      <4>1. L - 1 \in Nat /\ L = (L - 1) + 1
        BY <3>1
      <4> QED BY <4>1
    <3>3. P * L = P * d + P /\ P * d \in Nat
      BY <3>1, <3>2
    <3> QED BY <3>1, <3>3 DEF LPN
  <2> QED BY <2>1
<1>3. victim \subseteq LPN
  BY <1>1, <1>2 DEF MappedPages
<1>4. IsFiniteSet(victim)
  <2>1. MetaPageCount * L2VPerMetaPage - 1 \in Int
    BY SizesAssumption
  <2>2. IsFiniteSet(LPN)
    BY <2>1, FS_Interval DEF LPN
  <2> QED BY <1>3, <2>2, FS_Subset
<1>5. Cardinality(victim) + excess \in Int
  BY <1>1, <1>4, FS_CardinalityType
<1>6. TypeOK'
  <2>1. gcVictim' \in [Collectors -> SUBSET LPN]
    BY <1>1, <1>3 DEF IInv, TypeOK
  <2>2. gcLeft' \in [Collectors -> Int]
    BY <1>1, <1>5 DEF IInv, TypeOK
  <2>3. gcExcess' \in 0..MaxExcess
    BY <1>1 DEF IInv, TypeOK
  <2>4. phase' \in Phases
    BY DEF StartGC, Phases
  <2> QED BY <2>1, <2>2, <2>3, <2>4 DEF IInv, TypeOK, StartGC, cacheVars, reqVars
<1>7. FormatFirst'
  BY DEF FormatFirst, Formatted, StartGC
<1>8. VictimStored'
  BY <1>1 DEF IInv, TypeOK, VictimStored, StartGC, MappedPages, Collectors
<1> QED BY <1>6, <1>7, <1>8, CacheFrame DEF StartGC, cacheVars, reqVars

\* The next page of the victim joins the GC wait queue.
LEMMA GCReadStep ==
  ASSUME IInv, GCRead
  PROVE  IInv'
<1>1. PICK n \in gcVictim[Reader] :
        /\ gcVictim' = [gcVictim EXCEPT ![Reader] = @ \ {n}]
        /\ gcQ' = Append(gcQ, [io |-> Reader, status |-> "READ_WAIT", lpn |-> n,
                               buf |-> IF Reader = "GC" THEN Blank ELSE metaFlash[n]])
  BY DEF GCRead
<1> DEFINE g == [io |-> Reader, status |-> "READ_WAIT", lpn |-> n,
                 buf |-> IF Reader = "GC" THEN Blank ELSE metaFlash[n]]
<1>2. Reader \in Collectors
  BY DEF Reader, Collectors
<1>3. n \in LPN
  BY <1>2 DEF IInv, TypeOK
<1>4. (IF Reader = "GC" THEN Blank ELSE metaFlash[n]) \in Content
  <2>1. CASE Reader = "GC"
    BY <2>1, ContentFacts
  <2>2. CASE Reader = "META"
    BY <2>2 DEF IInv, TypeOK, VictimStored
  <2> QED BY <1>2, <2>1, <2>2 DEF Collectors
<1>5. g \in GcRequestType
  BY <1>2, <1>3, <1>4 DEF GcRequestType
<1> HIDE DEF g
<1>6. gcQ' = Append(gcQ, g)
  BY <1>1 DEF g
<1>7. gcQ' \in Seq(GcRequestType)
  BY <1>5, <1>6, AppendFacts DEF IInv, TypeOK
<1>8. Formatted
  BY <1>2 DEF IInv, FormatFirst
<1>9. gcVictim' \in [Collectors -> SUBSET LPN]
  BY <1>1 DEF IInv, TypeOK
<1>10. TypeOK'
  BY <1>7, <1>9 DEF IInv, TypeOK, GCRead, Phases, cacheVars, reqVars
<1>11. FormatFirst'
  BY <1>8 DEF FormatFirst, Formatted, GCRead
<1>12. VictimStored'
  BY <1>1, <1>2 DEF IInv, TypeOK, VictimStored, GCRead, Collectors
<1> QED BY <1>10, <1>11, <1>12, CacheFrame DEF GCRead, cacheVars, reqVars

(***************************************************************************)
(* The cache.                                                              *)
(***************************************************************************)

\* The flush of a dirty tail starts, or nothing can be done: what FormatBusy and
\* LoadMeta share.
LEMMA AllocateBusyStep ==
  ASSUME IInv, ListsIntact, NEW l \in Seq(Entries), ToSet(l) = ToSet(lru),
         AllocateBusy(l), phase' \in Phases,
         UNCHANGED <<doneQ, metaFlash, nFormat, hilQ, gcVars, latest>>
  PROVE  IInv'
<1> DEFINE e == Last(l)
           r == FirstFree
<1>1. /\ e \in Entries
      /\ entry[e].io \/ entry[e].dirty
      /\ lru' = l
      /\ free' = free
  BY AllocateFacts DEF AllocateBusy
<1>2. CASE entry[e].io \/ FreeRequests = {}
  <2>1. UNCHANGED <<entry, req, waitQ>>
    BY <1>2 DEF AllocateBusy
  <2>2. TypeOK'
    BY <1>1, <2>1 DEF IInv, TypeOK, gcVars, gcCounts
  <2>3. FormatFirst'
    BY <1>1 DEF IInv, FormatFirst, Formatted, ListsIntact, gcVars, gcCounts
  <2>4. VictimStored'
    BY DEF IInv, VictimStored, gcVars, gcCounts
  <2> QED BY <1>1, <2>1, <2>2, <2>3, <2>4, CacheFrame
<1>3. CASE ~(entry[e].io \/ FreeRequests = {})
  <2> DEFINE q == [status |-> "WRITE_WAIT", metaLPN |-> entry[e].metaLPN,
                   entry |-> e, buf |-> entry[e].l2v]
  <2>1. /\ req' = [req EXCEPT ![r] = q]
        /\ waitQ' = Append(waitQ, r)
        /\ entry' = [entry EXCEPT ![e].io = TRUE]
    BY <1>3 DEF AllocateBusy, StartRequest
  <2>2. r \in Requests /\ req[r].status = "FREE"
    BY <1>3 DEF FreeRequests, FirstFree
  <2>3. ~entry[e].io /\ entry[e].dirty /\ entry[e].valid /\ entry[e].metaLPN \in MetaLPN
    BY <1>1, <1>3 DEF IInv, EntriesSound
  <2> HIDE DEF e, r
  <2>4. entry[e] \in EntryType /\ entry \in [Entries -> EntryType]
    BY <1>1 DEF IInv, TypeOK
  <2>5. /\ entry' \in [Entries -> EntryType]
        /\ entry'[e] = [entry[e] EXCEPT !.io = TRUE]
        /\ \A f \in Entries : f # e => entry'[f] = entry[f]
    BY <1>1, <2>1, <2>4 DEF EntryType
  <2>6. /\ q \in RequestType
        /\ q.status = "WRITE_WAIT" /\ q.metaLPN = entry[e].metaLPN
        /\ q.entry = e /\ q.buf = entry[e].l2v /\ q.buf \in Content
    BY <1>1, <2>4 DEF EntryType, RequestType, Status, WaitStatus
  <2> HIDE DEF q
  <2>7. /\ req' \in [Requests -> RequestType]
        /\ req'[r] = q
        /\ \A s \in Requests : s # r => req'[s] = req[s]
    BY <2>1, <2>2, <2>6 DEF IInv, TypeOK
  <2>8. Outstanding' = Outstanding \union {r} /\ r \notin Outstanding
    BY <2>2, <2>6, <2>7 DEF Outstanding
  <2>9. \A s \in Outstanding : req[s].entry # e
    BY <2>3 DEF IInv, RequestMatchesEntry
  <2>10. r \notin ToSet(waitQ) /\ waitQ \in Seq(Requests) /\ Injective(waitQ)
    BY <2>2 DEF IInv, TypeOK, QueuesMatchStatus, WaitStatus, Injective
  <2>11. /\ waitQ' \in Seq(Requests)
         /\ ToSet(waitQ') = ToSet(waitQ) \union {r}
         /\ Injective(waitQ')
    BY <2>1, <2>2, <2>10, AppendFacts
  <2>12. TypeOK'
    BY <1>1, <2>5, <2>7, <2>11 DEF IInv, TypeOK, gcVars, gcCounts
  <2>13. QueuesMatchStatus'
    BY <2>2, <2>6, <2>7, <2>11 DEF IInv, QueuesMatchStatus, WaitStatus, DoneStatus, Injective
  <2>14. RequestMatchesEntry'
    <3>1. ASSUME NEW s \in Outstanding
          PROVE  /\ req'[s] = req[s] /\ req[s].entry \in Entries
                 /\ entry'[req[s].entry] = entry[req[s].entry]
      BY <2>5, <2>7, <2>8, <2>9 DEF IInv, RequestMatchesEntry, Outstanding
    <3>2. /\ entry'[e].io /\ entry'[e].metaLPN = q.metaLPN
          /\ entry'[e].valid = TRUE /\ entry'[e].dirty = TRUE
      BY <2>3, <2>4, <2>5, <2>6 DEF EntryType
    <3>3. ASSUME NEW s \in Outstanding'
          PROVE  /\ req'[s].entry \in Entries
                 /\ entry'[req'[s].entry].io
                 /\ entry'[req'[s].entry].metaLPN = req'[s].metaLPN
                 /\ entry'[req'[s].entry].valid <=> ~IsLoad(s)'
                 /\ entry'[req'[s].entry].dirty <=> ~IsLoad(s)'
      <4>1. CASE s = r
        BY <1>1, <2>6, <2>7, <3>2, <4>1 DEF IsLoad
      <4>2. CASE s # r
        BY <2>8, <3>1, <4>2 DEF IInv, RequestMatchesEntry, IsLoad
      <4> QED BY <4>1, <4>2
    <3> QED BY <3>3 DEF RequestMatchesEntry
  <2>15. OneRequestPerBusyEntry'
    <3>1. \A s \in Outstanding : s # r /\ req'[s] = req[s]
      BY <2>7, <2>8 DEF Outstanding
    <3>2. ASSUME NEW f \in Entries, entry'[f].io
          PROVE  \E s \in Outstanding' : req'[s].entry = f
      <4>1. CASE f = e
        BY <2>6, <2>7, <2>8, <4>1
      <4>2. CASE f # e
        BY <2>5, <2>8, <3>1, <3>2, <4>2 DEF IInv, OneRequestPerBusyEntry
      <4> QED BY <4>1, <4>2
    <3>3. ASSUME NEW s \in Outstanding', NEW u \in Outstanding', req'[s].entry = req'[u].entry
          PROVE  s = u
      BY <1>1, <2>6, <2>7, <2>8, <2>9, <3>1, <3>3
         DEF IInv, OneRequestPerBusyEntry, RequestMatchesEntry
    <3> QED BY <3>2, <3>3 DEF OneRequestPerBusyEntry
  <2>a. OnePagePerEntry'
    <3>1. \A f \in Entries : entry'[f].metaLPN = entry[f].metaLPN
      BY <2>4, <2>5 DEF EntryType
    <3> QED BY <3>1 DEF IInv, OnePagePerEntry
  <2>16. RequestsSound'
    BY <2>3, <2>6, <2>7, <2>8 DEF IInv, RequestsSound, Outstanding
  <2>17. EntriesSound'
    BY <2>3, <2>4, <2>5 DEF IInv, EntriesSound, EntryType
  <2>18. ListsCover'
    <3>1. e \notin ToSet(free)
      BY <2>3 DEF IInv, ListsCover
    <3>2. \A f \in ToSet(free) : f \in Entries /\ entry'[f] = entry[f]
      BY <2>5, <3>1 DEF IInv, ListsCover
    <3> QED BY <1>1, <3>2 DEF IInv, ListsCover, ListsIntact
  <2>19. PagesStored'
    BY <2>4, <2>5 DEF IInv, PagesStored, EntryType
  <2>20. FormatFirst'
    BY <1>1 DEF IInv, FormatFirst, Formatted, ListsIntact, gcVars, gcCounts
  <2>21. VictimStored'
    BY DEF IInv, VictimStored, gcVars, gcCounts
  <2> QED BY <2>12, <2>13, <2>14, <2>15, <2>a, <2>16, <2>17, <2>18, <2>19, <2>20, <2>21 DEF IInv
<1> QED BY <1>2, <1>3

(***************************************************************************)
(* The requests.                                                           *)
(***************************************************************************)

\* A request that takes its next step, and stays a load or a flush, still agrees
\* with its entry.
LEMMA AdvanceStep ==
  ASSUME IInv, NEW r \in Outstanding, NEW q \in RequestType,
         req' = [req EXCEPT ![r] = q],
         q.status # "FREE",
         q.metaLPN = req[r].metaLPN,
         q.entry = req[r].entry,
         IsLoad(r) <=> q.status \in {"READ_WAIT", "READ_ISSUE", "READ_DONE"},
         q.status # "READ_WAIT" => q.buf \in Content,
         q.status # "WRITE_WAIT" => metaFlash'[q.metaLPN] # NoContent,
         \A p \in MetaLPN : metaFlash[p] # NoContent => metaFlash'[p] # NoContent,
         UNCHANGED <<cacheVars, nFormat>>,
         TypeOK', QueuesMatchStatus', FormatFirst', VictimStored'
  PROVE  IInv'
<1>1. /\ r \in Requests /\ req'[r] = q
      /\ \A s \in Requests : s # r => req'[s] = req[s]
  BY DEF IInv, TypeOK, Outstanding
<1>2. Outstanding' = Outstanding
  BY <1>1 DEF Outstanding
<1>3. \A s \in Outstanding :
        /\ req'[s].metaLPN = req[s].metaLPN /\ req'[s].entry = req[s].entry
        /\ IsLoad(s)' <=> IsLoad(s)
  BY <1>1 DEF Outstanding, IsLoad
<1>4. entry' = entry /\ lru' = lru /\ free' = free /\ nFormat' = nFormat
  BY DEF cacheVars
<1>5. RequestMatchesEntry'
  BY <1>2, <1>3, <1>4 DEF IInv, RequestMatchesEntry
<1>6. OneRequestPerBusyEntry'
  BY <1>2, <1>3, <1>4 DEF IInv, OneRequestPerBusyEntry
<1>7. OnePagePerEntry'
  BY <1>4 DEF IInv, OnePagePerEntry
<1>8. RequestsSound'
  <2>1. ASSUME NEW s \in Outstanding
        PROVE  /\ req'[s].metaLPN \in MetaLPN
               /\ req'[s].status # "READ_WAIT" => req'[s].buf \in Content
               /\ req'[s].status # "WRITE_WAIT" => metaFlash'[req'[s].metaLPN] # NoContent
    <3>1. CASE s = r
      BY <1>1, <3>1 DEF IInv, RequestsSound
    <3>2. CASE s # r
      BY <1>1, <3>2 DEF IInv, RequestsSound, Outstanding
    <3> QED BY <3>1, <3>2
  <2> QED BY <1>2, <2>1 DEF RequestsSound
<1>9. EntriesSound'
  BY <1>4 DEF IInv, EntriesSound
<1>10. ListsCover'
  BY <1>4 DEF IInv, ListsCover, ListsIntact
<1>11. PagesStored'
  BY <1>4 DEF IInv, PagesStored
<1> QED BY <1>5, <1>6, <1>7, <1>8, <1>9, <1>10, <1>11 DEF IInv

\* A NAND read that finishes moves its request to the done queue.
LEMMA MetaReadCallBackStep ==
  ASSUME IInv, NEW r \in Requests, MetaReadCallBack(r)
  PROVE  IInv'
<1> DEFINE q == [req[r] EXCEPT !.status = "READ_DONE"]
<1>1. req[r] \in RequestType /\ req[r].status = "READ_ISSUE"
  BY DEF MetaReadCallBack, IInv, TypeOK
<1>2. /\ q \in RequestType /\ q.status = "READ_DONE"
      /\ q.metaLPN = req[r].metaLPN /\ q.entry = req[r].entry /\ q.buf = req[r].buf
  BY <1>1 DEF RequestType, Status, DoneStatus
<1>3. req' = [req EXCEPT ![r] = q]
  BY DEF MetaReadCallBack, IInv, TypeOK
<1>4. r \in Outstanding /\ IsLoad(r)
  BY <1>1 DEF Outstanding, IsLoad
<1> HIDE DEF q
<1>5. /\ req' \in [Requests -> RequestType] /\ req'[r] = q
      /\ \A s \in Requests : s # r => req'[s] = req[s]
  BY <1>2, <1>3 DEF IInv, TypeOK
<1>6. doneQ \in Seq(Requests) /\ r \notin ToSet(doneQ) /\ Injective(doneQ)
  BY <1>1 DEF IInv, TypeOK, QueuesMatchStatus, DoneStatus, Injective
<1>7. /\ doneQ' \in Seq(Requests) /\ Injective(doneQ')
      /\ ToSet(doneQ') = ToSet(doneQ) \union {r}
  BY <1>6, AppendFacts DEF MetaReadCallBack
<1>8. QueuesMatchStatus'
  BY <1>1, <1>2, <1>5, <1>7
     DEF IInv, QueuesMatchStatus, WaitStatus, DoneStatus, Injective, MetaReadCallBack
<1>9. TypeOK'
  BY <1>5, <1>7 DEF IInv, TypeOK, MetaReadCallBack, cacheVars, gcVars, gcCounts
<1>10. FormatFirst'
  BY DEF IInv, FormatFirst, Formatted, ListsIntact, MetaReadCallBack, cacheVars, gcVars,
         gcCounts
<1>11. VictimStored'
  BY DEF IInv, VictimStored, MetaReadCallBack, gcVars, gcCounts
<1>12. /\ q.buf \in Content /\ metaFlash'[q.metaLPN] # NoContent
       /\ metaFlash' = metaFlash
       /\ UNCHANGED <<cacheVars, nFormat>>
  BY <1>1, <1>2, <1>4 DEF IInv, RequestsSound, MetaReadCallBack
<1> QED BY <1>2, <1>3, <1>4, <1>8, <1>9, <1>10, <1>11, <1>12, AdvanceStep

\* The head of the wait queue is an outstanding request, and leaves it.
LEMMA WaitHeadFacts ==
  ASSUME IInv, waitQ # <<>>
  PROVE  /\ Head(waitQ) \in Outstanding
         /\ Head(waitQ) \in Requests
         /\ req[Head(waitQ)] \in RequestType
         /\ req[Head(waitQ)].status \in WaitStatus
         /\ Head(waitQ) \notin ToSet(doneQ)
         /\ Tail(waitQ) \in Seq(Requests)
         /\ Injective(Tail(waitQ))
         /\ ToSet(Tail(waitQ)) = ToSet(waitQ) \ {Head(waitQ)}
<1>1. waitQ \in Seq(Requests) /\ Injective(waitQ)
  BY DEF IInv, TypeOK, QueuesMatchStatus, Injective
<1>2. /\ Head(waitQ) \in Requests
      /\ Head(waitQ) \in ToSet(waitQ)
      /\ Tail(waitQ) \in Seq(Requests)
      /\ Injective(Tail(waitQ))
      /\ ToSet(Tail(waitQ)) = ToSet(waitQ) \ {Head(waitQ)}
  BY <1>1, TailFacts
<1>3. req[Head(waitQ)].status \in WaitStatus /\ Head(waitQ) \notin ToSet(doneQ)
  BY <1>2 DEF IInv, QueuesMatchStatus, WaitStatus, DoneStatus
<1> QED BY <1>2, <1>3 DEF IInv, TypeOK, Outstanding, WaitStatus

\* A load leaves the wait queue, with the page or to wait for the NAND.
LEMMA MetaReadWaitStep ==
  ASSUME IInv, NEW hit \in BOOLEAN, MetaReadWait(hit)
  PROVE  IInv'
<1> DEFINE r == Head(waitQ)
           q == [req[r] EXCEPT !.status = IF hit THEN "READ_DONE" ELSE "READ_ISSUE",
                               !.buf = metaFlash[req[r].metaLPN]]
<1>0. waitQ # <<>>
  BY DEF MetaReadWait
<1>1. /\ r \in Outstanding /\ r \in Requests /\ req[r] \in RequestType
      /\ r \notin ToSet(doneQ)
      /\ Tail(waitQ) \in Seq(Requests) /\ Injective(Tail(waitQ))
      /\ ToSet(Tail(waitQ)) = ToSet(waitQ) \ {r}
  BY <1>0, WaitHeadFacts
<1>2. /\ req[r].status = "READ_WAIT"
      /\ req' = [req EXCEPT ![r] = q]
      /\ doneQ' = IF hit THEN Append(doneQ, r) ELSE doneQ
      /\ waitQ' = Tail(waitQ)
  BY DEF MetaReadWait, IInv, TypeOK
<1> HIDE DEF r
<1>3. req[r].metaLPN \in MetaLPN /\ metaFlash[req[r].metaLPN] \in Content
  BY <1>1, <1>2 DEF IInv, TypeOK, RequestsSound
<1>4. /\ q \in RequestType /\ q.status = (IF hit THEN "READ_DONE" ELSE "READ_ISSUE")
      /\ q.metaLPN = req[r].metaLPN /\ q.entry = req[r].entry
      /\ q.buf = metaFlash[req[r].metaLPN]
  BY <1>1, <1>3 DEF RequestType, Status, DoneStatus
<1>5. IsLoad(r)
  BY <1>2 DEF IsLoad
<1> HIDE DEF q
<1>6. /\ req' \in [Requests -> RequestType] /\ req'[r] = q
      /\ \A s \in Requests : s # r => req'[s] = req[s]
  BY <1>1, <1>2, <1>4 DEF IInv, TypeOK
<1>7. doneQ \in Seq(Requests) /\ Injective(doneQ)
  BY DEF IInv, TypeOK, QueuesMatchStatus, Injective
<1>8. /\ doneQ' \in Seq(Requests) /\ Injective(doneQ')
      /\ ToSet(doneQ') = IF hit THEN ToSet(doneQ) \union {r} ELSE ToSet(doneQ)
  BY <1>1, <1>2, <1>7, AppendFacts
<1>9. QueuesMatchStatus'
  <2>1. Injective(waitQ') /\ Injective(doneQ')
    BY <1>1, <1>2, <1>8
  <2>2. ToSet(waitQ') = {s \in Requests : req'[s].status \in WaitStatus}
    BY <1>1, <1>2, <1>4, <1>6 DEF IInv, QueuesMatchStatus, WaitStatus
  <2>3. ToSet(doneQ') = {s \in Requests : req'[s].status \in DoneStatus}
    BY <1>1, <1>2, <1>4, <1>6, <1>8 DEF IInv, QueuesMatchStatus, DoneStatus
  <2> QED BY <2>1, <2>2, <2>3 DEF QueuesMatchStatus, Injective
<1>10. TypeOK'
  BY <1>1, <1>2, <1>6, <1>8 DEF IInv, TypeOK, MetaReadWait, cacheVars, gcVars, gcCounts
<1>11. FormatFirst'
  BY DEF IInv, FormatFirst, Formatted, ListsIntact, MetaReadWait, cacheVars, gcVars,
         gcCounts
<1>12. VictimStored'
  BY DEF IInv, VictimStored, MetaReadWait, gcVars, gcCounts
<1>13. metaFlash' = metaFlash /\ UNCHANGED <<cacheVars, nFormat>>
  BY DEF MetaReadWait
<1>14. /\ q.status # "FREE"
       /\ IsLoad(r) <=> q.status \in {"READ_WAIT", "READ_ISSUE", "READ_DONE"}
       /\ q.buf \in Content
       /\ metaFlash'[q.metaLPN] # NoContent
  BY <1>3, <1>4, <1>5, <1>13, ContentFacts
<1> QED BY <1>1, <1>2, <1>4, <1>9, <1>10, <1>11, <1>12, <1>13, <1>14, AdvanceStep

\* A flush stores its page and moves to the done queue.
LEMMA MetaWriteWaitStep ==
  ASSUME IInv, MetaWriteWait
  PROVE  IInv'
<1> DEFINE r == Head(waitQ)
           q == [req[r] EXCEPT !.status = "WRITE_DONE"]
<1>0. waitQ # <<>>
  BY DEF MetaWriteWait
<1>1. /\ r \in Outstanding /\ r \in Requests /\ req[r] \in RequestType
      /\ r \notin ToSet(doneQ)
      /\ Tail(waitQ) \in Seq(Requests) /\ Injective(Tail(waitQ))
      /\ ToSet(Tail(waitQ)) = ToSet(waitQ) \ {r}
  BY <1>0, WaitHeadFacts
<1>2. /\ req[r].status = "WRITE_WAIT"
      /\ req' = [req EXCEPT ![r] = q]
      /\ doneQ' = Append(doneQ, r)
      /\ waitQ' = Tail(waitQ)
      /\ metaFlash' = [metaFlash EXCEPT ![req[r].metaLPN] = req[r].buf]
      /\ gcVictim' = [gcVictim EXCEPT !["META"] = @ \ {req[r].metaLPN}]
  BY DEF MetaWriteWait, IInv, TypeOK
<1> HIDE DEF r
<1>3. req[r].metaLPN \in MetaLPN /\ req[r].buf \in Content
  BY <1>1, <1>2 DEF IInv, RequestsSound
<1>4. /\ q \in RequestType /\ q.status = "WRITE_DONE"
      /\ q.metaLPN = req[r].metaLPN /\ q.entry = req[r].entry /\ q.buf = req[r].buf
  BY <1>1 DEF RequestType, Status, DoneStatus
<1>5. ~IsLoad(r)
  BY <1>2 DEF IsLoad
<1> HIDE DEF q
<1>6. /\ req' \in [Requests -> RequestType] /\ req'[r] = q
      /\ \A s \in Requests : s # r => req'[s] = req[s]
  BY <1>1, <1>2, <1>4 DEF IInv, TypeOK
<1>7. doneQ \in Seq(Requests) /\ Injective(doneQ)
  BY DEF IInv, TypeOK, QueuesMatchStatus, Injective
<1>8. /\ doneQ' \in Seq(Requests) /\ Injective(doneQ')
      /\ ToSet(doneQ') = ToSet(doneQ) \union {r}
  BY <1>1, <1>2, <1>7, AppendFacts
<1>9. QueuesMatchStatus'
  <2>1. Injective(waitQ') /\ Injective(doneQ')
    BY <1>1, <1>2, <1>8
  <2>2. ToSet(waitQ') = {s \in Requests : req'[s].status \in WaitStatus}
    BY <1>1, <1>2, <1>4, <1>6 DEF IInv, QueuesMatchStatus, WaitStatus
  <2>3. ToSet(doneQ') = {s \in Requests : req'[s].status \in DoneStatus}
    BY <1>1, <1>2, <1>4, <1>6, <1>8 DEF IInv, QueuesMatchStatus, DoneStatus
  <2> QED BY <2>1, <2>2, <2>3 DEF QueuesMatchStatus, Injective
<1>10. /\ metaFlash' \in [MetaLPN -> Content \union {NoContent}]
       /\ metaFlash'[req[r].metaLPN] \in Content
       /\ \A p \in MetaLPN : metaFlash[p] # NoContent => metaFlash'[p] # NoContent
  BY <1>2, <1>3, ContentFacts DEF IInv, TypeOK
<1>11. /\ gcVictim' \in [Collectors -> SUBSET LPN]
       /\ \A t \in Collectors : gcVictim'[t] \subseteq gcVictim[t]
  BY <1>2 DEF IInv, TypeOK
<1>12. TypeOK'
  BY <1>1, <1>2, <1>6, <1>8, <1>10, <1>11 DEF IInv, TypeOK, MetaWriteWait, cacheVars
<1>13. FormatFirst'
  BY <1>11 DEF IInv, FormatFirst, Formatted, ListsIntact, MetaWriteWait, cacheVars
<1>14. VictimStored'
  BY <1>10, <1>11 DEF IInv, VictimStored, Collectors
<1>15. UNCHANGED <<cacheVars, nFormat>>
  BY DEF MetaWriteWait
<1>16. /\ q.status # "FREE"
       /\ IsLoad(r) <=> q.status \in {"READ_WAIT", "READ_ISSUE", "READ_DONE"}
       /\ q.buf \in Content
       /\ metaFlash'[q.metaLPN] # NoContent
  BY <1>3, <1>4, <1>5, <1>10, ContentFacts
<1> QED BY <1>1, <1>2, <1>4, <1>9, <1>10, <1>12, <1>13, <1>14, <1>15, <1>16, AdvanceStep

\* A request that ends clears the marks of its entry and is free again.
LEMMA FinishStep ==
  ASSUME IInv, doneQ # <<>>,
         NEW r, r = Head(doneQ), NEW e, e = req[r].entry,
         entry' \in [Entries -> EntryType],
         entry'[e].metaLPN = entry[e].metaLPN,
         entry'[e].valid = TRUE,
         entry'[e].dirty = FALSE,
         entry'[e].io = FALSE,
         \A f \in Entries : f # e => entry'[f] = entry[f],
         req' = [req EXCEPT ![r] = FreeRequest],
         doneQ' = Tail(doneQ),
         UNCHANGED <<lru, free, waitQ, metaFlash, nFormat, phase, hilQ, gcVars, latest>>
  PROVE  IInv'
<1>1. doneQ \in Seq(Requests) /\ Injective(doneQ)
  BY DEF IInv, TypeOK, QueuesMatchStatus, Injective
<1>2. /\ r \in Requests
      /\ r \in ToSet(doneQ)
      /\ doneQ' \in Seq(Requests)
      /\ Injective(doneQ')
      /\ ToSet(doneQ') = ToSet(doneQ) \ {r}
  BY <1>1, TailFacts
<1>3. /\ r \in Outstanding
      /\ req[r].status \in DoneStatus
  BY <1>2 DEF IInv, QueuesMatchStatus, DoneStatus, Outstanding
<1>4. /\ e \in Entries
      /\ entry[e].io
      /\ entry[e].metaLPN = req[r].metaLPN
      /\ req[r].metaLPN \in MetaLPN
      /\ metaFlash[entry[e].metaLPN] # NoContent
  BY <1>3 DEF IInv, RequestMatchesEntry, RequestsSound, DoneStatus
<1>8. FreeRequest \in RequestType /\ FreeRequest.status = "FREE"
  BY DEF FreeRequest, RequestType, Status
<1>9. /\ req' \in [Requests -> RequestType]
      /\ req'[r] = FreeRequest
      /\ \A s \in Requests : s # r => req'[s] = req[s]
  BY <1>2, <1>8 DEF IInv, TypeOK
<1>10. Outstanding' = Outstanding \ {r}
  BY <1>2, <1>8, <1>9 DEF Outstanding
<1>11. \A s \in Outstanding' : /\ s \in Outstanding /\ s \in Requests
                               /\ req'[s] = req[s]
                               /\ req[s].entry \in Entries /\ req[s].entry # e
  BY <1>3, <1>4, <1>9, <1>10
     DEF IInv, OneRequestPerBusyEntry, RequestMatchesEntry, Outstanding
<1>12. TypeOK'
  BY <1>2, <1>9 DEF IInv, TypeOK, gcVars, gcCounts
<1>13. QueuesMatchStatus'
  <2>1. ToSet(waitQ') = {s \in Requests : req'[s].status \in WaitStatus}
    BY <1>2, <1>3, <1>8, <1>9 DEF IInv, QueuesMatchStatus, WaitStatus, DoneStatus
  <2>2. ToSet(doneQ') = {s \in Requests : req'[s].status \in DoneStatus}
    BY <1>2, <1>3, <1>8, <1>9 DEF IInv, QueuesMatchStatus, DoneStatus
  <2> QED BY <1>2, <2>1, <2>2 DEF IInv, QueuesMatchStatus, Injective
<1>14. RequestMatchesEntry'
  <2>1. \A s \in Outstanding' :
          /\ entry'[req'[s].entry] = entry[req[s].entry]
          /\ IsLoad(s)' <=> IsLoad(s)
    BY <1>11 DEF IsLoad
  <2> QED BY <1>11, <2>1 DEF IInv, RequestMatchesEntry
<1>15. OneRequestPerBusyEntry'
  <2>1. ASSUME NEW f \in Entries, entry'[f].io
        PROVE  \E s \in Outstanding' : req'[s].entry = f
    <3>1. f # e /\ entry[f].io
      BY <2>1
    <3>2. PICK s \in Outstanding : req[s].entry = f
      BY <3>1 DEF IInv, OneRequestPerBusyEntry
    <3> QED BY <1>10, <1>11, <3>1, <3>2
  <2>2. ASSUME NEW s \in Outstanding', NEW u \in Outstanding', req'[s].entry = req'[u].entry
        PROVE  s = u
    BY <1>11, <2>2 DEF IInv, OneRequestPerBusyEntry
  <2> QED BY <2>1, <2>2 DEF OneRequestPerBusyEntry
<1>16. OnePagePerEntry'
  <2>1. \A f \in Entries : entry'[f].metaLPN = entry[f].metaLPN
    OBVIOUS
  <2> QED BY <2>1 DEF IInv, OnePagePerEntry
<1>17. RequestsSound'
  BY <1>11 DEF IInv, RequestsSound
<1>18. EntriesSound'
  BY <1>4 DEF IInv, EntriesSound
<1>19. ListsCover'
  <2>1. \A f \in Entries : entry'[f].io \/ entry'[f].dirty => entry[f].io \/ entry[f].dirty
    OBVIOUS
  <2>2. \A f \in Entries : entry'[f].metaLPN = entry[f].metaLPN
    OBVIOUS
  <2> QED BY <2>1, <2>2 DEF IInv, ListsCover, ListsIntact
<1>20. PagesStored'
  BY <1>4 DEF IInv, PagesStored
<1>21. FormatFirst'
  BY DEF IInv, FormatFirst, Formatted, ListsIntact, gcVars, gcCounts
<1>22. VictimStored'
  BY DEF IInv, VictimStored, gcVars, gcCounts
<1> QED BY <1>12, <1>13, <1>14, <1>15, <1>16, <1>17, <1>18, <1>19, <1>20, <1>21, <1>22
        DEF IInv

\* What a done request says of its entry.
LEMMA DoneHeadFacts ==
  ASSUME IInv, doneQ # <<>>
  PROVE  LET r == Head(doneQ) IN
         /\ r \in Requests
         /\ req[r].entry \in Entries
         /\ req[r].buf \in Content
         /\ entry[req[r].entry] \in EntryType
         /\ ~IsLoad(r) => entry[req[r].entry].valid
<1> DEFINE r == Head(doneQ)
<1>1. r \in Requests /\ r \in ToSet(doneQ)
  BY TailFacts DEF IInv, TypeOK
<1>2. r \in Outstanding /\ req[r].status \in DoneStatus
  BY <1>1 DEF IInv, QueuesMatchStatus, DoneStatus, Outstanding
<1> QED BY <1>1, <1>2 DEF IInv, TypeOK, RequestMatchesEntry, RequestsSound, DoneStatus

\* LoadDone: the entry gets the page that was read.
LEMMA MetaReadDoneStep ==
  ASSUME IInv, MetaReadDone
  PROVE  IInv'
<1> DEFINE r == Head(doneQ)
           e == req[r].entry
           v == req[r].buf
<1>1. /\ r \in Requests /\ e \in Entries /\ v \in Content /\ entry[e] \in EntryType
      /\ entry \in [Entries -> EntryType]
  BY DoneHeadFacts DEF MetaReadDone, IInv, TypeOK
<1>2. entry' = [entry EXCEPT ![e].io = FALSE, ![e].dirty = FALSE,
                             ![e].valid = TRUE, ![e].l2v = v]
  BY DEF MetaReadDone
<1> HIDE DEF e, v
<1>3. /\ entry' \in [Entries -> EntryType]
      /\ entry'[e].metaLPN = entry[e].metaLPN /\ entry'[e].valid = TRUE
      /\ entry'[e].dirty = FALSE /\ entry'[e].io = FALSE
      /\ \A f \in Entries : f # e => entry'[f] = entry[f]
  BY <1>1, <1>2 DEF EntryType
<1>4. /\ doneQ # <<>> /\ e = req[Head(doneQ)].entry
      /\ req' = [req EXCEPT ![Head(doneQ)] = FreeRequest]
      /\ doneQ' = Tail(doneQ)
      /\ UNCHANGED <<lru, free, waitQ, metaFlash, nFormat, phase, hilQ, gcVars, latest>>
  BY DEF MetaReadDone, e
<1> HIDE DEF r
<1> QED BY <1>1, <1>3, <1>4, FinishStep

\* StoreDone: the entry is clean.
LEMMA MetaWriteDoneStep ==
  ASSUME IInv, MetaWriteDone
  PROVE  IInv'
<1> DEFINE r == Head(doneQ)
           e == req[r].entry
           v == entry[e].l2v
<1>1. /\ r \in Requests /\ e \in Entries /\ entry[e] \in EntryType
      /\ entry \in [Entries -> EntryType]
      /\ entry[e].valid = TRUE
  BY DoneHeadFacts DEF MetaWriteDone, IInv, TypeOK, EntryType, IsLoad
<1>2. entry' = [entry EXCEPT ![e].io = FALSE, ![e].dirty = FALSE] /\ v \in Content
  BY <1>1 DEF MetaWriteDone, EntryType
<1> HIDE DEF e
<1>3. /\ entry' \in [Entries -> EntryType]
      /\ entry'[e].metaLPN = entry[e].metaLPN /\ entry'[e].valid = TRUE
      /\ entry'[e].dirty = FALSE /\ entry'[e].io = FALSE
      /\ \A f \in Entries : f # e => entry'[f] = entry[f]
  BY <1>1, <1>2 DEF EntryType
<1>4. /\ doneQ # <<>> /\ e = req[Head(doneQ)].entry
      /\ req' = [req EXCEPT ![Head(doneQ)] = FreeRequest]
      /\ doneQ' = Tail(doneQ)
      /\ UNCHANGED <<lru, free, waitQ, metaFlash, nFormat, phase, hilQ, gcVars, latest>>
  BY DEF MetaWriteDone, e
<1> HIDE DEF r
<1> QED BY <1>1, <1>2, <1>3, <1>4, FinishStep

(***************************************************************************)
(* LoadMeta, FormatPage and SetL2V: the steps that change entries.         *)
(***************************************************************************)

\* On a list of the LRU entries, as long as no entry is on both lists: a page that
\* is not found is in no entry, and has been stored.
LEMMA MissFacts ==
  ASSUME IInv, ListsIntact, Formatted,
         NEW l \in Seq(Entries), ToSet(l) = ToSet(lru),
         NEW p \in MetaLPN, ~IsCached(l, p)
  PROVE  /\ \A e \in Entries : entry[e].metaLPN # p
         /\ metaFlash[p] \in Content
<1>1. ASSUME NEW e \in ToSet(l), entry[e].metaLPN = p
      PROVE  FALSE
  <2>1. PICK i \in DOMAIN l : l[i] = e
    BY <1>1 DEF ToSet
  <2> QED BY <1>1, <2>1 DEF IsCached, Positions
<1>2. \A e \in ToSet(free) : entry[e].metaLPN # p
  BY ContentFacts DEF IInv, ListsCover
<1>3. \A e \in Entries : entry[e].metaLPN # p
  BY <1>1, <1>2 DEF IInv, ListsCover
<1>4. p < nFormat
  BY SizesAssumption DEF Formatted, MetaLPN
<1>5. metaFlash[p] # NoContent
  BY <1>3, <1>4 DEF IInv, PagesStored
<1>6. metaFlash[p] \in Content \union {NoContent}
  BY DEF IInv, TypeOK
<1> QED BY <1>3, <1>5, <1>6

\* A load starts: the allocated entry waits, empty, for its page.
LEMMA LoadStep ==
  ASSUME IInv, ListsIntact, Formatted,
         NEW l \in Seq(Entries), ToSet(l) = ToSet(lru),
         NEW p \in MetaLPN, ~IsCached(l, p),
         AllocateSucceeds(l), FreeRequests # {},
         lru' = AllocatedLru(l),
         free' = AllocatedFree,
         entry' = [entry EXCEPT ![Allocated(l)].valid = FALSE,
                                ![Allocated(l)].metaLPN = p,
                                ![Allocated(l)].io = TRUE],
         StartRequest("READ_WAIT", p, Allocated(l), NoContent),
         phase' \in Phases,
         UNCHANGED <<doneQ, metaFlash, nFormat, hilQ, gcVars, latest>>
  PROVE  IInv'
<1> DEFINE e == Allocated(l)
           r == FirstFree
           q == [status |-> "READ_WAIT", metaLPN |-> p, entry |-> e, buf |-> NoContent]
<1>1. /\ e \in Entries /\ ~entry[e].io /\ ~entry[e].dirty
      /\ lru' \in Seq(Entries) /\ free' \in Seq(Entries)
      /\ e \in ToSet(lru')
      /\ ToSet(lru') \union ToSet(free') = Entries
      /\ ToSet(lru') \intersect ToSet(free') = {}
      /\ ToSet(free') \subseteq ToSet(free)
      /\ Injective(free')
  BY AllocateFacts
<1>2. (\A f \in Entries : entry[f].metaLPN # p) /\ metaFlash[p] \in Content
  BY MissFacts
<1>3. r \in Requests /\ req[r].status = "FREE"
  BY DEF FreeRequests, FirstFree
<1>4. /\ req' = [req EXCEPT ![r] = q]
      /\ waitQ' = Append(waitQ, r)
  BY DEF StartRequest
<1> HIDE DEF e, r
<1>5. entry[e] \in EntryType /\ entry \in [Entries -> EntryType]
  BY <1>1 DEF IInv, TypeOK
<1>6. entry' = [entry EXCEPT ![e].valid = FALSE, ![e].metaLPN = p, ![e].io = TRUE]
  BY DEF e
<1>7. /\ entry' \in [Entries -> EntryType]
      /\ entry'[e].valid = FALSE /\ entry'[e].io = TRUE /\ entry'[e].metaLPN = p
      /\ entry'[e].dirty = FALSE
      /\ \A f \in Entries : f # e => entry'[f] = entry[f]
  BY <1>1, <1>5, <1>6 DEF EntryType
<1>8. /\ q \in RequestType /\ q.status = "READ_WAIT" /\ q.metaLPN = p /\ q.entry = e
  BY <1>1 DEF RequestType, Status, WaitStatus
<1> HIDE DEF q
<1>9. /\ req' \in [Requests -> RequestType]
      /\ req'[r] = q
      /\ \A s \in Requests : s # r => req'[s] = req[s]
  BY <1>3, <1>4, <1>8 DEF IInv, TypeOK
<1>10. Outstanding' = Outstanding \union {r} /\ r \notin Outstanding
  BY <1>3, <1>8, <1>9 DEF Outstanding
<1>11. \A s \in Outstanding : /\ s # r /\ req'[s] = req[s]
                              /\ req[s].entry \in Entries /\ req[s].entry # e
                              /\ entry'[req[s].entry] = entry[req[s].entry]
  BY <1>1, <1>7, <1>9, <1>10 DEF IInv, RequestMatchesEntry, Outstanding
<1>12. r \notin ToSet(waitQ) /\ waitQ \in Seq(Requests) /\ Injective(waitQ)
  BY <1>3 DEF IInv, TypeOK, QueuesMatchStatus, WaitStatus, Injective
<1>13. /\ waitQ' \in Seq(Requests)
       /\ ToSet(waitQ') = ToSet(waitQ) \union {r}
       /\ Injective(waitQ')
  BY <1>3, <1>4, <1>12, AppendFacts
<1>14. TypeOK'
  BY <1>1, <1>7, <1>9, <1>13 DEF IInv, TypeOK, gcVars, gcCounts
<1>15. QueuesMatchStatus'
  BY <1>3, <1>8, <1>9, <1>13 DEF IInv, QueuesMatchStatus, WaitStatus, DoneStatus, Injective
<1>16. RequestMatchesEntry'
  <2>1. ASSUME NEW s \in Outstanding'
        PROVE  /\ req'[s].entry \in Entries
               /\ entry'[req'[s].entry].io
               /\ entry'[req'[s].entry].metaLPN = req'[s].metaLPN
               /\ entry'[req'[s].entry].valid <=> ~IsLoad(s)'
               /\ entry'[req'[s].entry].dirty <=> ~IsLoad(s)'
    <3>1. CASE s = r
      BY <1>1, <1>7, <1>8, <1>9, <3>1 DEF IsLoad
    <3>2. CASE s # r
      <4>1. s \in Outstanding
        BY <1>10, <3>2
      <4> QED BY <1>11, <4>1 DEF IInv, RequestMatchesEntry, IsLoad
    <3> QED BY <3>1, <3>2
  <2> QED BY <2>1 DEF RequestMatchesEntry
<1>17. OneRequestPerBusyEntry'
  <2>1. ASSUME NEW f \in Entries, entry'[f].io
        PROVE  \E s \in Outstanding' : req'[s].entry = f
    <3>1. CASE f = e
      BY <1>8, <1>9, <1>10, <3>1
    <3>2. CASE f # e
      <4>1. entry[f].io
        BY <1>7, <2>1, <3>2
      <4>2. PICK s \in Outstanding : req[s].entry = f
        BY <4>1 DEF IInv, OneRequestPerBusyEntry
      <4> QED BY <1>10, <1>11, <4>2
    <3> QED BY <3>1, <3>2
  <2>2. ASSUME NEW s \in Outstanding', NEW u \in Outstanding', req'[s].entry = req'[u].entry
        PROVE  s = u
    BY <1>8, <1>9, <1>10, <1>11, <2>2 DEF IInv, OneRequestPerBusyEntry
  <2> QED BY <2>1, <2>2 DEF OneRequestPerBusyEntry
<1>18. OnePagePerEntry'
  <2>1. ASSUME NEW f \in Entries, NEW g \in Entries,
               entry'[f].metaLPN = entry'[g].metaLPN, entry'[f].metaLPN # NoPage, f # g
        PROVE  FALSE
    <3>1. CASE f = e
      BY <1>2, <1>7, <2>1, <3>1
    <3>2. CASE g = e
      BY <1>2, <1>7, <2>1, <3>2
    <3>3. CASE f # e /\ g # e
      <4>1. entry[f].metaLPN = entry[g].metaLPN /\ entry[f].metaLPN # NoPage
        BY <1>7, <2>1, <3>3
      <4> QED BY <2>1, <4>1 DEF IInv, OnePagePerEntry
    <3> QED BY <3>1, <3>2, <3>3
  <2> QED BY <2>1 DEF OnePagePerEntry
<1>19. RequestsSound'
  <2>1. metaFlash'[p] # NoContent
    BY <1>2, ContentFacts
  <2> QED BY <1>8, <1>9, <1>10, <1>11, <2>1 DEF IInv, RequestsSound
<1>20. EntriesSound'
  <2>1. p < nFormat'
    BY SizesAssumption DEF Formatted, MetaLPN
  <2>2. \A f \in Entries :
          /\ entry[f].dirty => entry[f].valid
          /\ entry[f].valid => entry[f].metaLPN \in MetaLPN
          /\ entry[f].metaLPN \in MetaLPN => entry[f].metaLPN < nFormat'
    BY DEF IInv, EntriesSound
  <2>3. ASSUME NEW f \in Entries
        PROVE  /\ entry'[f].dirty => entry'[f].valid
               /\ entry'[f].valid => entry'[f].metaLPN \in MetaLPN
               /\ entry'[f].metaLPN \in MetaLPN => entry'[f].metaLPN < nFormat'
    <3>1. CASE f = e
      BY <1>7, <2>1, <3>1
    <3>2. CASE f # e
      BY <1>7, <2>2, <3>2
    <3> QED BY <3>1, <3>2
  <2> QED BY <2>3 DEF EntriesSound
<1>21. ListsCover'
  <2>1. \A f \in ToSet(free') : f \in ToSet(free) /\ entry'[f] = entry[f]
    BY <1>1, <1>7
  <2> QED BY <1>1, <2>1 DEF IInv, ListsCover, ListsIntact, Injective
<1>22. PagesStored'
  BY <1>1, <1>7 DEF IInv, PagesStored
<1>23. FormatFirst'
  BY DEF FormatFirst, Formatted
<1>24. VictimStored'
  BY DEF IInv, VictimStored, gcVars, gcCounts
<1> QED BY <1>14, <1>15, <1>16, <1>17, <1>18, <1>19, <1>20, <1>21, <1>22, <1>23, <1>24
        DEF IInv

\* No request is left: the entry is put on the free list, and is on both.
LEMMA ReleaseStep ==
  ASSUME IInv, ListsIntact, Formatted,
         NEW l \in Seq(Entries), ToSet(l) = ToSet(lru),
         AllocateSucceeds(l),
         lru' = AllocatedLru(l),
         free' = Cons(Allocated(l), AllocatedFree),
         entry' = [entry EXCEPT ![Allocated(l)].valid = FALSE],
         UNCHANGED <<req, waitQ>>,
         phase' \in Phases,
         UNCHANGED <<doneQ, metaFlash, nFormat, hilQ, gcVars, latest>>
  PROVE  IInv'
<1> DEFINE e == Allocated(l)
           fs == AllocatedFree
<1>1. /\ e \in Entries /\ ~entry[e].io /\ ~entry[e].dirty
      /\ lru' \in Seq(Entries) /\ fs \in Seq(Entries)
      /\ e \in ToSet(lru')
  BY AllocateFacts
<1>2. free' = Cons(e, fs) /\ entry' = [entry EXCEPT ![e].valid = FALSE]
  OBVIOUS
<1> HIDE DEF e, fs
<1>3. free' \in Seq(Entries) /\ e \in ToSet(free')
  BY <1>1, <1>2, ConsFacts
<1>4. ~ListsIntact'
  BY <1>1, <1>3 DEF ListsIntact
<1>5. entry[e] \in EntryType /\ entry \in [Entries -> EntryType]
  BY <1>1 DEF IInv, TypeOK
<1>6. /\ entry' \in [Entries -> EntryType]
      /\ entry'[e].valid = FALSE /\ ~entry'[e].io /\ ~entry'[e].dirty
      /\ entry'[e].metaLPN = entry[e].metaLPN
      /\ \A f \in Entries : f # e => entry'[f] = entry[f]
  BY <1>1, <1>2, <1>5 DEF EntryType
<1>7. Outstanding' = Outstanding
  BY DEF Outstanding
<1>8. \A s \in Outstanding : req[s].entry # e /\ (IsLoad(s)' <=> IsLoad(s))
  BY <1>1 DEF IInv, RequestMatchesEntry, IsLoad
<1>9. TypeOK'
  BY <1>1, <1>3, <1>6 DEF IInv, TypeOK, gcVars, gcCounts
<1>10. QueuesMatchStatus'
  BY DEF IInv, QueuesMatchStatus
<1>11. RequestMatchesEntry'
  <2>1. ASSUME NEW s \in Outstanding
        PROVE  /\ req[s].entry \in Entries
               /\ entry'[req[s].entry] = entry[req[s].entry]
               /\ entry[req[s].entry].io
               /\ entry[req[s].entry].metaLPN = req[s].metaLPN
               /\ entry[req[s].entry].valid <=> ~IsLoad(s)
               /\ entry[req[s].entry].dirty <=> ~IsLoad(s)
    BY <1>6, <1>8 DEF IInv, RequestMatchesEntry
  <2> QED BY <1>7, <1>8, <2>1 DEF RequestMatchesEntry
<1>12. OneRequestPerBusyEntry'
  BY <1>6, <1>7 DEF IInv, OneRequestPerBusyEntry
<1>13. OnePagePerEntry'
  <2>1. \A f \in Entries : entry'[f].metaLPN = entry[f].metaLPN
    BY <1>6
  <2> QED BY <2>1 DEF IInv, OnePagePerEntry
<1>14. RequestsSound'
  BY <1>7 DEF IInv, RequestsSound
<1>15. EntriesSound'
  BY <1>6 DEF IInv, EntriesSound
<1>16. ListsCover'
  BY <1>4 DEF ListsCover
<1>17. PagesStored'
  BY <1>1, <1>6 DEF IInv, PagesStored
<1>18. FormatFirst'
  BY DEF FormatFirst, Formatted
<1>19. VictimStored'
  BY DEF IInv, VictimStored, gcVars, gcCounts
<1> QED BY <1>9, <1>10, <1>11, <1>12, <1>13, <1>14, <1>15, <1>16, <1>17, <1>18, <1>19
        DEF IInv

\* META_CACHE::LoadMeta, after a lookup.
LEMMA LoadMetaStep ==
  ASSUME IInv, ListsIntact, Formatted,
         NEW l \in Seq(Entries), ToSet(l) = ToSet(lru),
         NEW p \in MetaLPN, LoadMeta(l, p), phase' \in Phases,
         UNCHANGED <<doneQ, metaFlash, nFormat, hilQ, gcVars, latest>>
  PROVE  IInv'
<1>1. CASE /\ lru' = Touch(l, p)
           /\ UNCHANGED <<entry, free, req, waitQ>>
  <2>1. lru' \in Seq(Entries) /\ ToSet(lru') = ToSet(lru) /\ hilQ' \in Seq(HilRequestType)
    BY <1>1, TouchFacts DEF IInv, TypeOK
  <2> QED BY <1>1, <2>1, LookupStep DEF reqVars
<1>2. CASE AllocateBusy(l)
  BY <1>2, AllocateBusyStep
<1>3. CASE /\ ~IsCached(l, p)
           /\ AllocateSucceeds(l)
           /\ FreeRequests # {}
           /\ lru' = AllocatedLru(l)
           /\ free' = AllocatedFree
           /\ entry' = [entry EXCEPT ![Allocated(l)].valid = FALSE,
                                     ![Allocated(l)].metaLPN = p,
                                     ![Allocated(l)].io = TRUE]
           /\ StartRequest("READ_WAIT", p, Allocated(l), NoContent)
  BY <1>3, LoadStep
<1>4. CASE /\ AllocateSucceeds(l)
           /\ lru' = AllocatedLru(l)
           /\ free' = Cons(Allocated(l), AllocatedFree)
           /\ entry' = [entry EXCEPT ![Allocated(l)].valid = FALSE]
           /\ UNCHANGED <<req, waitQ>>
  BY <1>4, ReleaseStep
<1> QED BY <1>1, <1>2, <1>3, <1>4 DEF LoadMeta

\* META_CACHE::Format of the next page.
LEMMA FormatPageStep ==
  ASSUME IInv, FormatPage
  PROVE  IInv'
<1> DEFINE e == Allocated(lru)
<1>1. ListsIntact /\ lru \in Seq(Entries) /\ AllocateSucceeds(lru)
  BY DEF IInv, TypeOK, FormatFirst, FormatPage
<1>2. /\ e \in Entries /\ ~entry[e].io /\ ~entry[e].dirty
      /\ lru' \in Seq(Entries) /\ free' \in Seq(Entries)
      /\ e \in ToSet(lru')
      /\ ToSet(lru') \union ToSet(free') = Entries
      /\ ToSet(lru') \intersect ToSet(free') = {}
      /\ ToSet(free') \subseteq ToSet(free)
      /\ Injective(free')
  BY <1>1, AllocateFacts DEF FormatPage
<1>3. entry' = [entry EXCEPT ![e] = [metaLPN |-> nFormat, valid |-> TRUE, dirty |-> TRUE,
                                     io |-> entry[e].io, l2v |-> Blank]]
  BY DEF FormatPage
<1> HIDE DEF e
<1>4. nFormat \in MetaLPN /\ nFormat' = nFormat + 1 /\ nFormat' \in 0..MetaPageCount
  <2>1. nFormat \in 0..MetaPageCount
    BY DEF IInv, TypeOK
  <2>2. nFormat # MetaPageCount /\ nFormat' = nFormat + 1
    BY DEF FormatPage, Formatted
  <2>3. MetaPageCount \in Nat
    BY SizesAssumption
  <2> QED BY <2>1, <2>2, <2>3 DEF MetaLPN
<1>5. entry[e] \in EntryType /\ entry \in [Entries -> EntryType]
  BY <1>2 DEF IInv, TypeOK
<1>6. /\ entry' \in [Entries -> EntryType]
      /\ entry'[e].valid = TRUE /\ entry'[e].io = FALSE /\ entry'[e].metaLPN = nFormat
      /\ entry'[e].dirty = TRUE
      /\ \A f \in Entries : f # e => entry'[f] = entry[f]
  BY <1>2, <1>3, <1>4, <1>5, ContentFacts DEF EntryType
<1>7. Outstanding' = Outstanding /\ req' = req
  BY DEF Outstanding, FormatPage, reqVars
<1>8. \A s \in Outstanding : req[s].entry # e /\ (IsLoad(s)' <=> IsLoad(s))
  BY <1>2, <1>7 DEF IInv, RequestMatchesEntry, IsLoad
<1>9. TypeOK'
  BY <1>2, <1>4, <1>6 DEF IInv, TypeOK, FormatPage, Phases, reqVars, gcVars, gcCounts
<1>10. QueuesMatchStatus'
  BY DEF IInv, QueuesMatchStatus, FormatPage, reqVars
<1>11. RequestMatchesEntry'
  <2>1. ASSUME NEW s \in Outstanding
        PROVE  /\ req[s].entry \in Entries
               /\ entry'[req[s].entry] = entry[req[s].entry]
               /\ entry[req[s].entry].io
               /\ entry[req[s].entry].metaLPN = req[s].metaLPN
               /\ entry[req[s].entry].valid <=> ~IsLoad(s)
               /\ entry[req[s].entry].dirty <=> ~IsLoad(s)
    BY <1>6, <1>8 DEF IInv, RequestMatchesEntry
  <2> QED BY <1>7, <1>8, <2>1 DEF RequestMatchesEntry
<1>12. OneRequestPerBusyEntry'
  BY <1>6, <1>7 DEF IInv, OneRequestPerBusyEntry
<1>13. \A f \in Entries : entry[f].metaLPN # nFormat
  BY <1>4 DEF IInv, EntriesSound, MetaLPN
<1>14. OnePagePerEntry'
  <2>1. ASSUME NEW f \in Entries, NEW g \in Entries,
               entry'[f].metaLPN = entry'[g].metaLPN, entry'[f].metaLPN # NoPage, f # g
        PROVE  FALSE
    <3>1. CASE f = e
      BY <1>6, <1>13, <2>1, <3>1
    <3>2. CASE g = e
      BY <1>6, <1>13, <2>1, <3>2
    <3>3. CASE f # e /\ g # e
      <4>1. entry[f].metaLPN = entry[g].metaLPN /\ entry[f].metaLPN # NoPage
        BY <1>6, <2>1, <3>3
      <4> QED BY <2>1, <4>1 DEF IInv, OnePagePerEntry
    <3> QED BY <3>1, <3>2, <3>3
  <2> QED BY <2>1 DEF OnePagePerEntry
<1>15. RequestsSound'
  BY <1>7 DEF IInv, RequestsSound, FormatPage
<1>16. EntriesSound'
  <2>1. ASSUME NEW f \in Entries
        PROVE  /\ entry'[f].dirty => entry'[f].valid
               /\ entry'[f].valid => entry'[f].metaLPN \in MetaLPN
               /\ entry'[f].metaLPN \in MetaLPN => entry'[f].metaLPN < nFormat'
    <3>1. CASE f = e
      BY <1>4, <1>6, <3>1 DEF MetaLPN
    <3>2. CASE f # e
      <4>1. /\ entry'[f].dirty => entry'[f].valid
            /\ entry'[f].valid => entry'[f].metaLPN \in MetaLPN
            /\ entry'[f].metaLPN \in MetaLPN => entry'[f].metaLPN < nFormat
        BY <1>6, <3>2 DEF IInv, EntriesSound
      <4> QED BY <1>4, <4>1 DEF MetaLPN
    <3> QED BY <3>1, <3>2
  <2> QED BY <2>1 DEF EntriesSound
<1>17. ListsCover'
  <2>1. \A f \in ToSet(free') : f \in ToSet(free) /\ entry'[f] = entry[f]
    BY <1>2, <1>6
  <2> QED BY <1>1, <1>2, <2>1 DEF IInv, ListsCover, ListsIntact, Injective
<1>18. PagesStored'
  <2>1. ASSUME NEW p \in MetaLPN, p < nFormat', metaFlash[p] = NoContent
        PROVE  \E f \in Entries : entry'[f].metaLPN = p /\ entry'[f].dirty
    <3>1. CASE p = nFormat
      BY <1>2, <1>6, <3>1
    <3>2. CASE p # nFormat
      <4>1. p < nFormat
        BY <1>4, <2>1, <3>2 DEF MetaLPN
      <4>2. PICK f \in Entries : entry[f].metaLPN = p /\ entry[f].dirty
        BY <2>1, <4>1 DEF IInv, PagesStored
      <4> QED BY <1>2, <1>6, <4>2
    <3> QED BY <3>1, <3>2
  <2> QED BY <2>1 DEF PagesStored, FormatPage
<1>19. FormatFirst'
  BY <1>2 DEF IInv, FormatFirst, ListsIntact, FormatPage, gcVars, gcCounts
<1>20. VictimStored'
  BY DEF IInv, VictimStored, FormatPage, gcVars, gcCounts
<1> QED BY <1>9, <1>10, <1>11, <1>12, <1>14, <1>15, <1>16, <1>17, <1>18, <1>19, <1>20
        DEF IInv

\* META_CACHE::Format finds no entry.
LEMMA FormatBusyStep ==
  ASSUME IInv, FormatBusy
  PROVE  IInv'
<1>1. ListsIntact /\ lru \in Seq(Entries) /\ AllocateBusy(lru) /\ phase' \in Phases
  BY DEF IInv, TypeOK, FormatFirst, FormatBusy, Phases
<1> QED BY <1>1, AllocateBusyStep DEF FormatBusy

\* A page that is available stays so however the list is reordered: only one entry
\* holds it.
LEMMA AvailableFacts ==
  ASSUME IInv, NEW l \in Seq(Entries), NEW m \in Seq(Entries), ToSet(l) = ToSet(m),
         NEW p \in MetaLPN, IsMetaAvailable(l, p)
  PROVE  /\ IsMetaAvailable(m, p)
         /\ CachedEntry(m, p) \in Entries
         /\ entry[CachedEntry(m, p)].metaLPN = p
         /\ entry[CachedEntry(m, p)].valid
<1> DEFINE e == CachedEntry(l, p)
           f == CachedEntry(m, p)
<1>1. e \in ToSet(l) /\ e \in Entries /\ entry[e].metaLPN = p /\ entry[e].valid
  BY TouchFacts DEF IsMetaAvailable
<1> HIDE DEF e
<1>2. PICK i \in DOMAIN m : m[i] = e
  BY <1>1 DEF ToSet
<1>3. IsCached(m, p)
  BY <1>1, <1>2 DEF IsCached, Positions
<1>4. f \in Entries /\ entry[f].metaLPN = p
  BY <1>3, TouchFacts
<1> HIDE DEF f
<1>5. f = e
  BY <1>1, <1>4, ContentFacts DEF IInv, OnePagePerEntry
<1> QED BY <1>1, <1>3, <1>4, <1>5 DEF IsMetaAvailable, f

\* META_MGR::SetL2V on a page that is there, with what its two callers change.
LEMMA SetL2VStep ==
  ASSUME IInv, Formatted,
         NEW l \in Seq(Entries), ToSet(l) = ToSet(lru),
         NEW n \in LPN, NEW v \in VPPN, IsMetaAvailable(l, MetaLPNOf(n)),
         SetL2V(l, n, v),
         UNCHANGED <<free, reqVars, metaFlash, nFormat, gcLeft>>,
         phase' \in Phases,
         gcVictim' \in [Collectors -> SUBSET LPN],
         gcVictim'["META"] \subseteq gcVictim["META"],
         gcExcess' \in 0..MaxExcess,
         hilQ' \in Seq(HilRequestType),
         gcQ' \in Seq(GcRequestType),
         gcDoneQ' \in Seq(GcRequestType),
         gcIssued' \subseteq GcRequestType
  PROVE  IInv'
<1> DEFINE p == MetaLPNOf(n)
           o == OffsetOf(n)
           e == CachedEntry(l, p)
<1>1. p \in MetaLPN
  BY MetaLPNOfType
<1>2. o \in Offset
  BY SizesAssumption DEF OffsetOf, Offset, LPN
<1>3. e \in Entries /\ entry[e].metaLPN = p /\ entry[e].valid
  BY <1>1, AvailableFacts
<1>4. /\ entry' = [entry EXCEPT ![e].l2v[o] = v, ![e].dirty = TRUE]
      /\ latest' = [latest EXCEPT ![n] = v]
      /\ lru' = Touch(l, p)
  BY DEF SetL2V
<1> HIDE DEF p, o, e
<1>5. entry[e] \in EntryType /\ entry \in [Entries -> EntryType]
  BY <1>3 DEF IInv, TypeOK
<1> DEFINE c == [entry[e].l2v EXCEPT ![o] = v]
<1>6. c \in Content
  <2>1. entry[e].l2v \in [Offset -> Address] /\ v \in Address
    BY <1>5 DEF EntryType, Content, Address
  <2> QED BY <1>2, <2>1 DEF Content
<1> HIDE DEF c
<1>7. entry' = [entry EXCEPT ![e].l2v = c, ![e].dirty = TRUE]
  BY <1>3, <1>4, <1>5 DEF c
<1>8. /\ entry' \in [Entries -> EntryType]
      /\ entry'[e].valid = TRUE /\ entry'[e].io = entry[e].io /\ entry'[e].metaLPN = p
      /\ entry'[e].dirty = TRUE
      /\ \A f \in Entries : f # e => entry'[f] = entry[f]
  BY <1>3, <1>5, <1>6, <1>7 DEF EntryType
<1>9. lru' \in Seq(Entries) /\ ToSet(lru') = ToSet(lru)
  BY <1>4, TouchFacts
<1>10. latest' \in [LPN -> Address]
  BY <1>4 DEF IInv, TypeOK, Address
<1>11. req' = req /\ waitQ' = waitQ /\ doneQ' = doneQ /\ Outstanding' = Outstanding
  BY DEF reqVars, Outstanding
<1>12. \A f \in Entries : /\ entry'[f].metaLPN = entry[f].metaLPN
                          /\ entry'[f].io <=> entry[f].io
                          /\ entry'[f].valid <=> entry[f].valid
  BY <1>3, <1>5, <1>8 DEF EntryType
<1>13. TypeOK'
  BY <1>8, <1>9, <1>10, <1>11 DEF IInv, TypeOK
<1>14. QueuesMatchStatus'
  BY <1>11 DEF IInv, QueuesMatchStatus
<1>15. RequestMatchesEntry'
  <2>1. ASSUME NEW s \in Outstanding
        PROVE  /\ req[s].entry \in Entries
               /\ entry'[req[s].entry].io
               /\ entry'[req[s].entry].metaLPN = req[s].metaLPN
               /\ entry'[req[s].entry].valid <=> ~IsLoad(s)
               /\ entry'[req[s].entry].dirty <=> ~IsLoad(s)
    <3>1. /\ req[s].entry \in Entries
          /\ entry[req[s].entry].io
          /\ entry[req[s].entry].metaLPN = req[s].metaLPN
          /\ entry[req[s].entry].valid <=> ~IsLoad(s)
          /\ entry[req[s].entry].dirty <=> ~IsLoad(s)
      BY DEF IInv, RequestMatchesEntry
    <3>2. entry'[req[s].entry].dirty <=> ~IsLoad(s)
      BY <1>3, <1>8, <3>1
    <3> QED BY <1>12, <3>1, <3>2
  <2>2. \A s \in Outstanding : IsLoad(s)' <=> IsLoad(s)
    BY <1>11 DEF IsLoad
  <2> QED BY <1>11, <2>1, <2>2 DEF RequestMatchesEntry
<1>16. OneRequestPerBusyEntry'
  BY <1>11, <1>12 DEF IInv, OneRequestPerBusyEntry
<1>17. OnePagePerEntry'
  BY <1>12 DEF IInv, OnePagePerEntry
<1>18. RequestsSound'
  BY <1>11 DEF IInv, RequestsSound
<1>19. EntriesSound'
  <2>1. \A f \in Entries : entry'[f].dirty => entry'[f].valid
    BY <1>8 DEF IInv, EntriesSound
  <2>2. \A f \in Entries :
          /\ entry'[f].valid => entry'[f].metaLPN \in MetaLPN
          /\ entry'[f].metaLPN \in MetaLPN => entry'[f].metaLPN < nFormat
    BY <1>12 DEF IInv, EntriesSound
  <2> QED BY <2>1, <2>2 DEF EntriesSound
<1>20. ListsCover'
  <2>1. ASSUME ListsIntact PROVE e \notin ToSet(free)
    BY <1>1, <1>3, <2>1, ContentFacts DEF IInv, ListsCover
  <2>2. ASSUME ListsIntact PROVE \A f \in ToSet(free) : f \in Entries /\ entry'[f] = entry[f]
    BY <1>8, <2>1, <2>2 DEF IInv, ListsCover
  <2> QED BY <1>9, <2>2 DEF IInv, ListsCover, ListsIntact
<1>21. PagesStored'
  <2>1. \A f \in Entries : entry[f].dirty => entry'[f].dirty
    BY <1>8
  <2> QED BY <1>12, <2>1 DEF IInv, PagesStored
<1>22. FormatFirst'
  BY DEF FormatFirst, Formatted
<1>23. VictimStored'
  BY DEF IInv, VictimStored
<1> QED BY <1>13, <1>14, <1>15, <1>16, <1>17, <1>18, <1>19, <1>20, <1>21, <1>22, <1>23
        DEF IInv

(***************************************************************************)
(* The two callers of the cache.                                           *)
(***************************************************************************)

\* A host request spans two meta pages at most: every LPN of it is in the page of
\* the first or of the last.
LEMMA SpanFacts ==
  ASSUME NEW h \in HilRequestType
  PROVE  /\ h.lpn + h.done \in LPN
         /\ MetaLPNOf(h.lpn + h.done) \in {MetaLPNOf(h.lpn), MetaLPNOf(h.lpn + h.count - 1)}
<1> DEFINE L == L2VPerMetaPage
           a == h.lpn
           b == h.lpn + h.count - 1
           c == h.lpn + h.done
<1>1. /\ L \in Nat \ {0} /\ a \in Nat /\ b \in Nat /\ c \in Nat
      /\ a <= c /\ c <= b /\ b <= a + L
      /\ a \in LPN /\ b \in LPN
  BY SizesAssumption DEF HilRequestType, LPN
<1>2. c \in LPN
  BY <1>1, SizesAssumption DEF LPN
<1> HIDE DEF a, b, c
<1> DEFINE qa == a \div L
           qb == b \div L
           qc == c \div L
<1>3. /\ qa \in Nat /\ L * qa <= a /\ a < L * qa + L
      /\ qb \in Nat /\ L * qb <= b /\ b < L * qb + L
      /\ qc \in Nat /\ L * qc <= c /\ c < L * qc + L
  BY <1>1
<1> HIDE DEF qa, qb, qc
<1>4. ASSUME NEW x \in Nat, NEW y \in Nat, x < y
      PROVE  L * x + L <= L * y
  <2>1. PICK d \in Nat : y = x + 1 + d
    <3>1. y - x - 1 \in Nat /\ y = x + 1 + (y - x - 1)
      BY <1>4
    <3> QED BY <3>1
  <2>2. L * y = L * x + L + L * d /\ L * d \in Nat /\ L * x \in Nat
    BY <1>1, <2>1
  <2> QED BY <1>1, <2>2
<1>5. L * qa \in Nat /\ L * qb \in Nat /\ L * qc \in Nat
  BY <1>1, <1>3
<1>6. qa <= qc
  <2>1. ~ (qc < qa)
    BY <1>1, <1>3, <1>4, <1>5
  <2> QED BY <1>3, <2>1
<1>7. qc <= qb
  <2>1. ~ (qb < qc)
    BY <1>1, <1>3, <1>4, <1>5
  <2> QED BY <1>3, <2>1
<1>8. qb <= qa + 1
  <2>1. ASSUME qa + 1 < qb PROVE FALSE
    <3>1. L * (qa + 1) + L <= L * qb
      BY <1>3, <1>4, <2>1
    <3>2. L * (qa + 1) = L * qa + L
      BY <1>1, <1>3
    <3> QED BY <1>1, <1>3, <1>5, <3>1, <3>2
  <2> QED BY <1>3, <2>1
<1>9. qc = qa \/ qc = qb
  BY <1>3, <1>6, <1>7, <1>8
<1> QED BY <1>2, <1>9 DEF MetaLPNOf, qa, qb, qc, a, b, c

\* The head of the host queue names LPNs of the table.
LEMMA HilHeadFacts ==
  ASSUME IInv, hilQ # <<>>
  PROVE  /\ Formatted
         /\ HilHead \in HilRequestType
         /\ Tail(hilQ) \in Seq(HilRequestType)
         /\ HilFirst \in MetaLPN
         /\ HilLast \in MetaLPN
         /\ HilCur \in LPN
         /\ MetaLPNOf(HilCur) \in {HilFirst, HilLast}
<1>1. Formatted
  BY DEF IInv, FormatFirst
<1>2. HilHead \in HilRequestType /\ Tail(hilQ) \in Seq(HilRequestType)
  BY DEF IInv, TypeOK, HilHead
<1>3. HilHead.lpn \in LPN /\ HilHead.lpn + HilHead.count - 1 \in LPN
  BY <1>2 DEF HilRequestType
<1>4. HilFirst \in MetaLPN /\ HilLast \in MetaLPN
  BY <1>3, MetaLPNOfType DEF HilFirst, HilLast
<1>5. HilCur \in LPN /\ MetaLPNOf(HilCur) \in {HilFirst, HilLast}
  BY <1>2, SpanFacts DEF HilCur, HilFirst, HilLast
<1> QED BY <1>1, <1>2, <1>4, <1>5

\* The lookups of a host request reorder the LRU list.
LEMMA HilTouchedFacts ==
  ASSUME IInv
  PROVE  /\ lru \in Seq(Entries)
         /\ Touch(lru, HilFirst) \in Seq(Entries)
         /\ ToSet(Touch(lru, HilFirst)) = ToSet(lru)
         /\ HilTouched \in Seq(Entries)
         /\ ToSet(HilTouched) = ToSet(lru)
<1>1. lru \in Seq(Entries)
  BY DEF IInv, TypeOK
<1>2. Touch(lru, HilFirst) \in Seq(Entries) /\ ToSet(Touch(lru, HilFirst)) = ToSet(lru)
  BY <1>1, TouchFacts
<1> DEFINE l == Touch(lru, HilFirst)
<1>3. l \in Seq(Entries)
  BY <1>2
<1> HIDE DEF l
<1>4. Touch(l, HilLast) \in Seq(Entries) /\ ToSet(Touch(l, HilLast)) = ToSet(l)
  BY <1>3, TouchFacts
<1> QED BY <1>1, <1>2, <1>4 DEF HilTouched, l

\* A page of the host request is missing.
LEMMA HilMissStep ==
  ASSUME IInv, HilMiss
  PROVE  IInv'
<1>1. /\ ListsIntact /\ hilQ # <<>> /\ phase' \in Phases
      /\ UNCHANGED <<doneQ, metaFlash, nFormat, hilQ, gcVars, latest>>
  BY DEF HilMiss, Phases
<1>2. CASE LoadMeta(Touch(lru, HilFirst), HilFirst)
  <2> DEFINE l == Touch(lru, HilFirst)
  <2>1. l \in Seq(Entries) /\ ToSet(l) = ToSet(lru) /\ LoadMeta(l, HilFirst)
    BY <1>2, HilTouchedFacts
  <2> HIDE DEF l
  <2> QED BY <1>1, <2>1, HilHeadFacts, LoadMetaStep
<1>3. CASE LoadMeta(HilTouched, HilLast)
  BY <1>1, <1>3, HilTouchedFacts, HilHeadFacts, LoadMetaStep
<1> QED BY <1>2, <1>3 DEF HilMiss

\* The host request reads, or finds the program unit busy.
LEMMA HilLookupStep ==
  ASSUME IInv, HilRead \/ HilWriteBusy
  PROVE  IInv'
<1>1. /\ hilQ # <<>> /\ lru' = HilTouched
      /\ UNCHANGED <<entry, free, reqVars, metaFlash, nFormat, gcVars, latest>>
      /\ hilQ' = hilQ \/ hilQ' = Tail(hilQ)
      /\ phase' \in Phases
  BY DEF HilRead, HilWriteBusy, Phases, IInv, TypeOK
<1>2. Formatted /\ hilQ' \in Seq(HilRequestType)
  BY <1>1, HilHeadFacts DEF IInv, TypeOK
<1> QED BY <1>1, <1>2, HilTouchedFacts, LookupStep

\* The host request writes one LPN.
LEMMA HilWriteStep ==
  ASSUME IInv, HilWrite
  PROVE  IInv'
<1>1. /\ hilQ # <<>> /\ HilAvailable
      /\ UNCHANGED <<free, reqVars, metaFlash, nFormat, phase, gcQ, gcIssued, gcDoneQ,
                     gcLeft, gcExcess>>
  BY DEF HilWrite
<1>2. PICK v \in VPPN : SetL2V(HilTouched, HilCur, v)
  BY DEF HilWrite
<1>3. /\ Formatted /\ HilHead \in HilRequestType /\ HilFirst \in MetaLPN
      /\ HilLast \in MetaLPN /\ HilCur \in LPN
      /\ MetaLPNOf(HilCur) \in {HilFirst, HilLast}
  BY <1>1, HilHeadFacts
<1>4. HilTouched \in Seq(Entries) /\ ToSet(HilTouched) = ToSet(lru) /\ lru \in Seq(Entries)
  BY HilTouchedFacts
<1>5. IsMetaAvailable(HilTouched, MetaLPNOf(HilCur))
  <2>1. IsMetaAvailable(lru, HilFirst) /\ IsMetaAvailable(lru, HilLast)
    BY <1>1 DEF HilAvailable
  <2>2. IsMetaAvailable(lru, MetaLPNOf(HilCur)) /\ MetaLPNOf(HilCur) \in MetaLPN
    BY <1>3, <2>1
  <2> QED BY <1>4, <2>2, AvailableFacts
<1>6. hilQ' \in Seq(HilRequestType)
  <2>1. CASE HilHead.done + 1 = HilHead.count
    BY <1>1, <2>1, HilHeadFacts DEF HilWrite
  <2>2. CASE HilHead.done + 1 # HilHead.count
    <3> DEFINE h == [HilHead EXCEPT !.done = @ + 1]
    <3>1. hilQ \in Seq(HilRequestType) /\ 1 \in DOMAIN hilQ /\ HilHead = hilQ[1]
      BY <1>1 DEF IInv, TypeOK, HilHead
    <3>2. h \in HilRequestType
      BY <1>3, <2>2, SizesAssumption DEF HilRequestType
    <3>3. hilQ' = [hilQ EXCEPT ![1] = h]
      BY <2>2, <3>1 DEF HilWrite
    <3> HIDE DEF h
    <3> QED BY <3>1, <3>2, <3>3
  <2> QED BY <2>1, <2>2
<1>7. /\ phase' \in Phases /\ gcQ' \in Seq(GcRequestType)
      /\ gcDoneQ' \in Seq(GcRequestType) /\ gcIssued' \subseteq GcRequestType
  BY <1>1 DEF IInv, TypeOK
<1>8. /\ gcVictim' \in [Collectors -> SUBSET LPN]
      /\ gcVictim'["META"] \subseteq gcVictim["META"]
      /\ gcExcess' \in 0..MaxExcess
  <2>1. gcVictim' = [gcVictim EXCEPT !["GC"] = @ \ {HilCur}]
    BY DEF HilWrite
  <2> QED BY <1>1, <2>1 DEF IInv, TypeOK, Collectors
<1> QED BY <1>1, <1>2, <1>3, <1>4, <1>5, <1>6, <1>7, <1>8, SetL2VStep

\* What a GC request about to write is.
LEMMA GCToWriteFacts ==
  ASSUME IInv, GCToWrite
  PROVE  /\ Formatted
         /\ GCWaitRequest \in GcRequestType
         /\ GCWaitRequest.lpn \in LPN
         /\ GCPage \in MetaLPN
         /\ RemoveAt(gcQ, GCWaitPosition) \in Seq(GcRequestType)
         /\ lru \in Seq(Entries)
         /\ Touch(lru, GCPage) \in Seq(Entries)
         /\ ToSet(Touch(lru, GCPage)) = ToSet(lru)
<1>1. gcQ # <<>> /\ TypeOK
  BY DEF GCToWrite, IInv
<1>2. GCWaitRequest \in GcRequestType /\ RemoveAt(gcQ, GCWaitPosition) \in Seq(GcRequestType)
  BY <1>1, GCWaitPositionFacts
<1>3. Formatted
  BY <1>1 DEF IInv, FormatFirst
<1>4. GCWaitRequest.lpn \in LPN
  BY <1>2 DEF GcRequestType
<1>5. GCPage \in MetaLPN
  BY <1>4, MetaLPNOfType DEF GCPage
<1>6. /\ lru \in Seq(Entries)
      /\ Touch(lru, GCPage) \in Seq(Entries) /\ ToSet(Touch(lru, GCPage)) = ToSet(lru)
  BY <1>1, TouchFacts DEF TypeOK
<1> QED BY <1>2, <1>3, <1>4, <1>5, <1>6

\* The meta page of a GC request is missing.
LEMMA GCWriteMissStep ==
  ASSUME IInv, GCWriteMiss
  PROVE  IInv'
<1> DEFINE l == Touch(lru, GCPage)
<1>1. /\ GCToWrite /\ ListsIntact /\ LoadMeta(l, GCPage) /\ phase' \in Phases
      /\ UNCHANGED <<doneQ, metaFlash, nFormat, hilQ, gcVars, latest>>
  BY DEF GCWriteMiss, Phases
<1>2. Formatted /\ GCPage \in MetaLPN /\ l \in Seq(Entries) /\ ToSet(l) = ToSet(lru)
  BY <1>1, GCToWriteFacts
<1> HIDE DEF l
<1> QED BY <1>1, <1>2, LoadMetaStep

\* A GC request finds the program unit busy.
LEMMA GCWriteBusyStep ==
  ASSUME IInv, GCWriteBusy
  PROVE  IInv'
<1>1. /\ GCToWrite /\ lru' = Touch(lru, GCPage) /\ phase' \in Phases
      /\ hilQ' \in Seq(HilRequestType)
      /\ UNCHANGED <<entry, free, reqVars, metaFlash, nFormat, gcVars, latest>>
  BY DEF GCWriteBusy, Phases, IInv, TypeOK
<1> QED BY <1>1, GCToWriteFacts, LookupStep

\* A GC request writes: a user page is mapped, a meta page is copied.
LEMMA GCWriteStep ==
  ASSUME IInv, GCWrite
  PROVE  IInv'
<1> DEFINE l == Touch(lru, GCPage)
           g == GCWaitRequest
           d == [g EXCEPT !.status = "WRITE_DONE"]
<1>1. /\ GCToWrite /\ ListsIntact /\ IsMetaAvailable(lru, GCPage)
      /\ gcQ' = RemoveAt(gcQ, GCWaitPosition)
      /\ gcDoneQ' = Append(gcDoneQ, d)
      /\ UNCHANGED <<free, reqVars, nFormat, phase, hilQ, gcIssued, gcLeft>>
  BY DEF GCWrite
<1>2. /\ Formatted /\ GCPage \in MetaLPN /\ lru \in Seq(Entries)
      /\ l \in Seq(Entries) /\ ToSet(l) = ToSet(lru)
      /\ g \in GcRequestType /\ g.lpn \in LPN
      /\ gcQ' \in Seq(GcRequestType)
  BY <1>1, GCToWriteFacts
<1>a. GCPage = MetaLPNOf(g.lpn)
  BY DEF GCPage
<1>b. \/ /\ g.io = "GC"
         /\ \E v \in VPPN : SetL2V(l, g.lpn, v)
         /\ UNCHANGED metaFlash
         /\ \/ /\ gcVictim' = [gcVictim EXCEPT !["GC"] = @ \ {g.lpn}]
               /\ UNCHANGED gcExcess
            \/ /\ gcExcess > 0
               /\ gcVictim' = [gcVictim EXCEPT !["GC"] = @ \union {g.lpn}]
               /\ gcExcess' = gcExcess - 1
      \/ /\ g.io = "META"
         /\ metaFlash' = [metaFlash EXCEPT ![g.lpn] = g.buf]
         /\ gcVictim' = [gcVictim EXCEPT !["META"] = @ \ {g.lpn}]
         /\ lru' = l
         /\ UNCHANGED <<entry, latest, gcExcess>>
  BY DEF GCWrite
<1> HIDE DEF l, g
<1>3. d \in GcRequestType
  BY <1>2 DEF GcRequestType
<1> HIDE DEF d
<1>4. gcDoneQ' \in Seq(GcRequestType)
  BY <1>1, <1>3, AppendFacts DEF IInv, TypeOK
<1>5. /\ phase' \in Phases /\ hilQ' \in Seq(HilRequestType) /\ gcIssued' \subseteq GcRequestType
  BY <1>1 DEF IInv, TypeOK
<1>6. CASE /\ \E v \in VPPN : SetL2V(l, g.lpn, v)
           /\ UNCHANGED metaFlash
           /\ \/ /\ gcVictim' = [gcVictim EXCEPT !["GC"] = @ \ {g.lpn}]
                 /\ UNCHANGED gcExcess
              \/ /\ gcExcess > 0
                 /\ gcVictim' = [gcVictim EXCEPT !["GC"] = @ \union {g.lpn}]
                 /\ gcExcess' = gcExcess - 1
  <2>1. PICK v \in VPPN : SetL2V(l, g.lpn, v)
    BY <1>6
  <2>2. IsMetaAvailable(l, MetaLPNOf(g.lpn))
    BY <1>1, <1>2, <1>a, AvailableFacts
  <2>3. /\ gcVictim' \in [Collectors -> SUBSET LPN]
        /\ gcVictim'["META"] \subseteq gcVictim["META"]
    BY <1>2, <1>6 DEF IInv, TypeOK, Collectors
  <2>4. gcExcess' \in 0..MaxExcess
    <3>1. gcExcess \in 0..MaxExcess /\ MaxExcess \in Nat
      BY SizesAssumption DEF IInv, TypeOK
    <3>2. CASE UNCHANGED gcExcess
      BY <3>1, <3>2
    <3>3. CASE gcExcess > 0 /\ gcExcess' = gcExcess - 1
      BY <3>1, <3>3
    <3> QED BY <1>6, <3>2, <3>3
  <2> QED BY <1>1, <1>2, <1>4, <1>5, <1>6, <2>1, <2>2, <2>3, <2>4, SetL2VStep
<1>7. CASE /\ metaFlash' = [metaFlash EXCEPT ![g.lpn] = g.buf]
           /\ gcVictim' = [gcVictim EXCEPT !["META"] = @ \ {g.lpn}]
           /\ lru' = l
           /\ UNCHANGED <<entry, latest, gcExcess>>
  <2>1. g.buf \in Content
    BY <1>2 DEF GcRequestType
  <2>2. /\ metaFlash' \in [MetaLPN -> Content \union {NoContent}]
        /\ \A p \in MetaLPN : metaFlash[p] # NoContent => metaFlash'[p] # NoContent
    BY <1>7, <2>1, ContentFacts DEF IInv, TypeOK
  <2>3. /\ gcVictim' \in [Collectors -> SUBSET LPN]
        /\ \A t \in Collectors : gcVictim'[t] \subseteq gcVictim[t]
    BY <1>7 DEF IInv, TypeOK
  <2>4. TypeOK'
    BY <1>1, <1>2, <1>4, <1>5, <1>7, <2>2, <2>3 DEF IInv, TypeOK, reqVars
  <2>5. /\ ToSet(lru') = ToSet(lru)
        /\ UNCHANGED <<entry, free, req, waitQ, doneQ, nFormat>>
        /\ Outstanding' = Outstanding
    BY <1>1, <1>2, <1>7 DEF reqVars, Outstanding
  <2>6. QueuesMatchStatus'
    BY <2>5 DEF IInv, QueuesMatchStatus
  <2>7. RequestMatchesEntry'
    BY <2>5 DEF IInv, RequestMatchesEntry, IsLoad
  <2>8. OneRequestPerBusyEntry'
    BY <2>5 DEF IInv, OneRequestPerBusyEntry
  <2>9. OnePagePerEntry'
    BY <2>5 DEF IInv, OnePagePerEntry
  <2>10. RequestsSound'
    BY <2>2, <2>5 DEF IInv, RequestsSound
  <2>11. EntriesSound'
    BY <2>5 DEF IInv, EntriesSound
  <2>12. ListsCover'
    BY <2>5 DEF IInv, ListsCover, ListsIntact
  <2>13. PagesStored'
    BY <2>2, <2>5 DEF IInv, PagesStored
  <2>14. FormatFirst'
    BY <1>2, <2>5 DEF FormatFirst, Formatted
  <2>15. VictimStored'
    BY <2>2, <2>3 DEF IInv, VictimStored, Collectors
  <2> QED BY <2>4, <2>6, <2>7, <2>8, <2>9, <2>10, <2>11, <2>12, <2>13, <2>14, <2>15 DEF IInv
<1> QED BY <1>b, <1>6, <1>7

(***************************************************************************)
(* The theorems.                                                           *)
(***************************************************************************)

\* Right after DFTL_GLOBAL::_Initialize the invariant holds: all entries are free.
LEMMA InitInv ==
  Init => IInv
<1> SUFFICES ASSUME Init PROVE IInv
  OBVIOUS
<1>1. free \in Seq(Entries) /\ ToSet(free) = Entries /\ Injective(free)
  BY SetToSeqFacts, SizesAssumption DEF Init
<1>2. lru = <<>> /\ ToSet(lru) = {} /\ ToSet(waitQ) = {} /\ ToSet(doneQ) = {}
  BY DEF Init, ToSet
<1>3. FreeRequest \in RequestType /\ FreeRequest.status = "FREE"
  BY DEF FreeRequest, RequestType, Status
<1>4. /\ \A r \in Requests : req[r] = FreeRequest
      /\ req \in [Requests -> RequestType]
  BY <1>3 DEF Init
<1>5. /\ entry \in [Entries -> EntryType]
      /\ \A e \in Entries : /\ entry[e].metaLPN = NoPage
                            /\ ~entry[e].valid /\ ~entry[e].dirty /\ ~entry[e].io
  BY ContentFacts DEF Init, EntryType
<1>6. Outstanding = {}
  BY <1>3, <1>4 DEF Outstanding
<1>7. TypeOK
  <2>1. /\ metaFlash \in [MetaLPN -> Content \union {NoContent}]
        /\ latest \in [LPN -> Address]
    BY DEF Init, Address
  <2>2. /\ gcVictim \in [Collectors -> SUBSET LPN]
        /\ gcLeft \in [Collectors -> Int]
        /\ gcIssued \subseteq GcRequestType
        /\ gcExcess \in 0..MaxExcess
    BY SizesAssumption DEF Init
  <2>3. nFormat \in 0..MetaPageCount /\ phase \in Phases
    BY SizesAssumption DEF Init, Phases
  <2>4. /\ lru \in Seq(Entries) /\ waitQ \in Seq(Requests) /\ doneQ \in Seq(Requests)
        /\ hilQ \in Seq(HilRequestType) /\ gcQ \in Seq(GcRequestType)
        /\ gcDoneQ \in Seq(GcRequestType)
    BY DEF Init
  <2> QED BY <1>1, <1>4, <1>5, <2>1, <2>2, <2>3, <2>4 DEF TypeOK
<1>8. QueuesMatchStatus
  BY <1>2, <1>3, <1>4 DEF Init, QueuesMatchStatus, WaitStatus, DoneStatus
<1>9. RequestMatchesEntry /\ OneRequestPerBusyEntry /\ RequestsSound
  BY <1>5, <1>6 DEF RequestMatchesEntry, OneRequestPerBusyEntry, RequestsSound
<1>10. OnePagePerEntry /\ EntriesSound
  BY <1>5, ContentFacts DEF OnePagePerEntry, EntriesSound
<1>11. ListsCover
  BY <1>1, <1>2, <1>5 DEF ListsCover, Injective
<1>12. PagesStored
  BY SizesAssumption DEF Init, PagesStored, MetaLPN
<1>13. FormatFirst /\ VictimStored
  BY <1>2 DEF Init, FormatFirst, VictimStored, ListsIntact, Collectors
<1> QED BY <1>7, <1>8, <1>9, <1>10, <1>11, <1>12, <1>13 DEF IInv

\* A step that ends a phase, or finds nothing to do.
LEMMA EndOfPhaseStep ==
  ASSUME IInv,
         \/ NoCommand \/ FilRunDone \/ GCDoneQEmpty \/ MetaDoneQEmpty \/ MetaWriteBusy
         \/ MetaWaitQEmpty \/ GCWaitQEmpty \/ GCWriteBlocked \/ HilWaitQEmpty
         \/ HilWaitBlocked \/ NoStartGC \/ NoGCRead
  PROVE  IInv'
<1>1. /\ phase' \in Phases
      /\ UNCHANGED <<cacheVars, reqVars, metaFlash, nFormat, hilQ, gcVars, latest>>
  BY DEF NoCommand, FilRunDone, GCDoneQEmpty, MetaDoneQEmpty, MetaWriteBusy,
         MetaWaitQEmpty, GCWaitQEmpty, GCWriteBlocked, HilWaitQEmpty, HilWaitBlocked,
         NoStartGC, NoGCRead, Phases
<1> QED BY <1>1, PhaseStep

\* The invariant is inductive.
LEMMA NextInv ==
  IInv /\ [Next]_vars => IInv'
<1> SUFFICES ASSUME IInv, [Next]_vars PROVE IInv'
  OBVIOUS
<1>1. CASE Main
  BY <1>1, FormatPageStep, FormatBusyStep, HostArrivesStep, EndOfPhaseStep DEF Main
<1>2. CASE Fil
  BY <1>2, MetaReadCallBackStep, GCReadDoneStep, EndOfPhaseStep DEF Fil
<1>3. CASE GCDone
  BY <1>3, GCWriteDoneStep, EndOfPhaseStep DEF GCDone
<1>4. CASE MetaDone
  BY <1>4, MetaReadDoneStep, MetaWriteDoneStep, EndOfPhaseStep DEF MetaDone
<1>5. CASE MetaWait
  BY <1>5, MetaReadWaitStep, MetaWriteWaitStep, EndOfPhaseStep DEF MetaWait
<1>6. CASE GCWait
  BY <1>6, GCReadWaitStep, GCWriteMissStep, GCWriteBusyStep, GCWriteStep, EndOfPhaseStep
     DEF GCWait
<1>7. CASE HilWait
  BY <1>7, HilMissStep, HilLookupStep, HilWriteStep, EndOfPhaseStep DEF HilWait
<1>8. CASE GCRun
  BY <1>8, StartGCStep, GCReadStep, EndOfPhaseStep DEF GCRun
<1>9. CASE UNCHANGED vars
  <2>1. /\ phase' \in Phases
        /\ UNCHANGED <<cacheVars, reqVars, metaFlash, nFormat, hilQ, gcVars, latest>>
    BY <1>9 DEF vars, cacheVars, reqVars, gcVars, gcCounts, IInv, TypeOK
  <2> QED BY <2>1, PhaseStep
<1> QED BY <1>1, <1>2, <1>3, <1>4, <1>5, <1>6, <1>7, <1>8, <1>9 DEF Next

\* The inductive invariant holds in every reachable state.
THEOREM Invariant == Spec => []IInv
<1>1. Init => IInv
  BY InitInv
<1>2. IInv /\ [Next]_vars => IInv'
  BY NextInv
<1> QED BY <1>1, <1>2, PTL DEF Spec

\* Every variable stays in its type, for every size of cache, pool and table.
THEOREM TypeCorrect == Spec => []TypeOK
<1>1. IInv => TypeOK
  BY DEF IInv
<1> QED BY <1>1, Invariant, PTL

\* LoadDone and StoreDone (dftl_meta.cpp:369-392) write through the entry pointer a
\* request has kept since it was made: the entry still waits for that request, with
\* that page.
THEOREM RequestsMatchEntries == Spec => []PointersSound
<1>1. IInv => PointersSound
  BY DEF IInv, PointersSound
<1> QED BY <1>1, Invariant, PTL

\* A meta request is in the queue its status says, once, and in no other
\* (META_REQUEST_INFO, dftl_request_meta.cpp:283-437).
THEOREM QueuesCorrect == Spec => []QueuesMatchStatus
<1>1. IInv => QueuesMatchStatus
  BY DEF IInv
<1> QED BY <1>1, Invariant, PTL

\* No two entries hold the same meta page (GetMetaEntry, dftl_meta.cpp:99-127, takes
\* the first it finds).
THEOREM PagesUnique == Spec => []OnePagePerEntry
<1>1. IInv => OnePagePerEntry
  BY DEF IInv
<1> QED BY <1>1, Invariant, PTL

\* A load gives an entry a page only when no NAND operation runs on it.
LEMMA LoadMetaKeepsBusy ==
  ASSUME IInv, ListsIntact,
         NEW l \in Seq(Entries), ToSet(l) = ToSet(lru),
         NEW p \in MetaLPN, LoadMeta(l, p),
         NEW e \in Entries, entry[e].io
  PROVE  entry'[e].metaLPN = entry[e].metaLPN
<1>1. entry \in [Entries -> EntryType]
  BY DEF IInv, TypeOK
<1>2. CASE UNCHANGED entry
  BY <1>2
<1>3. CASE AllocateBusy(l)
  <2>1. entry' = entry \/ entry' = [entry EXCEPT ![Last(l)].io = TRUE]
    BY <1>3 DEF AllocateBusy
  <2> QED BY <1>1, <2>1 DEF EntryType
<1>4. CASE /\ AllocateSucceeds(l)
           /\ entry' = [entry EXCEPT ![Allocated(l)].valid = FALSE,
                                     ![Allocated(l)].metaLPN = p,
                                     ![Allocated(l)].io = TRUE]
  <2>1. Allocated(l) # e
    BY <1>4, AllocateFacts
  <2> QED BY <1>1, <1>4, <2>1
<1>5. CASE entry' = [entry EXCEPT ![Allocated(l)].valid = FALSE]
  BY <1>1, <1>5 DEF EntryType
<1> QED BY <1>2, <1>3, <1>4, <1>5 DEF LoadMeta

\* No other step changes the page of an entry on which a NAND operation runs.
LEMMA NextKeepsBusy ==
  ASSUME IInv, [Next]_vars, NEW e \in Entries, entry[e].io
  PROVE  entry'[e].metaLPN = entry[e].metaLPN
<1>0. entry \in [Entries -> EntryType]
  BY DEF IInv, TypeOK
<1>1. CASE FormatPage
  <2>1. ListsIntact /\ lru \in Seq(Entries)
    BY <1>1 DEF IInv, TypeOK, FormatFirst, FormatPage
  <2>2. Allocated(lru) # e
    BY <1>1, <2>1, AllocateFacts DEF FormatPage
  <2> QED BY <1>0, <1>1, <2>2 DEF FormatPage
<1>2. CASE FormatBusy
  <2>1. entry' = entry \/ entry' = [entry EXCEPT ![Last(lru)].io = TRUE]
    BY <1>2 DEF FormatBusy, AllocateBusy
  <2> QED BY <1>0, <2>1 DEF EntryType
<1>3. CASE MetaReadDone \/ MetaWriteDone
  <2> DEFINE x == req[Head(doneQ)].entry
             v == req[Head(doneQ)].buf
  <2>1. \/ entry' = [entry EXCEPT ![x].io = FALSE, ![x].dirty = FALSE,
                                  ![x].valid = TRUE, ![x].l2v = v]
        \/ entry' = [entry EXCEPT ![x].io = FALSE, ![x].dirty = FALSE]
    BY <1>3 DEF MetaReadDone, MetaWriteDone
  <2> HIDE DEF x, v
  <2> QED BY <1>0, <2>1 DEF EntryType
<1>4. CASE GCWriteMiss
  <2> DEFINE l == Touch(lru, GCPage)
  <2>1. /\ GCToWrite /\ ListsIntact /\ LoadMeta(l, GCPage)
    BY <1>4 DEF GCWriteMiss
  <2>2. GCPage \in MetaLPN /\ l \in Seq(Entries) /\ ToSet(l) = ToSet(lru)
    BY <2>1, GCToWriteFacts
  <2> HIDE DEF l
  <2> QED BY <2>1, <2>2, LoadMetaKeepsBusy
<1>5. CASE HilMiss
  <2>1. ListsIntact /\ HilFirst \in MetaLPN /\ HilLast \in MetaLPN
    BY <1>5, HilHeadFacts DEF HilMiss
  <2> DEFINE l == Touch(lru, HilFirst)
  <2>2. /\ l \in Seq(Entries) /\ ToSet(l) = ToSet(lru)
        /\ HilTouched \in Seq(Entries) /\ ToSet(HilTouched) = ToSet(lru)
    BY HilTouchedFacts
  <2>3. LoadMeta(l, HilFirst) \/ LoadMeta(HilTouched, HilLast)
    BY <1>5 DEF HilMiss
  <2> HIDE DEF l
  <2> QED BY <2>1, <2>2, <2>3, LoadMetaKeepsBusy
<1>6. CASE GCWrite
  <2>1. CASE \E v \in VPPN : SetL2V(Touch(lru, GCPage), GCWaitRequest.lpn, v)
    <3> DEFINE x == CachedEntry(Touch(lru, GCPage), MetaLPNOf(GCWaitRequest.lpn))
               o == OffsetOf(GCWaitRequest.lpn)
    <3>1. PICK v \in VPPN : entry' = [entry EXCEPT ![x].l2v[o] = v, ![x].dirty = TRUE]
      BY <2>1 DEF SetL2V
    <3> HIDE DEF x, o
    <3> QED BY <1>0, <3>1 DEF EntryType
  <2>2. CASE UNCHANGED entry
    BY <2>2
  <2> QED BY <1>6, <2>1, <2>2 DEF GCWrite
<1>7. CASE HilWrite
  <2> DEFINE x == CachedEntry(HilTouched, MetaLPNOf(HilCur))
             o == OffsetOf(HilCur)
  <2>1. PICK v \in VPPN : entry' = [entry EXCEPT ![x].l2v[o] = v, ![x].dirty = TRUE]
    BY <1>7 DEF HilWrite, SetL2V
  <2> HIDE DEF x, o
  <2> QED BY <1>0, <2>1 DEF EntryType
<1>8. CASE UNCHANGED entry
  BY <1>8
<1>9. \/ FormatPage \/ FormatBusy \/ MetaReadDone \/ MetaWriteDone \/ GCWriteMiss
      \/ HilMiss \/ GCWrite \/ HilWrite \/ UNCHANGED entry
  <2>1. CASE Main
    BY <2>1 DEF Main, HostArrives, NoCommand, cacheVars
  <2>2. CASE Fil
    BY <2>2 DEF Fil, MetaReadCallBack, GCReadDone, FilRunDone, cacheVars
  <2>3. CASE GCDone \/ MetaDone
    BY <2>3 DEF GCDone, MetaDone, GCWriteDone, GCDoneQEmpty, MetaDoneQEmpty, cacheVars
  <2>4. CASE MetaWait
    BY <2>4 DEF MetaWait, MetaReadWait, MetaWriteWait, MetaWriteBusy, MetaWaitQEmpty,
                cacheVars
  <2>5. CASE GCWait
    BY <2>5 DEF GCWait, GCWaitQEmpty, GCReadWait, GCWriteBlocked, GCWriteBusy, cacheVars
  <2>6. CASE HilWait
    BY <2>6 DEF HilWait, HilWaitQEmpty, HilWaitBlocked, HilRead, HilWriteBusy, cacheVars
  <2>7. CASE GCRun
    BY <2>7 DEF GCRun, StartGC, NoStartGC, GCRead, NoGCRead, cacheVars
  <2>8. CASE UNCHANGED vars
    BY <2>8 DEF vars
  <2> QED BY <2>1, <2>2, <2>3, <2>4, <2>5, <2>6, <2>7, <2>8 DEF Next
<1> QED BY <1>1, <1>2, <1>3, <1>4, <1>5, <1>6, <1>7, <1>8, <1>9

\* An entry on which a NAND operation runs keeps its page until the operation ends:
\* _Allocate (dftl_meta.cpp:242-303) never hands out a busy tail.
THEOREM BusyEntriesKeepPage == Spec => BusyEntryKeepsPage
<1>1. IInv /\ [Next]_vars
        => [\A e \in Entries : entry[e].io => entry'[e].metaLPN = entry[e].metaLPN]_vars
  BY NextKeepsBusy
<1> QED BY <1>1, Invariant, PTL DEF Spec, BusyEntryKeepsPage

(***************************************************************************)
(* The positions of the requests of the user collector.                    *)
(***************************************************************************)

OfUser(q) == {i \in DOMAIN q : q[i].io = "GC"}

\* There are as many as a natural number says.
LEMMA OfUserFinite ==
  ASSUME NEW q \in Seq(GcRequestType)
  PROVE  IsFiniteSet(OfUser(q)) /\ Cardinality(OfUser(q)) \in Nat
<1>1. Len(q) \in Nat /\ DOMAIN q = 1..Len(q)
  OBVIOUS
<1>2. IsFiniteSet(1..Len(q))
  BY <1>1, FS_Interval
<1>3. OfUser(q) \in SUBSET (1..Len(q))
  BY <1>1 DEF OfUser
<1>4. IsFiniteSet(OfUser(q))
  BY <1>2, <1>3, FS_Subset
<1> QED BY <1>4, FS_CardinalityType

\* A request that joins the queue counts if it is the user collector's.
LEMMA OfUserAppend ==
  ASSUME NEW q \in Seq(GcRequestType), NEW g \in GcRequestType
  PROVE  Cardinality(OfUser(Append(q, g)))
           = Cardinality(OfUser(q)) + (IF g.io = "GC" THEN 1 ELSE 0)
<1> DEFINE p == Append(q, g)
           n == Len(q) + 1
           U == OfUser(q)
<1>1. /\ n \in Nat /\ DOMAIN q = 1..Len(q) /\ n \notin DOMAIN q
      /\ DOMAIN p = DOMAIN q \union {n}
      /\ p[n] = g
      /\ \A i \in DOMAIN q : p[i] = q[i]
  OBVIOUS
<1> HIDE DEF p, n
<1>2. OfUser(p) = IF g.io = "GC" THEN U \union {n} ELSE U
  BY <1>1 DEF OfUser
<1>3. n \notin U
  BY <1>1 DEF OfUser
<1>4. IsFiniteSet(U) /\ Cardinality(U) \in Nat
  BY OfUserFinite
<1> HIDE DEF U
<1>5. Cardinality(U \union {n}) = Cardinality(U) + 1
  BY <1>3, <1>4, FS_AddElement
<1>6. Cardinality(OfUser(p)) = Cardinality(U) + (IF g.io = "GC" THEN 1 ELSE 0)
  BY <1>2, <1>4, <1>5
<1> QED BY <1>6 DEF p, U

\* A request that leaves the queue is not counted any more.
LEMMA OfUserRemove ==
  ASSUME NEW q \in Seq(GcRequestType), NEW p \in Seq(GcRequestType), NEW k \in DOMAIN q,
         Len(p) = Len(q) - 1,
         \A i \in 1..Len(p) : p[i] = IF i < k THEN q[i] ELSE q[i + 1]
  PROVE  Cardinality(OfUser(p))
           = Cardinality(OfUser(q)) - (IF q[k].io = "GC" THEN 1 ELSE 0)
<1>1. /\ Len(q) \in Nat /\ DOMAIN q = 1..Len(q) /\ k \in 1..Len(q)
      /\ DOMAIN p = 1..Len(p) /\ Len(p) \in Nat
  OBVIOUS
<1> DEFINE U == OfUser(p)
           V == OfUser(q) \ {k}
           f == [i \in U |-> IF i < k THEN i ELSE i + 1]
<1>2. U \subseteq 1..Len(p) /\ V \subseteq 1..Len(q)
  BY <1>1 DEF OfUser
<1>3. ASSUME NEW i \in U
      PROVE  f[i] \in V
  BY <1>1, <1>2, <1>3 DEF OfUser
<1>4. ASSUME NEW i \in U, NEW j \in U, f[i] = f[j]
      PROVE  i = j
  BY <1>1, <1>2, <1>4
<1>5. ASSUME NEW j \in V
      PROVE  \E i \in U : f[i] = j
  <2>1. CASE j < k
    <3>1. j \in U
      BY <1>1, <1>2, <1>5, <2>1 DEF OfUser
    <3> QED BY <2>1, <3>1
  <2>2. CASE ~(j < k)
    <3>1. j \in 1..Len(q) /\ j # k /\ q[j].io = "GC"
      BY <1>1, <1>5 DEF OfUser
    <3>2. j - 1 \in 1..Len(p) /\ ~(j - 1 < k) /\ j - 1 + 1 = j
      BY <1>1, <2>2, <3>1
    <3>3. p[j - 1] = q[j]
      BY <3>2
    <3>4. j - 1 \in U
      BY <1>1, <3>1, <3>2, <3>3 DEF OfUser
    <3> QED BY <3>2, <3>4
  <2> QED BY <2>1, <2>2
<1>6. f \in Bijection(U, V)
  BY <1>3, <1>4, <1>5, Fun_IsBij
<1>7. ExistsBijection(U, V)
  BY <1>6 DEF ExistsBijection
<1>8. IsFiniteSet(U) /\ Cardinality(V) = Cardinality(U)
  <2>1. IsFiniteSet(U)
    BY OfUserFinite
  <2> QED BY <1>7, <2>1, FS_Bijection
<1>9. Cardinality(V) = IF k \in OfUser(q) THEN Cardinality(OfUser(q)) - 1
                                          ELSE Cardinality(OfUser(q))
  BY OfUserFinite, FS_RemoveElement
<1>10. k \in OfUser(q) <=> q[k].io = "GC"
  BY DEF OfUser
<1> QED BY <1>8, <1>9, <1>10, OfUserFinite

(***************************************************************************)
(* The collection of a user block.                                         *)
(***************************************************************************)

UserIssued == {g \in gcIssued : g.io = "GC"}

\* A page of a user victim is unread, or waits in one request, or is read by one
\* issued request: it is nowhere twice.
UserOnce ==
  /\ \A i, j \in DOMAIN gcQ :
       gcQ[i].io = "GC" /\ gcQ[j].io = "GC" /\ gcQ[i].lpn = gcQ[j].lpn => i = j
  /\ \A g, h \in UserIssued : g.lpn = h.lpn => g = h
  /\ \A i \in DOMAIN gcQ, g \in UserIssued : gcQ[i].io = "GC" => gcQ[i].lpn # g.lpn
  /\ \A i \in DOMAIN gcQ : gcQ[i].io = "GC" => gcQ[i].lpn \notin gcVictim["GC"]
  /\ \A g \in UserIssued : g.lpn \notin gcVictim["GC"]

\* The inductive invariant of the count, on top of IInv.
CountInv ==
  /\ UserPagesCounted
  /\ IsFiniteSet(gcIssued)
  /\ UserOnce

LEMMA LPNFinite ==
  IsFiniteSet(LPN)
<1> DEFINE n == MetaPageCount * L2VPerMetaPage - 1
<1>1. n \in Int
  BY SizesAssumption
<1> HIDE DEF n
<1>2. IsFiniteSet(0..n)
  BY <1>1, FS_Interval
<1> QED BY <1>2 DEF LPN, n

\* The five counts are natural numbers.
LEMMA CountTypes ==
  ASSUME TypeOK, IsFiniteSet(gcIssued)
  PROVE  /\ gcVictim["GC"] \subseteq LPN /\ IsFiniteSet(gcVictim["GC"])
         /\ Cardinality(gcVictim["GC"]) \in Nat
         /\ Cardinality(OfUser(gcQ)) \in Nat
         /\ IsFiniteSet(UserIssued) /\ Cardinality(UserIssued) \in Nat
         /\ Cardinality(OfUser(gcDoneQ)) \in Nat
         /\ gcLeft["GC"] \in Int /\ gcExcess \in Nat
<1>2. /\ gcVictim["GC"] \subseteq LPN /\ gcLeft["GC"] \in Int /\ gcExcess \in Nat
      /\ gcQ \in Seq(GcRequestType) /\ gcDoneQ \in Seq(GcRequestType)
  BY SizesAssumption DEF TypeOK, Collectors
<1>3. IsFiniteSet(gcVictim["GC"])
  BY <1>2, LPNFinite, FS_Subset
<1>4. UserIssued \subseteq gcIssued
  BY DEF UserIssued
<1>5. IsFiniteSet(UserIssued)
  BY <1>4, FS_Subset
<1> QED BY <1>2, <1>3, <1>5, FS_CardinalityType, OfUserFinite

\* What the invariant says of the count, before and after a step.
LEMMA CountMeaning ==
  UserPagesCounted
    <=> gcLeft["GC"] = gcExcess + Cardinality(gcVictim["GC"]) + Cardinality(OfUser(gcQ))
                       + Cardinality(UserIssued) + Cardinality(OfUser(gcDoneQ))
BY DEF UserPagesCounted, OfUser, UserIssued

LEMMA CountMeaningNext ==
  UserPagesCounted'
    <=> gcLeft'["GC"] = gcExcess' + Cardinality(gcVictim'["GC"])
                        + Cardinality(OfUser(gcQ)')
                        + Cardinality(UserIssued') + Cardinality(OfUser(gcDoneQ)')
BY DEF UserPagesCounted, OfUser, UserIssued

\* While no user block is collected, the collector has nothing in hand.
LEMMA IdleCollector ==
  ASSUME TypeOK, CountInv, ~IsGCRunning("GC")
  PROVE  /\ gcVictim["GC"] = {}
         /\ Cardinality(OfUser(gcQ)) = 0 /\ OfUser(gcQ) = {}
         /\ Cardinality(UserIssued) = 0 /\ UserIssued = {}
         /\ Cardinality(OfUser(gcDoneQ)) = 0
<1>1. IsFiniteSet(gcIssued) /\ UserPagesCounted
  BY DEF CountInv
<1>2. /\ Cardinality(gcVictim["GC"]) = 0
      /\ Cardinality(OfUser(gcQ)) = 0
      /\ Cardinality(UserIssued) = 0
      /\ Cardinality(OfUser(gcDoneQ)) = 0
  BY <1>1, CountTypes, CountMeaning DEF IsGCRunning
<1>3. gcVictim["GC"] = {} /\ UserIssued = {}
  BY <1>1, <1>2, CountTypes, FS_EmptySet
<1>4. OfUser(gcQ) = {}
  <2>1. IsFiniteSet(OfUser(gcQ))
    BY OfUserFinite DEF TypeOK
  <2> QED BY <1>2, <2>1, FS_EmptySet
<1> QED BY <1>2, <1>3, <1>4

\* A step that leaves the user collector alone.
LEMMA CountFrame ==
  ASSUME CountInv, gcVictim'["GC"] = gcVictim["GC"], gcLeft'["GC"] = gcLeft["GC"],
         UNCHANGED <<gcExcess, gcQ, gcIssued, gcDoneQ>>
  PROVE  CountInv'
<1>1. UserPagesCounted'
  BY DEF CountInv, UserPagesCounted
<1>2. UserOnce'
  BY DEF CountInv, UserOnce, UserIssued
<1> QED BY <1>1, <1>2 DEF CountInv

\* A page of the victim has been read: its request waits again, to be written.
LEMMA GCReadDoneCount ==
  ASSUME IInv, CountInv, NEW g \in gcIssued, GCReadDone(g)
  PROVE  CountInv'
<1>1. gcQ \in Seq(GcRequestType) /\ g \in GcRequestType /\ TypeOK
  BY DEF IInv, TypeOK
<1> DEFINE h == [g EXCEPT !.status = "WRITE_WAIT"]
<1>2. h \in GcRequestType /\ h.io = g.io /\ h.lpn = g.lpn
  BY <1>1 DEF GcRequestType
<1>3. /\ gcIssued' = gcIssued \ {g}
      /\ gcQ' = Append(gcQ, h)
      /\ gcVictim' = gcVictim /\ gcLeft' = gcLeft /\ gcDoneQ' = gcDoneQ
      /\ gcExcess' = gcExcess
  BY DEF GCReadDone, gcCounts
<1> HIDE DEF h
<1>4. IsFiniteSet(gcIssued) /\ IsFiniteSet(gcIssued')
  BY <1>3, FS_RemoveElement DEF CountInv
<1>5. Cardinality(OfUser(gcQ)') = Cardinality(OfUser(gcQ)) + (IF g.io = "GC" THEN 1 ELSE 0)
  BY <1>1, <1>2, <1>3, OfUserAppend
<1>6. UserIssued' = UserIssued \ {g} /\ (g \in UserIssued <=> g.io = "GC")
  BY <1>3 DEF UserIssued
<1>7. Cardinality(UserIssued \ {g})
        = IF g \in UserIssued THEN Cardinality(UserIssued) - 1 ELSE Cardinality(UserIssued)
  BY <1>1, <1>4, CountTypes, FS_RemoveElement
<1>8. Cardinality(UserIssued') = Cardinality(UserIssued) - (IF g.io = "GC" THEN 1 ELSE 0)
  BY <1>1, <1>4, <1>6, <1>7, CountTypes
<1>9. UserPagesCounted'
  BY <1>1, <1>3, <1>4, <1>5, <1>8, CountTypes, CountMeaning, CountMeaningNext DEF CountInv
<1>10. UserOnce'
  <2>1. /\ DOMAIN gcQ' = DOMAIN gcQ \union {Len(gcQ) + 1}
        /\ gcQ'[Len(gcQ) + 1] = h
        /\ \A i \in DOMAIN gcQ : gcQ'[i] = gcQ[i] /\ i # Len(gcQ) + 1
    BY <1>1, <1>3
  <2>2. UserIssued' \subseteq UserIssued /\ g \notin UserIssued'
    BY <1>6
  <2>3. UserOnce
    BY DEF CountInv
  <2> QED BY <1>2, <1>3, <1>6, <2>1, <2>2, <2>3 DEF UserOnce
<1> QED BY <1>4, <1>9, <1>10 DEF CountInv

\* A page that has been written is counted.
LEMMA GCWriteDoneCount ==
  ASSUME IInv, CountInv, GCWriteDone
  PROVE  CountInv'
<1>1. /\ gcDoneQ \in Seq(GcRequestType) /\ gcDoneQ # <<>> /\ TypeOK
      /\ IsFiniteSet(gcIssued)
  BY DEF IInv, TypeOK, GCWriteDone, CountInv
<1> DEFINE g == Head(gcDoneQ)
<1>2. /\ gcDoneQ' = Tail(gcDoneQ)
      /\ gcLeft' = [gcLeft EXCEPT ![g.io] = @ - 1]
      /\ gcQ' = gcQ /\ gcIssued' = gcIssued /\ gcVictim' = gcVictim
      /\ gcExcess' = gcExcess
  BY DEF GCWriteDone
<1>3. g \in GcRequestType /\ g = gcDoneQ[1] /\ 1 \in DOMAIN gcDoneQ
  BY <1>1
<1>4. g.io \in {"GC", "META"}
  BY <1>3 DEF GcRequestType, Collectors
<1> HIDE DEF g
<1>5. gcLeft \in [{"GC", "META"} -> Int]
  BY <1>1 DEF TypeOK, Collectors
<1>6. gcLeft'["GC"] = gcLeft["GC"] - (IF g.io = "GC" THEN 1 ELSE 0)
  BY <1>2, <1>4, <1>5
<1>7. Cardinality(OfUser(gcDoneQ)')
        = Cardinality(OfUser(gcDoneQ)) - (IF g.io = "GC" THEN 1 ELSE 0)
  <2> DEFINE p == Tail(gcDoneQ)
  <2>1. /\ p \in Seq(GcRequestType) /\ Len(p) = Len(gcDoneQ) - 1
        /\ \A i \in 1..Len(p) : p[i] = gcDoneQ[i + 1]
    BY <1>1, HeadTailProperties
  <2> HIDE DEF p
  <2>2. \A i \in 1..Len(p) : p[i] = IF i < 1 THEN gcDoneQ[i] ELSE gcDoneQ[i + 1]
    BY <2>1
  <2>3. Cardinality(OfUser(p)) = Cardinality(OfUser(gcDoneQ))
                                 - (IF gcDoneQ[1].io = "GC" THEN 1 ELSE 0)
    BY <1>1, <1>3, <2>1, <2>2, OfUserRemove
  <2> QED BY <1>2, <1>3, <2>3 DEF p
<1>8. UserPagesCounted'
  <2>1. OfUser(gcQ)' = OfUser(gcQ) /\ UserIssued' = UserIssued
    BY <1>2 DEF OfUser, UserIssued
  <2> QED BY <1>1, <1>2, <1>6, <1>7, <2>1, CountTypes, CountMeaning, CountMeaningNext
          DEF CountInv
<1>9. UserOnce'
  BY <1>2 DEF CountInv, UserOnce, UserIssued
<1> QED BY <1>1, <1>2, <1>8, <1>9 DEF CountInv

\* The requests of the wait queue after one of them was taken off.
LEMMA QueueWithout ==
  ASSUME TypeOK, gcQ # <<>>, gcQ' = RemoveAt(gcQ, GCWaitPosition)
  PROVE  /\ Cardinality(OfUser(gcQ)')
              = Cardinality(OfUser(gcQ)) - (IF GCWaitRequest.io = "GC" THEN 1 ELSE 0)
         /\ \E f \in [DOMAIN gcQ' -> DOMAIN gcQ] :
              /\ \A i \in DOMAIN gcQ' : f[i] # GCWaitPosition /\ gcQ'[i] = gcQ[f[i]]
              /\ \A i, j \in DOMAIN gcQ' : f[i] = f[j] => i = j
<1> DEFINE k == GCWaitPosition
           p == RemoveAt(gcQ, k)
<1>1. k \in DOMAIN gcQ /\ gcQ \in Seq(GcRequestType) /\ p \in Seq(GcRequestType)
  BY GCWaitPositionFacts DEF TypeOK
<1>2. GCWaitRequest = gcQ[k]
  BY DEF GCWaitRequest
<1> HIDE DEF k
<1>3. /\ Len(p) = Len(gcQ) - 1
      /\ \A i \in 1..Len(gcQ) - 1 : p[i] = IF i < k THEN gcQ[i] ELSE gcQ[i + 1]
  BY <1>1, RemoveAtPoints
<1>4. gcQ' = p
  BY DEF k
<1> HIDE DEF p
<1>5. \A i \in 1..Len(p) : p[i] = IF i < k THEN gcQ[i] ELSE gcQ[i + 1]
  BY <1>3
<1>6. Cardinality(OfUser(p)) = Cardinality(OfUser(gcQ)) - (IF gcQ[k].io = "GC" THEN 1 ELSE 0)
  BY <1>1, <1>3, <1>5, OfUserRemove
<1> DEFINE f == [i \in DOMAIN p |-> IF i < k THEN i ELSE i + 1]
<1>7. /\ DOMAIN gcQ = 1..Len(gcQ) /\ DOMAIN p = 1..Len(p) /\ Len(gcQ) \in Nat
      /\ k \in 1..Len(gcQ) /\ Len(p) = Len(gcQ) - 1
  BY <1>1, <1>3
<1>8. f \in [DOMAIN p -> DOMAIN gcQ]
  BY <1>7
<1>9. \A i \in DOMAIN p : f[i] # k /\ p[i] = gcQ[f[i]]
  BY <1>5, <1>7
<1>10. \A i, j \in DOMAIN p : f[i] = f[j] => i = j
  BY <1>7
<1> HIDE DEF f
<1>11. \E h \in [DOMAIN p -> DOMAIN gcQ] :
         /\ \A i \in DOMAIN p : h[i] # k /\ p[i] = gcQ[h[i]]
         /\ \A i, j \in DOMAIN p : h[i] = h[j] => i = j
  BY <1>8, <1>9, <1>10
<1> QED BY <1>2, <1>4, <1>6, <1>11 DEF k

\* The NAND read of a page of the victim is issued.
LEMMA GCReadWaitCount ==
  ASSUME IInv, CountInv, GCReadWait
  PROVE  CountInv'
<1>1. gcQ \in Seq(GcRequestType) /\ gcQ # <<>> /\ TypeOK /\ IsFiniteSet(gcIssued)
  BY DEF IInv, TypeOK, GCReadWait, CountInv
<1> DEFINE k == GCWaitPosition
           g == GCWaitRequest
           h == [g EXCEPT !.status = "READ_ISSUE"]
<1>2. k \in DOMAIN gcQ /\ g = gcQ[k] /\ g \in GcRequestType
  BY <1>1, GCWaitPositionFacts DEF GCWaitRequest
<1>3. /\ gcQ' = RemoveAt(gcQ, GCWaitPosition)
      /\ gcIssued' = gcIssued \union {h}
      /\ gcVictim' = gcVictim /\ gcLeft' = gcLeft /\ gcDoneQ' = gcDoneQ
      /\ gcExcess' = gcExcess
  BY DEF GCReadWait, gcCounts
<1>4. /\ Cardinality(OfUser(gcQ)')
           = Cardinality(OfUser(gcQ)) - (IF g.io = "GC" THEN 1 ELSE 0)
      /\ \E f \in [DOMAIN gcQ' -> DOMAIN gcQ] :
           /\ \A i \in DOMAIN gcQ' : f[i] # k /\ gcQ'[i] = gcQ[f[i]]
           /\ \A i, j \in DOMAIN gcQ' : f[i] = f[j] => i = j
  BY <1>1, <1>3, QueueWithout
<1> HIDE DEF k, g
<1>5. h \in GcRequestType /\ h.io = g.io /\ h.lpn = g.lpn
  BY <1>2 DEF GcRequestType
<1> HIDE DEF h
<1>6. UserOnce
  BY DEF CountInv
<1>7. UserIssued' = IF g.io = "GC" THEN UserIssued \union {h} ELSE UserIssued
  BY <1>3, <1>5 DEF UserIssued
<1>8. g.io = "GC" => h \notin UserIssued
  BY <1>2, <1>5, <1>6 DEF UserOnce
<1>9. Cardinality(UserIssued \union {h})
        = IF h \in UserIssued THEN Cardinality(UserIssued) ELSE Cardinality(UserIssued) + 1
  BY <1>1, CountTypes, FS_AddElement
<1>10. Cardinality(UserIssued') = Cardinality(UserIssued) + (IF g.io = "GC" THEN 1 ELSE 0)
  BY <1>1, <1>7, <1>8, <1>9, CountTypes
<1>11. UserPagesCounted'
  <2>1. OfUser(gcDoneQ)' = OfUser(gcDoneQ)
    BY <1>3 DEF OfUser
  <2> QED BY <1>1, <1>3, <1>4, <1>10, <2>1, CountTypes, CountMeaning, CountMeaningNext
          DEF CountInv
<1>12. UserOnce'
  <2>1. PICK f \in [DOMAIN gcQ' -> DOMAIN gcQ] :
           /\ \A i \in DOMAIN gcQ' : f[i] # k /\ gcQ'[i] = gcQ[f[i]]
           /\ \A i, j \in DOMAIN gcQ' : f[i] = f[j] => i = j
    BY <1>4
  <2>2. \A i \in DOMAIN gcQ' : f[i] \in DOMAIN gcQ
    BY <2>1
  <2>3. \A i, j \in DOMAIN gcQ' :
          gcQ'[i].io = "GC" /\ gcQ'[j].io = "GC" /\ gcQ'[i].lpn = gcQ'[j].lpn => i = j
    BY <1>6, <2>1, <2>2 DEF UserOnce
  <2>4. \A i \in DOMAIN gcQ' : gcQ'[i].io = "GC" => gcQ'[i].lpn \notin gcVictim'["GC"]
    BY <1>3, <1>6, <2>1, <2>2 DEF UserOnce
  <2>5. \A a \in UserIssued' : a.lpn \notin gcVictim'["GC"]
    BY <1>2, <1>3, <1>5, <1>6, <1>7 DEF UserOnce
  <2>6. \A a, b \in UserIssued' : a.lpn = b.lpn => a = b
    BY <1>2, <1>5, <1>6, <1>7 DEF UserOnce
  <2>7. ASSUME NEW i \in DOMAIN gcQ', NEW a \in UserIssued', gcQ'[i].io = "GC"
        PROVE  gcQ'[i].lpn # a.lpn
    <3>1. f[i] \in DOMAIN gcQ /\ f[i] # k /\ gcQ[f[i]].io = "GC" /\ gcQ'[i] = gcQ[f[i]]
      BY <2>1, <2>2, <2>7
    <3>2. CASE a \in UserIssued
      BY <1>6, <3>1, <3>2 DEF UserOnce
    <3>3. CASE a \notin UserIssued
      <4>1. a = h /\ g.io = "GC"
        BY <1>7, <3>3
      <4> QED BY <1>2, <1>5, <1>6, <3>1, <4>1 DEF UserOnce
    <3> QED BY <3>2, <3>3
  <2> QED BY <2>3, <2>4, <2>5, <2>6, <2>7 DEF UserOnce
<1>13. IsFiniteSet(gcIssued')
  BY <1>1, <1>3, FS_AddElement
<1> QED BY <1>11, <1>12, <1>13 DEF CountInv

\* A page of the victim is written: its old copy is not in the victim any more,
\* because the request was made when it left.  The new copy may be: it then takes
\* the place of a page of the excess.
LEMMA GCWriteCount ==
  ASSUME IInv, CountInv, GCWrite
  PROVE  CountInv'
<1>1. /\ gcQ \in Seq(GcRequestType) /\ gcQ # <<>> /\ TypeOK /\ IsFiniteSet(gcIssued)
      /\ gcDoneQ \in Seq(GcRequestType)
      /\ gcVictim \in [{"GC", "META"} -> SUBSET LPN]
  BY DEF IInv, TypeOK, GCWrite, GCToWrite, CountInv, Collectors
<1> DEFINE k == GCWaitPosition
           g == GCWaitRequest
           h == [g EXCEPT !.status = "WRITE_DONE"]
<1>2. k \in DOMAIN gcQ /\ g = gcQ[k] /\ g \in GcRequestType
  BY <1>1, GCWaitPositionFacts DEF GCWaitRequest
<1>3. /\ gcQ' = RemoveAt(gcQ, GCWaitPosition)
      /\ gcDoneQ' = Append(gcDoneQ, h)
      /\ gcIssued' = gcIssued /\ gcLeft' = gcLeft
  BY DEF GCWrite
<1>4. \/ /\ g.io = "GC"
         /\ gcVictim' = [gcVictim EXCEPT !["GC"] = @ \ {g.lpn}]
         /\ gcExcess' = gcExcess
      \/ /\ g.io = "GC"
         /\ gcVictim' = [gcVictim EXCEPT !["GC"] = @ \union {g.lpn}]
         /\ gcExcess' = gcExcess - 1
      \/ /\ g.io = "META"
         /\ gcVictim' = [gcVictim EXCEPT !["META"] = @ \ {g.lpn}]
         /\ gcExcess' = gcExcess
  BY DEF GCWrite
<1>5. /\ Cardinality(OfUser(gcQ)')
           = Cardinality(OfUser(gcQ)) - (IF g.io = "GC" THEN 1 ELSE 0)
      /\ \E f \in [DOMAIN gcQ' -> DOMAIN gcQ] :
           /\ \A i \in DOMAIN gcQ' : f[i] # k /\ gcQ'[i] = gcQ[f[i]]
           /\ \A i, j \in DOMAIN gcQ' : f[i] = f[j] => i = j
  BY <1>1, <1>3, QueueWithout
<1> HIDE DEF k, g
<1>6. h \in GcRequestType /\ h.io = g.io
  BY <1>2 DEF GcRequestType
<1> HIDE DEF h
<1>7. UserOnce
  BY DEF CountInv
<1>a. g.io = "GC" => g.lpn \notin gcVictim["GC"]
  BY <1>2, <1>7 DEF UserOnce
<1>8. \/ gcVictim'["GC"] = gcVictim["GC"] /\ gcExcess' = gcExcess
      \/ /\ g.io = "GC"
         /\ gcVictim'["GC"] = gcVictim["GC"] \union {g.lpn}
         /\ gcExcess' = gcExcess - 1
  <2>1. CASE g.io = "GC" /\ gcExcess' = gcExcess - 1
    BY <1>1, <1>4, <1>a, <2>1, CountTypes
  <2>2. CASE g.io = "GC" /\ gcExcess' = gcExcess
    <3>1. gcVictim'["GC"] = gcVictim["GC"] \ {g.lpn}
      BY <1>1, <1>4, <2>2, CountTypes
    <3> QED BY <1>a, <2>2, <3>1
  <2>3. CASE g.io = "META"
    BY <1>1, <1>4, <2>3
  <2> QED BY <1>4, <2>1, <2>2, <2>3
<1>b. gcExcess' + Cardinality(gcVictim'["GC"]) = gcExcess + Cardinality(gcVictim["GC"])
  <2>1. CASE gcVictim'["GC"] = gcVictim["GC"] /\ gcExcess' = gcExcess
    BY <2>1
  <2>2. CASE /\ g.io = "GC"
             /\ gcVictim'["GC"] = gcVictim["GC"] \union {g.lpn}
             /\ gcExcess' = gcExcess - 1
    <3>1. Cardinality(gcVictim["GC"] \union {g.lpn}) = Cardinality(gcVictim["GC"]) + 1
      BY <1>1, <1>a, <2>2, CountTypes, FS_AddElement
    <3> QED BY <1>1, <2>2, <3>1, CountTypes
  <2> QED BY <1>8, <2>1, <2>2
<1>c. gcExcess' \in Nat /\ Cardinality(gcVictim'["GC"]) \in Nat
  <2>1. IInv'
    BY GCWriteStep
  <2>2. gcVictim'["GC"] \subseteq LPN /\ gcExcess' \in 0..MaxExcess
    BY <2>1 DEF IInv, TypeOK, Collectors
  <2>3. IsFiniteSet(gcVictim'["GC"])
    BY <2>2, LPNFinite, FS_Subset
  <2> QED BY <2>2, <2>3, FS_CardinalityType, SizesAssumption
<1>9. Cardinality(OfUser(gcDoneQ)')
        = Cardinality(OfUser(gcDoneQ)) + (IF g.io = "GC" THEN 1 ELSE 0)
  BY <1>1, <1>3, <1>6, OfUserAppend
<1>10. UserIssued' = UserIssued
  BY <1>3 DEF UserIssued
<1>11. UserPagesCounted'
  <2> DEFINE A == Cardinality(OfUser(gcQ))
             B == Cardinality(OfUser(gcDoneQ))
             C == Cardinality(UserIssued)
  <2>1. /\ gcLeft["GC"] = gcExcess + Cardinality(gcVictim["GC"]) + A + C + B
        /\ A \in Nat /\ B \in Nat /\ C \in Nat
        /\ gcExcess \in Nat /\ Cardinality(gcVictim["GC"]) \in Nat
    BY <1>1, CountTypes, CountMeaning DEF CountInv
  <2>2. /\ Cardinality(OfUser(gcQ)') = A - (IF g.io = "GC" THEN 1 ELSE 0)
        /\ Cardinality(OfUser(gcDoneQ)') = B + (IF g.io = "GC" THEN 1 ELSE 0)
        /\ Cardinality(UserIssued') = C
        /\ gcLeft'["GC"] = gcLeft["GC"]
    BY <1>3, <1>5, <1>9, <1>10
  <2> HIDE DEF A, B, C
  <2>3. gcLeft'["GC"] = gcExcess' + Cardinality(gcVictim'["GC"])
                        + Cardinality(OfUser(gcQ)')
                        + Cardinality(UserIssued') + Cardinality(OfUser(gcDoneQ)')
    BY <1>b, <1>c, <2>1, <2>2
  <2> QED BY <2>3, CountMeaningNext
<1>12. UserOnce'
  <2>1. PICK f \in [DOMAIN gcQ' -> DOMAIN gcQ] :
           /\ \A i \in DOMAIN gcQ' : f[i] # k /\ gcQ'[i] = gcQ[f[i]]
           /\ \A i, j \in DOMAIN gcQ' : f[i] = f[j] => i = j
    BY <1>5
  <2>2. \A i \in DOMAIN gcQ' : f[i] \in DOMAIN gcQ
    BY <2>1
  <2>3. \A i, j \in DOMAIN gcQ' :
          gcQ'[i].io = "GC" /\ gcQ'[j].io = "GC" /\ gcQ'[i].lpn = gcQ'[j].lpn => i = j
    BY <1>7, <2>1, <2>2 DEF UserOnce
  <2>4. ASSUME NEW i \in DOMAIN gcQ', gcQ'[i].io = "GC"
        PROVE  gcQ'[i].lpn \notin gcVictim'["GC"]
    <3>1. /\ f[i] \in DOMAIN gcQ /\ f[i] # k
          /\ gcQ[f[i]].io = "GC" /\ gcQ'[i] = gcQ[f[i]]
      BY <2>1, <2>2, <2>4
    <3>2. gcQ'[i].lpn \notin gcVictim["GC"]
      BY <1>7, <3>1 DEF UserOnce
    <3>3. g.io = "GC" => gcQ'[i].lpn # g.lpn
      BY <1>2, <1>7, <3>1 DEF UserOnce
    <3> QED BY <1>8, <3>2, <3>3
  <2>5. ASSUME NEW a \in UserIssued'
        PROVE  a.lpn \notin gcVictim'["GC"]
    <3>1. a \in UserIssued
      BY <1>10
    <3>2. a.lpn \notin gcVictim["GC"] /\ (g.io = "GC" => a.lpn # g.lpn)
      BY <1>2, <1>7, <3>1 DEF UserOnce
    <3> QED BY <1>8, <3>2
  <2>6. /\ \A i \in DOMAIN gcQ', a \in UserIssued' :
             gcQ'[i].io = "GC" => gcQ'[i].lpn # a.lpn
        /\ \A a, b \in UserIssued' : a.lpn = b.lpn => a = b
    BY <1>7, <1>10, <2>1, <2>2 DEF UserOnce
  <2> QED BY <2>3, <2>4, <2>5, <2>6 DEF UserOnce
<1> QED BY <1>1, <1>3, <1>11, <1>12 DEF CountInv

\* The host writes only while no user block is collected, so there is no victim
\* whose pages it could invalidate.
LEMMA HilWriteCount ==
  ASSUME IInv, CountInv, HilWrite
  PROVE  CountInv'
<1>1. TypeOK /\ gcVictim \in [{"GC", "META"} -> SUBSET LPN]
  BY DEF IInv, TypeOK, Collectors
<1>2. ~IsGCRunning("GC") /\ UNCHANGED <<gcQ, gcIssued, gcDoneQ, gcLeft, gcExcess>>
  BY DEF HilWrite, HilBlocked
<1>3. gcVictim["GC"] = {}
  BY <1>1, <1>2, IdleCollector
<1>4. gcVictim' = [gcVictim EXCEPT !["GC"] = @ \ {HilCur}]
  BY DEF HilWrite
<1> QED BY <1>1, <1>2, <1>3, <1>4, CountFrame

\* A victim is picked when the collector has nothing in hand.
LEMMA StartGCCount ==
  ASSUME IInv, CountInv, NEW t \in Collectors, StartGC(t)
  PROVE  CountInv'
<1>1. TypeOK /\ gcVictim \in [{"GC", "META"} -> SUBSET LPN] /\ gcLeft \in [{"GC", "META"} -> Int]
      /\ t \in {"GC", "META"} /\ IsFiniteSet(gcIssued)
  BY DEF IInv, TypeOK, Collectors, CountInv
<1>2. PICK victim \in SUBSET MappedPages(t), excess \in 0..MaxExcess :
        /\ gcVictim' = [gcVictim EXCEPT ![t] = victim]
        /\ gcLeft' = [gcLeft EXCEPT ![t] = Cardinality(victim) + excess]
        /\ gcExcess' = IF t = "GC" THEN excess ELSE gcExcess
  BY DEF StartGC
<1>3. UNCHANGED <<gcQ, gcIssued, gcDoneQ>> /\ ~IsGCRunning(t)
  BY DEF StartGC
<1>4. CASE t = "META"
  BY <1>1, <1>2, <1>3, <1>4, CountFrame
<1>5. CASE t = "GC"
  <2>1. /\ OfUser(gcQ) = {} /\ UserIssued = {}
        /\ Cardinality(OfUser(gcQ)) = 0 /\ Cardinality(UserIssued) = 0
        /\ Cardinality(OfUser(gcDoneQ)) = 0
    BY <1>1, <1>3, <1>5, IdleCollector
  <2>2. /\ OfUser(gcQ)' = OfUser(gcQ) /\ UserIssued' = UserIssued
        /\ OfUser(gcDoneQ)' = OfUser(gcDoneQ)
    BY <1>3 DEF OfUser, UserIssued
  <2>3. gcLeft'["GC"] = Cardinality(gcVictim'["GC"]) + gcExcess'
    BY <1>1, <1>2, <1>5
  <2>4. IInv'
    BY StartGCStep
  <2>5. Cardinality(gcVictim'["GC"]) \in Nat /\ gcExcess' \in Nat
    <3>1. /\ gcVictim'["GC"] \subseteq LPN
          /\ gcExcess' \in 0..MaxExcess
      BY <2>4 DEF IInv, TypeOK, Collectors
    <3>2. IsFiniteSet(gcVictim'["GC"])
      BY <3>1, LPNFinite, FS_Subset
    <3> QED BY <3>1, <3>2, FS_CardinalityType, SizesAssumption
  <2>6. UserPagesCounted'
    BY <2>1, <2>2, <2>3, <2>5, CountMeaningNext
  <2>7. \A i \in DOMAIN gcQ' : gcQ'[i].io # "GC"
    BY <1>3, <2>1 DEF OfUser
  <2>8. UserOnce'
    BY <2>1, <2>2, <2>7 DEF UserOnce
  <2> QED BY <1>1, <1>3, <2>6, <2>8 DEF CountInv
<1> QED BY <1>1, <1>4, <1>5

\* The next page of the victim is queued to be read.
LEMMA GCReadCount ==
  ASSUME IInv, CountInv, GCRead
  PROVE  CountInv'
<1>1. /\ TypeOK /\ gcVictim \in [{"GC", "META"} -> SUBSET LPN] /\ IsFiniteSet(gcIssued)
      /\ gcQ \in Seq(GcRequestType)
  BY DEF IInv, TypeOK, Collectors, CountInv
<1>2. PICK n \in gcVictim[Reader] :
        /\ gcVictim' = [gcVictim EXCEPT ![Reader] = @ \ {n}]
        /\ gcQ' = Append(gcQ, [io |-> Reader, status |-> "READ_WAIT", lpn |-> n,
                               buf |-> IF Reader = "GC" THEN Blank ELSE metaFlash[n]])
  BY DEF GCRead
<1>3. UNCHANGED <<gcIssued, gcDoneQ, gcLeft, gcExcess>>
  BY DEF GCRead
<1> DEFINE g == [io |-> Reader, status |-> "READ_WAIT", lpn |-> n,
                 buf |-> IF Reader = "GC" THEN Blank ELSE metaFlash[n]]
<1>4. g.io = Reader /\ g.lpn = n /\ Reader \in {"GC", "META"} /\ n \in LPN
  BY <1>1, <1>2 DEF Reader
<1>5. g \in GcRequestType
  <2>1. Reader = "META" => metaFlash[n] \in Content
    <3> SUFFICES ASSUME Reader = "META" PROVE metaFlash[n] \in Content
      OBVIOUS
    <3>1. n \in MetaLPN /\ metaFlash[n] # NoContent
      BY <1>2 DEF IInv, VictimStored
    <3> QED BY <1>1, <3>1 DEF TypeOK
  <2>2. Blank \in Content
    BY ContentFacts
  <2> QED BY <1>4, <2>1, <2>2 DEF GcRequestType, Collectors
<1>6. gcQ' = Append(gcQ, g)
  BY <1>2
<1> HIDE DEF g
<1>7. Cardinality(OfUser(gcQ)') = Cardinality(OfUser(gcQ)) + (IF g.io = "GC" THEN 1 ELSE 0)
  BY <1>1, <1>5, <1>6, OfUserAppend
<1>8. gcVictim'["GC"] = IF g.io = "GC" THEN gcVictim["GC"] \ {n} ELSE gcVictim["GC"]
  BY <1>1, <1>2, <1>4
<1>9. Cardinality(gcVictim["GC"] \ {n})
        = IF n \in gcVictim["GC"] THEN Cardinality(gcVictim["GC"]) - 1
                                  ELSE Cardinality(gcVictim["GC"])
  BY <1>1, CountTypes, FS_RemoveElement
<1>10. g.io = "GC" => n \in gcVictim["GC"]
  BY <1>2, <1>4
<1>11. Cardinality(gcVictim'["GC"])
         = Cardinality(gcVictim["GC"]) - (IF g.io = "GC" THEN 1 ELSE 0)
  BY <1>1, <1>8, <1>9, <1>10, CountTypes
<1>12. UserIssued' = UserIssued /\ OfUser(gcDoneQ)' = OfUser(gcDoneQ)
  BY <1>3 DEF UserIssued, OfUser
<1>13. UserPagesCounted'
  BY <1>1, <1>3, <1>7, <1>11, <1>12, CountTypes, CountMeaning, CountMeaningNext DEF CountInv
<1>14. UserOnce'
  <2>1. /\ DOMAIN gcQ' = DOMAIN gcQ \union {Len(gcQ) + 1}
        /\ gcQ'[Len(gcQ) + 1] = g
        /\ \A i \in DOMAIN gcQ : gcQ'[i] = gcQ[i] /\ i # Len(gcQ) + 1
    BY <1>1, <1>6
  <2>2. UserOnce
    BY DEF CountInv
  <2> QED BY <1>4, <1>8, <1>10, <1>12, <2>1, <2>2 DEF UserOnce
<1> QED BY <1>1, <1>3, <1>13, <1>14 DEF CountInv

\* Every other step leaves the user collector alone.
LEMMA NextCount ==
  IInv /\ CountInv /\ [Next]_vars => CountInv'
<1> SUFFICES ASSUME IInv, CountInv, [Next]_vars PROVE CountInv'
  OBVIOUS
<1> DEFINE Alone == /\ gcVictim'["GC"] = gcVictim["GC"] /\ gcLeft'["GC"] = gcLeft["GC"]
                    /\ UNCHANGED <<gcExcess, gcQ, gcIssued, gcDoneQ>>
<1>1. Alone => CountInv'
  BY CountFrame
<1>2. CASE Main
  BY <1>1, <1>2 DEF Main, FormatPage, FormatBusy, HostArrives, NoCommand, gcVars, gcCounts
<1>3. CASE Fil
  BY <1>1, <1>3, GCReadDoneCount DEF Fil, MetaReadCallBack, FilRunDone, gcVars, gcCounts
<1>4. CASE GCDone
  BY <1>1, <1>4, GCWriteDoneCount DEF GCDone, GCDoneQEmpty, gcVars, gcCounts
<1>5. CASE MetaDone
  BY <1>1, <1>5 DEF MetaDone, MetaReadDone, MetaWriteDone, MetaDoneQEmpty, gcVars, gcCounts
<1>6. CASE MetaWait
  <2>1. gcVictim \in [{"GC", "META"} -> SUBSET LPN]
    BY DEF IInv, TypeOK, Collectors
  <2>2. CASE MetaWriteWait
    BY <1>1, <2>1, <2>2 DEF MetaWriteWait
  <2> QED BY <1>1, <1>6, <2>2 DEF MetaWait, MetaReadWait, MetaWriteBusy, MetaWaitQEmpty,
                                  gcVars, gcCounts
<1>7. CASE GCWait
  BY <1>1, <1>7, GCReadWaitCount, GCWriteCount
     DEF GCWait, GCWaitQEmpty, GCWriteBlocked, GCWriteMiss, GCWriteBusy, gcVars, gcCounts
<1>8. CASE HilWait
  BY <1>1, <1>8, HilWriteCount
     DEF HilWait, HilWaitQEmpty, HilWaitBlocked, HilMiss, HilRead, HilWriteBusy, gcVars, gcCounts
<1>9. CASE GCRun
  BY <1>1, <1>9, StartGCCount, GCReadCount DEF GCRun, NoStartGC, NoGCRead, gcVars, gcCounts
<1>10. CASE UNCHANGED vars
  BY <1>1, <1>10 DEF vars
<1> QED BY <1>2, <1>3, <1>4, <1>5, <1>6, <1>7, <1>8, <1>9, <1>10 DEF Next

\* At the start nothing is collected.
LEMMA InitCount ==
  Init => CountInv
<1> SUFFICES ASSUME Init PROVE CountInv
  OBVIOUS
<1>1. /\ gcQ = <<>> /\ gcIssued = {} /\ gcDoneQ = <<>>
      /\ gcVictim["GC"] = {} /\ gcLeft["GC"] = 0 /\ gcExcess = 0
  BY DEF Init, Collectors
<1>2. OfUser(gcQ) = {} /\ UserIssued = {} /\ OfUser(gcDoneQ) = {}
  BY <1>1 DEF OfUser, UserIssued
<1>3. UserPagesCounted
  <2>1. /\ Cardinality(gcVictim["GC"]) = 0 /\ Cardinality(OfUser(gcQ)) = 0
        /\ Cardinality(UserIssued) = 0 /\ Cardinality(OfUser(gcDoneQ)) = 0
    BY <1>1, <1>2, FS_EmptySet
  <2> QED BY <1>1, <2>1, CountMeaning
<1>4. UserOnce
  BY <1>1, <1>2 DEF UserOnce
<1> QED BY <1>1, <1>3, <1>4, FS_EmptySet DEF CountInv

\* m_nWriteCount of a user collection (dftl_garbagecollector.cpp:122, IncreaseWriteCount)
\* falls short of m_nVPC, line 108, by exactly the excess: the pages of the victim that
\* m_nVPC counts and nobody has written.  Every other page that is not counted yet is
\* unread in the victim or in exactly one GC request.
THEOREM UserPagesAreCounted == Spec => []UserPagesCounted
<1>1. Init => IInv /\ CountInv
  BY InitInv, InitCount
<1>2. (IInv /\ CountInv) /\ [Next]_vars => (IInv /\ CountInv)'
  BY NextInv, NextCount
<1>3. IInv /\ CountInv => UserPagesCounted
  BY DEF CountInv
<1> QED BY <1>1, <1>2, <1>3, PTL DEF Spec

(***************************************************************************)
(* The mapping.  Without a meta collector, and as long as no mapping       *)
(* changes in a page that is being stored, the cache and the meta block    *)
(* together hold every mapping SetL2V was given.                           *)
(***************************************************************************)

\* No request moves a meta page.
NoMetaCollector ==
  /\ gcLeft["META"] <= 0
  /\ \A i \in DOMAIN gcQ : gcQ[i].io # "META"
  /\ \A g \in gcIssued : g.io # "META"

\* A flush holds what its entry holds, and has written it when it is done; a load
\* holds what the meta block holds.
Buffers ==
  \A r \in Outstanding :
    /\ req[r].status \in {"WRITE_WAIT", "WRITE_DONE"} => entry[req[r].entry].l2v = req[r].buf
    /\ req[r].status \in {"READ_ISSUE", "READ_DONE", "WRITE_DONE"}
         => metaFlash[req[r].metaLPN] = req[r].buf

\* Nothing is mapped in a page that is not formatted yet.
BlankUntilFormatted ==
  \A n \in LPN : ~(MetaLPNOf(n) < nFormat) => latest[n] = Invalid

\* The inductive invariant of the mapping, on top of IInv.
MappingInv == Buffers /\ BlankUntilFormatted /\ DirtyUntilStored /\ MappingKept

\* No mapping changes in a page that is being stored.
StoredUndisturbed ==
  \A e \in Entries : entry[e].io /\ entry[e].valid => entry'[e].l2v = entry[e].l2v

\* Entry e holds the mapping of LPN n.
Holder(n, e) == entry[e].valid /\ entry[e].metaLPN = MetaLPNOf(n)

\* The mapping of LPN n is where a lookup finds it.
Kept(n) ==
  /\ \A e \in Entries : Holder(n, e) => entry[e].l2v[OffsetOf(n)] = latest[n]
  /\ (\A e \in Entries : ~Holder(n, e)) =>
       /\ metaFlash[MetaLPNOf(n)] # NoContent
       /\ metaFlash[MetaLPNOf(n)][OffsetOf(n)] = latest[n]

\* MappingKept, LPN by LPN, before and after a step.
LEMMA KeptMeaning ==
  MappingKept <=> \A n \in LPN : MetaLPNOf(n) < nFormat => Kept(n)
BY DEF MappingKept, Kept, Holder

LEMMA KeptMeaningNext ==
  MappingKept' <=> \A n \in LPN : MetaLPNOf(n) < nFormat' => Kept(n)'
BY DEF MappingKept, Kept, Holder

\* A step that leaves pages, mappings and marks as they are.
LEMMA MappingFrame ==
  ASSUME MappingInv,
         \A e \in Entries : /\ entry'[e].valid = entry[e].valid
                            /\ entry'[e].dirty = entry[e].dirty
                            /\ entry'[e].metaLPN = entry[e].metaLPN
                            /\ entry'[e].l2v = entry[e].l2v,
         UNCHANGED <<metaFlash, nFormat, latest>>
  PROVE  BlankUntilFormatted' /\ DirtyUntilStored' /\ MappingKept'
<1>1. BlankUntilFormatted'
  BY DEF MappingInv, BlankUntilFormatted
<1>2. DirtyUntilStored'
  BY DEF MappingInv, DirtyUntilStored
<1>3. \A n \in LPN, e \in Entries : Holder(n, e)' <=> Holder(n, e)
  BY DEF Holder
<1>4. \A n \in LPN : Kept(n) => Kept(n)'
  BY <1>3 DEF Kept
<1>5. MappingKept'
  BY <1>4, KeptMeaning, KeptMeaningNext DEF MappingInv
<1> QED BY <1>1, <1>2, <1>5

\* A clean entry x loses its page: the meta block holds its mappings.
LEMMA EvictKept ==
  ASSUME IInv, MappingInv, NEW x \in Entries, ~entry[x].dirty,
         \A f \in Entries : f # x => entry'[f] = entry[f],
         UNCHANGED <<metaFlash, latest>>,
         NEW n \in LPN, MetaLPNOf(n) < nFormat, ~Holder(n, x)'
  PROVE  Kept(n)'
<1>1. Kept(n)
  BY KeptMeaning DEF MappingInv
<1>2. \A f \in Entries : Holder(n, f)' => f # x /\ Holder(n, f) /\ entry'[f] = entry[f]
  BY DEF Holder
<1>3. \A f \in Entries : Holder(n, f)' => entry'[f].l2v[OffsetOf(n)] = latest'[n]
  BY <1>1, <1>2 DEF Kept
<1>4. ASSUME \A f \in Entries : ~Holder(n, f)'
      PROVE  /\ metaFlash[MetaLPNOf(n)] # NoContent
             /\ metaFlash[MetaLPNOf(n)][OffsetOf(n)] = latest[n]
  <2>1. CASE Holder(n, x)
    <3>1. entry[x].l2v = metaFlash[MetaLPNOf(n)]
      BY <2>1 DEF MappingInv, DirtyUntilStored, Holder
    <3>2. entry[x].l2v \in Content
      BY DEF IInv, TypeOK, EntryType
    <3>3. entry[x].l2v[OffsetOf(n)] = latest[n]
      BY <1>1, <2>1 DEF Kept
    <3> QED BY <3>1, <3>2, <3>3, ContentFacts
  <2>2. CASE ~Holder(n, x)
    <3>1. \A f \in Entries : ~Holder(n, f)
      BY <1>4, <2>2 DEF Holder
    <3> QED BY <1>1, <3>1 DEF Kept
  <2> QED BY <2>1, <2>2
<1> QED BY <1>3, <1>4 DEF Kept

LEMMA EvictMapping ==
  ASSUME IInv, MappingInv, NEW x \in Entries, ~entry[x].dirty, ~entry'[x].valid,
         \A f \in Entries : f # x => entry'[f] = entry[f],
         UNCHANGED <<metaFlash, nFormat, latest>>
  PROVE  BlankUntilFormatted' /\ DirtyUntilStored' /\ MappingKept'
<1>1. BlankUntilFormatted'
  BY DEF MappingInv, BlankUntilFormatted
<1>2. DirtyUntilStored'
  BY DEF MappingInv, DirtyUntilStored
<1>3. ASSUME NEW n \in LPN, MetaLPNOf(n) < nFormat
      PROVE  Kept(n)'
  BY <1>3, EvictKept DEF Holder
<1>4. MappingKept'
  BY <1>3, KeptMeaningNext
<1> QED BY <1>1, <1>2, <1>4

\* A busy tail, or the start of its flush.
LEMMA AllocateBusyMapping ==
  ASSUME IInv, ListsIntact, MappingInv, NEW l \in Seq(Entries), ToSet(l) = ToSet(lru),
         AllocateBusy(l), UNCHANGED <<metaFlash, nFormat, latest>>
  PROVE  MappingInv'
<1> DEFINE e == Last(l)
           r == FirstFree
           q == [status |-> "WRITE_WAIT", metaLPN |-> entry[e].metaLPN, entry |-> e,
                 buf |-> entry[e].l2v]
<1>1. e \in Entries /\ entry \in [Entries -> EntryType] /\ req \in [Requests -> RequestType]
  BY AllocateFacts DEF AllocateBusy, IInv, TypeOK
<1>2. CASE UNCHANGED <<entry, req>>
  <2>1. Buffers'
    BY <1>2 DEF MappingInv, Buffers, Outstanding
  <2> QED BY <1>2, <2>1, MappingFrame DEF MappingInv
<1>3. CASE ~UNCHANGED <<entry, req>>
  <2>1. /\ FreeRequests # {}
        /\ req' = [req EXCEPT ![r] = q]
        /\ entry' = [entry EXCEPT ![e].io = TRUE]
    BY <1>3 DEF AllocateBusy, StartRequest
  <2>2. r \in Requests
    BY <2>1 DEF FirstFree, FreeRequests
  <2> HIDE DEF r
  <2>3. q.entry = e /\ q.buf = entry[e].l2v /\ q.status = "WRITE_WAIT"
    OBVIOUS
  <2> HIDE DEF q, e
  <2>4. \A f \in Entries : /\ entry'[f].valid = entry[f].valid
                           /\ entry'[f].dirty = entry[f].dirty
                           /\ entry'[f].metaLPN = entry[f].metaLPN
                           /\ entry'[f].l2v = entry[f].l2v
    BY <1>1, <2>1 DEF EntryType
  <2>5. /\ req'[r] = q
        /\ \A s \in Requests : s # r => req'[s] = req[s]
    BY <1>1, <2>1, <2>2
  <2>6. ASSUME NEW s \in Outstanding'
        PROVE  /\ req'[s].status \in {"WRITE_WAIT", "WRITE_DONE"}
                    => entry'[req'[s].entry].l2v = req'[s].buf
               /\ req'[s].status \in {"READ_ISSUE", "READ_DONE", "WRITE_DONE"}
                    => metaFlash'[req'[s].metaLPN] = req'[s].buf
    <3>1. CASE s = r
      BY <1>1, <2>3, <2>4, <2>5, <3>1
    <3>2. CASE s # r
      <4>1. s \in Outstanding /\ req'[s] = req[s]
        BY <2>5, <2>6, <3>2 DEF Outstanding
      <4>2. req[s].entry \in Entries
        BY <4>1 DEF IInv, RequestMatchesEntry
      <4> QED BY <2>4, <4>1, <4>2 DEF MappingInv, Buffers
    <3> QED BY <3>1, <3>2
  <2>7. Buffers'
    BY <2>6 DEF Buffers
  <2> QED BY <2>4, <2>7, MappingFrame DEF MappingInv
<1> QED BY <1>2, <1>3

\* A page is looked up that is not there: its load starts, or there is no request
\* for it, or _Allocate reports busy.
LEMMA LoadMetaMapping ==
  ASSUME IInv, ListsIntact, MappingInv, NEW l \in Seq(Entries), ToSet(l) = ToSet(lru),
         NEW p \in MetaLPN, LoadMeta(l, p), UNCHANGED <<metaFlash, nFormat, latest>>
  PROVE  MappingInv'
<1> DEFINE e == Allocated(l)
           r == FirstFree
           q == [status |-> "READ_WAIT", metaLPN |-> p, entry |-> e, buf |-> NoContent]
<1>1. entry \in [Entries -> EntryType] /\ req \in [Requests -> RequestType]
  BY DEF IInv, TypeOK
<1>2. CASE UNCHANGED <<entry, req>>
  <2>1. Buffers'
    BY <1>2 DEF MappingInv, Buffers, Outstanding
  <2> QED BY <1>2, <2>1, MappingFrame DEF MappingInv
<1>3. CASE AllocateBusy(l)
  BY <1>3, AllocateBusyMapping
<1>4. CASE /\ AllocateSucceeds(l)
           /\ FreeRequests # {}
           /\ entry' = [entry EXCEPT ![e].valid = FALSE, ![e].metaLPN = p, ![e].io = TRUE]
           /\ req' = [req EXCEPT ![r] = q]
  <2>1. e \in Entries /\ ~entry[e].dirty
    BY <1>4, AllocateFacts
  <2>2. r \in Requests
    BY <1>4 DEF FirstFree, FreeRequests
  <2> HIDE DEF r, e
  <2>3. q.status = "READ_WAIT"
    OBVIOUS
  <2> HIDE DEF q
  <2>4. /\ \A f \in Entries : f # e => entry'[f] = entry[f]
        /\ \A f \in Entries : entry'[f].l2v = entry[f].l2v
        /\ ~entry'[e].valid
    BY <1>1, <1>4, <2>1 DEF EntryType
  <2>5. /\ req'[r] = q
        /\ \A s \in Requests : s # r => req'[s] = req[s]
    BY <1>1, <1>4, <2>2
  <2>6. ASSUME NEW s \in Outstanding'
        PROVE  /\ req'[s].status \in {"WRITE_WAIT", "WRITE_DONE"}
                    => entry'[req'[s].entry].l2v = req'[s].buf
               /\ req'[s].status \in {"READ_ISSUE", "READ_DONE", "WRITE_DONE"}
                    => metaFlash'[req'[s].metaLPN] = req'[s].buf
    <3>1. CASE s = r
      BY <2>3, <2>5, <3>1
    <3>2. CASE s # r
      <4>1. s \in Outstanding /\ req'[s] = req[s]
        BY <2>5, <2>6, <3>2 DEF Outstanding
      <4>2. req[s].entry \in Entries
        BY <4>1 DEF IInv, RequestMatchesEntry
      <4> QED BY <2>4, <4>1, <4>2 DEF MappingInv, Buffers
    <3> QED BY <3>1, <3>2
  <2>7. Buffers'
    BY <2>6 DEF Buffers
  <2> QED BY <2>1, <2>4, <2>7, EvictMapping DEF MappingInv
<1>5. CASE /\ AllocateSucceeds(l)
           /\ entry' = [entry EXCEPT ![e].valid = FALSE]
           /\ UNCHANGED req
  <2>1. e \in Entries /\ ~entry[e].dirty
    BY <1>5, AllocateFacts
  <2> HIDE DEF e
  <2>2. /\ \A f \in Entries : f # e => entry'[f] = entry[f]
        /\ \A f \in Entries : entry'[f].l2v = entry[f].l2v
        /\ ~entry'[e].valid
    BY <1>1, <1>5, <2>1 DEF EntryType
  <2>3. Buffers'
    BY <1>5, <2>2 DEF MappingInv, Buffers, Outstanding, IInv, RequestMatchesEntry
  <2> QED BY <2>1, <2>2, <2>3, EvictMapping DEF MappingInv
<1> QED BY <1>2, <1>3, <1>4, <1>5 DEF LoadMeta, StartRequest


\* A meta page is formatted: nothing is mapped in it, and the page that was in the
\* entry is in the meta block.
LEMMA FormatPageMapping ==
  ASSUME IInv, MappingInv, FormatPage
  PROVE  MappingInv'
<1>1. /\ ListsIntact /\ lru \in Seq(Entries) /\ AllocateSucceeds(lru)
      /\ entry \in [Entries -> EntryType] /\ nFormat \in 0..MetaPageCount
  BY DEF IInv, TypeOK, FormatFirst, FormatPage
<1>2. PICK x : x = Allocated(lru)
  OBVIOUS
<1>3. x \in Entries /\ ~entry[x].io /\ ~entry[x].dirty
  BY <1>1, <1>2, AllocateFacts
<1>4. /\ entry'[x] = [metaLPN |-> nFormat, valid |-> TRUE, dirty |-> TRUE,
                      io |-> entry[x].io, l2v |-> Blank]
      /\ \A f \in Entries : f # x => entry'[f] = entry[f]
      /\ nFormat' = nFormat + 1
      /\ UNCHANGED <<req, metaFlash, latest>>
  BY <1>1, <1>2, <1>3 DEF FormatPage, reqVars
<1>5. /\ entry'[x].metaLPN = nFormat /\ entry'[x].valid /\ entry'[x].dirty
      /\ entry'[x].l2v = Blank
  BY <1>4
<1>6. nFormat \in Nat /\ nFormat < MetaPageCount /\ MetaPageCount \in Nat
  BY <1>1, SizesAssumption DEF FormatPage, Formatted
<1>7. ASSUME NEW n \in LPN
      PROVE  MetaLPNOf(n) \in Nat
  BY <1>7, MetaLPNOfType DEF MetaLPN
<1>8. Buffers'
  <2>1. \A s \in Outstanding : req[s].entry \in Entries /\ req[s].entry # x
    BY <1>3 DEF IInv, RequestMatchesEntry
  <2>2. Outstanding' = Outstanding
    BY <1>4 DEF Outstanding
  <2> QED BY <1>4, <2>1, <2>2 DEF MappingInv, Buffers
<1>9. BlankUntilFormatted'
  BY <1>4, <1>6, <1>7 DEF MappingInv, BlankUntilFormatted
<1>10. DirtyUntilStored'
  BY <1>4, <1>5 DEF MappingInv, DirtyUntilStored
<1>11. ASSUME NEW n \in LPN, MetaLPNOf(n) < nFormat'
       PROVE  Kept(n)'
  <2>1. CASE MetaLPNOf(n) < nFormat
    <3>1. ~Holder(n, x)'
      BY <1>5, <1>6, <2>1 DEF Holder
    <3> QED BY <1>3, <1>4, <2>1, <3>1, EvictKept
  <2>2. CASE MetaLPNOf(n) = nFormat
    <3>1. Holder(n, x)'
      BY <1>5, <2>2 DEF Holder
    <3>2. \A f \in Entries : Holder(n, f)' => f = x
      <4>1. \A f \in Entries : f # x => entry'[f] = entry[f]
        BY <1>4
      <4>2. \A f \in Entries : entry[f].metaLPN # nFormat
        BY <1>6 DEF IInv, EntriesSound, MetaLPN
      <4> QED BY <2>2, <4>1, <4>2 DEF Holder
    <3>3. OffsetOf(n) \in Offset
      BY SizesAssumption DEF OffsetOf, Offset, LPN
    <3>4. Blank[OffsetOf(n)] = Invalid
      BY <3>3 DEF Blank
    <3>5. latest[n] = Invalid
      BY <1>6, <2>2 DEF MappingInv, BlankUntilFormatted
    <3>6. entry'[x].l2v[OffsetOf(n)] = latest'[n]
      BY <1>4, <1>5, <3>4, <3>5
    <3> QED BY <1>3, <3>1, <3>2, <3>6 DEF Kept
  <2> QED BY <1>4, <1>6, <1>7, <1>11, <2>1, <2>2
<1>12. MappingKept'
  BY <1>11, KeptMeaningNext
<1> QED BY <1>8, <1>9, <1>10, <1>12 DEF MappingInv

\* Two outstanding requests are for different pages and different entries.
LEMMA OutstandingFacts ==
  ASSUME IInv, NEW r \in Outstanding
  PROVE  /\ r \in Requests
         /\ req[r].entry \in Entries
         /\ entry[req[r].entry].metaLPN = req[r].metaLPN
         /\ req[r].metaLPN \in MetaLPN
         /\ entry[req[r].entry].io
         /\ (entry[req[r].entry].valid <=> ~IsLoad(r))
         /\ (entry[req[r].entry].dirty <=> ~IsLoad(r))
         /\ \A s \in Outstanding : s # r => /\ req[s].metaLPN # req[r].metaLPN
                                            /\ req[s].entry # req[r].entry
<1>1. /\ r \in Requests
      /\ req[r].entry \in Entries
      /\ entry[req[r].entry].metaLPN = req[r].metaLPN
      /\ req[r].metaLPN \in MetaLPN
      /\ entry[req[r].entry].io
      /\ (entry[req[r].entry].valid <=> ~IsLoad(r))
      /\ (entry[req[r].entry].dirty <=> ~IsLoad(r))
  BY DEF IInv, RequestMatchesEntry, RequestsSound, Outstanding
<1>2. ASSUME NEW s \in Outstanding, s # r
      PROVE  req[s].entry # req[r].entry
  BY <1>1, <1>2 DEF IInv, OneRequestPerBusyEntry
<1>3. ASSUME NEW s \in Outstanding, s # r
      PROVE  req[s].metaLPN # req[r].metaLPN
  <2>1. req[s].entry \in Entries /\ entry[req[s].entry].metaLPN = req[s].metaLPN
    BY DEF IInv, RequestMatchesEntry
  <2> QED BY <1>1, <1>2, <1>3, <2>1, ContentFacts DEF IInv, OnePagePerEntry
<1> QED BY <1>1, <1>2, <1>3

\* A request advances without writing, with the page in its buffer if it reads.
LEMMA ReadMapping ==
  ASSUME IInv, MappingInv, NEW r \in Outstanding, IsLoad(r),
         NEW q, req' = [req EXCEPT ![r] = q],
         q.status \in {"READ_ISSUE", "READ_DONE"}, q.metaLPN = req[r].metaLPN,
         q.buf = metaFlash[q.metaLPN],
         UNCHANGED <<entry, metaFlash, nFormat, latest>>
  PROVE  MappingInv'
<1>1. req \in [Requests -> RequestType] /\ r \in Requests
  BY OutstandingFacts DEF IInv, TypeOK
<1>2. req'[r] = q /\ \A s \in Requests : s # r => req'[s] = req[s]
  BY <1>1
<1>3. ASSUME NEW s \in Outstanding'
      PROVE  /\ req'[s].status \in {"WRITE_WAIT", "WRITE_DONE"}
                  => entry'[req'[s].entry].l2v = req'[s].buf
             /\ req'[s].status \in {"READ_ISSUE", "READ_DONE", "WRITE_DONE"}
                  => metaFlash'[req'[s].metaLPN] = req'[s].buf
  <2>1. CASE s = r
    BY <1>2, <2>1
  <2>2. CASE s # r
    <3>1. s \in Outstanding /\ req'[s] = req[s]
      BY <1>2, <1>3, <2>2 DEF Outstanding
    <3> QED BY <3>1 DEF MappingInv, Buffers
  <2> QED BY <2>1, <2>2
<1>4. Buffers'
  BY <1>3 DEF Buffers
<1> QED BY <1>4, MappingFrame DEF MappingInv

\* The NAND read ends.
LEMMA MetaReadCallBackMapping ==
  ASSUME IInv, MappingInv, NEW r \in Requests, MetaReadCallBack(r)
  PROVE  MappingInv'
<1> DEFINE q == [req[r] EXCEPT !.status = "READ_DONE"]
<1>1. /\ req[r] \in RequestType /\ req[r].status = "READ_ISSUE"
      /\ req \in [Requests -> RequestType]
      /\ req' = [req EXCEPT ![r].status = "READ_DONE"]
      /\ UNCHANGED <<entry, metaFlash, nFormat, latest>>
  BY DEF MetaReadCallBack, IInv, TypeOK, cacheVars
<1>2. req' = [req EXCEPT ![r] = q]
  BY <1>1
<1>3. q.status = "READ_DONE" /\ q.metaLPN = req[r].metaLPN /\ q.buf = req[r].buf
  BY <1>1 DEF RequestType
<1>4. r \in Outstanding /\ IsLoad(r)
  BY <1>1 DEF Outstanding, IsLoad
<1>5. req[r].buf = metaFlash[req[r].metaLPN]
  BY <1>1, <1>4 DEF MappingInv, Buffers
<1> HIDE DEF q
<1> QED BY <1>1, <1>2, <1>3, <1>4, <1>5, ReadMapping

\* A load gets its page, or waits for the NAND to give it.
LEMMA MetaReadWaitMapping ==
  ASSUME IInv, MappingInv, NEW hit \in BOOLEAN, MetaReadWait(hit)
  PROVE  MappingInv'
<1>1. PICK r : r = Head(waitQ)
  OBVIOUS
<1> DEFINE q == [req[r] EXCEPT !.status = IF hit THEN "READ_DONE" ELSE "READ_ISSUE",
                               !.buf = metaFlash[req[r].metaLPN]]
<1>2. /\ r \in Outstanding /\ r \in Requests /\ req[r] \in RequestType
      /\ req[r].status = "READ_WAIT"
  BY <1>1, WaitHeadFacts DEF MetaReadWait
<1>3. /\ req' = [req EXCEPT ![r] = q]
      /\ UNCHANGED <<entry, metaFlash, nFormat, latest>>
  BY <1>1, <1>2 DEF MetaReadWait, IInv, TypeOK, cacheVars
<1>4. /\ q.status \in {"READ_ISSUE", "READ_DONE"} /\ q.metaLPN = req[r].metaLPN
      /\ q.buf = metaFlash[req[r].metaLPN]
  BY <1>2 DEF RequestType
<1>5. IsLoad(r)
  BY <1>2 DEF IsLoad
<1> HIDE DEF q
<1> QED BY <1>2, <1>3, <1>4, <1>5, ReadMapping

\* A flush writes the page it holds, which is the page of its entry.
LEMMA MetaWriteWaitMapping ==
  ASSUME IInv, MappingInv, MetaWriteWait
  PROVE  MappingInv'
<1>1. PICK r : r = Head(waitQ)
  OBVIOUS
<1> DEFINE q == [req[r] EXCEPT !.status = "WRITE_DONE"]
<1>2. /\ r \in Outstanding /\ r \in Requests /\ req[r] \in RequestType
      /\ req[r].status = "WRITE_WAIT"
  BY <1>1, WaitHeadFacts DEF MetaWriteWait
<1>3. PICK p, e : p = req[r].metaLPN /\ e = req[r].entry
  OBVIOUS
<1>4. /\ req' = [req EXCEPT ![r] = q]
      /\ metaFlash' = [metaFlash EXCEPT ![p] = req[r].buf]
      /\ UNCHANGED <<entry, nFormat, latest>>
  BY <1>1, <1>2, <1>3 DEF MetaWriteWait, IInv, TypeOK, cacheVars
<1>5. q.status = "WRITE_DONE" /\ q.metaLPN = p /\ q.entry = e /\ q.buf = req[r].buf
  BY <1>2, <1>3 DEF RequestType
<1> HIDE DEF q
<1>6. /\ e \in Entries /\ entry[e].metaLPN = p /\ p \in MetaLPN
      /\ entry[e].valid /\ entry[e].dirty
      /\ \A s \in Outstanding : s # r => req[s].metaLPN # p
  BY <1>2, <1>3, OutstandingFacts DEF IsLoad
<1>7. req[r].buf = entry[e].l2v /\ entry[e].l2v \in Content
  BY <1>2, <1>3, <1>6 DEF MappingInv, Buffers, IInv, TypeOK, EntryType
<1>8. /\ req'[r] = q /\ \A s \in Requests : s # r => req'[s] = req[s]
      /\ metaFlash'[p] = entry[e].l2v
      /\ \A m \in MetaLPN : m # p => metaFlash'[m] = metaFlash[m]
  BY <1>2, <1>4, <1>6, <1>7 DEF IInv, TypeOK
<1>9. ASSUME NEW s \in Outstanding'
      PROVE  /\ req'[s].status \in {"WRITE_WAIT", "WRITE_DONE"}
                  => entry'[req'[s].entry].l2v = req'[s].buf
             /\ req'[s].status \in {"READ_ISSUE", "READ_DONE", "WRITE_DONE"}
                  => metaFlash'[req'[s].metaLPN] = req'[s].buf
  <2>1. CASE s = r
    BY <1>4, <1>5, <1>7, <1>8, <2>1
  <2>2. CASE s # r
    <3>1. s \in Outstanding /\ req'[s] = req[s]
      BY <1>8, <1>9, <2>2 DEF Outstanding
    <3>2. req[s].metaLPN \in MetaLPN /\ req[s].metaLPN # p
      BY <1>6, <2>2, <3>1, OutstandingFacts
    <3> QED BY <1>4, <1>8, <3>1, <3>2 DEF MappingInv, Buffers
  <2> QED BY <2>1, <2>2
<1>10. Buffers'
  BY <1>9 DEF Buffers
<1>11. BlankUntilFormatted'
  BY <1>4 DEF MappingInv, BlankUntilFormatted
<1>12. DirtyUntilStored'
  <2> SUFFICES ASSUME NEW f \in Entries, entry[f].valid, ~entry[f].dirty
               PROVE  entry[f].l2v = metaFlash'[entry[f].metaLPN]
    BY <1>4 DEF DirtyUntilStored
  <2>1. entry[f].metaLPN \in MetaLPN
    BY DEF IInv, EntriesSound
  <2>2. entry[f].metaLPN # p
    BY <1>6, <2>1, ContentFacts DEF IInv, OnePagePerEntry
  <2> QED BY <1>8, <2>1, <2>2 DEF MappingInv, DirtyUntilStored
<1>13. ASSUME NEW n \in LPN, MetaLPNOf(n) < nFormat'
       PROVE  Kept(n)'
  <2>1. Kept(n) /\ MetaLPNOf(n) \in MetaLPN
    BY <1>4, <1>13, KeptMeaning, MetaLPNOfType DEF MappingInv
  <2>2. \A f \in Entries : Holder(n, f)' <=> Holder(n, f)
    BY <1>4 DEF Holder
  <2>3. CASE MetaLPNOf(n) = p
    <3>1. Holder(n, e)
      BY <1>6, <2>3 DEF Holder
    <3> QED BY <1>4, <1>6, <2>1, <2>2, <3>1 DEF Kept
  <2>4. CASE MetaLPNOf(n) # p
    BY <1>4, <1>8, <2>1, <2>2, <2>4 DEF Kept
  <2> QED BY <2>3, <2>4
<1>14. MappingKept'
  BY <1>13, KeptMeaningNext
<1> QED BY <1>10, <1>11, <1>12, <1>14 DEF MappingInv

\* LoadDone: the entry gets the page of the meta block, and no entry held it before.
LEMMA MetaReadDoneMapping ==
  ASSUME IInv, MappingInv, MetaReadDone
  PROVE  MappingInv'
<1>1. PICK r, e : r = Head(doneQ) /\ e = req[r].entry
  OBVIOUS
<1>2. /\ r \in Requests /\ req[r].status = "READ_DONE" /\ req[r].buf \in Content
      /\ entry \in [Entries -> EntryType] /\ req \in [Requests -> RequestType]
  BY <1>1, DoneHeadFacts DEF MetaReadDone, IInv, TypeOK
<1>3. r \in Outstanding /\ IsLoad(r)
  BY <1>2 DEF Outstanding, IsLoad
<1>4. /\ e \in Entries /\ entry[e].metaLPN = req[r].metaLPN /\ ~entry[e].valid
      /\ req[r].metaLPN \in MetaLPN
      /\ \A s \in Outstanding : s # r => req[s].entry # e
  BY <1>1, <1>3, OutstandingFacts
<1>5. /\ entry' = [entry EXCEPT ![e].io = FALSE, ![e].dirty = FALSE,
                                ![e].valid = TRUE, ![e].l2v = req[r].buf]
      /\ req' = [req EXCEPT ![r] = FreeRequest]
      /\ UNCHANGED <<metaFlash, nFormat, latest>>
  BY <1>1 DEF MetaReadDone
<1>6. /\ \A f \in Entries : f # e => entry'[f] = entry[f]
      /\ entry'[e].valid /\ ~entry'[e].dirty
      /\ entry'[e].metaLPN = entry[e].metaLPN
      /\ entry'[e].l2v = req[r].buf
  BY <1>2, <1>4, <1>5 DEF EntryType
<1>7. req'[r].status = "FREE" /\ \A s \in Requests : s # r => req'[s] = req[s]
  BY <1>2, <1>5 DEF FreeRequest
<1>8. req[r].buf = metaFlash[entry[e].metaLPN]
  BY <1>2, <1>3, <1>4 DEF MappingInv, Buffers
<1>9. Buffers'
  <2>1. \A s \in Outstanding' : s \in Outstanding /\ s # r /\ req'[s] = req[s]
    BY <1>7 DEF Outstanding
  <2>2. \A s \in Outstanding : req[s].entry \in Entries
    BY OutstandingFacts
  <2>3. \A s \in Outstanding' : entry'[req[s].entry].l2v = entry[req[s].entry].l2v
    BY <1>4, <1>6, <2>1, <2>2
  <2>4. Buffers
    BY DEF MappingInv
  <2> QED BY <1>5, <2>1, <2>3, <2>4 DEF Buffers
<1>10. BlankUntilFormatted'
  BY <1>5 DEF MappingInv, BlankUntilFormatted
<1>11. DirtyUntilStored'
  BY <1>5, <1>6, <1>8 DEF MappingInv, DirtyUntilStored
<1>12. ASSUME NEW n \in LPN, MetaLPNOf(n) < nFormat'
       PROVE  Kept(n)'
  <2>1. Kept(n)
    BY <1>5, <1>12, KeptMeaning DEF MappingInv
  <2>2. \A f \in Entries : f # e => (Holder(n, f)' <=> Holder(n, f))
    BY <1>6 DEF Holder
  <2>3. CASE MetaLPNOf(n) = entry[e].metaLPN
    <3>1. \A f \in Entries : ~Holder(n, f)
      BY <1>4, <2>3, ContentFacts DEF Holder, IInv, OnePagePerEntry
    <3>2. metaFlash[MetaLPNOf(n)][OffsetOf(n)] = latest[n]
      BY <2>1, <3>1 DEF Kept
    <3>3. Holder(n, e)'
      BY <1>6, <2>3 DEF Holder
    <3>4. \A f \in Entries : Holder(n, f)' => f = e
      BY <2>2, <3>1
    <3>5. entry'[e].l2v[OffsetOf(n)] = latest'[n]
      BY <1>5, <1>6, <1>8, <2>3, <3>2
    <3> QED BY <1>4, <3>3, <3>4, <3>5 DEF Kept
  <2>4. CASE MetaLPNOf(n) # entry[e].metaLPN
    <3>1. ~Holder(n, e)' /\ ~Holder(n, e)
      BY <1>6, <2>4 DEF Holder
    <3> QED BY <1>5, <1>6, <2>1, <2>2, <3>1 DEF Kept
  <2> QED BY <2>3, <2>4
<1>13. MappingKept'
  BY <1>12, KeptMeaningNext
<1> QED BY <1>9, <1>10, <1>11, <1>13 DEF MappingInv

\* StoreDone: what the entry holds has been written.
LEMMA MetaWriteDoneMapping ==
  ASSUME IInv, MappingInv, MetaWriteDone
  PROVE  MappingInv'
<1>1. PICK r, e : r = Head(doneQ) /\ e = req[r].entry
  OBVIOUS
<1>2. /\ r \in Requests /\ req[r].status = "WRITE_DONE"
      /\ entry \in [Entries -> EntryType] /\ req \in [Requests -> RequestType]
  BY <1>1, DoneHeadFacts DEF MetaWriteDone, IInv, TypeOK
<1>3. r \in Outstanding
  BY <1>2 DEF Outstanding
<1>4. /\ e \in Entries /\ entry[e].metaLPN = req[r].metaLPN
      /\ \A s \in Outstanding : s # r => req[s].entry # e
  BY <1>1, <1>3, OutstandingFacts
<1>5. /\ entry' = [entry EXCEPT ![e].io = FALSE, ![e].dirty = FALSE]
      /\ req' = [req EXCEPT ![r] = FreeRequest]
      /\ UNCHANGED <<metaFlash, nFormat, latest>>
  BY <1>1 DEF MetaWriteDone
<1>6. \A f \in Entries : /\ entry'[f].valid = entry[f].valid
                         /\ entry'[f].metaLPN = entry[f].metaLPN
                         /\ entry'[f].l2v = entry[f].l2v
                         /\ f # e => entry'[f].dirty = entry[f].dirty
  BY <1>2, <1>4, <1>5 DEF EntryType
<1>7. req'[r].status = "FREE" /\ \A s \in Requests : s # r => req'[s] = req[s]
  BY <1>2, <1>5 DEF FreeRequest
<1>8. entry[e].l2v = metaFlash[entry[e].metaLPN]
  BY <1>1, <1>2, <1>3, <1>4 DEF MappingInv, Buffers
<1>9. Buffers'
  <2>1. \A s \in Outstanding' : s \in Outstanding /\ s # r /\ req'[s] = req[s]
    BY <1>7 DEF Outstanding
  <2>2. \A s \in Outstanding : req[s].entry \in Entries
    BY OutstandingFacts
  <2>3. \A s \in Outstanding' : entry'[req[s].entry].l2v = entry[req[s].entry].l2v
    BY <1>6, <2>1, <2>2
  <2>4. Buffers
    BY DEF MappingInv
  <2> QED BY <1>5, <2>1, <2>3, <2>4 DEF Buffers
<1>10. BlankUntilFormatted'
  BY <1>5 DEF MappingInv, BlankUntilFormatted
<1>11. DirtyUntilStored'
  <2> SUFFICES ASSUME NEW f \in Entries, entry'[f].valid, ~entry'[f].dirty
               PROVE  entry'[f].l2v = metaFlash[entry'[f].metaLPN]
    BY <1>5 DEF DirtyUntilStored
  <2>1. CASE f = e
    BY <1>6, <1>8, <2>1
  <2>2. CASE f # e
    BY <1>6, <2>2 DEF MappingInv, DirtyUntilStored
  <2> QED BY <2>1, <2>2
<1>12. \A n \in LPN : Kept(n) => Kept(n)'
  <2>1. \A n \in LPN, f \in Entries : Holder(n, f)' <=> Holder(n, f)
    BY <1>6 DEF Holder
  <2> QED BY <1>5, <1>6, <2>1 DEF Kept
<1>13. MappingKept'
  BY <1>5, <1>12, KeptMeaning, KeptMeaningNext DEF MappingInv
<1> QED BY <1>9, <1>10, <1>11, <1>13 DEF MappingInv

LEMMA DivMod ==
  ASSUME NEW n \in Nat, NEW d \in Nat \ {0}
  PROVE  n = d * (n \div d) + (n % d)
OBVIOUS

\* Two LPNs of one meta page have their mappings at different offsets.
LEMMA OffsetsDiffer ==
  ASSUME NEW m \in LPN, NEW n \in LPN, MetaLPNOf(m) = MetaLPNOf(n), OffsetOf(m) = OffsetOf(n)
  PROVE  m = n
<1> DEFINE L == L2VPerMetaPage
<1>1. L \in Nat \ {0} /\ m \in Nat /\ n \in Nat
  BY SizesAssumption DEF LPN
<1>2. m = L * (m \div L) + (m % L) /\ n = L * (n \div L) + (n % L)
  BY <1>1, DivMod
<1>3. m \div L = n \div L /\ m % L = n % L
  BY DEF MetaLPNOf, OffsetOf
<1> QED BY <1>2, <1>3

\* A mapping changes in an entry that is not being stored.
LEMMA SetL2VMapping ==
  ASSUME IInv, MappingInv, StoredUndisturbed, Formatted,
         NEW l \in Seq(Entries), ToSet(l) = ToSet(lru),
         NEW n \in LPN, NEW v \in VPPN, IsMetaAvailable(l, MetaLPNOf(n)),
         SetL2V(l, n, v), UNCHANGED <<req, metaFlash, nFormat>>
  PROVE  MappingInv'
<1>1. PICK e, p, o : e = CachedEntry(l, MetaLPNOf(n)) /\ p = MetaLPNOf(n) /\ o = OffsetOf(n)
  OBVIOUS
<1>2. /\ e \in Entries /\ entry[e].metaLPN = p /\ entry[e].valid /\ p \in MetaLPN
  BY <1>1, AvailableFacts, MetaLPNOfType
<1>3. /\ entry' = [entry EXCEPT ![e].l2v[o] = v, ![e].dirty = TRUE]
      /\ latest' = [latest EXCEPT ![n] = v]
  BY <1>1 DEF SetL2V
<1>4. o \in Offset
  BY <1>1, SizesAssumption DEF OffsetOf, Offset, LPN
<1>5. /\ entry \in [Entries -> EntryType] /\ entry[e].l2v \in Content
      /\ latest \in [LPN -> Address]
  BY <1>2 DEF IInv, TypeOK, EntryType
<1>6. /\ entry'[e].metaLPN = entry[e].metaLPN
      /\ entry'[e].valid = entry[e].valid
      /\ entry'[e].dirty = TRUE
      /\ entry'[e].l2v = [entry[e].l2v EXCEPT ![o] = v]
      /\ \A f \in Entries : f # e => entry'[f] = entry[f]
  BY <1>2, <1>3, <1>5 DEF EntryType
<1>7. /\ entry'[e].l2v[o] = v
      /\ \A i \in Offset : i # o => entry'[e].l2v[i] = entry[e].l2v[i]
  BY <1>4, <1>5, <1>6 DEF Content
<1>8. Buffers'
  <2>1. ASSUME NEW s \in Outstanding
        PROVE  req[s].status \in {"WRITE_WAIT", "WRITE_DONE"}
                 => entry'[req[s].entry].l2v = entry[req[s].entry].l2v
    <3>1. /\ req[s].entry \in Entries /\ entry[req[s].entry].io
          /\ (entry[req[s].entry].valid <=> ~IsLoad(s))
      BY OutstandingFacts
    <3> QED BY <3>1 DEF StoredUndisturbed, IsLoad
  <2>2. Outstanding' = Outstanding
    BY DEF Outstanding
  <2> QED BY <2>1, <2>2 DEF MappingInv, Buffers
<1>9. BlankUntilFormatted'
  <2>1. ASSUME NEW m \in LPN
        PROVE  MetaLPNOf(m) < nFormat
    BY SizesAssumption, MetaLPNOfType DEF Formatted, MetaLPN
  <2> QED BY <2>1 DEF BlankUntilFormatted
<1>10. DirtyUntilStored'
  <2>1. \A f \in Entries : f # e /\ entry[f].valid /\ ~entry[f].dirty
                              => entry[f].l2v = metaFlash[entry[f].metaLPN]
    BY DEF MappingInv, DirtyUntilStored
  <2> QED BY <1>6, <2>1 DEF DirtyUntilStored
<1>11. ASSUME NEW m \in LPN, MetaLPNOf(m) < nFormat'
       PROVE  Kept(m)'
  <2>1. Kept(m)
    BY <1>11, KeptMeaning DEF MappingInv
  <2>2. \A f \in Entries : Holder(m, f)' <=> Holder(m, f)
    BY <1>6 DEF Holder
  <2>3. CASE MetaLPNOf(m) # p
    <3>1. \A f \in Entries : Holder(m, f) => f # e
      BY <1>2, <2>3 DEF Holder
    <3>2. latest'[m] = latest[m]
      BY <1>1, <1>3, <1>5, <2>3
    <3> QED BY <1>6, <2>1, <2>2, <3>1, <3>2 DEF Kept
  <2>4. CASE MetaLPNOf(m) = p
    <3>1. Holder(m, e)
      BY <1>2, <2>4 DEF Holder
    <3>2. \A f \in Entries : Holder(m, f) => f = e
      BY <1>2, <2>4, ContentFacts DEF Holder, IInv, OnePagePerEntry
    <3>3. entry'[e].l2v[OffsetOf(m)] = latest'[m]
      <4>1. CASE m = n
        BY <1>1, <1>3, <1>5, <1>7, <4>1
      <4>2. CASE m # n
        <5>1. OffsetOf(m) # o
          BY <1>1, <2>4, <4>2, OffsetsDiffer
        <5>2. OffsetOf(m) \in Offset
          BY SizesAssumption DEF OffsetOf, Offset, LPN
        <5>3. entry[e].l2v[OffsetOf(m)] = latest[m]
          BY <1>2, <2>1, <3>1 DEF Kept
        <5> QED BY <1>3, <1>5, <1>7, <4>2, <5>1, <5>2, <5>3
      <4> QED BY <4>1, <4>2
    <3> QED BY <1>2, <2>2, <3>1, <3>2, <3>3 DEF Kept
  <2> QED BY <2>3, <2>4
<1>12. MappingKept'
  BY <1>11, KeptMeaningNext
<1> QED BY <1>8, <1>9, <1>10, <1>12 DEF MappingInv

\* Without a meta collector no GC request moves a meta page.
LEMMA NextNoMeta ==
  ASSUME "META" \notin GcTypes, IInv, NoMetaCollector, [Next]_vars
  PROVE  NoMetaCollector'
<1>1. /\ gcQ \in Seq(GcRequestType) /\ gcIssued \subseteq GcRequestType
      /\ gcLeft \in [{"GC", "META"} -> Int] /\ gcDoneQ \in Seq(GcRequestType)
  BY DEF IInv, TypeOK, Collectors
<1> DEFINE Alone == /\ gcLeft'["META"] <= gcLeft["META"] /\ gcLeft'["META"] \in Int
                    /\ \A i \in DOMAIN gcQ' : gcQ'[i].io # "META"
                    /\ \A g \in gcIssued' : g.io # "META"
           Same == /\ gcLeft'["META"] = gcLeft["META"] /\ UNCHANGED <<gcQ, gcIssued>>
<1>2. gcLeft["META"] \in Int /\ gcLeft["META"] <= 0
  BY <1>1 DEF NoMetaCollector
<1>3. Alone => NoMetaCollector'
  BY <1>1, <1>2 DEF NoMetaCollector
<1>4. Same => NoMetaCollector'
  BY DEF NoMetaCollector
<1> HIDE DEF Alone
<1>5. CASE Main
  BY <1>4, <1>5 DEF Main, FormatPage, FormatBusy, HostArrives, NoCommand, gcVars, gcCounts
<1>6. CASE Fil
  <2>1. ASSUME NEW g \in gcIssued, GCReadDone(g)
        PROVE  NoMetaCollector'
    <3> DEFINE h == [g EXCEPT !.status = "WRITE_WAIT"]
    <3>1. g \in GcRequestType /\ g.io # "META"
      BY <1>1 DEF NoMetaCollector
    <3>2. h.io = g.io /\ h \in GcRequestType
      BY <3>1 DEF GcRequestType
    <3>3. /\ gcQ' = Append(gcQ, h) /\ gcIssued' \subseteq gcIssued /\ gcLeft' = gcLeft
      BY <2>1 DEF GCReadDone, gcCounts
    <3> HIDE DEF h
    <3>4. \A i \in DOMAIN gcQ' : gcQ'[i] = h \/ (i \in DOMAIN gcQ /\ gcQ'[i] = gcQ[i])
      BY <1>1, <3>2, <3>3
    <3> QED BY <3>1, <3>2, <3>3, <3>4 DEF NoMetaCollector
  <2> QED BY <1>4, <1>6, <2>1 DEF Fil, MetaReadCallBack, FilRunDone, gcVars, gcCounts
<1>7. CASE GCDone
  <2>1. CASE GCWriteDone
    <3>1. PICK t : t = Head(gcDoneQ).io
      OBVIOUS
    <3>2. t \in {"GC", "META"}
      <4>1. gcDoneQ # <<>>
        BY <2>1 DEF GCWriteDone
      <4>2. Head(gcDoneQ) \in GcRequestType
        BY <1>1, <4>1, TailFacts
      <4> QED BY <3>1, <4>2 DEF GcRequestType, Collectors
    <3>3. gcLeft' = [gcLeft EXCEPT ![t] = @ - 1] /\ UNCHANGED <<gcQ, gcIssued>>
      BY <2>1, <3>1 DEF GCWriteDone
    <3>4. gcLeft'["META"] <= gcLeft["META"] /\ gcLeft'["META"] \in Int
      BY <1>1, <3>2, <3>3
    <3> QED BY <1>3, <3>3, <3>4 DEF Alone, NoMetaCollector
  <2> QED BY <1>4, <1>7, <2>1 DEF GCDone, GCDoneQEmpty, gcVars, gcCounts
<1>8. CASE MetaDone
  BY <1>4, <1>8 DEF MetaDone, MetaReadDone, MetaWriteDone, MetaDoneQEmpty, gcVars, gcCounts
<1>9. CASE MetaWait
  BY <1>4, <1>9 DEF MetaWait, MetaReadWait, MetaWriteWait, MetaWriteBusy, MetaWaitQEmpty,
                    gcVars, gcCounts
<1>10. CASE GCWait
  <2>1. ASSUME gcQ # <<>>, gcQ' = RemoveAt(gcQ, GCWaitPosition)
        PROVE  \A i \in DOMAIN gcQ' : gcQ'[i].io # "META"
    <3>1. PICK f \in [DOMAIN gcQ' -> DOMAIN gcQ] :
            \A i \in DOMAIN gcQ' : f[i] # GCWaitPosition /\ gcQ'[i] = gcQ[f[i]]
      BY <2>1, QueueWithout DEF IInv
    <3>2. \A i \in DOMAIN gcQ' : f[i] \in DOMAIN gcQ
      BY <3>1
    <3> QED BY <3>1, <3>2 DEF NoMetaCollector
  <2>2. CASE GCReadWait
    <3> DEFINE h == [GCWaitRequest EXCEPT !.status = "READ_ISSUE"]
    <3>1. GCWaitRequest \in GcRequestType /\ GCWaitRequest.io # "META"
      BY <2>2, GCWaitPositionFacts DEF IInv, GCReadWait, GCWaitRequest, NoMetaCollector
    <3>2. h.io = GCWaitRequest.io
      BY <3>1 DEF GcRequestType
    <3>3. /\ gcIssued' = gcIssued \union {h} /\ gcLeft' = gcLeft
          /\ gcQ # <<>> /\ gcQ' = RemoveAt(gcQ, GCWaitPosition)
      BY <2>2 DEF GCReadWait, gcCounts
    <3> HIDE DEF h
    <3> QED BY <2>1, <3>1, <3>2, <3>3 DEF NoMetaCollector
  <2>3. CASE GCWrite
    <3>1. /\ gcIssued' = gcIssued /\ gcLeft' = gcLeft
          /\ gcQ # <<>> /\ gcQ' = RemoveAt(gcQ, GCWaitPosition)
      BY <2>3 DEF GCWrite, GCToWrite
    <3> QED BY <2>1, <3>1 DEF NoMetaCollector
  <2> QED BY <1>4, <1>10, <2>2, <2>3
          DEF GCWait, GCWaitQEmpty, GCWriteBlocked, GCWriteMiss, GCWriteBusy, gcVars, gcCounts
<1>11. CASE HilWait
  BY <1>4, <1>11 DEF HilWait, HilWaitQEmpty, HilWaitBlocked, HilMiss, HilRead, HilWrite,
                     HilWriteBusy, gcVars, gcCounts
<1>12. CASE GCRun
  <2>1. ASSUME NEW t \in Collectors, StartGC(t)
        PROVE  Same
    <3>1. t = "GC"
      BY <2>1 DEF StartGC, Collectors
    <3>2. PICK k : gcLeft' = [gcLeft EXCEPT ![t] = k]
      BY <2>1 DEF StartGC
    <3> QED BY <1>1, <2>1, <3>1, <3>2 DEF StartGC
  <2>2. CASE GCRead
    <3>1. Reader = "GC"
      BY <1>1, <1>2 DEF Reader, IsGCRunning
    <3>2. PICK h : h.io = Reader /\ gcQ' = Append(gcQ, h)
      BY <2>2 DEF GCRead
    <3>3. \A i \in DOMAIN gcQ' : gcQ'[i] = h \/ (i \in DOMAIN gcQ /\ gcQ'[i] = gcQ[i])
      BY <1>1, <3>2
    <3>4. gcIssued' = gcIssued /\ gcLeft' = gcLeft
      BY <2>2 DEF GCRead
    <3> QED BY <3>1, <3>2, <3>3, <3>4 DEF NoMetaCollector
  <2> QED BY <1>4, <1>12, <2>1, <2>2 DEF GCRun, NoStartGC, NoGCRead, gcVars, gcCounts
<1>13. CASE UNCHANGED vars
  BY <1>4, <1>13 DEF vars
<1> QED BY <1>5, <1>6, <1>7, <1>8, <1>9, <1>10, <1>11, <1>12, <1>13 DEF Next

\* A step that does not disturb a page being stored keeps the mapping.
LEMMA NextMapping ==
  ASSUME IInv, NoMetaCollector, MappingInv, [Next]_vars, StoredUndisturbed
  PROVE  MappingInv'
<1> DEFINE Same == UNCHANGED <<entry, req, metaFlash, nFormat, latest>>
<1>1. Same => MappingInv'
  <2> SUFFICES ASSUME Same PROVE MappingInv'
    OBVIOUS
  <2>1. Buffers'
    BY DEF MappingInv, Buffers, Outstanding
  <2> QED BY <2>1, MappingFrame DEF MappingInv
<1>2. CASE Main
  <2>1. CASE FormatBusy
    <3>1. ListsIntact /\ lru \in Seq(Entries)
      BY <2>1 DEF FormatBusy, IInv, FormatFirst, TypeOK
    <3> QED BY <2>1, <3>1, AllocateBusyMapping DEF FormatBusy
  <2> QED BY <1>1, <1>2, <2>1, FormatPageMapping
          DEF Main, HostArrives, NoCommand, cacheVars, reqVars
<1>3. CASE Fil
  BY <1>1, <1>3, MetaReadCallBackMapping DEF Fil, GCReadDone, FilRunDone, cacheVars, reqVars
<1>4. CASE GCDone
  BY <1>1, <1>4 DEF GCDone, GCWriteDone, GCDoneQEmpty, cacheVars, reqVars
<1>5. CASE MetaDone
  BY <1>1, <1>5, MetaReadDoneMapping, MetaWriteDoneMapping
     DEF MetaDone, MetaDoneQEmpty, cacheVars, reqVars
<1>6. CASE MetaWait
  BY <1>1, <1>6, MetaReadWaitMapping, MetaWriteWaitMapping
     DEF MetaWait, MetaWriteBusy, MetaWaitQEmpty, cacheVars, reqVars
<1>7. CASE GCWait
  <2>1. CASE GCWriteMiss
    <3>1. GCToWrite /\ ListsIntact /\ LoadMeta(Touch(lru, GCPage), GCPage)
          /\ UNCHANGED <<metaFlash, nFormat, latest>>
      BY <2>1 DEF GCWriteMiss
    <3>2. /\ GCPage \in MetaLPN /\ Touch(lru, GCPage) \in Seq(Entries)
          /\ ToSet(Touch(lru, GCPage)) = ToSet(lru)
      BY <3>1, GCToWriteFacts
    <3> QED BY <3>1, <3>2, LoadMetaMapping
  <2>2. CASE GCWrite
    <3>1. PICK l, n : l = Touch(lru, GCPage) /\ n = GCWaitRequest.lpn
      OBVIOUS
    <3>2. GCToWrite /\ IsMetaAvailable(lru, GCPage) /\ UNCHANGED <<req, nFormat>>
      BY <2>2 DEF GCWrite, reqVars
    <3>3. /\ Formatted /\ n \in LPN /\ GCPage \in MetaLPN /\ lru \in Seq(Entries)
          /\ l \in Seq(Entries) /\ ToSet(l) = ToSet(lru)
      BY <3>1, <3>2, GCToWriteFacts
    <3>4. GCWaitRequest.io # "META"
      BY <3>2, GCWaitPositionFacts
         DEF GCToWrite, GCWaitRequest, IInv, NoMetaCollector
    <3>5. PICK v \in VPPN : SetL2V(l, n, v) /\ UNCHANGED metaFlash
      BY <2>2, <3>1, <3>4 DEF GCWrite
    <3>6. IsMetaAvailable(l, MetaLPNOf(n))
      BY <3>1, <3>2, <3>3, AvailableFacts DEF GCPage
    <3> QED BY <3>2, <3>3, <3>5, <3>6, SetL2VMapping
  <2> QED BY <1>1, <1>7, <2>1, <2>2
          DEF GCWait, GCWaitQEmpty, GCReadWait, GCWriteBlocked, GCWriteBusy, cacheVars, reqVars
<1>8. CASE HilWait
  <2>1. CASE HilMiss
    <3>1. /\ hilQ # <<>> /\ ListsIntact /\ UNCHANGED <<metaFlash, nFormat, latest>>
          /\ \/ LoadMeta(Touch(lru, HilFirst), HilFirst)
             \/ LoadMeta(HilTouched, HilLast)
      BY <2>1 DEF HilMiss
    <3>2. HilFirst \in MetaLPN /\ HilLast \in MetaLPN
      BY <3>1, HilHeadFacts
    <3> QED BY <3>1, <3>2, HilTouchedFacts, LoadMetaMapping
  <2>2. CASE HilWrite
    <3>1. PICK l, n : l = HilTouched /\ n = HilCur
      OBVIOUS
    <3>2. PICK v \in VPPN : SetL2V(l, n, v)
      BY <2>2, <3>1 DEF HilWrite
    <3>3. /\ hilQ # <<>> /\ HilAvailable /\ UNCHANGED <<req, metaFlash, nFormat>>
      BY <2>2 DEF HilWrite, reqVars
    <3>4. /\ Formatted /\ n \in LPN /\ MetaLPNOf(n) \in {HilFirst, HilLast}
          /\ HilFirst \in MetaLPN /\ HilLast \in MetaLPN
      BY <3>1, <3>3, HilHeadFacts
    <3>5. lru \in Seq(Entries) /\ l \in Seq(Entries) /\ ToSet(l) = ToSet(lru)
      BY <3>1, HilTouchedFacts
    <3>6. IsMetaAvailable(l, MetaLPNOf(n))
      BY <3>3, <3>4, <3>5, AvailableFacts DEF HilAvailable
    <3> QED BY <3>2, <3>3, <3>4, <3>5, <3>6, SetL2VMapping
  <2> QED BY <1>1, <1>8, <2>1, <2>2
          DEF HilWait, HilWaitQEmpty, HilWaitBlocked, HilRead, HilWriteBusy, cacheVars, reqVars
<1>9. CASE GCRun
  BY <1>1, <1>9 DEF GCRun, StartGC, NoStartGC, GCRead, NoGCRead, cacheVars, reqVars
<1>10. CASE UNCHANGED vars
  BY <1>1, <1>10 DEF vars
<1> QED BY <1>2, <1>3, <1>4, <1>5, <1>6, <1>7, <1>8, <1>9, <1>10 DEF Next

\* At the start no page is formatted and no request made.
LEMMA InitMapping ==
  Init => MappingInv /\ NoMetaCollector
<1> SUFFICES ASSUME Init PROVE MappingInv /\ NoMetaCollector
  OBVIOUS
<1>1. Outstanding = {}
  BY DEF Init, Outstanding, FreeRequest
<1>2. Buffers
  BY <1>1 DEF Buffers
<1>3. BlankUntilFormatted
  BY DEF Init, BlankUntilFormatted
<1>4. DirtyUntilStored
  BY DEF Init, DirtyUntilStored
<1>5. MappingKept
  <2>1. \A n \in LPN : ~(MetaLPNOf(n) < nFormat)
    BY MetaLPNOfType DEF Init, MetaLPN
  <2> QED BY <2>1 DEF MappingKept
<1>6. NoMetaCollector
  BY DEF Init, NoMetaCollector, Collectors
<1> QED BY <1>2, <1>3, <1>4, <1>5, <1>6 DEF MappingInv

\* META_MGR::SetL2V (dftl_meta.cpp) does not look at m_bIORunning.  With user
\* collections only, that is all that can lose a mapping: as long as none changes in
\* a page that is being stored, the cache and the meta block together hold every
\* mapping, and an entry that is not dirty is what the meta block holds.
THEOREM MappingKeptUndisturbed ==
  ASSUME "META" \notin GcTypes
  PROVE  Spec /\ [][StoredUndisturbed]_vars => [](MappingKept /\ DirtyUntilStored)
<1> DEFINE I == IInv /\ NoMetaCollector /\ MappingInv
<1>1. Init => I
  BY InitInv, InitMapping
<1>2. I /\ [Next]_vars /\ [StoredUndisturbed]_vars => I'
  <2> SUFFICES ASSUME I, [Next]_vars, [StoredUndisturbed]_vars PROVE I'
    OBVIOUS
  <2>1. StoredUndisturbed
    BY DEF StoredUndisturbed, vars
  <2> QED BY <2>1, NextInv, NextNoMeta, NextMapping
<1>3. I => MappingKept /\ DirtyUntilStored
  BY DEF MappingInv
<1> HIDE DEF I
<1> QED BY <1>1, <1>2, <1>3, PTL DEF Spec

(***************************************************************************)
(* The lists.                                                              *)
(***************************************************************************)

\* An entry is once on the LRU list, and one that holds no page and is not being
\* loaded is free.
LruInv ==
  /\ Injective(lru)
  /\ ListsIntact => \A e \in Entries : ~entry[e].valid /\ ~entry[e].io => e \in ToSet(free)

\* A lookup keeps an entry once on the list.
LEMMA TouchInjective ==
  ASSUME NEW l \in Seq(Entries), Injective(l), NEW p
  PROVE  Injective(Touch(l, p))
<1>1. CASE ~IsCached(l, p)
  BY <1>1 DEF Touch
<1>2. CASE IsCached(l, p)
  <2>1. PICK i \in Positions(l, p) : \A j \in Positions(l, p) : i <= j
    <3>1. Positions(l, p) \subseteq Nat /\ Positions(l, p) # {}
      BY <1>2 DEF Positions, IsCached
    <3> QED BY <3>1, LeastPosition
  <2>2. PositionOf(l, p) \in DOMAIN l
    BY <2>1 DEF PositionOf, Positions
  <2> DEFINE k == PositionOf(l, p)
  <2> HIDE DEF k
  <2>3. Injective(RemoveAt(l, k)) /\ l[k] \notin ToSet(RemoveAt(l, k))
    BY <2>2, RemoveAtInjective DEF k
  <2>4. RemoveAt(l, k) \in Seq(Entries) /\ l[k] \in Entries
    BY <2>2, RemoveAtFacts DEF k
  <2>5. Injective(Cons(l[k], RemoveAt(l, k)))
    BY <2>3, <2>4, ConsInjective
  <2> QED BY <1>2, <2>5 DEF Touch, CachedEntry, k
<1> QED BY <1>1, <1>2

\* The entry _Allocate gives is once on the list.
LEMMA AllocatedInjective ==
  ASSUME IInv, ListsIntact, NEW l \in Seq(Entries), ToSet(l) = ToSet(lru), Injective(l)
  PROVE  Injective(AllocatedLru(l))
<1>1. free \in Seq(Entries) /\ ToSet(l) \union ToSet(free) = Entries
      /\ ToSet(l) \intersect ToSet(free) = {}
  BY DEF IInv, TypeOK, ListsCover, ListsIntact
<1>2. CASE free # <<>>
  <2>1. Head(free) \in Entries /\ Head(free) \notin ToSet(l)
    BY <1>1, <1>2, TailFacts
  <2> QED BY <1>2, <2>1, ConsInjective DEF AllocatedLru, Allocated
<1>3. CASE free = <<>>
  <2>1. l # <<>>
    <3>1. ToSet(free) = {}
      BY <1>3 DEF ToSet
    <3>2. l = <<>> => ToSet(l) = {}
      BY DEF ToSet
    <3> QED BY <1>1, <3>1, <3>2, SizesAssumption
  <2>2. Last(l) \in Entries /\ Front(l) \in Seq(Entries)
    BY <2>1, FrontFacts
  <2>3. Injective(Front(l)) /\ Last(l) \notin ToSet(Front(l))
    BY <2>1, FrontInjective
  <2> QED BY <1>3, <2>2, <2>3, ConsInjective DEF AllocatedLru, Allocated
<1> QED BY <1>2, <1>3

\* A step that reorders the list and leaves the entries their pages.
LEMMA LruFrame ==
  ASSUME LruInv, Injective(lru'), ToSet(lru') = ToSet(lru), UNCHANGED free,
         \A e \in Entries : /\ entry'[e].valid = FALSE => entry[e].valid = FALSE
                            /\ entry'[e].valid = FALSE /\ entry'[e].io = FALSE
                                 => entry[e].io = FALSE,
         \A e \in Entries : entry[e] \in EntryType /\ entry'[e] \in EntryType
  PROVE  LruInv'
<1>1. ListsIntact' => ListsIntact
  BY DEF ListsIntact
<1>2. ASSUME ListsIntact', NEW e \in Entries, ~entry'[e].valid, ~entry'[e].io
      PROVE  e \in ToSet(free')
  <2>1. entry'[e].valid = FALSE /\ entry'[e].io = FALSE
    BY <1>2 DEF EntryType
  <2>2. ~entry[e].valid /\ ~entry[e].io
    BY <2>1
  <2> QED BY <1>1, <1>2, <2>2 DEF LruInv
<1> QED BY <1>2 DEF LruInv

\* _Allocate gives entry x, which is then in use.
LEMMA AllocatedLruInv ==
  ASSUME IInv, LruInv, ListsIntact, NEW l \in Seq(Entries), ToSet(l) = ToSet(lru),
         Injective(l), AllocateSucceeds(l), lru' = AllocatedLru(l), free' = AllocatedFree,
         entry'[Allocated(l)].valid \/ entry'[Allocated(l)].io,
         \A f \in Entries : f # Allocated(l) => entry'[f] = entry[f]
  PROVE  LruInv'
<1>1. PICK x : x = Allocated(l)
  OBVIOUS
<1>2. Injective(lru')
  BY AllocatedInjective
<1>3. ASSUME NEW e \in Entries, ~entry'[e].valid, ~entry'[e].io
      PROVE  e \in ToSet(free')
  <2>1. e # x /\ entry'[e] = entry[e]
    BY <1>1, <1>3
  <2>2. e \in ToSet(free)
    BY <1>3, <2>1 DEF LruInv
  <2>3. free # <<>>
    BY <2>2 DEF ToSet
  <2>4. free \in Seq(Entries) /\ free' = Tail(free) /\ x = Head(free)
    BY <1>1, <2>3 DEF AllocatedFree, Allocated, IInv, TypeOK
  <2> QED BY <2>1, <2>2, <2>3, <2>4, TailFacts
<1> QED BY <1>2, <1>3 DEF LruInv

\* A busy tail, or the start of its flush.
LEMMA AllocateBusyLru ==
  ASSUME IInv, IInv', LruInv, ListsIntact, NEW l \in Seq(Entries), ToSet(l) = ToSet(lru),
         Injective(l), AllocateBusy(l)
  PROVE  LruInv'
<1>1. /\ entry \in [Entries -> EntryType]
      /\ \A e \in Entries : entry[e] \in EntryType /\ entry'[e] \in EntryType
  BY DEF IInv, TypeOK
<1>2. lru' = l /\ free' = free
  BY DEF AllocateBusy
<1>3. Last(l) \in Entries
  BY AllocateFacts DEF AllocateBusy
<1>4. \/ entry' = entry
      \/ entry' = [entry EXCEPT ![Last(l)].io = TRUE]
  BY DEF AllocateBusy
<1>5. \A e \in Entries : /\ entry'[e].valid = entry[e].valid
                         /\ entry'[e].io = entry[e].io \/ entry'[e].io = TRUE
  BY <1>1, <1>3, <1>4 DEF EntryType
<1> QED BY <1>1, <1>2, <1>5, LruFrame

\* A lookup that misses.
LEMMA LoadMetaLru ==
  ASSUME IInv, IInv', LruInv, ListsIntact, NEW l \in Seq(Entries), ToSet(l) = ToSet(lru),
         Injective(l), NEW p \in MetaLPN, LoadMeta(l, p)
  PROVE  LruInv'
<1>1. /\ entry \in [Entries -> EntryType]
      /\ \A e \in Entries : entry[e] \in EntryType /\ entry'[e] \in EntryType
  BY DEF IInv, TypeOK
<1>2. CASE lru' = Touch(l, p) /\ UNCHANGED <<entry, free>>
  <2>1. Injective(lru') /\ ToSet(lru') = ToSet(lru)
    BY <1>2, TouchInjective, TouchFacts
  <2> QED BY <1>1, <1>2, <2>1, LruFrame
<1>3. CASE AllocateBusy(l)
  BY <1>3, AllocateBusyLru
<1>4. CASE /\ AllocateSucceeds(l)
           /\ lru' = AllocatedLru(l)
           /\ free' = AllocatedFree
           /\ entry' = [entry EXCEPT ![Allocated(l)].valid = FALSE,
                                     ![Allocated(l)].metaLPN = p,
                                     ![Allocated(l)].io = TRUE]
  <2>1. PICK x : x = Allocated(l)
    OBVIOUS
  <2>2. x \in Entries
    BY <1>4, <2>1, AllocateFacts
  <2>3. entry'[x].io /\ \A f \in Entries : f # x => entry'[f] = entry[f]
    BY <1>1, <1>4, <2>1, <2>2 DEF EntryType
  <2> QED BY <1>4, <2>1, <2>3, AllocatedLruInv
<1>5. CASE /\ AllocateSucceeds(l)
           /\ lru' = AllocatedLru(l)
           /\ free' = Cons(Allocated(l), AllocatedFree)
  <2>1. PICK x : x = Allocated(l)
    OBVIOUS
  <2>2. /\ x \in Entries /\ x \in ToSet(lru') /\ AllocatedFree \in Seq(Entries)
    BY <1>5, <2>1, AllocateFacts
  <2>3. x \in ToSet(free')
    BY <1>5, <2>1, <2>2, ConsFacts
  <2>4. ~ListsIntact'
    BY <2>2, <2>3 DEF ListsIntact
  <2>5. Injective(lru')
    BY <1>5, AllocatedInjective
  <2> QED BY <2>4, <2>5 DEF LruInv
<1> QED BY <1>2, <1>3, <1>4, <1>5 DEF LoadMeta

\* The mapping of an available page changes.
LEMMA SetL2VLru ==
  ASSUME IInv, IInv', LruInv, NEW l \in Seq(Entries), ToSet(l) = ToSet(lru), Injective(l),
         NEW n \in LPN, NEW v, IsMetaAvailable(l, MetaLPNOf(n)), SetL2V(l, n, v),
         UNCHANGED free
  PROVE  LruInv'
<1>1. PICK e, p, o : e = CachedEntry(l, p) /\ p = MetaLPNOf(n) /\ o = OffsetOf(n)
  OBVIOUS
<1>2. e \in Entries
  BY <1>1, TouchFacts DEF IsMetaAvailable
<1>3. lru' = Touch(l, p) /\ entry' = [entry EXCEPT ![e].l2v[o] = v, ![e].dirty = TRUE]
  BY <1>1 DEF SetL2V
<1>4. /\ entry \in [Entries -> EntryType]
      /\ \A f \in Entries : entry[f] \in EntryType /\ entry'[f] \in EntryType
  BY DEF IInv, TypeOK
<1>5. \A f \in Entries : entry'[f].valid = entry[f].valid /\ entry'[f].io = entry[f].io
  BY <1>2, <1>3, <1>4 DEF EntryType
<1>6. Injective(lru') /\ ToSet(lru') = ToSet(lru)
  BY <1>3, TouchInjective, TouchFacts
<1> QED BY <1>4, <1>5, <1>6, LruFrame

\* The lookups of the host keep an entry once on the list.
LEMMA HilTouchedInjective ==
  ASSUME IInv, LruInv
  PROVE  Injective(Touch(lru, HilFirst)) /\ Injective(HilTouched)
<1>1. Injective(lru) /\ lru \in Seq(Entries) /\ Touch(lru, HilFirst) \in Seq(Entries)
  BY HilTouchedFacts DEF LruInv
<1>2. Injective(Touch(lru, HilFirst))
  BY <1>1, TouchInjective
<1> QED BY <1>1, <1>2, TouchInjective DEF HilTouched

\* The lists stay sound as long as they share no entry.
LEMMA NextLru ==
  ASSUME IInv, LruInv, [Next]_vars
  PROVE  LruInv'
<1>1. IInv'
  BY NextInv
<1>2. /\ lru \in Seq(Entries) /\ Injective(lru) /\ entry \in [Entries -> EntryType]
      /\ \A f \in Entries : entry[f] \in EntryType /\ entry'[f] \in EntryType
  BY <1>1 DEF IInv, TypeOK, LruInv
<1>3. ASSUME UNCHANGED <<entry, free>>, Injective(lru'), ToSet(lru') = ToSet(lru)
      PROVE  LruInv'
  BY <1>2, <1>3, LruFrame
<1> DEFINE Same == UNCHANGED <<entry, lru, free>>
<1>4. Same => LruInv'
  BY <1>2, <1>3
<1>5. CASE Main
  <2>1. CASE FormatPage
    <3>1. PICK x : x = Allocated(lru)
      OBVIOUS
    <3>2. ListsIntact /\ AllocateSucceeds(lru)
      BY <2>1 DEF IInv, FormatFirst, FormatPage
    <3>3. x \in Entries
      BY <1>2, <3>1, <3>2, AllocateFacts
    <3>4. entry'[x].valid /\ \A f \in Entries : f # x => entry'[f] = entry[f]
      BY <1>2, <2>1, <3>1, <3>3 DEF FormatPage
    <3> QED BY <1>2, <2>1, <3>1, <3>2, <3>4, AllocatedLruInv DEF FormatPage
  <2>2. CASE FormatBusy
    <3>1. ListsIntact
      BY <2>2 DEF FormatBusy, IInv, FormatFirst
    <3> QED BY <1>1, <1>2, <2>2, <3>1, AllocateBusyLru DEF FormatBusy
  <2> QED BY <1>4, <1>5, <2>1, <2>2 DEF Main, HostArrives, NoCommand, cacheVars
<1>6. CASE Fil
  BY <1>4, <1>6 DEF Fil, MetaReadCallBack, GCReadDone, FilRunDone, cacheVars
<1>7. CASE GCDone
  BY <1>4, <1>7 DEF GCDone, GCWriteDone, GCDoneQEmpty, cacheVars
<1>8. CASE MetaDone
  <2>1. ASSUME MetaReadDone \/ MetaWriteDone
        PROVE  LruInv'
    <3>1. PICK r, e : r = Head(doneQ) /\ e = req[r].entry
      OBVIOUS
    <3>2. doneQ # <<>> /\ UNCHANGED <<lru, free>>
      BY <2>1 DEF MetaReadDone, MetaWriteDone
    <3>3. e \in Entries /\ (~IsLoad(r) => entry[e].valid)
      BY <3>1, <3>2, DoneHeadFacts
    <3>4. CASE MetaReadDone
      <4>1. entry' = [entry EXCEPT ![e].io = FALSE, ![e].dirty = FALSE,
                                   ![e].valid = TRUE, ![e].l2v = req[r].buf]
        BY <3>1, <3>4 DEF MetaReadDone
      <4>2. entry'[e].valid /\ \A f \in Entries : f # e => entry'[f] = entry[f]
        BY <1>2, <3>3, <4>1 DEF EntryType
      <4> QED BY <1>2, <3>2, <4>2, LruFrame
    <3>5. CASE MetaWriteDone
      <4>1. entry' = [entry EXCEPT ![e].io = FALSE, ![e].dirty = FALSE] /\ entry[e].valid
        BY <3>1, <3>3, <3>5 DEF MetaWriteDone, IsLoad
      <4>2. entry'[e].valid /\ \A f \in Entries : f # e => entry'[f] = entry[f]
        BY <1>2, <3>3, <4>1 DEF EntryType
      <4> QED BY <1>2, <3>2, <4>2, LruFrame
    <3> QED BY <2>1, <3>4, <3>5
  <2> QED BY <1>4, <1>8, <2>1 DEF MetaDone, MetaDoneQEmpty, cacheVars
<1>9. CASE MetaWait
  BY <1>4, <1>9 DEF MetaWait, MetaReadWait, MetaWriteWait, MetaWriteBusy, MetaWaitQEmpty,
                    cacheVars
<1>10. CASE GCWait
  <2>1. CASE GCWriteMiss \/ GCWriteBusy \/ GCWrite
    <3>1. PICK l : l = Touch(lru, GCPage)
      OBVIOUS
    <3>2. GCToWrite /\ ListsIntact
      BY <2>1 DEF GCWriteMiss, GCWriteBusy, GCWrite
    <3>3. /\ GCPage \in MetaLPN /\ l \in Seq(Entries) /\ ToSet(l) = ToSet(lru)
          /\ GCWaitRequest.lpn \in LPN /\ Injective(l)
      BY <1>2, <3>1, <3>2, GCToWriteFacts, TouchInjective
    <3>4. CASE GCWriteMiss
      BY <1>1, <3>1, <3>2, <3>3, <3>4, LoadMetaLru DEF GCWriteMiss
    <3>5. CASE GCWriteBusy
      BY <1>3, <3>1, <3>3, <3>5 DEF GCWriteBusy
    <3>6. CASE GCWrite
      <4>1. IsMetaAvailable(lru, GCPage) /\ free' = free
        BY <3>6 DEF GCWrite
      <4>2. IsMetaAvailable(l, MetaLPNOf(GCWaitRequest.lpn))
        BY <1>2, <3>3, <4>1, AvailableFacts DEF GCPage
      <4>3. CASE UNCHANGED entry /\ lru' = Touch(lru, GCPage)
        BY <1>3, <3>1, <3>3, <4>1, <4>3
      <4>4. CASE \E v \in VPPN : SetL2V(l, GCWaitRequest.lpn, v)
        BY <1>1, <3>3, <4>1, <4>2, <4>4, SetL2VLru
      <4> QED BY <3>1, <3>6, <4>3, <4>4 DEF GCWrite
    <3> QED BY <2>1, <3>4, <3>5, <3>6
  <2> QED BY <1>4, <1>10, <2>1 DEF GCWait, GCWaitQEmpty, GCReadWait, GCWriteBlocked, cacheVars
<1>11. CASE HilWait
  <2>1. CASE HilMiss
    <3>1. /\ hilQ # <<>> /\ ListsIntact
          /\ \/ LoadMeta(Touch(lru, HilFirst), HilFirst)
             \/ LoadMeta(HilTouched, HilLast)
      BY <2>1 DEF HilMiss
    <3>2. HilFirst \in MetaLPN /\ HilLast \in MetaLPN
      BY <3>1, HilHeadFacts
    <3> QED BY <1>1, <3>1, <3>2, HilTouchedFacts, HilTouchedInjective, LoadMetaLru
  <2>2. CASE HilRead \/ HilWriteBusy
    <3>1. UNCHANGED <<entry, free>> /\ lru' = HilTouched
      BY <2>2 DEF HilRead, HilWriteBusy
    <3> QED BY <1>3, <3>1, HilTouchedFacts, HilTouchedInjective
  <2>3. CASE HilWrite
    <3>1. PICK l, n : l = HilTouched /\ n = HilCur
      OBVIOUS
    <3>2. PICK v \in VPPN : SetL2V(l, n, v)
      BY <2>3, <3>1 DEF HilWrite
    <3>3. hilQ # <<>> /\ HilAvailable /\ UNCHANGED free
      BY <2>3 DEF HilWrite
    <3>4. /\ n \in LPN /\ MetaLPNOf(n) \in {HilFirst, HilLast}
          /\ HilFirst \in MetaLPN /\ HilLast \in MetaLPN
      BY <3>1, <3>3, HilHeadFacts
    <3>5. l \in Seq(Entries) /\ ToSet(l) = ToSet(lru) /\ Injective(l)
      BY <3>1, HilTouchedFacts, HilTouchedInjective
    <3>6. IsMetaAvailable(l, MetaLPNOf(n))
      BY <1>2, <3>3, <3>4, <3>5, AvailableFacts DEF HilAvailable
    <3> QED BY <1>1, <3>2, <3>3, <3>4, <3>5, <3>6, SetL2VLru
  <2> QED BY <1>4, <1>11, <2>1, <2>2, <2>3
          DEF HilWait, HilWaitQEmpty, HilWaitBlocked, cacheVars
<1>12. CASE GCRun
  BY <1>4, <1>12 DEF GCRun, StartGC, NoStartGC, GCRead, NoGCRead, cacheVars
<1>13. CASE UNCHANGED vars
  BY <1>4, <1>13 DEF vars
<1> QED BY <1>5, <1>6, <1>7, <1>8, <1>9, <1>10, <1>11, <1>12, <1>13 DEF Next

\* At the start all entries are free.
LEMMA InitLru ==
  Init => LruInv
<1> SUFFICES ASSUME Init PROVE LruInv
  OBVIOUS
<1>1. ToSet(free) = Entries
  BY SetToSeqFacts, SizesAssumption DEF Init
<1>2. Injective(lru)
  BY DEF Init, Injective
<1> QED BY <1>1, <1>2 DEF LruInv

\* While no entry is on both lists, LruInv and IInv are all ListsSound asks.
LEMMA IntactIsSound ==
  ASSUME IInv, LruInv, ListsIntact
  PROVE  ListsSound
<1>1. ToSet(lru) \union ToSet(free) = Entries /\ ToSet(lru) \intersect ToSet(free) = {}
  BY DEF IInv, ListsCover, ListsIntact
<1>2. IsInjective(lru) /\ IsInjective(free)
  BY DEF IInv, ListsCover, LruInv, Injective, IsInjective
<1>3. \A e \in ToSet(lru) : ~entry[e].io => entry[e].valid
  BY <1>1 DEF LruInv
<1> QED BY <1>1, <1>2, <1>3 DEF ListsSound

\* Only META_CACHE::_Release, which does not take the entry off m_dlLRU
\* (dftl_meta.cpp), can spoil the lists: as long as it is not reached, whatever the
\* host and the two collectors do, no entry is lost or linked twice.
THEOREM ListsSoundUnlessReleased == Spec => [](ListsIntact => ListsSound)
<1> DEFINE I == IInv /\ LruInv
<1>1. Init => I
  BY InitInv, InitLru
<1>2. I /\ [Next]_vars => I'
  BY NextInv, NextLru
<1>3. I => (ListsIntact => ListsSound)
  BY IntactIsSound
<1> HIDE DEF I
<1> QED BY <1>1, <1>2, <1>3, PTL DEF Spec

(***************************************************************************)
(* The host alone.  While its request waits for a page, the one outstanding*)
(* meta request works on that page or on the tail of the LRU list, so no   *)
(* second one is made and nothing is written.                              *)
(***************************************************************************)

InCache(p) == \E e \in Entries : entry[e].metaLPN = p

\* No collector runs.
NoCollector ==
  /\ gcQ = <<>>
  /\ gcIssued = {}
  /\ \A t \in Collectors : gcLeft[t] <= 0

OnlyOne == \A r, s \in Outstanding : r = s

\* A flush is of the tail, with no free entry, because the head of the host queue
\* misses its first page, or has that one at the head of the list and misses its last.
FlushWaits ==
  \A r \in Outstanding : ~IsLoad(r) =>
    /\ free = <<>> /\ lru # <<>> /\ req[r].entry = Last(lru)
    /\ Formatted =>
         /\ hilQ # <<>>
         /\ \/ ~InCache(HilFirst)
            \/ entry[lru[1]].metaLPN = HilFirst /\ ~InCache(HilLast)

\* A load is of the first page of the head of the host queue, or of its last while
\* the first is there or the loading entry is the tail.
LoadWaits ==
  \A r \in Outstanding : IsLoad(r) =>
    /\ Formatted /\ hilQ # <<>>
    /\ \/ req[r].metaLPN = HilFirst
       \/ /\ req[r].metaLPN = HilLast
          /\ InCache(HilFirst) \/ (free = <<>> /\ lru # <<>> /\ Last(lru) = req[r].entry)

\* The inductive invariant of the host alone, on top of IInv and LruInv.
HostTurn ==
  /\ ListsIntact
  /\ NoCollector
  /\ OnlyOne
  /\ FlushWaits
  /\ LoadWaits

\* GetMetaEntry finds a page that is in the cache.
LEMMA CachedMeans ==
  ASSUME IInv, ListsIntact, NEW l \in Seq(Entries), ToSet(l) = ToSet(lru), NEW p \in MetaLPN
  PROVE  IsCached(l, p) <=> InCache(p)
<1>1. IsCached(l, p) => InCache(p)
  BY TouchFacts DEF InCache
<1>2. ASSUME NEW e \in Entries, entry[e].metaLPN = p
      PROVE  IsCached(l, p)
  <2>1. e \in ToSet(l)
    BY <1>2, ContentFacts DEF IInv, ListsCover
  <2>2. PICK i \in DOMAIN l : l[i] = e
    BY <2>1 DEF ToSet
  <2> QED BY <1>2, <2>2 DEF IsCached, Positions
<1> QED BY <1>1, <1>2 DEF InCache

\* A lookup of the page at the head leaves the list; any hit is then at the head.
LEMMA TouchHead ==
  ASSUME NEW l \in Seq(Entries), NEW p
  PROVE  /\ l # <<>> /\ entry[l[1]].metaLPN = p => Touch(l, p) = l
         /\ IsCached(l, p) => Touch(l, p) # <<>> /\ Touch(l, p)[1] = CachedEntry(l, p)
<1>1. ASSUME l # <<>>, entry[l[1]].metaLPN = p
      PROVE  Touch(l, p) = l
  <2>1. 1 \in Positions(l, p) /\ \A i \in Positions(l, p) : 1 <= i /\ i \in Nat
    BY <1>1 DEF Positions
  <2>2. PositionOf(l, p) \in Positions(l, p) /\ PositionOf(l, p) <= 1
    BY <2>1 DEF PositionOf
  <2>3. PositionOf(l, p) = 1
    BY <2>1, <2>2
  <2>4. IsCached(l, p)
    BY <2>1 DEF IsCached
  <2> QED BY <1>1, <2>3, <2>4, MoveHead DEF Touch, CachedEntry
<1>2. ASSUME IsCached(l, p)
      PROVE  Touch(l, p) # <<>> /\ Touch(l, p)[1] = CachedEntry(l, p)
  <2>1. PICK i \in Positions(l, p) : \A j \in Positions(l, p) : i <= j
    <3>1. Positions(l, p) \subseteq Nat /\ Positions(l, p) # {}
      BY <1>2 DEF Positions, IsCached
    <3> QED BY <3>1, LeastPosition
  <2>2. PositionOf(l, p) \in DOMAIN l
    BY <2>1 DEF PositionOf, Positions
  <2> DEFINE m == RemoveAt(l, PositionOf(l, p))
             x == CachedEntry(l, p)
  <2>3. m \in Seq(Entries) /\ x \in Entries
    BY <2>2, RemoveAtFacts DEF CachedEntry
  <2>4. Touch(l, p) = Cons(x, m)
    BY <1>2 DEF Touch
  <2> HIDE DEF m, x
  <2>5. Len(Cons(x, m)) = Len(m) + 1 /\ Cons(x, m)[1] = x /\ Len(m) \in Nat
    BY <2>3, ConsPoints
  <2>6. Cons(x, m) # <<>>
    BY <2>5
  <2> QED BY <2>4, <2>5, <2>6 DEF x
<1> QED BY <1>1, <1>2

\* A busy tail, and nothing free: _Allocate does nothing.
LEMMA TailBusy ==
  ASSUME free = <<>>, entry[Last(lru)].io
  PROVE  /\ ~AllocateSucceeds(lru)
         /\ AllocateBusy(lru) => UNCHANGED <<entry, lru, free, req, waitQ>>
BY DEF AllocateSucceeds, AllocateBusy

\* While a meta request is outstanding, the page the host waits for is not there.
LEMMA Waiting ==
  ASSUME IInv, HostTurn, hilQ # <<>>, HilAvailable
  PROVE  Outstanding = {}
<1> SUFFICES ASSUME NEW r \in Outstanding PROVE FALSE
  OBVIOUS
<1>1. Formatted /\ HilFirst \in MetaLPN /\ HilLast \in MetaLPN
  BY HilHeadFacts
<1>2. lru \in Seq(Entries) /\ ListsIntact
  BY DEF IInv, TypeOK, HostTurn
<1>3. ASSUME NEW p \in MetaLPN, IsMetaAvailable(lru, p)
      PROVE  InCache(p) /\ (IsLoad(r) => req[r].metaLPN # p)
  <2>1. PICK e \in Entries : entry[e].metaLPN = p /\ entry[e].valid
    BY <1>2, <1>3, AvailableFacts
  <2>2. ASSUME IsLoad(r), req[r].metaLPN = p
        PROVE  FALSE
    <3>1. /\ req[r].entry \in Entries /\ entry[req[r].entry].metaLPN = p
          /\ ~entry[req[r].entry].valid
      BY <2>2, OutstandingFacts
    <3> QED BY <2>1, <3>1, ContentFacts DEF IInv, OnePagePerEntry
  <2> QED BY <2>1, <2>2 DEF InCache
<1>4. CASE IsLoad(r)
  BY <1>1, <1>3, <1>4 DEF HostTurn, LoadWaits, HilAvailable
<1>5. CASE ~IsLoad(r)
  BY <1>1, <1>3, <1>5 DEF HostTurn, FlushWaits, HilAvailable
<1> QED BY <1>4, <1>5

\* A step that starts no request and leaves the lists and the head of the queue.
LEMMA TurnFrame ==
  ASSUME HostTurn, UNCHANGED <<lru, free, nFormat>>,
         \A e \in Entries : entry'[e].metaLPN = entry[e].metaLPN,
         lru \in Seq(Entries), NoCollector',
         \A r \in Outstanding' : /\ r \in Outstanding
                                 /\ req'[r].entry = req[r].entry
                                 /\ req'[r].metaLPN = req[r].metaLPN
                                 /\ IsLoad(r)' <=> IsLoad(r),
         hilQ # <<>> => /\ hilQ' # <<>>
                        /\ hilQ'[1].lpn = hilQ[1].lpn
                        /\ hilQ'[1].count = hilQ[1].count
  PROVE  HostTurn'
<1>1. ListsIntact' /\ (Formatted' <=> Formatted)
  BY DEF HostTurn, ListsIntact, Formatted
<1>2. OnlyOne'
  BY DEF HostTurn, OnlyOne
<1>3. hilQ # <<>> => HilFirst' = HilFirst /\ HilLast' = HilLast
  BY DEF HilFirst, HilLast, HilHead
<1>4. \A p : InCache(p)' <=> InCache(p)
  BY DEF InCache
<1>5. lru # <<>> => entry'[lru[1]].metaLPN = entry[lru[1]].metaLPN
  OBVIOUS
<1>6. FlushWaits'
  <2> SUFFICES ASSUME NEW r \in Outstanding', ~IsLoad(r)'
               PROVE  /\ free' = <<>> /\ lru' # <<>> /\ req'[r].entry = Last(lru')
                      /\ Formatted' =>
                           /\ hilQ' # <<>>
                           /\ \/ ~InCache(HilFirst)'
                              \/ entry'[lru'[1]].metaLPN = HilFirst' /\ ~InCache(HilLast)'
    BY DEF FlushWaits
  <2>1. /\ free = <<>> /\ lru # <<>> /\ req[r].entry = Last(lru)
        /\ Formatted =>
             /\ hilQ # <<>>
             /\ \/ ~InCache(HilFirst)
                \/ entry[lru[1]].metaLPN = HilFirst /\ ~InCache(HilLast)
    BY DEF HostTurn, FlushWaits
  <2>2. hilQ # <<>> => /\ InCache(HilFirst)' <=> InCache(HilFirst)
                       /\ InCache(HilLast)' <=> InCache(HilLast)
    BY <1>3 DEF InCache
  <2> QED BY <1>1, <1>3, <1>5, <2>1, <2>2
<1>7. LoadWaits'
  <2> SUFFICES ASSUME NEW r \in Outstanding', IsLoad(r)'
               PROVE  /\ Formatted' /\ hilQ' # <<>>
                      /\ \/ req'[r].metaLPN = HilFirst'
                         \/ /\ req'[r].metaLPN = HilLast'
                            /\ \/ InCache(HilFirst)'
                               \/ free' = <<>> /\ lru' # <<>> /\ Last(lru') = req'[r].entry
    BY DEF LoadWaits
  <2>1. /\ Formatted /\ hilQ # <<>>
        /\ \/ req[r].metaLPN = HilFirst
           \/ /\ req[r].metaLPN = HilLast
              /\ InCache(HilFirst) \/ (free = <<>> /\ lru # <<>> /\ Last(lru) = req[r].entry)
    BY DEF HostTurn, LoadWaits
  <2>2. InCache(HilFirst)' <=> InCache(HilFirst)
    BY <1>3, <2>1 DEF InCache
  <2> QED BY <1>1, <1>3, <2>1, <2>2
<1> QED BY <1>1, <1>2, <1>6, <1>7 DEF HostTurn

\* While a request is outstanding, a miss of the host starts no other.
LEMMA MissWaits ==
  ASSUME IInv, LruInv, HostTurn, HilMiss, NEW r \in Outstanding
  PROVE  /\ UNCHANGED <<entry, free, req, waitQ>>
         /\ \/ lru' = lru
            \/ ToSet(lru') = ToSet(lru) /\ IsLoad(r) /\ InCache(HilFirst)
<1>1. /\ hilQ # <<>> /\ ListsIntact /\ lru \in Seq(Entries)
      /\ OnlyOne /\ FlushWaits /\ LoadWaits
  BY DEF HilMiss, HostTurn, IInv, TypeOK
<1>2. Formatted
  BY <1>1, HilHeadFacts
<1>3. PICK p, n, e : p = HilFirst /\ n = HilLast /\ e = req[r].entry
  OBVIOUS
<1>4. p \in MetaLPN /\ n \in MetaLPN
  BY <1>1, <1>3, HilHeadFacts
<1>5. /\ e \in Entries /\ entry[e].metaLPN = req[r].metaLPN /\ entry[e].io
      /\ (entry[e].valid <=> ~IsLoad(r))
  BY <1>3, OutstandingFacts
<1>6. PICK l : l = Touch(lru, p)
  OBVIOUS
<1>7. /\ l \in Seq(Entries) /\ ToSet(l) = ToSet(lru)
      /\ Touch(l, n) \in Seq(Entries) /\ ToSet(Touch(l, n)) = ToSet(lru)
      /\ HilTouched = Touch(l, n)
  BY <1>1, <1>3, <1>6, TouchFacts DEF HilTouched
<1>8. /\ IsCached(lru, p) <=> InCache(p)
      /\ IsCached(l, p) <=> InCache(p)
      /\ IsCached(l, n) <=> InCache(n)
      /\ IsCached(lru, n) <=> InCache(n)
      /\ IsCached(Touch(l, n), n) <=> InCache(n)
  BY <1>1, <1>4, <1>7, CachedMeans
<1>9. ASSUME NEW m \in Seq(Entries), NEW q, IsCached(m, q), LoadMeta(m, q)
      PROVE  /\ lru' = Touch(m, q) /\ UNCHANGED <<entry, free, req, waitQ>>
             /\ ToSet(lru') = ToSet(m)
  BY <1>9, TouchFacts DEF LoadMeta
<1>10. ASSUME NEW q, ~IsCached(lru, q), LoadMeta(lru, q), free = <<>>, e = Last(lru)
       PROVE  UNCHANGED <<entry, lru, free, req, waitQ>>
  BY <1>5, <1>10, TailBusy DEF LoadMeta
<1>11. CASE LoadMeta(l, p)
  <2>1. CASE IsLoad(r) /\ InCache(p)
    BY <1>3, <1>7, <1>8, <1>9, <1>11, <2>1
  <2>2. CASE IsLoad(r) /\ ~InCache(p)
    <3>1. free = <<>> /\ e = Last(lru)
      BY <1>1, <1>3, <1>5, <2>2 DEF LoadWaits, InCache
    <3>2. l = lru
      BY <1>6, <1>8, <2>2 DEF Touch
    <3> QED BY <1>8, <1>10, <1>11, <2>2, <3>1, <3>2
  <2>3. CASE ~IsLoad(r) /\ ~InCache(p)
    <3>1. free = <<>> /\ e = Last(lru)
      BY <1>1, <1>3, <2>3 DEF FlushWaits
    <3>2. l = lru
      BY <1>6, <1>8, <2>3 DEF Touch
    <3> QED BY <1>8, <1>10, <1>11, <2>3, <3>1, <3>2
  <2>4. CASE ~IsLoad(r) /\ InCache(p)
    <3>1. lru # <<>> /\ entry[lru[1]].metaLPN = p
      BY <1>1, <1>2, <1>3, <2>4 DEF FlushWaits
    <3>2. l = lru /\ Touch(lru, p) = lru
      BY <1>1, <1>6, <3>1, TouchHead
    <3>3. IsCached(lru, p) /\ LoadMeta(lru, p)
      BY <1>8, <1>11, <2>4, <3>2
    <3>4. lru' = Touch(lru, p) /\ UNCHANGED <<entry, free, req, waitQ>>
      BY <1>1, <1>9, <3>3
    <3> QED BY <3>2, <3>4
  <2> QED BY <2>1, <2>2, <2>3, <2>4
<1>12. CASE IsMetaAvailable(lru, p) /\ LoadMeta(Touch(l, n), n)
  <2>1. InCache(p) /\ \E f \in Entries : entry[f].metaLPN = p /\ entry[f].valid
    BY <1>1, <1>4, <1>8, <1>12, AvailableFacts DEF IsMetaAvailable
  <2>2. CASE IsLoad(r)
    <3>1. req[r].metaLPN # p
      BY <1>4, <1>5, <2>1, <2>2, ContentFacts DEF IInv, OnePagePerEntry
    <3>2. InCache(n)
      BY <1>1, <1>3, <1>5, <2>2, <3>1 DEF LoadWaits, InCache
    <3> QED BY <1>3, <1>7, <1>8, <1>9, <1>12, <2>1, <2>2, <3>2
  <2>3. CASE ~IsLoad(r)
    <3>1. /\ free = <<>> /\ e = Last(lru) /\ lru # <<>>
          /\ entry[lru[1]].metaLPN = p /\ ~InCache(n)
      BY <1>1, <1>2, <1>3, <2>1, <2>3 DEF FlushWaits
    <3>2. l = lru
      BY <1>1, <1>6, <3>1, TouchHead
    <3>3. Touch(l, n) = lru
      BY <1>8, <3>1, <3>2 DEF Touch
    <3> QED BY <1>8, <1>10, <1>12, <3>1, <3>3
  <2> QED BY <2>2, <2>3
<1> QED BY <1>3, <1>6, <1>7, <1>11, <1>12 DEF HilMiss

\* Nothing is outstanding after the step.
LEMMA QuietTurn ==
  ASSUME HostTurn, Outstanding' = {}, ListsIntact', UNCHANGED <<gcQ, gcIssued, gcLeft>>
  PROVE  HostTurn'
<1>1. NoCollector'
  BY DEF HostTurn, NoCollector
<1>2. OnlyOne' /\ FlushWaits' /\ LoadWaits'
  BY DEF OnlyOne, FlushWaits, LoadWaits
<1> QED BY <1>1, <1>2 DEF HostTurn

\* With nothing outstanding, the flush of the tail starts: the format needs an entry,
\* or the host misses its first page, or has it at the head and misses its last.
LEMMA FlushTurn ==
  ASSUME IInv, HostTurn, Outstanding = {},
         NEW l \in Seq(Entries), ToSet(l) = ToSet(lru), AllocateBusy(l),
         Formatted => /\ hilQ # <<>>
                      /\ \/ ~InCache(HilFirst)
                         \/ entry[l[1]].metaLPN = HilFirst /\ ~InCache(HilLast),
         UNCHANGED <<hilQ, nFormat, gcQ, gcIssued, gcLeft>>
  PROVE  HostTurn'
<1>1. /\ ~AllocateSucceeds(l) /\ lru' = l /\ free' = free /\ free = <<>>
  BY DEF AllocateBusy, AllocateSucceeds
<1>2. l # <<>>
  <2>1. ToSet(lru) \union ToSet(free) = Entries
    BY DEF HostTurn, IInv, ListsCover
  <2>2. ToSet(free) = {}
    BY <1>1 DEF ToSet
  <2>3. l = <<>> => ToSet(l) = {}
    BY DEF ToSet
  <2> QED BY <2>1, <2>2, <2>3, SizesAssumption
<1>3. PICK x, r : x = Last(l) /\ r = FirstFree
  OBVIOUS
<1>4. x \in Entries /\ l[1] \in Entries /\ entry \in [Entries -> EntryType]
      /\ req \in [Requests -> RequestType]
  BY <1>1, <1>2, <1>3, AllocateFacts DEF HostTurn, IInv, TypeOK
<1>5. \/ UNCHANGED <<entry, req>>
      \/ /\ entry' = [entry EXCEPT ![x].io = TRUE]
         /\ r \in Requests
         /\ req' = [req EXCEPT ![r] = [status |-> "WRITE_WAIT", metaLPN |-> entry[x].metaLPN,
                                       entry |-> x, buf |-> entry[x].l2v]]
  BY <1>3 DEF AllocateBusy, StartRequest, FirstFree, FreeRequests
<1>6. \A e \in Entries : entry'[e].metaLPN = entry[e].metaLPN
  BY <1>4, <1>5 DEF EntryType
<1>7. \A s \in Outstanding' : s = r /\ req'[s].entry = x /\ req'[s].status = "WRITE_WAIT"
  BY <1>4, <1>5 DEF Outstanding
<1>8. HilFirst' = HilFirst /\ HilLast' = HilLast /\ (Formatted' <=> Formatted)
  BY DEF HilFirst, HilLast, HilHead, Formatted
<1>9. ListsIntact' /\ NoCollector' /\ OnlyOne'
  BY <1>1, <1>7 DEF HostTurn, ListsIntact, NoCollector, OnlyOne
<1>10. LoadWaits'
  BY <1>7 DEF LoadWaits, IsLoad
<1>11. InCache(HilFirst)' <=> InCache(HilFirst)
  BY <1>6, <1>8 DEF InCache
<1>12. InCache(HilLast)' <=> InCache(HilLast)
  BY <1>6, <1>8 DEF InCache
<1>13. lru'[1] = l[1] /\ entry'[lru'[1]].metaLPN = entry[l[1]].metaLPN
  BY <1>1, <1>4, <1>6
<1>14. FlushWaits'
  BY <1>1, <1>2, <1>3, <1>7, <1>8, <1>11, <1>12, <1>13 DEF FlushWaits
<1> QED BY <1>9, <1>10, <1>14 DEF HostTurn

\* With nothing outstanding, a load starts: of the first page of the head of the host
\* queue, or of its last when the first is at the head of the list.
LEMMA LoadTurn ==
  ASSUME IInv, HostTurn, hilQ # <<>>, Outstanding = {},
         NEW l \in Seq(Entries), ToSet(l) = ToSet(lru), Injective(l),
         NEW p \in MetaLPN, AllocateSucceeds(l), FreeRequests # {},
         lru' = AllocatedLru(l), free' = AllocatedFree,
         entry' = [entry EXCEPT ![Allocated(l)].valid = FALSE,
                                ![Allocated(l)].metaLPN = p,
                                ![Allocated(l)].io = TRUE],
         StartRequest("READ_WAIT", p, Allocated(l), NoContent),
         \/ p = HilFirst
         \/ p = HilLast /\ l # <<>> /\ entry[l[1]].metaLPN = HilFirst,
         UNCHANGED <<hilQ, nFormat, gcQ, gcIssued, gcLeft>>
  PROVE  HostTurn'
<1>1. PICK x, r : x = Allocated(l) /\ r = FirstFree
  OBVIOUS
<1>2. /\ x \in Entries /\ ListsIntact /\ AllocatedLru(l) \in Seq(Entries)
      /\ ToSet(AllocatedLru(l)) \intersect ToSet(AllocatedFree) = {}
      /\ entry \in [Entries -> EntryType] /\ req \in [Requests -> RequestType]
      /\ free \in Seq(Entries)
  BY <1>1, AllocateFacts DEF HostTurn, IInv, TypeOK
<1>3. /\ r \in Requests
      /\ req' = [req EXCEPT ![r] = [status |-> "READ_WAIT", metaLPN |-> p, entry |-> x,
                                    buf |-> NoContent]]
  BY <1>1 DEF StartRequest, FirstFree, FreeRequests
<1>4. \A s \in Outstanding' : /\ s = r /\ req'[s].entry = x /\ req'[s].metaLPN = p
                              /\ req'[s].status = "READ_WAIT"
  BY <1>2, <1>3 DEF Outstanding
<1>5. HilFirst' = HilFirst /\ HilLast' = HilLast /\ Formatted'
  BY HilHeadFacts DEF HilFirst, HilLast, HilHead, Formatted
<1>6. ListsIntact' /\ NoCollector' /\ OnlyOne'
  BY <1>2, <1>4 DEF HostTurn, ListsIntact, NoCollector, OnlyOne
<1>7. FlushWaits'
  BY <1>4 DEF FlushWaits, IsLoad
<1>8. ASSUME p # HilFirst
      PROVE  InCache(HilFirst)' \/ (free' = <<>> /\ lru' # <<>> /\ Last(lru') = x)
  <2>1. PICK y : y = l[1]
    OBVIOUS
  <2>2. y \in Entries /\ l # <<>> /\ entry[y].metaLPN = HilFirst /\ y \in ToSet(l)
    BY <1>8, <2>1 DEF ToSet
  <2>3. CASE y # x
    <3>1. entry'[y].metaLPN = HilFirst
      BY <1>1, <1>2, <2>2, <2>3
    <3> QED BY <1>5, <2>2, <3>1 DEF InCache
  <2>4. CASE y = x
    <3>1. free = <<>>
      <4> SUFFICES ASSUME free # <<>> PROVE FALSE
        OBVIOUS
      <4>1. x \in ToSet(free)
        BY <1>1, <1>2, TailFacts DEF Allocated
      <4> QED BY <1>2, <2>2, <2>4, <4>1 DEF ListsIntact
    <3>2. Last(l) = l[1]
      BY <1>1, <2>1, <2>4, <3>1 DEF Allocated
    <3>3. Len(l) = 1
      <4>1. Len(l) \in Nat \ {0} /\ DOMAIN l = 1..Len(l)
        BY <2>2
      <4> QED BY <3>2, <4>1 DEF Injective, Last
    <3>4. Front(l) \in Seq(Entries) /\ Len(Front(l)) = 0
      BY <2>2, <3>3, FrontFacts DEF Front
    <3>5. Len(lru') = 1 /\ lru'[1] = x
      <4>1. PICK f \in Seq(Entries) : f = Front(l)
        BY <3>4
      <4>2. Len(Cons(x, f)) = 1 /\ Cons(x, f)[1] = x
        <5>1. f \in Seq(Entries) /\ Len(f) = 0
          BY <3>4, <4>1
        <5>2. x \in Entries
          BY <1>2
        <5>3. Len(Cons(x, f)) = Len(f) + 1 /\ Cons(x, f)[1] = x
          BY <5>1, <5>2, ConsPoints
        <5> QED BY <5>1, <5>3
      <4> QED BY <1>1, <3>1, <4>1, <4>2 DEF AllocatedLru
    <3>6. lru' # <<>> /\ Last(lru') = x
      <4>1. PICK m : m = lru'
        OBVIOUS
      <4>2. m \in Seq(Entries) /\ Len(m) = 1 /\ m[1] = x
        BY <1>2, <3>5, <4>1
      <4>3. m # <<>>
        <5>1. Len(<<>>) = 0 /\ Len(m) # 0
          BY <4>2, EmptySeq
        <5> QED BY <5>1, Zenon
      <4>4. Last(m) = m[Len(m)]
        BY DEF Last
      <4> QED BY <4>1, <4>2, <4>3, <4>4
    <3> QED BY <3>1, <3>6 DEF AllocatedFree
  <2> QED BY <2>3, <2>4
<1>9. LoadWaits'
  BY <1>4, <1>5, <1>8 DEF LoadWaits
<1> QED BY <1>6, <1>7, <1>9 DEF HostTurn

\* A miss of the host starts the one load or flush it waits for, or none.
LEMMA MissTurn ==
  ASSUME Requests # {}, IInv, LruInv, HostTurn, HilMiss
  PROVE  HostTurn'
<1>1. /\ hilQ # <<>> /\ UNCHANGED <<hilQ, nFormat, gcQ, gcIssued, gcLeft>>
      /\ ListsIntact
  BY DEF HilMiss, gcVars, gcCounts
<1>2. CASE Outstanding # {}
  <2>1. PICK r \in Outstanding : TRUE
    BY <1>2
  <2>2. /\ UNCHANGED <<entry, free, req, waitQ>>
        /\ \/ lru' = lru
           \/ ToSet(lru') = ToSet(lru) /\ IsLoad(r) /\ InCache(HilFirst)
    BY <2>1, MissWaits
  <2>3. CASE lru' = lru
    <3>1. NoCollector' /\ Outstanding' = Outstanding /\ lru \in Seq(Entries)
      BY <1>1, <2>2 DEF HostTurn, NoCollector, Outstanding, IInv, TypeOK
    <3>2. \A s \in Outstanding : IsLoad(s)' <=> IsLoad(s)
      BY <2>2 DEF IsLoad
    <3> QED BY <1>1, <2>2, <2>3, <3>1, <3>2, TurnFrame
  <2>4. CASE ToSet(lru') = ToSet(lru) /\ IsLoad(r) /\ InCache(HilFirst)
    <3>1. /\ ListsIntact' /\ NoCollector' /\ OnlyOne' /\ Outstanding' = Outstanding
          /\ \A s \in Outstanding : s = r
      BY <1>1, <2>1, <2>2, <2>4
         DEF HostTurn, ListsIntact, NoCollector, OnlyOne, Outstanding
    <3>2. IsLoad(r)'
      BY <2>2, <2>4 DEF IsLoad
    <3>3. FlushWaits'
      BY <3>1, <3>2 DEF FlushWaits
    <3>4. /\ HilFirst' = HilFirst /\ HilLast' = HilLast /\ Formatted'
          /\ InCache(HilFirst)'
      BY <1>1, <2>2, <2>4, HilHeadFacts DEF HilFirst, HilLast, HilHead, Formatted, InCache
    <3>5. req[r].metaLPN = HilFirst \/ req[r].metaLPN = HilLast
      BY <2>1, <2>4 DEF HostTurn, LoadWaits
    <3>6. LoadWaits'
      BY <1>1, <2>2, <3>1, <3>4, <3>5 DEF LoadWaits
    <3> QED BY <3>1, <3>3, <3>6 DEF HostTurn
  <2> QED BY <2>2, <2>3, <2>4
<1>3. CASE Outstanding = {}
  <2>1. PICK l : l = Touch(lru, HilFirst)
    OBVIOUS
  <2>2. /\ HilFirst \in MetaLPN /\ HilLast \in MetaLPN /\ lru \in Seq(Entries)
        /\ l \in Seq(Entries) /\ ToSet(l) = ToSet(lru) /\ Injective(l)
        /\ HilTouched \in Seq(Entries) /\ ToSet(HilTouched) = ToSet(lru)
        /\ Injective(HilTouched) /\ HilTouched = Touch(l, HilLast)
    BY <1>1, <2>1, HilHeadFacts, HilTouchedFacts, HilTouchedInjective DEF HilTouched
  <2>3. FreeRequests # {}
    BY <1>3 DEF FreeRequests, Outstanding
  <2>4. ASSUME NEW m \in Seq(Entries), ToSet(m) = ToSet(lru), Injective(m), NEW p \in MetaLPN,
               LoadMeta(m, p),
               \/ p = HilFirst
               \/ /\ p = HilLast
                  /\ ~IsCached(m, p) => m # <<>> /\ entry[m[1]].metaLPN = HilFirst
        PROVE  HostTurn'
    <3>1. IsCached(m, p) <=> InCache(p)
      BY <1>1, <2>4, CachedMeans
    <3>2. CASE IsCached(m, p)
      <4>1. lru' = Touch(m, p) /\ UNCHANGED <<free, req>>
        BY <2>4, <3>2 DEF LoadMeta
      <4>2. ToSet(lru') = ToSet(lru)
        BY <2>4, <4>1, TouchFacts
      <4>3. ListsIntact' /\ Outstanding' = {}
        BY <1>1, <1>3, <4>1, <4>2 DEF ListsIntact, Outstanding
      <4> QED BY <1>1, <4>3, QuietTurn
    <3>3. CASE AllocateBusy(m) /\ ~IsCached(m, p)
      BY <1>1, <1>3, <2>4, <3>1, <3>3, FlushTurn
    <3>4. CASE /\ ~IsCached(m, p)
               /\ AllocateSucceeds(m)
               /\ lru' = AllocatedLru(m)
               /\ free' = AllocatedFree
               /\ entry' = [entry EXCEPT ![Allocated(m)].valid = FALSE,
                                         ![Allocated(m)].metaLPN = p,
                                         ![Allocated(m)].io = TRUE]
               /\ StartRequest("READ_WAIT", p, Allocated(m), NoContent)
      BY <1>1, <1>3, <2>3, <2>4, <3>4, LoadTurn
    <3> QED BY <2>3, <2>4, <3>2, <3>3, <3>4 DEF LoadMeta
  <2>5. CASE LoadMeta(l, HilFirst)
    BY <2>2, <2>4, <2>5
  <2>6. CASE IsMetaAvailable(lru, HilFirst) /\ LoadMeta(HilTouched, HilLast)
    <3>1. IsCached(lru, HilFirst) /\ entry[CachedEntry(lru, HilFirst)].metaLPN = HilFirst
      BY <2>2, <2>6, TouchFacts DEF IsMetaAvailable
    <3>2. l # <<>> /\ entry[l[1]].metaLPN = HilFirst
      BY <2>1, <2>2, <3>1, TouchHead
    <3>3. ~IsCached(HilTouched, HilLast) => HilTouched = l
      <4>1. IsCached(HilTouched, HilLast) <=> IsCached(l, HilLast)
        BY <1>1, <2>2, CachedMeans
      <4> QED BY <2>2, <4>1 DEF Touch
    <3> QED BY <2>2, <2>4, <2>6, <3>2, <3>3
  <2> QED BY <2>1, <2>5, <2>6 DEF HilMiss
<1> QED BY <1>2, <1>3

\* Only the request of the head of the host queue is ever outstanding.
LEMMA NextTurn ==
  ASSUME GcTypes = {}, Requests # {}, IInv, LruInv, HostTurn, [Next]_vars
  PROVE  HostTurn'
<1>1. /\ ListsIntact /\ NoCollector /\ lru \in Seq(Entries) /\ hilQ \in Seq(HilRequestType)
      /\ entry \in [Entries -> EntryType] /\ req \in [Requests -> RequestType]
      /\ doneQ \in Seq(Requests) /\ waitQ \in Seq(Requests)
      /\ gcLeft \in [Collectors -> Int]
  BY DEF HostTurn, IInv, TypeOK
<1> DEFINE Still == UNCHANGED <<entry, lru, free, req, nFormat, hilQ>> /\ NoCollector'
<1>2. Still => HostTurn'
  <2> SUFFICES ASSUME Still PROVE HostTurn'
    OBVIOUS
  <2>1. Outstanding' = Outstanding /\ \A r \in Outstanding : IsLoad(r)' <=> IsLoad(r)
    BY DEF Outstanding, IsLoad
  <2> QED BY <1>1, <2>1, TurnFrame
<1>3. UNCHANGED <<gcQ, gcIssued, gcLeft>> => NoCollector'
  BY <1>1 DEF NoCollector
<1>4. CASE Main
  <2>1. CASE FormatPage
    <3>1. PICK l : l = lru
      OBVIOUS
    <3>2. AllocateSucceeds(l) /\ lru' = AllocatedLru(l) /\ free' = AllocatedFree /\ req' = req
          /\ UNCHANGED <<gcQ, gcIssued, gcLeft>>
      BY <2>1, <3>1 DEF FormatPage, reqVars, gcVars, gcCounts
    <3>3. Outstanding = {}
      <4> SUFFICES ASSUME NEW r \in Outstanding PROVE FALSE
        OBVIOUS
      <4>1. ~IsLoad(r)
        BY <2>1 DEF HostTurn, LoadWaits, FormatPage
      <4>2. free = <<>> /\ req[r].entry = Last(lru)
        BY <4>1 DEF HostTurn, FlushWaits
      <4>3. entry[Last(lru)].io
        BY <4>2, OutstandingFacts
      <4> QED BY <3>1, <3>2, <4>2, <4>3, TailBusy
    <3>4. ListsIntact'
      BY <1>1, <3>1, <3>2, AllocateFacts DEF ListsIntact
    <3>5. Outstanding' = {}
      BY <3>2, <3>3 DEF Outstanding
    <3> QED BY <3>2, <3>4, <3>5, QuietTurn
  <2>2. CASE FormatBusy
    <3>1. AllocateBusy(lru) /\ ~Formatted /\ UNCHANGED <<hilQ, nFormat, gcQ, gcIssued, gcLeft>>
      BY <2>2 DEF FormatBusy, gcVars, gcCounts
    <3>2. CASE Outstanding = {}
      BY <1>1, <3>1, <3>2, FlushTurn
    <3>3. CASE Outstanding # {}
      <4>1. PICK r \in Outstanding : TRUE
        BY <3>3
      <4>2. free = <<>> /\ req[r].entry = Last(lru)
        BY <3>1, <4>1 DEF HostTurn, FlushWaits, LoadWaits
      <4>3. entry[Last(lru)].io
        BY <4>1, <4>2, OutstandingFacts
      <4>4. UNCHANGED <<entry, lru, free, req>>
        BY <3>1, <4>2, <4>3, TailBusy
      <4> QED BY <1>2, <1>3, <3>1, <4>4
    <3> QED BY <3>2, <3>3
  <2>3. CASE HostArrives
    <3>1. PICK h : hilQ' = Append(hilQ, h)
      BY <2>3 DEF HostArrives
    <3>2. UNCHANGED <<entry, lru, free, req, nFormat, gcQ, gcIssued, gcLeft>>
      BY <2>3 DEF HostArrives, cacheVars, reqVars, gcVars, gcCounts
    <3>3. hilQ # <<>> => hilQ' # <<>> /\ hilQ'[1] = hilQ[1]
      BY <1>1, <3>1
    <3>4. Outstanding' = Outstanding /\ \A r \in Outstanding : IsLoad(r)' <=> IsLoad(r)
      BY <3>2 DEF Outstanding, IsLoad
    <3> QED BY <1>1, <1>3, <3>2, <3>3, <3>4, TurnFrame
  <2>4. CASE NoCommand
    BY <1>2, <1>3, <2>4 DEF NoCommand, cacheVars, reqVars, gcVars, gcCounts
  <2> QED BY <1>4, <2>1, <2>2, <2>3, <2>4 DEF Main
<1>5. CASE Fil
  <2>1. CASE \E r \in Requests : MetaReadCallBack(r)
    <3>1. PICK r \in Requests : MetaReadCallBack(r)
      BY <2>1
    <3>2. /\ req[r].status = "READ_ISSUE" /\ req' = [req EXCEPT ![r].status = "READ_DONE"]
          /\ UNCHANGED <<entry, lru, free, nFormat, hilQ, gcQ, gcIssued, gcLeft>>
      BY <3>1 DEF MetaReadCallBack, cacheVars, gcVars, gcCounts
    <3>3. \A s \in Requests : /\ req'[s].entry = req[s].entry
                              /\ req'[s].metaLPN = req[s].metaLPN
                              /\ s # r => req'[s] = req[s]
      BY <1>1, <3>2 DEF RequestType
    <3>4. req'[r].status = "READ_DONE"
      BY <1>1, <3>2 DEF RequestType
    <3>5. \A s \in Outstanding' : s \in Outstanding /\ (IsLoad(s)' <=> IsLoad(s))
      BY <3>2, <3>3, <3>4 DEF Outstanding, IsLoad
    <3>6. \A s \in Outstanding' : s \in Requests
      BY DEF Outstanding
    <3> QED BY <1>1, <1>3, <3>2, <3>3, <3>5, <3>6, TurnFrame
  <2>2. ~(\E g \in gcIssued : GCReadDone(g))
    BY <1>1 DEF NoCollector
  <2> QED BY <1>2, <1>3, <1>5, <2>1, <2>2 DEF Fil, FilRunDone, cacheVars, reqVars, gcVars, gcCounts
<1>6. CASE GCDone
  <2>1. CASE GCWriteDone
    <3>1. gcLeft' = [gcLeft EXCEPT ![Head(gcDoneQ).io] = @ - 1]
          /\ UNCHANGED <<entry, lru, free, req, nFormat, hilQ, gcQ, gcIssued>>
      BY <2>1 DEF GCWriteDone, cacheVars, reqVars
    <3>2. \A t \in Collectors : gcLeft[t] \in Int /\ (gcLeft'[t] = gcLeft[t] \/ gcLeft'[t] = gcLeft[t] - 1)
      BY <1>1, <3>1
    <3>3. NoCollector'
      BY <1>1, <3>1, <3>2 DEF NoCollector
    <3> QED BY <1>2, <3>1, <3>3
  <2> QED BY <1>2, <1>3, <1>6, <2>1 DEF GCDone, GCDoneQEmpty, cacheVars, reqVars, gcVars, gcCounts
<1>7. CASE MetaDone
  <2>1. ASSUME MetaReadDone \/ MetaWriteDone
        PROVE  HostTurn'
    <3>1. PICK r, e : r = Head(doneQ) /\ e = req[r].entry
      OBVIOUS
    <3>2. doneQ # <<>> /\ UNCHANGED <<lru, free, nFormat, hilQ, gcQ, gcIssued, gcLeft>>
          /\ req' = [req EXCEPT ![r] = FreeRequest]
      BY <2>1, <3>1 DEF MetaReadDone, MetaWriteDone, gcVars, gcCounts
    <3>3. r \in Requests /\ e \in Entries
      BY <3>1, <3>2, DoneHeadFacts
    <3>4. \/ entry' = [entry EXCEPT ![e].io = FALSE, ![e].dirty = FALSE,
                                    ![e].valid = TRUE, ![e].l2v = req[r].buf]
          \/ entry' = [entry EXCEPT ![e].io = FALSE, ![e].dirty = FALSE]
      BY <2>1, <3>1 DEF MetaReadDone, MetaWriteDone
    <3>5. \A f \in Entries : entry'[f].metaLPN = entry[f].metaLPN
      <4>1. CASE entry' = [entry EXCEPT ![e].io = FALSE, ![e].dirty = FALSE]
        BY <1>1, <3>3, <4>1 DEF EntryType
      <4>2. CASE entry' = [entry EXCEPT ![e].io = FALSE, ![e].dirty = FALSE,
                                        ![e].valid = TRUE, ![e].l2v = req[r].buf]
        <5>1. entry'[e].metaLPN = entry[e].metaLPN
          BY <1>1, <3>3, <4>2 DEF EntryType
        <5>2. \A f \in Entries : f # e => entry'[f] = entry[f]
          BY <1>1, <3>3, <4>2
        <5> QED BY <5>1, <5>2
      <4> QED BY <3>4, <4>1, <4>2
    <3>6. \A s \in Outstanding' : /\ s \in Outstanding /\ req'[s] = req[s]
                                  /\ IsLoad(s)' <=> IsLoad(s)
      BY <1>1, <3>2, <3>3 DEF Outstanding, FreeRequest, IsLoad
    <3> QED BY <1>1, <1>3, <3>2, <3>5, <3>6, TurnFrame
  <2> QED BY <1>2, <1>3, <1>7, <2>1
          DEF MetaDone, MetaDoneQEmpty, cacheVars, reqVars, gcVars, gcCounts
<1>8. CASE MetaWait
  <2>1. ASSUME NEW hit \in BOOLEAN, MetaReadWait(hit) \/ MetaWriteWait
        PROVE  HostTurn'
    <3>1. PICK r : r = Head(waitQ)
      OBVIOUS
    <3>2. waitQ # <<>> /\ UNCHANGED <<entry, lru, free, nFormat, hilQ, gcQ, gcIssued, gcLeft>>
      BY <2>1 DEF MetaReadWait, MetaWriteWait, cacheVars, gcVars, gcCounts
    <3>3. r \in Outstanding /\ r \in Requests
      BY <3>1, <3>2, WaitHeadFacts
    <3>4. \/ /\ req[r].status = "READ_WAIT"
             /\ req' = [req EXCEPT ![r].status = IF hit THEN "READ_DONE" ELSE "READ_ISSUE",
                                   ![r].buf = metaFlash[req[r].metaLPN]]
          \/ /\ req[r].status = "WRITE_WAIT"
             /\ req' = [req EXCEPT ![r].status = "WRITE_DONE"]
      BY <2>1, <3>1 DEF MetaReadWait, MetaWriteWait
    <3>5. \A s \in Requests : /\ req'[s].entry = req[s].entry
                              /\ req'[s].metaLPN = req[s].metaLPN
                              /\ s # r => req'[s] = req[s]
      BY <1>1, <3>3, <3>4 DEF RequestType
    <3>6. IsLoad(r)' <=> IsLoad(r)
      BY <1>1, <3>3, <3>4 DEF IsLoad, RequestType
    <3>7. \A s \in Outstanding' : s \in Outstanding /\ s \in Requests
      BY <3>3, <3>5 DEF Outstanding
    <3>8. \A s \in Outstanding' : IsLoad(s)' <=> IsLoad(s)
      BY <3>5, <3>6, <3>7 DEF IsLoad
    <3> QED BY <1>1, <1>3, <3>2, <3>5, <3>7, <3>8, TurnFrame
  <2>2. CASE MetaWriteWait
    BY <2>1, <2>2
  <2> QED BY <1>2, <1>3, <1>8, <2>1, <2>2
          DEF MetaWait, MetaWriteBusy, MetaWaitQEmpty, cacheVars, reqVars, gcVars, gcCounts
<1>9. CASE GCWait
  <2>1. gcQ = <<>>
    BY <1>1 DEF NoCollector
  <2>2. GCWaitQEmpty
    BY <1>9, <2>1 DEF GCWait, GCReadWait, GCWriteBlocked, GCWriteMiss, GCWriteBusy, GCWrite,
                      GCToWrite
  <2> QED BY <1>2, <1>3, <2>2 DEF GCWaitQEmpty, cacheVars, reqVars, gcVars, gcCounts
<1>10. CASE HilWait
  <2>1. CASE HilRead \/ HilWrite \/ HilWriteBusy
    <3>1. /\ hilQ # <<>> /\ HilAvailable /\ UNCHANGED <<free, req, gcQ, gcIssued, gcLeft>>
      BY <2>1 DEF HilRead, HilWrite, HilWriteBusy, reqVars, gcVars, gcCounts
    <3>2. Outstanding' = {}
      BY <3>1, Waiting DEF Outstanding
    <3>3. ToSet(lru') = ToSet(lru)
      <4>1. PICK l : l = HilTouched
        OBVIOUS
      <4>2. l \in Seq(Entries) /\ ToSet(l) = ToSet(lru)
        BY <4>1, HilTouchedFacts
      <4>3. lru' = l \/ lru' = Touch(l, MetaLPNOf(HilCur))
        BY <2>1, <4>1 DEF HilRead, HilWrite, HilWriteBusy, SetL2V
      <4> QED BY <4>2, <4>3, TouchFacts
    <3>4. ListsIntact'
      BY <1>1, <3>1, <3>3 DEF ListsIntact
    <3> QED BY <3>1, <3>2, <3>4, QuietTurn
  <2> QED BY <1>2, <1>3, <1>10, <2>1, MissTurn
          DEF HilWait, HilWaitQEmpty, HilWaitBlocked, cacheVars, reqVars, gcVars, gcCounts
<1>11. CASE GCRun
  <2>1. Reader \in Collectors /\ \A t \in Collectors : ~IsGCRunning(t)
    BY <1>1 DEF NoCollector, IsGCRunning, Collectors, Reader
  <2>2. ~GCRead /\ \A t : ~StartGC(t)
    BY <2>1 DEF GCRead, StartGC
  <2> QED BY <1>2, <1>3, <1>11, <2>2
          DEF GCRun, NoStartGC, NoGCRead, cacheVars, reqVars, gcVars, gcCounts
<1>12. CASE UNCHANGED vars
  BY <1>2, <1>3, <1>12 DEF vars
<1> QED BY <1>4, <1>5, <1>6, <1>7, <1>8, <1>9, <1>10, <1>11, <1>12 DEF Next

\* At the start nothing is outstanding and no collector runs.
LEMMA InitTurn ==
  Init => HostTurn
<1> SUFFICES ASSUME Init PROVE HostTurn
  OBVIOUS
<1>1. Outstanding = {}
  BY DEF Init, Outstanding, FreeRequest
<1>2. ListsIntact /\ NoCollector
  BY DEF Init, ListsIntact, NoCollector, ToSet
<1> QED BY <1>1, <1>2 DEF HostTurn, OnlyOne, FlushWaits, LoadWaits

\* No mapping changes in a page that is being stored: the host waits for the store.
LEMMA TurnUndisturbed ==
  ASSUME IInv, HostTurn, [Next]_vars
  PROVE  StoredUndisturbed
<1>1. /\ ListsIntact /\ NoCollector /\ lru \in Seq(Entries)
      /\ entry \in [Entries -> EntryType]
  BY DEF HostTurn, IInv, TypeOK
<1>2. UNCHANGED entry => StoredUndisturbed
  BY DEF StoredUndisturbed
<1>3. ASSUME NEW x \in Entries, ~(entry[x].io /\ entry[x].valid),
             \A f \in Entries : f # x => entry'[f] = entry[f]
      PROVE  StoredUndisturbed
  BY <1>3 DEF StoredUndisturbed
<1>4. ASSUME \A f \in Entries : entry'[f].l2v = entry[f].l2v
      PROVE  StoredUndisturbed
  BY <1>4 DEF StoredUndisturbed
<1>5. ASSUME NEW l \in Seq(Entries), ToSet(l) = ToSet(lru), AllocateBusy(l)
      PROVE  StoredUndisturbed
  <2>1. Last(l) \in Entries
    BY <1>1, <1>5, AllocateFacts DEF AllocateBusy
  <2>2. UNCHANGED entry \/ entry' = [entry EXCEPT ![Last(l)].io = TRUE]
    BY <1>5 DEF AllocateBusy
  <2>3. \A f \in Entries : entry'[f].l2v = entry[f].l2v
    BY <1>1, <2>1, <2>2 DEF EntryType
  <2> QED BY <1>4, <2>3
<1>6. CASE Main
  <2>1. CASE FormatPage
    <3>1. PICK x : x = Allocated(lru)
      OBVIOUS
    <3>2. x \in Entries /\ ~entry[x].io
      BY <1>1, <2>1, <3>1, AllocateFacts DEF FormatPage
    <3>3. \A f \in Entries : f # x => entry'[f] = entry[f]
      BY <1>1, <2>1, <3>1, <3>2 DEF FormatPage
    <3> QED BY <1>3, <3>2, <3>3
  <2> QED BY <1>1, <1>2, <1>5, <1>6, <2>1 DEF Main, FormatBusy, HostArrives, NoCommand, cacheVars
<1>7. CASE Fil
  BY <1>2, <1>7 DEF Fil, MetaReadCallBack, GCReadDone, FilRunDone, cacheVars
<1>8. CASE GCDone
  BY <1>2, <1>8 DEF GCDone, GCWriteDone, GCDoneQEmpty, cacheVars
<1>9. CASE MetaDone
  <2>1. CASE MetaReadDone
    <3>1. PICK r, e : r = Head(doneQ) /\ e = req[r].entry
      OBVIOUS
    <3>2. doneQ # <<>> /\ req[r].status = "READ_DONE"
          /\ entry' = [entry EXCEPT ![e].io = FALSE, ![e].dirty = FALSE,
                                    ![e].valid = TRUE, ![e].l2v = req[r].buf]
      BY <2>1, <3>1 DEF MetaReadDone
    <3>3. r \in Outstanding
      BY <3>1, <3>2, DoneHeadFacts DEF Outstanding
    <3>4. e \in Entries /\ ~entry[e].valid
      BY <3>1, <3>2, <3>3, OutstandingFacts DEF IsLoad
    <3>5. \A f \in Entries : f # e => entry'[f] = entry[f]
      BY <1>1, <3>2, <3>4
    <3> QED BY <1>3, <3>4, <3>5
  <2>2. CASE MetaWriteDone
    <3>1. PICK e : e = req[Head(doneQ)].entry
      OBVIOUS
    <3>2. e \in Entries /\ entry' = [entry EXCEPT ![e].io = FALSE, ![e].dirty = FALSE]
      BY <2>2, <3>1, DoneHeadFacts DEF MetaWriteDone
    <3>3. \A f \in Entries : entry'[f].l2v = entry[f].l2v
      BY <1>1, <3>2 DEF EntryType
    <3> QED BY <1>4, <3>3
  <2> QED BY <1>2, <1>9, <2>1, <2>2 DEF MetaDone, MetaDoneQEmpty, cacheVars
<1>10. CASE MetaWait
  BY <1>2, <1>10 DEF MetaWait, MetaReadWait, MetaWriteWait, MetaWriteBusy, MetaWaitQEmpty,
                     cacheVars
<1>11. CASE GCWait
  <2>1. gcQ = <<>>
    BY <1>1 DEF NoCollector
  <2>2. GCWaitQEmpty
    BY <1>11, <2>1 DEF GCWait, GCReadWait, GCWriteBlocked, GCWriteMiss, GCWriteBusy, GCWrite,
                       GCToWrite
  <2> QED BY <1>2, <2>2 DEF GCWaitQEmpty, cacheVars
<1>12. CASE HilWait
  <2>1. CASE HilMiss
    <3>1. PICK l \in Seq(Entries), p \in MetaLPN : ToSet(l) = ToSet(lru) /\ LoadMeta(l, p)
      <4>1. hilQ # <<>>
        BY <2>1 DEF HilMiss
      <4> QED BY <2>1, <4>1, HilHeadFacts, HilTouchedFacts DEF HilMiss
    <3>2. CASE AllocateSucceeds(l) /\ UNCHANGED entry
      BY <1>2, <3>2
    <3>3. CASE /\ AllocateSucceeds(l)
               /\ \/ entry' = [entry EXCEPT ![Allocated(l)].valid = FALSE,
                                            ![Allocated(l)].metaLPN = p,
                                            ![Allocated(l)].io = TRUE]
                  \/ entry' = [entry EXCEPT ![Allocated(l)].valid = FALSE]
      <4>1. PICK x : x = Allocated(l)
        OBVIOUS
      <4>2. x \in Entries /\ ~entry[x].io
        BY <1>1, <3>1, <3>3, <4>1, AllocateFacts
      <4>3. \A f \in Entries : f # x => entry'[f] = entry[f]
        BY <1>1, <3>3, <4>1, <4>2
      <4> QED BY <1>3, <4>2, <4>3
    <3> QED BY <1>2, <1>5, <3>1, <3>3 DEF LoadMeta
  <2>2. CASE HilWrite
    <3>1. Outstanding = {}
      BY <2>2, Waiting DEF HilWrite
    <3>2. \A e \in Entries : ~entry[e].io
      BY <3>1 DEF IInv, OneRequestPerBusyEntry
    <3> QED BY <3>2 DEF StoredUndisturbed
  <2> QED BY <1>2, <1>12, <2>1, <2>2
          DEF HilWait, HilWaitQEmpty, HilWaitBlocked, HilRead, HilWriteBusy, cacheVars
<1>13. CASE GCRun
  BY <1>2, <1>13 DEF GCRun, StartGC, NoStartGC, GCRead, NoGCRead, cacheVars
<1>14. CASE UNCHANGED vars
  BY <1>2, <1>14 DEF vars
<1> QED BY <1>6, <1>7, <1>8, <1>9, <1>10, <1>11, <1>12, <1>13, <1>14 DEF Next

\* The inductive invariant of the three theorems below.
HostInv == IInv /\ LruInv /\ HostTurn /\ NoMetaCollector /\ MappingInv

LEMMA HostInvariant ==
  ASSUME GcTypes = {}, Requests # {}
  PROVE  Spec => []HostInv
<1>1. Init => HostInv
  BY InitInv, InitLru, InitTurn, InitMapping DEF HostInv
<1>2. HostInv /\ [Next]_vars => HostInv'
  BY NextInv, NextLru, NextTurn, NextNoMeta, NextMapping, TurnUndisturbed DEF HostInv
<1> QED BY <1>1, <1>2, PTL DEF Spec

\* Without collections META_CACHE (dftl_meta.cpp) loses no mapping, though
\* SetL2V does not look at m_bIORunning: whatever commands the host sends, a lookup
\* finds the last mapping SetL2V was given, in the cache or in the meta block.
THEOREM HostKeepsMapping ==
  ASSUME GcTypes = {}, Requests # {}
  PROVE  Spec => []MappingKept
<1>1. HostInv => MappingKept
  BY DEF HostInv, MappingInv
<1> QED BY <1>1, HostInvariant, PTL

\* Without collections an entry that is not marked m_bDirty is what the meta block
\* holds, so that _Allocate (dftl_meta.cpp) may give it away unstored.
THEOREM HostStoresDirty ==
  ASSUME GcTypes = {}, Requests # {}
  PROVE  Spec => []DirtyUntilStored
<1>1. HostInv => DirtyUntilStored
  BY DEF HostInv, MappingInv
<1> QED BY <1>1, HostInvariant, PTL

\* Without collections one meta request is enough: _Release is never reached, and the
\* two lists of META_CACHE stay sound.
THEOREM HostKeepsLists ==
  ASSUME GcTypes = {}, Requests # {}
  PROVE  Spec => []ListsSound
<1>1. HostInv => ListsSound
  BY IntactIsSound DEF HostInv, HostTurn
<1> QED BY <1>1, HostInvariant, PTL
=============================================================================
