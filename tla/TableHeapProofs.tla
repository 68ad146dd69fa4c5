-------------------------- MODULE TableHeapProofs ---------------------------
(***************************************************************************)
(* Proofs about the table heap and its pages, for every page size, every   *)
(* set of tuple sizes and any number of pages.  What the walks over the    *)
(* list return follows from one fact about the links (Chain): the pages    *)
(* are linked in the order of their allocation.                            *)
(***************************************************************************)
EXTENDS TableHeap, SequenceTheorems, WellFoundedInduction, TLAPS

-----------------------------------------------------------------------------
(* The inductive invariant. *)

Before(x, y) == x[1] < y[1] \/ (x[1] = y[1] /\ x[2] < y[2])

Increasing(s) == \A i, j \in DOMAIN s : i < j => Before(s[i], s[j])

\* r names a slot of a page.
IsRid(r) ==
  /\ r \in Nat \X Nat
  /\ r[1] \in DOMAIN pages /\ r[2] \in DOMAIN pages[r[1]].slots

\* Every page links to the one allocated after it.
Chain == \A i \in DOMAIN pages : pages[i].next = IF i = Len(pages) THEN INVALID_PAGE_ID ELSE i + 1

\* The tuples of a page lie between its free space pointer and its end.
Placed(pg) ==
  /\ pg \in TablePages
  /\ \A s \in DOMAIN pg.slots :
       pg.slots[s].length > 0 => /\ pg.fsp <= pg.slots[s].offset
                                 /\ pg.slots[s].offset + pg.slots[s].length <= PageSize

\* Slot s of page i holds the row the session stored there, or nothing.
Holds(i, s) ==
  IF <<i, s>> \in DOMAIN stored
  THEN pages[i].slots[s].length > 0 /\ PageGet(pages[i], s) = stored[<<i, s>>]
  ELSE pages[i].slots[s].length = 0

\* What the pages hold.
HeapGood ==
  /\ pages \in Seq(TablePages) /\ Len(pages) \in 1 .. MaxHeapPages
  /\ Chain
  /\ \A i \in DOMAIN pages : Placed(pages[i])
  /\ \A i \in DOMAIN pages : \A s \in DOMAIN pages[i].slots : Holds(i, s)
  /\ \A r \in DOMAIN stored : IsRid(r)

\* Where the scan is: past the row it returned last and all rows before, on a
\* row that is there.
ScanGood ==
  /\ iter = NoRid \/ iter \in DOMAIN stored
  /\ cur = NoRid \/ IsRid(cur)
  /\ iter # NoRid => /\ cur # NoRid => Before(cur, iter)
                     /\ \A i \in DOMAIN seen : Before(seen[i], iter)

\* The rows a scan must still return are ahead of it.
DueGood ==
  /\ due \subseteq DOMAIN stored
  /\ ~refused => \A r \in due : \/ \E i \in DOMAIN seen : seen[i] = r
                                \/ iter # NoRid /\ NotAfter(iter, r)

HeapInv ==
  /\ seen \in Seq(Nat \X Nat) /\ Increasing(seen)
  /\ Intact => HeapGood /\ ScanGood /\ DueGood

-----------------------------------------------------------------------------
(* Walking the list. *)

\* A set of natural numbers has a least element.
LEMMA LeastNatural ==
  ASSUME NEW S \in SUBSET Nat, S # {}
  PROVE  \E m \in S : \A x \in S : m <= x
<1> DEFINE R == OpToRel(<, Nat)
<1>1. IsWellFoundedOn(R, Nat)
  BY NatLessThanWellFounded
<1>2. \A x, y \in Nat : <<x, y>> \in R <=> x < y
  BY DEF OpToRel
<1> HIDE DEF R
<1>3. PICK m \in S : \A y \in S : ~(<<y, m>> \in R)
  BY <1>1, WFMin
<1>4. ASSUME NEW y \in S PROVE m <= y
  <2>1. ~(y < m)
    BY <1>2, <1>3
  <2> QED BY <2>1
<1> QED BY <1>4

\* Following k links from page p leads k pages on, or past the last page.
LEMMA ReachedValue ==
  ASSUME Chain, Len(pages) \in Nat, DOMAIN pages = 1 .. Len(pages), NEW p \in DOMAIN pages, NEW k \in Nat
  PROVE  Reached(p, k) = IF p + k <= Len(pages) THEN p + k ELSE INVALID_PAGE_ID
<1> DEFINE after == CHOOSE g : g = [n \in 0 .. k |->
                      IF n = 0 THEN p
                      ELSE IF g[n - 1] = INVALID_PAGE_ID THEN INVALID_PAGE_ID
                      ELSE pages[g[n - 1]].next]
           value == [n \in 0 .. k |-> IF p + n <= Len(pages) THEN p + n ELSE INVALID_PAGE_ID]
           bad == {n \in 0 .. k : after[n] # value[n]}
<1>1. value = [n \in 0 .. k |-> IF n = 0 THEN p
                                ELSE IF value[n - 1] = INVALID_PAGE_ID THEN INVALID_PAGE_ID
                                ELSE pages[value[n - 1]].next]
  BY SMTT(30) DEF Chain, INVALID_PAGE_ID
<1>2. after = [n \in 0 .. k |-> IF n = 0 THEN p
                                ELSE IF after[n - 1] = INVALID_PAGE_ID THEN INVALID_PAGE_ID
                                ELSE pages[after[n - 1]].next]
  <2> HIDE DEF value
  <2> QED BY <1>1, ZenonT(30)
<1>3. Reached(p, k) = after[k]
  BY DEF Reached
<1> HIDE DEF after
<1>4. bad = {}
  <2> SUFFICES ASSUME bad # {} PROVE FALSE
    OBVIOUS
  <2>1. PICK m \in bad : \A n \in bad : m <= n
    <3>1. bad \subseteq Nat
      OBVIOUS
    <3> HIDE DEF bad
    <3> QED BY <3>1, LeastNatural
  <2>2. m # 0
    BY <1>2, <2>1
  <2>3. m - 1 \in 0 .. k /\ m - 1 \notin bad
    BY <2>1, <2>2
  <2>4. after[m] = IF after[m - 1] = INVALID_PAGE_ID THEN INVALID_PAGE_ID ELSE pages[after[m - 1]].next
    BY <1>2, <2>1, <2>2
  <2>5. value[m] = IF value[m - 1] = INVALID_PAGE_ID THEN INVALID_PAGE_ID ELSE pages[value[m - 1]].next
    <3> HIDE DEF value
    <3> QED BY <1>1, <2>1, <2>2
  <2>6. after[m - 1] = value[m - 1] /\ after[m] # value[m]
    BY <2>1, <2>3
  <2> QED BY <2>4, <2>5, <2>6
<1>5. after[k] = value[k]
  <2>1. k \in 0 .. k
    OBVIOUS
  <2> HIDE DEF value
  <2> QED BY <1>4, <2>1
<1> QED BY <1>3, <1>5

\* The slots of a page that is not overrun have numbers up to PageSize.
LEMMA SlotsBounded ==
  ASSUME NEW pg \in TablePages, ~Overrun(pg)
  PROVE  Len(pg.slots) \in 0 .. PageSize
<1>1. Len(pg.slots) \in Nat /\ pg.fsp \in 0 .. PageSize
  BY DEF TablePages
<1>2. Len(pg.slots) <= Len(pg.slots) * SlotSize
  BY <1>1, TablePageAssumption
<1>3. pg.fsp >= HeaderSize + Len(pg.slots) * SlotSize
  BY <1>1, TablePageAssumption DEF Overrun, SlotEnd
<1>4. Len(pg.slots) * SlotSize \in Nat
  BY <1>1, TablePageAssumption
<1> QED BY <1>1, <1>2, <1>3, <1>4, TablePageAssumption

\* What the search of an iterator returns: End() when no tuple is at or after its
\* start, else the first one.
LEMMA FirstLiveValue ==
  ASSUME HeapGood, Intact, NEW p \in DOMAIN pages, NEW slot \in Nat \ {0}
  PROVE  LET r == FirstLive(p, slot)
             from == <<p, slot>>
         IN  \/ r = NoRid /\ \A x \in DOMAIN stored : ~NotAfter(from, x)
             \/ /\ r \in DOMAIN stored /\ r # NoRid /\ NotAfter(from, r)
                /\ \A x \in DOMAIN stored : NotAfter(from, x) => NotAfter(r, x)
<1> DEFINE live == LiveFrom(p, slot)
           N == Len(pages)
           best == CHOOSE x \in live : \A y \in live : NotAfter(x, y)
<1>1. N \in Nat /\ DOMAIN pages = 1 .. N /\ p \in 1 .. N /\ p \in Nat
  BY DEF HeapGood
<1>2. \A k \in Nat : Reached(p, k) = IF p + k <= N THEN p + k ELSE INVALID_PAGE_ID
  BY <1>1, ReachedValue DEF HeapGood
<1>3. ASSUME NEW i \in 1 .. N, NEW s \in DOMAIN pages[i].slots
      PROVE  /\ s \in 1 .. PageSize
             /\ Present(pages[i], s) <=> <<i, s>> \in DOMAIN stored
  <2>1. pages[i] \in TablePages /\ ~Overrun(pages[i])
    BY <1>1 DEF HeapGood, Intact
  <2>2. s \in 1 .. Len(pages[i].slots) /\ pages[i].slots \in Seq(Slot)
    BY <2>1 DEF TablePages
  <2>3. Holds(i, s)
    BY <1>1 DEF HeapGood
  <2>4. pages[i].slots[s].length \in Nat
    <3>1. pages[i].slots[s] \in Slot
      BY <2>2
    <3> QED BY <3>1, TablePageAssumption DEF Slot
  <2>5. s \in 1 .. PageSize
    BY <2>1, <2>2, SlotsBounded, TablePageAssumption
  <2>6. Present(pages[i], s) <=> <<i, s>> \in DOMAIN stored
    BY <2>3, <2>4 DEF Holds, Present, TupleSize
  <2> QED BY <2>5, <2>6
<1>4. ASSUME NEW x \in live
      PROVE  /\ x \in Nat \X Nat /\ p + x[1] \in 1 .. N
             /\ Reached(p, x[1]) = p + x[1]
             /\ <<p + x[1], x[2]>> \in DOMAIN stored
             /\ NotAfter(<<p, slot>>, <<p + x[1], x[2]>>)
  <2>1. x[1] \in 0 .. N /\ x[2] \in 1 .. PageSize /\ x = <<x[1], x[2]>>
    BY DEF LiveFrom
  <2>2. Reached(p, x[1]) # INVALID_PAGE_ID
    BY DEF LiveFrom
  <2>3. p + x[1] <= N /\ Reached(p, x[1]) = p + x[1]
    BY <1>1, <1>2, <2>1, <2>2
  <2>4. /\ x[2] \in DOMAIN pages[p + x[1]].slots /\ x[2] >= StartSlot(x[1], slot)
        /\ Present(pages[p + x[1]], x[2])
    BY <2>3 DEF LiveFrom
  <2>5. p + x[1] \in 1 .. N /\ x[2] \in Nat
    BY <1>1, <2>1, <2>3, TablePageAssumption
  <2>6. <<p + x[1], x[2]>> \in DOMAIN stored
    BY <1>3, <2>4, <2>5
  <2>7. NotAfter(<<p, slot>>, <<p + x[1], x[2]>>)
    BY <1>1, <2>1, <2>4, <2>5 DEF NotAfter, StartSlot
  <2> QED BY <2>1, <2>3, <2>5, <2>6, <2>7
<1>5. ASSUME NEW x \in DOMAIN stored, NotAfter(<<p, slot>>, x)
      PROVE  <<x[1] - p, x[2]>> \in live /\ x[1] \in 1 .. N /\ x[2] \in Nat
  <2>1. x \in Nat \X Nat /\ x[1] \in 1 .. N /\ x[2] \in DOMAIN pages[x[1]].slots /\ x = <<x[1], x[2]>>
    BY <1>1 DEF HeapGood, IsRid
  <2>2. x[1] - p \in 0 .. N /\ Reached(p, x[1] - p) = x[1]
    <3>1. p <= x[1]
      BY <1>1, <1>5, <2>1 DEF NotAfter
    <3>2. x[1] - p \in 0 .. N /\ x[1] - p \in Nat /\ p + (x[1] - p) = x[1] /\ x[1] <= N
      BY <1>1, <2>1, <3>1
    <3>3. Reached(p, x[1] - p) = IF p + (x[1] - p) <= N THEN p + (x[1] - p) ELSE INVALID_PAGE_ID
      BY <1>2, <3>2
    <3> QED BY <3>2, <3>3
  <2>3. x[2] \in 1 .. PageSize /\ Present(pages[x[1]], x[2])
    BY <1>3, <2>1
  <2>4. x[2] >= StartSlot(x[1] - p, slot)
    <3>1. x[2] \in Nat /\ x[2] >= 1 /\ (x[1] = p => x[2] >= slot)
      BY <1>1, <1>5, <2>1, <2>3 DEF NotAfter
    <3>2. x[1] - p = 0 <=> x[1] = p
      BY <1>1, <2>1
    <3> QED BY <3>1, <3>2 DEF StartSlot
  <2> QED BY <2>1, <2>2, <2>3, <2>4 DEF LiveFrom, INVALID_PAGE_ID
<1>6. CASE live = {}
  <2>1. FirstLive(p, slot) = NoRid
    BY <1>6 DEF FirstLive
  <2> QED BY <1>5, <1>6, <2>1
<1>7. CASE live # {}
  <2>1. \E x \in live : \A y \in live : NotAfter(x, y)
    <3> DEFINE first == {x[1] : x \in live}
    <3>1. first \subseteq Nat /\ first # {}
      BY <1>4, <1>7
    <3>2. PICK k \in first : \A n \in first : k <= n
      <4> HIDE DEF first
      <4> QED BY <3>1, LeastNatural
    <3> DEFINE second == {s \in Nat : <<k, s>> \in live}
    <3>3. second \subseteq Nat /\ second # {}
      <4>1. PICK x \in live : x[1] = k
        BY <3>2
      <4>2. x \in Nat \X Nat
        BY <1>4
      <4>3. x = <<k, x[2]>> /\ x[2] \in Nat
        BY <4>1, <4>2
      <4> HIDE DEF live
      <4> QED BY <4>1, <4>3
    <3>4. PICK s \in second : \A n \in second : s <= n
      <4> HIDE DEF second
      <4> QED BY <3>3, LeastNatural
    <3>5. <<k, s>> \in live
      BY <3>4
    <3>6. ASSUME NEW y \in live PROVE NotAfter(<<k, s>>, y)
      <4>1. y \in Nat \X Nat /\ y = <<y[1], y[2]>> /\ y[1] \in Nat /\ y[2] \in Nat
        <5>1. y \in Nat \X Nat
          BY <1>4
        <5> QED BY <5>1
      <4>2. y[1] \in first /\ k \in Nat /\ k <= y[1]
        BY <3>1, <3>2
      <4> HIDE DEF live
      <4>3. k = y[1] => y[2] \in second /\ s <= y[2]
        BY <3>4, <4>1
      <4> QED BY <4>1, <4>2, <4>3 DEF NotAfter
    <3> QED BY <3>5, <3>6
  <2>2. best \in live /\ \A y \in live : NotAfter(best, y)
    BY <2>1
  <2>3. FirstLive(p, slot) = <<Reached(p, best[1]), best[2]>>
    BY <1>7 DEF FirstLive
  <2> HIDE DEF best, live
  <2> DEFINE r == <<p + best[1], best[2]>>
  <2>4. /\ FirstLive(p, slot) = r /\ r \in DOMAIN stored /\ NotAfter(<<p, slot>>, r) /\ p + best[1] \in 1 .. N
        /\ best \in Nat \X Nat
    BY <1>4, <2>2, <2>3
  <2>6. r # NoRid
    BY <1>1, <2>4 DEF NoRid, INVALID_PAGE_ID
  <2>5. ASSUME NEW x \in DOMAIN stored, NotAfter(<<p, slot>>, x) PROVE NotAfter(r, x)
    <3>1. NotAfter(best, <<x[1] - p, x[2]>>)
      BY <1>5, <2>2, <2>5
    <3>2. best \in Nat \X Nat /\ x[1] \in 1 .. N /\ x[2] \in Nat
      BY <1>5, <2>4, <2>5
    <3> QED BY <1>1, <3>1, <3>2 DEF NotAfter
  <2> QED BY <2>4, <2>5, <2>6
<1> QED BY <1>6, <1>7

\* The page that InsertTuple finds has room; without one it finds none.
LEMMA FirstFitValue ==
  ASSUME HeapGood, NEW size
  PROVE  FirstFit(size) # INVALID_PAGE_ID => FirstFit(size) \in DOMAIN pages /\ Fits(pages[FirstFit(size)], size)
<1> DEFINE N == Len(pages)
           roomy == {k \in 0 .. N : LET q == Reached(first_page_id_, k)
                                    IN  q # INVALID_PAGE_ID /\ Fits(pages[q], size)}
<1>1. N \in Nat /\ DOMAIN pages = 1 .. N /\ first_page_id_ \in 1 .. N
  BY DEF HeapGood, first_page_id_
<1>2. \A k \in Nat : Reached(first_page_id_, k) \in 1 .. N \/ Reached(first_page_id_, k) = INVALID_PAGE_ID
  BY <1>1, ReachedValue DEF HeapGood
<1>3. roomy \subseteq Nat
  BY <1>1
<1>4. ASSUME roomy # {}
      PROVE  FirstFit(size) \in DOMAIN pages /\ Fits(pages[FirstFit(size)], size)
  <2>1. \E k \in roomy : \A j \in roomy : k <= j
    <3> HIDE DEF roomy
    <3> QED BY <1>3, <1>4, LeastNatural
  <2>2. PICK k \in roomy : FirstFit(size) = Reached(first_page_id_, k)
    BY <1>4, <2>1 DEF FirstFit
  <2>3. k \in Nat
    BY <1>3
  <2> QED BY <1>1, <1>2, <2>2, <2>3
<1>5. roomy = {} => FirstFit(size) = INVALID_PAGE_ID
  BY DEF FirstFit
<1> QED BY <1>4, <1>5

\* The walk to the end of the list ends at the page allocated last.
LEMMA LastPageValue ==
  ASSUME HeapGood
  PROVE  LastPage = Len(pages)
<1> DEFINE N == Len(pages)
<1>1. N \in Nat \ {0} /\ DOMAIN pages = 1 .. N /\ first_page_id_ = 1
  BY DEF HeapGood, first_page_id_
<1>2. Reached(first_page_id_, N - 1) = N
  BY <1>1, ReachedValue DEF HeapGood
<1>3. \A i \in DOMAIN pages : pages[i].next = INVALID_PAGE_ID <=> i = N
  BY <1>1 DEF HeapGood, Chain, INVALID_PAGE_ID
<1> QED BY <1>1, <1>2, <1>3 DEF LastPage

-----------------------------------------------------------------------------
(* The operations of a page. *)

\* The fields of a page and of its slots.
LEMMA PageFields ==
  ASSUME NEW pg \in TablePages
  PROVE  /\ pg.next \in Nat /\ pg.slots \in Seq(Slot) /\ pg.fsp \in 0 .. PageSize
         /\ pg.bytes \in [Bytes -> Data \cup {NoData}]
         /\ Len(pg.slots) \in Nat /\ DOMAIN pg.slots = 1 .. Len(pg.slots)
         /\ SlotEnd(pg) \in Nat /\ SlotEnd(pg) >= HeaderSize
         /\ \A s \in DOMAIN pg.slots : /\ pg.slots[s] \in Slot
                                       /\ pg.slots[s].offset \in Bytes /\ pg.slots[s].length \in 0 .. PageSize
<1>1. /\ pg.next \in Nat /\ pg.slots \in Seq(Slot) /\ pg.fsp \in 0 .. PageSize
      /\ pg.bytes \in [Bytes -> Data \cup {NoData}]
  BY DEF TablePages
<1>2. Len(pg.slots) \in Nat /\ DOMAIN pg.slots = 1 .. Len(pg.slots)
  BY <1>1
<1>3. Len(pg.slots) * SlotSize \in Nat
  BY <1>2, TablePageAssumption
<1>4. SlotEnd(pg) \in Nat /\ SlotEnd(pg) >= HeaderSize
  BY <1>3, TablePageAssumption DEF SlotEnd
<1>5. ASSUME NEW s \in DOMAIN pg.slots
      PROVE  /\ pg.slots[s] \in Slot
             /\ pg.slots[s].offset \in Bytes /\ pg.slots[s].length \in 0 .. PageSize
  <2>1. pg.slots[s] \in Slot
    BY <1>1, <1>2
  <2> QED BY <2>1 DEF Slot
<1> QED BY <1>1, <1>2, <1>4, <1>5

\* Copying a tuple below the free space pointer leaves the tuples above it alone.
LEMMA PlaceDataEffect ==
  ASSUME NEW pg \in TablePages, Placed(pg), NEW d \in Data, NEW size \in Nat \ {0}, size <= pg.fsp
  PROVE  LET n == PlaceData(pg, d, size)
         IN  /\ n \in TablePages /\ n.next = pg.next /\ n.slots = pg.slots /\ n.fsp = pg.fsp - size
             /\ n.fsp \in 0 .. PageSize
             /\ [offset |-> n.fsp, length |-> size] \in Slot
             /\ \A i \in 1 .. size : n.fsp + i - 1 \in Bytes /\ n.bytes[n.fsp + i - 1] = d
             /\ \A i \in Bytes : i >= pg.fsp => n.bytes[i] = pg.bytes[i]
<1> DEFINE n == PlaceData(pg, d, size)
           b == [i \in Bytes |-> IF pg.fsp - size <= i /\ i < pg.fsp THEN d ELSE pg.bytes[i]]
<1> USE PageFields, TablePageAssumption
<1>1. b \in [Bytes -> Data \cup {NoData}]
  OBVIOUS
<1>2. pg.fsp - size \in 0 .. PageSize /\ size \in 0 .. PageSize /\ pg.fsp - size \in Bytes
  BY DEF Bytes
<1>3. n = [pg EXCEPT !.fsp = pg.fsp - size, !.bytes = b]
  BY DEF PlaceData, TablePages
<1> HIDE DEF n, b
<1>4. n \in TablePages /\ n.next = pg.next /\ n.slots = pg.slots /\ n.fsp = pg.fsp - size /\ n.bytes = b
  BY <1>1, <1>2, <1>3 DEF TablePages
<1>5. [offset |-> pg.fsp - size, length |-> size] \in Slot
  BY <1>2 DEF Slot
<1>6. ASSUME NEW i \in 1 .. size
      PROVE  n.fsp + i - 1 \in Bytes /\ n.bytes[n.fsp + i - 1] = d
  <2>1. n.fsp + i - 1 \in Bytes /\ pg.fsp - size <= n.fsp + i - 1 /\ n.fsp + i - 1 < pg.fsp
    BY <1>4, SMTT(30) DEF Bytes
  <2> QED BY <1>4, <2>1 DEF b
<1>7. ASSUME NEW i \in Bytes, i >= pg.fsp PROVE n.bytes[i] = pg.bytes[i]
  BY <1>4, <1>7 DEF b, Bytes
<1> QED BY <1>2, <1>4, <1>5, <1>6, <1>7 DEF n

\* A tuple of which no byte changes reads back as before.
LEMMA SameTuple ==
  ASSUME NEW pg \in TablePages, Placed(pg), NEW n \in TablePages, NEW s \in DOMAIN pg.slots,
         n.slots[s] = pg.slots[s],
         \A i \in Bytes : i >= pg.fsp => n.bytes[i] = pg.bytes[i]
  PROVE  PageGet(n, s) = PageGet(pg, s)
<1> DEFINE o == pg.slots[s].offset
           l == pg.slots[s].length
<1>1. o \in Bytes /\ l \in 0 .. PageSize /\ pg.fsp \in 0 .. PageSize
  BY PageFields
<1>2. l > 0 => pg.fsp <= o /\ o + l <= PageSize
  BY DEF Placed
<1> HIDE DEF o, l
<1>3. \A i \in 1 .. l : o + i - 1 \in Bytes /\ o + i - 1 >= pg.fsp
  BY <1>1, <1>2, TablePageAssumption DEF Bytes
<1>4. \A i \in 1 .. l : n.bytes[o + i - 1] = pg.bytes[o + i - 1]
  BY <1>3
<1>5. PageGet(n, s) = [i \in 1 .. l |-> n.bytes[o + i - 1]]
  BY DEF PageGet, o, l
<1>6. PageGet(pg, s) = [i \in 1 .. l |-> pg.bytes[o + i - 1]]
  BY DEF PageGet, o, l
<1> QED BY <1>4, <1>5, <1>6

\* pg and n are a page before and after a change of slot s alone, which may be new.
OnlySlot(pg, n, s) ==
  /\ n.next = pg.next
  /\ DOMAIN pg.slots \subseteq DOMAIN n.slots /\ DOMAIN n.slots \subseteq DOMAIN pg.slots \cup {s}
  /\ \A x \in DOMAIN pg.slots \ {s} : n.slots[x].length = pg.slots[x].length /\ PageGet(n, x) = PageGet(pg, x)

\* Slot s of page n holds size bytes of content d.
HoldsTuple(n, s, d, size) ==
  /\ s \in DOMAIN n.slots /\ n.slots[s].length = size
  /\ PageGet(n, s) = [i \in 1 .. size |-> d]

\* InsertTuple of a page that has room for the tuple and its slot.
LEMMA PageInsertEffect ==
  ASSUME NEW pg, Placed(pg), ~Overrun(pg), NEW d \in Data, NEW size \in Nat \ {0}, Fits(pg, size)
  PROVE  LET n == PageInsert(pg, d, size)
             s == Len(pg.slots) + 1
         IN  Placed(n) /\ ~Overrun(n) /\ OnlySlot(pg, n, s) /\ HoldsTuple(n, s, d, size)
<1> DEFINE m == PlaceData(pg, d, size)
           n == PageInsert(pg, d, size)
           s == Len(pg.slots) + 1
           slot == [offset |-> pg.fsp - size, length |-> size]
<1>1. pg \in TablePages
  BY DEF Placed
<1>2. pg.fsp \in 0 .. PageSize /\ Len(pg.slots) \in Nat /\ DOMAIN pg.slots = 1 .. Len(pg.slots) /\ pg.slots \in Seq(Slot)
  BY <1>1, PageFields
<1>3. SlotEnd(pg) \in Nat /\ pg.fsp - SlotEnd(pg) >= size + SlotSize
  BY <1>1, PageFields DEF Fits, FreeSpaceRemaining
<1>4. size <= pg.fsp
  BY <1>2, <1>3, TablePageAssumption
<1>5. /\ m \in TablePages /\ m.next = pg.next /\ m.slots = pg.slots /\ m.fsp = pg.fsp - size
      /\ m.fsp \in 0 .. PageSize
      /\ [offset |-> m.fsp, length |-> size] \in Slot
      /\ \A i \in 1 .. size : m.fsp + i - 1 \in Bytes /\ m.bytes[m.fsp + i - 1] = d
      /\ \A i \in Bytes : i >= pg.fsp => m.bytes[i] = pg.bytes[i]
  BY <1>1, <1>4, PlaceDataEffect
<1>6. n = [m EXCEPT !.slots = Append(pg.slots, slot)] /\ slot \in Slot
  <2> HIDE DEF m
  <2> QED BY <1>5 DEF PageInsert, m, TablePages
<1> HIDE DEF m, n, slot
<1>7. Append(pg.slots, slot) \in Seq(Slot)
  BY <1>2, <1>6
<1>8. n \in TablePages /\ n.next = pg.next /\ n.slots = Append(pg.slots, slot) /\ n.fsp = m.fsp /\ n.bytes = m.bytes
  BY <1>5, <1>6, <1>7 DEF TablePages
<1>9. Len(n.slots) = s /\ DOMAIN n.slots = 1 .. s /\ n.slots[s] = slot
      /\ \A x \in DOMAIN pg.slots : n.slots[x] = pg.slots[x]
  BY <1>2, <1>6, <1>8
<1>10. slot.offset = m.fsp /\ slot.length = size
  BY <1>5 DEF slot
<1>11. Placed(n)
  <2> SUFFICES ASSUME NEW x \in DOMAIN n.slots, n.slots[x].length > 0
               PROVE  n.fsp <= n.slots[x].offset /\ n.slots[x].offset + n.slots[x].length <= PageSize
    BY <1>8 DEF Placed
  <2>1. CASE x = s
    BY <1>2, <1>5, <1>8, <1>9, <1>10, <2>1, SMTT(30)
  <2>2. CASE x # s
    <3>1. x \in DOMAIN pg.slots
      BY <1>2, <1>9, <2>2
    <3>2. pg.fsp <= n.slots[x].offset /\ n.slots[x].offset + n.slots[x].length <= PageSize
      BY <1>9, <3>1 DEF Placed
    <3>3. n.slots[x].offset \in Nat
      BY <1>1, <1>9, <3>1, PageFields, TablePageAssumption DEF Bytes
    <3> QED BY <1>2, <1>5, <1>8, <3>2, <3>3
  <2> QED BY <2>1, <2>2
<1>12. ~Overrun(n)
  <2>1. SlotEnd(n) = SlotEnd(pg) + SlotSize
    <3>1. (Len(pg.slots) + 1) * SlotSize = Len(pg.slots) * SlotSize + SlotSize
      BY <1>2, TablePageAssumption
    <3>2. Len(pg.slots) * SlotSize \in Nat
      BY <1>2, TablePageAssumption
    <3> QED BY <1>9, <3>1, <3>2, TablePageAssumption DEF SlotEnd
  <2> QED BY <1>2, <1>3, <1>5, <1>8, <2>1, TablePageAssumption DEF Overrun
<1>13. OnlySlot(pg, n, s)
  <2>1. \A x \in DOMAIN pg.slots : PageGet(n, x) = PageGet(pg, x)
    BY <1>1, <1>5, <1>8, <1>9, SameTuple, SMTT(30)
  <2> QED BY <1>2, <1>8, <1>9, <2>1 DEF OnlySlot
<1>14. HoldsTuple(n, s, d, size)
  <2>1. PageGet(n, s) = [i \in 1 .. size |-> n.bytes[m.fsp + i - 1]]
    BY <1>9, <1>10 DEF PageGet
  <2>2. PageGet(n, s) = [i \in 1 .. size |-> d]
    BY <1>5, <1>8, <2>1
  <2>3. s \in DOMAIN n.slots /\ n.slots[s].length = size
    BY <1>2, <1>9, <1>10
  <2> QED BY <2>2, <2>3 DEF HoldsTuple
<1> QED BY <1>11, <1>12, <1>13, <1>14 DEF n

\* MarkDelete of a page empties one slot.
LEMMA PageDeleteEffect ==
  ASSUME NEW pg, Placed(pg), NEW s \in DOMAIN pg.slots
  PROVE  LET n == PageDelete(pg, s)
         IN  /\ Placed(n) /\ OnlySlot(pg, n, s)
             /\ DOMAIN n.slots = DOMAIN pg.slots /\ Len(n.slots) = Len(pg.slots)
             /\ n.slots[s].length = 0 /\ n.fsp = pg.fsp /\ n.bytes = pg.bytes /\ n.next = pg.next
             /\ \A x \in DOMAIN pg.slots \ {s} : n.slots[x] = pg.slots[x]
<1> DEFINE n == PageDelete(pg, s)
           empty == [offset |-> 0, length |-> 0]
<1>1. pg \in TablePages
  BY DEF Placed
<1>2. /\ pg.slots \in Seq(Slot) /\ Len(pg.slots) \in Nat /\ DOMAIN pg.slots = 1 .. Len(pg.slots)
  BY <1>1, PageFields
<1>3. empty \in Slot
  BY TablePageAssumption DEF Slot, Bytes
<1>4. n = [pg EXCEPT !.slots = [pg.slots EXCEPT ![s] = empty]]
  BY DEF PageDelete
<1> HIDE DEF n, empty
<1>5. [pg.slots EXCEPT ![s] = empty] \in Seq(Slot)
  BY <1>2, <1>3
<1>6. /\ n \in TablePages /\ n.next = pg.next /\ n.slots = [pg.slots EXCEPT ![s] = empty]
      /\ n.fsp = pg.fsp /\ n.bytes = pg.bytes
  BY <1>1, <1>4, <1>5 DEF TablePages
<1>7. DOMAIN n.slots = DOMAIN pg.slots /\ n.slots[s] = empty /\ \A x \in DOMAIN pg.slots \ {s} : n.slots[x] = pg.slots[x]
  BY <1>2, <1>6
<1>8. Len(n.slots) = Len(pg.slots)
  BY <1>2, <1>5, <1>6
<1>9. n.slots[s].length = 0
  BY <1>7 DEF empty
<1>10. Placed(n)
  BY <1>6, <1>7, <1>9 DEF Placed
<1>11. \A x \in DOMAIN pg.slots \ {s} : PageGet(n, x) = PageGet(pg, x)
  BY <1>1, <1>6, <1>7, SameTuple
<1> QED BY <1>6, <1>7, <1>8, <1>9, <1>10, <1>11 DEF OnlySlot, n

\* UpdateTuple of a page puts the new tuple below the free space pointer.  It
\* overruns exactly when there is less room than the new tuple takes.
LEMMA PageUpdateEffect ==
  ASSUME NEW pg, Placed(pg), NEW s \in DOMAIN pg.slots, NEW d \in Data, NEW size \in Nat \ {0}
  PROVE  LET n == PageUpdate(pg, s, d, size)
         IN  /\ Overrun(n) <=> FreeSpaceRemaining(pg) < size
             /\ n.slots[s].length = size
             /\ ~Overrun(n) => Placed(n) /\ OnlySlot(pg, n, s) /\ HoldsTuple(n, s, d, size)
<1> DEFINE e == PageDelete(pg, s)
           m == PlaceData(e, d, size)
           n == PageUpdate(pg, s, d, size)
           slot == [offset |-> pg.fsp - size, length |-> size]
<1>1. pg \in TablePages
  BY DEF Placed
<1>2. /\ pg.slots \in Seq(Slot) /\ Len(pg.slots) \in Nat /\ DOMAIN pg.slots = 1 .. Len(pg.slots)
      /\ pg.fsp \in 0 .. PageSize /\ SlotEnd(pg) \in Nat
  BY <1>1, PageFields
<1>3. /\ Placed(e) /\ e \in TablePages /\ OnlySlot(pg, e, s)
      /\ DOMAIN e.slots = DOMAIN pg.slots /\ Len(e.slots) = Len(pg.slots) /\ e.fsp = pg.fsp
      /\ e.bytes = pg.bytes /\ e.next = pg.next
      /\ \A x \in DOMAIN pg.slots \ {s} : e.slots[x] = pg.slots[x]
  BY PageDeleteEffect DEF Placed
<1> HIDE DEF e
<1>4. m = [e EXCEPT !.fsp = pg.fsp - size,
             !.bytes = [i \in Bytes |-> IF e.fsp - size <= i /\ i < e.fsp THEN d ELSE e.bytes[i]]]
  BY <1>3 DEF PlaceData, TablePages
<1>5. n = [m EXCEPT !.slots = [m.slots EXCEPT ![s] = slot]]
  <2> HIDE DEF m, slot
  <2> QED BY DEF PageUpdate, e, m, slot
<1> HIDE DEF n, slot
<1>6. m.slots = e.slots /\ m.fsp = pg.fsp - size
  BY <1>3, <1>4 DEF TablePages
<1>7. n.slots = [e.slots EXCEPT ![s] = slot] /\ n.fsp = pg.fsp - size /\ n.bytes = m.bytes /\ n.next = m.next
  <2>1. m = [next |-> m.next, slots |-> m.slots, fsp |-> m.fsp, bytes |-> m.bytes]
    BY <1>3, <1>4 DEF TablePages
  <2> HIDE DEF m
  <2> QED BY <1>5, <1>6, <2>1
<1>8. n.slots[s] = slot /\ slot.length = size /\ slot.offset = pg.fsp - size
      /\ DOMAIN n.slots = DOMAIN pg.slots /\ \A x \in DOMAIN pg.slots \ {s} : n.slots[x] = e.slots[x]
  BY <1>3, <1>7 DEF slot
<1>9. Len(n.slots) = Len(pg.slots)
  BY <1>2, <1>8
<1>10. Overrun(n) <=> FreeSpaceRemaining(pg) < size
  BY <1>2, <1>7, <1>9 DEF Overrun, FreeSpaceRemaining, SlotEnd
<1>11. ASSUME ~Overrun(n) PROVE Placed(n) /\ OnlySlot(pg, n, s) /\ HoldsTuple(n, s, d, size)
  <2>1. size <= e.fsp
    BY <1>2, <1>3, <1>10, <1>11 DEF FreeSpaceRemaining
  <2>2. /\ m \in TablePages /\ m.next = e.next /\ m.slots = e.slots /\ m.fsp = e.fsp - size
        /\ m.fsp \in 0 .. PageSize
        /\ [offset |-> m.fsp, length |-> size] \in Slot
        /\ \A i \in 1 .. size : m.fsp + i - 1 \in Bytes /\ m.bytes[m.fsp + i - 1] = d
        /\ \A i \in Bytes : i >= e.fsp => m.bytes[i] = e.bytes[i]
    BY <1>3, <2>1, PlaceDataEffect
  <2> HIDE DEF m
  <2>3. slot \in Slot
    BY <1>3, <2>2 DEF slot
  <2>4. e.slots \in Seq(Slot)
    BY <1>3, PageFields
  <2>5. n.slots \in Seq(Slot)
    BY <1>3, <1>7, <2>3, <2>4
  <2>6. n \in TablePages
    BY <1>5, <1>7, <2>2, <2>5 DEF TablePages
  <2>7. Placed(n)
    <3> SUFFICES ASSUME NEW x \in DOMAIN n.slots, n.slots[x].length > 0
                 PROVE  n.fsp <= n.slots[x].offset /\ n.slots[x].offset + n.slots[x].length <= PageSize
      BY <2>6 DEF Placed
    <3>1. CASE x = s
      BY <1>2, <1>7, <1>8, <3>1
    <3>2. CASE x # s
      <4>1. x \in DOMAIN pg.slots /\ n.slots[x] = pg.slots[x]
        BY <1>3, <1>8, <3>2
      <4>2. pg.fsp <= n.slots[x].offset /\ n.slots[x].offset + n.slots[x].length <= PageSize
        BY <4>1 DEF Placed
      <4>3. n.slots[x].offset \in Nat
        BY <1>1, <4>1, PageFields, TablePageAssumption DEF Bytes
      <4> QED BY <1>2, <1>7, <4>2, <4>3
    <3> QED BY <3>1, <3>2
  <2>8. OnlySlot(pg, n, s)
    <3>1. \A x \in DOMAIN pg.slots \ {s} : n.slots[x] = pg.slots[x]
      BY <1>3, <1>8
    <3>2. \A i \in Bytes : i >= pg.fsp => n.bytes[i] = pg.bytes[i]
      BY <1>3, <1>7, <2>2
    <3>3. \A x \in DOMAIN pg.slots \ {s} : PageGet(n, x) = PageGet(pg, x)
      BY <1>1, <2>6, <3>1, <3>2, SameTuple
    <3> QED BY <1>3, <1>7, <1>8, <2>2, <3>1, <3>3 DEF OnlySlot
  <2>9. HoldsTuple(n, s, d, size)
    <3>1. PageGet(n, s) = [i \in 1 .. size |-> n.bytes[m.fsp + i - 1]]
      BY <1>6, <1>8 DEF PageGet
    <3>2. PageGet(n, s) = [i \in 1 .. size |-> d]
      BY <1>7, <2>2, <3>1
    <3> QED BY <1>8, <3>2 DEF HoldsTuple
  <2> QED BY <2>7, <2>8, <2>9
<1> QED BY <1>8, <1>10, <1>11 DEF n

-----------------------------------------------------------------------------
(* The heap. *)

\* Pages and slots stay, so what was a RID is one.
RidsStay == \A r : IsRid(r) => IsRid(r)'

\* A change of one slot of one page keeps the heap, if the session's record
\* of that slot, and no other, changes with it.
LEMMA SlotChange ==
  ASSUME HeapGood, NEW p \in DOMAIN pages, NEW s \in Nat, NEW n,
         pages' = [pages EXCEPT ![p] = n],
         Placed(n), OnlySlot(pages[p], n, s),
         s \in DOMAIN n.slots,
         DOMAIN stored' \cup {<<p, s>>} = DOMAIN stored \cup {<<p, s>>},
         \A r \in DOMAIN stored : r # <<p, s>> => stored'[r] = stored[r],
         IF <<p, s>> \in DOMAIN stored'
         THEN n.slots[s].length > 0 /\ PageGet(n, s) = stored'[<<p, s>>]
         ELSE n.slots[s].length = 0
  PROVE  HeapGood' /\ RidsStay
<1>1. /\ pages \in Seq(TablePages) /\ Len(pages) \in 1 .. MaxHeapPages
      /\ DOMAIN pages = 1 .. Len(pages) /\ Len(pages) \in Nat /\ p \in Nat
  BY DEF HeapGood
<1>2. n \in TablePages
  BY DEF Placed
<1>3. /\ pages' \in Seq(TablePages) /\ Len(pages') = Len(pages) /\ DOMAIN pages' = DOMAIN pages
      /\ pages'[p] = n /\ \A i \in DOMAIN pages \ {p} : pages'[i] = pages[i]
  BY <1>1, <1>2
<1>4. Chain'
  BY <1>1, <1>3 DEF HeapGood, Chain, OnlySlot
<1>5. \A i \in DOMAIN pages' : Placed(pages'[i])
  BY <1>3 DEF HeapGood
<1>6. \A i \in DOMAIN pages : DOMAIN pages[i].slots \subseteq DOMAIN pages'[i].slots
  BY <1>3 DEF OnlySlot
<1>7. RidsStay
  BY <1>3, <1>6 DEF RidsStay, IsRid
<1>8. ASSUME NEW i \in DOMAIN pages', NEW x \in DOMAIN pages'[i].slots PROVE Holds(i, x)'
  <2>1. CASE i = p /\ x = s
    BY <1>3, <2>1 DEF Holds
  <2>2. CASE ~(i = p /\ x = s)
    <3>1. i \in DOMAIN pages /\ x \in DOMAIN pages[i].slots
      BY <1>3, <2>2 DEF OnlySlot
    <3>2. Holds(i, x)
      BY <3>1 DEF HeapGood
    <3>3. pages'[i].slots[x].length = pages[i].slots[x].length /\ PageGet(pages'[i], x) = PageGet(pages[i], x)
      BY <1>3, <2>2, <3>1 DEF OnlySlot
    <3>4. <<i, x>> # <<p, s>>
      BY <2>2
    <3>5. /\ <<i, x>> \in DOMAIN stored' <=> <<i, x>> \in DOMAIN stored
          /\ <<i, x>> \in DOMAIN stored => stored'[<<i, x>>] = stored[<<i, x>>]
      BY <3>4
    <3> QED BY <3>2, <3>3, <3>5 DEF Holds
  <2> QED BY <2>1, <2>2
<1>9. ASSUME NEW r \in DOMAIN stored' PROVE IsRid(r)'
  <2>1. CASE r \in DOMAIN stored
    BY <1>7, <2>1 DEF HeapGood, RidsStay
  <2>2. CASE r = <<p, s>>
    BY <1>1, <1>3, <2>2 DEF IsRid
  <2> QED BY <2>1, <2>2
<1> QED BY <1>1, <1>3, <1>4, <1>5, <1>7, <1>8, <1>9 DEF HeapGood

\* Setting the link of a page changes nothing else.
LEMMA LinkEffect ==
  ASSUME NEW pg \in TablePages, NEW k \in Nat, NEW n, n = [pg EXCEPT !.next = k]
  PROVE  /\ n \in TablePages /\ n.next = k /\ n.slots = pg.slots /\ n.fsp = pg.fsp
         /\ n.bytes = pg.bytes
BY SMTT(30) DEF TablePages

\* A step puts page n behind the last page and changes only links.
PageBehind(n) ==
  /\ pages' \in Seq(TablePages) /\ Len(pages') = Len(pages) + 1
  /\ pages'[Len(pages) + 1] = n
  /\ \A i \in 1 .. Len(pages) : /\ pages'[i].next = i + 1 /\ pages'[i].slots = pages[i].slots
                                /\ pages'[i].fsp = pages[i].fsp /\ pages'[i].bytes = pages[i].bytes

\* v is the list s with l as its last page.
LastIs(v, s, l) ==
  /\ v \in Seq(TablePages) /\ Len(v) = Len(s) /\ v[Len(s)] = l
  /\ \A i \in 1 .. Len(s) : i # Len(s) => v[i] = s[i]

LEMMA LastChanged ==
  ASSUME NEW s \in Seq(TablePages), Len(s) > 0, NEW l \in TablePages
  PROVE  LastIs([s EXCEPT ![Len(s)] = l], s, l)
BY DEF LastIs

\* InsertTuple of the heap links the new page behind the last one.
LEMMA LinkedBehind ==
  ASSUME HeapGood, NEW n \in TablePages, pages' = Append(Linked(Len(pages) + 1), n)
  PROVE  PageBehind(n)
<1> DEFINE N == Len(pages)
<1>1. /\ pages \in Seq(TablePages) /\ DOMAIN pages = 1 .. N /\ N \in Nat \ {0} /\ N > 0 /\ N + 1 \in Nat
  BY DEF HeapGood
<1>2. PICK pg \in TablePages : pg = pages[N]
  BY <1>1
<1>3. PICK last : last = [pg EXCEPT !.next = N + 1]
  OBVIOUS
<1>4. Linked(N + 1) = [pages EXCEPT ![N] = last]
  <2>1. Linked(N + 1) = [pages EXCEPT ![N].next = N + 1]
    BY LastPageValue DEF Linked
  <2>2. Linked(N + 1) = [pages EXCEPT ![N] = [pages[N] EXCEPT !.next = N + 1]]
    BY <2>1, Zenon
  <2> QED BY <1>2, <1>3, <2>2, Zenon
<1>5. pages' = Append([pages EXCEPT ![N] = last], n)
  BY <1>4
<1>7. /\ last \in TablePages /\ last.next = N + 1 /\ last.slots = pages[N].slots /\ last.fsp = pages[N].fsp
      /\ last.bytes = pages[N].bytes
  <2>1. ASSUME NEW k \in Nat, last = [pg EXCEPT !.next = k]
        PROVE  /\ last \in TablePages /\ last.next = k /\ last.slots = pg.slots /\ last.fsp = pg.fsp
               /\ last.bytes = pg.bytes
    BY <2>1, LinkEffect
  <2> QED BY <1>1, <1>2, <1>3, <2>1
<1>8. /\ pages' \in Seq(TablePages) /\ Len(pages') = Len(pages) + 1
      /\ pages'[Len(pages) + 1] = n /\ pages'[N] = last /\ \A i \in 1 .. N : i # N => pages'[i] = pages[i]
  <2>1. pages \in Seq(TablePages) /\ Len(pages) > 0
    BY <1>1
  <2>2. LastIs([pages EXCEPT ![Len(pages)] = last], pages, last)
    BY <1>7, <2>1, LastChanged
  <2>3. PICK v : v = [pages EXCEPT ![Len(pages)] = last]
    OBVIOUS
  <2>4. v \in Seq(TablePages) /\ Len(v) = N /\ v[N] = last /\ \A i \in 1 .. N : i # N => v[i] = pages[i]
    <3>1. LastIs(v, pages, last)
      BY <2>2, <2>3, Zenon
    <3> QED BY <3>1, Zenon DEF LastIs
  <2>5. pages' = Append(v, n)
    BY <1>5, <2>3, Zenon
  <2>6. /\ Append(v, n) \in Seq(TablePages) /\ Len(Append(v, n)) = Len(v) + 1 /\ Append(v, n)[Len(v) + 1] = n
        /\ \A i \in 1 .. Len(v) : Append(v, n)[i] = v[i]
    BY <2>4, AppendProperties
  <2>7. /\ pages' \in Seq(TablePages) /\ Len(pages') = N + 1 /\ pages'[N + 1] = n
        /\ \A i \in 1 .. N : pages'[i] = v[i]
    BY <2>4, <2>5, <2>6, Zenon
  <2>8. N \in 1 .. N
    BY <1>1
  <2>9. pages'[N] = last /\ \A i \in 1 .. N : i # N => pages'[i] = pages[i]
    BY <2>4, <2>7, <2>8, ZenonT(60)
  <2> QED BY <2>7, <2>9, Zenon
<1>9. \A i \in 1 .. N : i # N => pages[i].next = i + 1
  BY <1>1 DEF HeapGood, Chain
<1> QED BY <1>1, <1>7, <1>8, <1>9, ZenonT(30) DEF PageBehind

\* A new page behind the last one, empty or with one row.
LEMMA PageAdded ==
  ASSUME HeapGood, NEW n, Placed(n), n.next = INVALID_PAGE_ID, Len(pages) < MaxHeapPages,
         PageBehind(n),
         \A r \in DOMAIN stored : r \in DOMAIN stored' /\ stored'[r] = stored[r],
         \/ DOMAIN n.slots = {} /\ DOMAIN stored' = DOMAIN stored
         \/ /\ DOMAIN n.slots = {1} /\ DOMAIN stored' = DOMAIN stored \cup {<<Len(pages) + 1, 1>>}
            /\ n.slots[1].length > 0 /\ PageGet(n, 1) = stored'[<<Len(pages) + 1, 1>>]
  PROVE  HeapGood' /\ RidsStay
<1> DEFINE N == Len(pages)
<1>1. /\ pages \in Seq(TablePages) /\ N \in 1 .. MaxHeapPages
      /\ DOMAIN pages = 1 .. N /\ N \in Nat \ {0} /\ MaxHeapPages \in Nat
  BY HeapAssumption DEF HeapGood
<1>2. n \in TablePages
  BY DEF Placed
<1>3. /\ pages' \in Seq(TablePages) /\ Len(pages') = N + 1 /\ DOMAIN pages' = 1 .. N + 1
      /\ pages'[N + 1] = n
  BY DEF PageBehind
<1>4. ASSUME NEW i \in 1 .. N
      PROVE  /\ pages'[i].next = i + 1 /\ pages'[i].slots = pages[i].slots
             /\ pages'[i].fsp = pages[i].fsp /\ pages'[i].bytes = pages[i].bytes
  BY DEF PageBehind
<1>5. Chain'
  BY <1>1, <1>3, <1>4 DEF Chain
<1>6. \A i \in 1 .. N : \A s : PageGet(pages'[i], s) = PageGet(pages[i], s)
  BY <1>4 DEF PageGet
<1>7. \A i \in DOMAIN pages' : Placed(pages'[i])
  <2>1. ASSUME NEW i \in 1 .. N PROVE Placed(pages'[i])
    <3>1. pages'[i] \in TablePages /\ Placed(pages[i])
      BY <1>1, <1>3 DEF HeapGood
    <3> QED BY <1>4, <3>1 DEF Placed
  <2> QED BY <1>1, <1>3, <2>1
<1>8. RidsStay
  <2> SUFFICES ASSUME NEW r, IsRid(r) PROVE IsRid(r)'
    BY DEF RidsStay
  <2>1. r \in Nat \X Nat /\ r[1] \in 1 .. N /\ r[2] \in DOMAIN pages[r[1]].slots
    BY <1>1 DEF IsRid
  <2> QED BY <1>1, <1>3, <1>4, <2>1 DEF IsRid
<1>9. \A r \in DOMAIN stored : r \in Nat \X Nat /\ r[1] \in 1 .. N
  BY <1>1 DEF HeapGood, IsRid
<1>10. ASSUME NEW i \in DOMAIN pages', NEW x \in DOMAIN pages'[i].slots PROVE Holds(i, x)'
  <2>1. CASE i = N + 1
    <3>1. x \in DOMAIN n.slots /\ pages'[i] = n
      BY <1>3, <2>1
    <3>2. x = 1 /\ <<i, x>> \in DOMAIN stored' /\ n.slots[x].length > 0 /\ PageGet(n, x) = stored'[<<i, x>>]
      BY <2>1, <3>1
    <3> QED BY <3>1, <3>2 DEF Holds
  <2>2. CASE i # N + 1
    <3>1. i \in 1 .. N
      BY <1>1, <1>3, <2>2
    <3>2. x \in DOMAIN pages[i].slots
      BY <1>4, <3>1
    <3>3. Holds(i, x)
      BY <1>1, <3>1, <3>2 DEF HeapGood
    <3>4. <<i, x>> # <<N + 1, 1>>
      BY <2>2
    <3>5. <<i, x>> \in DOMAIN stored' <=> <<i, x>> \in DOMAIN stored
      BY <3>4
    <3>6. <<i, x>> \in DOMAIN stored => stored'[<<i, x>>] = stored[<<i, x>>]
      OBVIOUS
    <3> QED BY <1>4, <1>6, <3>1, <3>3, <3>5, <3>6 DEF Holds
  <2> QED BY <2>1, <2>2
<1>11. ASSUME NEW r \in DOMAIN stored' PROVE IsRid(r)'
  <2>1. CASE r \in DOMAIN stored
    BY <1>8, <2>1 DEF HeapGood, RidsStay
  <2>2. CASE r \notin DOMAIN stored
    <3>1. r = <<N + 1, 1>> /\ DOMAIN n.slots = {1}
      BY <2>2
    <3> QED BY <1>1, <1>3, <3>1 DEF IsRid
  <2> QED BY <2>1, <2>2
<1> QED BY <1>1, <1>3, <1>5, <1>7, <1>8, <1>10, <1>11 DEF HeapGood

-----------------------------------------------------------------------------
(* The writes of the session. *)

\* A change of one page keeps the heap intact when the new page is.
LEMMA IntactKept ==
  ASSUME HeapGood, Intact, NEW p \in DOMAIN pages, NEW n, ~Overrun(n), pages' = [pages EXCEPT ![p] = n]
  PROVE  Intact'
<1>1. DOMAIN pages' = DOMAIN pages /\ \A i \in DOMAIN pages : pages'[i] = IF i = p THEN n ELSE pages[i]
  BY DEF HeapGood
<1> QED BY <1>1 DEF Intact

\* What Store records.
LEMMA StoreEffect ==
  ASSUME NEW rid, NEW d, NEW size, Store(rid, d, size)
  PROVE  /\ DOMAIN stored' = DOMAIN stored \cup {rid}
         /\ stored'[rid] = [i \in 1 .. size |-> d]
         /\ \A r \in DOMAIN stored : r # rid => stored'[r] = stored[r]
BY DEF Store

\* InsertTuple into a page of the list.
LEMMA InsertInPageStep ==
  ASSUME HeapGood, Intact, NEW d \in Data, NEW size \in Sizes, InsertInPage(d, size)
  PROVE  HeapGood' /\ Intact' /\ RidsStay
<1> DEFINE p == FirstFit(size)
           s == Len(pages[p].slots) + 1
<1>1. p \in DOMAIN pages /\ Fits(pages[p], size)
  BY FirstFitValue DEF InsertInPage
<1>2. PICK n : n = PageInsert(pages[p], d, size)
  OBVIOUS
<1>3. pages' = [pages EXCEPT ![p] = n]
  BY <1>2 DEF InsertInPage
<1>4. Store(<<p, s>>, d, size)
  BY DEF InsertInPage
<1> HIDE DEF p
<1>5. Placed(pages[p]) /\ ~Overrun(pages[p]) /\ size \in Nat \ {0}
  BY <1>1, HeapAssumption DEF HeapGood, Intact
<1>6. Placed(n) /\ ~Overrun(n) /\ OnlySlot(pages[p], n, s) /\ HoldsTuple(n, s, d, size)
  BY <1>1, <1>2, <1>5, PageInsertEffect
<1>7. s \in Nat
  BY <1>5, PageFields DEF Placed
<1> HIDE DEF s
<1>8. /\ DOMAIN stored' = DOMAIN stored \cup {<<p, s>>}
      /\ stored'[<<p, s>>] = [i \in 1 .. size |-> d]
      /\ \A r \in DOMAIN stored : r # <<p, s>> => stored'[r] = stored[r]
  BY <1>4, StoreEffect
<1>9. s \in DOMAIN n.slots /\ n.slots[s].length > 0 /\ PageGet(n, s) = stored'[<<p, s>>] /\ <<p, s>> \in DOMAIN stored'
  BY <1>5, <1>6, <1>8 DEF HoldsTuple
<1>10. HeapGood' /\ RidsStay
  BY <1>1, <1>3, <1>6, <1>7, <1>8, <1>9, SlotChange
<1>11. Intact'
  BY <1>1, <1>3, <1>6, IntactKept
<1> QED BY <1>10, <1>11

\* A page as Init leaves it.
LEMMA NewPageGood ==
  /\ Placed(NewTablePage) /\ ~Overrun(NewTablePage) /\ NewTablePage.next = INVALID_PAGE_ID
  /\ NewTablePage.slots = <<>>
<1>1. NewTablePage \in TablePages
  BY TablePageAssumption DEF NewTablePage, TablePages, INVALID_PAGE_ID
<1>2. NewTablePage.slots = <<>> /\ NewTablePage.fsp = PageSize /\ NewTablePage.next = INVALID_PAGE_ID
  BY DEF NewTablePage
<1>3. ~Overrun(NewTablePage)
  BY <1>2, TablePageAssumption DEF Overrun, SlotEnd
<1>4. Placed(NewTablePage)
  BY <1>1, <1>2 DEF Placed
<1> QED BY <1>2, <1>3, <1>4

\* InsertTuple into a new page.
LEMMA InsertInNewPageStep ==
  ASSUME HeapGood, Intact, NEW d \in Data, NEW size \in Sizes, InsertInNewPage(d, size)
  PROVE  HeapGood' /\ Intact' /\ RidsStay
<1> DEFINE N == Len(pages)
           fits == Fits(NewTablePage, size)
<1>1. PICK n : n = IF fits THEN PageInsert(NewTablePage, d, size) ELSE NewTablePage
  OBVIOUS
<1>2. pages' = Append(Linked(N + 1), n) /\ N < MaxHeapPages
  BY <1>1 DEF InsertInNewPage
<1>3. IF fits THEN Store(<<N + 1, 1>>, d, size) ELSE stored' = stored
  BY DEF InsertInNewPage
<1>4. size \in Nat \ {0}
  BY HeapAssumption
<1>5. fits => /\ Placed(n) /\ ~Overrun(n) /\ OnlySlot(NewTablePage, n, 1) /\ HoldsTuple(n, 1, d, size)
  <2>1. Len(NewTablePage.slots) + 1 = 1
    BY NewPageGood
  <2> QED BY <1>1, <1>4, <2>1, NewPageGood, PageInsertEffect
<1>6. Placed(n) /\ ~Overrun(n) /\ n.next = INVALID_PAGE_ID
  BY <1>1, <1>5, NewPageGood DEF OnlySlot
<1>7. \/ DOMAIN n.slots = {} /\ ~fits
      \/ DOMAIN n.slots = {1} /\ fits /\ n.slots[1].length > 0 /\ PageGet(n, 1) = [i \in 1 .. size |-> d]
  <2>1. CASE fits
    BY <1>4, <1>5, <2>1, NewPageGood DEF OnlySlot, HoldsTuple
  <2>2. CASE ~fits
    BY <1>1, <2>2, NewPageGood
  <2> QED BY <2>1, <2>2
<1>8. n \in TablePages
  BY <1>6 DEF Placed
<1>9. PageBehind(n)
  BY <1>2, <1>8, LinkedBehind
<1> HIDE DEF fits
<1>10. \A r \in DOMAIN stored : r # <<N + 1, 1>>
  BY DEF HeapGood, IsRid
<1>11. fits => /\ DOMAIN stored' = DOMAIN stored \cup {<<N + 1, 1>>}
               /\ stored'[<<N + 1, 1>>] = [i \in 1 .. size |-> d]
               /\ \A r \in DOMAIN stored : stored'[r] = stored[r]
  BY <1>3, <1>10, StoreEffect
<1>12. /\ \A r \in DOMAIN stored : r \in DOMAIN stored' /\ stored'[r] = stored[r]
       /\ \/ DOMAIN n.slots = {} /\ DOMAIN stored' = DOMAIN stored
          \/ /\ DOMAIN n.slots = {1} /\ DOMAIN stored' = DOMAIN stored \cup {<<N + 1, 1>>}
             /\ n.slots[1].length > 0 /\ PageGet(n, 1) = stored'[<<N + 1, 1>>]
  BY <1>3, <1>7, <1>11
<1>13. HeapGood' /\ RidsStay
  BY <1>2, <1>6, <1>9, <1>12, PageAdded
<1>14. Intact'
  <2>1. \A i \in 1 .. N : ~Overrun(pages'[i])
    BY <1>9 DEF PageBehind, Intact, Overrun, SlotEnd, HeapGood
  <2>2. DOMAIN pages' = 1 .. N + 1 /\ pages'[N + 1] = n /\ N \in Nat
    BY <1>9 DEF PageBehind, HeapGood
  <2>3. ASSUME NEW i \in 1 .. N + 1 PROVE ~Overrun(pages'[i])
    BY <1>6, <2>1, <2>2
  <2> QED BY <2>2, <2>3 DEF Intact
<1> QED BY <1>13, <1>14

\* UpdateTuple: unless the page overruns, the heap stays as it must.
LEMMA UpdateTupleStep ==
  ASSUME HeapGood, Intact, NEW d \in Data, NEW size \in Sizes, UpdateTuple(d, size)
  PROVE  /\ Intact' => HeapGood' /\ RidsStay /\ DOMAIN stored' = DOMAIN stored
         /\ ~Intact' => /\ cur \in DOMAIN stored
                        /\ FreeSpaceRemaining(pages[cur[1]]) < size
                        /\ TupleSize(pages'[cur[1]], cur[2]) = size
<1> DEFINE p == cur[1]
           s == cur[2]
<1>1. cur \in DOMAIN stored /\ IsRid(cur) /\ Store(cur, d, size)
  BY DEF UpdateTuple, HeapGood
<1>2. cur = <<p, s>> /\ p \in DOMAIN pages /\ s \in Nat /\ s \in DOMAIN pages[p].slots
  BY <1>1 DEF IsRid
<1>3. PICK n : n = PageUpdate(pages[p], s, d, size)
  OBVIOUS
<1>4. pages' = [pages EXCEPT ![p] = n]
  BY <1>3 DEF UpdateTuple
<1> HIDE DEF p, s
<1>5. Placed(pages[p]) /\ size \in Nat \ {0}
  BY <1>2, HeapAssumption DEF HeapGood
<1>6. /\ Overrun(n) <=> FreeSpaceRemaining(pages[p]) < size
      /\ n.slots[s].length = size
      /\ ~Overrun(n) => Placed(n) /\ OnlySlot(pages[p], n, s) /\ HoldsTuple(n, s, d, size)
  BY <1>2, <1>3, <1>5, PageUpdateEffect
<1>7. pages'[p] = n /\ p \in DOMAIN pages'
  BY <1>2, <1>4 DEF HeapGood
<1>8. /\ DOMAIN stored' = DOMAIN stored
      /\ stored'[cur] = [i \in 1 .. size |-> d]
      /\ \A r \in DOMAIN stored : r # cur => stored'[r] = stored[r]
  <2>1. /\ DOMAIN stored' = DOMAIN stored \cup {cur}
        /\ stored'[cur] = [i \in 1 .. size |-> d]
        /\ \A r \in DOMAIN stored : r # cur => stored'[r] = stored[r]
    BY <1>1, StoreEffect
  <2> QED BY <1>1, <2>1
<1>9. ASSUME Intact' PROVE HeapGood' /\ RidsStay /\ DOMAIN stored' = DOMAIN stored
  <2>1. ~Overrun(n)
    BY <1>7, <1>9 DEF Intact
  <2>2. /\ s \in DOMAIN n.slots /\ n.slots[s].length > 0
        /\ PageGet(n, s) = stored'[<<p, s>>] /\ <<p, s>> \in DOMAIN stored'
    BY <1>1, <1>2, <1>5, <1>6, <1>8, <2>1 DEF HoldsTuple
  <2>3. /\ DOMAIN stored' \cup {<<p, s>>} = DOMAIN stored \cup {<<p, s>>}
        /\ \A r \in DOMAIN stored : r # <<p, s>> => stored'[r] = stored[r]
    BY <1>2, <1>8
  <2>4. HeapGood' /\ RidsStay
    BY <1>2, <1>4, <1>6, <2>1, <2>2, <2>3, SlotChange
  <2> QED BY <1>8, <2>4
<1>10. ASSUME ~Intact'
       PROVE  /\ FreeSpaceRemaining(pages[p]) < size
              /\ TupleSize(pages'[p], s) = size
  <2>1. Overrun(n)
    BY <1>2, <1>4, <1>10, IntactKept
  <2> QED BY <1>6, <1>7, <2>1 DEF TupleSize
<1> QED BY <1>1, <1>9, <1>10 DEF p, s

\* MarkDelete: the row is gone, the other rows are as before.
LEMMA DeleteTupleStep ==
  ASSUME HeapGood, Intact, DeleteTuple
  PROVE  HeapGood' /\ Intact' /\ RidsStay /\ DOMAIN stored' = DOMAIN stored \ {cur}
<1> DEFINE p == cur[1]
           s == cur[2]
<1>1. cur \in DOMAIN stored /\ IsRid(cur)
  BY DEF DeleteTuple, HeapGood
<1>2. cur = <<p, s>> /\ p \in DOMAIN pages /\ s \in Nat /\ s \in DOMAIN pages[p].slots
  BY <1>1 DEF IsRid
<1>3. PICK n : n = PageDelete(pages[p], s)
  OBVIOUS
<1>4. pages' = [pages EXCEPT ![p] = n]
  BY <1>3 DEF DeleteTuple
<1>5. stored' = [r \in DOMAIN stored \ {cur} |-> stored[r]]
  BY DEF DeleteTuple
<1> HIDE DEF p, s
<1>6. Placed(pages[p]) /\ ~Overrun(pages[p])
  BY <1>2 DEF HeapGood, Intact
<1>7. /\ Placed(n) /\ OnlySlot(pages[p], n, s)
      /\ DOMAIN n.slots = DOMAIN pages[p].slots /\ Len(n.slots) = Len(pages[p].slots)
      /\ n.slots[s].length = 0 /\ n.fsp = pages[p].fsp
  BY <1>2, <1>3, <1>6, PageDeleteEffect
<1>8. ~Overrun(n)
  BY <1>6, <1>7 DEF Overrun, SlotEnd
<1>9. /\ DOMAIN stored' = DOMAIN stored \ {cur}
      /\ \A r \in DOMAIN stored : r # cur => stored'[r] = stored[r]
  BY <1>5
<1>10. /\ DOMAIN stored' \cup {<<p, s>>} = DOMAIN stored \cup {<<p, s>>}
       /\ \A r \in DOMAIN stored : r # <<p, s>> => stored'[r] = stored[r]
       /\ <<p, s>> \notin DOMAIN stored'
  BY <1>1, <1>2, <1>9
<1>11. HeapGood' /\ RidsStay
  BY <1>2, <1>4, <1>7, <1>10, SlotChange
<1>12. Intact'
  BY <1>2, <1>4, <1>8, IntactKept
<1> QED BY <1>9, <1>11, <1>12

-----------------------------------------------------------------------------
(* The scan. *)

\* Before and NotAfter are an order of the RIDs.
LEMMA RidOrder ==
  /\ \A x, y, z \in Nat \X Nat : Before(x, y) /\ NotAfter(y, z) => Before(x, z)
  /\ \A x, y, z \in Nat \X Nat : Before(x, y) /\ Before(y, z) => Before(x, z)
  /\ \A x, y \in Nat \X Nat : Before(x, y) => NotAfter(x, y) /\ x # y
  /\ \A x, y \in Nat \X Nat : NotAfter(x, y) => Before(x, y) \/ x = y
  /\ \A x, y \in Nat \X Nat : Before(x, y) <=> NotAfter(<<x[1], x[2] + 1>>, y)
BY DEF Before, NotAfter

\* The rows and positions of a session are RIDs.
LEMMA RidsTyped ==
  ASSUME HeapGood
  PROVE  /\ \A r \in DOMAIN stored : r \in Nat \X Nat /\ r # NoRid /\ IsRid(r)
         /\ \A r : IsRid(r) => r \in Nat \X Nat /\ r # NoRid
<1>1. \A r : IsRid(r) => r \in Nat \X Nat /\ r # NoRid
  BY DEF IsRid, NoRid, INVALID_PAGE_ID, HeapGood
<1> QED BY <1>1 DEF HeapGood

\* Begin stands on the first row.
LEMMA BeginStep ==
  ASSUME HeapGood, Intact, Begin
  PROVE  (ScanGood /\ DueGood)'
<1>1. /\ cur' = NoRid /\ seen' = <<>> /\ due' = DOMAIN stored /\ pages' = pages /\ stored' = stored
      /\ \/ iter' = FirstLive(1, 1) /\ refused' = FALSE
         \/ iter' = NoRid /\ refused' = TRUE
  BY DEF Begin, first_page_id_
<1>2. 1 \in DOMAIN pages
  BY DEF HeapGood
<1>3. \/ FirstLive(1, 1) = NoRid /\ \A x \in DOMAIN stored : ~NotAfter(<<1, 1>>, x)
      \/ /\ FirstLive(1, 1) \in DOMAIN stored /\ FirstLive(1, 1) # NoRid
         /\ \A x \in DOMAIN stored : NotAfter(<<1, 1>>, x) => NotAfter(FirstLive(1, 1), x)
  BY <1>2, FirstLiveValue
<1>4. \A x \in DOMAIN stored : NotAfter(<<1, 1>>, x)
  <2> SUFFICES ASSUME NEW x \in DOMAIN stored PROVE NotAfter(<<1, 1>>, x)
    OBVIOUS
  <2>1. x[1] \in DOMAIN pages /\ x[2] \in DOMAIN pages[x[1]].slots
    BY DEF HeapGood, IsRid
  <2>2. x[1] \in Nat /\ x[1] >= 1
    BY <2>1 DEF HeapGood
  <2>3. pages[x[1]] \in TablePages
    BY <2>1 DEF HeapGood
  <2>4. x[2] \in Nat /\ x[2] >= 1
    BY <2>1, <2>3, PageFields
  <2> QED BY <2>2, <2>4 DEF NotAfter
<1>5. ScanGood'
  BY <1>1, <1>3 DEF ScanGood
<1>6. DueGood'
  BY <1>1, <1>3, <1>4 DEF DueGood
<1> QED BY <1>5, <1>6

\* Next reads the row and moves to the first one behind it.
LEMMA ScanNextStep ==
  ASSUME HeapGood, Intact, ScanGood, DueGood, seen \in Seq(Nat \X Nat), Increasing(seen), ScanNext
  PROVE  (ScanGood /\ DueGood)' /\ seen' \in Seq(Nat \X Nat) /\ Increasing(seen')
<1>1. /\ cur' = iter /\ seen' = Append(seen, iter) /\ pages' = pages /\ stored' = stored /\ due' = due
      /\ \/ iter' = FirstLive(iter[1], iter[2] + 1) /\ refused' = refused
         \/ iter' = NoRid /\ refused' = TRUE
      /\ iter # NoRid
  BY DEF ScanNext, Advance
<1>2. iter \in DOMAIN stored /\ iter \in Nat \X Nat /\ IsRid(iter)
  BY <1>1, RidsTyped DEF ScanGood
<1>3. iter[1] \in DOMAIN pages /\ iter[2] + 1 \in Nat \ {0}
  BY <1>2 DEF IsRid
<1> DEFINE r == FirstLive(iter[1], iter[2] + 1)
<1>4. \/ r = NoRid /\ \A x \in DOMAIN stored : ~NotAfter(<<iter[1], iter[2] + 1>>, x)
      \/ /\ r \in DOMAIN stored /\ r # NoRid /\ NotAfter(<<iter[1], iter[2] + 1>>, r)
         /\ \A x \in DOMAIN stored : NotAfter(<<iter[1], iter[2] + 1>>, x) => NotAfter(r, x)
  BY <1>3, FirstLiveValue
<1> HIDE DEF r
<1>5. \/ r = NoRid /\ \A x \in DOMAIN stored : ~Before(iter, x)
      \/ /\ r \in DOMAIN stored /\ r # NoRid /\ Before(iter, r)
         /\ \A x \in DOMAIN stored : Before(iter, x) => NotAfter(r, x)
  BY <1>2, <1>4, RidOrder, RidsTyped
<1>6. iter' = NoRid \/ iter' = r
  BY <1>1 DEF r
<1>7. /\ Len(seen) \in Nat /\ DOMAIN seen = 1 .. Len(seen)
      /\ seen' \in Seq(Nat \X Nat) /\ DOMAIN seen' = 1 .. Len(seen) + 1
      /\ seen'[Len(seen) + 1] = iter /\ \A i \in DOMAIN seen : seen'[i] = seen[i] /\ seen[i] \in Nat \X Nat
  BY <1>1, <1>2
<1>8. \A i \in DOMAIN seen : Before(seen[i], iter)
  BY <1>1 DEF ScanGood
<1>9. Increasing(seen')
  <2> SUFFICES ASSUME NEW i \in DOMAIN seen', NEW j \in DOMAIN seen', i < j PROVE Before(seen'[i], seen'[j])
    BY DEF Increasing
  <2>1. i \in DOMAIN seen
    BY <1>7
  <2>2. CASE j = Len(seen) + 1
    BY <1>7, <1>8, <2>1, <2>2
  <2>3. CASE j # Len(seen) + 1
    <3>1. j \in DOMAIN seen
      BY <1>7, <2>3
    <3> QED BY <1>7, <2>1, <3>1 DEF Increasing
  <2> QED BY <2>2, <2>3
<1>10. ScanGood'
  <2>1. iter' = NoRid \/ iter' \in DOMAIN stored'
    BY <1>1, <1>5, <1>6
  <2>2. IsRid(cur)'
    BY <1>1, <1>2 DEF IsRid
  <2>3. ASSUME iter' # NoRid
        PROVE  Before(cur', iter') /\ \A i \in DOMAIN seen' : Before(seen'[i], iter')
    <3>1. iter' \in DOMAIN stored /\ Before(iter, iter') /\ iter' \in Nat \X Nat
      BY <1>5, <1>6, <2>3, RidsTyped
    <3>2. ASSUME NEW i \in DOMAIN seen' PROVE Before(seen'[i], iter')
      <4>1. CASE i = Len(seen) + 1
        BY <1>7, <3>1, <4>1
      <4>2. CASE i # Len(seen) + 1
        <5>1. i \in DOMAIN seen /\ seen'[i] = seen[i] /\ Before(seen[i], iter) /\ seen[i] \in Nat \X Nat
          <6>1. i \in DOMAIN seen
            BY <1>7, <4>2
          <6>2. \A k \in DOMAIN seen : seen'[k] = seen[k] /\ seen[k] \in Nat \X Nat
            BY <1>7, Zenon
          <6> QED BY <1>8, <6>1, <6>2, Zenon
        <5> QED BY <1>2, <3>1, <5>1, RidOrder
      <4> QED BY <4>1, <4>2
    <3> QED BY <1>1, <3>1, <3>2
  <2> QED BY <2>1, <2>2, <2>3 DEF ScanGood
<1>11. DueGood'
  <2>1. due' \subseteq DOMAIN stored'
    BY <1>1 DEF DueGood
  <2>2. ASSUME ~refused', NEW x \in due'
        PROVE  \/ \E i \in DOMAIN seen' : seen'[i] = x
               \/ iter' # NoRid /\ NotAfter(iter', x)
    <3>1. iter' = r /\ ~refused
      BY <1>1, <2>2 DEF r
    <3>2. x \in DOMAIN stored /\ x \in Nat \X Nat
      BY <1>1, RidsTyped DEF DueGood
    <3>3. CASE \E i \in DOMAIN seen : seen[i] = x
      BY <1>7, <3>3
    <3>4. CASE NotAfter(iter, x)
      <4>1. CASE x = iter
        BY <1>7, <4>1
      <4>2. CASE x # iter
        <5>1. Before(iter, x)
          BY <1>2, <3>2, <3>4, <4>2, RidOrder
        <5> QED BY <1>5, <3>1, <3>2, <5>1
      <4> QED BY <4>1, <4>2
    <3> QED BY <1>1, <3>1, <3>3, <3>4 DEF DueGood
  <2> QED BY <2>1, <2>2 DEF DueGood
<1> QED BY <1>7, <1>9, <1>10, <1>11

\* A write keeps what holds of the scan if it keeps the row the iterator stands on
\* and the rows that are due.
LEMMA ScanKept ==
  ASSUME ScanGood, DueGood, RidsStay, UNCHANGED <<iter, cur, seen, refused>>,
         due' \subseteq due, due' \subseteq DOMAIN stored', iter = NoRid \/ iter \in DOMAIN stored'
  PROVE  (ScanGood /\ DueGood)'
<1>1. ScanGood'
  <2>1. cur = NoRid \/ IsRid(cur)'
    BY DEF ScanGood, RidsStay
  <2> QED BY <2>1 DEF ScanGood
<1>2. DueGood'
  BY DEF DueGood
<1> QED BY <1>1, <1>2

-----------------------------------------------------------------------------
(* The invariant and what follows from it. *)

LEMMA HeapInitInv == HeapInit => HeapInv
<1> SUFFICES ASSUME HeapInit PROVE HeapInv
  OBVIOUS
<1>1. /\ pages = <<NewTablePage>> /\ iter = NoRid /\ cur = NoRid /\ stored = <<>>
      /\ seen = <<>> /\ due = {}
  BY DEF HeapInit
<1>2. /\ pages \in Seq(TablePages) /\ Len(pages) = 1 /\ DOMAIN pages = {1} /\ pages[1] = NewTablePage
  BY <1>1, NewPageGood DEF Placed
<1>3. DOMAIN stored = {} /\ DOMAIN seen = {} /\ seen \in Seq(Nat \X Nat)
  BY <1>1
<1>4. HeapGood
  <2>1. Chain
    BY <1>2, NewPageGood DEF Chain
  <2>2. \A i \in DOMAIN pages : Placed(pages[i]) /\ DOMAIN pages[i].slots = {}
    BY <1>2, NewPageGood
  <2> QED BY <1>2, <1>3, <2>1, <2>2, HeapAssumption DEF HeapGood
<1>5. ScanGood /\ DueGood
  BY <1>1 DEF ScanGood, DueGood
<1> QED BY <1>3, <1>4, <1>5 DEF HeapInv, Increasing

\* What a step does to an intact heap: only an update of the scan's row by a tuple
\* larger than the free space of its page overruns.
LEMMA HeapStep ==
  ASSUME HeapInv, Intact, HeapNext
  PROVE  /\ HeapInv'
         /\ ~Intact' => UpdateOverruns
<1>1. HeapGood /\ ScanGood /\ DueGood /\ seen \in Seq(Nat \X Nat) /\ Increasing(seen)
  BY DEF HeapInv
<1>2. ASSUME pages' = pages, stored' = stored PROVE Intact' /\ HeapGood'
  BY <1>1, <1>2 DEF Intact, HeapGood, Chain, Holds, IsRid
<1>3. CASE Begin
  <2>1. pages' = pages /\ stored' = stored /\ seen' = <<>>
    BY <1>3 DEF Begin
  <2>2. (ScanGood /\ DueGood)'
    BY <1>1, <1>3, BeginStep
  <2>3. seen' \in Seq(Nat \X Nat) /\ Increasing(seen')
    BY <2>1 DEF Increasing
  <2> QED BY <1>2, <2>1, <2>2, <2>3 DEF HeapInv
<1>4. CASE ScanNext
  <2>1. pages' = pages /\ stored' = stored
    BY <1>4 DEF ScanNext
  <2>2. (ScanGood /\ DueGood)' /\ seen' \in Seq(Nat \X Nat) /\ Increasing(seen')
    BY <1>1, <1>4, ScanNextStep
  <2> QED BY <1>2, <2>1, <2>2 DEF HeapInv
<1>5. CASE ScanThrows
  <2>1. /\ pages' = pages /\ stored' = stored /\ seen' = seen /\ due' = due
        /\ iter' = NoRid /\ cur' = NoRid /\ refused' = TRUE
    BY <1>5 DEF ScanThrows
  <2>2. (ScanGood /\ DueGood)'
    BY <1>1, <2>1 DEF ScanGood, DueGood
  <2> QED BY <1>1, <1>2, <2>1, <2>2 DEF HeapInv
<1>6. ASSUME NEW d \in Data, NEW size \in Sizes, InsertTuple(d, size) PROVE HeapInv' /\ Intact'
  <2>1. HeapGood' /\ Intact' /\ RidsStay
    BY <1>1, <1>6, InsertInPageStep, InsertInNewPageStep DEF InsertTuple
  <2>2. UNCHANGED <<iter, cur, seen, due, refused>>
    BY <1>6 DEF InsertTuple, InsertInPage, InsertInNewPage
  <2>3. DOMAIN stored \subseteq DOMAIN stored'
    <3>1. CASE InsertInPage(d, size)
      <4>1. Store(<<FirstFit(size), Len(pages[FirstFit(size)].slots) + 1>>, d, size)
        BY <3>1 DEF InsertInPage
      <4> QED BY <4>1, StoreEffect
    <3>2. CASE InsertInNewPage(d, size)
      <4>1. Store(<<Len(pages) + 1, 1>>, d, size) \/ stored' = stored
        BY <3>2 DEF InsertInNewPage
      <4> QED BY <4>1, StoreEffect
    <3> QED BY <1>6, <3>1, <3>2 DEF InsertTuple
  <2>4. due' \subseteq due /\ due' \subseteq DOMAIN stored' /\ (iter = NoRid \/ iter \in DOMAIN stored')
    BY <1>1, <2>2, <2>3 DEF ScanGood, DueGood
  <2>5. (ScanGood /\ DueGood)'
    BY <1>1, <2>1, <2>2, <2>4, ScanKept
  <2> QED BY <1>1, <2>1, <2>2, <2>5 DEF HeapInv
<1>7. ASSUME NEW d \in Data, NEW size \in Sizes, UpdateTuple(d, size)
      PROVE  /\ HeapInv'
             /\ ~Intact' => /\ cur \in DOMAIN stored
                            /\ FreeSpaceRemaining(pages[cur[1]]) < size
                            /\ TupleSize(pages'[cur[1]], cur[2]) = size
  <2>1. UNCHANGED <<iter, cur, seen, due, refused>>
    BY <1>7 DEF UpdateTuple
  <2>2. Intact' => HeapGood' /\ RidsStay /\ DOMAIN stored' = DOMAIN stored
    BY <1>1, <1>7, UpdateTupleStep
  <2>3. ASSUME Intact' PROVE (ScanGood /\ DueGood)'
    <3>1. due' \subseteq due /\ due' \subseteq DOMAIN stored' /\ (iter = NoRid \/ iter \in DOMAIN stored')
      BY <1>1, <2>1, <2>2, <2>3 DEF ScanGood, DueGood
    <3> QED BY <1>1, <2>1, <2>2, <2>3, <3>1, ScanKept
  <2>4. HeapInv'
    BY <1>1, <2>1, <2>2, <2>3 DEF HeapInv
  <2> QED BY <1>1, <1>7, <2>4, UpdateTupleStep
<1>8. CASE DeleteTuple
  <2>1. UNCHANGED <<iter, cur, seen, refused>> /\ due' = due \ {cur} /\ cur \in DOMAIN stored
    BY <1>8 DEF DeleteTuple
  <2>2. HeapGood' /\ Intact' /\ RidsStay /\ DOMAIN stored' = DOMAIN stored \ {cur}
    BY <1>1, <1>8, DeleteTupleStep
  <2>3. iter = NoRid \/ iter # cur
    <3>1. cur # NoRid /\ cur \in Nat \X Nat
      BY <1>1, <2>1, RidsTyped
    <3>2. iter # NoRid => Before(cur, iter) /\ iter \in Nat \X Nat
      BY <1>1, <3>1, RidsTyped DEF ScanGood
    <3> QED BY <3>1, <3>2, RidOrder
  <2>4. due' \subseteq due /\ due' \subseteq DOMAIN stored' /\ (iter = NoRid \/ iter \in DOMAIN stored')
    BY <1>1, <2>1, <2>2, <2>3 DEF ScanGood, DueGood
  <2>5. (ScanGood /\ DueGood)'
    BY <1>1, <2>1, <2>2, <2>4, ScanKept
  <2> QED BY <1>1, <2>1, <2>2, <2>5 DEF HeapInv
<1>9. CASE Unsuccessful
  <2>1. UNCHANGED heapVars
    BY <1>9 DEF Unsuccessful
  <2> QED BY <1>1, <1>2, <2>1 DEF heapVars, HeapInv, ScanGood, DueGood, IsRid
<1> QED BY <1>2, <1>3, <1>4, <1>5, <1>6, <1>7, <1>8, <1>9 DEF HeapNext, UpdateOverruns

\* After an overrun the model stops.
LEMMA OverrunStays ==
  ASSUME ~Intact, [HeapNext]_heapVars
  PROVE  UNCHANGED heapVars
BY DEF HeapNext, Begin, ScanNext, ScanThrows, InsertTuple, InsertInPage, InsertInNewPage, UpdateTuple,
       DeleteTuple, Unsuccessful

LEMMA HeapStutter == HeapInv /\ UNCHANGED heapVars => HeapInv'
BY DEF heapVars, HeapInv, Intact, HeapGood, Chain, Holds, IsRid, ScanGood, DueGood

LEMMA HeapInvariant == HeapSpec => []HeapInv
<1>1. HeapInv /\ [HeapNext]_heapVars => HeapInv'
  BY HeapStep, OverrunStays, HeapStutter
<1> QED BY <1>1, HeapInitInv, PTL DEF HeapSpec

\* The types of RowsReadBack's first part, from the invariant.
LEMMA HeapTyped == HeapInv => HeapTypeOK
<1> SUFFICES ASSUME HeapInv, Intact
             PROVE  /\ \A i \in DOMAIN pages : pages[i] \in TablePages
                    /\ {iter, cur} \subseteq (0 .. MaxHeapPages) \X (0 .. PageSize)
                    /\ due \subseteq DOMAIN stored
  BY DEF HeapTypeOK
<1>1. HeapGood /\ ScanGood /\ DueGood
  BY DEF HeapInv
<1>2. \A i \in DOMAIN pages : pages[i] \in TablePages
  BY <1>1 DEF HeapGood
<1>3. ASSUME NEW r, IsRid(r) PROVE r \in (0 .. MaxHeapPages) \X (0 .. PageSize)
  <2>1. r \in Nat \X Nat /\ r[1] \in DOMAIN pages /\ r[2] \in DOMAIN pages[r[1]].slots
    BY <1>3 DEF IsRid
  <2>2. r[1] \in 0 .. MaxHeapPages
    BY <1>1, <2>1, HeapAssumption DEF HeapGood
  <2>3. pages[r[1]] \in TablePages /\ ~Overrun(pages[r[1]])
    BY <1>2, <2>1 DEF Intact
  <2>4. r[2] \in 1 .. Len(pages[r[1]].slots) /\ Len(pages[r[1]].slots) \in 0 .. PageSize
    BY <2>1, <2>3, PageFields, SlotsBounded
  <2> QED BY <2>1, <2>2, <2>4, TablePageAssumption
<1>4. NoRid \in (0 .. MaxHeapPages) \X (0 .. PageSize)
  BY HeapAssumption, TablePageAssumption DEF NoRid, INVALID_PAGE_ID
<1>5. (iter = NoRid \/ IsRid(iter)) /\ (cur = NoRid \/ IsRid(cur))
  BY <1>1 DEF ScanGood, HeapGood
<1>6. due \subseteq DOMAIN stored
  BY <1>1 DEF DueGood
<1> QED BY <1>2, <1>3, <1>4, <1>5, <1>6

\* Every row reads back as it was stored last, through any mix of inserts, updates
\* and deletes of any sizes on any number of pages (TablePage::InsertTuple,
\* UpdateTuple, MarkDelete, GetTuple), as long as no update has overrun a page.
THEOREM HeapReadsBack == HeapSpec => []RowsReadBack
<1>1. HeapInv => RowsReadBack
  <2> SUFFICES ASSUME HeapInv, Intact, NEW i \in DOMAIN pages, NEW s \in DOMAIN pages[i].slots
               PROVE  IF <<i, s>> \in DOMAIN stored
                      THEN PageGet(pages[i], s) = stored[<<i, s>>]
                      ELSE TupleSize(pages[i], s) = 0
    BY HeapTyped DEF RowsReadBack
  <2>1. Holds(i, s)
    BY DEF HeapInv, HeapGood
  <2> QED BY <2>1 DEF Holds, TupleSize
<1> QED BY <1>1, HeapInvariant, PTL

\* A scan misses no row that was there from its begin to its end, whatever the
\* session inserts, updates and deletes on the way (TableHeap::Iterator::operator++).
THEOREM ScanMissesNothing == HeapSpec => []ScanComplete
<1>1. HeapInv => ScanComplete
  BY DEF HeapInv, DueGood, ScanComplete
<1> QED BY <1>1, HeapInvariant, PTL

\* A scan returns each row at most once, in the order of the RIDs, and stands on a
\* row that is there.
THEOREM ScanRepeatsNothing == HeapSpec => []ScanOnce
<1>1. HeapInv => ScanOnce
  <2> SUFFICES ASSUME HeapInv PROVE ScanOnce
    OBVIOUS
  <2>1. ASSUME NEW i \in DOMAIN seen, NEW j \in DOMAIN seen, seen[i] = seen[j] PROVE i = j
    <3>1. i \in Nat /\ j \in Nat /\ seen[i] \in Nat \X Nat /\ seen[j] \in Nat \X Nat
      BY DEF HeapInv
    <3>2. ~Before(seen[i], seen[j]) /\ ~Before(seen[j], seen[i])
      BY <2>1, <3>1, RidOrder
    <3>3. ~(i < j) /\ ~(j < i)
      BY <3>2 DEF HeapInv, Increasing
    <3> QED BY <3>1, <3>3
  <2>2. Intact /\ iter # NoRid => iter \in DOMAIN stored
    BY DEF HeapInv, ScanGood
  <2> QED BY <2>1, <2>2 DEF ScanOnce
<1> QED BY <1>1, HeapInvariant, PTL

\* Tuple data runs into the slot array in no other way than by UpdateTuple with a
\* tuple larger than the free space of the page: inserts and deletes never do it.
THEOREM OnlyUpdatesOverrun == HeapSpec => OverrunOnlyByUpdate
<1>1. HeapInv /\ [HeapNext]_heapVars => [Intact /\ ~Intact' => UpdateOverruns]_heapVars
  BY HeapStep
<1> QED BY <1>1, HeapInvariant, PTL DEF HeapSpec, OverrunOnlyByUpdate
=============================================================================
