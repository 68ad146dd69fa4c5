-------------------------- MODULE BufferPoolProofs --------------------------
(***************************************************************************)
(* Proofs about the buffer pool manager, for every number of frames, pages *)
(* and pin holders.  The invariant PoolInv relates the page table, the     *)
(* free list, the pins and the replacer; each operation keeps all of it,   *)
(* and none of its parts is kept without the others.  The last part shows  *)
(* that the pool over the file implements the store without a cache        *)
(* (PageStore): each operation of the pool is an operation of the store,   *)
(* or none, together with the pages it happens to make durable.            *)
(***************************************************************************)
EXTENDS BufferPoolRefinement, ReplacerProofs, WellFoundedInduction

-----------------------------------------------------------------------------
(* The inductive invariant. *)

\* A holder without a page has nothing to mark dirty.
NoPinIsClean == \A h \in Holders : held[h].page = NoPage => ~held[h].dirty

\* EvictableExact, in terms of the sets of frames.
MarksExact ==
  /\ Counted(lru)
  /\ Tracked(lru) = {f \in Frames : Used(f)}
  /\ EvictableFrames(lru) = {f \in Frames : Used(f) /\ pages_[f].pin_count = 0}

\* Neither the file nor the clients know a page that was not allocated.
IdsBounded ==
  /\ disk.len <= disk.next_page_id
  /\ \A p \in live : p < disk.next_page_id

PoolInv ==
  /\ TypeOK
  /\ MappingConsistent
  /\ FramesPartitioned
  /\ PinsExact
  /\ NoPinIsClean
  /\ MarksExact
  /\ IdsBounded

\* No frame number and no page number is the invalid one.
LEMMA Invalid == NoFrame \notin Frames /\ NoPage \notin PageIds
BY ReplacerAssumption, DiskAssumption DEF NoFrame, NoPage, Frames, PageIds

\* MarksExact says what EvictableExact says.
LEMMA MarksAreEvictableExact ==
  ASSUME MarksExact
  PROVE  EvictableExact
<1>1. \A f \in Frames : lru.evictable[f] <=> f \in EvictableFrames(lru)
  BY Zenon DEF MarksExact, Counted, EvictableFrames
<1>2. \A f \in Frames : f \in EvictableFrames(lru) <=> Used(f) /\ pages_[f].pin_count = 0
  BY Zenon DEF MarksExact
<1>3. \A f \in Frames : lru.evictable[f] <=> Used(f) /\ pages_[f].pin_count = 0
  BY <1>1, <1>2, Zenon
<1>4. \A f \in Frames : f \in Tracked(lru) <=> Used(f)
  BY Zenon DEF MarksExact
<1> QED BY <1>3, <1>4, Zenon DEF EvictableExact, MarksExact, Counted

-----------------------------------------------------------------------------
(* The replacer in sets of frames. *)

\* RecordAccess and SetEvictable(false) of FetchPage and NewPage: the frame is
\* tracked and not evictable, and no other frame changes.
LEMMA TouchSets ==
  ASSUME NEW r \in Replacers, NEW f \in Frames, Counted(r)
  PROVE  /\ Touch(r, f) \in Replacers
         /\ Counted(Touch(r, f))
         /\ Tracked(Touch(r, f)) = Tracked(r) \cup {f}
         /\ EvictableFrames(Touch(r, f)) = EvictableFrames(r) \ {f}
<1> DEFINE a == RecordAccess(r, f)
<1>1. /\ a \in Replacers /\ Counted(a)
      /\ Tracked(a) = Tracked(r) \cup {f} /\ a.evictable = r.evictable
  BY RecordAccessEffect, AccessCounted
<1> HIDE DEF a
<1>2. Touch(r, f) = SetEvictable(a, f, FALSE)
  BY DEF Touch, a
<1>3. f \in Tracked(a)
  BY <1>1
<1> DEFINE m == SetEvictable(a, f, FALSE)
<1>4. m \in Replacers /\ Counted(m) /\ Tracked(m) = Tracked(a)
  BY <1>1, MarkKeeps, MarkCounted
<1>5. m.evictable = [a.evictable EXCEPT ![f] = FALSE]
  BY <1>1, <1>3, MarkFalse
<1> HIDE DEF m
<1>6. a.evictable \in [Frames -> BOOLEAN]
  BY <1>1 DEF Replacers
<1>7. \A g \in Frames : m.evictable[g] <=> g # f /\ r.evictable[g]
  BY <1>1, <1>5, <1>6
<1>8. EvictableFrames(m) = EvictableFrames(r) \ {f}
  <2>1. \A g \in Frames : r.evictable[g] => g \in Tracked(r)
    BY Zenon DEF Counted
  <2>2. Tracked(m) \subseteq Frames /\ Tracked(r) \subseteq Frames
    BY Zenon DEF Tracked
  <2> QED BY <1>1, <1>4, <1>7, <2>1, <2>2, Zenon DEF EvictableFrames
<1> QED BY <1>1, <1>2, <1>4, <1>8 DEF m

\* Evict and Remove forget the frame.
LEMMA EraseSets ==
  ASSUME NEW r \in Replacers, NEW f \in EvictableFrames(r), Counted(r)
  PROVE  /\ EraseEntry(r, f) \in Replacers
         /\ Counted(EraseEntry(r, f))
         /\ Tracked(EraseEntry(r, f)) = Tracked(r) \ {f}
         /\ EvictableFrames(EraseEntry(r, f)) = EvictableFrames(r) \ {f}
<1>1. f \in Frames /\ f \in Tracked(r) /\ Tracked(r) \subseteq Frames
  BY Zenon DEF EvictableFrames, Tracked
<1> DEFINE m == EraseEntry(r, f)
<1>2. /\ m \in Replacers /\ Counted(m) /\ Tracked(m) = Tracked(r) \ {f}
      /\ m.evictable = [r.evictable EXCEPT ![f] = FALSE]
  BY <1>1, EraseEntryEffect, EraseCounted
<1> HIDE DEF m
<1>3. r.evictable \in [Frames -> BOOLEAN]
  BY DEF Replacers
<1>4. \A g \in Frames : g # f => (m.evictable[g] <=> r.evictable[g])
  BY <1>2, <1>3
<1>5. EvictableFrames(m) = EvictableFrames(r) \ {f}
  BY <1>1, <1>2, <1>4, Zenon DEF EvictableFrames
<1> QED BY <1>2, <1>5 DEF m

\* SetEvictable(true) of the last UnpinPage.
LEMMA MarkSets ==
  ASSUME NEW r \in Replacers, NEW f \in Tracked(r), Counted(r)
  PROVE  /\ SetEvictable(r, f, TRUE) \in Replacers
         /\ Counted(SetEvictable(r, f, TRUE))
         /\ Tracked(SetEvictable(r, f, TRUE)) = Tracked(r)
         /\ EvictableFrames(SetEvictable(r, f, TRUE)) = EvictableFrames(r) \cup {f}
<1>1. f \in Frames /\ Tracked(r) \subseteq Frames
  BY Zenon DEF Tracked
<1> DEFINE m == SetEvictable(r, f, TRUE)
<1>2. /\ m \in Replacers /\ Counted(m) /\ Tracked(m) = Tracked(r)
  BY <1>1, MarkKeeps, MarkCounted
<1>3. m.evictable = [r.evictable EXCEPT ![f] = TRUE]
  BY MarkTrue
<1> HIDE DEF m
<1>4. r.evictable \in [Frames -> BOOLEAN]
  BY DEF Replacers
<1>5. m.evictable[f] /\ \A g \in Frames : g # f => (m.evictable[g] <=> r.evictable[g])
  BY <1>1, <1>3, <1>4
<1>6. EvictableFrames(m) = EvictableFrames(r) \cup {f}
  BY <1>1, <1>2, <1>5, Zenon DEF EvictableFrames
<1> QED BY <1>2, <1>6 DEF m

-----------------------------------------------------------------------------
(* The disk. *)

\* The stream has not failed.
Good(d) == d.fail = FALSE

\* WritePage stores the page unless the stream has failed, and lets the file
\* grow to it; it allocates nothing.
LEMMA WritePageEffect ==
  ASSUME NEW d \in Disks, NEW p \in PageIds, NEW v \in Contents
  PROVE  /\ WritePage(d, p, v) \in Disks
         /\ WritePage(d, p, v).next_page_id = d.next_page_id
         /\ WritePage(d, p, v).len \in {d.len, p + 1} /\ d.len <= WritePage(d, p, v).len
         /\ Good(d) => /\ Good(WritePage(d, p, v))
                       /\ WritePage(d, p, v).file = [d.file EXCEPT ![p] = v]
                       /\ p < WritePage(d, p, v).len
<1> DEFINE file == [d.file EXCEPT ![p] = IF d.fail THEN @ ELSE v]
           len == IF d.fail \/ p < d.len THEN d.len ELSE p + 1
           num == IF p >= d.num_pages THEN p + 1 ELSE d.num_pages
<1>1. WritePage(d, p, v) = [d EXCEPT !.file = file, !.len = len, !.num_pages = num]
  BY Zenon DEF WritePage
<1>2. d.file \in [PageIds -> Contents] /\ d.len \in 0 .. MaxPages /\ d.num_pages \in 0 .. MaxPages
  BY DEF Disks
<1>3. p \in Nat /\ p + 1 \in 0 .. MaxPages
  BY DiskAssumption DEF PageIds
<1>4. file \in [PageIds -> Contents] /\ len \in 0 .. MaxPages /\ num \in 0 .. MaxPages
  BY <1>2, <1>3
<1> HIDE DEF file, len, num
<1>5. /\ WritePage(d, p, v) \in Disks
      /\ WritePage(d, p, v).next_page_id = d.next_page_id
      /\ WritePage(d, p, v).fail = d.fail
      /\ WritePage(d, p, v).file = file
      /\ WritePage(d, p, v).len = len
  BY <1>1, <1>4 DEF Disks
<1>6. len \in {d.len, p + 1} /\ d.len <= len
  BY <1>2, <1>3 DEF len
<1>7. ASSUME Good(d)
      PROVE  p < len /\ file = [d.file EXCEPT ![p] = v] /\ Good(WritePage(d, p, v))
  BY <1>2, <1>3, <1>5, <1>7 DEF len, file, Good
<1> QED BY <1>5, <1>6, <1>7

\* The number of pages after a loop of writes exists: the least m above n and
\* above every page of S.
LEMMA ExtentEffect ==
  ASSUME NEW n \in 0 .. MaxPages, NEW S \in SUBSET PageIds
  PROVE  /\ Extent(n, S) \in 0 .. MaxPages
         /\ \A q \in PageIds : q < Extent(n, S) <=> (q < n \/ \E p \in S : q <= p)
<1> DEFINE Above == {m \in Nat : n <= m /\ \A p \in S : p < m}
<1>1. MaxPages \in Above
  BY DiskAssumption DEF PageIds
<1>2. PICK m \in Above : \A k \in Above : m <= k
  <2> DEFINE R == OpToRel(<, Nat)
  <2>1. IsWellFoundedOn(R, Nat)
    BY NatLessThanWellFounded
  <2>2. Above \subseteq Nat /\ Above # {}
    BY <1>1
  <2>3. \E m \in Above : \A k \in Above : ~(<<k, m>> \in R)
    BY <2>1, <2>2, WFMin
  <2>4. \A k, m \in Nat : <<k, m>> \in R <=> k < m
    BY DEF OpToRel
  <2> HIDE DEF Above, R
  <2>5. \A k, m \in Above : k \in Nat /\ m \in Nat /\ (<<k, m>> \in R <=> k < m)
    BY <2>2, <2>4
  <2>6. PICK m \in Above : \A k \in Above : ~(<<k, m>> \in R)
    BY <2>3
  <2>7. ASSUME NEW k \in Above PROVE m <= k
    <3>1. ~(k < m)
      BY <2>5, <2>6, Zenon
    <3>2. k \in Nat /\ m \in Nat
      BY <2>2
    <3> QED BY <3>1, <3>2
  <2> QED BY <2>7
<1>3. m \in 0 .. MaxPages
  BY <1>1, <1>2, DiskAssumption
<1>4. ASSUME NEW q \in PageIds PROVE q < m <=> (q < n \/ \E p \in S : q <= p)
  <2>1. q \in Nat /\ \A p \in S : p \in Nat
    BY DEF PageIds
  <2>2. ASSUME ~(q < n \/ \E p \in S : q <= p) PROVE ~(q < m)
    <3>1. q \in Above
      BY <2>1, <2>2
    <3> QED BY <1>2, <2>1, <3>1
  <2>3. ASSUME q < n \/ \E p \in S : q <= p PROVE q < m
    BY <2>1, <2>3
  <2> QED BY <2>2, <2>3
<1>5. \E k \in 0 .. MaxPages : \A q \in PageIds : q < k <=> (q < n \/ \E p \in S : q <= p)
  BY <1>3, <1>4
<1> QED BY <1>5 DEF Extent

\* The loop of FlushAllPages lets the file grow to its last page at most.
LEMMA WritePagesEffect ==
  ASSUME NEW d \in Disks, NEW S \in SUBSET PageIds, NEW data \in [S -> Contents]
  PROVE  /\ WritePages(d, S, data) \in Disks
         /\ WritePages(d, S, data).next_page_id = d.next_page_id
         /\ WritePages(d, S, data).len \in {d.len, Extent(d.len, S)}
<1> DEFINE file == [p \in PageIds |-> IF p \in S /\ ~d.fail THEN data[p] ELSE d.file[p]]
           len == IF d.fail THEN d.len ELSE Extent(d.len, S)
           num == Extent(d.num_pages, S)
<1>1. WritePages(d, S, data) = [d EXCEPT !.file = file, !.len = len, !.num_pages = num]
  BY Zenon DEF WritePages
<1>2. d.file \in [PageIds -> Contents] /\ d.len \in 0 .. MaxPages /\ d.num_pages \in 0 .. MaxPages
  BY DEF Disks
<1>3. file \in [PageIds -> Contents] /\ len \in 0 .. MaxPages /\ num \in 0 .. MaxPages
  BY <1>2, ExtentEffect
<1>4. len \in {d.len, Extent(d.len, S)}
  OBVIOUS
<1> HIDE DEF file, len, num
<1> QED BY <1>1, <1>3, <1>4 DEF Disks

\* It stores every page of S, and leaves the rest, unless the stream has failed.
LEMMA WritePagesStores ==
  ASSUME NEW d \in Disks, NEW S \in SUBSET PageIds, NEW data \in [S -> Contents], Good(d)
  PROVE  /\ Good(WritePages(d, S, data))
         /\ WritePages(d, S, data).file = [p \in PageIds |-> IF p \in S THEN data[p] ELSE d.file[p]]
         /\ WritePages(d, S, data).len = Extent(d.len, S)
<1> DEFINE file == [p \in PageIds |-> IF p \in S THEN data[p] ELSE d.file[p]]
           num == Extent(d.num_pages, S)
<1>1. WritePages(d, S, data) = [d EXCEPT !.file = file, !.len = Extent(d.len, S), !.num_pages = num]
  BY Zenon DEF WritePages, Good
<1> HIDE DEF file, num
<1>2. /\ WritePages(d, S, data).file = file /\ WritePages(d, S, data).len = Extent(d.len, S)
      /\ Good(WritePages(d, S, data))
  BY <1>1 DEF Disks, Good
<1> QED BY <1>2 DEF file

-----------------------------------------------------------------------------
(* Taking a frame. *)

\* Frame g is in the free list.
InFree(g) == \E i \in DOMAIN free_list_ : free_list_[i] = g

\* A frame from the free list holds no page; a frame from the replacer holds one
\* that nobody has pinned.  Either way nobody has pinned the page of the frame.
LEMMA TakeUnpinned ==
  ASSUME PoolInv, NEW f \in Frames, TakeFrame(f)
  PROVE  /\ \A h \in Holders : held[h].page # NoPage => held[h].page # pages_[f].page_id
         /\ free_list_ = <<>> => f \in EvictableFrames(lru)
         /\ free_list_ # <<>> => ~Used(f)
<1>1. free_list_ \in Seq(Frames)
  BY DEF PoolInv, TypeOK
<1>2. CASE free_list_ # <<>>
  <2>1. f = free_list_[1] /\ 1 \in DOMAIN free_list_
    BY <1>1, <1>2 DEF TakeFrame
  <2>2. ~Used(f)
    BY <2>1, Zenon DEF PoolInv, FramesPartitioned
  <2> QED BY <1>2, <2>2, Zenon DEF Used
<1>3. CASE free_list_ = <<>>
  <2>1. f \in EvictableFrames(lru)
    BY <1>3, Zenon DEF TakeFrame, Victims
  <2>2. Used(f) /\ pages_[f].pin_count = 0
    BY <2>1, Zenon DEF PoolInv, MarksExact
  <2>3. Cardinality(PinsOf(pages_[f].page_id)) = 0
    BY <2>2, Zenon DEF PoolInv, PinsExact
  <2>4. IsFiniteSet(PinsOf(pages_[f].page_id))
    BY PoolAssumption, FS_Subset DEF PinsOf
  <2>5. PinsOf(pages_[f].page_id) = {}
    BY <2>3, <2>4, FS_EmptySet
  <2>6. \A h \in Holders : held[h].page # pages_[f].page_id
    BY <2>5, Zenon DEF PinsOf
  <2> QED BY <1>3, <2>1, <2>6, Zenon
<1> QED BY <1>2, <1>3

\* The replacer does not track a frame that was taken, and still tracks and
\* may evict the others.
LEMMA TakeReplacer ==
  ASSUME PoolInv, NEW f \in Frames, TakeFrame(f)
  PROVE  /\ ReplacerAfterTake(f) \in Replacers
         /\ Counted(ReplacerAfterTake(f))
         /\ Tracked(ReplacerAfterTake(f)) = Tracked(lru) \ {f}
         /\ EvictableFrames(ReplacerAfterTake(f)) = EvictableFrames(lru) \ {f}
<1>1. lru \in Replacers /\ Counted(lru)
  BY DEF PoolInv, TypeOK, MarksExact
<1>2. CASE free_list_ # <<>>
  <2>1. ~Used(f)
    BY <1>2, TakeUnpinned
  <2>2. f \notin Tracked(lru) /\ f \notin EvictableFrames(lru)
    BY <2>1, Zenon DEF PoolInv, MarksExact
  <2>3. ReplacerAfterTake(f) = lru
    BY <1>2, Zenon DEF ReplacerAfterTake
  <2>4. Tracked(lru) = Tracked(lru) \ {f} /\ EvictableFrames(lru) = EvictableFrames(lru) \ {f}
    BY <2>2
  <2> QED BY <1>1, <2>3, <2>4, Zenon
<1>3. CASE free_list_ = <<>>
  <2>1. f \in EvictableFrames(lru)
    BY <1>3, TakeUnpinned
  <2>2. ReplacerAfterTake(f) = EraseEntry(lru, f)
    BY <1>3, Zenon DEF ReplacerAfterTake
  <2> QED BY <1>1, <2>1, <2>2, EraseSets
<1> QED BY <1>2, <1>3

\* The free list loses the frame that was taken, and no other.
LEMMA TakeFreeList ==
  ASSUME PoolInv, NEW f \in Frames, TakeFrame(f)
  PROVE  /\ free_list_' \in Seq(Frames)
         /\ \A g \in Frames : InFree(g)' <=> InFree(g) /\ g # f
         /\ \A i, j \in DOMAIN free_list_' : free_list_'[i] = free_list_'[j] => i = j
<1>1. /\ free_list_ \in Seq(Frames)
      /\ \A i, j \in DOMAIN free_list_ : free_list_[i] = free_list_[j] => i = j
  BY DEF PoolInv, TypeOK, FramesPartitioned
<1>2. CASE free_list_ # <<>>
  <2>1. /\ f = free_list_[1] /\ 1 \in DOMAIN free_list_
        /\ DOMAIN free_list_ = 1 .. Len(free_list_) /\ Len(free_list_) \in Nat
    BY <1>1, <1>2 DEF TakeFrame
  <2>2. free_list_' = Tail(free_list_)
    BY <1>2 DEF TakeFrame
  <2>3. /\ free_list_' \in Seq(Frames)
        /\ DOMAIN free_list_' = 1 .. Len(free_list_) - 1
        /\ \A i \in 1 .. Len(free_list_) - 1 : free_list_'[i] = free_list_[i + 1]
    BY <1>1, <1>2, <2>1, <2>2
  <2>4. \A i \in DOMAIN free_list_' : i + 1 \in DOMAIN free_list_ /\ i \in Nat /\ i + 1 # 1
    BY <2>1, <2>3
  <2>5. \A i, j \in DOMAIN free_list_' : free_list_'[i] = free_list_'[j] => i = j
    BY <1>1, <2>1, <2>3, SMTT(30)
  <2>6. \A i \in DOMAIN free_list_' : free_list_'[i] # f
    BY <1>1, <2>1, <2>3, <2>4
  <2>7. ASSUME NEW g \in Frames, NEW i \in DOMAIN free_list_, free_list_[i] = g, g # f
        PROVE  \E j \in DOMAIN free_list_' : free_list_'[j] = g
    <3>1. i # 1 /\ i - 1 \in DOMAIN free_list_' /\ free_list_'[i - 1] = g
      BY <2>1, <2>3, <2>7
    <3> QED BY <3>1
  <2>8. ASSUME NEW g \in Frames, NEW i \in DOMAIN free_list_', free_list_'[i] = g
        PROVE  \E j \in DOMAIN free_list_ : free_list_[j] = g
    BY <2>3, <2>4, <2>8
  <2>9. \A g \in Frames : InFree(g)' <=> InFree(g) /\ g # f
    BY <2>6, <2>7, <2>8, Zenon DEF InFree
  <2> QED BY <2>3, <2>5, <2>9
<1>3. CASE free_list_ = <<>>
  <2>1. free_list_' = free_list_
    BY <1>3 DEF TakeFrame
  <2>2. \A g \in Frames : ~InFree(g)
    BY <1>3 DEF InFree
  <2>3. \A g \in Frames : ~InFree(g)'
    BY <1>3, <2>1 DEF InFree
  <2> QED BY <1>1, <2>1, <2>2, <2>3
<1> QED BY <1>2, <1>3

\* Writing the old page back allocates nothing, and the file stays below the
\* next page id.
LEMMA TakeDisk ==
  ASSUME PoolInv, NEW f \in Frames
  PROVE  /\ DiskAfterTake(f) \in Disks
         /\ DiskAfterTake(f).next_page_id = disk.next_page_id
         /\ DiskAfterTake(f).len <= disk.next_page_id
<1> DEFINE p == pages_[f].page_id
<1>1. disk \in Disks /\ disk.len <= disk.next_page_id
  BY DEF PoolInv, TypeOK, IdsBounded
<1>2. CASE p # NoPage /\ pages_[f].is_dirty
  <2>1. p \in PageIds /\ pages_[f].data \in Contents
    BY <1>2 DEF PoolInv, TypeOK, Page
  <2>2. p \in live
    <3>1. Used(f)
      BY <1>2 DEF Used
    <3>2. page_table_[p] = f
      BY <3>1, Zenon DEF PoolInv, MappingConsistent
    <3>3. Resident(p)
      BY <3>2, Invalid, Zenon DEF Resident
    <3> QED BY <2>1, <3>3, Zenon DEF PoolInv, MappingConsistent
  <2>3. p < disk.next_page_id
    BY <2>2 DEF PoolInv, IdsBounded
  <2>4. DiskAfterTake(f) = WritePage(disk, p, pages_[f].data)
    BY <1>2, Zenon DEF DiskAfterTake
  <2> DEFINE d == WritePage(disk, p, pages_[f].data)
  <2>5. /\ d \in Disks /\ d.next_page_id = disk.next_page_id
        /\ d.len \in {disk.len, p + 1}
    BY <1>1, <2>1, WritePageEffect
  <2> HIDE DEF d
  <2>6. d.len <= disk.next_page_id
    <3>1. p \in Int /\ disk.next_page_id \in Int /\ disk.len \in Int
      BY <1>1, <2>1 DEF Disks, PageIds
    <3>2. p + 1 <= disk.next_page_id
      BY <2>3, <3>1
    <3> QED BY <1>1, <2>5, <3>2
  <2> QED BY <2>4, <2>5, <2>6 DEF d
<1>3. CASE ~(p # NoPage /\ pages_[f].is_dirty)
  BY <1>1, <1>3, Zenon DEF DiskAfterTake
<1> QED BY <1>2, <1>3

-----------------------------------------------------------------------------
(* The operations keep the invariant. *)

\* The page tables and pins under which a page is looked up: no frame and no
\* holder knows a page that is not resident.
LEMMA AbsentUnknown ==
  ASSUME PoolInv, NEW p \in PageIds, ~Resident(p)
  PROVE  /\ \A g \in Frames : pages_[g].page_id # p
         /\ \A h \in Holders : held[h].page # p
<1>1. \A g \in Frames : pages_[g].page_id # p
  <2> SUFFICES ASSUME NEW g \in Frames, pages_[g].page_id = p PROVE FALSE
    OBVIOUS
  <2>1. Used(g)
    BY Invalid DEF Used
  <2>2. page_table_[p] = g
    BY <2>1, Zenon DEF PoolInv, MappingConsistent
  <2> QED BY <2>2, Invalid DEF Resident
<1>2. \A h \in Holders : held[h].page # p
  BY Invalid, Zenon DEF PoolInv, PinsExact
<1> QED BY <1>1, <1>2

\* A page that is not resident enters a frame that was taken, pinned by a holder
\* that had no page: the last lines of NewPage, and of FetchPage after a miss.
LEMMA InstallInv ==
  ASSUME PoolInv, NEW f \in Frames, TakeFrame(f),
         NEW h \in Holders, held[h] = NoPin,
         NEW p \in PageIds, ~Resident(p), NEW v \in Contents, Install(f, p, v),
         NEW b \in BOOLEAN, held' = [held EXCEPT ![h] = [page |-> p, dirty |-> b]],
         live' = live \cup {p}, disk' \in Disks, IdsBounded'
  PROVE  PoolInv'
<1> DEFINE old == pages_[f].page_id
           q == [page_id |-> p, pin_count |-> 1, is_dirty |-> FALSE, data |-> v]
<1>1. /\ pages_ \in [Frames -> Page] /\ page_table_ \in [PageIds -> Frames \cup {NoFrame}]
      /\ held \in [Holders -> [page : PageIds \cup {NoPage}, dirty : BOOLEAN]]
      /\ live \in SUBSET PageIds
  BY DEF PoolInv, TypeOK
<1>2. q \in Page /\ q.page_id = p /\ q.pin_count = 1
  BY DEF Page
<1>3. pages_' = [pages_ EXCEPT ![f] = q]
  BY DEF Install
<1> HIDE DEF q
<1>4. pages_' \in [Frames -> Page] /\ pages_'[f] = q /\ \A g \in Frames \ {f} : pages_'[g] = pages_[g]
  BY <1>1, <1>2, <1>3
<1>5. /\ page_table_' \in [PageIds -> Frames \cup {NoFrame}]
      /\ page_table_'[p] = f
      /\ \A x \in PageIds \ {p} : page_table_'[x] = IF x = old THEN NoFrame ELSE page_table_[x]
  BY <1>1 DEF Install, TableAfterTake
<1>6. /\ held' \in [Holders -> [page : PageIds \cup {NoPage}, dirty : BOOLEAN]]
      /\ held'[h].page = p /\ \A k \in Holders \ {h} : held'[k] = held[k]
  BY <1>1
<1>7. held[h].page = NoPage
  BY DEF NoPin
<1>8. /\ \A g \in Frames : pages_[g].page_id # p
      /\ \A k \in Holders : held[k].page # p
  BY AbsentUnknown
<1>9. /\ \A k \in Holders : held[k].page # NoPage => held[k].page # old
      /\ free_list_' \in Seq(Frames)
      /\ \A g \in Frames : InFree(g)' <=> InFree(g) /\ g # f
      /\ \A i, j \in DOMAIN free_list_' : free_list_'[i] = free_list_'[j] => i = j
  BY TakeUnpinned, TakeFreeList
<1>10. /\ lru' \in Replacers /\ Counted(lru')
       /\ Tracked(lru') = (Tracked(lru) \ {f}) \cup {f}
       /\ EvictableFrames(lru') = (EvictableFrames(lru) \ {f}) \ {f}
  BY TakeReplacer, TouchSets DEF Install
<1>11. TypeOK'
  BY <1>1, <1>4, <1>5, <1>6, <1>9, <1>10 DEF TypeOK
<1>12. Used(f)' /\ \A g \in Frames \ {f} : Used(g)' <=> Used(g)
  BY <1>2, <1>4, Invalid DEF Used
<1>13. MappingConsistent'
  <2>1. ASSUME NEW x \in PageIds, Resident(x)'
        PROVE  pages_'[page_table_'[x]].page_id = x /\ x \in live'
    <3>1. CASE x = p
      BY <1>2, <1>4, <1>5, <3>1
    <3>2. CASE x # p
      <4>1. x # old /\ page_table_'[x] = page_table_[x] /\ Resident(x)
        BY <1>5, <2>1, <3>2 DEF Resident
      <4>2. pages_[page_table_[x]].page_id = x /\ x \in live /\ page_table_[x] \in Frames
        BY <1>1, <4>1 DEF PoolInv, MappingConsistent, Resident
      <4>3. page_table_[x] # f
        BY <4>1, <4>2
      <4> QED BY <1>4, <4>1, <4>2, <4>3
    <3> QED BY <3>1, <3>2
  <2>2. ASSUME NEW g \in Frames, Used(g)'
        PROVE  page_table_'[pages_'[g].page_id] = g
    <3>1. CASE g = f
      BY <1>2, <1>4, <1>5, <3>1
    <3>2. CASE g # f
      <4> DEFINE x == pages_[g].page_id
      <4>1. Used(g) /\ pages_'[g] = pages_[g]
        BY <1>4, <1>12, <2>2, <3>2
      <4>2. page_table_[x] = g /\ x # p
        BY <1>8, <4>1 DEF PoolInv, MappingConsistent
      <4>3. x \in PageIds
        BY <1>1, <4>1 DEF Used, Page
      <4>4. x # old
        <5>1. Used(f) => page_table_[old] = f
          BY DEF PoolInv, MappingConsistent
        <5> QED BY <3>2, <4>1, <4>2, <5>1 DEF Used
      <4> QED BY <1>5, <4>1, <4>2, <4>3, <4>4
    <3> QED BY <3>1, <3>2
  <2> QED BY <2>1, <2>2 DEF MappingConsistent
<1>14. FramesPartitioned'
  <2>1. \A g \in Frames : Used(g) <=> ~InFree(g)
    BY DEF PoolInv, FramesPartitioned, InFree
  <2>2. \A g \in Frames : Used(g)' <=> ~InFree(g)'
    BY <1>9, <1>12, <2>1, Zenon
  <2> QED BY <1>9, <2>2 DEF FramesPartitioned, InFree
<1>15. PinsExact'
  <2>1. ASSUME NEW k \in Holders, held'[k].page # NoPage PROVE Resident(held[k].page)'
    <3>1. CASE k = h
      BY <1>5, <1>6, <3>1, Invalid DEF Resident
    <3>2. CASE k # h
      <4>1. held'[k] = held[k]
        BY <1>6, <3>2
      <4>2. Resident(held[k].page) /\ held[k].page # p /\ held[k].page # old /\ held[k].page \in PageIds
        BY <1>1, <1>8, <1>9, <2>1, <4>1 DEF PoolInv, PinsExact
      <4> QED BY <1>5, <4>1, <4>2 DEF Resident
    <3> QED BY <3>1, <3>2
  <2>2. ASSUME NEW g \in Frames
        PROVE  pages_'[g].pin_count = IF Used(g)' THEN Cardinality(PinsOf(pages_[g].page_id)') ELSE 0
    <3>1. CASE g = f
      <4>1. PinsOf(pages_[f].page_id)' = {h}
        BY <1>2, <1>4, <1>6, <1>8 DEF PinsOf
      <4> QED BY <1>2, <1>4, <1>12, <3>1, <4>1, FS_Singleton
    <3>2. CASE g # f
      <4>1. pages_'[g] = pages_[g] /\ pages_[g].page_id # p /\ (Used(g)' <=> Used(g))
        BY <1>4, <1>8, <1>12, <3>2
      <4>2. Used(g) => PinsOf(pages_[g].page_id)' = PinsOf(pages_[g].page_id)
        BY <1>6, <1>7, <4>1 DEF PinsOf, Used
      <4>3. pages_[g].pin_count = IF Used(g) THEN Cardinality(PinsOf(pages_[g].page_id)) ELSE 0
        BY DEF PoolInv, PinsExact
      <4> QED BY <4>1, <4>2, <4>3
    <3> QED BY <3>1, <3>2
  <2> QED BY <2>1, <2>2, Zenon DEF PinsExact
<1>16. NoPinIsClean'
  BY <1>6, Invalid DEF NoPinIsClean, PoolInv
<1>17. MarksExact'
  <2>1. Tracked(lru) = {g \in Frames : Used(g)}
    BY DEF PoolInv, MarksExact
  <2>2. EvictableFrames(lru) = {g \in Frames : Used(g) /\ pages_[g].pin_count = 0}
    BY DEF PoolInv, MarksExact
  <2>3. Tracked(lru') = {g \in Frames : Used(g)'}
    BY <1>10, <1>12, <2>1
  <2>4. EvictableFrames(lru') = {g \in Frames : Used(g)' /\ pages_'[g].pin_count = 0}
    BY <1>2, <1>4, <1>10, <1>12, <2>2
  <2> QED BY <1>10, <2>3, <2>4, Zenon DEF MarksExact, Counted, Tracked, EvictableFrames
<1> QED BY <1>11, <1>13, <1>14, <1>15, <1>16, <1>17 DEF PoolInv

\* AllocatePage advances next_page_id_ and touches neither file nor stream.
LEMMA AllocateEffect ==
  ASSUME NEW d \in Disks, d.next_page_id < MaxPages
  PROVE  /\ AllocatePage(d) \in Disks
         /\ AllocatePage(d).next_page_id = d.next_page_id + 1
         /\ AllocatePage(d).len = d.len
         /\ AllocatePage(d).file = d.file
         /\ Good(d) => Good(AllocatePage(d))
<1>1. d.next_page_id \in 0 .. MaxPages /\ d.next_page_id + 1 \in 0 .. MaxPages
  BY DiskAssumption DEF Disks
<1> QED BY <1>1 DEF AllocatePage, Disks, Good

\* ReadPage changes at most the failbit.
LEMMA ReadPageEffect ==
  ASSUME NEW d \in Disks, NEW p \in PageIds
  PROVE  /\ ReadPage(d, p) \in Disks
         /\ ReadPage(d, p).next_page_id = d.next_page_id
         /\ ReadPage(d, p).len = d.len
         /\ ReadPage(d, p).file = d.file
         /\ Good(d) /\ InFile(d, p) => Good(ReadPage(d, p))
<1> DEFINE fail == d.fail \/ ~InFile(d, p)
<1>1. ReadPage(d, p) = [d EXCEPT !.fail = fail]
  BY Zenon DEF ReadPage
<1>2. fail \in BOOLEAN
  OBVIOUS
<1>3. Good(d) /\ InFile(d, p) => fail = FALSE
  BY DEF Good
<1> HIDE DEF fail
<1>4. Good(d) /\ InFile(d, p) => Good(ReadPage(d, p))
  BY <1>1, <1>3 DEF Disks, Good
<1> QED BY <1>1, <1>2, <1>4 DEF Disks

\* What a read yields is a page content.
LEMMA ReadDataType ==
  ASSUME NEW d \in Disks, NEW p \in PageIds
  PROVE  ReadData(d, p) \in Contents
BY DiskAssumption DEF ReadData, Disks

\* The id that NewPage hands out belongs to no page yet.
LEMMA NextIdUnused ==
  ASSUME PoolInv, disk.next_page_id < MaxPages
  PROVE  /\ disk.next_page_id \in PageIds
         /\ ~Resident(disk.next_page_id)
         /\ disk.next_page_id \notin live
         /\ ~InFile(disk, disk.next_page_id)
<1>1. disk.next_page_id \in Nat /\ disk.len \in Nat
  BY DEF PoolInv, TypeOK, Disks
<1>2. disk.next_page_id \in PageIds
  BY <1>1, DiskAssumption DEF PageIds
<1>3. disk.next_page_id \notin live
  BY <1>1 DEF PoolInv, IdsBounded
<1>4. ~Resident(disk.next_page_id)
  BY <1>2, <1>3 DEF PoolInv, MappingConsistent
<1>5. ~InFile(disk, disk.next_page_id)
  BY <1>1 DEF PoolInv, IdsBounded, InFile
<1> QED BY <1>2, <1>3, <1>4, <1>5

\* NewPage keeps the invariant.
LEMMA NewPageInv ==
  ASSUME PoolInv, NEW h \in Holders, NewPage(h)
  PROVE  PoolInv'
<1> DEFINE p == disk.next_page_id
<1>1. held[h] = NoPin /\ p < MaxPages
  BY DEF NewPage
<1>2. p \in PageIds /\ ~Resident(p)
  BY <1>1, NextIdUnused
<1>3. PICK f \in Frames :
        /\ TakeFrame(f)
        /\ disk' = AllocatePage(DiskAfterTake(f))
        /\ Install(f, p, Zero)
        /\ held' = [held EXCEPT ![h] = [page |-> p, dirty |-> MarkNewDirty]]
        /\ live' = live \cup {p}
  BY DEF NewPage
<1> DEFINE d == DiskAfterTake(f)
<1>4. d \in Disks /\ d.next_page_id = p /\ d.len <= p
  BY TakeDisk
<1> HIDE DEF d
<1>5. disk' \in Disks /\ disk'.next_page_id = p + 1 /\ disk'.len = d.len
  BY <1>1, <1>3, <1>4, AllocateEffect DEF d
<1>6. d.len \in Int /\ p \in Int
  BY <1>4 DEF Disks
<1>7. IdsBounded'
  <2>1. disk'.len <= disk'.next_page_id
    BY <1>4, <1>5, <1>6
  <2>2. ASSUME NEW x \in live' PROVE x < disk'.next_page_id
    <3>1. x = p \/ (x \in live /\ x < p /\ x \in Int)
      BY <1>3 DEF PoolInv, TypeOK, IdsBounded, PageIds
    <3> QED BY <1>5, <1>6, <3>1
  <2> QED BY <2>1, <2>2 DEF IdsBounded
<1>8. Zero \in Contents /\ MarkNewDirty \in BOOLEAN
  BY DiskAssumption, PoolAssumption
<1> HIDE DEF p
<1> QED BY <1>1, <1>2, <1>3, <1>5, <1>7, <1>8, InstallInv

\* FetchPage of a page that is not resident keeps the invariant.
LEMMA FetchMissInv ==
  ASSUME PoolInv, NEW h \in Holders, NEW p \in PageIds, FetchMiss(h, p)
  PROVE  PoolInv'
<1>1. held[h] = NoPin /\ p \in live /\ ~Resident(p)
  BY DEF FetchMiss
<1>2. PICK f \in Frames :
        /\ TakeFrame(f)
        /\ disk' = ReadPage(DiskAfterTake(f), p)
        /\ Install(f, p, ReadData(DiskAfterTake(f), p))
        /\ held' = [held EXCEPT ![h] = [page |-> p, dirty |-> FALSE]]
        /\ live' = live
  BY DEF FetchMiss
<1> DEFINE d == DiskAfterTake(f)
<1>3. d \in Disks /\ d.next_page_id = disk.next_page_id /\ d.len <= disk.next_page_id
  BY TakeDisk
<1> HIDE DEF d
<1>4. disk' \in Disks /\ disk'.next_page_id = disk.next_page_id /\ disk'.len = d.len
  BY <1>2, <1>3, ReadPageEffect DEF d
<1>5. IdsBounded'
  BY <1>2, <1>3, <1>4 DEF PoolInv, IdsBounded
<1>6. ReadData(d, p) \in Contents
  BY <1>3, ReadDataType
<1>7. live' = live \cup {p} /\ FALSE \in BOOLEAN
  BY <1>1, <1>2
<1> QED BY <1>1, <1>2, <1>4, <1>5, <1>6, <1>7, InstallInv DEF d

\* An operation that moves no page keeps the mapping and the partition.
LEMMA SameMapping ==
  ASSUME PoolInv, pages_' \in [Frames -> Page],
         \A g \in Frames : pages_'[g].page_id = pages_[g].page_id,
         page_table_' = page_table_, free_list_' = free_list_, live' = live
  PROVE  /\ MappingConsistent' /\ FramesPartitioned'
         /\ \A g \in Frames : Used(g)' <=> Used(g)
         /\ \A p \in PageIds : Resident(p)' <=> Resident(p)
<1>1. \A g \in Frames : Used(g)' <=> Used(g)
  BY DEF Used
<1>2. \A p \in PageIds : Resident(p)' <=> Resident(p)
  BY DEF Resident
<1>3. page_table_ \in [PageIds -> Frames \cup {NoFrame}]
  BY DEF PoolInv, TypeOK
<1>4. \A p \in PageIds : Resident(p) => page_table_[p] \in Frames
  BY <1>3 DEF Resident
<1>5. MappingConsistent'
  BY <1>1, <1>2, <1>4 DEF PoolInv, MappingConsistent
<1>6. FramesPartitioned'
  BY <1>1 DEF PoolInv, FramesPartitioned
<1> QED BY <1>1, <1>2, <1>5, <1>6

\* The page of a holder is in its frame, and its pin count is positive.
LEMMA HeldResident ==
  ASSUME PoolInv, NEW h \in Holders, held[h] # NoPin
  PROVE  /\ held[h].page \in PageIds
         /\ Resident(held[h].page)
         /\ page_table_[held[h].page] \in Frames
         /\ pages_[page_table_[held[h].page]].page_id = held[h].page
         /\ pages_[page_table_[held[h].page]].pin_count = Cardinality(PinsOf(held[h].page))
         /\ pages_[page_table_[held[h].page]].pin_count \in Nat \ {0}
<1> DEFINE p == held[h].page
           f == page_table_[p]
<1>1. held[h] \in [page : PageIds \cup {NoPage}, dirty : BOOLEAN]
  BY DEF PoolInv, TypeOK
<1>2. p # NoPage
  <2> SUFFICES ASSUME p = NoPage PROVE FALSE
    OBVIOUS
  <2>1. held[h].dirty = FALSE
    BY <1>1, Zenon DEF PoolInv, NoPinIsClean
  <2> QED BY <1>1, <2>1 DEF NoPin
<1>3. p \in PageIds /\ Resident(p)
  BY <1>1, <1>2 DEF PoolInv, PinsExact
<1>4. f \in Frames /\ pages_[f].page_id = p
  BY <1>3 DEF PoolInv, TypeOK, MappingConsistent, Resident
<1>5. pages_[f].pin_count = Cardinality(PinsOf(p))
  BY <1>2, <1>4 DEF PoolInv, PinsExact, Used
<1>6. IsFiniteSet(PinsOf(p)) /\ PinsOf(p) # {}
  BY PoolAssumption, FS_Subset DEF PinsOf
<1>7. Cardinality(PinsOf(p)) \in Nat \ {0}
  BY <1>6, FS_CardinalityType, FS_EmptySet
<1> QED BY <1>3, <1>4, <1>5, <1>7

\* Operations that change only contents and dirty bits, not which pages are
\* where and who has pinned them.
LEMMA SamePins ==
  ASSUME PoolInv, pages_' \in [Frames -> Page],
         \A g \in Frames : /\ pages_'[g].page_id = pages_[g].page_id
                           /\ pages_'[g].pin_count = pages_[g].pin_count,
         held' \in [Holders -> [page : PageIds \cup {NoPage}, dirty : BOOLEAN]],
         \A k \in Holders : held'[k].page = held[k].page,
         page_table_' = page_table_, free_list_' = free_list_, live' = live, lru' = lru,
         disk' \in Disks, IdsBounded', NoPinIsClean'
  PROVE  PoolInv'
<1>1. /\ MappingConsistent' /\ FramesPartitioned'
      /\ \A g \in Frames : Used(g)' <=> Used(g)
      /\ \A p \in PageIds : Resident(p)' <=> Resident(p)
  BY SameMapping
<1>2. TypeOK'
  BY DEF PoolInv, TypeOK
<1>3. \A g \in Frames : PinsOf(pages_[g].page_id)' = PinsOf(pages_[g].page_id)
  BY DEF PinsOf
<1>4. PinsExact'
  <2>1. ASSUME NEW k \in Holders, held'[k].page # NoPage PROVE Resident(held[k].page)'
    BY <2>1 DEF PoolInv, PinsExact, Resident
  <2>2. ASSUME NEW g \in Frames
        PROVE  pages_'[g].pin_count = IF Used(g)' THEN Cardinality(PinsOf(pages_[g].page_id)') ELSE 0
    BY <1>1, <1>3 DEF PoolInv, PinsExact
  <2> QED BY <2>1, <2>2, Zenon DEF PinsExact
<1>5. MarksExact'
  <2>1. {g \in Frames : Used(g)'} = {g \in Frames : Used(g)}
    BY <1>1, Zenon
  <2>2. {g \in Frames : Used(g)' /\ pages_'[g].pin_count = 0} = {g \in Frames : Used(g) /\ pages_[g].pin_count = 0}
    BY <1>1, Zenon
  <2> QED BY <2>1, <2>2 DEF PoolInv, MarksExact, Counted, Tracked, EvictableFrames
<1> QED BY <1>1, <1>2, <1>4, <1>5 DEF PoolInv

\* FetchPage of a resident page keeps the invariant.
LEMMA FetchHitInv ==
  ASSUME PoolInv, NEW h \in Holders, NEW p \in PageIds, FetchHit(h, p)
  PROVE  PoolInv'
<1> DEFINE f == page_table_[p]
           q == Pinned(pages_[f])
<1>1. held[h] = NoPin /\ p \in live /\ Resident(p)
  BY DEF FetchHit
<1>2. /\ pages_ \in [Frames -> Page]
      /\ held \in [Holders -> [page : PageIds \cup {NoPage}, dirty : BOOLEAN]]
      /\ lru \in Replacers /\ Counted(lru)
  BY DEF PoolInv, TypeOK, MarksExact
<1>3. f \in Frames /\ pages_[f].page_id = p /\ Used(f)
  BY <1>1, Invalid DEF PoolInv, TypeOK, MappingConsistent, Resident, Used
<1>4. q \in Page /\ q.page_id = p /\ q.pin_count = pages_[f].pin_count + 1
  BY <1>2, <1>3, SMTT(30) DEF Page, Pinned
<1>5. /\ pages_' = [pages_ EXCEPT ![f] = q] /\ lru' = Touch(lru, f)
      /\ held' = [held EXCEPT ![h] = [page |-> p, dirty |-> FALSE]]
      /\ page_table_' = page_table_ /\ free_list_' = free_list_ /\ live' = live /\ disk' = disk
  BY DEF FetchHit
<1> HIDE DEF q
<1>6. pages_' \in [Frames -> Page] /\ pages_'[f] = q /\ \A g \in Frames \ {f} : pages_'[g] = pages_[g]
  BY <1>2, <1>3, <1>4, <1>5
<1>7. /\ held' \in [Holders -> [page : PageIds \cup {NoPage}, dirty : BOOLEAN]]
      /\ held'[h].page = p /\ \A k \in Holders \ {h} : held'[k] = held[k]
  BY <1>2, <1>5
<1>8. \A g \in Frames : pages_'[g].page_id = pages_[g].page_id
  BY <1>3, <1>4, <1>6
<1>9. /\ MappingConsistent' /\ FramesPartitioned'
      /\ \A g \in Frames : Used(g)' <=> Used(g)
      /\ \A x \in PageIds : Resident(x)' <=> Resident(x)
  BY <1>5, <1>6, <1>8, SameMapping
<1>10. /\ lru' \in Replacers /\ Counted(lru')
       /\ Tracked(lru') = Tracked(lru) \cup {f}
       /\ EvictableFrames(lru') = EvictableFrames(lru) \ {f}
  BY <1>2, <1>3, <1>5, TouchSets
<1>11. TypeOK'
  BY <1>5, <1>6, <1>7, <1>10 DEF PoolInv, TypeOK
<1>12. pages_[f].pin_count = Cardinality(PinsOf(p)) /\ Cardinality(PinsOf(p)) \in Nat
  <2>1. pages_[f].pin_count = Cardinality(PinsOf(p))
    BY <1>3 DEF PoolInv, PinsExact
  <2>2. IsFiniteSet(PinsOf(p))
    BY PoolAssumption, FS_Subset DEF PinsOf
  <2> QED BY <2>1, <2>2, FS_CardinalityType
<1>13. PinsExact'
  <2>1. ASSUME NEW k \in Holders, held'[k].page # NoPage PROVE Resident(held[k].page)'
    <3>1. CASE k = h
      BY <1>1, <1>5, <1>7, <3>1 DEF Resident
    <3>2. CASE k # h
      BY <1>5, <1>7, <2>1, <3>2 DEF PoolInv, PinsExact, Resident
    <3> QED BY <3>1, <3>2
  <2>2. ASSUME NEW g \in Frames
        PROVE  pages_'[g].pin_count = IF Used(g)' THEN Cardinality(PinsOf(pages_[g].page_id)') ELSE 0
    <3>1. CASE g = f
      <4>1. PinsOf(pages_[g].page_id)' = PinsOf(p) \cup {h}
        BY <1>4, <1>6, <1>7, <3>1 DEF PinsOf
      <4>2. h \notin PinsOf(p) /\ IsFiniteSet(PinsOf(p))
        BY <1>1, Invalid, PoolAssumption, FS_Subset DEF PinsOf, NoPin
      <4>3. Cardinality(PinsOf(p) \cup {h}) = Cardinality(PinsOf(p)) + 1
        BY <4>2, FS_AddElement
      <4>4. pages_'[g].pin_count = Cardinality(PinsOf(p)) + 1 /\ Used(g)'
        BY <1>3, <1>4, <1>6, <1>9, <1>12, <3>1
      <4> QED BY <4>1, <4>3, <4>4
    <3>2. CASE g # f
      <4>1. pages_'[g] = pages_[g] /\ (Used(g)' <=> Used(g))
        BY <1>6, <1>9, <3>2
      <4>2. Used(g) => pages_[g].page_id # p
        BY <1>3, <3>2 DEF PoolInv, MappingConsistent
      <4>3. held[h].page = NoPage
        BY <1>1 DEF NoPin
      <4>4. Used(g) => PinsOf(pages_[g].page_id)' = PinsOf(pages_[g].page_id)
        BY <1>7, <4>1, <4>2, <4>3 DEF PinsOf, Used
      <4>5. pages_[g].pin_count = IF Used(g) THEN Cardinality(PinsOf(pages_[g].page_id)) ELSE 0
        BY DEF PoolInv, PinsExact
      <4> QED BY <4>1, <4>4, <4>5
    <3> QED BY <3>1, <3>2
  <2> QED BY <2>1, <2>2, Zenon DEF PinsExact
<1>14. NoPinIsClean'
  BY <1>7, Invalid DEF NoPinIsClean, PoolInv
<1>15. MarksExact'
  <2>1. Tracked(lru) = {g \in Frames : Used(g)}
    BY DEF PoolInv, MarksExact
  <2>2. EvictableFrames(lru) = {g \in Frames : Used(g) /\ pages_[g].pin_count = 0}
    BY DEF PoolInv, MarksExact
  <2>3. Tracked(lru') = {g \in Frames : Used(g)'}
    BY <1>3, <1>9, <1>10, <2>1
  <2>4. pages_'[f].pin_count # 0
    BY <1>4, <1>6, <1>12
  <2>5. EvictableFrames(lru') = {g \in Frames : Used(g)' /\ pages_'[g].pin_count = 0}
    BY <1>6, <1>9, <1>10, <2>2, <2>4
  <2> QED BY <1>10, <2>3, <2>5, Zenon DEF MarksExact, Counted, Tracked, EvictableFrames
<1>16. IdsBounded'
  BY <1>5 DEF PoolInv, IdsBounded
<1> QED BY <1>9, <1>11, <1>13, <1>14, <1>15, <1>16 DEF PoolInv

\* A write through the Page pointer of a holder keeps the invariant.
LEMMA WriteDataInv ==
  ASSUME PoolInv, NEW h \in Holders, NEW v \in Contents, WriteData(h, v)
  PROVE  PoolInv'
<1> DEFINE f == page_table_[held[h].page]
           q == [pages_[f] EXCEPT !.data = v]
           b == [held[h] EXCEPT !.dirty = TRUE]
<1>1. held[h] # NoPin
  BY DEF WriteData
<1>2. held[h].page \in PageIds /\ f \in Frames
  BY <1>1, HeldResident
<1>3. /\ pages_ \in [Frames -> Page]
      /\ held \in [Holders -> [page : PageIds \cup {NoPage}, dirty : BOOLEAN]]
  BY DEF PoolInv, TypeOK
<1>4. /\ q \in Page /\ q.page_id = pages_[f].page_id /\ q.pin_count = pages_[f].pin_count
      /\ b \in [page : PageIds \cup {NoPage}, dirty : BOOLEAN] /\ b.page = held[h].page
  BY <1>2, <1>3 DEF Page
<1>5. /\ pages_' = [pages_ EXCEPT ![f] = q] /\ held' = [held EXCEPT ![h] = b]
      /\ page_table_' = page_table_ /\ free_list_' = free_list_ /\ lru' = lru
      /\ disk' = disk /\ live' = live
  BY DEF WriteData
<1> HIDE DEF q, b
<1>6. /\ pages_' \in [Frames -> Page]
      /\ \A g \in Frames : /\ pages_'[g].page_id = pages_[g].page_id
                           /\ pages_'[g].pin_count = pages_[g].pin_count
  BY <1>2, <1>3, <1>4, <1>5
<1>7. /\ held' \in [Holders -> [page : PageIds \cup {NoPage}, dirty : BOOLEAN]]
      /\ \A k \in Holders : held'[k].page = held[k].page
      /\ \A k \in Holders \ {h} : held'[k] = held[k]
  BY <1>3, <1>4, <1>5
<1>8. NoPinIsClean'
  <2> SUFFICES ASSUME NEW k \in Holders, held'[k].page = NoPage PROVE ~held'[k].dirty
    BY DEF NoPinIsClean
  <2>1. k # h /\ held[k].page = NoPage /\ held'[k] = held[k]
    BY <1>2, <1>7, Invalid
  <2> QED BY <2>1, Zenon DEF PoolInv, NoPinIsClean
<1>9. IdsBounded' /\ disk' \in Disks
  BY <1>5 DEF PoolInv, IdsBounded, TypeOK
<1> QED BY <1>5, <1>6, <1>7, <1>8, <1>9, SamePins

\* FlushPage keeps the invariant.
LEMMA FlushPageInv ==
  ASSUME PoolInv, NEW p \in PageIds, FlushPage(p)
  PROVE  PoolInv'
<1> DEFINE f == page_table_[p]
           q == [pages_[f] EXCEPT !.is_dirty = FALSE]
           d == WritePage(disk, p, pages_[f].data)
<1>1. Resident(p)
  BY DEF FlushPage
<1>2. f \in Frames /\ p \in live
  BY <1>1 DEF PoolInv, TypeOK, MappingConsistent, Resident
<1>3. /\ pages_ \in [Frames -> Page] /\ disk \in Disks
      /\ held \in [Holders -> [page : PageIds \cup {NoPage}, dirty : BOOLEAN]]
  BY DEF PoolInv, TypeOK
<1>4. q \in Page /\ q.page_id = pages_[f].page_id /\ q.pin_count = pages_[f].pin_count
  BY <1>2, <1>3 DEF Page
<1>5. pages_[f].data \in Contents
  BY <1>2, <1>3 DEF Page
<1>6. d \in Disks /\ d.next_page_id = disk.next_page_id /\ d.len \in {disk.len, p + 1}
  BY <1>3, <1>5, WritePageEffect, ZenonT(40)
<1>7. /\ pages_' = [pages_ EXCEPT ![f] = q] /\ disk' = d
      /\ page_table_' = page_table_ /\ free_list_' = free_list_ /\ lru' = lru
      /\ held' = held /\ live' = live
  BY DEF FlushPage
<1> HIDE DEF q, d
<1>8. /\ pages_' \in [Frames -> Page]
      /\ \A g \in Frames : /\ pages_'[g].page_id = pages_[g].page_id
                           /\ pages_'[g].pin_count = pages_[g].pin_count
  BY <1>2, <1>3, <1>4, <1>7
<1>9. IdsBounded'
  <2>1. p < disk.next_page_id /\ disk.len <= disk.next_page_id
    BY <1>2 DEF PoolInv, IdsBounded
  <2>2. p \in Int /\ disk.next_page_id \in Int
    BY <1>3 DEF Disks, PageIds
  <2>3. disk'.len <= disk'.next_page_id
    BY <1>6, <1>7, <2>1, <2>2
  <2> QED BY <1>6, <1>7, <2>3 DEF PoolInv, IdsBounded
<1>10. NoPinIsClean' /\ disk' \in Disks
  BY <1>6, <1>7 DEF PoolInv, NoPinIsClean
<1> QED BY <1>3, <1>7, <1>8, <1>9, <1>10, SamePins

\* FlushAllPages keeps the invariant.
LEMMA FlushAllPagesInv ==
  ASSUME PoolInv, FlushAllPages
  PROVE  PoolInv'
<1> DEFINE S == {p \in PageIds : \E f \in Frames : pages_[f].page_id = p}
           data == [p \in S |-> pages_[CHOOSE f \in Frames : pages_[f].page_id = p].data]
           d == WritePages(disk, S, data)
<1>1. /\ pages_ \in [Frames -> Page] /\ disk \in Disks
      /\ held \in [Holders -> [page : PageIds \cup {NoPage}, dirty : BOOLEAN]]
  BY DEF PoolInv, TypeOK
<1>2. data \in [S -> Contents]
  <2>1. ASSUME NEW p \in S PROVE pages_[CHOOSE f \in Frames : pages_[f].page_id = p].data \in Contents
    <3>1. (CHOOSE f \in Frames : pages_[f].page_id = p) \in Frames
      BY <2>1
    <3> QED BY <1>1, <3>1 DEF Page
  <2> QED BY <2>1
<1>3. S \in SUBSET PageIds
  OBVIOUS
<1>4. disk' = d
  BY DEF FlushAllPages
<1>5. d \in Disks /\ d.next_page_id = disk.next_page_id /\ d.len \in {disk.len, Extent(disk.len, S)}
  <2> HIDE DEF S, data
  <2> QED BY <1>1, <1>2, <1>3, WritePagesEffect
<1>6. /\ pages_' = [f \in Frames |-> IF pages_[f].page_id = NoPage THEN pages_[f]
                                     ELSE [pages_[f] EXCEPT !.is_dirty = FALSE]]
      /\ page_table_' = page_table_ /\ free_list_' = free_list_ /\ lru' = lru
      /\ held' = held /\ live' = live
  BY DEF FlushAllPages
<1>7. /\ pages_' \in [Frames -> Page]
      /\ \A g \in Frames : /\ pages_'[g].page_id = pages_[g].page_id
                           /\ pages_'[g].pin_count = pages_[g].pin_count
  BY <1>1, <1>6 DEF Page
<1>8. \A p \in S : p < disk.next_page_id /\ p \in Int
  <2> SUFFICES ASSUME NEW p \in S PROVE p < disk.next_page_id /\ p \in Int
    OBVIOUS
  <2>1. PICK f \in Frames : pages_[f].page_id = p
    OBVIOUS
  <2>2. page_table_[p] = f
    BY <2>1, Invalid DEF PoolInv, MappingConsistent, Used
  <2>3. p \in live
    BY <2>2, Invalid DEF PoolInv, MappingConsistent, Resident
  <2> QED BY <2>3 DEF PoolInv, IdsBounded, PageIds
<1>9. Extent(disk.len, S) <= disk.next_page_id
  <2> HIDE DEF S
  <2>1. disk.len \in 0 .. MaxPages /\ disk.next_page_id \in 0 .. MaxPages /\ disk.len <= disk.next_page_id
    BY <1>1 DEF Disks, PoolInv, IdsBounded
  <2>2. /\ Extent(disk.len, S) \in 0 .. MaxPages
        /\ \A q \in PageIds : q < Extent(disk.len, S) <=> (q < disk.len \/ \E p \in S : q <= p)
    BY <1>3, <2>1, ExtentEffect
  <2> SUFFICES ASSUME disk.next_page_id < Extent(disk.len, S) PROVE FALSE
    BY <2>1, <2>2
  <2>3. disk.next_page_id \in PageIds
    BY <2>1, <2>2, DiskAssumption DEF PageIds
  <2>4. \E p \in S : disk.next_page_id <= p
    BY <2>1, <2>2, <2>3
  <2> QED BY <1>8, <2>1, <2>4
<1> HIDE DEF S, d
<1>10. IdsBounded'
  <2>1. disk'.len <= disk'.next_page_id
    BY <1>4, <1>5, <1>9 DEF PoolInv, IdsBounded
  <2> QED BY <1>4, <1>5, <1>6, <2>1 DEF PoolInv, IdsBounded
<1>11. NoPinIsClean' /\ disk' \in Disks
  BY <1>4, <1>5, <1>6 DEF PoolInv, NoPinIsClean
<1> QED BY <1>1, <1>6, <1>7, <1>10, <1>11, SamePins

\* UnpinPage by a holder never meets its early return, and keeps the invariant.
LEMMA UnpinPageInv ==
  ASSUME PoolInv, NEW h \in Holders, NEW b \in BOOLEAN, UnpinPage(h, b)
  PROVE  PoolInv'
<1> DEFINE p == held[h].page
           f == page_table_[p]
           w == DirtyAfterUnpin(pages_[f].is_dirty, b)
           n == pages_[f].pin_count
           q == [pages_[f] EXCEPT !.is_dirty = w, !.pin_count = n - 1]
<1>1. held[h] # NoPin
  BY DEF UnpinPage
<1>2. /\ p \in PageIds /\ Resident(p) /\ f \in Frames /\ pages_[f].page_id = p
      /\ n = Cardinality(PinsOf(p)) /\ n \in Nat \ {0}
  BY <1>1, HeldResident
<1>3. f # NoFrame /\ ~(n <= 0)
  BY <1>2, Invalid
<1>4. /\ pages_ \in [Frames -> Page] /\ lru \in Replacers /\ Counted(lru)
      /\ held \in [Holders -> [page : PageIds \cup {NoPage}, dirty : BOOLEAN]]
  BY DEF PoolInv, TypeOK, MarksExact
<1>5. w \in BOOLEAN
  BY DEF DirtyAfterUnpin
<1>6. /\ pages_' = [pages_ EXCEPT ![f] = q]
      /\ lru' = IF n = 1 THEN SetEvictable(lru, f, TRUE) ELSE lru
      /\ held' = [held EXCEPT ![h] = NoPin]
      /\ page_table_' = page_table_ /\ free_list_' = free_list_ /\ disk' = disk /\ live' = live
  <2>1. pages_' = [pages_ EXCEPT ![f].is_dirty = DirtyAfterUnpin(@, b), ![f].pin_count = @ - 1]
    BY <1>3, Zenon DEF UnpinPage
  <2>2. pages_' = [pages_ EXCEPT ![f] = q]
    BY <1>2, <1>4, <2>1 DEF Page
  <2>3. lru' = IF n = 1 THEN SetEvictable(lru, f, TRUE) ELSE lru
    BY <1>3, Zenon DEF UnpinPage
  <2>4. /\ held' = [held EXCEPT ![h] = NoPin]
        /\ page_table_' = page_table_ /\ free_list_' = free_list_ /\ disk' = disk /\ live' = live
    BY Zenon DEF UnpinPage
  <2> QED BY <2>2, <2>3, <2>4, Zenon
<1> HIDE DEF w
<1>7. q \in Page /\ q.page_id = p /\ q.pin_count = n - 1
  <2>1. pages_[f] \in Page /\ n - 1 \in Int
    BY <1>2, <1>4
  <2>2. PICK u \in Page, m \in Int, x \in BOOLEAN : u = pages_[f] /\ m = n - 1 /\ x = w
    BY <1>5, <2>1, Zenon
  <2>3. q = [u EXCEPT !.is_dirty = x, !.pin_count = m]
    BY <2>2, Zenon
  <2> HIDE DEF q
  <2>4. q \in Page /\ q.page_id = u.page_id /\ q.pin_count = m
    BY ONLY <2>3, u \in Page, m \in Int, x \in BOOLEAN DEF Page
  <2> QED BY <1>2, <2>2, <2>4
<1> HIDE DEF q
<1>8. pages_' \in [Frames -> Page] /\ pages_'[f] = q /\ \A g \in Frames \ {f} : pages_'[g] = pages_[g]
  BY <1>2, <1>4, <1>6, <1>7
<1>9. /\ held' \in [Holders -> [page : PageIds \cup {NoPage}, dirty : BOOLEAN]]
      /\ held'[h] = NoPin /\ \A k \in Holders \ {h} : held'[k] = held[k]
  BY <1>4, <1>6 DEF NoPin
<1>10. held'[h].page = NoPage /\ ~held'[h].dirty
  BY <1>9 DEF NoPin
<1>11. \A g \in Frames : pages_'[g].page_id = pages_[g].page_id
  BY <1>2, <1>7, <1>8
<1>12. /\ MappingConsistent' /\ FramesPartitioned'
       /\ \A g \in Frames : Used(g)' <=> Used(g)
       /\ \A x \in PageIds : Resident(x)' <=> Resident(x)
  BY <1>6, <1>8, <1>11, SameMapping
<1>13. Used(f) /\ f \in Tracked(lru) /\ f \notin EvictableFrames(lru)
  <2>1. Used(f)
    BY <1>2, Invalid DEF Used
  <2> QED BY <1>2, <2>1 DEF PoolInv, MarksExact
<1>14. /\ lru' \in Replacers /\ Counted(lru') /\ Tracked(lru') = Tracked(lru)
       /\ n = 1 => EvictableFrames(lru') = EvictableFrames(lru) \cup {f}
       /\ n # 1 => EvictableFrames(lru') = EvictableFrames(lru)
  <2>1. CASE n = 1
    BY <1>4, <1>6, <1>13, <2>1, MarkSets
  <2>2. CASE n # 1
    BY <1>4, <1>6, <2>2
  <2> QED BY <2>1, <2>2
<1>15. TypeOK'
  BY <1>6, <1>8, <1>9, <1>14 DEF PoolInv, TypeOK
<1>16. PinsExact'
  <2>1. ASSUME NEW k \in Holders, held'[k].page # NoPage PROVE Resident(held[k].page)'
    <3>1. k # h /\ held'[k] = held[k]
      BY <1>9, <1>10, <2>1
    <3> QED BY <1>6, <2>1, <3>1 DEF PoolInv, PinsExact, Resident
  <2>2. ASSUME NEW g \in Frames
        PROVE  pages_'[g].pin_count = IF Used(g)' THEN Cardinality(PinsOf(pages_[g].page_id)') ELSE 0
    <3>1. CASE g = f
      <4>1. PinsOf(pages_[g].page_id)' = PinsOf(p) \ {h}
        BY <1>2, <1>9, <1>10, <1>11, <3>1, Invalid DEF PinsOf
      <4>2. h \in PinsOf(p) /\ IsFiniteSet(PinsOf(p))
        BY PoolAssumption, FS_Subset DEF PinsOf
      <4>3. Cardinality(PinsOf(p) \ {h}) = Cardinality(PinsOf(p)) - 1
        BY <4>2, FS_RemoveElement
      <4>4. pages_'[g].pin_count = Cardinality(PinsOf(p)) - 1 /\ Used(g)'
        BY <1>2, <1>7, <1>8, <1>12, <1>13, <3>1
      <4> QED BY <4>1, <4>3, <4>4
    <3>2. CASE g # f
      <4>1. pages_'[g] = pages_[g] /\ (Used(g)' <=> Used(g))
        BY <1>8, <1>12, <3>2
      <4>2. Used(g) => pages_[g].page_id # p
        BY <3>2 DEF PoolInv, MappingConsistent
      <4>3. Used(g) => PinsOf(pages_[g].page_id)' = PinsOf(pages_[g].page_id)
        BY <1>9, <1>10, <4>1, <4>2 DEF PinsOf, Used
      <4>4. pages_[g].pin_count = IF Used(g) THEN Cardinality(PinsOf(pages_[g].page_id)) ELSE 0
        BY DEF PoolInv, PinsExact
      <4> QED BY <4>1, <4>3, <4>4
    <3> QED BY <3>1, <3>2
  <2> QED BY <2>1, <2>2, Zenon DEF PinsExact
<1>17. NoPinIsClean'
  <2> SUFFICES ASSUME NEW k \in Holders, held'[k].page = NoPage PROVE ~held'[k].dirty
    BY DEF NoPinIsClean
  <2>1. CASE k = h
    BY <1>10, <2>1
  <2>2. CASE k # h
    <3>1. held'[k] = held[k]
      BY <1>9, <2>2
    <3> QED BY <3>1, Zenon DEF PoolInv, NoPinIsClean
  <2> QED BY <2>1, <2>2
<1>18. MarksExact'
  <2>1. Tracked(lru) = {g \in Frames : Used(g)}
    BY DEF PoolInv, MarksExact
  <2>2. EvictableFrames(lru) = {g \in Frames : Used(g) /\ pages_[g].pin_count = 0}
    BY DEF PoolInv, MarksExact
  <2>3. Tracked(lru') = {g \in Frames : Used(g)'}
    BY <1>12, <1>14, <2>1
  <2>4. pages_'[f].pin_count = n - 1 /\ n \in Nat /\ n # 0
    BY <1>2, <1>7, <1>8
  <2>5. EvictableFrames(lru') = {g \in Frames : Used(g)' /\ pages_'[g].pin_count = 0}
    <3>1. ASSUME NEW g \in Frames PROVE g \in EvictableFrames(lru') <=> Used(g)' /\ pages_'[g].pin_count = 0
      <4>1. CASE g = f
        BY <1>12, <1>13, <1>14, <2>4, <4>1
      <4>2. CASE g # f
        <5>1. g \in EvictableFrames(lru') <=> g \in EvictableFrames(lru)
          BY <1>14, <4>2
        <5> QED BY <1>8, <1>12, <2>2, <4>2, <5>1
      <4> QED BY <4>1, <4>2
    <3>2. EvictableFrames(lru') \subseteq Frames
      BY DEF EvictableFrames, Tracked
    <3> QED BY <3>1, <3>2, Zenon
  <2> QED BY <1>14, <2>3, <2>5, Zenon DEF MarksExact, Counted, Tracked, EvictableFrames
<1>19. IdsBounded'
  BY <1>6 DEF PoolInv, IdsBounded
<1> QED BY <1>12, <1>15, <1>16, <1>17, <1>18, <1>19 DEF PoolInv

\* A resident page whose count is zero has its frame in the replacer, so Remove
\* does not throw and DeletePage reaches its end.
LEMMA DeleteUnpinned ==
  ASSUME PoolInv, NEW p \in PageIds, DeleteResident(p)
  PROVE  /\ page_table_[p] \in EvictableFrames(lru) /\ page_table_[p] \in Frames
         /\ pages_[page_table_[p]].page_id = p
         /\ \A h \in Holders : held[h].page # p
<1> DEFINE f == page_table_[p]
<1>1. Resident(p) /\ pages_[f].pin_count <= 0
  BY DEF DeleteResident
<1>2. f \in Frames /\ pages_[f].page_id = p /\ Used(f)
  BY <1>1, Invalid DEF PoolInv, TypeOK, MappingConsistent, Resident, Used
<1>3. IsFiniteSet(PinsOf(p))
  BY PoolAssumption, FS_Subset DEF PinsOf
<1>4. pages_[f].pin_count = Cardinality(PinsOf(p)) /\ Cardinality(PinsOf(p)) \in Nat
  BY <1>2, <1>3, FS_CardinalityType DEF PoolInv, PinsExact
<1>5. pages_[f].pin_count = 0
  BY <1>1, <1>4
<1>6. PinsOf(p) = {}
  BY <1>3, <1>4, <1>5, FS_EmptySet
<1>7. f \in EvictableFrames(lru)
  BY <1>2, <1>5 DEF PoolInv, MarksExact
<1>8. \A h \in Holders : held[h].page # p
  BY <1>6, Zenon DEF PinsOf
<1> QED BY <1>2, <1>7, <1>8

\* DeletePage of an unpinned resident page keeps the invariant.
LEMMA DeleteResidentInv ==
  ASSUME PoolInv, NEW p \in PageIds, DeleteResident(p)
  PROVE  PoolInv'
<1>1. PICK f \in Frames : /\ f = page_table_[p] /\ f \in EvictableFrames(lru) /\ pages_[f].page_id = p
                          /\ \A h \in Holders : held[h].page # p
  BY DeleteUnpinned
<1>2. /\ pages_ \in [Frames -> Page] /\ page_table_ \in [PageIds -> Frames \cup {NoFrame}]
      /\ free_list_ \in Seq(Frames) /\ lru \in Replacers /\ Counted(lru)
      /\ held \in [Holders -> [page : PageIds \cup {NoPage}, dirty : BOOLEAN]]
      /\ live \in SUBSET PageIds
  BY DEF PoolInv, TypeOK, MarksExact
<1>3. /\ page_table_' = [page_table_ EXCEPT ![p] = NoFrame] /\ live' = live \ {p}
      /\ lru' = EraseEntry(lru, f) /\ free_list_' = Append(free_list_, f)
      /\ pages_' = [pages_ EXCEPT ![f] = EmptyPage] /\ disk' = disk /\ held' = held
  <2>1. f \in Tracked(lru)
    BY <1>1 DEF EvictableFrames
  <2> QED BY <1>1, <2>1, Zenon DEF DeleteResident, DeallocatePage
<1>4. EmptyPage \in Page /\ EmptyPage.page_id = NoPage /\ EmptyPage.pin_count = 0
  BY DiskAssumption DEF EmptyPage, Page
<1>5. pages_' \in [Frames -> Page] /\ pages_'[f] = EmptyPage /\ \A g \in Frames \ {f} : pages_'[g] = pages_[g]
  BY <1>1, <1>2, <1>3, <1>4
<1>6. /\ page_table_' \in [PageIds -> Frames \cup {NoFrame}] /\ page_table_'[p] = NoFrame
      /\ \A x \in PageIds \ {p} : page_table_'[x] = page_table_[x]
  BY <1>2, <1>3
<1>7. /\ lru' \in Replacers /\ Counted(lru')
      /\ Tracked(lru') = Tracked(lru) \ {f}
      /\ EvictableFrames(lru') = EvictableFrames(lru) \ {f}
  BY <1>1, <1>2, <1>3, EraseSets
<1>8. Used(f) /\ ~Used(f)' /\ \A g \in Frames \ {f} : Used(g)' <=> Used(g)
  BY <1>1, <1>4, <1>5, Invalid DEF Used
<1>9. free_list_' \in Seq(Frames)
  BY <1>1, <1>2, <1>3
<1>10. TypeOK'
  BY <1>2, <1>3, <1>5, <1>6, <1>7, <1>9 DEF PoolInv, TypeOK
<1>11. MappingConsistent'
  <2>1. ASSUME NEW x \in PageIds, Resident(x)'
        PROVE  pages_'[page_table_'[x]].page_id = x /\ x \in live'
    <3>1. x # p /\ page_table_'[x] = page_table_[x] /\ Resident(x)
      BY <1>6, <2>1 DEF Resident
    <3>2. pages_[page_table_[x]].page_id = x /\ x \in live /\ page_table_[x] \in Frames
      BY <1>2, <3>1 DEF PoolInv, MappingConsistent, Resident
    <3>3. page_table_[x] # f
      BY <1>1, <3>1, <3>2
    <3> QED BY <1>3, <1>5, <3>1, <3>2, <3>3
  <2>2. ASSUME NEW g \in Frames, Used(g)'
        PROVE  page_table_'[pages_'[g].page_id] = g
    <3>1. g # f /\ Used(g) /\ pages_'[g] = pages_[g]
      BY <1>5, <1>8, <2>2
    <3>2. page_table_[pages_[g].page_id] = g
      BY <3>1 DEF PoolInv, MappingConsistent
    <3>3. pages_[g].page_id \in PageIds /\ pages_[g].page_id # p
      BY <1>1, <1>2, <3>1, <3>2 DEF Used, Page
    <3> QED BY <1>6, <3>1, <3>2, <3>3
  <2> QED BY <2>1, <2>2 DEF MappingConsistent
<1>12. FramesPartitioned'
  <2>1. /\ \A g \in Frames : Used(g) <=> ~InFree(g)
        /\ \A i, j \in DOMAIN free_list_ : free_list_[i] = free_list_[j] => i = j
    BY DEF PoolInv, FramesPartitioned, InFree
  <2> DEFINE n == Len(free_list_)
  <2>2. /\ n \in Nat /\ DOMAIN free_list_ = 1 .. n /\ DOMAIN free_list_' = 1 .. n + 1
        /\ free_list_'[n + 1] = f /\ \A i \in 1 .. n : free_list_'[i] = free_list_[i]
    BY <1>2, <1>3
  <2>3. \A i \in 1 .. n : free_list_[i] # f
    BY <1>8, <2>1, <2>2 DEF InFree
  <2>4. \A i, j \in DOMAIN free_list_' : free_list_'[i] = free_list_'[j] => i = j
    BY <2>1, <2>2, <2>3
  <2>5. \A g \in Frames \ {f} : InFree(g)' <=> InFree(g)
    BY <2>2 DEF InFree
  <2>6. InFree(f)'
    <3>1. n + 1 \in DOMAIN free_list_'
      BY <2>2
    <3>2. \E i \in DOMAIN free_list_' : free_list_'[i] = f
      BY <2>2, <3>1
    <3> QED BY <3>2 DEF InFree
  <2>7. \A g \in Frames : Used(g)' <=> ~InFree(g)'
    BY <1>8, <2>1, <2>5, <2>6, Zenon
  <2> QED BY <2>4, <2>7 DEF FramesPartitioned, InFree
<1>13. PinsExact'
  <2>1. ASSUME NEW k \in Holders, held'[k].page # NoPage PROVE Resident(held[k].page)'
    <3>1. Resident(held[k].page) /\ held[k].page # p /\ held[k].page \in PageIds
      BY <1>1, <1>2, <1>3, <2>1 DEF PoolInv, PinsExact
    <3> QED BY <1>3, <1>6, <3>1 DEF Resident
  <2>2. ASSUME NEW g \in Frames
        PROVE  pages_'[g].pin_count = IF Used(g)' THEN Cardinality(PinsOf(pages_[g].page_id)') ELSE 0
    <3>1. CASE g = f
      BY <1>4, <1>5, <1>8, <3>1
    <3>2. CASE g # f
      <4>1. pages_'[g] = pages_[g] /\ (Used(g)' <=> Used(g))
        BY <1>5, <1>8, <3>2
      <4>2. PinsOf(pages_[g].page_id)' = PinsOf(pages_[g].page_id)
        BY <1>3, <4>1 DEF PinsOf
      <4> QED BY <4>1, <4>2 DEF PoolInv, PinsExact
    <3> QED BY <3>1, <3>2
  <2> QED BY <2>1, <2>2, Zenon DEF PinsExact
<1>14. NoPinIsClean' /\ IdsBounded'
  BY <1>3 DEF PoolInv, NoPinIsClean, IdsBounded
<1>15. MarksExact'
  <2>1. Tracked(lru) = {g \in Frames : Used(g)}
    BY DEF PoolInv, MarksExact
  <2>2. EvictableFrames(lru) = {g \in Frames : Used(g) /\ pages_[g].pin_count = 0}
    BY DEF PoolInv, MarksExact
  <2>3. Tracked(lru') = {g \in Frames : Used(g)'}
    BY <1>7, <1>8, <2>1
  <2>4. EvictableFrames(lru') = {g \in Frames : Used(g)' /\ pages_'[g].pin_count = 0}
    BY <1>5, <1>7, <1>8, <2>2
  <2> QED BY <1>7, <2>3, <2>4, Zenon DEF MarksExact, Counted, Tracked, EvictableFrames
<1> QED BY <1>10, <1>11, <1>12, <1>13, <1>14, <1>15 DEF PoolInv

\* DeletePage of a page that is not resident keeps the invariant.
LEMMA DeleteAbsentInv ==
  ASSUME PoolInv, NEW p \in PageIds, DeleteAbsent(p)
  PROVE  PoolInv'
<1>1. /\ ~Resident(p) /\ live' = live \ {p} /\ pages_' = pages_ /\ page_table_' = page_table_
      /\ free_list_' = free_list_ /\ lru' = lru /\ disk' = disk /\ held' = held
  BY DEF DeleteAbsent
<1>2. TypeOK' /\ NoPinIsClean' /\ IdsBounded'
  BY <1>1 DEF PoolInv, TypeOK, NoPinIsClean, IdsBounded
<1>3. MappingConsistent'
  BY <1>1 DEF PoolInv, MappingConsistent, Resident, Used
<1>4. FramesPartitioned'
  BY <1>1 DEF PoolInv, FramesPartitioned, Used
<1>5. PinsExact'
  BY <1>1 DEF PoolInv, PinsExact, Resident, PinsOf, Used
<1>6. MarksExact'
  BY <1>1 DEF PoolInv, MarksExact, Counted, Tracked, EvictableFrames, Used
<1> QED BY <1>2, <1>3, <1>4, <1>5, <1>6 DEF PoolInv

\* A pool without pages, over any file.
EmptyPool ==
  /\ lru = EmptyReplacer
  /\ pages_ = [f \in Frames |-> EmptyPage]
  /\ page_table_ = [p \in PageIds |-> NoFrame]
  /\ free_list_ = [i \in 1 .. PoolSize |-> i - 1]
  /\ held = [h \in Holders |-> NoPin]
  /\ disk \in Disks /\ live \in SUBSET PageIds /\ IdsBounded

\* An empty pool satisfies the invariant: all frames free, nothing pinned.
LEMMA EmptyPoolInv == EmptyPool => PoolInv
<1> SUFFICES ASSUME EmptyPool PROVE PoolInv
  OBVIOUS
<1> USE DEF EmptyPool
<1>1. EmptyPage \in Page /\ EmptyPage.page_id = NoPage /\ EmptyPage.pin_count = 0
  BY DiskAssumption DEF EmptyPage, Page
<1>2. \A f \in Frames : pages_[f] = EmptyPage /\ ~Used(f)
  BY <1>1 DEF Used
<1>3. PoolSize \in Nat
  BY ReplacerAssumption
<1>4. free_list_ \in Seq(Frames) /\ DOMAIN free_list_ = 1 .. PoolSize
  <2>1. \A i \in 1 .. PoolSize : i - 1 \in Frames
    BY <1>3 DEF Frames
  <2> QED BY <1>3, <2>1
<1>5. lru \in Replacers
  BY DEF EmptyReplacer, Replacers
<1>6. TypeOK
  <2>1. pages_ \in [Frames -> Page]
    BY <1>1
  <2>2. held \in [Holders -> [page : PageIds \cup {NoPage}, dirty : BOOLEAN]]
    BY DEF NoPin
  <2> QED BY <1>4, <1>5, <2>1, <2>2 DEF TypeOK
<1>7. MappingConsistent
  BY <1>2 DEF MappingConsistent, Resident
<1>8. FramesPartitioned
  <2>1. ASSUME NEW f \in Frames PROVE \E i \in DOMAIN free_list_ : free_list_[i] = f
    <3>1. f + 1 \in 1 .. PoolSize /\ (f + 1) - 1 = f
      BY <1>3 DEF Frames
    <3>2. f + 1 \in DOMAIN free_list_ /\ free_list_[f + 1] = f
      BY <1>4, <3>1
    <3> QED BY <3>2
  <2>2. \A i, j \in DOMAIN free_list_ : free_list_[i] = free_list_[j] => i = j
    BY <1>4
  <2> QED BY <1>2, <2>1, <2>2 DEF FramesPartitioned
<1>9. \A h \in Holders : held[h].page = NoPage /\ ~held[h].dirty
  BY DEF NoPin
<1>10. PinsExact
  BY <1>1, <1>2, <1>9 DEF PinsExact
<1>11. NoPinIsClean
  BY <1>9 DEF NoPinIsClean
<1>12. MarksExact
  <2>1. /\ Tracked(lru) = {} /\ EvictableFrames(lru) = {}
        /\ lru.size = 0 /\ \A f \in Frames : ~lru.evictable[f]
    BY DEF EmptyReplacer, EvictableFrames, Tracked
  <2>2. Counted(lru)
    BY <2>1, FS_EmptySet DEF Counted
  <2> QED BY <1>2, <2>1, <2>2 DEF MarksExact
<1> QED BY <1>6, <1>7, <1>8, <1>10, <1>11, <1>12 DEF PoolInv

\* And so it does after a step.
LEMMA EmptyPoolNext == EmptyPool' => PoolInv'
BY EmptyPoolInv, PTL

\* The first process starts from an empty file.
LEMMA InitInv == Init => PoolInv
<1> SUFFICES ASSUME Init PROVE PoolInv
  OBVIOUS
<1>1. disk \in Disks /\ IdsBounded
  BY DiskAssumption DEF Init, EmptyDisk, Disks, IdsBounded
<1> QED BY <1>1, EmptyPoolInv DEF Init, LRUInit, EmptyPool

\* A later process starts from the file that the earlier one left.
LEMMA RestartInv ==
  ASSUME PoolInv, Restart
  PROVE  PoolInv'
<1>1. disk \in Disks
  BY DEF PoolInv, TypeOK
<1>2. disk' \in Disks /\ disk'.len = disk.len /\ disk'.next_page_id = disk.len
  BY <1>1 DEF Restart, OpenDisk, Disks
<1>3. live' \in SUBSET PageIds /\ \A p \in live' : p < disk.len
  BY DEF Restart, InFile
<1>4. IdsBounded'
  BY <1>1, <1>2, <1>3 DEF IdsBounded, Disks
<1>5. /\ lru' = EmptyReplacer /\ pages_' = [f \in Frames |-> EmptyPage]
      /\ page_table_' = [p \in PageIds |-> NoFrame]
      /\ free_list_' = [i \in 1 .. PoolSize |-> i - 1]
      /\ held' = [h \in Holders |-> NoPin]
  BY DEF Restart
<1>6. EmptyPool'
  BY <1>2, <1>3, <1>4, <1>5 DEF EmptyPool
<1> QED BY <1>6, EmptyPoolNext

\* Every operation keeps the invariant.
LEMMA NextInv ==
  ASSUME PoolInv, [Next]_vars
  PROVE  PoolInv'
<1>1. CASE UNCHANGED vars
  BY <1>1 DEF vars, PoolInv, TypeOK, MappingConsistent, FramesPartitioned, PinsExact, NoPinIsClean,
              MarksExact, IdsBounded, Counted, Tracked, EvictableFrames, Resident, Used, PinsOf
<1>2. ASSUME NEW h \in Holders, NewPage(h) PROVE PoolInv'
  BY <1>2, NewPageInv
<1>3. ASSUME NEW h \in Holders, NEW p \in PageIds, FetchPage(h, p) PROVE PoolInv'
  BY <1>3, FetchHitInv, FetchMissInv DEF FetchPage
<1>4. ASSUME NEW h \in Holders, NEW v \in Contents, WriteData(h, v) PROVE PoolInv'
  BY <1>4, WriteDataInv
<1>5. ASSUME NEW h \in Holders, NEW b \in BOOLEAN, UnpinPage(h, b) PROVE PoolInv'
  BY <1>5, UnpinPageInv
<1>6. ASSUME NEW p \in PageIds, FlushPage(p) PROVE PoolInv'
  BY <1>6, FlushPageInv
<1>7. ASSUME NEW p \in PageIds, DeletePage(p) PROVE PoolInv'
  BY <1>1, <1>7, DeleteAbsentInv, DeleteResidentInv DEF DeletePage, DeletePinned
<1>8. CASE FlushAllPages
  BY <1>8, FlushAllPagesInv
<1>9. CASE PoolExhausted
  BY <1>1, <1>9 DEF PoolExhausted
<1>10. CASE Restart
  BY <1>10, RestartInv
<1> QED BY <1>1, <1>2, <1>3, <1>4, <1>5, <1>6, <1>7, <1>8, <1>9, <1>10 DEF Next

-----------------------------------------------------------------------------
(* The theorems. *)

\* PoolInv holds in every state.
LEMMA PoolInvariant == Spec => []PoolInv
BY InitInv, NextInv, PTL DEF Spec

\* The page table, the frames and the free list describe one mapping in every
\* state, whatever evictions, deletions and restarts came before.
THEOREM PoolIsConsistent == Spec => []PoolConsistent
<1>1. PoolInv => PoolConsistent
  BY DEF PoolInv, PoolConsistent
<1> QED BY <1>1, PoolInvariant, PTL

\* Pin counts are exact and the replacer may evict exactly the unpinned pages:
\* FetchPage never evicts a pinned page, UnpinPage never meets a count of zero,
\* and Remove never throws inside DeletePage.
THEOREM PinsAreRespected == Spec => []PinsRespected
<1>1. PoolInv => PinsRespected
  BY MarksAreEvictableExact DEF PoolInv, PinsRespected
<1> QED BY <1>1, PoolInvariant, PTL

-----------------------------------------------------------------------------
(* Nothing is lost when a clean page is dropped. *)

\* Frame f holds a page that is not dirty and that no holder will mark dirty.
Settled(f) ==
  /\ Used(f) /\ ~pages_[f].is_dirty
  /\ \A h \in Holders : held[h].page = pages_[f].page_id => ~held[h].dirty

\* The page in frame f is in the file, with the same content.
Stored(f) ==
  InFile(disk, pages_[f].page_id) /\ disk.file[pages_[f].page_id] = pages_[f].data

DurableInv ==
  /\ \A f \in Frames : Settled(f) => Stored(f)
  /\ \A p \in live : Resident(p) \/ InFile(disk, p)
  /\ Good(disk)

\* DurableInv is CleanIsDurable.
LEMMA DurableIsClean == TypeOK => (DurableInv <=> CleanIsDurable)
<1> SUFFICES ASSUME TypeOK PROVE DurableInv <=> CleanIsDurable
  OBVIOUS
<1>1. disk.fail \in BOOLEAN
  BY DEF TypeOK, Disks
<1>2. ~disk.fail <=> Good(disk)
  BY <1>1 DEF Good
<1>3. \A f \in Frames : Settled(f) <=> Used(f) /\ ~pages_[f].is_dirty
                                         /\ (\A h \in PinsOf(pages_[f].page_id) : ~held[h].dirty)
  BY Zenon DEF Settled, PinsOf
<1> QED BY <1>2, <1>3, Zenon DEF DurableInv, CleanIsDurable, Stored

\* One WritePage on a good stream: the page is stored, and the pages below it
\* are in the file as well.
LEMMA WriteStores ==
  ASSUME NEW d \in Disks, NEW p \in PageIds, NEW v \in Contents, Good(d)
  PROVE  /\ Good(WritePage(d, p, v))
         /\ \A x \in PageIds : WritePage(d, p, v).file[x] = IF x = p THEN v ELSE d.file[x]
         /\ \A x \in PageIds : InFile(WritePage(d, p, v), x) <=> (InFile(d, x) \/ x <= p)
<1> DEFINE e == WritePage(d, p, v)
<1>1. /\ Good(e) /\ e.file = [d.file EXCEPT ![p] = v]
      /\ e.len \in {d.len, p + 1} /\ d.len <= e.len /\ p < e.len
  BY WritePageEffect
<1> HIDE DEF e
<1>2. d.file \in [PageIds -> Contents] /\ d.len \in Nat
  BY DEF Disks
<1>3. \A x \in PageIds : e.file[x] = IF x = p THEN v ELSE d.file[x]
  BY <1>1, <1>2
<1>4. \A x \in PageIds : InFile(e, x) <=> (InFile(d, x) \/ x <= p)
  BY <1>1, <1>2 DEF InFile, PageIds
<1> QED BY <1>1, <1>3, <1>4 DEF e

\* Whatever frame is taken, its page is in the file afterwards, with the content
\* it had in the frame: written now if dirty, and before if not.
LEMMA TakeStores ==
  ASSUME PoolInv, DurableInv, NEW f \in Frames, TakeFrame(f)
  PROVE  /\ Good(DiskAfterTake(f))
         /\ \A x \in PageIds : DiskAfterTake(f).file[x] =
              IF Used(f) /\ x = pages_[f].page_id THEN pages_[f].data ELSE disk.file[x]
         /\ \A x \in PageIds : InFile(DiskAfterTake(f), x) <=>
              (InFile(disk, x) \/ (Used(f) /\ x <= pages_[f].page_id))
<1> DEFINE old == pages_[f].page_id
<1>1. disk \in Disks /\ Good(disk) /\ pages_ \in [Frames -> Page]
  BY DEF PoolInv, TypeOK, DurableInv
<1>2. CASE ~Used(f)
  BY <1>1, <1>2, Zenon DEF DiskAfterTake, Used
<1>3. CASE Used(f) /\ pages_[f].is_dirty
  <2>1. old \in PageIds /\ pages_[f].data \in Contents
    BY <1>1, <1>3 DEF Page, Used
  <2>2. DiskAfterTake(f) = WritePage(disk, old, pages_[f].data)
    BY <1>3, Zenon DEF DiskAfterTake, Used
  <2> DEFINE d == WritePage(disk, old, pages_[f].data)
  <2>3. /\ Good(d)
        /\ \A x \in PageIds : d.file[x] = IF x = old THEN pages_[f].data ELSE disk.file[x]
        /\ \A x \in PageIds : InFile(d, x) <=> (InFile(disk, x) \/ x <= old)
    BY <1>1, <2>1, WriteStores
  <2> HIDE DEF d
  <2>4. \A x \in PageIds : d.file[x] = IF Used(f) /\ x = old THEN pages_[f].data ELSE disk.file[x]
    BY <1>3, <2>3
  <2>5. \A x \in PageIds : InFile(d, x) <=> (InFile(disk, x) \/ (Used(f) /\ x <= old))
    BY <1>3, <2>3, Zenon
  <2> QED BY <2>2, <2>3, <2>4, <2>5, Zenon DEF d
<1>4. CASE Used(f) /\ ~pages_[f].is_dirty
  <2>1. DiskAfterTake(f) = disk
    BY <1>4, Zenon DEF DiskAfterTake
  <2>2. \A h \in Holders : held[h].page # old
    BY <1>4, TakeUnpinned DEF Used
  <2>3. Settled(f)
    BY <1>4, <2>2, Zenon DEF Settled
  <2>4. InFile(disk, old) /\ disk.file[old] = pages_[f].data
    BY <2>3 DEF DurableInv, Stored
  <2>5. old \in PageIds /\ disk.len \in Nat
    BY <1>1, <1>4 DEF Page, Used, Disks
  <2>6. \A x \in PageIds : x <= old => InFile(disk, x)
    BY <2>4, <2>5 DEF InFile, PageIds
  <2>7. \A x \in PageIds : disk.file[x] = IF Used(f) /\ x = old THEN pages_[f].data ELSE disk.file[x]
    BY <2>4
  <2>8. \A x \in PageIds : InFile(disk, x) <=> (InFile(disk, x) \/ (Used(f) /\ x <= old))
    BY <2>6, Zenon
  <2> QED BY <1>1, <2>1, <2>7, <2>8, Zenon
<1> QED BY <1>2, <1>3, <1>4

\* A frame that a step leaves alone stays stored, if its page keeps its place in
\* the file and its holders keep what they must mark.
LEMMA FrameKept ==
  ASSUME DurableInv, NEW g \in Frames, pages_'[g] = pages_[g],
         \A k \in Holders : held[k].page = pages_[g].page_id /\ held[k].dirty =>
                              held'[k].page = pages_[g].page_id /\ held'[k].dirty,
         InFile(disk, pages_[g].page_id) => InFile(disk', pages_[g].page_id),
         Used(g) => disk'.file[pages_[g].page_id] = disk.file[pages_[g].page_id]
  PROVE  Settled(g)' => Stored(g)'
<1>1. Settled(g)' => Settled(g)
  BY Zenon DEF Settled, Used
<1>2. Settled(g) => Stored(g) /\ Used(g)
  BY Zenon DEF DurableInv, Settled
<1>3. Stored(g) /\ Used(g) => Stored(g)'
  BY Zenon DEF Stored, InFile
<1> QED BY <1>1, <1>2, <1>3, Zenon

\* NewPage and the miss of FetchPage lose nothing: the frame's old page is in the
\* file, and the new one is there too or will be marked dirty.
LEMMA InstallDurable ==
  ASSUME PoolInv, DurableInv, NEW f \in Frames, TakeFrame(f),
         NEW h \in Holders, held[h] = NoPin,
         NEW p \in PageIds, ~Resident(p), NEW v \in Contents, Install(f, p, v),
         NEW b \in BOOLEAN, held' = [held EXCEPT ![h] = [page |-> p, dirty |-> b]],
         live' = live \cup {p}, Good(disk'),
         disk'.file = DiskAfterTake(f).file, disk'.len = DiskAfterTake(f).len,
         b \/ (InFile(DiskAfterTake(f), p) /\ DiskAfterTake(f).file[p] = v)
  PROVE  DurableInv'
<1> DEFINE old == pages_[f].page_id
           q == [page_id |-> p, pin_count |-> 1, is_dirty |-> FALSE, data |-> v]
<1>1. /\ pages_ \in [Frames -> Page] /\ page_table_ \in [PageIds -> Frames \cup {NoFrame}]
      /\ held \in [Holders -> [page : PageIds \cup {NoPage}, dirty : BOOLEAN]]
      /\ live \in SUBSET PageIds
  BY DEF PoolInv, TypeOK
<1>2. /\ pages_'[f] = q /\ \A g \in Frames \ {f} : pages_'[g] = pages_[g]
  BY <1>1 DEF Install
<1>3. /\ page_table_'[p] = f
      /\ \A x \in PageIds \ {p} : page_table_'[x] = IF x = old THEN NoFrame ELSE page_table_[x]
  BY <1>1 DEF Install, TableAfterTake
<1>4. \A k \in Holders \ {h} : held'[k] = held[k]
  BY <1>1
<1>5. held'[h] = [page |-> p, dirty |-> b] /\ held[h].page = NoPage
  BY <1>1 DEF NoPin
<1>6. \A g \in Frames : pages_[g].page_id # p
  BY AbsentUnknown
<1>7. /\ \A x \in PageIds : disk'.file[x] =
           IF Used(f) /\ x = old THEN pages_[f].data ELSE disk.file[x]
      /\ \A x \in PageIds : InFile(disk', x) <=> (InFile(disk, x) \/ (Used(f) /\ x <= old))
  BY TakeStores DEF InFile
<1>8. ASSUME NEW g \in Frames \ {f} PROVE Settled(g)' => Stored(g)'
  <2>1. pages_'[g] = pages_[g]
    BY <1>2
  <2>2. CASE ~Used(g)
    BY <2>1, <2>2, Zenon DEF Settled, Used
  <2>3. CASE Used(g)
    <3> DEFINE x == pages_[g].page_id
    <3>1. x \in PageIds /\ x # NoPage
      BY <1>1, <2>3 DEF Used, Page
    <3>2. x # old
      BY <2>3 DEF PoolInv, MappingConsistent, Used
    <3>3. InFile(disk, x) => InFile(disk', x)
      BY <1>7, <3>1
    <3>4. disk'.file[x] = disk.file[x]
      BY <1>7, <3>1, <3>2
    <3>5. \A k \in Holders : held[k].page = x /\ held[k].dirty => held'[k].page = x /\ held'[k].dirty
      <4> SUFFICES ASSUME NEW k \in Holders, held[k].page = x, held[k].dirty
                   PROVE  held'[k].page = x /\ held'[k].dirty
        BY Zenon
      <4>1. k # h
        BY <1>5, <3>1
      <4> QED BY <1>4, <4>1
    <3> QED BY <2>1, <3>3, <3>4, <3>5, FrameKept
  <2> QED BY <2>2, <2>3
<1>9. Settled(f)' => Stored(f)'
  <2>1. pages_'[f].page_id = p /\ pages_'[f].data = v
    BY <1>2
  <2>2. held'[h].page = p /\ (held'[h].dirty <=> b)
    BY <1>5
  <2>3. CASE b
    BY <2>1, <2>2, <2>3, Zenon DEF Settled
  <2>4. CASE InFile(DiskAfterTake(f), p) /\ DiskAfterTake(f).file[p] = v
    <3>1. InFile(disk', p) /\ disk'.file[p] = v
      BY <2>4 DEF InFile
    <3> QED BY <2>1, <3>1 DEF Stored
  <2> QED BY <2>3, <2>4, Zenon
<1>10. ASSUME NEW x \in live' PROVE Resident(x)' \/ InFile(disk', x)
  <2>1. CASE x = p
    BY <1>3, <2>1, Invalid DEF Resident
  <2>2. CASE x # p
    <3>1. x \in live /\ x \in PageIds
      BY <1>1, <2>2
    <3>2. CASE InFile(disk, x)
      BY <1>7, <3>1, <3>2
    <3>3. CASE Resident(x) /\ x = old
      <4>1. Used(f)
        BY <3>1, <3>3, Invalid DEF Used
      <4>2. x <= old
        BY <3>1, <3>3 DEF PageIds
      <4> QED BY <1>7, <3>1, <4>1, <4>2
    <3>4. CASE Resident(x) /\ x # old
      BY <1>3, <2>2, <3>1, <3>4 DEF Resident
    <3> QED BY <3>1, <3>2, <3>3, <3>4 DEF DurableInv
  <2> QED BY <2>1, <2>2
<1> QED BY <1>8, <1>9, <1>10, Zenon DEF DurableInv, InFile

\* NewPage keeps clean pages durable, because a new page is unpinned dirty.
LEMMA NewPageDurable ==
  ASSUME MarkNewDirty, PoolInv, DurableInv, NEW h \in Holders, NewPage(h)
  PROVE  DurableInv'
<1> DEFINE p == disk.next_page_id
<1>1. held[h] = NoPin /\ p < MaxPages
  BY DEF NewPage
<1>2. p \in PageIds /\ ~Resident(p)
  BY <1>1, NextIdUnused
<1>3. PICK f \in Frames :
        /\ TakeFrame(f)
        /\ disk' = AllocatePage(DiskAfterTake(f))
        /\ Install(f, p, Zero)
        /\ held' = [held EXCEPT ![h] = [page |-> p, dirty |-> MarkNewDirty]]
        /\ live' = live \cup {p}
  BY DEF NewPage
<1> DEFINE d == DiskAfterTake(f)
<1>4. d \in Disks /\ d.next_page_id = p /\ Good(d)
  BY <1>3, TakeDisk, TakeStores
<1> HIDE DEF d
<1>5. disk'.len = d.len /\ disk'.file = d.file /\ Good(disk')
  BY <1>1, <1>3, <1>4, AllocateEffect DEF d
<1>6. Zero \in Contents /\ MarkNewDirty \in BOOLEAN
  BY DiskAssumption, PoolAssumption
<1> HIDE DEF p
<1> QED BY <1>1, <1>2, <1>3, <1>5, <1>6, InstallDurable DEF d

\* A fetch finds the page it needs in the file.
LEMMA FetchMissDurable ==
  ASSUME PoolInv, DurableInv, NEW h \in Holders, NEW p \in PageIds, FetchMiss(h, p)
  PROVE  DurableInv'
<1>1. held[h] = NoPin /\ p \in live /\ ~Resident(p)
  BY DEF FetchMiss
<1>2. PICK f \in Frames :
        /\ TakeFrame(f)
        /\ disk' = ReadPage(DiskAfterTake(f), p)
        /\ Install(f, p, ReadData(DiskAfterTake(f), p))
        /\ held' = [held EXCEPT ![h] = [page |-> p, dirty |-> FALSE]]
        /\ live' = live
  BY DEF FetchMiss
<1> DEFINE d == DiskAfterTake(f)
<1>3. d \in Disks /\ Good(d)
  BY <1>2, TakeDisk, TakeStores
<1>4. InFile(d, p)
  <2>1. InFile(disk, p)
    BY <1>1 DEF DurableInv
  <2> QED BY <1>2, <2>1, TakeStores
<1> HIDE DEF d
<1>5. disk'.len = d.len /\ disk'.file = d.file /\ Good(disk')
  BY <1>2, <1>3, <1>4, ReadPageEffect DEF d
<1>6. ReadData(d, p) \in Contents /\ ReadData(d, p) = d.file[p]
  BY <1>3, <1>4, ReadDataType DEF ReadData, Good
<1>7. live' = live \cup {p} /\ FALSE \in BOOLEAN
  BY <1>1, <1>2
<1> QED BY <1>1, <1>2, <1>4, <1>5, <1>6, <1>7, InstallDurable DEF d

\* A hit changes no content; the new holder has written nothing yet.
LEMMA FetchHitDurable ==
  ASSUME PoolInv, DurableInv, NEW h \in Holders, NEW p \in PageIds, FetchHit(h, p)
  PROVE  DurableInv'
<1>1. held[h] = NoPin /\ Resident(p)
  BY DEF FetchHit
<1>2. /\ pages_ \in [Frames -> Page]
      /\ held \in [Holders -> [page : PageIds \cup {NoPage}, dirty : BOOLEAN]]
  BY DEF PoolInv, TypeOK
<1>3. PICK f \in Frames : f = page_table_[p]
  BY <1>1 DEF PoolInv, TypeOK, Resident
<1>4. /\ pages_' = [pages_ EXCEPT ![f] = [pages_[f] EXCEPT !.pin_count = @ + 1]]
      /\ held' = [held EXCEPT ![h] = [page |-> p, dirty |-> FALSE]]
      /\ page_table_' = page_table_ /\ live' = live /\ disk' = disk
  BY <1>3 DEF FetchHit, Pinned
<1>5. \A g \in Frames : /\ pages_'[g].page_id = pages_[g].page_id
                        /\ pages_'[g].is_dirty = pages_[g].is_dirty
                        /\ pages_'[g].data = pages_[g].data
  BY <1>2, <1>4 DEF Page
<1>6. \A k \in Holders : held[k].dirty => held'[k] = held[k]
  <2> SUFFICES ASSUME NEW k \in Holders, held[k].dirty PROVE held'[k] = held[k]
    OBVIOUS
  <2>1. k # h
    BY <1>1 DEF NoPin
  <2> QED BY <1>2, <1>4, <2>1
<1>7. ASSUME NEW g \in Frames PROVE Settled(g)' => Stored(g)'
  <2>1. Settled(g)' => Settled(g)
    BY <1>5, <1>6, Zenon DEF Settled, Used
  <2>2. Stored(g) => Stored(g)'
    BY <1>4, <1>5, Zenon DEF Stored, InFile
  <2> QED BY <2>1, <2>2 DEF DurableInv
<1>8. \A x \in live' : Resident(x)' \/ InFile(disk', x)
  BY <1>4 DEF DurableInv, Resident
<1> QED BY <1>4, <1>7, <1>8 DEF DurableInv

\* A write leaves a holder that must unpin the page dirty.
LEMMA WriteDataDurable ==
  ASSUME PoolInv, DurableInv, NEW h \in Holders, NEW v \in Contents, WriteData(h, v)
  PROVE  DurableInv'
<1>1. held[h] # NoPin
  BY DEF WriteData
<1>2. PICK f \in Frames : f = page_table_[held[h].page] /\ pages_[f].page_id = held[h].page
  BY <1>1, HeldResident
<1>3. /\ pages_ \in [Frames -> Page]
      /\ held \in [Holders -> [page : PageIds \cup {NoPage}, dirty : BOOLEAN]]
  BY DEF PoolInv, TypeOK
<1>4. /\ pages_' = [pages_ EXCEPT ![f] = [pages_[f] EXCEPT !.data = v]]
      /\ held' = [held EXCEPT ![h] = [held[h] EXCEPT !.dirty = TRUE]]
      /\ page_table_' = page_table_ /\ live' = live /\ disk' = disk
  BY <1>2 DEF WriteData
<1>5. held'[h].page = held[h].page /\ held'[h].dirty /\ \A k \in Holders \ {h} : held'[k] = held[k]
  BY <1>3, <1>4
<1>6. pages_'[f].page_id = pages_[f].page_id /\ \A g \in Frames \ {f} : pages_'[g] = pages_[g]
  BY <1>3, <1>4 DEF Page
<1>7. ASSUME NEW g \in Frames PROVE Settled(g)' => Stored(g)'
  <2>1. CASE g = f
    BY <1>2, <1>5, <1>6, <2>1, Zenon DEF Settled
  <2>2. CASE g # f
    <3>1. pages_'[g] = pages_[g]
      BY <1>6, <2>2
    <3>2. \A k \in Holders : held[k].page = pages_[g].page_id /\ held[k].dirty =>
                               held'[k].page = pages_[g].page_id /\ held'[k].dirty
      BY <1>5, Zenon
    <3> QED BY <1>4, <3>1, <3>2, FrameKept
  <2> QED BY <2>1, <2>2
<1>8. \A x \in live' : Resident(x)' \/ InFile(disk', x)
  BY <1>4 DEF DurableInv, Resident
<1> QED BY <1>4, <1>7, <1>8 DEF DurableInv

\* A holder that wrote unpins dirty, and the dirty bit of the page is never
\* overwritten by a clean unpin.
LEMMA UnpinPageDurable ==
  ASSUME PoolInv, DurableInv, NEW h \in Holders, NEW b \in BOOLEAN, UnpinPage(h, b)
  PROVE  DurableInv'
<1>1. held[h] # NoPin /\ (held[h].dirty => b)
  BY DEF UnpinPage
<1>2. PICK f \in Frames : /\ f = page_table_[held[h].page] /\ pages_[f].page_id = held[h].page
                          /\ pages_[f].pin_count \in Nat \ {0} /\ held[h].page # NoPage
  BY <1>1, HeldResident, Invalid
<1>3. f # NoFrame /\ ~(pages_[f].pin_count <= 0)
  BY <1>2, Invalid
<1>4. /\ pages_ \in [Frames -> Page]
      /\ held \in [Holders -> [page : PageIds \cup {NoPage}, dirty : BOOLEAN]]
  BY DEF PoolInv, TypeOK
<1>5. /\ pages_' = [pages_ EXCEPT ![f].is_dirty = DirtyAfterUnpin(@, b), ![f].pin_count = @ - 1]
      /\ held' = [held EXCEPT ![h] = NoPin]
      /\ page_table_' = page_table_ /\ live' = live /\ disk' = disk
  BY <1>2, <1>3, Zenon DEF UnpinPage
<1> DEFINE w == DirtyAfterUnpin(pages_[f].is_dirty, b)
<1>6. w \in BOOLEAN /\ (~w => ~pages_[f].is_dirty /\ ~b)
  BY DEF DirtyAfterUnpin
<1>7. /\ pages_'[f].page_id = pages_[f].page_id /\ pages_'[f].data = pages_[f].data
      /\ pages_'[f].is_dirty = w
      /\ \A g \in Frames \ {f} : pages_'[g] = pages_[g]
  <2> HIDE DEF w
  <2>1. pages_' = [pages_ EXCEPT ![f].is_dirty = w, ![f].pin_count = @ - 1]
    BY <1>5, Zenon DEF w
  <2> QED BY <1>4, <1>6, <2>1 DEF Page
<1>8. held'[h] = NoPin /\ \A k \in Holders \ {h} : held'[k] = held[k]
  BY <1>4, <1>5
<1> HIDE DEF w
<1>9. ASSUME NEW g \in Frames PROVE Settled(g)' => Stored(g)'
  <2>1. CASE g = f
    <3>1. ASSUME Settled(f)' PROVE Settled(f)
      <4>1. ~pages_'[f].is_dirty /\ \A k \in Holders : held'[k].page = pages_[f].page_id => ~held'[k].dirty
        BY <1>7, <3>1, Zenon DEF Settled
      <4>2. ~w
        BY <1>7, <4>1, Zenon
      <4>3. ~pages_[f].is_dirty /\ ~held[h].dirty
        BY <1>1, <1>6, <4>2, Zenon
      <4>4. \A k \in Holders : held[k].page = pages_[f].page_id => ~held[k].dirty
        BY <1>8, <4>1, <4>3, Zenon
      <4> QED BY <1>2, <4>3, <4>4, Zenon DEF Settled, Used
    <3>2. Stored(f) => Stored(f)'
      BY <1>5, <1>7, Zenon DEF Stored, InFile
    <3> QED BY <2>1, <3>1, <3>2, Zenon DEF DurableInv
  <2>2. CASE g # f
    <3>1. pages_'[g] = pages_[g]
      BY <1>7, <2>2
    <3>2. CASE ~Used(g)
      BY <3>1, <3>2, Zenon DEF Settled, Used
    <3>3. CASE Used(g)
      <4>1. pages_[g].page_id # held[h].page
        BY <1>2, <2>2, <3>3 DEF PoolInv, MappingConsistent
      <4>2. \A k \in Holders : held[k].page = pages_[g].page_id /\ held[k].dirty =>
                                 held'[k].page = pages_[g].page_id /\ held'[k].dirty
        BY <1>8, <4>1, Zenon
      <4> QED BY <1>5, <3>1, <4>2, FrameKept
    <3> QED BY <3>2, <3>3
  <2> QED BY <2>1, <2>2
<1>10. \A x \in live' : Resident(x)' \/ InFile(disk', x)
  BY <1>5 DEF DurableInv, Resident
<1> QED BY <1>5, <1>9, <1>10 DEF DurableInv

\* FlushPage stores the page it marks clean.
LEMMA FlushPageDurable ==
  ASSUME PoolInv, DurableInv, NEW p \in PageIds, FlushPage(p)
  PROVE  DurableInv'
<1>1. Resident(p)
  BY DEF FlushPage
<1>2. /\ pages_ \in [Frames -> Page] /\ disk \in Disks /\ Good(disk)
      /\ live \in SUBSET PageIds
  BY DEF PoolInv, TypeOK, DurableInv
<1>3. PICK f \in Frames : f = page_table_[p] /\ pages_[f].page_id = p
  BY <1>1 DEF PoolInv, TypeOK, MappingConsistent, Resident
<1>4. pages_[f].data \in Contents
  BY <1>2, <1>3 DEF Page
<1>5. /\ pages_' = [pages_ EXCEPT ![f] = [pages_[f] EXCEPT !.is_dirty = FALSE]]
      /\ disk' = WritePage(disk, p, pages_[f].data)
      /\ page_table_' = page_table_ /\ held' = held /\ live' = live
  BY <1>3 DEF FlushPage
<1>6. /\ Good(disk')
      /\ \A x \in PageIds : disk'.file[x] = IF x = p THEN pages_[f].data ELSE disk.file[x]
      /\ \A x \in PageIds : InFile(disk', x) <=> (InFile(disk, x) \/ x <= p)
  BY <1>2, <1>4, <1>5, WriteStores
<1>7. /\ pages_'[f].page_id = p /\ pages_'[f].data = pages_[f].data
      /\ \A g \in Frames \ {f} : pages_'[g] = pages_[g]
  BY <1>2, <1>3, <1>5 DEF Page
<1>8. ASSUME NEW g \in Frames PROVE Settled(g)' => Stored(g)'
  <2>1. CASE g = f
    <3>1. p <= p
      BY DEF PageIds
    <3>2. InFile(disk', p) /\ disk'.file[p] = pages_[f].data
      BY <1>6, <3>1
    <3> QED BY <1>7, <2>1, <3>2 DEF Stored
  <2>2. CASE g # f
    <3>1. pages_'[g] = pages_[g]
      BY <1>7, <2>2
    <3>2. CASE ~Used(g)
      BY <3>1, <3>2, Zenon DEF Settled, Used
    <3>3. CASE Used(g)
      <4>1. pages_[g].page_id # p /\ pages_[g].page_id \in PageIds
        BY <1>2, <1>3, <2>2, <3>3 DEF PoolInv, MappingConsistent, Used, Page
      <4>2. /\ InFile(disk, pages_[g].page_id) => InFile(disk', pages_[g].page_id)
            /\ disk'.file[pages_[g].page_id] = disk.file[pages_[g].page_id]
        BY <1>6, <4>1
      <4>3. \A k \in Holders : held[k].page = pages_[g].page_id /\ held[k].dirty =>
                                 held'[k].page = pages_[g].page_id /\ held'[k].dirty
        BY <1>5, Zenon
      <4> QED BY <3>1, <4>2, <4>3, FrameKept
    <3> QED BY <3>2, <3>3
  <2> QED BY <2>1, <2>2
<1>9. \A x \in live' : Resident(x)' \/ InFile(disk', x)
  BY <1>2, <1>5, <1>6 DEF DurableInv, Resident
<1> QED BY <1>6, <1>8, <1>9 DEF DurableInv

\* FlushAllPages stores every page that is in a frame.
LEMMA FlushAllStores ==
  ASSUME PoolInv, DurableInv, FlushAllPages
  PROVE  /\ Good(disk')
         /\ \A f \in Frames : Used(f) => disk'.file[pages_[f].page_id] = pages_[f].data
         /\ \A x \in PageIds : (\A f \in Frames : pages_[f].page_id # x) => disk'.file[x] = disk.file[x]
         /\ \A x \in PageIds : InFile(disk', x) <=>
              (InFile(disk, x) \/ \E f \in Frames : Used(f) /\ x <= pages_[f].page_id)
<1> DEFINE S == {p \in PageIds : \E f \in Frames : pages_[f].page_id = p}
           data == [p \in S |-> pages_[CHOOSE f \in Frames : pages_[f].page_id = p].data]
<1>1. /\ pages_ \in [Frames -> Page] /\ disk \in Disks /\ Good(disk)
  BY DEF PoolInv, TypeOK, DurableInv
<1>2. \A f \in Frames : Used(f) => pages_[f].page_id \in S
  BY <1>1 DEF Used, Page
<1>3. ASSUME NEW f \in Frames, Used(f)
      PROVE  data[pages_[f].page_id] = pages_[f].data
  <2> DEFINE c == CHOOSE g \in Frames : pages_[g].page_id = pages_[f].page_id
  <2>1. c \in Frames /\ pages_[c].page_id = pages_[f].page_id
    OBVIOUS
  <2>2. data[pages_[f].page_id] = pages_[c].data
    BY <1>2, <1>3
  <2> HIDE DEF c
  <2>3. c = f
    BY <1>3, <2>1 DEF PoolInv, MappingConsistent, Used
  <2> QED BY <2>2, <2>3
<1>4. data \in [S -> Contents]
  <2>1. ASSUME NEW p \in S PROVE pages_[CHOOSE f \in Frames : pages_[f].page_id = p].data \in Contents
    <3>1. (CHOOSE f \in Frames : pages_[f].page_id = p) \in Frames
      BY <2>1
    <3> QED BY <1>1, <3>1 DEF Page
  <2> QED BY <2>1
<1>5. S \in SUBSET PageIds /\ disk' = WritePages(disk, S, data)
  BY DEF FlushAllPages
<1>6. \A x \in PageIds, q \in PageIds : (\E f \in Frames : pages_[f].page_id = q /\ x <= q) =>
                                        \E f \in Frames : Used(f) /\ x <= pages_[f].page_id
  BY Invalid DEF Used
<1>7. \A x \in PageIds : (\E p \in S : x <= p) <=> \E f \in Frames : Used(f) /\ x <= pages_[f].page_id
  BY <1>2, <1>6
<1>8. \A x \in PageIds : (\A f \in Frames : pages_[f].page_id # x) => x \notin S
  OBVIOUS
<1> HIDE DEF S, data
<1>9. /\ Good(disk')
      /\ disk'.file = [p \in PageIds |-> IF p \in S THEN data[p] ELSE disk.file[p]]
      /\ disk'.len = Extent(disk.len, S)
  BY <1>1, <1>4, <1>5, WritePagesStores
<1>10. disk.len \in 0 .. MaxPages
  BY <1>1 DEF Disks
<1>11. \A x \in PageIds : x < disk'.len <=> (x < disk.len \/ \E p \in S : x <= p)
  BY <1>5, <1>9, <1>10, ExtentEffect
<1>12. \A x \in PageIds : InFile(disk', x) <=>
         (InFile(disk, x) \/ \E f \in Frames : Used(f) /\ x <= pages_[f].page_id)
  BY <1>7, <1>11, Zenon DEF InFile
<1>13. \A f \in Frames : Used(f) => disk'.file[pages_[f].page_id] = pages_[f].data
  BY <1>2, <1>3, <1>5, <1>9
<1>14. \A x \in PageIds : (\A f \in Frames : pages_[f].page_id # x) => disk'.file[x] = disk.file[x]
  BY <1>8, <1>9
<1> QED BY <1>9, <1>12, <1>13, <1>14

\* FlushAllPages keeps clean pages durable.
LEMMA FlushAllDurable ==
  ASSUME PoolInv, DurableInv, FlushAllPages
  PROVE  DurableInv'
<1>1. /\ pages_ \in [Frames -> Page] /\ live \in SUBSET PageIds /\ disk \in Disks
  BY DEF PoolInv, TypeOK
<1>2. /\ pages_' = [f \in Frames |-> IF pages_[f].page_id = NoPage THEN pages_[f]
                                     ELSE [pages_[f] EXCEPT !.is_dirty = FALSE]]
      /\ page_table_' = page_table_ /\ live' = live
  BY DEF FlushAllPages
<1>3. \A f \in Frames : pages_'[f].page_id = pages_[f].page_id /\ pages_'[f].data = pages_[f].data
  BY <1>1, <1>2 DEF Page
<1>4. /\ Good(disk')
      /\ \A f \in Frames : Used(f) => disk'.file[pages_[f].page_id] = pages_[f].data
      /\ \A x \in PageIds : InFile(disk', x) <=>
           (InFile(disk, x) \/ \E f \in Frames : Used(f) /\ x <= pages_[f].page_id)
  BY FlushAllStores
<1>5. ASSUME NEW g \in Frames PROVE Settled(g)' => Stored(g)'
  <2> SUFFICES ASSUME Settled(g)' PROVE Stored(g)'
    OBVIOUS
  <2>1. Used(g)
    BY <1>3, Zenon DEF Settled, Used
  <2>2. pages_[g].page_id \in PageIds /\ pages_[g].page_id <= pages_[g].page_id
    BY <1>1, <2>1 DEF Used, Page, PageIds
  <2>3. InFile(disk', pages_[g].page_id) /\ disk'.file[pages_[g].page_id] = pages_[g].data
    BY <1>4, <2>1, <2>2
  <2> QED BY <1>3, <2>3 DEF Stored
<1>6. \A x \in live' : Resident(x)' \/ InFile(disk', x)
  BY <1>1, <1>2, <1>4 DEF DurableInv, Resident
<1> QED BY <1>4, <1>5, <1>6 DEF DurableInv

\* DeletePage drops one page and keeps the others where they are.
LEMMA DeleteDurable ==
  ASSUME PoolInv, DurableInv, NEW p \in PageIds, DeleteAbsent(p) \/ DeleteResident(p)
  PROVE  DurableInv'
<1>1. /\ pages_ \in [Frames -> Page] /\ page_table_ \in [PageIds -> Frames \cup {NoFrame}]
      /\ live \in SUBSET PageIds
  BY DEF PoolInv, TypeOK
<1>2. CASE DeleteAbsent(p)
  <2>1. live' = live \ {p} /\ UNCHANGED <<pages_, page_table_, disk, held>>
    BY <1>2 DEF DeleteAbsent
  <2> QED BY <2>1 DEF DurableInv, Settled, Stored, Used, Resident
<1>3. CASE DeleteResident(p)
  <2>1. PICK f \in Frames : f = page_table_[p] /\ f \in EvictableFrames(lru)
    BY <1>3, DeleteUnpinned
  <2>2. /\ page_table_' = [page_table_ EXCEPT ![p] = NoFrame] /\ live' = live \ {p}
        /\ pages_' = [pages_ EXCEPT ![f] = EmptyPage] /\ disk' = disk /\ held' = held
    BY <1>3, <2>1, Zenon DEF DeleteResident, DeallocatePage
  <2>3. pages_'[f] = EmptyPage /\ \A g \in Frames \ {f} : pages_'[g] = pages_[g]
    BY <1>1, <2>2
  <2>4. ASSUME NEW g \in Frames PROVE Settled(g)' => Stored(g)'
    <3>1. CASE g = f
      <4>1. ~Used(f)'
        BY <2>3 DEF Used, EmptyPage
      <4> QED BY <3>1, <4>1 DEF Settled
    <3>2. CASE g # f
      <4>1. pages_'[g] = pages_[g]
        BY <2>3, <3>2
      <4>2. \A k \in Holders : held[k].page = pages_[g].page_id /\ held[k].dirty =>
                                 held'[k].page = pages_[g].page_id /\ held'[k].dirty
        BY <2>2, Zenon
      <4> QED BY <2>2, <4>1, <4>2, FrameKept
    <3> QED BY <3>1, <3>2
  <2>5. \A x \in live' : Resident(x)' \/ InFile(disk', x)
    BY <1>1, <2>2 DEF DurableInv, Resident
  <2> QED BY <2>2, <2>4, <2>5 DEF DurableInv
<1> QED BY <1>2, <1>3

\* A restart keeps exactly the pages of the file, and opens a new stream.
LEMMA RestartDurable ==
  ASSUME PoolInv, Restart
  PROVE  DurableInv'
<1>1. disk \in Disks
  BY DEF PoolInv, TypeOK
<1>2. disk'.len = disk.len /\ Good(disk')
  BY <1>1 DEF Restart, OpenDisk, Disks, Good
<1>3. \A f \in Frames : ~Used(f)'
  BY DEF Restart, Used, EmptyPage
<1>4. \A p \in live' : InFile(disk', p)
  BY <1>2 DEF Restart, InFile
<1> QED BY <1>2, <1>3, <1>4, Zenon DEF DurableInv, Settled

\* Every operation keeps clean pages durable.
LEMMA NextDurable ==
  ASSUME MarkNewDirty, PoolInv, DurableInv, [Next]_vars
  PROVE  DurableInv'
<1>1. CASE UNCHANGED vars
  BY <1>1 DEF vars, DurableInv, Settled, Stored, Used, Resident
<1>2. ASSUME NEW h \in Holders, NewPage(h) PROVE DurableInv'
  BY <1>2, NewPageDurable
<1>3. ASSUME NEW h \in Holders, NEW p \in PageIds, FetchPage(h, p) PROVE DurableInv'
  BY <1>3, FetchHitDurable, FetchMissDurable DEF FetchPage
<1>4. ASSUME NEW h \in Holders, NEW v \in Contents, WriteData(h, v) PROVE DurableInv'
  BY <1>4, WriteDataDurable
<1>5. ASSUME NEW h \in Holders, NEW b \in BOOLEAN, UnpinPage(h, b) PROVE DurableInv'
  BY <1>5, UnpinPageDurable
<1>6. ASSUME NEW p \in PageIds, FlushPage(p) PROVE DurableInv'
  BY <1>6, FlushPageDurable
<1>7. ASSUME NEW p \in PageIds, DeletePage(p) PROVE DurableInv'
  BY <1>1, <1>7, DeleteDurable DEF DeletePage, DeletePinned
<1>8. CASE FlushAllPages
  BY <1>8, FlushAllDurable
<1>9. CASE PoolExhausted
  BY <1>1, <1>9 DEF PoolExhausted
<1>10. CASE Restart
  BY <1>10, RestartDurable
<1> QED BY <1>1, <1>2, <1>3, <1>4, <1>5, <1>6, <1>7, <1>8, <1>9, <1>10 DEF Next

\* DurableInv holds initially.
LEMMA InitDurable == Init => DurableInv
BY DEF Init, EmptyDisk, EmptyPage, DurableInv, Good, Settled, Used

\* As long as new pages are unpinned dirty, a clean page can be dropped at any
\* time: its content is in the file, every live page can be read back, and no
\* read of the pool ever sets the failbit of the stream.
THEOREM CleanPagesAreDurable ==
  ASSUME MarkNewDirty
  PROVE  Spec => []CleanIsDurable
<1>1. PoolInv /\ DurableInv => CleanIsDurable
  BY DurableIsClean DEF PoolInv
<1>2. Init => PoolInv /\ DurableInv
  BY InitInv, InitDurable
<1>3. PoolInv /\ DurableInv /\ [Next]_vars => (PoolInv /\ DurableInv)'
  BY NextInv, NextDurable
<1> QED BY <1>1, <1>2, <1>3, PTL DEF Spec

-----------------------------------------------------------------------------
(* The refinement of the store without a cache. *)

\* A page beyond the end of the file reads as zeros once the file has grown
\* over it.
FileZero == \A p \in PageIds : ~InFile(disk, p) => disk.file[p] = Zero

\* The invariant of the proof.
StoreInv == PoolInv /\ DurableInv /\ FileZero

\* A step writes the pages of S to the file, and no other.
Persisted(S) ==
  /\ \A x \in S : disk'.file[x] = ContentOf(x)
  /\ \A x \in PageIds \ S : disk'.file[x] = disk.file[x]
  /\ \A x \in PageIds : InFile(disk', x) <=> (InFile(disk, x) \/ \E q \in S : x <= q)

-----------------------------------------------------------------------------
(* The abstract state. *)

\* The content of a live page is a page content, and of no other page.
LEMMA ContentType ==
  ASSUME StoreInv, NEW p \in PageIds
  PROVE  /\ p \in live => ContentOf(p) \in Contents
         /\ p \notin live => ContentOf(p) = Absent
         /\ ContentOf(p) # Absent <=> p \in live
<1>1. /\ pages_ \in [Frames -> Page] /\ disk \in Disks
      /\ page_table_ \in [PageIds -> Frames \cup {NoFrame}]
  BY DEF StoreInv, PoolInv, TypeOK
<1>2. Resident(p) => pages_[page_table_[p]].data \in Contents
  BY <1>1 DEF Resident, Page
<1>3. disk.file[p] \in Contents
  BY <1>1 DEF Disks
<1>4. p \in live => ContentOf(p) \in Contents
  BY <1>2, <1>3, DiskAssumption DEF ContentOf
<1>5. p \notin live => ContentOf(p) = Absent
  BY DEF ContentOf
<1> QED BY <1>4, <1>5, AbsentAssumption

\* The content of a live page is where the pool finds it: in its frame, or in
\* the file.
LEMMA ContentWhere ==
  ASSUME StoreInv, NEW p \in live
  PROVE  /\ Resident(p) => ContentOf(p) = pages_[page_table_[p]].data
         /\ ~Resident(p) => InFile(disk, p) /\ ContentOf(p) = disk.file[p]
BY DEF StoreInv, DurableInv, ContentOf

\* A page in a frame is live, and its content is the frame's.
LEMMA ContentInFrame ==
  ASSUME StoreInv, NEW f \in Frames, Used(f)
  PROVE  /\ pages_[f].page_id \in live /\ pages_[f].page_id \in PageIds
         /\ ContentOf(pages_[f].page_id) = pages_[f].data
<1>1. pages_[f].page_id \in PageIds
  BY DEF StoreInv, PoolInv, TypeOK, Used, Page
<1>2. page_table_[pages_[f].page_id] = f
  BY DEF StoreInv, PoolInv, MappingConsistent
<1>3. Resident(pages_[f].page_id)
  BY <1>2, Invalid DEF Resident
<1>4. pages_[f].page_id \in live
  BY <1>1, <1>3 DEF StoreInv, PoolInv, MappingConsistent
<1> QED BY <1>1, <1>2, <1>3, <1>4 DEF ContentOf

\* What Persisted says of the file is what Persist says of the durable content.
LEMMA PersistedPersists ==
  ASSUME StoreInv, NEW S \in SUBSET PageIds, Persisted(S)
  PROVE  Store!Persist(S) /\ FileZero'
<1>1. \A x \in PageIds : disk.file[x] \in Contents /\ x \in Int
  <2>1. disk.file \in [PageIds -> Contents]
    BY DEF StoreInv, PoolInv, TypeOK, Disks
  <2>2. \A x \in PageIds : x \in Int
    BY DEF PageIds
  <2> QED BY <2>1, <2>2
<1>2. ASSUME NEW x \in PageIds
      PROVE  DurableContentOf(x)' =
               IF x \in S THEN ContentOf(x)
               ELSE IF DurableContentOf(x) = Absent /\ \E q \in S : x < q THEN Zero
               ELSE DurableContentOf(x)
  <2>1. DurableContentOf(x) = Absent <=> ~InFile(disk, x)
    BY <1>1, AbsentAssumption DEF DurableContentOf
  <2>2. DurableContentOf(x)' = IF InFile(disk', x) THEN disk'.file[x] ELSE Absent
    BY DEF DurableContentOf, InFile
  <2>3. CASE x \in S
    <3>1. InFile(disk', x) /\ disk'.file[x] = ContentOf(x)
      BY <1>1, <2>3 DEF Persisted
    <3> QED BY <2>2, <2>3, <3>1
  <2>4. CASE x \notin S /\ InFile(disk, x)
    <3>1. InFile(disk', x) /\ disk'.file[x] = disk.file[x]
      BY <2>4 DEF Persisted
    <3> QED BY <2>1, <2>2, <2>4, <3>1 DEF DurableContentOf
  <2>5. CASE x \notin S /\ ~InFile(disk, x)
    <3>1. (\E q \in S : x <= q) <=> \E q \in S : x < q
      BY <1>1, <2>5
    <3>2. InFile(disk', x) <=> \E q \in S : x < q
      BY <2>5, <3>1, Zenon DEF Persisted
    <3>3. disk'.file[x] = Zero
      BY <2>5 DEF Persisted, StoreInv, FileZero
    <3> QED BY <2>1, <2>2, <2>5, <3>2, <3>3
  <2> QED BY <2>3, <2>4, <2>5
<1>3. Store!Persist(S)
  BY <1>2 DEF Store!Persist
<1>4. FileZero'
  <2> SUFFICES ASSUME NEW x \in PageIds, ~InFile(disk', x) PROVE disk'.file[x] = Zero
    BY DEF FileZero
  <2>1. x \notin S /\ ~InFile(disk, x)
    BY <1>1 DEF Persisted
  <2> QED BY <2>1 DEF Persisted, StoreInv, FileZero
<1> QED BY <1>3, <1>4

-----------------------------------------------------------------------------
(* The steps of the pool, seen as steps of the store. *)

\* Writing live pages to the file and one operation of the store, in one step.
LEMMA StepOfStore ==
  ASSUME StoreInv, NEW S \in SUBSET live, Persisted(S), Store!StoreStep
  PROVE  Store!StoreNext
<1>1. live \subseteq PageIds
  BY DEF StoreInv, PoolInv, TypeOK
<1>2. S \in SUBSET PageIds
  BY <1>1
<1>3. Store!Persist(S)
  BY <1>2, PersistedPersists
<1>4. S \in SUBSET {p \in PageIds : [x \in PageIds |-> ContentOf(x)][p] # Absent}
  <2>1. \A p \in S : p \in PageIds /\ ContentOf(p) # Absent
    BY <1>1, ContentType
  <2> QED BY <2>1
<1> QED BY <1>3, <1>4 DEF Store!StoreNext

\* A step that leaves the file alone writes the pages of the empty set.
LEMMA NothingPersisted ==
  ASSUME disk' = disk
  PROVE  Persisted({})
BY DEF Persisted, InFile

\* No content changes: the store does not move.
LEMMA SameStore ==
  ASSUME \A x \in PageIds : ContentOf(x)' = ContentOf(x)
  PROVE  Store!StoreStep
<1>1. [x \in PageIds |-> ContentOf(x)]' = [x \in PageIds |-> ContentOf(x)]
  OBVIOUS
<1> QED BY <1>1 DEF Store!StoreStep

\* One content changes.
LEMMA OneChanged ==
  ASSUME NEW p \in PageIds, NEW c, ContentOf(p)' = c,
         \A x \in PageIds \ {p} : ContentOf(x)' = ContentOf(x)
  PROVE  [x \in PageIds |-> ContentOf(x)]' = [[x \in PageIds |-> ContentOf(x)] EXCEPT ![p] = c]
OBVIOUS

\* A page enters a frame: the page that was in it keeps its content, in the
\* file, and so does every other page.
LEMMA InstallContent ==
  ASSUME StoreInv, NEW f \in Frames, TakeFrame(f), NEW p \in PageIds, ~Resident(p),
         NEW v \in Contents, Install(f, p, v), live' = live \cup {p},
         disk'.file = DiskAfterTake(f).file, disk'.len = DiskAfterTake(f).len
  PROVE  /\ \E S \in SUBSET live : Persisted(S)
         /\ ContentOf(p)' = v
         /\ \A x \in PageIds \ {p} : ContentOf(x)' = ContentOf(x)
<1> DEFINE old == pages_[f].page_id
           q == [page_id |-> p, pin_count |-> 1, is_dirty |-> FALSE, data |-> v]
<1>1. /\ pages_ \in [Frames -> Page] /\ page_table_ \in [PageIds -> Frames \cup {NoFrame}]
      /\ live \in SUBSET PageIds
  BY DEF StoreInv, PoolInv, TypeOK
<1>2. /\ pages_'[f] = q /\ \A g \in Frames \ {f} : pages_'[g] = pages_[g]
  BY <1>1 DEF Install
<1>3. /\ page_table_'[p] = f
      /\ \A x \in PageIds \ {p} : page_table_'[x] = IF x = old THEN NoFrame ELSE page_table_[x]
  BY <1>1 DEF Install, TableAfterTake
<1>4. /\ \A x \in PageIds : disk'.file[x] =
           IF Used(f) /\ x = old THEN pages_[f].data ELSE disk.file[x]
      /\ \A x \in PageIds : InFile(disk', x) <=> (InFile(disk, x) \/ (Used(f) /\ x <= old))
  BY TakeStores DEF InFile, StoreInv
<1>5. Used(f) => old \in live /\ old \in PageIds /\ ContentOf(old) = pages_[f].data
  BY ContentInFrame
<1>6. \E S \in SUBSET live : Persisted(S)
  <2>1. CASE Used(f)
    <3>1. Persisted({old})
      BY <1>4, <1>5, <2>1 DEF Persisted
    <3> QED BY <1>5, <2>1, <3>1
  <2>2. CASE ~Used(f)
    <3>1. Persisted({})
      BY <1>4, <2>2 DEF Persisted
    <3> QED BY <3>1
  <2> QED BY <2>1, <2>2
<1>7. ContentOf(p)' = v
  <2>1. p \in live' /\ Resident(p)' /\ pages_'[page_table_'[p]].data = v
    BY <1>2, <1>3, Invalid DEF Resident
  <2> QED BY <2>1 DEF ContentOf
<1>8. ASSUME NEW x \in PageIds \ {p} PROVE ContentOf(x)' = ContentOf(x)
  <2>1. x \in live' <=> x \in live
    OBVIOUS
  <2>2. CASE x \notin live
    BY <2>1, <2>2 DEF ContentOf
  <2>3. CASE x \in live /\ Resident(x) /\ x = old
    <3>1. Used(f)
      BY <2>3, Invalid DEF Used
    <3>2. x <= x
      BY DEF PageIds
    <3>3. ~Resident(x)' /\ InFile(disk', x) /\ disk'.file[x] = pages_[f].data
      BY <1>3, <1>4, <2>3, <3>1, <3>2 DEF Resident
    <3>4. ContentOf(x)' = disk'.file[x]
      BY <2>1, <2>3, <3>3 DEF ContentOf, InFile
    <3> QED BY <1>5, <2>3, <3>1, <3>3, <3>4
  <2>4. CASE x \in live /\ Resident(x) /\ x # old
    <3>1. page_table_'[x] = page_table_[x] /\ Resident(x)'
      BY <1>3, <2>4 DEF Resident
    <3>2. page_table_[x] \in Frames /\ pages_[page_table_[x]].page_id = x
      BY <1>1, <2>4 DEF StoreInv, PoolInv, MappingConsistent, Resident
    <3>3. pages_'[page_table_[x]] = pages_[page_table_[x]]
      BY <1>2, <2>4, <3>2
    <3> QED BY <2>1, <2>4, <3>1, <3>3 DEF ContentOf
  <2>5. CASE x \in live /\ ~Resident(x)
    <3>1. InFile(disk, x) /\ ContentOf(x) = disk.file[x]
      BY <2>5, ContentWhere
    <3>2. ~(Used(f) /\ x = old)
      BY <2>5, Invalid DEF StoreInv, PoolInv, MappingConsistent, Resident
    <3>3. InFile(disk', x) /\ disk'.file[x] = disk.file[x]
      BY <1>4, <3>1, <3>2
    <3>4. ~Resident(x)'
      BY <1>3, <2>5 DEF Resident
    <3>5. ContentOf(x)' = disk'.file[x]
      BY <2>1, <2>5, <3>3, <3>4 DEF ContentOf, InFile
    <3> QED BY <3>1, <3>3, <3>5
  <2> QED BY <2>2, <2>3, <2>4, <2>5
<1> QED BY <1>6, <1>7, <1>8

\* NewPage allocates a zero page whose id is in use nowhere.
LEMMA NewPageStep ==
  ASSUME StoreInv, NEW h \in Holders, NewPage(h)
  PROVE  Store!StoreNext /\ \E S \in SUBSET live : Persisted(S)
<1>1. PICK p \in PageIds : p = disk.next_page_id /\ ~Resident(p) /\ p \notin live /\ ~InFile(disk, p)
  BY NextIdUnused DEF NewPage, StoreInv
<1>2. PICK f \in Frames :
        /\ TakeFrame(f)
        /\ disk' = AllocatePage(DiskAfterTake(f))
        /\ Install(f, p, Zero)
        /\ live' = live \cup {p}
  BY <1>1 DEF NewPage
<1>3. p < MaxPages
  BY <1>1 DEF NewPage
<1>4. DiskAfterTake(f) \in Disks /\ DiskAfterTake(f).next_page_id = p
  BY <1>1, TakeDisk DEF StoreInv
<1>5. disk'.file = DiskAfterTake(f).file /\ disk'.len = DiskAfterTake(f).len
  BY <1>2, <1>3, <1>4, AllocateEffect
<1>6. /\ \E S \in SUBSET live : Persisted(S)
      /\ ContentOf(p)' = Zero
      /\ \A x \in PageIds \ {p} : ContentOf(x)' = ContentOf(x)
  BY <1>1, <1>2, <1>5, InstallContent, DiskAssumption
<1>7. ContentOf(p) = Absent /\ DurableContentOf(p) = Absent
  BY <1>1 DEF ContentOf, DurableContentOf
<1>8. [x \in PageIds |-> ContentOf(x)]' = [[x \in PageIds |-> ContentOf(x)] EXCEPT ![p] = Zero]
  BY <1>6, OneChanged
<1>9. Store!Allocate(p)
  BY <1>7, <1>8 DEF Store!Allocate
<1>10. Store!StoreStep
  BY <1>9 DEF Store!StoreStep
<1> QED BY <1>6, <1>10, StepOfStore

\* A miss reads the content that the page has, and changes none.
LEMMA FetchMissStep ==
  ASSUME StoreInv, NEW h \in Holders, NEW p \in PageIds, FetchMiss(h, p)
  PROVE  Store!StoreNext /\ \E S \in SUBSET live : Persisted(S)
<1>1. p \in live /\ ~Resident(p)
  BY DEF FetchMiss
<1>2. PICK f \in Frames :
        /\ TakeFrame(f)
        /\ disk' = ReadPage(DiskAfterTake(f), p)
        /\ Install(f, p, ReadData(DiskAfterTake(f), p))
        /\ live' = live
  BY DEF FetchMiss
<1> DEFINE d == DiskAfterTake(f)
<1>3. d \in Disks /\ Good(d)
  BY <1>2, TakeDisk, TakeStores DEF StoreInv
<1>4. InFile(disk, p) /\ ContentOf(p) = disk.file[p]
  BY <1>1, ContentWhere
<1>5. InFile(d, p) /\ d.file[p] = disk.file[p]
  <2>1. ~(Used(f) /\ p = pages_[f].page_id)
    BY <1>1, AbsentUnknown DEF StoreInv
  <2> QED BY <1>2, <1>4, <2>1, TakeStores DEF StoreInv
<1> HIDE DEF d
<1>6. disk'.file = d.file /\ disk'.len = d.len
  BY <1>2, <1>3, ReadPageEffect DEF d
<1>7. ReadData(d, p) \in Contents /\ ReadData(d, p) = ContentOf(p)
  BY <1>3, <1>4, <1>5, ReadDataType DEF ReadData, Good
<1>8. live' = live \cup {p}
  BY <1>1, <1>2
<1>9. /\ \E S \in SUBSET live : Persisted(S)
      /\ ContentOf(p)' = ReadData(d, p)
      /\ \A x \in PageIds \ {p} : ContentOf(x)' = ContentOf(x)
  BY <1>1, <1>2, <1>6, <1>7, <1>8, InstallContent DEF d
<1>10. Store!StoreStep
  BY <1>7, <1>9, SameStore
<1> QED BY <1>9, <1>10, StepOfStore

\* Frames, table, file and live pages as they were: so is every content.
LEMMA QuietContent ==
  ASSUME StoreInv, page_table_' = page_table_, live' = live, disk' = disk,
         \A g \in Frames : pages_'[g].data = pages_[g].data
  PROVE  \A x \in PageIds : ContentOf(x)' = ContentOf(x)
<1> SUFFICES ASSUME NEW x \in PageIds PROVE ContentOf(x)' = ContentOf(x)
  OBVIOUS
<1>1. Resident(x) => page_table_[x] \in Frames
  BY DEF StoreInv, PoolInv, TypeOK, Resident
<1> QED BY <1>1 DEF ContentOf, Resident

\* A hit and an unpin are no steps of the store.
LEMMA PinStep ==
  ASSUME StoreInv, NEW h \in Holders,
         (\E p \in PageIds : FetchHit(h, p)) \/ (\E b \in BOOLEAN : UnpinPage(h, b))
  PROVE  Store!StoreNext /\ \E S \in SUBSET live : Persisted(S)
<1>1. pages_ \in [Frames -> Page]
  BY DEF StoreInv, PoolInv, TypeOK
<1>2. /\ page_table_' = page_table_ /\ live' = live /\ disk' = disk
      /\ \A g \in Frames : pages_'[g].data = pages_[g].data
  <2>1. ASSUME NEW p \in PageIds, FetchHit(h, p)
        PROVE  /\ page_table_' = page_table_ /\ live' = live /\ disk' = disk
               /\ \A g \in Frames : pages_'[g].data = pages_[g].data
    <3>1. /\ pages_' = [pages_ EXCEPT ![page_table_[p]] = [pages_[page_table_[p]] EXCEPT !.pin_count = @ + 1]]
          /\ page_table_' = page_table_ /\ live' = live /\ disk' = disk
      BY <2>1 DEF FetchHit, Pinned
    <3> QED BY <1>1, <3>1 DEF Page
  <2>2. ASSUME NEW b \in BOOLEAN, UnpinPage(h, b)
        PROVE  /\ page_table_' = page_table_ /\ live' = live /\ disk' = disk
               /\ \A g \in Frames : pages_'[g].data = pages_[g].data
    <3> DEFINE f == page_table_[held[h].page]
               w == DirtyAfterUnpin(pages_[f].is_dirty, b)
    <3>1. page_table_' = page_table_ /\ live' = live /\ disk' = disk
      BY <2>2, Zenon DEF UnpinPage
    <3>2. \/ pages_' = pages_
          \/ pages_' = [pages_ EXCEPT ![f].is_dirty = w, ![f].pin_count = @ - 1]
      BY <2>2, Zenon DEF UnpinPage
    <3> HIDE DEF w, f
    <3>3. ASSUME NEW g \in Frames PROVE pages_'[g].data = pages_[g].data
      <4>1. CASE pages_' = pages_
        BY <4>1
      <4>2. CASE pages_' = [pages_ EXCEPT ![f].is_dirty = w, ![f].pin_count = @ - 1]
        BY <1>1, <4>2 DEF Page
      <4> QED BY <3>2, <4>1, <4>2
    <3> QED BY <3>1, <3>3
  <2> QED BY <2>1, <2>2
<1>3. \A x \in PageIds : ContentOf(x)' = ContentOf(x)
  BY <1>2, QuietContent
<1>4. Persisted({}) /\ {} \in SUBSET live
  BY <1>2, NothingPersisted
<1> QED BY <1>3, <1>4, SameStore, StepOfStore

\* A write changes the content of the holder's page, and of no other.
LEMMA WriteDataStep ==
  ASSUME StoreInv, NEW h \in Holders, NEW v \in Contents, WriteData(h, v)
  PROVE  Store!StoreNext /\ \E S \in SUBSET live : Persisted(S)
<1>1. pages_ \in [Frames -> Page] /\ page_table_ \in [PageIds -> Frames \cup {NoFrame}]
  BY DEF StoreInv, PoolInv, TypeOK
<1>2. PICK p \in PageIds : /\ p = held[h].page /\ Resident(p) /\ page_table_[p] \in Frames
                           /\ pages_[page_table_[p]].page_id = p
  BY HeldResident DEF StoreInv, WriteData
<1>3. PICK f \in Frames : f = page_table_[p] /\ pages_[f].page_id = p
  BY <1>2
<1>4. p \in live
  BY <1>2 DEF StoreInv, PoolInv, MappingConsistent
<1>5. /\ pages_' = [pages_ EXCEPT ![f] = [pages_[f] EXCEPT !.data = v]]
      /\ page_table_' = page_table_ /\ live' = live /\ disk' = disk
  BY <1>2, <1>3 DEF WriteData
<1>6. pages_'[f].data = v /\ \A g \in Frames \ {f} : pages_'[g] = pages_[g]
  BY <1>1, <1>5 DEF Page
<1>7. ContentOf(p)' = v
  <2>1. p \in live' /\ Resident(p)' /\ pages_'[page_table_'[p]].data = v
    BY <1>2, <1>3, <1>4, <1>5, <1>6 DEF Resident
  <2> QED BY <2>1 DEF ContentOf
<1>8. ASSUME NEW x \in PageIds \ {p} PROVE ContentOf(x)' = ContentOf(x)
  <2>1. CASE Resident(x)
    <3>1. page_table_[x] \in Frames /\ pages_[page_table_[x]].page_id = x
      BY <1>1, <2>1 DEF StoreInv, PoolInv, MappingConsistent, Resident
    <3>2. pages_'[page_table_[x]] = pages_[page_table_[x]]
      BY <1>3, <1>6, <3>1
    <3>3. Resident(x)' /\ (x \in live' <=> x \in live) /\ pages_'[page_table_'[x]] = pages_[page_table_[x]]
      BY <1>5, <2>1, <3>2 DEF Resident
    <3> QED BY <2>1, <3>3 DEF ContentOf
  <2>2. CASE ~Resident(x)
    BY <1>5, <2>2 DEF ContentOf, Resident
  <2> QED BY <2>1, <2>2
<1>9. Store!Write(p, v)
  <2>1. ContentOf(p) # Absent
    BY <1>4, ContentType
  <2>2. [x \in PageIds |-> ContentOf(x)]' = [[x \in PageIds |-> ContentOf(x)] EXCEPT ![p] = v]
    BY <1>7, <1>8, OneChanged
  <2> QED BY <2>1, <2>2 DEF Store!Write
<1>10. Store!StoreStep
  BY <1>9 DEF Store!StoreStep
<1>11. Persisted({}) /\ {} \in SUBSET live
  BY <1>5, NothingPersisted
<1> QED BY <1>10, <1>11, StepOfStore

\* Deleting a page removes it from the store, resident or not.
LEMMA DeleteStep ==
  ASSUME StoreInv, NEW p \in PageIds, DeleteAbsent(p) \/ DeleteResident(p)
  PROVE  Store!StoreNext /\ \E S \in SUBSET live : Persisted(S)
<1>1. /\ pages_ \in [Frames -> Page] /\ page_table_ \in [PageIds -> Frames \cup {NoFrame}]
  BY DEF StoreInv, PoolInv, TypeOK
<1>2. /\ p \in live /\ live' = live \ {p} /\ disk' = disk
      /\ \A x \in PageIds \ {p} : page_table_'[x] = page_table_[x]
      /\ \A g \in Frames : pages_[g].page_id # p => pages_'[g] = pages_[g]
  <2>1. CASE DeleteAbsent(p)
    BY <2>1 DEF DeleteAbsent
  <2>2. CASE DeleteResident(p)
    <3>1. PICK f \in Frames : f = page_table_[p] /\ f \in EvictableFrames(lru) /\ pages_[f].page_id = p
      BY <2>2, DeleteUnpinned DEF StoreInv
    <3>2. /\ p \in live /\ live' = live \ {p} /\ disk' = disk
          /\ page_table_' = [page_table_ EXCEPT ![p] = NoFrame]
          /\ pages_' = [pages_ EXCEPT ![f] = EmptyPage]
      BY <2>2, <3>1, Zenon DEF DeleteResident, DeallocatePage
    <3> QED BY <1>1, <3>1, <3>2
  <2> QED BY <2>1, <2>2
<1>3. ContentOf(p)' = Absent
  BY <1>2 DEF ContentOf
<1>4. ASSUME NEW x \in PageIds \ {p} PROVE ContentOf(x)' = ContentOf(x)
  <2>1. x \in live' <=> x \in live
    BY <1>2
  <2>2. CASE Resident(x)
    <3>1. page_table_[x] \in Frames /\ pages_[page_table_[x]].page_id = x
      BY <1>1, <2>2 DEF StoreInv, PoolInv, MappingConsistent, Resident
    <3>2. pages_'[page_table_[x]] = pages_[page_table_[x]] /\ page_table_'[x] = page_table_[x]
      BY <1>2, <3>1
    <3> QED BY <2>1, <2>2, <3>2 DEF ContentOf, Resident
  <2>3. CASE ~Resident(x)
    <3>1. ~Resident(x)'
      BY <1>2, <2>3 DEF Resident
    <3> QED BY <1>2, <2>1, <2>3, <3>1 DEF ContentOf
  <2> QED BY <2>2, <2>3
<1>5. Store!Delete(p)
  <2>1. ContentOf(p) # Absent
    BY <1>2, ContentType
  <2>2. [x \in PageIds |-> ContentOf(x)]' = [[x \in PageIds |-> ContentOf(x)] EXCEPT ![p] = Absent]
    BY <1>3, <1>4, OneChanged
  <2> QED BY <2>1, <2>2 DEF Store!Delete
<1>6. Store!StoreStep
  BY <1>5 DEF Store!StoreStep
<1>7. Persisted({}) /\ {} \in SUBSET live
  BY <1>2, NothingPersisted
<1> QED BY <1>6, <1>7, StepOfStore

\* A flush makes pages durable and changes no content.
LEMMA FlushStep ==
  ASSUME StoreInv, FlushAllPages \/ \E p \in PageIds : FlushPage(p)
  PROVE  Store!StoreNext /\ \E S \in SUBSET live : Persisted(S)
<1>1. /\ pages_ \in [Frames -> Page] /\ page_table_ \in [PageIds -> Frames \cup {NoFrame}]
      /\ disk \in Disks /\ Good(disk) /\ live \in SUBSET PageIds
  BY DEF StoreInv, PoolInv, TypeOK, DurableInv
<1>2. /\ page_table_' = page_table_ /\ live' = live
      /\ \A g \in Frames : pages_'[g].data = pages_[g].data
  <2>1. CASE FlushAllPages
    <3>1. /\ pages_' = [f \in Frames |-> IF pages_[f].page_id = NoPage THEN pages_[f]
                                         ELSE [pages_[f] EXCEPT !.is_dirty = FALSE]]
          /\ page_table_' = page_table_ /\ live' = live
      BY <2>1 DEF FlushAllPages
    <3> QED BY <1>1, <3>1 DEF Page
  <2>2. ASSUME NEW p \in PageIds, FlushPage(p)
        PROVE  /\ page_table_' = page_table_ /\ live' = live
               /\ \A g \in Frames : pages_'[g].data = pages_[g].data
    <3>1. /\ pages_' = [pages_ EXCEPT ![page_table_[p]] = [pages_[page_table_[p]] EXCEPT !.is_dirty = FALSE]]
          /\ page_table_' = page_table_ /\ live' = live
      BY <2>2 DEF FlushPage
    <3> QED BY <1>1, <3>1 DEF Page
  <2> QED BY <2>1, <2>2
<1>3. \E S \in SUBSET live : Persisted(S)
  <2>1. CASE FlushAllPages
    <3> DEFINE S == {p \in PageIds : \E f \in Frames : pages_[f].page_id = p}
    <3>1. /\ \A f \in Frames : Used(f) => disk'.file[pages_[f].page_id] = pages_[f].data
          /\ \A x \in PageIds : (\A f \in Frames : pages_[f].page_id # x) => disk'.file[x] = disk.file[x]
          /\ \A x \in PageIds : InFile(disk', x) <=>
               (InFile(disk, x) \/ \E f \in Frames : Used(f) /\ x <= pages_[f].page_id)
      BY <2>1, FlushAllStores DEF StoreInv
    <3>2. ASSUME NEW x \in S PROVE disk'.file[x] = ContentOf(x) /\ x \in live
      <4>1. PICK f \in Frames : pages_[f].page_id = x
        BY <3>2
      <4>2. Used(f)
        BY <3>2, <4>1, Invalid DEF Used
      <4> QED BY <3>1, <4>1, <4>2, ContentInFrame
    <3>3. \A x \in PageIds \ S : disk'.file[x] = disk.file[x]
      BY <3>1
    <3>4. ASSUME NEW x \in PageIds
          PROVE  (\E f \in Frames : Used(f) /\ x <= pages_[f].page_id) <=> \E q \in S : x <= q
      <4>1. ASSUME NEW f \in Frames, Used(f), x <= pages_[f].page_id PROVE \E q \in S : x <= q
        BY <1>1, <4>1 DEF Used, Page
      <4>2. ASSUME NEW q \in S, x <= q PROVE \E f \in Frames : Used(f) /\ x <= pages_[f].page_id
        BY <4>2, Invalid DEF Used
      <4> QED BY <4>1, <4>2
    <3>5. Persisted(S)
      <4> HIDE DEF S
      <4>1. \A x \in PageIds : InFile(disk', x) <=> (InFile(disk, x) \/ \E q \in S : x <= q)
        BY <3>1, <3>4, Zenon
      <4> QED BY <3>2, <3>3, <4>1 DEF Persisted
    <3>6. S \in SUBSET live
      BY <3>2
    <3> QED BY <3>5, <3>6
  <2>2. ASSUME NEW p \in PageIds, FlushPage(p) PROVE \E S \in SUBSET live : Persisted(S)
    <3>1. PICK f \in Frames : f = page_table_[p] /\ pages_[f].page_id = p
      BY <1>1, <2>2 DEF StoreInv, PoolInv, MappingConsistent, Resident, FlushPage
    <3>2. Used(f)
      BY <3>1, Invalid DEF Used
    <3>3. p \in live /\ ContentOf(p) = pages_[f].data
      BY <3>1, <3>2, ContentInFrame
    <3>4. disk' = WritePage(disk, p, pages_[f].data) /\ pages_[f].data \in Contents
      BY <1>1, <2>2, <3>1 DEF FlushPage, Page
    <3>5. /\ \A x \in PageIds : disk'.file[x] = IF x = p THEN pages_[f].data ELSE disk.file[x]
          /\ \A x \in PageIds : InFile(disk', x) <=> (InFile(disk, x) \/ x <= p)
      BY <1>1, <3>4, WriteStores
    <3>6. Persisted({p})
      BY <3>3, <3>5 DEF Persisted
    <3> QED BY <3>3, <3>6
  <2> QED BY <2>1, <2>2
<1>4. PICK S \in SUBSET live : Persisted(S)
  BY <1>3
<1>5. ASSUME NEW x \in PageIds PROVE ContentOf(x)' = ContentOf(x)
  <2>1. x \in live' <=> x \in live
    BY <1>2
  <2>2. CASE Resident(x)
    <3>1. page_table_[x] \in Frames /\ Resident(x)'
      BY <1>1, <1>2, <2>2 DEF Resident
    <3>2. pages_'[page_table_'[x]].data = pages_[page_table_[x]].data
      BY <1>2, <3>1
    <3> QED BY <2>1, <2>2, <3>1, <3>2 DEF ContentOf
  <2>3. CASE ~Resident(x) /\ x \in live
    <3>1. InFile(disk, x) /\ ContentOf(x) = disk.file[x] /\ ~Resident(x)'
      BY <1>2, <2>3, ContentWhere DEF Resident
    <3>2. InFile(disk', x) /\ disk'.file[x] = disk.file[x]
      BY <1>4, <3>1 DEF Persisted
    <3>3. ContentOf(x)' = disk'.file[x]
      BY <2>1, <2>3, <3>1, <3>2 DEF ContentOf, InFile
    <3> QED BY <3>1, <3>2, <3>3
  <2>4. CASE x \notin live
    BY <2>1, <2>4 DEF ContentOf
  <2> QED BY <2>2, <2>3, <2>4
<1> QED BY <1>4, <1>5, SameStore, StepOfStore

\* A restart goes back to what is durable.
LEMMA RestartStep ==
  ASSUME StoreInv, Restart
  PROVE  Store!StoreNext /\ FileZero'
<1>1. disk \in Disks
  BY DEF StoreInv, PoolInv, TypeOK
<1>2. disk'.len = disk.len /\ disk'.file = disk.file
  BY <1>1 DEF Restart, OpenDisk, Disks
<1>3. \A x \in PageIds : x \in live' <=> InFile(disk, x)
  BY DEF Restart
<1>4. \A x \in PageIds : ~Resident(x)' /\ (InFile(disk, x)' <=> InFile(disk, x))
  BY <1>2 DEF Restart, Resident, InFile
<1>5. \A x \in PageIds : ContentOf(x)' = DurableContentOf(x)
  BY <1>2, <1>3, <1>4 DEF ContentOf, DurableContentOf
<1>6. \A x \in PageIds : DurableContentOf(x)' = DurableContentOf(x)
  BY <1>2, <1>4 DEF DurableContentOf
<1>7. Store!Crash
  BY <1>5, <1>6 DEF Store!Crash
<1>8. FileZero'
  BY <1>2, <1>4 DEF FileZero, StoreInv
<1> QED BY <1>7, <1>8 DEF Store!StoreNext

\* Every step of the pool is a step of the store, or leaves it as it is.
LEMMA StepRefines ==
  ASSUME StoreInv, [Next]_vars
  PROVE  (Store!StoreNext \/ UNCHANGED Store!storeVars) /\ FileZero'
<1>1. CASE UNCHANGED vars
  <2>1. \A x \in PageIds : ContentOf(x)' = ContentOf(x) /\ DurableContentOf(x)' = DurableContentOf(x)
    BY <1>1 DEF vars, ContentOf, DurableContentOf, Resident
  <2>2. FileZero'
    BY <1>1 DEF vars, FileZero, StoreInv
  <2> QED BY <2>1, <2>2 DEF Store!storeVars
<1>2. live \subseteq PageIds
  BY DEF StoreInv, PoolInv, TypeOK
<1>3. (\E S \in SUBSET live : Persisted(S)) => FileZero'
  BY <1>2, PersistedPersists
<1>4. ASSUME NEW h \in Holders, NewPage(h) PROVE Store!StoreNext /\ FileZero'
  BY <1>3, <1>4, NewPageStep
<1>5. ASSUME NEW h \in Holders, NEW p \in PageIds, FetchPage(h, p) PROVE Store!StoreNext /\ FileZero'
  BY <1>3, <1>5, PinStep, FetchMissStep DEF FetchPage
<1>6. ASSUME NEW h \in Holders, NEW v \in Contents, WriteData(h, v) PROVE Store!StoreNext /\ FileZero'
  BY <1>3, <1>6, WriteDataStep
<1>7. ASSUME NEW h \in Holders, NEW b \in BOOLEAN, UnpinPage(h, b) PROVE Store!StoreNext /\ FileZero'
  BY <1>3, <1>7, PinStep
<1>8. ASSUME NEW p \in PageIds, FlushPage(p) PROVE Store!StoreNext /\ FileZero'
  BY <1>3, <1>8, FlushStep
<1>9. ASSUME NEW p \in PageIds, DeleteAbsent(p) \/ DeleteResident(p) PROVE Store!StoreNext /\ FileZero'
  BY <1>3, <1>9, DeleteStep
<1>10. ASSUME NEW p \in PageIds, DeletePinned(p) PROVE UNCHANGED vars
  BY <1>10 DEF DeletePinned
<1>11. CASE FlushAllPages
  BY <1>3, <1>11, FlushStep
<1>12. CASE PoolExhausted
  BY <1>1, <1>12 DEF PoolExhausted
<1>13. CASE Restart
  BY <1>13, RestartStep
<1> QED BY <1>1, <1>4, <1>5, <1>6, <1>7, <1>8, <1>9, <1>10, <1>11, <1>12, <1>13 DEF Next, DeletePage

\* The buffer pool implements the store without a cache: evictions, fetches,
\* flushes and unpins are invisible, a write changes one page, and a restart
\* returns exactly the pages of the file with the contents written to it.
THEOREM PoolImplementsStore ==
  ASSUME MarkNewDirty
  PROVE  Spec => ImplementsPageStore
<1>1. Init => StoreInv /\ Store!StoreInit
  <2> SUFFICES ASSUME Init PROVE StoreInv /\ Store!StoreInit
    OBVIOUS
  <2>1. PoolInv /\ DurableInv
    BY InitInv, InitDurable
  <2>2. FileZero
    BY DEF Init, EmptyDisk, FileZero
  <2>3. live = {} /\ \A x \in PageIds : ~InFile(disk, x)
    BY DiskAssumption DEF Init, EmptyDisk, InFile, PageIds
  <2>4. \A x \in PageIds : ContentOf(x) = Absent /\ DurableContentOf(x) = Absent
    BY <2>3 DEF ContentOf, DurableContentOf
  <2> QED BY <2>1, <2>2, <2>4 DEF StoreInv, Store!StoreInit
<1>2. StoreInv /\ [Next]_vars => StoreInv' /\ [Store!StoreNext]_(Store!storeVars)
  BY NextInv, NextDurable, StepRefines DEF StoreInv
<1> QED BY <1>1, <1>2, PTL DEF Spec, ImplementsPageStore, Store!StoreSpec
=============================================================================
