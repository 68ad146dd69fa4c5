--------------------------- MODULE PageGuardProofs ---------------------------
(***************************************************************************)
(* Proofs about the page guards, for every number of frames, pages,        *)
(* threads and guards.  The steps of a guard are operations of the pool,   *)
(* so the invariant of the pool comes from BufferPoolProofs; what is added *)
(* here ties a guard to its pin, to the frame it points at and to the      *)
(* latch of that frame.                                                    *)
(***************************************************************************)
EXTENDS PageGuard, BufferPoolProofs

-----------------------------------------------------------------------------
(* The inductive invariant. *)

GuardTypes ==
  /\ guard \in [Holders -> Guard]
  /\ latch \in [Frames -> [readers : Nat, writer : BOOLEAN]]

\* A guard is empty or has a pin, its pointer is the frame of its page, and
\* only a guard with a latch is ever inside its constructor or its Drop.
Linked(g) ==
  /\ guard[g].at = "empty" => guard[g] = Empty
  /\ guard[g] = Empty <=> held[g] = NoPin
  /\ guard[g] # Empty => guard[g].frame = page_table_[held[g].page]
  /\ guard[g].at \in {"latching", "unlatched"} => guard[g].kind # "basic"

\* The latch of f is held by its open guards: readers, or one writer.
Exact(f) ==
  /\ latch[f].readers = Cardinality(GuardsOf(f, "read"))
  /\ \/ latch[f].writer = TRUE  /\ Cardinality(GuardsOf(f, "write")) = 1 /\ latch[f].readers = 0
     \/ latch[f].writer = FALSE /\ Cardinality(GuardsOf(f, "write")) = 0

GuardInv ==
  /\ PoolInv
  /\ GuardTypes
  /\ \A g \in Holders : Linked(g)
  /\ \A f \in Frames : Exact(f)

-----------------------------------------------------------------------------
(* What the operations of the pool leave alone. *)

\* The page of holder o stays in its frame and its content is not changed.
Untouched(o) ==
  LET f == page_table_[held[o].page]
  IN  page_table_'[held[o].page] = f /\ pages_'[f].data = pages_[f].data

\* A page that comes into the pool does not take the frame of a pinned page
\* (NewPage, FetchPage).
LEMMA InstallKeeps ==
  ASSUME PoolInv, NEW f \in Frames, TakeFrame(f), NEW p \in PageIds, ~Resident(p),
         NEW v \in Contents, Install(f, p, v), NEW o \in Holders, held[o] # NoPin
  PROVE  Untouched(o) /\ page_table_'[p] = f
<1>1. PICK q \in PageIds : q = held[o].page
  BY HeldResident
<1>2. PICK k \in Frames : k = page_table_[q] /\ pages_[k].page_id = q
  BY <1>1, HeldResident
<1>3. q # NoPage /\ Resident(q)
  BY <1>1, HeldResident, Invalid
<1>4. q # p
  BY <1>3
<1>5. q # pages_[f].page_id
  BY <1>1, <1>3, TakeUnpinned
<1>6. k # f
  BY <1>2, <1>5
<1>7. pages_ \in [Frames -> Page]
  BY DEF PoolInv, TypeOK
<1>8. TableAfterTake(f)[q] = page_table_[q]
  BY <1>5 DEF TableAfterTake
<1>9. page_table_'[q] = page_table_[q] /\ page_table_'[p] = f
  BY <1>4, <1>8 DEF Install, TableAfterTake
<1>10. pages_'[k] = pages_[k]
  BY <1>6, <1>7 DEF Install
<1> QED BY <1>1, <1>2, <1>9, <1>10 DEF Untouched

\* An operation that changes neither the page table nor any content.
LEMMA SameDataKeeps ==
  ASSUME page_table_' = page_table_, NEW o \in Holders, page_table_[held[o].page] \in Frames,
         \A f \in Frames : pages_'[f].data = pages_[f].data
  PROVE  Untouched(o)
BY DEF Untouched

\* NewPage leaves the pages of other holders alone.
LEMMA NewPageKeeps ==
  ASSUME PoolInv, NEW g \in Holders, NewPage(g), NEW o \in Holders, held[o] # NoPin
  PROVE  Untouched(o)
<1>1. disk.next_page_id \in PageIds /\ ~Resident(disk.next_page_id)
  BY NextIdUnused DEF NewPage
<1>2. Zero \in Contents
  BY DiskAssumption
<1>3. PICK f \in Frames : TakeFrame(f) /\ Install(f, disk.next_page_id, Zero)
  BY DEF NewPage
<1> QED BY <1>1, <1>2, <1>3, InstallKeeps

\* FetchPage leaves the pages of other holders alone.
LEMMA FetchPageKeeps ==
  ASSUME PoolInv, NEW g \in Holders, NEW p \in PageIds, FetchPage(g, p),
         NEW o \in Holders, held[o] # NoPin
  PROVE  Untouched(o)
<1>1. CASE FetchHit(g, p)
  <2>1. pages_ \in [Frames -> Page] /\ page_table_ \in [PageIds -> Frames \cup {NoFrame}]
    BY DEF PoolInv, TypeOK
  <2>2. PICK k \in Frames : k = page_table_[p]
    BY <1>1, <2>1 DEF FetchHit, Resident
  <2>3. pages_' = [pages_ EXCEPT ![k] = Pinned(pages_[k])] /\ page_table_' = page_table_
    BY <1>1, <2>2 DEF FetchHit
  <2>4. Pinned(pages_[k]).data = pages_[k].data
    BY <2>1, <2>2 DEF Pinned, Page
  <2>5. \A f \in Frames : pages_'[f].data = pages_[f].data
    BY <2>1, <2>3, <2>4
  <2> QED BY <2>3, <2>5, HeldResident, SameDataKeeps
<1>2. CASE FetchMiss(g, p)
  <2>1. PICK f \in Frames : TakeFrame(f) /\ Install(f, p, ReadData(DiskAfterTake(f), p))
    BY <1>2 DEF FetchMiss
  <2>2. ReadData(DiskAfterTake(f), p) \in Contents
    BY TakeDisk, ReadDataType
  <2> QED BY <1>2, <2>1, <2>2, InstallKeeps DEF FetchMiss
<1> QED BY <1>1, <1>2 DEF FetchPage

\* UnpinPage changes no content.
LEMMA UnpinPageKeeps ==
  ASSUME PoolInv, NEW g \in Holders, NEW b \in BOOLEAN, UnpinPage(g, b),
         NEW o \in Holders, held[o] # NoPin
  PROVE  Untouched(o)
<1>1. pages_ \in [Frames -> Page] /\ page_table_' = page_table_
  BY DEF PoolInv, TypeOK, UnpinPage
<1>2. held[g] # NoPin
  BY DEF UnpinPage
<1>3. PICK k \in Frames : k = page_table_[held[g].page]
  BY <1>2, HeldResident
<1>4. \/ pages_' = pages_
      \/ pages_' = [pages_ EXCEPT ![k].is_dirty = DirtyAfterUnpin(@, b), ![k].pin_count = @ - 1]
  BY <1>3 DEF UnpinPage
<1>5. \A f \in Frames : pages_'[f].data = pages_[f].data
  BY <1>1, <1>4 DEF Page
<1> QED BY <1>1, <1>5, HeldResident, SameDataKeeps

\* FlushPage and DeletePage change no page that is pinned, although they take
\* no latch.
LEMMA BackgroundKeeps ==
  ASSUME PoolInv, NEW p \in PageIds, FlushPage(p) \/ DeletePage(p),
         NEW o \in Holders, held[o] # NoPin
  PROVE  Untouched(o)
<1>1. pages_ \in [Frames -> Page] /\ page_table_ \in [PageIds -> Frames \cup {NoFrame}]
  BY DEF PoolInv, TypeOK
<1>2. PICK q \in PageIds : q = held[o].page
  BY HeldResident
<1>3. PICK k \in Frames : k = page_table_[q] /\ pages_[k].page_id = q
  BY <1>2, HeldResident
<1>4. CASE FlushPage(p)
  <2>1. PICK j \in Frames : j = page_table_[p]
    BY <1>1, <1>4 DEF FlushPage, Resident
  <2>2. pages_' = [pages_ EXCEPT ![j].is_dirty = FALSE] /\ page_table_' = page_table_
    BY <1>4, <2>1 DEF FlushPage
  <2>3. \A f \in Frames : pages_'[f].data = pages_[f].data
    BY <1>1, <2>2 DEF Page
  <2> QED BY <1>2, <1>3, <2>2, <2>3, SameDataKeeps
<1>5. CASE DeleteResident(p)
  <2>1. PICK j \in Frames : j = page_table_[p] /\ pages_[j].page_id = p
    BY <1>5, DeleteUnpinned
  <2>2. q # p
    BY <1>2, <1>5, DeleteUnpinned
  <2>3. k # j
    BY <1>3, <2>1, <2>2
  <2>4. pages_' = [pages_ EXCEPT ![j] = EmptyPage] \/ pages_' = pages_
    BY <1>5, <2>1 DEF DeleteResident
  <2>5. page_table_' = [page_table_ EXCEPT ![p] = NoFrame]
    BY <1>5 DEF DeleteResident
  <2>6. pages_'[k] = pages_[k] /\ page_table_'[q] = page_table_[q]
    BY <1>1, <2>2, <2>3, <2>4, <2>5
  <2> QED BY <1>2, <1>3, <2>6 DEF Untouched
<1>6. CASE DeleteAbsent(p) \/ DeletePinned(p)
  BY <1>6 DEF DeleteAbsent, DeletePinned, vars, Untouched
<1> QED BY <1>4, <1>5, <1>6 DEF DeletePage

\* FlushPage and DeletePage keep the invariant of the pool and the pins.
LEMMA BackgroundPool ==
  ASSUME PoolInv, NEW p \in PageIds, FlushPage(p) \/ DeletePage(p)
  PROVE  PoolInv' /\ held' = held
<1>1. CASE FlushPage(p)
  BY <1>1, FlushPageInv DEF FlushPage
<1>2. CASE DeleteResident(p)
  BY <1>2, DeleteResidentInv DEF DeleteResident
<1>3. CASE DeleteAbsent(p)
  BY <1>3, DeleteAbsentInv DEF DeleteAbsent
<1>4. CASE DeletePinned(p)
  BY <1>4, NextInv DEF DeletePinned, vars
<1> QED BY <1>1, <1>2, <1>3, <1>4 DEF DeletePage


-----------------------------------------------------------------------------
(* A move hands the pin of one guard to another. *)

\* A set that gives one element for another keeps its size.
LEMMA Exchange ==
  ASSUME NEW S, IsFiniteSet(S), NEW g \in S, NEW h, h \notin S
  PROVE  Cardinality((S \ {g}) \cup {h}) = Cardinality(S)
<1>1. IsFiniteSet(S \ {g}) /\ Cardinality(S \ {g}) = Cardinality(S) - 1
  BY FS_RemoveElement
<1>2. Cardinality((S \ {g}) \cup {h}) = Cardinality(S \ {g}) + 1
  BY <1>1, FS_AddElement
<1>3. Cardinality(S) \in Nat
  BY FS_CardinalityType
<1> QED BY <1>1, <1>2, <1>3

\* The pin counts of the pool stay right when a pin changes hands.
LEMMA MovePool ==
  ASSUME PoolInv, NEW g \in Holders, NEW h \in Holders, g # h,
         held[g] # NoPin, held[h] = NoPin,
         held' = [held EXCEPT ![h] = held[g], ![g] = NoPin],
         UNCHANGED <<pages_, page_table_, free_list_, lru, disk, live>>
  PROVE  PoolInv'
<1>1. PICK u \in [page : PageIds \cup {NoPage}, dirty : BOOLEAN] : u = held[g]
  BY DEF PoolInv, TypeOK
<1>2. held \in [Holders -> [page : PageIds \cup {NoPage}, dirty : BOOLEAN]]
  BY DEF PoolInv, TypeOK
<1>3. NoPin \in [page : PageIds \cup {NoPage}, dirty : BOOLEAN] /\ NoPin.page = NoPage /\ ~NoPin.dirty
  BY DEF NoPin
<1>4. held' \in [Holders -> [page : PageIds \cup {NoPage}, dirty : BOOLEAN]]
  BY <1>1, <1>2, <1>3
<1>5. /\ held'[h] = u /\ held'[g] = NoPin
      /\ \A k \in Holders \ {g, h} : held'[k] = held[k]
  BY <1>1, <1>2
<1>6. TypeOK'
  BY <1>4 DEF PoolInv, TypeOK
<1>7. MappingConsistent' /\ FramesPartitioned' /\ MarksExact' /\ IdsBounded'
  BY DEF PoolInv, MappingConsistent, FramesPartitioned, MarksExact, IdsBounded, Counted, Tracked,
         EvictableFrames, Resident, Used
<1>8. NoPinIsClean'
  BY <1>1, <1>3, <1>5, Zenon DEF PoolInv, NoPinIsClean
<1>9. PinsExact'
  <2>1. u.page \in PageIds /\ Resident(u.page) /\ u.page # NoPage
    BY <1>1, HeldResident, Invalid
  <2>2. ASSUME NEW k \in Holders, held'[k].page # NoPage PROVE Resident(held[k].page)'
    BY <1>3, <1>5, <2>1, <2>2 DEF PoolInv, PinsExact, Resident
  <2>3. ASSUME NEW p \in PageIds PROVE Cardinality(PinsOf(p)') = Cardinality(PinsOf(p))
    <3>1. p # NoPage
      BY Invalid
    <3>2. CASE p = u.page
      <4>1. PinsOf(p)' = (PinsOf(p) \ {g}) \cup {h}
        BY <1>1, <1>3, <1>5, <3>1, <3>2 DEF PinsOf
      <4>2. g \in PinsOf(p) /\ h \notin PinsOf(p)
        BY <1>1, <1>3, <3>1, <3>2 DEF PinsOf
      <4>3. IsFiniteSet(PinsOf(p))
        BY PoolAssumption, FS_Subset DEF PinsOf
      <4> QED BY <4>1, <4>2, <4>3, Exchange
    <3>3. CASE p # u.page
      <4>1. PinsOf(p)' = PinsOf(p)
        BY <1>1, <1>3, <1>5, <3>1, <3>3 DEF PinsOf
      <4> QED BY <4>1
    <3> QED BY <3>2, <3>3
  <2>4. ASSUME NEW f \in Frames
        PROVE  pages_'[f].pin_count = IF Used(f)' THEN Cardinality(PinsOf(pages_[f].page_id)') ELSE 0
    <3>1. pages_' = pages_ /\ (Used(f)' <=> Used(f))
      BY DEF Used
    <3>2. Used(f) => pages_[f].page_id \in PageIds
      BY DEF PoolInv, TypeOK, Page, Used
    <3> DEFINE q == pages_[f].page_id
    <3>3. PICK p : p = q
      OBVIOUS
    <3>4. Used(f) => Cardinality(PinsOf(p)') = Cardinality(PinsOf(p))
      BY <2>3, <3>2, <3>3
    <3>5. PinsOf(pages_[f].page_id)' = PinsOf(p)'
      BY <3>1, <3>3 DEF PinsOf
    <3> QED BY <3>1, <3>3, <3>4, <3>5 DEF PoolInv, PinsExact
  <2> QED BY <2>2, <2>4, Zenon DEF PinsExact
<1> QED BY <1>6, <1>7, <1>8, <1>9 DEF PoolInv

-----------------------------------------------------------------------------
(* The steps of the guards. *)

\* A guard that is not empty has a pin, and its pointer is a frame that shows
\* its page.
LEMMA GuardHeld ==
  ASSUME GuardInv, NEW g \in Holders, guard[g].at # "empty" \/ held[g] # NoPin \/ guard[g].frame # NoFrame
  PROVE  /\ guard[g] # Empty /\ held[g] # NoPin
         /\ held[g].page \in PageIds /\ held[g].page # NoPage
         /\ guard[g].frame \in Frames
         /\ guard[g].frame = page_table_[held[g].page]
         /\ pages_[guard[g].frame].page_id = held[g].page
<1>1. Linked(g)
  BY DEF GuardInv
<1>2. guard[g] # Empty /\ held[g] # NoPin
  BY <1>1 DEF Linked, Empty
<1> QED BY <1>1, <1>2, HeldResident, Invalid DEF GuardInv, Linked

\* The latch counts stay right when no latch is taken or released.
LEMMA SameLatches ==
  ASSUME GuardInv, latch' = latch,
         \A g \in Holders, f \in Frames, kind \in {"read", "write"} :
           (guard'[g].frame = f /\ guard'[g].kind = kind /\ Latched(g)')
             <=> (guard[g].frame = f /\ guard[g].kind = kind /\ Latched(g))
  PROVE  \A f \in Frames : Exact(f)'
<1> SUFFICES ASSUME NEW f \in Frames PROVE Exact(f)'
  OBVIOUS
<1>1. GuardsOf(f, "read")' = GuardsOf(f, "read") /\ GuardsOf(f, "write")' = GuardsOf(f, "write")
  BY Zenon DEF GuardsOf
<1>2. Exact(f)
  BY DEF GuardInv
<1> QED BY <1>1, <1>2 DEF Exact

\* A holder that a pool operation leaves alone keeps its guard's pointer right.
LEMMA LinkedKept ==
  ASSUME NEW o \in Holders, Linked(o), guard'[o] = guard[o], held'[o] = held[o],
         held[o] # NoPin => Untouched(o)
  PROVE  Linked(o)'
BY DEF Linked, Untouched

\* The constructor of a guard on a page that was just pinned for it (NewPage
\* or FetchPage inside BufferPoolManager's guard functions).
LEMMA OpenInv ==
  ASSUME GuardInv, PoolInv', NEW g \in Holders, NEW kind \in Kinds, NEW p \in PageIds, NEW b \in BOOLEAN,
         guard[g] = Empty, Constructed(g, kind, page_table_'[p]), latch' = latch,
         held' = [held EXCEPT ![g] = [page |-> p, dirty |-> b]],
         \A o \in Holders : held[o] # NoPin => Untouched(o)
  PROVE  GuardInv'
<1> DEFINE f == page_table_'[p]
           at == IF kind = "basic" THEN "open" ELSE "latching"
<1>1. /\ guard \in [Holders -> Guard] /\ latch \in [Frames -> [readers : Nat, writer : BOOLEAN]]
      /\ held \in [Holders -> [page : PageIds \cup {NoPage}, dirty : BOOLEAN]]
  BY DEF GuardInv, GuardTypes, PoolInv, TypeOK
<1>2. page_table_' \in [PageIds -> Frames \cup {NoFrame}]
  BY DEF PoolInv, TypeOK
<1>3. PICK x : x = [kind |-> kind, frame |-> f, at |-> at]
  OBVIOUS
<1>4. x \in Guard /\ x.kind = kind /\ x.frame = f /\ x.at = at /\ x.at \in {"open", "latching"}
  BY <1>2, <1>3 DEF Guard, Kinds
<1>5. guard' = [guard EXCEPT ![g] = x]
  BY <1>3 DEF Constructed
<1>6. guard'[g] = x /\ \A o \in Holders \ {g} : guard'[o] = guard[o]
  BY <1>1, <1>5
<1>7. GuardTypes'
  BY <1>1, <1>4, <1>5 DEF GuardTypes
<1>8. held'[g].page = p /\ \A o \in Holders \ {g} : held'[o] = held[o]
  BY <1>1
<1>9. held'[g] # NoPin /\ x # Empty
  BY <1>4, <1>8, Invalid DEF NoPin, Empty
<1>10. Linked(g)'
  BY <1>4, <1>6, <1>8, <1>9 DEF Linked
<1>11. ASSUME NEW o \in Holders \ {g} PROVE Linked(o)'
  BY <1>6, <1>8, LinkedKept DEF GuardInv
<1>12. ~Latched(g) /\ ~Latched(g)'
  BY <1>4, <1>6 DEF Latched, Empty
<1>13. \A f1 \in Frames : Exact(f1)'
  <2>1. ASSUME NEW o \in Holders \ {g}
        PROVE  guard'[o] = guard[o] /\ (Latched(o)' <=> Latched(o))
    BY <1>6 DEF Latched
  <2> QED BY <1>12, <2>1, SameLatches
<1> QED BY <1>7, <1>10, <1>11, <1>13 DEF GuardInv

\* FetchPage and a guard around the page keep the invariant.
LEMMA OpenFetchedInv ==
  ASSUME GuardInv, NEW g \in Holders, NEW kind \in Kinds, NEW p \in PageIds, OpenFetched(g, kind, p)
  PROVE  GuardInv'
<1>1. PoolInv /\ FetchPage(g, p)
  BY DEF GuardInv, OpenFetched
<1>2. PoolInv'
  BY <1>1, FetchHitInv, FetchMissInv DEF FetchPage
<1>3. held' = [held EXCEPT ![g] = [page |-> p, dirty |-> FALSE]]
  BY <1>1 DEF FetchPage, FetchHit, FetchMiss
<1>4. \A o \in Holders : held[o] # NoPin => Untouched(o)
  BY <1>1, FetchPageKeeps
<1> QED BY <1>2, <1>3, <1>4, OpenInv DEF OpenFetched

\* NewPage and a guard around the page keep the invariant.
LEMMA OpenNewInv ==
  ASSUME GuardInv, NEW g \in Holders, NEW kind \in Kinds, OpenNew(g, kind)
  PROVE  GuardInv'
<1>1. PoolInv /\ NewPage(g)
  BY DEF GuardInv, OpenNew
<1>2. PoolInv'
  BY <1>1, NewPageInv
<1>3. PICK p \in PageIds : p = disk.next_page_id
  BY <1>1, NextIdUnused DEF NewPage
<1>4. held' = [held EXCEPT ![g] = [page |-> p, dirty |-> MarkNewDirty]]
  BY <1>1, <1>3 DEF NewPage
<1>5. \A o \in Holders : held[o] # NoPin => Untouched(o)
  BY <1>1, NewPageKeeps
<1>6. guard[g] = Empty /\ Constructed(g, kind, page_table_'[p]) /\ latch' = latch
  BY <1>3 DEF OpenNew
<1> QED BY <1>2, <1>4, <1>5, <1>6, OpenInv, PoolAssumption


\* A latch is taken only when the others that hold it allow it (RLatch, WLatch
\* at the end of a constructor).
LEMMA LatchInv ==
  ASSUME GuardInv, NEW g \in Holders, Latch(g)
  PROVE  GuardInv'
<1>1. /\ guard \in [Holders -> Guard] /\ latch \in [Frames -> [readers : Nat, writer : BOOLEAN]]
      /\ Linked(g) /\ guard[g].at = "latching"
  BY DEF GuardInv, GuardTypes, Latch
<1>2. PICK f \in Frames : f = guard[g].frame
  BY <1>1, GuardHeld
<1>3. PICK kind \in {"read", "write"} : kind = guard[g].kind
  BY <1>1 DEF Linked, Guard, Kinds
<1>4. PICK n \in Nat : n = latch[f].readers
  BY <1>1
<1>5. latch[f].writer = FALSE /\ (kind = "write" => n = 0)
  <2>1. latch[f].writer \in BOOLEAN
    BY <1>1
  <2> QED BY <1>2, <1>3, <1>4, <2>1 DEF Latch, LatchFree
<1>6. PICK x : x = [kind |-> kind, frame |-> f, at |-> "open"]
  OBVIOUS
<1>7. guard' = [guard EXCEPT ![g] = x] /\ x \in Guard /\ x.kind = kind /\ x.frame = f /\ x.at = "open"
  <2>1. PICK y \in Guard : y = guard[g]
    BY <1>1
  <2>2. [y EXCEPT !.at = "open"] = x
    BY ONLY <1>2, <1>3, <1>6, <2>1 DEF Guard
  <2>3. guard' = [guard EXCEPT ![g] = [y EXCEPT !.at = "open"]]
    BY <2>1 DEF Latch
  <2>4. x \in Guard
    BY ONLY <1>2, <1>3, <1>6 DEF Guard, Kinds
  <2>5. x.kind = kind /\ x.frame = f /\ x.at = "open"
    BY ONLY <1>6
  <2> QED BY <2>2, <2>3, <2>4, <2>5
<1>8. PICK y \in [readers : Nat, writer : BOOLEAN] : y = latch[f] /\ y.readers = n /\ y.writer = FALSE
  BY <1>1, <1>4, <1>5, Zenon
<1>9. PICK l : l = IF kind = "read" THEN RLock(y) ELSE WLock(y)
  OBVIOUS
<1>10. /\ latch' = [latch EXCEPT ![f] = l]
       /\ l \in [readers : Nat, writer : BOOLEAN]
       /\ kind = "read" => l.readers = n + 1 /\ l.writer = FALSE
       /\ kind = "write" => l.readers = 0 /\ l.writer = TRUE
  <2>1. latch' = [latch EXCEPT ![f] = l]
    BY <1>2, <1>3, <1>8, <1>9 DEF Latch
  <2>2. RLock(y) \in [readers : Nat, writer : BOOLEAN] /\ RLock(y).readers = n + 1 /\ RLock(y).writer = FALSE
    BY ONLY <1>8 DEF RLock
  <2>3. /\ WLock(y) \in [readers : Nat, writer : BOOLEAN] /\ WLock(y).writer = TRUE
        /\ kind = "write" => WLock(y).readers = 0
    BY ONLY <1>5, <1>8 DEF WLock
  <2> QED BY <1>9, <2>1, <2>2, <2>3
<1>11. GuardTypes'
  BY <1>1, <1>7, <1>10 DEF GuardTypes
<1>12. guard'[g] = x /\ \A o \in Holders \ {g} : guard'[o] = guard[o]
  BY <1>1, <1>7
<1>13. UNCHANGED vars
  BY DEF Latch
<1>14. PoolInv'
  BY <1>13, NextInv DEF GuardInv
<1>15. \A o \in Holders : Linked(o)'
  <2>1. Linked(g)'
    BY <1>1, <1>2, <1>7, <1>12, <1>13 DEF Linked, Empty, vars
  <2>2. ASSUME NEW o \in Holders \ {g} PROVE Linked(o)'
    <3>1. Untouched(o) /\ held' = held
      BY <1>13 DEF Untouched, vars
    <3> QED BY <1>12, <3>1, LinkedKept DEF GuardInv
  <2> QED BY <2>1, <2>2
<1>16. ~Latched(g) /\ Latched(g)'
  BY <1>1, <1>3, <1>7, <1>12 DEF Latched
<1>17. ASSUME NEW o \in Holders \ {g} PROVE Latched(o)' <=> Latched(o)
  BY <1>12 DEF Latched
<1>18. ASSUME NEW k \in Frames PROVE Exact(k)'
  <2>1. ASSUME NEW a \in {"read", "write"}, k # f \/ a # kind PROVE GuardsOf(k, a)' = GuardsOf(k, a)
    BY <1>7, <1>12, <1>16, <1>17, <2>1 DEF GuardsOf
  <2>2. CASE k # f
    <3>1. GuardsOf(k, "read")' = GuardsOf(k, "read") /\ GuardsOf(k, "write")' = GuardsOf(k, "write")
      BY <2>1, <2>2
    <3>2. latch'[k] = latch[k]
      BY <1>1, <1>10, <2>2
    <3> QED BY <3>1, <3>2 DEF GuardInv, Exact
  <2>3. CASE k = f
    <3>1. GuardsOf(f, kind)' = GuardsOf(f, kind) \cup {g} /\ g \notin GuardsOf(f, kind)
      BY <1>7, <1>12, <1>16, <1>17 DEF GuardsOf
    <3>2. IsFiniteSet(GuardsOf(f, kind))
      BY PoolAssumption, FS_Subset DEF GuardsOf
    <3>3. Cardinality(GuardsOf(f, kind)') = Cardinality(GuardsOf(f, kind)) + 1
      BY <3>1, <3>2, FS_AddElement
    <3>4. latch'[f] = l
      BY <1>1, <1>10
    <3>5. n = Cardinality(GuardsOf(f, "read")) /\ Cardinality(GuardsOf(f, "write")) = 0
      BY <1>4, <1>5 DEF GuardInv, Exact
    <3>6. CASE kind = "read"
      <4>1. GuardsOf(f, "write")' = GuardsOf(f, "write")
        BY <2>1, <2>3, <3>6
      <4>2. Cardinality(GuardsOf(f, "read")') = n + 1 /\ Cardinality(GuardsOf(f, "write")') = 0
        BY <3>3, <3>5, <3>6, <4>1
      <4>3. l.readers = n + 1 /\ l.writer = FALSE
        BY <1>10, <3>6
      <4> QED BY <2>3, <3>4, <4>2, <4>3 DEF Exact
    <3>7. CASE kind = "write"
      <4>1. GuardsOf(f, "read")' = GuardsOf(f, "read")
        BY <2>1, <2>3, <3>7
      <4>2. Cardinality(GuardsOf(f, "read")') = 0 /\ Cardinality(GuardsOf(f, "write")') = 1
        BY <1>5, <3>3, <3>5, <3>7, <4>1
      <4>3. l.readers = 0 /\ l.writer = TRUE
        BY <1>10, <3>7
      <4> QED BY <2>3, <3>4, <4>2, <4>3 DEF Exact
    <3> QED BY <3>6, <3>7
  <2> QED BY <2>2, <2>3
<1> QED BY <1>11, <1>14, <1>15, <1>18 DEF GuardInv

\* A guard releases exactly the latch it took (RUnlatch, WUnlatch in Drop).
LEMMA UnlatchInv ==
  ASSUME GuardInv, NEW g \in Holders, Unlatch(g)
  PROVE  GuardInv'
<1>1. /\ guard \in [Holders -> Guard] /\ latch \in [Frames -> [readers : Nat, writer : BOOLEAN]]
      /\ Linked(g) /\ Latched(g) /\ guard[g].at = "open"
  BY DEF GuardInv, GuardTypes, Unlatch, Latched
<1>2. PICK f \in Frames : f = guard[g].frame
  BY <1>1, GuardHeld
<1>3. PICK kind \in {"read", "write"} : kind = guard[g].kind
  BY <1>1 DEF Latched, Guard, Kinds
<1>4. PICK y \in [readers : Nat, writer : BOOLEAN] : y = latch[f]
  BY <1>1
<1>5. g \in GuardsOf(f, kind)
  BY <1>1, <1>2, <1>3 DEF GuardsOf
<1>6. IsFiniteSet(GuardsOf(f, kind))
  BY PoolAssumption, FS_Subset DEF GuardsOf
<1>7. Cardinality(GuardsOf(f, kind)) \in Nat \ {0}
  BY <1>5, <1>6, FS_CardinalityType, FS_EmptySet
<1>8. /\ y.readers = Cardinality(GuardsOf(f, "read"))
      /\ \/ y.writer = TRUE  /\ Cardinality(GuardsOf(f, "write")) = 1 /\ y.readers = 0
         \/ y.writer = FALSE /\ Cardinality(GuardsOf(f, "write")) = 0
  BY <1>4, Zenon DEF GuardInv, Exact
<1>9. PICK x : x = [kind |-> kind, frame |-> f, at |-> "unlatched"]
  OBVIOUS
<1>10. guard' = [guard EXCEPT ![g] = x] /\ x \in Guard /\ x.kind = kind /\ x.frame = f /\ x.at = "unlatched"
  <2>1. PICK z \in Guard : z = guard[g]
    BY <1>1
  <2>2. [z EXCEPT !.at = "unlatched"] = x
    BY ONLY <1>2, <1>3, <1>9, <2>1 DEF Guard
  <2>3. guard' = [guard EXCEPT ![g] = [z EXCEPT !.at = "unlatched"]]
    BY <2>1 DEF Unlatch
  <2>4. x \in Guard
    BY ONLY <1>2, <1>3, <1>9 DEF Guard, Kinds
  <2>5. x.kind = kind /\ x.frame = f /\ x.at = "unlatched"
    BY ONLY <1>9
  <2> QED BY <2>2, <2>3, <2>4, <2>5
<1>11. PICK l : l = IF kind = "read" THEN RUnlock(y) ELSE WUnlock(y)
  OBVIOUS
<1>12. /\ latch' = [latch EXCEPT ![f] = l]
       /\ l \in [readers : Nat, writer : BOOLEAN] /\ l.writer = FALSE
       /\ kind = "read" => l.readers = y.readers - 1 /\ Cardinality(GuardsOf(f, "write")) = 0
       /\ kind = "write" => l.readers = 0 /\ y.readers = 0 /\ Cardinality(GuardsOf(f, "write")) = 1
  <2>1. latch' = [latch EXCEPT ![f] = l]
    BY <1>2, <1>3, <1>4, <1>11 DEF Unlatch, Released
  <2>2. CASE kind = "read"
    <3>1. y.readers \in Nat \ {0}
      BY <1>7, <1>8, <2>2
    <3>2. y.writer = FALSE /\ Cardinality(GuardsOf(f, "write")) = 0
      BY <1>8, <3>1
    <3>3. /\ RUnlock(y) \in [readers : Nat, writer : BOOLEAN] /\ RUnlock(y).readers = y.readers - 1
          /\ RUnlock(y).writer = FALSE
      BY ONLY <1>4, <3>1, <3>2 DEF RUnlock
    <3> QED BY <1>11, <2>1, <2>2, <3>2, <3>3
  <2>3. CASE kind = "write"
    <3>1. y.readers = 0 /\ Cardinality(GuardsOf(f, "write")) = 1
      BY <1>7, <1>8, <2>3
    <3>2. WUnlock(y) \in [readers : Nat, writer : BOOLEAN] /\ WUnlock(y).readers = 0 /\ WUnlock(y).writer = FALSE
      BY ONLY <1>4, <3>1 DEF WUnlock
    <3> QED BY <1>11, <2>1, <2>3, <3>1, <3>2
  <2> QED BY <2>2, <2>3
<1>13. GuardTypes'
  BY <1>1, <1>10, <1>12 DEF GuardTypes
<1>14. guard'[g] = x /\ \A o \in Holders \ {g} : guard'[o] = guard[o]
  BY <1>1, <1>10
<1>15. UNCHANGED vars
  BY DEF Unlatch
<1>16. PoolInv'
  BY <1>15, NextInv DEF GuardInv
<1>17. \A o \in Holders : Linked(o)'
  <2>1. Linked(g)'
    BY <1>1, <1>2, <1>10, <1>14, <1>15 DEF Linked, Empty, vars
  <2>2. ASSUME NEW o \in Holders \ {g} PROVE Linked(o)'
    <3>1. Untouched(o) /\ held' = held
      BY <1>15 DEF Untouched, vars
    <3> QED BY <1>14, <3>1, LinkedKept DEF GuardInv
  <2> QED BY <2>1, <2>2
<1>18. ~Latched(g)'
  BY <1>10, <1>14 DEF Latched
<1>19. ASSUME NEW o \in Holders \ {g} PROVE Latched(o)' <=> Latched(o)
  BY <1>14 DEF Latched
<1>20. ASSUME NEW k \in Frames PROVE Exact(k)'
  <2>1. ASSUME NEW a \in {"read", "write"}, k # f \/ a # kind PROVE GuardsOf(k, a)' = GuardsOf(k, a)
    BY <1>2, <1>3, <1>14, <1>18, <1>19, <2>1 DEF GuardsOf
  <2>2. CASE k # f
    <3>1. GuardsOf(k, "read")' = GuardsOf(k, "read") /\ GuardsOf(k, "write")' = GuardsOf(k, "write")
      BY <2>1, <2>2
    <3>2. latch'[k] = latch[k]
      BY <1>1, <1>12, <2>2
    <3> QED BY <3>1, <3>2 DEF GuardInv, Exact
  <2>3. CASE k = f
    <3>1. GuardsOf(f, kind)' = GuardsOf(f, kind) \ {g}
      BY <1>14, <1>18, <1>19 DEF GuardsOf
    <3>2. Cardinality(GuardsOf(f, kind)') = Cardinality(GuardsOf(f, kind)) - 1
      BY <1>5, <1>6, <3>1, FS_RemoveElement
    <3>3. latch'[f] = l
      BY <1>1, <1>12
    <3>4. CASE kind = "read"
      <4>1. GuardsOf(f, "write")' = GuardsOf(f, "write")
        BY <2>1, <2>3, <3>4
      <4>2. Cardinality(GuardsOf(f, "read")') = l.readers /\ Cardinality(GuardsOf(f, "write")') = 0
        BY <1>8, <1>12, <3>2, <3>4, <4>1
      <4> QED BY <1>12, <2>3, <3>3, <4>2 DEF Exact
    <3>5. CASE kind = "write"
      <4>1. GuardsOf(f, "read")' = GuardsOf(f, "read")
        BY <2>1, <2>3, <3>5
      <4>2. Cardinality(GuardsOf(f, "read")') = l.readers /\ Cardinality(GuardsOf(f, "write")') = 0
        BY <1>8, <1>12, <3>2, <3>5, <4>1
      <4> QED BY <1>12, <2>3, <3>3, <4>2 DEF Exact
    <3> QED BY <3>4, <3>5
  <2> QED BY <2>2, <2>3
<1> QED BY <1>13, <1>16, <1>17, <1>20 DEF GuardInv

\* UnpinPage at the end of Drop, after which the guard is empty.
LEMMA DropPinInv ==
  ASSUME GuardInv, NEW g \in Holders, DropPin(g)
  PROVE  GuardInv'
<1>1. /\ guard \in [Holders -> Guard] /\ latch \in [Frames -> [readers : Nat, writer : BOOLEAN]]
      /\ held \in [Holders -> [page : PageIds \cup {NoPage}, dirty : BOOLEAN]] /\ PoolInv
  BY DEF GuardInv, GuardTypes, PoolInv, TypeOK
<1>2. PICK b \in BOOLEAN : b = DropDirty(g)
  <2>1. guard[g].kind \in Kinds /\ held[g].dirty \in BOOLEAN
    BY <1>1 DEF Guard
  <2> QED BY <2>1 DEF DropDirty, Kinds
<1>3. UnpinPage(g, b) /\ guard' = [guard EXCEPT ![g] = Empty] /\ latch' = latch
  BY <1>2 DEF DropPin
<1>4. PoolInv'
  BY <1>1, <1>3, UnpinPageInv
<1>5. Empty \in Guard
  BY DEF Empty, Guard, Kinds
<1>6. GuardTypes'
  BY <1>1, <1>3, <1>5 DEF GuardTypes
<1>7. guard'[g] = Empty /\ \A o \in Holders \ {g} : guard'[o] = guard[o]
  BY <1>1, <1>3
<1>8. held'[g] = NoPin /\ \A o \in Holders \ {g} : held'[o] = held[o]
  BY <1>1, <1>3 DEF UnpinPage
<1>9. Linked(g)'
  BY <1>7, <1>8 DEF Linked, Empty
<1>10. ASSUME NEW o \in Holders \ {g} PROVE Linked(o)'
  BY <1>1, <1>3, <1>7, <1>8, LinkedKept, UnpinPageKeeps DEF GuardInv
<1>11. ~Latched(g) /\ ~Latched(g)'
  BY <1>7 DEF Latched, DropPin, Empty
<1>12. \A f \in Frames : Exact(f)'
  <2>1. ASSUME NEW o \in Holders \ {g}
        PROVE  guard'[o] = guard[o] /\ (Latched(o)' <=> Latched(o))
    BY <1>7 DEF Latched
  <2> QED BY <1>3, <1>11, <2>1, SameLatches
<1> QED BY <1>4, <1>6, <1>9, <1>10, <1>12 DEF GuardInv

\* A write through a guard changes neither pins nor latches.
LEMMA WriteThroughInv ==
  ASSUME GuardInv, NEW g \in Holders, NEW v \in Contents, WriteThrough(g, v)
  PROVE  GuardInv'
<1>1. PoolInv /\ WriteData(g, v) /\ guard' = guard /\ latch' = latch
  BY DEF GuardInv, WriteThrough
<1>2. PoolInv'
  BY <1>1, WriteDataInv
<1>3. GuardTypes'
  BY <1>1 DEF GuardInv, GuardTypes
<1>4. held \in [Holders -> [page : PageIds \cup {NoPage}, dirty : BOOLEAN]]
  BY DEF GuardInv, PoolInv, TypeOK
<1>5. held' = [held EXCEPT ![g].dirty = TRUE] /\ page_table_' = page_table_
  BY <1>1 DEF WriteData
<1>6. \A o \in Holders : held'[o].page = held[o].page
  BY <1>4, <1>5
<1>7. ASSUME NEW o \in Holders PROVE held[o] = NoPin <=> held'[o] = NoPin
  <2>1. CASE o = g
    <3>1. held[g] # NoPin
      BY <1>1 DEF WriteData
    <3>2. held[g].page # NoPage
      BY <1>1, <3>1, HeldResident, Invalid
    <3>3. held'[g] # NoPin
      BY <1>6, <3>2 DEF NoPin
    <3> QED BY <2>1, <3>1, <3>3
  <2>2. CASE o # g
    BY <1>4, <1>5, <2>2
  <2> QED BY <2>1, <2>2
<1>8. ASSUME NEW o \in Holders PROVE Linked(o)'
  <2>1. Linked(o)
    BY DEF GuardInv
  <2> QED BY <1>1, <1>5, <1>6, <1>7, <2>1 DEF Linked
<1>9. \A f \in Frames : Exact(f)'
  <2>1. \A o \in Holders : Latched(o)' <=> Latched(o)
    BY <1>1 DEF Latched
  <2> QED BY <1>1, <2>1, SameLatches
<1> QED BY <1>2, <1>3, <1>8, <1>9 DEF GuardInv

\* Code that has no guard changes neither guards nor latches.
LEMMA BackgroundInv ==
  ASSUME GuardInv, Background
  PROVE  GuardInv'
<1>1. PICK p \in PageIds : FlushPage(p) \/ DeletePage(p)
  BY DEF Background
<1>2. PoolInv /\ guard' = guard /\ latch' = latch
  BY DEF GuardInv, Background
<1>3. PoolInv' /\ held' = held
  BY <1>1, <1>2, BackgroundPool
<1>4. \A o \in Holders : Linked(o)'
  BY <1>1, <1>2, <1>3, BackgroundKeeps, LinkedKept DEF GuardInv
<1>5. \A f \in Frames : Exact(f)'
  <2>1. \A o \in Holders : Latched(o)' <=> Latched(o)
    BY <1>2 DEF Latched
  <2> QED BY <1>2, <2>1, SameLatches
<1> QED BY <1>2, <1>3, <1>4, <1>5 DEF GuardInv, GuardTypes

\* A move hands pin, pointer and latch over together (the move constructor and
\* the move assignment).
LEMMA MoveInv ==
  ASSUME GuardInv, NEW g \in Holders, NEW h \in Holders, Move(g, h)
  PROVE  GuardInv'
<1>1. /\ guard \in [Holders -> Guard] /\ latch \in [Frames -> [readers : Nat, writer : BOOLEAN]]
      /\ held \in [Holders -> [page : PageIds \cup {NoPage}, dirty : BOOLEAN]] /\ PoolInv
  BY DEF GuardInv, GuardTypes, PoolInv, TypeOK
<1>2. g # h /\ guard[g].at = "open" /\ guard[h] = Empty
  BY DEF Move, Movable
<1>3. Linked(g) /\ Linked(h)
  BY DEF GuardInv
<1>4. held[g] # NoPin /\ guard[g] # Empty /\ held[h] = NoPin
  BY <1>2, <1>3, GuardHeld DEF Linked
<1>5. /\ held' = [held EXCEPT ![h] = held[g], ![g] = NoPin]
      /\ guard' = [guard EXCEPT ![h] = guard[g], ![g] = Empty]
      /\ UNCHANGED <<latch, pages_, page_table_, free_list_, lru, disk, live>>
  BY DEF Move, Moved
<1>6. PoolInv'
  BY <1>1, <1>2, <1>4, <1>5, MovePool
<1>7. Empty \in Guard
  BY DEF Empty, Guard, Kinds
<1>8. GuardTypes'
  BY <1>1, <1>5, <1>7 DEF GuardTypes
<1>9. /\ guard'[h] = guard[g] /\ guard'[g] = Empty /\ held'[h] = held[g] /\ held'[g] = NoPin
      /\ \A o \in Holders \ {g, h} : guard'[o] = guard[o] /\ held'[o] = held[o]
  BY <1>1, <1>2, <1>5
<1>10. \A o \in Holders : Linked(o)'
  <2>1. Linked(g)'
    BY <1>9 DEF Linked, Empty
  <2>2. Linked(h)'
    BY <1>3, <1>5, <1>9 DEF Linked
  <2>3. ASSUME NEW o \in Holders \ {g, h} PROVE Linked(o)'
    <3>1. Untouched(o)
      BY <1>5 DEF Untouched
    <3> QED BY <1>9, <3>1, LinkedKept DEF GuardInv
  <2> QED BY <2>1, <2>2, <2>3
<1>11. ~Latched(h) /\ ~Latched(g)' /\ (Latched(h)' <=> Latched(g))
  BY <1>2, <1>9 DEF Latched, Empty
<1>12. ASSUME NEW o \in Holders \ {g, h} PROVE Latched(o)' <=> Latched(o)
  BY <1>9 DEF Latched
<1>13. ASSUME NEW f \in Frames, NEW kind \in {"read", "write"}
       PROVE  Cardinality(GuardsOf(f, kind)') = Cardinality(GuardsOf(f, kind))
  <2>1. CASE g \in GuardsOf(f, kind)
    <3>1. GuardsOf(f, kind)' = (GuardsOf(f, kind) \ {g}) \cup {h} /\ h \notin GuardsOf(f, kind)
      BY <1>2, <1>9, <1>11, <1>12, <2>1 DEF GuardsOf
    <3>2. IsFiniteSet(GuardsOf(f, kind))
      BY PoolAssumption, FS_Subset DEF GuardsOf
    <3> QED BY <2>1, <3>1, <3>2, Exchange
  <2>2. CASE g \notin GuardsOf(f, kind)
    <3>1. GuardsOf(f, kind)' = GuardsOf(f, kind)
      BY <1>2, <1>9, <1>11, <1>12, <2>2 DEF GuardsOf
    <3> QED BY <3>1
  <2> QED BY <2>1, <2>2
<1>14. ASSUME NEW f \in Frames PROVE Exact(f)'
  <2>1. Exact(f) /\ latch'[f] = latch[f]
    BY <1>5 DEF GuardInv
  <2> QED BY <1>13, <2>1 DEF Exact
<1> QED BY <1>6, <1>8, <1>10, <1>14 DEF GuardInv

\* At first there are no guards and no latches.
LEMMA GuardInitInv == GuardInit => GuardInv
<1> SUFFICES ASSUME GuardInit PROVE GuardInv
  OBVIOUS
<1>1. PoolInv
  BY InitInv DEF GuardInit
<1>2. Empty \in Guard /\ Empty.at = "empty" /\ Empty.kind = "basic"
  BY DEF Empty, Guard, Kinds
<1>3. Unlatched \in [readers : Nat, writer : BOOLEAN] /\ Unlatched.readers = 0 /\ Unlatched.writer = FALSE
  BY DEF Unlatched
<1>4. GuardTypes
  BY <1>2, <1>3 DEF GuardInit, GuardTypes
<1>5. \A g \in Holders : guard[g] = Empty /\ held[g] = NoPin
  BY DEF GuardInit, Init
<1>6. \A g \in Holders : Linked(g) /\ ~Latched(g)
  BY <1>2, <1>5 DEF Linked, Latched
<1>7. ASSUME NEW f \in Frames PROVE Exact(f)
  <2>1. GuardsOf(f, "read") = {} /\ GuardsOf(f, "write") = {}
    BY <1>6 DEF GuardsOf
  <2>2. latch[f] = Unlatched
    BY DEF GuardInit
  <2> QED BY <1>3, <2>1, <2>2, FS_EmptySet DEF Exact
<1> QED BY <1>1, <1>4, <1>6, <1>7 DEF GuardInv

\* A step of any thread keeps the invariant.
LEMMA GuardNextInv ==
  ASSUME GuardInv, [GuardNext]_guardVars
  PROVE  GuardInv'
<1>1. ASSUME NEW g \in Holders, NEW kind \in Kinds, OpenNew(g, kind) PROVE GuardInv'
  BY <1>1, OpenNewInv
<1>2. ASSUME NEW g \in Holders, NEW kind \in Kinds, NEW p \in PageIds, OpenFetched(g, kind, p) PROVE GuardInv'
  BY <1>2, OpenFetchedInv
<1>3. ASSUME NEW g \in Holders, Latch(g) PROVE GuardInv'
  BY <1>3, LatchInv
<1>4. ASSUME NEW g \in Holders, NEW v \in Contents, WriteThrough(g, v) PROVE GuardInv'
  BY <1>4, WriteThroughInv
<1>5. ASSUME NEW g \in Holders, NEW h \in Holders, Move(g, h) PROVE GuardInv'
  BY <1>5, MoveInv
<1>6. ASSUME NEW g \in Holders, Drop(g) PROVE GuardInv'
  BY <1>6, UnlatchInv, DropPinInv DEF Drop
<1>7. CASE Background
  BY <1>7, BackgroundInv
<1>8. CASE UNCHANGED guardVars
  <2>1. UNCHANGED vars /\ guard' = guard /\ latch' = latch
    BY <1>8 DEF guardVars
  <2>2. PoolInv'
    BY <2>1, NextInv DEF GuardInv
  <2>3. \A o \in Holders : Linked(o)'
    BY <2>1 DEF GuardInv, Linked, vars
  <2>4. \A f \in Frames : Exact(f)'
    BY <2>1 DEF GuardInv, Exact, GuardsOf, Latched
  <2> QED BY <2>1, <2>2, <2>3, <2>4 DEF GuardInv, GuardTypes
<1> QED BY <1>1, <1>2, <1>3, <1>4, <1>5, <1>6, <1>7, <1>8 DEF GuardNext

\* The invariant holds in every state.
LEMMA GuardInvariant == GuardSpec => []GuardInv
BY GuardInitInv, GuardNextInv, PTL DEF GuardSpec

-----------------------------------------------------------------------------
(* What the guards promise. *)

\* No latch is leaked and none is released twice, through moves and drops, and
\* a writer is alone (ReadPageGuard, WritePageGuard, ReaderWriterLatch).
THEOREM LatchesAreExact == GuardSpec => []LatchesExact
<1>1. GuardInv => LatchesExact
  <2> SUFFICES ASSUME GuardInv PROVE LatchesExact
    OBVIOUS
  <2>1. GuardTypeOK
    BY DEF GuardInv, GuardTypes, GuardTypeOK
  <2>2. ASSUME NEW f \in Frames
        PROVE  /\ latch[f].readers = Cardinality(GuardsOf(f, "read"))
               /\ Cardinality(GuardsOf(f, "write")) = (IF latch[f].writer THEN 1 ELSE 0)
               /\ latch[f].writer => latch[f].readers = 0
    <3>1. Exact(f)
      BY DEF GuardInv
    <3> QED BY <3>1 DEF Exact
  <2> QED BY <2>1, <2>2 DEF LatchesExact
<1> QED BY <1>1, GuardInvariant, PTL

\* The pins of the pool are the guards that are not empty (BasicPageGuard's
\* moves, assignments and Drop).
THEOREM GuardsAreThePins == GuardSpec => []GuardsArePins
<1>1. GuardInv => GuardsArePins
  <2> SUFFICES ASSUME GuardInv PROVE GuardsArePins
    OBVIOUS
  <2>1. \A g \in Holders : guard[g] = Empty <=> held[g] = NoPin
    BY DEF GuardInv, Linked
  <2>2. ASSUME NEW f \in Frames
        PROVE  pages_[f].pin_count = Cardinality({g \in Holders : guard[g].frame = f})
    <3> DEFINE S == {g \in Holders : guard[g].frame = f}
    <3>1. f # NoFrame
      BY Invalid
    <3>2. \A g \in S : pages_[f].page_id = held[g].page /\ held[g].page # NoPage
      BY <3>1, GuardHeld
    <3>3. CASE Used(f)
      <4>1. PICK q \in PageIds : q = pages_[f].page_id /\ page_table_[q] = f /\ q # NoPage
        BY <3>3 DEF GuardInv, PoolInv, TypeOK, Page, Used, MappingConsistent
      <4>2. ASSUME NEW g \in Holders, held[g].page = q PROVE guard[g].frame = f
        BY <4>1, <4>2, GuardHeld DEF NoPin
      <4>3. S = PinsOf(q)
        BY <3>2, <4>1, <4>2 DEF PinsOf
      <4>4. pages_[f].pin_count = Cardinality(PinsOf(q))
        BY <3>3, <4>1 DEF GuardInv, PoolInv, PinsExact
      <4> QED BY <4>3, <4>4
    <3>4. CASE ~Used(f)
      <4>1. S = {}
        BY <3>2, <3>4 DEF Used
      <4>2. pages_[f].pin_count = 0
        BY <3>4 DEF GuardInv, PoolInv, PinsExact
      <4> QED BY <4>1, <4>2, FS_EmptySet
    <3> QED BY <3>3, <3>4
  <2> QED BY <2>1, <2>2 DEF GuardsArePins
<1> QED BY <1>1, GuardInvariant, PTL

\* From its construction to the end of its Drop the pointer of a guard shows
\* the page the guard was made for.
THEOREM FramesShowPages == GuardSpec => []FrameShowsPage
<1>1. GuardInv => FrameShowsPage
  BY GuardHeld DEF FrameShowsPage
<1> QED BY <1>1, GuardInvariant, PTL

\* While a read guard is open no step changes the content of its frame, except
\* a write through a guard that has no latch.
LEMMA ReaderUndisturbed ==
  ASSUME GuardInv, [GuardNext]_guardVars, NEW g \in Holders, Latched(g), guard[g].kind = "read",
         \A o \in Holders : guard[o].frame = guard[g].frame => guard[o].kind # "basic"
  PROVE  pages_'[guard[g].frame].data = pages_[guard[g].frame].data
<1>1. PICK f \in Frames : f = guard[g].frame /\ f = page_table_[held[g].page]
  BY GuardHeld DEF Latched
<1>2. held[g] # NoPin /\ PoolInv
  BY GuardHeld DEF Latched, GuardInv
<1>3. SUFFICES Untouched(g) \/ pages_'[f].data = pages_[f].data
  BY <1>1 DEF Untouched
<1>4. ASSUME NEW h \in Holders, NEW kind \in Kinds, OpenNew(h, kind) PROVE Untouched(g)
  BY <1>2, <1>4, NewPageKeeps DEF OpenNew
<1>5. ASSUME NEW h \in Holders, NEW kind \in Kinds, NEW p \in PageIds, OpenFetched(h, kind, p) PROVE Untouched(g)
  BY <1>2, <1>5, FetchPageKeeps DEF OpenFetched
<1>6. ASSUME NEW h \in Holders, Latch(h) \/ Unlatch(h) PROVE Untouched(g)
  BY <1>6 DEF Latch, Unlatch, vars, Untouched
<1>7. ASSUME NEW h \in Holders, NEW v \in Contents, WriteThrough(h, v) PROVE pages_'[f].data = pages_[f].data
  <2>1. WriteData(h, v) /\ guard[h].at = "open" /\ guard[h].kind # "read"
    BY <1>7 DEF WriteThrough
  <2>2. PICK k \in Frames : k = guard[h].frame /\ k = page_table_[held[h].page]
    BY <2>1, GuardHeld
  <2>3. pages_ \in [Frames -> Page]
    BY <1>2 DEF PoolInv, TypeOK
  <2>4. k # f
    <3> SUFFICES ASSUME k = f PROVE FALSE
      OBVIOUS
    <3>1. guard[h].kind = "write" /\ Latched(h)
      <4>1. guard[h].kind \in Kinds
        BY DEF GuardInv, GuardTypes, Guard
      <4>2. guard[h].kind # "basic"
        BY <1>1, <2>2
      <4> QED BY <2>1, <4>1, <4>2 DEF Latched, Kinds
    <3>2. h \in GuardsOf(f, "write") /\ g \in GuardsOf(f, "read")
      BY <1>1, <2>2, <3>1 DEF GuardsOf
    <3>3. IsFiniteSet(GuardsOf(f, "write")) /\ IsFiniteSet(GuardsOf(f, "read"))
      BY PoolAssumption, FS_Subset DEF GuardsOf
    <3>4. Cardinality(GuardsOf(f, "write")) # 0 /\ Cardinality(GuardsOf(f, "read")) # 0
      BY <3>2, <3>3, FS_EmptySet
    <3>5. Exact(f)
      BY DEF GuardInv
    <3> QED BY <3>4, <3>5 DEF Exact
  <2>5. pages_' = [pages_ EXCEPT ![k].data = v]
    BY <2>1, <2>2 DEF WriteData
  <2> QED BY <2>3, <2>4, <2>5
<1>8. ASSUME NEW h \in Holders, NEW k \in Holders, Move(h, k) PROVE Untouched(g)
  BY <1>8 DEF Move, Untouched
<1>9. ASSUME NEW h \in Holders, DropPin(h) PROVE Untouched(g)
  <2>1. guard[h].kind \in Kinds /\ held[h].dirty \in BOOLEAN
    BY <1>2 DEF GuardInv, GuardTypes, Guard, PoolInv, TypeOK
  <2>2. PICK b \in BOOLEAN : b = DropDirty(h)
    BY <2>1 DEF DropDirty, Kinds
  <2> QED BY <1>2, <1>9, <2>2, UnpinPageKeeps DEF DropPin
<1>10. CASE Background
  BY <1>2, <1>10, BackgroundKeeps DEF Background
<1>11. CASE UNCHANGED guardVars
  BY <1>11 DEF guardVars, vars, Untouched
<1> QED BY <1>4, <1>5, <1>6, <1>7, <1>8, <1>9, <1>10, <1>11 DEF GuardNext, Drop

\* Readers see no change: the latches keep writers away, and evictions and
\* deletions, which take no latch, keep away from pinned frames.
THEOREM ReadersUndisturbed == GuardSpec => ReadersSeeNoChange
<1> DEFINE Undisturbed(g) ==
             LET f == guard[g].frame
             IN  /\ Latched(g) /\ guard[g].kind = "read" /\ guard'[g] = guard[g]
                 /\ \A o \in Holders : guard[o].frame = f => guard[o].kind # "basic"
                 => pages_'[f].data = pages_[f].data
<1>1. ASSUME GuardInv, [GuardNext]_guardVars PROVE \A g \in Holders : Undisturbed(g)
  BY <1>1, ReaderUndisturbed
<1>2. ASSUME GuardInv, [GuardNext]_guardVars PROVE [\A g \in Holders : Undisturbed(g)]_guardVars
  BY <1>1, <1>2
<1> QED BY <1>2, GuardInvariant, PTL DEF GuardSpec, ReadersSeeNoChange
=============================================================================
