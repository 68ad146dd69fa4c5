------------------------- MODULE BufferPoolManager --------------------------
(***************************************************************************)
(* The buffer pool manager (buffer/buffer_pool_manager.cpp) on top of the  *)
(* LRU-K replacer and the disk manager.  Every operation holds latch_ from *)
(* its first to its last line, so each is one step.                        *)
(*                                                                         *)
(* Clients are pin holders: a page guard, or a function of the table heap  *)
(* or the B+ tree between a FetchPage or NewPage and its UnpinPage.  A     *)
(* holder has at most one page; held[h] is its page and whether it must be *)
(* unpinned dirty.  The code that uses the pool writes only to pages it    *)
(* has pinned, unpins what it wrote dirty, unpins every new page dirty     *)
(* (MarkNewDirty) and never fetches a page it deleted; live is the set of  *)
(* pages it may still refer to.                                            *)
(***************************************************************************)
EXTENDS LRUKReplacer, DiskManager

CONSTANTS Holders,       \* pin holders of all threads
          MarkNewDirty   \* new pages are unpinned dirty

ASSUME PoolAssumption ==
  /\ IsFiniteSet(Holders)
  /\ MarkNewDirty \in BOOLEAN

VARIABLES pages_,       \* the frames: pages_[f] is a Page
          page_table_,  \* page id to frame
          free_list_,   \* sequence of free frames
          held,         \* held[h]: the pin of holder h
          live          \* allocated and not deleted pages

poolVars == <<pages_, page_table_, free_list_, lru>>
vars == <<pages_, page_table_, free_list_, lru, disk, held, live>>

NoPage  == -1  \* INVALID_PAGE_ID

NoPin == [page |-> NoPage, dirty |-> FALSE]

Page == [page_id : PageIds \cup {NoPage}, pin_count : Int, is_dirty : BOOLEAN, data : Contents]

EmptyPage == [page_id |-> NoPage, pin_count |-> 0, is_dirty |-> FALSE, data |-> Zero]

Resident(p) == page_table_[p] # NoFrame

Init ==
  /\ LRUInit
  /\ disk = EmptyDisk
  /\ pages_ = [f \in Frames |-> EmptyPage]
  /\ page_table_ = [p \in PageIds |-> NoFrame]
  /\ free_list_ = [i \in 1 .. PoolSize |-> i - 1]
  /\ held = [h \in Holders |-> NoPin]
  /\ live = {}

-----------------------------------------------------------------------------
(* Finding a frame: the free list first, then an eviction. *)

HasFrame == free_list_ # <<>> \/ Victims(lru) # {}

\* Mistake: the frame stays in the free list.
TakeFrameKeepingIt(f) ==
  IF free_list_ # <<>>
  THEN f = Head(free_list_) /\ UNCHANGED free_list_
  ELSE f \in Victims(lru) /\ UNCHANGED free_list_

TakeFrame(f) ==
  IF free_list_ # <<>>
  THEN f = Head(free_list_) /\ free_list_' = Tail(free_list_)
  ELSE f \in Victims(lru) /\ UNCHANGED free_list_

ReplacerAfterTake(f) == IF free_list_ # <<>> THEN lru ELSE EraseEntry(lru, f)

\* Mistake: a dirty page is dropped.
DiskNotWritten(f) == disk

\* The frame's old page, if any: written back if dirty, and unmapped.
DiskAfterTake(f) ==
  IF pages_[f].page_id # NoPage /\ pages_[f].is_dirty
  THEN WritePage(disk, pages_[f].page_id, pages_[f].data)
  ELSE disk

TableAfterTake(f) == [p \in PageIds |-> IF p = pages_[f].page_id THEN NoFrame ELSE page_table_[p]]

\* Mistake: a page that is fetched again stays evictable.
TouchStaysEvictable(r, f) == RecordAccess(r, f)

Touch(r, f) == SetEvictable(RecordAccess(r, f), f, FALSE)

\* page p with data v enters frame f with pin count 1.
Install(f, p, v) ==
  /\ pages_' = [pages_ EXCEPT ![f] = [page_id |-> p, pin_count |-> 1, is_dirty |-> FALSE, data |-> v]]
  /\ page_table_' = [TableAfterTake(f) EXCEPT ![p] = f]
  /\ lru' = Touch(ReplacerAfterTake(f), f)

-----------------------------------------------------------------------------
(* The operations. *)

NewPage(h) ==
  /\ held[h] = NoPin
  /\ disk.next_page_id < MaxPages /\ lru.now < MaxTime
  /\ \E f \in Frames :
       LET p == disk.next_page_id
       IN  /\ TakeFrame(f)
           /\ disk' = AllocatePage(DiskAfterTake(f))
           /\ Install(f, p, Zero)
           /\ held' = [held EXCEPT ![h] = [page |-> p, dirty |-> MarkNewDirty]]
           /\ live' = live \cup {p}

Pinned(page) == [page EXCEPT !.pin_count = @ + 1]

FetchHit(h, p) ==
  /\ held[h] = NoPin /\ p \in live /\ Resident(p)
  /\ lru.now < MaxTime
  /\ pages_' = [pages_ EXCEPT ![page_table_[p]] = Pinned(@)]
  /\ lru' = Touch(lru, page_table_[p])
  /\ held' = [held EXCEPT ![h] = [page |-> p, dirty |-> FALSE]]
  /\ UNCHANGED <<page_table_, free_list_, disk, live>>

FetchMiss(h, p) ==
  /\ held[h] = NoPin /\ p \in live /\ ~Resident(p)
  /\ lru.now < MaxTime
  /\ \E f \in Frames :
       /\ TakeFrame(f)
       /\ disk' = ReadPage(DiskAfterTake(f), p)
       /\ Install(f, p, ReadData(DiskAfterTake(f), p))
       /\ held' = [held EXCEPT ![h] = [page |-> p, dirty |-> FALSE]]
       /\ UNCHANGED live

FetchPage(h, p) == FetchHit(h, p) \/ FetchMiss(h, p)

\* NewPage, and FetchPage of a page that is not resident, return nullptr when
\* every frame is pinned.
PoolExhausted ==
  /\ ~HasFrame
  /\ UNCHANGED vars

\* The holder changes the page through its Page pointer.
WriteData(h, v) ==
  /\ held[h] # NoPin
  /\ pages_' = [pages_ EXCEPT ![page_table_[held[h].page]].data = v]
  /\ held' = [held EXCEPT ![h].dirty = TRUE]
  /\ UNCHANGED <<page_table_, free_list_, lru, disk, live>>

\* Mistake: the last unpin decides.
DirtyOverwritten(was, is_dirty) == is_dirty

DirtyAfterUnpin(was, is_dirty) == was \/ is_dirty

\* Returns false without effect when the page is not resident or not pinned.
UnpinPage(h, is_dirty) ==
  /\ held[h] # NoPin /\ (held[h].dirty => is_dirty)
  /\ LET f == page_table_[held[h].page]
     IN  IF f = NoFrame \/ pages_[f].pin_count <= 0
         THEN UNCHANGED <<pages_, lru>>
         ELSE /\ pages_' = [pages_ EXCEPT ![f].is_dirty = DirtyAfterUnpin(@, is_dirty), ![f].pin_count = @ - 1]
              /\ lru' = IF pages_[f].pin_count = 1 THEN SetEvictable(lru, f, TRUE) ELSE lru
  /\ held' = [held EXCEPT ![h] = NoPin]
  /\ UNCHANGED <<page_table_, free_list_, disk, live>>

FlushPage(p) ==
  /\ Resident(p)
  /\ disk' = WritePage(disk, p, pages_[page_table_[p]].data)
  /\ pages_' = [pages_ EXCEPT ![page_table_[p]].is_dirty = FALSE]
  /\ UNCHANGED <<page_table_, free_list_, lru, held, live>>

FlushAllPages ==
  LET S == {p \in PageIds : \E f \in Frames : pages_[f].page_id = p}
      data == [p \in S |-> pages_[CHOOSE f \in Frames : pages_[f].page_id = p].data]
  IN  /\ disk' = WritePages(disk, S, data)
      /\ pages_' = [f \in Frames |->
                      IF pages_[f].page_id = NoPage THEN pages_[f]
                      ELSE [pages_[f] EXCEPT !.is_dirty = FALSE]]
      /\ UNCHANGED <<page_table_, free_list_, lru, held, live>>

\* A page that is not resident is forgotten without any change of the pool.
DeleteAbsent(p) ==
  /\ p \in live /\ ~Resident(p)
  /\ live' = live \ {p}
  /\ UNCHANGED <<pages_, page_table_, free_list_, lru, disk, held>>

\* page_table_.erase comes before replacer_->Remove, which throws for a tracked
\* frame that is not evictable: then the operation ends there, the page lost.
DeleteResident(p) ==
  LET f == page_table_[p]
  IN  /\ p \in live /\ Resident(p)
      /\ pages_[f].pin_count <= 0
      /\ page_table_' = [page_table_ EXCEPT ![p] = NoFrame]
      /\ live' = live \ {p}
      /\ IF f \in Tracked(lru) \ EvictableFrames(lru)
         THEN UNCHANGED <<lru, free_list_, pages_, disk>>
         ELSE /\ lru' = IF f \in Tracked(lru) THEN EraseEntry(lru, f) ELSE lru
              /\ free_list_' = Append(free_list_, f)
              /\ pages_' = [pages_ EXCEPT ![f] = EmptyPage]
              /\ disk' = DeallocatePage(disk)
      /\ UNCHANGED held

\* DeletePage of a pinned page returns false and changes nothing.
DeletePinned(p) ==
  /\ p \in live /\ Resident(p) /\ pages_[page_table_[p]].pin_count > 0
  /\ UNCHANGED vars

DeletePage(p) == DeleteAbsent(p) \/ DeleteResident(p) \/ DeletePinned(p)

\* The process ends (no destructor flushes the pool) and a new one opens the
\* file; the pages in the file are the ones it may refer to.
Restart ==
  /\ disk' = OpenDisk(disk)
  /\ lru' = EmptyReplacer
  /\ pages_' = [f \in Frames |-> EmptyPage]
  /\ page_table_' = [p \in PageIds |-> NoFrame]
  /\ free_list_' = [i \in 1 .. PoolSize |-> i - 1]
  /\ held' = [h \in Holders |-> NoPin]
  /\ live' = {p \in PageIds : InFile(disk, p)}

Next ==
  \/ \E h \in Holders :
       \/ NewPage(h)
       \/ \E p \in PageIds : FetchPage(h, p)
       \/ \E v \in Contents : WriteData(h, v)
       \/ \E b \in BOOLEAN : UnpinPage(h, b)
  \/ \E p \in PageIds : FlushPage(p) \/ DeletePage(p)
  \/ FlushAllPages
  \/ PoolExhausted
  \/ Restart

Spec == Init /\ [][Next]_vars
-----------------------------------------------------------------------------
(* Properties. *)

\* All variables have their types.
TypeOK ==
  /\ lru \in Replacers
  /\ disk \in Disks
  /\ pages_ \in [Frames -> Page]
  /\ page_table_ \in [PageIds -> Frames \cup {NoFrame}]
  /\ free_list_ \in Seq(Frames)
  /\ held \in [Holders -> [page : PageIds \cup {NoPage}, dirty : BOOLEAN]]
  /\ live \in SUBSET PageIds

Used(f) == pages_[f].page_id # NoPage
PinsOf(p) == {h \in Holders : held[h].page = p}

\* The page table and the frames describe the same mapping, no page is in two
\* frames, and only pages that were not deleted are resident.
MappingConsistent ==
  /\ \A p \in PageIds : Resident(p) => pages_[page_table_[p]].page_id = p /\ p \in live
  /\ \A f \in Frames : Used(f) => page_table_[pages_[f].page_id] = f

\* Every frame is either in the free list, once, or holds a page: no frame
\* leaks and none is handed out twice (TakeFrame, DeletePage).
FramesPartitioned ==
  /\ \A f \in Frames : Used(f) <=> ~\E i \in DOMAIN free_list_ : free_list_[i] = f
  /\ \A i, j \in DOMAIN free_list_ : free_list_[i] = free_list_[j] => i = j

\* The structure of the pool: the parts above, in every state.  A page is in at
\* most one frame, a frame is free or used and never both, whatever evictions,
\* deletions and refused calls came before (NewPage, FetchPage, DeletePage).
PoolConsistent == TypeOK /\ MappingConsistent /\ FramesPartitioned

\* A pinned page is resident and its pin count is the number of its holders,
\* so UnpinPage and DeletePage never meet a count that is too small or too big.
PinsExact ==
  /\ \A h \in Holders : held[h].page # NoPage => Resident(held[h].page)
  /\ \A f \in Frames :
       pages_[f].pin_count = IF Used(f) THEN Cardinality(PinsOf(pages_[f].page_id)) ELSE 0

\* The replacer may evict exactly the frames whose page nobody pins, tracks no
\* free frame, and its size is their number.  So an eviction never takes a
\* pinned page, and Remove never throws in the middle of DeletePage.
EvictableExact ==
  /\ \A f \in Frames : f \in Tracked(lru) <=> Used(f)
  /\ \A f \in Frames : lru.evictable[f] <=> Used(f) /\ pages_[f].pin_count = 0
  /\ lru.size = Cardinality(EvictableFrames(lru))

\* Pin counts, holders and evictable marks describe the same pins, whatever the
\* order in which holders fetch and unpin a page: no page is evicted or deleted
\* under a holder's pointer, and none stays pinned for ever (FetchPage, UnpinPage).
PinsRespected == PinsExact /\ EvictableExact

\* Nothing is lost when a clean page is dropped: a resident page that is not
\* marked dirty, and that no holder still has to mark dirty, has its content in
\* the file, and a live page that is not resident is in the file.  So no read
\* goes beyond the end of the file, which would set the failbit of the stream
\* for good (ReadPage at disk_manager.cpp; nothing clears it).
CleanIsDurable ==
  /\ \A f \in Frames :
       LET p == pages_[f].page_id
       IN  Used(f) /\ ~pages_[f].is_dirty /\ (\A h \in PinsOf(p) : ~held[h].dirty)
             => InFile(disk, p) /\ disk.file[p] = pages_[f].data
  /\ \A p \in live : Resident(p) \/ InFile(disk, p)
  /\ ~disk.fail
=============================================================================
