------------------------------ MODULE PageGuard ------------------------------
(***************************************************************************)
(* The page guards (buffer/page_guard.cpp) over the buffer pool, with the  *)
(* reader-writer latch that every frame carries (common/rwlatch.h).        *)
(*                                                                         *)
(* A guard is a variable of one thread and a pin holder of the pool; it is *)
(* named by its thread and a number.  Its constructor pins and then        *)
(* latches, its Drop unlatches and then unpins, and other threads run in   *)
(* between.  A thread does one thing at a time.  It takes latches in the   *)
(* order of page ids, so that threads do not wait for each other in a      *)
(* circle, and never latches a page twice, which shared_mutex forbids.     *)
(***************************************************************************)
EXTENDS BufferPoolManager

VARIABLES guard,  \* guard[g]: the guard variable g
          latch   \* latch[f]: the latch of frame f

guardVars == <<guard, latch, vars>>

Thread(g) == g[1]

Kinds == {"basic", "read", "write"}

\* frame is the Page pointer; at says how far the constructor or Drop is.
Empty == [kind |-> "basic", frame |-> NoFrame, at |-> "empty"]

Guard == [kind : Kinds, frame : Frames \cup {NoFrame}, at : {"empty", "latching", "open", "unlatched"}]

Unlatched == [readers |-> 0, writer |-> FALSE]

RLock(l)   == [l EXCEPT !.readers = @ + 1]
WLock(l)   == [l EXCEPT !.writer = TRUE]
RUnlock(l) == [l EXCEPT !.readers = @ - 1]
WUnlock(l) == [l EXCEPT !.writer = FALSE]

GuardInit ==
  /\ Init
  /\ guard = [g \in Holders |-> Empty]
  /\ latch = [f \in Frames |-> Unlatched]

Latched(g) == guard[g].kind # "basic" /\ guard[g].at = "open"

\* The thread is inside no constructor and no Drop.
ThreadIdle(g) == \A o \in Holders : Thread(o) = Thread(g) => guard[o].at \in {"empty", "open"}

-----------------------------------------------------------------------------
(* Construction. *)

\* Only the order in which the thread takes latches; see above.
InOrder(g, kind, p) ==
  \A o \in Holders : Thread(o) = Thread(g) /\ Latched(o) => kind = "basic" \/ held[o].page < p

Constructed(g, kind, f) ==
  guard' = [guard EXCEPT ![g] = [kind |-> kind, frame |-> f,
                                 at |-> IF kind = "basic" THEN "open" ELSE "latching"]]

\* A guard around a page that was just fetched.
OpenFetched(g, kind, p) ==
  /\ guard[g] = Empty /\ ThreadIdle(g) /\ InOrder(g, kind, p)
  /\ FetchPage(g, p)
  /\ Constructed(g, kind, page_table_'[p])
  /\ UNCHANGED latch

\* A new page must be unpinned dirty, which a read guard does not do.
OpenNew(g, kind) ==
  /\ kind = "read" => ~MarkNewDirty
  /\ guard[g] = Empty /\ ThreadIdle(g) /\ InOrder(g, kind, disk.next_page_id)
  /\ NewPage(g)
  /\ Constructed(g, kind, page_table_'[disk.next_page_id])
  /\ UNCHANGED latch

\* Mistake: readers do not wait for a writer.
LatchFreeForReaders(g) ==
  LET l == latch[guard[g].frame]
  IN  guard[g].kind = "read" \/ (~l.writer /\ l.readers = 0)

\* lock_shared waits for the writer, lock for everybody.
LatchFree(g) ==
  LET l == latch[guard[g].frame]
  IN  ~l.writer /\ (guard[g].kind = "write" => l.readers = 0)

\* RLatch or WLatch, and the end of the constructor.
Latch(g) ==
  /\ guard[g].at = "latching" /\ LatchFree(g)
  /\ latch' = [latch EXCEPT ![guard[g].frame] =
                 IF guard[g].kind = "read" THEN RLock(@) ELSE WLock(@)]
  /\ guard' = [guard EXCEPT ![g].at = "open"]
  /\ UNCHANGED vars

-----------------------------------------------------------------------------
(* Use, move and Drop. *)

\* GetDataMut of a basic or a write guard, and a write through it.
WriteThrough(g, v) ==
  /\ guard[g].at = "open" /\ guard[g].kind # "read" /\ ThreadIdle(g)
  /\ WriteData(g, v)
  /\ UNCHANGED <<guard, latch>>

\* Mistake: a guard that holds a page is overwritten without its Drop.
MovableOver(g, h) == guard[g].at = "open"

\* The move assignment drops the page of its target first, so it is a Drop
\* of h followed by the move into an empty guard.
Movable(g, h) == guard[g].at = "open" /\ guard[h] = Empty

\* Mistake: the source keeps its page.
MovedSourceStays(g, h) == [guard EXCEPT ![h] = guard[g]]

Moved(g, h) == [guard EXCEPT ![h] = guard[g], ![g] = Empty]

\* The move constructor and the move assignment between two guards of a
\* thread; an assignment to itself has no effect.
Move(g, h) ==
  /\ g # h /\ Thread(g) = Thread(h) /\ ThreadIdle(g)
  /\ Movable(g, h)
  /\ guard' = Moved(g, h)
  /\ held' = [held EXCEPT ![h] = held[g], ![g] = NoPin]
  /\ UNCHANGED <<latch, pages_, page_table_, free_list_, lru, disk, live>>

\* The flag Drop gives to UnpinPage.
DropDirty(g) == CASE guard[g].kind = "basic" -> held[g].dirty
                  [] guard[g].kind = "read"  -> FALSE
                  [] guard[g].kind = "write" -> TRUE

\* Mistake: the latch is not released.
ReleasedNot(g) == latch

Released(g) ==
  [latch EXCEPT ![guard[g].frame] =
     IF guard[g].kind = "read" THEN RUnlock(@) ELSE WUnlock(@)]

\* RUnlatch or WUnlatch at the start of Drop.
Unlatch(g) ==
  /\ Latched(g) /\ ThreadIdle(g)
  /\ latch' = Released(g)
  /\ guard' = [guard EXCEPT ![g].at = "unlatched"]
  /\ UNCHANGED vars

\* UnpinPage, and the guard is empty.
DropPin(g) ==
  /\ guard[g].at = "unlatched" \/ (guard[g].at = "open" /\ guard[g].kind = "basic" /\ ThreadIdle(g))
  /\ UnpinPage(g, DropDirty(g))
  /\ guard' = [guard EXCEPT ![g] = Empty]
  /\ UNCHANGED latch

\* Mistake: the page is unpinned before it is unlatched.
DropUnpinsFirst(g) ==
  \/ /\ guard[g].at = "open" /\ ThreadIdle(g)
     /\ UnpinPage(g, DropDirty(g))
     /\ guard' = [guard EXCEPT ![g] = IF @.kind = "basic" THEN Empty ELSE [@ EXCEPT !.at = "unlatched"]]
     /\ UNCHANGED latch
  \/ /\ guard[g].at = "unlatched"
     /\ latch' = Released(g)
     /\ guard' = [guard EXCEPT ![g] = Empty]
     /\ UNCHANGED vars

Drop(g) == Unlatch(g) \/ DropPin(g)

\* Other code flushes and deletes pages meanwhile, without any latch.
Background ==
  /\ \E p \in PageIds : FlushPage(p) \/ DeletePage(p)
  /\ UNCHANGED <<guard, latch>>

GuardNext ==
  \/ \E g \in Holders :
       \/ \E kind \in Kinds : OpenNew(g, kind) \/ \E p \in PageIds : OpenFetched(g, kind, p)
       \/ Latch(g)
       \/ \E v \in Contents : WriteThrough(g, v)
       \/ \E h \in Holders : Move(g, h)
       \/ Drop(g)
  \/ Background

\* A thread that may latch does, and a thread that has guards and does not wait
\* drops one in the end, since their scopes end; moves do not keep it from that.
GuardFairness ==
  \A g \in Holders :
    /\ WF_guardVars(Latch(g))
    /\ WF_guardVars(\E o \in Holders : Thread(o) = Thread(g) /\ Drop(o))

GuardSpec == GuardInit /\ [][GuardNext]_guardVars /\ GuardFairness

-----------------------------------------------------------------------------
(* Properties. *)

\* Guards and latches have their types.
GuardTypeOK ==
  /\ guard \in [Holders -> Guard]
  /\ \A f \in Frames : latch[f].readers \in Nat /\ latch[f].writer \in BOOLEAN

GuardsOf(f, kind) == {g \in Holders : guard[g].frame = f /\ guard[g].kind = kind /\ Latched(g)}

\* A latch is held exactly as often as open guards say, through moves and
\* drops: none is leaked and none is released twice.  And a writer is alone.
LatchesExact ==
  /\ GuardTypeOK
  /\ \A f \in Frames :
       /\ latch[f].readers = Cardinality(GuardsOf(f, "read"))
       /\ Cardinality(GuardsOf(f, "write")) = (IF latch[f].writer THEN 1 ELSE 0)
       /\ latch[f].writer => latch[f].readers = 0

\* The pins of the pool are the guards that are not empty: none is leaked by an
\* assignment and none is dropped twice after a move.
GuardsArePins ==
  /\ \A g \in Holders : guard[g] = Empty <=> held[g] = NoPin
  /\ \A f \in Frames : pages_[f].pin_count = Cardinality({g \in Holders : guard[g].frame = f})

\* From its construction to the end of its Drop the Page pointer of a guard
\* shows the page it was made for, although a thread may wait for the latch or be
\* between unlatch and unpin while others evict and delete pages.
FrameShowsPage ==
  \A g \in Holders : guard[g].at # "empty" => /\ held[g].page # NoPage
                                              /\ pages_[guard[g].frame].page_id = held[g].page

\* While a read guard is open nobody changes the page under it, except through a
\* basic guard, which has no latch.
ReadersSeeNoChange ==
  [][\A g \in Holders :
       LET f == guard[g].frame
       IN  /\ Latched(g) /\ guard[g].kind = "read" /\ guard'[g] = guard[g]
           /\ \A o \in Holders : guard[o].frame = f => guard[o].kind # "basic"
           => pages_'[f].data = pages_[f].data]_guardVars

\* A thread that waits for a latch gets it: every latch is released in the end.
LatchesGranted == \A g \in Holders : guard[g].at = "latching" ~> guard[g].at # "latching"
=============================================================================
