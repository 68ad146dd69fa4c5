------------------------------ MODULE TableHeap ------------------------------
(***************************************************************************)
(* The table heap (storage/table/table_heap.cpp): a linked list of slotted *)
(* pages, and one session that scans it and changes it on the way, as the  *)
(* write executors do: they delete and update the row their child returned *)
(* last, and insert rows at any time, also while the scan goes on.         *)
(*                                                                         *)
(* The pages are the ones of one heap, numbered in order of allocation.    *)
(* FetchPage and NewPage of the buffer pool may return nullptr (all frames *)
(* pinned): a refused call changes nothing, but a refused step of an       *)
(* iterator ends the scan like the end of the table.                       *)
(***************************************************************************)
EXTENDS TablePage, FiniteSets

CONSTANTS Sizes,          \* sizes of tuples
          MaxHeapPages,   \* bound on the pages of the heap
          MaxWrites       \* bound on the changes of the session

ASSUME HeapAssumption == MaxHeapPages \in Nat \ {0} /\ Sizes \subseteq Nat \ {0} /\ MaxWrites \in Nat

VARIABLES pages,    \* pages[i]: the i-th page of the heap
          iter,     \* rid_ of the scan's iterator
          cur,      \* the row the scan returned last
          stored,   \* what the session stored and did not delete: rid to content
          seen,     \* rows the scan returned, in order
          due,      \* rows that were there at Begin and were not deleted since
          refused,  \* an iterator step of the scan was refused a page
          writes    \* number of changes so far

heapVars == <<pages, iter, cur, stored, seen, due, refused, writes>>

NoRid == <<INVALID_PAGE_ID, 0>>  \* End()

first_page_id_ == 1

\* The constructor: one empty page.
HeapInit ==
  /\ pages = <<NewTablePage>>
  /\ iter = NoRid /\ cur = NoRid
  /\ stored = <<>>
  /\ seen = <<>> /\ due = {} /\ refused = FALSE
  /\ writes = 0

\* After an overrun the code reads slots that tuple data was copied over.
Intact == \A i \in DOMAIN pages : ~Overrun(pages[i])

-----------------------------------------------------------------------------
(* Walking the list. *)

\* The page reached from p over k links, or INVALID_PAGE_ID.
Reached(p, k) ==
  LET after[n \in 0 .. k] ==
        IF n = 0 THEN p
        ELSE IF after[n - 1] = INVALID_PAGE_ID THEN INVALID_PAGE_ID
        ELSE pages[after[n - 1]].next
  IN  after[k]

Present(pg, s) == TupleSize(pg, s) > 0

\* A walk that starts at a slot goes on with the first slot of later pages.
StartSlot(k, slot) == IF k = 0 THEN slot ELSE 1

\* The tuples at or after slot of page p, as <<k, s>>: slot s of the page that is
\* k links behind p.
LiveFrom(p, slot) ==
  {x \in (0 .. Len(pages)) \X (1 .. PageSize) :
     LET q == Reached(p, x[1])
     IN  /\ q # INVALID_PAGE_ID
         /\ x[2] \in DOMAIN pages[q].slots /\ x[2] >= StartSlot(x[1], slot)
         /\ Present(pages[q], x[2])}

\* Order of <<page, slot>> pairs.
NotAfter(x, y) == x[1] < y[1] \/ (x[1] = y[1] /\ x[2] <= y[2])

\* The first slot with a tuple at or after slot of page p, over all later pages.
FirstLive(p, slot) ==
  LET live == LiveFrom(p, slot)
      best == CHOOSE x \in live : \A y \in live : NotAfter(x, y)
  IN  IF live = {} THEN NoRid ELSE <<Reached(p, best[1]), best[2]>>

\* Mistake: the increment stays on the slot.
AdvanceNot(rid) == FirstLive(rid[1], rid[2])

\* operator++
Advance(rid) == FirstLive(rid[1], rid[2] + 1)

-----------------------------------------------------------------------------
(* The session. *)

\* Begin, and the reset of what is recorded about the scan.
Begin ==
  /\ Intact
  /\ cur' = NoRid /\ seen' = <<>> /\ due' = DOMAIN stored
  /\ \/ iter' = FirstLive(first_page_id_, 1) /\ refused' = FALSE
     \/ iter' = NoRid /\ refused' = TRUE
  /\ UNCHANGED <<pages, stored, writes>>

\* Next of a sequential scan: read the row, then move the iterator past it.
ScanNext ==
  /\ Intact /\ iter # NoRid
  /\ cur' = iter /\ seen' = Append(seen, iter)
  /\ \/ iter' = Advance(iter) /\ UNCHANGED refused
     \/ iter' = NoRid /\ refused' = TRUE
  /\ UNCHANGED <<pages, stored, due, writes>>

\* GetTuple throws when it is refused the page: the statement ends.
ScanThrows ==
  /\ Intact /\ iter # NoRid
  /\ iter' = NoRid /\ cur' = NoRid /\ refused' = TRUE
  /\ UNCHANGED <<pages, stored, seen, due, writes>>

\* The pages before the one that takes the tuple have no room.
FirstFit(size) ==
  LET roomy == {k \in 0 .. Len(pages) : LET q == Reached(first_page_id_, k)
                                       IN  q # INVALID_PAGE_ID /\ Fits(pages[q], size)}
  IN  IF roomy = {} THEN INVALID_PAGE_ID
      ELSE Reached(first_page_id_, CHOOSE k \in roomy : \A j \in roomy : k <= j)

LastPage == CHOOSE i \in DOMAIN pages :
              pages[i].next = INVALID_PAGE_ID /\ \E k \in 0 .. Len(pages) : Reached(first_page_id_, k) = i

CountWrite == writes < MaxWrites /\ writes' = writes + 1

Store(rid, d, size) ==
  /\ CountWrite
  /\ stored' = [r \in DOMAIN stored \cup {rid} |-> IF r = rid THEN [i \in 1 .. size |-> d] ELSE stored[r]]

InsertInPage(d, size) ==
  LET p == FirstFit(size)
  IN  /\ Intact /\ p # INVALID_PAGE_ID
      /\ pages' = [pages EXCEPT ![p] = PageInsert(@, d, size)]
      /\ Store(<<p, Len(pages[p].slots) + 1>>, d, size)
      /\ UNCHANGED <<iter, cur, seen, due, refused>>

\* Mistake: the new page is linked behind the first one.
LinkedBehindFirst(new) == [pages EXCEPT ![first_page_id_].next = new]

\* The last page of the list gets the new page as its next.
Linked(new) == [pages EXCEPT ![LastPage].next = new]

\* A new page is linked before the tuple is tried on it; a tuple too large
\* for any page leaves the new page empty, and the call returns nullopt.
InsertInNewPage(d, size) ==
  LET new == Len(pages) + 1
      fits == Fits(NewTablePage, size)
  IN  /\ Intact /\ FirstFit(size) = INVALID_PAGE_ID
      /\ Len(pages) < MaxHeapPages
      /\ pages' = Append(Linked(new), IF fits THEN PageInsert(NewTablePage, d, size) ELSE NewTablePage)
      /\ IF fits THEN Store(<<new, 1>>, d, size) ELSE CountWrite /\ UNCHANGED stored
      /\ UNCHANGED <<iter, cur, seen, due, refused>>

InsertTuple(d, size) == InsertInPage(d, size) \/ InsertInNewPage(d, size)

\* UpdateTuple of the row the scan returned last.
UpdateTuple(d, size) ==
  /\ Intact /\ cur \in DOMAIN stored
  /\ ~UpdateRefused(pages[cur[1]], cur[2], size)
  /\ pages' = [pages EXCEPT ![cur[1]] = PageUpdate(@, cur[2], d, size)]
  /\ Store(cur, d, size)
  /\ UNCHANGED <<iter, cur, seen, due, refused>>

DeleteTuple ==
  /\ Intact /\ cur \in DOMAIN stored
  /\ pages' = [pages EXCEPT ![cur[1]] = PageDelete(@, cur[2])]
  /\ stored' = [r \in DOMAIN stored \ {cur} |-> stored[r]]
  /\ due' = due \ {cur}
  /\ CountWrite
  /\ UNCHANGED <<iter, cur, seen, refused>>

\* Insert, update and delete that are refused a page, or for which there is
\* no room, return without any change.
Unsuccessful == UNCHANGED heapVars

HeapNext ==
  \/ Begin \/ ScanNext \/ ScanThrows
  \/ \E d \in Data, size \in Sizes : InsertTuple(d, size) \/ UpdateTuple(d, size)
  \/ DeleteTuple
  \/ Unsuccessful

HeapSpec == HeapInit /\ [][HeapNext]_heapVars

-----------------------------------------------------------------------------
(* Properties. *)

\* All variables have their types while no page has overrun.
HeapTypeOK ==
  Intact => /\ \A i \in DOMAIN pages : pages[i] \in TablePages
            /\ {iter, cur} \subseteq (0 .. MaxHeapPages) \X (0 .. PageSize)
            /\ due \subseteq DOMAIN stored

\* Every row reads back as it was stored last, and a slot without a row has
\* length 0: data of different rows and the slot array never overlap, through
\* any mix of inserts, updates and deletes that InsertTuple and UpdateTuple
\* accept without an overrun.
RowsReadBack ==
  /\ HeapTypeOK
  /\ Intact => \A i \in DOMAIN pages : \A s \in DOMAIN pages[i].slots :
                 IF <<i, s>> \in DOMAIN stored
                 THEN PageGet(pages[i], s) = stored[<<i, s>>]
                 ELSE TupleSize(pages[i], s) = 0

\* A scan that came to the end without being refused a page has returned
\* every row that was there from its begin on, although the session inserted,
\* updated and deleted rows on the way; a scan that is still on its way has them
\* ahead of its iterator.  So every page is linked (InsertTuple).
ScanComplete ==
  Intact /\ ~refused => \A r \in due : \/ \E i \in DOMAIN seen : seen[i] = r
                                       \/ iter # NoRid /\ NotAfter(iter, r)

\* A scan returns no row twice, also when the session updates what it reads: an
\* update keeps the row in its slot.  And the row the iterator stands on is there
\* when it is read: the session deletes only rows the iterator has left.
ScanOnce ==
  /\ \A i, j \in DOMAIN seen : seen[i] = seen[j] => i = j
  /\ Intact /\ iter # NoRid => iter \in DOMAIN stored

\* A step that may overrun: UpdateTuple of the row the scan returned last, with a tuple
\* larger than the free space of its page.
UpdateOverruns ==
  \E size \in Sizes : /\ cur \in DOMAIN stored
                     /\ FreeSpaceRemaining(pages[cur[1]]) < size
                     /\ TupleSize(pages'[cur[1]], cur[2]) = size

\* Tuple data runs into the slot array in no other way than by an update of a row on a
\* page whose free space is smaller than the new tuple: an insert never does.
OverrunOnlyByUpdate == [][Intact /\ ~Intact' => UpdateOverruns]_heapVars
=============================================================================
