---------------------------- MODULE DiskManager -----------------------------
(***************************************************************************)
(* The database file and the stream onto it (storage/disk/disk_manager.cpp)*)
(*                                                                         *)
(* db_io_ is one std::fstream used for reads and writes.  Its failbit is   *)
(* part of the state: a read that ends before a whole page sets it, and no *)
(* code clears it.  While it is set, seeks, reads and writes do nothing;   *)
(* ReadPage then fills the page with zeros, WritePage returns normally,    *)
(* since both test only bad().                                             *)
(***************************************************************************)
EXTENDS Integers

CONSTANTS Contents,   \* what a page can hold
          Zero,       \* the all-zero page
          MaxPages    \* bound on the number of pages ever allocated

ASSUME DiskAssumption ==
  /\ Zero \in Contents
  /\ MaxPages \in Nat

PageIds == 0 .. MaxPages - 1

VARIABLE disk

Disks ==
  [file         : [PageIds -> Contents],
   len          : 0 .. MaxPages,   \* pages in the file; beyond it file is Zero
   fail         : BOOLEAN,         \* failbit of db_io_
   num_pages    : 0 .. MaxPages,   \* num_pages_
   next_page_id : 0 .. MaxPages]   \* next_page_id_

EmptyDisk ==
  [file |-> [p \in PageIds |-> Zero], len |-> 0, fail |-> FALSE,
   num_pages |-> 0, next_page_id |-> 0]

InFile(d, p) == p < d.len

\* The constructor, on the file that a previous process left.
OpenDisk(d) ==
  [d EXCEPT !.fail = FALSE, !.num_pages = d.len, !.next_page_id = d.len]

\* The data a read yields, and the stream it leaves.
ReadData(d, p) == IF d.fail \/ ~InFile(d, p) THEN Zero ELSE d.file[p]

ReadPage(d, p) == [d EXCEPT !.fail = @ \/ ~InFile(d, p)]

\* num_pages_ advances even when the stream refused the write.
WritePage(d, p, v) ==
  [d EXCEPT !.file[p] = IF d.fail THEN @ ELSE v,
            !.len = IF d.fail \/ p < @ THEN @ ELSE p + 1,
            !.num_pages = IF p >= @ THEN p + 1 ELSE @]

\* A loop of WritePage over the pages in S, with data[p] for page p.
Extent(n, S) ==
  CHOOSE m \in 0 .. MaxPages : \A q \in PageIds : q < m <=> (q < n \/ \E p \in S : q <= p)

WritePages(d, S, data) ==
  [d EXCEPT !.file = [p \in PageIds |-> IF p \in S /\ ~d.fail THEN data[p] ELSE @[p]],
            !.len = IF d.fail THEN @ ELSE Extent(@, S),
            !.num_pages = Extent(@, S)]

AllocatePage(d) == [d EXCEPT !.next_page_id = @ + 1]

DeallocatePage(d) == d
=============================================================================
