------------------------ MODULE BufferPoolRefinement ------------------------
(***************************************************************************)
(* The buffer pool over the file implements the store without a cache.     *)
(* The content of a live page is in its frame if it is resident and in the *)
(* file otherwise.                                                         *)
(***************************************************************************)
EXTENDS BufferPoolManager

CONSTANT Absent

ASSUME AbsentAssumption == Absent \notin Contents

ContentOf(p) ==
  IF p \notin live THEN Absent
  ELSE IF Resident(p) THEN pages_[page_table_[p]].data
  ELSE IF InFile(disk, p) THEN disk.file[p]
  ELSE Zero

DurableContentOf(p) == IF InFile(disk, p) THEN disk.file[p] ELSE Absent

Store == INSTANCE PageStore
           WITH store <- [p \in PageIds |-> ContentOf(p)],
                durable <- [p \in PageIds |-> DurableContentOf(p)]

\* Evictions, fetches, flushes and unpins never change the content of a live
\* page; only a holder's write does.  A restart returns every page to the
\* content the file has, and no other page.
ImplementsPageStore == Store!StoreSpec
=============================================================================
