------------------------------ MODULE TablePage ------------------------------
(***************************************************************************)
(* The slotted page of a table (storage/page/table_page.cpp) as a value    *)
(* with operations on it.  The slot array grows up from the header, tuple  *)
(* data grows down from the end of the page to the free space pointer, and *)
(* space is never reclaimed.  Every byte records which tuple content was   *)
(* last copied over it.  Sizes are counted in units of the instance.       *)
(***************************************************************************)
EXTENDS Integers, Sequences

CONSTANTS PageSize,     \* ONEBASE_PAGE_SIZE
          HeaderSize,   \* SIZE_TABLE_PAGE_HEADER
          SlotSize,     \* SIZE_TUPLE_SLOT
          Data,         \* contents of tuples
          NoData        \* content of a byte that was never written

ASSUME TablePageAssumption ==
  /\ PageSize \in Nat /\ HeaderSize \in Nat /\ SlotSize \in Nat \ {0}
  /\ HeaderSize < PageSize
  /\ NoData \notin Data

INVALID_PAGE_ID == 0

Bytes == 0 .. PageSize - 1

Slot == [offset : Bytes, length : 0 .. PageSize]

TablePages == [next : Nat, slots : Seq(Slot), fsp : 0 .. PageSize, bytes : [Bytes -> Data \cup {NoData}]]

\* Init(INVALID_PAGE_ID)
NewTablePage ==
  [next |-> INVALID_PAGE_ID, slots |-> <<>>, fsp |-> PageSize, bytes |-> [i \in Bytes |-> NoData]]

\* Slot numbers of the code start at 0, positions in slots at 1.
SlotEnd(pg) == HeaderSize + Len(pg.slots) * SlotSize

FreeSpaceRemaining(pg) == pg.fsp - SlotEnd(pg)

\* The data of some tuple lies in the slot array, the header or before the page.
Overrun(pg) == pg.fsp < SlotEnd(pg)

\* Mistake: the slot of the tuple needs no room.
FitsWithoutSlot(pg, size) == FreeSpaceRemaining(pg) >= size

Fits(pg, size) == FreeSpaceRemaining(pg) >= size + SlotSize

\* Content d is copied below the free space pointer, which moves down.
PlaceData(pg, d, size) ==
  [pg EXCEPT !.fsp = @ - size,
             !.bytes = [i \in Bytes |-> IF pg.fsp - size <= i /\ i < pg.fsp THEN d ELSE pg.bytes[i]]]

PageInsert(pg, d, size) ==
  [PlaceData(pg, d, size) EXCEPT !.slots = Append(@, [offset |-> pg.fsp - size, length |-> size])]

\* Both fields of the slot become 0; the slot itself stays.
PageDelete(pg, slot) == [pg EXCEPT !.slots[slot] = [offset |-> 0, length |-> 0]]

\* Only the growth of the tuple is compared with the free space ...
UpdateRefused(pg, slot, size) ==
  /\ size > pg.slots[slot].length
  /\ size - pg.slots[slot].length > FreeSpaceRemaining(pg)

\* Mistake: the slot keeps pointing at the old tuple.
PageUpdateOldOffset(pg, slot, d, size) ==
  [PlaceData(pg, d, size) EXCEPT !.slots[slot].length = size]

\* ... but the new tuple always goes below the free space pointer.
PageUpdate(pg, slot, d, size) ==
  [PlaceData(PageDelete(pg, slot), d, size) EXCEPT
     !.slots[slot] = [offset |-> pg.fsp - size, length |-> size]]

\* GetTuple copies length bytes from offset, whatever they hold.
PageGet(pg, slot) ==
  [i \in 1 .. pg.slots[slot].length |-> pg.bytes[pg.slots[slot].offset + i - 1]]

TupleSize(pg, slot) == pg.slots[slot].length
=============================================================================
