---------------------------- MODULE LRUKReplacer ----------------------------
(***************************************************************************)
(* The LRU-K replacer of the buffer pool (buffer/lru_k_replacer.cpp).      *)
(*                                                                         *)
(* The replacer is one value, so that the buffer pool manager, which calls *)
(* several replacer operations inside one critical section of its own,     *)
(* composes them into one step.  A frame is in the map entries_ exactly    *)
(* when its history is not empty: RecordAccess creates an entry and pushes *)
(* a timestamp in the same critical section, and with K >= 1 no operation  *)
(* empties a history without erasing the entry.                            *)
(***************************************************************************)
EXTENDS Integers, Sequences, FiniteSets

CONSTANTS PoolSize,   \* max_frames_
          K,          \* k_
          MaxTime     \* bound on current_timestamp_

ASSUME ReplacerAssumption ==
  /\ PoolSize \in Nat \ {0}
  /\ K \in Nat \ {0}
  /\ MaxTime \in Nat

Frames == 0 .. PoolSize - 1

NoFrame == -1  \* INVALID_FRAME_ID

VARIABLE lru  \* entries_ (history, evictable), curr_size_, current_timestamp_

Replacers ==
  [history   : [Frames -> Seq(Nat)],
   evictable : [Frames -> BOOLEAN],
   size      : Int,
   now       : Nat]

EmptyReplacer ==
  [history   |-> [f \in Frames |-> <<>>],
   evictable |-> [f \in Frames |-> FALSE],
   size      |-> 0,
   now       |-> 0]

Tracked(r) == {f \in Frames : r.history[f] # <<>>}
EvictableFrames(r) == {f \in Tracked(r) : r.evictable[f]}

-----------------------------------------------------------------------------
(* The operations, as functions from replacer to replacer. *)

\* Mistake: the oldest timestamp is never dropped.
PushAccessUncapped(h, t) == Append(h, t)

\* push_back(now), then drop the oldest timestamp if there are more than k_.
PushAccess(h, t) ==
  LET pushed == Append(h, t)
  IN  IF Len(pushed) > K THEN Tail(pushed) ELSE pushed

RecordAccess(r, f) ==
  [r EXCEPT !.history[f] = PushAccess(@, r.now), !.now = @ + 1]

SetEvictable(r, f, b) ==
  IF f \notin Tracked(r)
  THEN r
  ELSE [r EXCEPT !.evictable[f] = b,
                 !.size = IF b /\ ~r.evictable[f] THEN @ + 1
                          ELSE IF ~b /\ r.evictable[f] THEN @ - 1
                          ELSE @]

\* Mistake: curr_size_ is not decremented.
EraseUncounted(r, f) == [r EXCEPT !.history[f] = <<>>, !.evictable[f] = FALSE]

\* entries_.erase(f); curr_size_--.
EraseEntry(r, f) ==
  [r EXCEPT !.history[f] = <<>>, !.evictable[f] = FALSE, !.size = @ - 1]

(***************************************************************************)
(* What Evict chooses.  history_.front() is the oldest timestamp kept.     *)
(* Frames with fewer than K accesses have an infinite backward distance    *)
(* and go first, the one with the earliest access before the others; among *)
(* frames with K accesses the largest now - front goes first.  The scan of *)
(* the hash map that computes it is LRUKScan!Scan.                         *)
(***************************************************************************)
Infinite(r, f) == Len(r.history[f]) < K

Distance(r, f) == r.now - Head(r.history[f])

EvictBefore(r, f, g) ==
  \/ Infinite(r, f) /\ ~Infinite(r, g)
  \/ Infinite(r, f) = Infinite(r, g) /\ Distance(r, f) >= Distance(r, g)

Victims(r) ==
  {f \in EvictableFrames(r) : \A g \in EvictableFrames(r) : EvictBefore(r, f, g)}

-----------------------------------------------------------------------------
(* The replacer on its own, called in any order by anyone. *)

LRUInit == lru = EmptyReplacer

Access(f) == lru.now < MaxTime /\ lru' = RecordAccess(lru, f)

MarkEvictable(f, b) == lru' = SetEvictable(lru, f, b)

Evict == \E f \in Victims(lru) : lru' = EraseEntry(lru, f)

\* No entry: no effect.  An entry that is not evictable: throws, no effect.
Remove(f) ==
  lru' = IF f \in EvictableFrames(lru) THEN EraseEntry(lru, f) ELSE lru

LRUNext ==
  \/ Evict
  \/ \E f \in Frames : Access(f) \/ Remove(f) \/ \E b \in BOOLEAN : MarkEvictable(f, b)

LRUSpec == LRUInit /\ [][LRUNext]_lru

-----------------------------------------------------------------------------
(* Properties. *)

\* The replacer has its type; curr_size_, a size_t, does not go below zero.
LRUTypeOK == lru \in Replacers /\ lru.size >= 0

\* curr_size_ counts the evictable entries, whatever the order of calls; an
\* erased entry leaves no evictable mark behind for the frame's next page
\* (curr_size_++ and -- in SetEvictable, Evict and Remove).
SizeExact ==
  /\ lru.size = Cardinality(EvictableFrames(lru))
  /\ \A f \in Frames : lru.evictable[f] => f \in Tracked(lru)

\* A history holds at most K timestamps, strictly increasing and all in the
\* past, and no two frames share one: backward distances are positive and
\* distinct (RecordAccess).
HistoriesOrdered ==
  /\ LRUTypeOK
  /\ \A f \in Frames :
       /\ Len(lru.history[f]) <= K
       /\ \A i \in DOMAIN lru.history[f] :
            /\ lru.history[f][i] < lru.now
            /\ \A j \in DOMAIN lru.history[f] : i < j => lru.history[f][i] < lru.history[f][j]
  /\ \A f, g \in Frames : \A i \in DOMAIN lru.history[f], j \in DOMAIN lru.history[g] :
       f # g => lru.history[f][i] # lru.history[g][j]
=============================================================================
