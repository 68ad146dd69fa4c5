--------------------------- MODULE ReplacerProofs ---------------------------
(***************************************************************************)
(* Proofs about the LRU-K replacer, for every number of frames and every   *)
(* K >= 1.  The lemmas about single operations are used again by the       *)
(* proofs about the buffer pool, which composes several in one step.       *)
(***************************************************************************)
EXTENDS LRUKScan, FiniteSetTheorems, TLAPS

-----------------------------------------------------------------------------
(* What the operations do to the parts of a replacer. *)

\* The frames are finitely many, and so are those of any kind.
LEMMA FramesFinite ==
  IsFiniteSet(Frames) /\ \A S \in SUBSET Frames : IsFiniteSet(S) /\ Cardinality(S) \in Nat
<1>1. IsFiniteSet(Frames)
  <2>1. 0 \in Int /\ PoolSize - 1 \in Int
    BY ReplacerAssumption
  <2> QED BY <2>1, FS_Interval DEF Frames
<1> QED BY <1>1, FS_Subset, FS_CardinalityType

\* A push keeps the history, or drops its oldest timestamp and no other, and
\* adds the new one at its end; the result is not empty.
LEMMA PushAccessEffect ==
  ASSUME NEW h \in Seq(Nat), NEW t \in Nat
  PROVE  /\ PushAccess(h, t) \in Seq(Nat)
         /\ PushAccess(h, t) # <<>>
         /\ Len(h) <= K => Len(PushAccess(h, t)) <= K
         /\ \E d \in {0, 1} :
              /\ Len(PushAccess(h, t)) = Len(h) + 1 - d
              /\ \A i \in 1 .. Len(PushAccess(h, t)) :
                   PushAccess(h, t)[i] = IF i + d <= Len(h) THEN h[i + d] ELSE t
<1> DEFINE pushed == Append(h, t)
<1>1. /\ pushed \in Seq(Nat) /\ Len(pushed) = Len(h) + 1 /\ pushed # <<>>
      /\ \A i \in 1 .. Len(pushed) : pushed[i] = IF i <= Len(h) THEN h[i] ELSE t
  OBVIOUS
<1>2. K \in Nat /\ K >= 1 /\ Len(h) \in Nat
  BY ReplacerAssumption
<1>3. CASE Len(pushed) > K
  <2>1. PushAccess(h, t) = Tail(pushed)
    BY <1>3 DEF PushAccess
  <2> HIDE DEF pushed
  <2>2. /\ Tail(pushed) \in Seq(Nat) /\ Len(Tail(pushed)) = Len(h)
        /\ \A i \in 1 .. Len(h) : Tail(pushed)[i] = pushed[i + 1]
    BY <1>1, <1>2
  <2>3. Len(h) >= 1
    BY <1>1, <1>2, <1>3
  <2>4. Tail(pushed) # <<>>
    BY <2>2, <2>3, SMTT(30)
  <2>5. \A i \in 1 .. Len(h) : Tail(pushed)[i] = IF i + 1 <= Len(h) THEN h[i + 1] ELSE t
    BY <1>1, <1>2, <2>2, SMTT(30)
  <2>6. Len(Tail(pushed)) = Len(h) + 1 - 1
    BY <1>2, <2>2
  <2>7. \E d \in {0, 1} :
          /\ Len(Tail(pushed)) = Len(h) + 1 - d
          /\ \A i \in 1 .. Len(Tail(pushed)) : Tail(pushed)[i] = IF i + d <= Len(h) THEN h[i + d] ELSE t
    <3> WITNESS 1 \in {0, 1}
    <3> QED BY <2>2, <2>5, <2>6
  <2> QED BY <2>1, <2>2, <2>4, <2>7
<1>4. CASE ~(Len(pushed) > K)
  <2>1. PushAccess(h, t) = pushed
    BY <1>4 DEF PushAccess
  <2> HIDE DEF pushed
  <2> QED BY <1>1, <1>2, <1>4, <2>1
<1> QED BY <1>3, <1>4

\* An access starts or extends the history of its frame and touches no mark.
LEMMA RecordAccessEffect ==
  ASSUME NEW r \in Replacers, NEW f \in Frames
  PROVE  /\ RecordAccess(r, f) \in Replacers
         /\ RecordAccess(r, f).history = [r.history EXCEPT ![f] = PushAccess(r.history[f], r.now)]
         /\ RecordAccess(r, f).evictable = r.evictable
         /\ RecordAccess(r, f).size = r.size
         /\ RecordAccess(r, f).now = r.now + 1
         /\ Tracked(RecordAccess(r, f)) = Tracked(r) \cup {f}
<1>1. r.history[f] \in Seq(Nat) /\ r.now \in Nat
  BY DEF Replacers
<1>2. PushAccess(r.history[f], r.now) \in Seq(Nat) /\ PushAccess(r.history[f], r.now) # <<>>
  BY <1>1, PushAccessEffect
<1> DEFINE g == PushAccess(r.history[f], r.now)
<1>3. RecordAccess(r, f) = [r EXCEPT !.history = [r.history EXCEPT ![f] = g], !.now = r.now + 1]
  BY DEF RecordAccess, Replacers
<1> HIDE DEF g
<1>4. /\ RecordAccess(r, f).history = [r.history EXCEPT ![f] = g]
      /\ RecordAccess(r, f).evictable = r.evictable
      /\ RecordAccess(r, f).size = r.size
      /\ RecordAccess(r, f).now = r.now + 1
  BY <1>3 DEF Replacers
<1>5. RecordAccess(r, f) \in Replacers
  <2>1. [r.history EXCEPT ![f] = g] \in [Frames -> Seq(Nat)] /\ r.now + 1 \in Nat
    BY <1>1, <1>2 DEF Replacers, g
  <2> QED BY <1>3, <2>1 DEF Replacers
<1>6. Tracked(RecordAccess(r, f)) = Tracked(r) \cup {f}
  BY <1>2, <1>4 DEF Replacers, Tracked, g
<1> QED BY <1>4, <1>5, <1>6 DEF g

\* Marking a tracked frame evictable sets its mark and counts it, if it was not
\* counted before.
LEMMA MarkTrue ==
  ASSUME NEW r \in Replacers, NEW f \in Tracked(r)
  PROVE  /\ SetEvictable(r, f, TRUE) \in Replacers
         /\ SetEvictable(r, f, TRUE).history = r.history
         /\ SetEvictable(r, f, TRUE).now = r.now
         /\ SetEvictable(r, f, TRUE).evictable = [r.evictable EXCEPT ![f] = TRUE]
         /\ SetEvictable(r, f, TRUE).size = IF r.evictable[f] THEN r.size ELSE r.size + 1
<1> DEFINE marks == [r.evictable EXCEPT ![f] = TRUE]
           size == IF r.evictable[f] THEN r.size ELSE r.size + 1
<1>1. marks \in [Frames -> BOOLEAN] /\ size \in Int
  <2>1. f \in Frames /\ r.evictable \in [Frames -> BOOLEAN] /\ r.size \in Int
    BY DEF Replacers, Tracked
  <2> QED BY <2>1
<1>2. SetEvictable(r, f, TRUE) = [r EXCEPT !.evictable = marks, !.size = size]
  <2> DEFINE n == IF TRUE /\ ~r.evictable[f] THEN r.size + 1
                  ELSE IF ~TRUE /\ r.evictable[f] THEN r.size - 1 ELSE r.size
  <2>1. SetEvictable(r, f, TRUE) = [r EXCEPT !.evictable = marks, !.size = n]
    BY Zenon DEF SetEvictable
  <2>2. n = size
    OBVIOUS
  <2> QED BY <2>1, <2>2, Zenon
<1> HIDE DEF marks, size
<1>3. /\ SetEvictable(r, f, TRUE) \in Replacers
      /\ SetEvictable(r, f, TRUE).history = r.history
      /\ SetEvictable(r, f, TRUE).now = r.now
      /\ SetEvictable(r, f, TRUE).evictable = marks
      /\ SetEvictable(r, f, TRUE).size = size
  BY <1>1, <1>2 DEF Replacers
<1> QED BY <1>3 DEF marks, size

\* Marking a tracked frame not evictable clears its mark and stops counting it.
LEMMA MarkFalse ==
  ASSUME NEW r \in Replacers, NEW f \in Tracked(r)
  PROVE  /\ SetEvictable(r, f, FALSE) \in Replacers
         /\ SetEvictable(r, f, FALSE).history = r.history
         /\ SetEvictable(r, f, FALSE).now = r.now
         /\ SetEvictable(r, f, FALSE).evictable = [r.evictable EXCEPT ![f] = FALSE]
         /\ SetEvictable(r, f, FALSE).size = IF r.evictable[f] THEN r.size - 1 ELSE r.size
<1> DEFINE marks == [r.evictable EXCEPT ![f] = FALSE]
           size == IF r.evictable[f] THEN r.size - 1 ELSE r.size
<1>1. marks \in [Frames -> BOOLEAN] /\ size \in Int
  <2>1. f \in Frames /\ r.evictable \in [Frames -> BOOLEAN] /\ r.size \in Int
    BY DEF Replacers, Tracked
  <2> QED BY <2>1
<1>2. SetEvictable(r, f, FALSE) = [r EXCEPT !.evictable = marks, !.size = size]
  <2> DEFINE n == IF FALSE /\ ~r.evictable[f] THEN r.size + 1
                  ELSE IF ~FALSE /\ r.evictable[f] THEN r.size - 1 ELSE r.size
  <2>1. SetEvictable(r, f, FALSE) = [r EXCEPT !.evictable = marks, !.size = n]
    BY Zenon DEF SetEvictable
  <2>2. n = size
    OBVIOUS
  <2> QED BY <2>1, <2>2, Zenon
<1> HIDE DEF marks, size
<1>3. /\ SetEvictable(r, f, FALSE) \in Replacers
      /\ SetEvictable(r, f, FALSE).history = r.history
      /\ SetEvictable(r, f, FALSE).now = r.now
      /\ SetEvictable(r, f, FALSE).evictable = marks
      /\ SetEvictable(r, f, FALSE).size = size
  BY <1>1, <1>2 DEF Replacers
<1> QED BY <1>3 DEF marks, size

\* No mark changes a history or the time.
LEMMA MarkKeeps ==
  ASSUME NEW r \in Replacers, NEW f \in Frames, NEW b \in BOOLEAN
  PROVE  /\ SetEvictable(r, f, b) \in Replacers
         /\ SetEvictable(r, f, b).history = r.history
         /\ SetEvictable(r, f, b).now = r.now
         /\ Tracked(SetEvictable(r, f, b)) = Tracked(r)
<1>1. CASE f \notin Tracked(r)
  BY <1>1, Zenon DEF SetEvictable
<1>2. CASE f \in Tracked(r)
  <2>1. CASE b = TRUE
    BY <1>2, <2>1, MarkTrue DEF Tracked
  <2>2. CASE b = FALSE
    BY <1>2, <2>2, MarkFalse DEF Tracked
  <2> QED BY <2>1, <2>2
<1> QED BY <1>1, <1>2

\* An erased entry has no history and no mark.
LEMMA EraseEntryEffect ==
  ASSUME NEW r \in Replacers, NEW f \in Frames
  PROVE  /\ EraseEntry(r, f) \in Replacers
         /\ EraseEntry(r, f).history = [r.history EXCEPT ![f] = <<>>]
         /\ EraseEntry(r, f).evictable = [r.evictable EXCEPT ![f] = FALSE]
         /\ EraseEntry(r, f).size = r.size - 1
         /\ EraseEntry(r, f).now = r.now
         /\ Tracked(EraseEntry(r, f)) = Tracked(r) \ {f}
<1> DEFINE marks == [r.evictable EXCEPT ![f] = FALSE]
           hist == [r.history EXCEPT ![f] = <<>>]
<1>1. marks \in [Frames -> BOOLEAN] /\ hist \in [Frames -> Seq(Nat)] /\ r.size - 1 \in Int
  BY DEF Replacers
<1>2. EraseEntry(r, f) = [r EXCEPT !.history = hist, !.evictable = marks, !.size = r.size - 1]
  BY DEF EraseEntry, Replacers
<1>3. Tracked(EraseEntry(r, f)) = {g \in Frames : hist[g] # <<>>}
  BY <1>2 DEF Tracked, Replacers
<1>4. {g \in Frames : hist[g] # <<>>} = Tracked(r) \ {f}
  BY DEF Tracked, Replacers
<1> HIDE DEF marks, hist
<1>5. /\ EraseEntry(r, f) \in Replacers
      /\ EraseEntry(r, f).history = hist
      /\ EraseEntry(r, f).evictable = marks
      /\ EraseEntry(r, f).size = r.size - 1
      /\ EraseEntry(r, f).now = r.now
  BY <1>1, <1>2 DEF Replacers
<1> QED BY <1>3, <1>4, <1>5 DEF marks, hist

-----------------------------------------------------------------------------
(* The counter. *)

\* curr_size_ of replacer r is the number of its evictable entries, and only
\* entries carry a mark.
Counted(r) ==
  /\ r.size = Cardinality(EvictableFrames(r))
  /\ \A f \in Frames : r.evictable[f] => f \in Tracked(r)

\* Sets of evictable frames are finite and their size is a number.
LEMMA EvictableFinite ==
  ASSUME NEW r
  PROVE  IsFiniteSet(EvictableFrames(r)) /\ Cardinality(EvictableFrames(r)) \in Nat
BY FramesFinite DEF EvictableFrames, Tracked

\* An access makes no frame evictable.
LEMMA AccessCounted ==
  ASSUME NEW r \in Replacers, NEW f \in Frames, Counted(r)
  PROVE  Counted(RecordAccess(r, f))
<1> DEFINE r2 == RecordAccess(r, f)
<1>1. r2.evictable = r.evictable /\ r2.size = r.size /\ Tracked(r2) = Tracked(r) \cup {f}
  BY RecordAccessEffect
<1> HIDE DEF r2
<1>2. EvictableFrames(r2) = EvictableFrames(r)
  BY <1>1, Zenon DEF EvictableFrames, Counted
<1> QED BY <1>1, <1>2, Zenon DEF Counted, r2

\* The count follows a mark that changes, and only that.
LEMMA MarkCounted ==
  ASSUME NEW r \in Replacers, NEW f \in Frames, NEW b \in BOOLEAN, Counted(r)
  PROVE  Counted(SetEvictable(r, f, b))
<1> DEFINE r2 == SetEvictable(r, f, b)
           E == EvictableFrames(r)
<1>1. CASE f \notin Tracked(r)
  BY <1>1, Zenon DEF SetEvictable
<1>2. CASE f \in Tracked(r)
  <2>1. /\ Cardinality(E \cup {f}) = IF f \in E THEN Cardinality(E) ELSE Cardinality(E) + 1
        /\ Cardinality(E \ {f}) = IF f \in E THEN Cardinality(E) - 1 ELSE Cardinality(E)
    BY EvictableFinite, FS_AddElement, FS_RemoveElement
  <2>2. f \in E <=> r.evictable[f]
    BY <1>2 DEF EvictableFrames
  <2>3. r.size = Cardinality(E)
    BY DEF Counted
  <2>4. Tracked(r2) = Tracked(r)
    BY MarkKeeps
  <2>5. CASE b = TRUE
    <3>1. /\ r2.evictable = [r.evictable EXCEPT ![f] = TRUE]
          /\ r2.size = IF r.evictable[f] THEN r.size ELSE r.size + 1
      BY <1>2, <2>5, MarkTrue
    <3> HIDE DEF r2
    <3>2. EvictableFrames(r2) = E \cup {f}
      BY <1>2, <2>4, <3>1 DEF EvictableFrames, Replacers, Tracked
    <3>3. r2.size = Cardinality(EvictableFrames(r2))
      BY <2>1, <2>2, <2>3, <3>1, <3>2
    <3>4. \A g \in Frames : r2.evictable[g] => g \in Tracked(r2)
      BY <1>2, <2>4, <3>1 DEF Counted, Replacers
    <3> QED BY <3>3, <3>4 DEF Counted, r2
  <2>6. CASE b = FALSE
    <3>1. /\ r2.evictable = [r.evictable EXCEPT ![f] = FALSE]
          /\ r2.size = IF r.evictable[f] THEN r.size - 1 ELSE r.size
      BY <1>2, <2>6, MarkFalse
    <3> HIDE DEF r2
    <3>2. EvictableFrames(r2) = E \ {f}
      BY <1>2, <2>4, <3>1 DEF EvictableFrames, Replacers, Tracked
    <3>3. r2.size = Cardinality(EvictableFrames(r2))
      BY <2>1, <2>2, <2>3, <3>1, <3>2
    <3>4. \A g \in Frames : r2.evictable[g] => g \in Tracked(r2)
      BY <1>2, <2>4, <3>1 DEF Counted, Replacers
    <3> QED BY <3>3, <3>4 DEF Counted, r2
  <2> QED BY <2>5, <2>6
<1> QED BY <1>1, <1>2

\* Erasing an evictable entry decrements the count.
LEMMA EraseCounted ==
  ASSUME NEW r \in Replacers, NEW f \in EvictableFrames(r), Counted(r)
  PROVE  Counted(EraseEntry(r, f))
<1>1. f \in Frames
  BY DEF EvictableFrames, Tracked
<1> DEFINE r2 == EraseEntry(r, f)
<1>2. /\ Tracked(r2) = Tracked(r) \ {f}
      /\ r2.evictable = [r.evictable EXCEPT ![f] = FALSE]
      /\ r2.size = r.size - 1
  BY <1>1, EraseEntryEffect
<1> HIDE DEF r2
<1>3. EvictableFrames(r2) = EvictableFrames(r) \ {f}
  BY <1>1, <1>2 DEF EvictableFrames, Replacers, Tracked
<1>4. Cardinality(EvictableFrames(r2)) = Cardinality(EvictableFrames(r)) - 1
  BY <1>3, EvictableFinite, FS_RemoveElement
<1>5. r2.size = Cardinality(EvictableFrames(r2))
  BY <1>2, <1>4 DEF Counted
<1>6. \A g \in Frames : r2.evictable[g] => g \in Tracked(r2)
  BY <1>1, <1>2 DEF Counted, Replacers
<1> QED BY <1>5, <1>6 DEF Counted, r2

\* Every step of the replacer is one of its operations on one frame.
LEMMA StepIsOperation ==
  ASSUME LRUNext
  PROVE  \E f \in Frames :
           \/ lru' = RecordAccess(lru, f)
           \/ \E b \in BOOLEAN : lru' = SetEvictable(lru, f, b)
           \/ f \in EvictableFrames(lru) /\ lru' = EraseEntry(lru, f)
           \/ lru' = lru
<1>1. CASE Evict
  BY <1>1 DEF Evict, Victims, EvictableFrames, Tracked
<1>2. ASSUME NEW f \in Frames, Access(f) PROVE lru' = RecordAccess(lru, f)
  BY <1>2 DEF Access
<1>3. ASSUME NEW f \in Frames, Remove(f)
      PROVE  (f \in EvictableFrames(lru) /\ lru' = EraseEntry(lru, f)) \/ lru' = lru
  BY <1>3 DEF Remove
<1>4. ASSUME NEW f \in Frames, NEW b \in BOOLEAN, MarkEvictable(f, b) PROVE lru' = SetEvictable(lru, f, b)
  BY <1>4 DEF MarkEvictable
<1> QED BY <1>1, <1>2, <1>3, <1>4 DEF LRUNext

\* The replacer has its type and its counter is exact, in every state.
LEMMA CountedAlways == LRUSpec => [](lru \in Replacers /\ Counted(lru))
<1>1. LRUInit => lru \in Replacers /\ Counted(lru)
  <2> SUFFICES ASSUME LRUInit PROVE lru \in Replacers /\ Counted(lru)
    OBVIOUS
  <2>1. lru \in Replacers
    BY DEF LRUInit, EmptyReplacer, Replacers
  <2>2. EvictableFrames(lru) = {} /\ lru.size = 0 /\ \A f \in Frames : ~lru.evictable[f]
    BY DEF LRUInit, EmptyReplacer, EvictableFrames, Tracked
  <2> QED BY <2>1, <2>2, FS_EmptySet DEF Counted
<1>2. lru \in Replacers /\ Counted(lru) /\ [LRUNext]_lru => lru' \in Replacers /\ Counted(lru')
  <2> SUFFICES ASSUME lru \in Replacers, Counted(lru), [LRUNext]_lru
               PROVE  lru' \in Replacers /\ Counted(lru')
    OBVIOUS
  <2>1. CASE lru' = lru
    BY <2>1
  <2>2. CASE LRUNext
    <3>1. PICK f \in Frames :
             \/ lru' = RecordAccess(lru, f)
             \/ \E b \in BOOLEAN : lru' = SetEvictable(lru, f, b)
             \/ f \in EvictableFrames(lru) /\ lru' = EraseEntry(lru, f)
             \/ lru' = lru
      BY <2>2, StepIsOperation
    <3>2. CASE lru' = RecordAccess(lru, f)
      BY <3>2, RecordAccessEffect, AccessCounted
    <3>3. ASSUME NEW b \in BOOLEAN, lru' = SetEvictable(lru, f, b)
          PROVE  lru' \in Replacers /\ Counted(lru')
      BY <3>3, MarkKeeps, MarkCounted
    <3>4. CASE f \in EvictableFrames(lru) /\ lru' = EraseEntry(lru, f)
      BY <3>4, EraseEntryEffect, EraseCounted
    <3> QED BY <2>1, <3>1, <3>2, <3>3, <3>4
  <2> QED BY <2>1, <2>2
<1>3. (lru \in Replacers /\ Counted(lru))' <=> lru' \in Replacers /\ Counted(lru')
  BY DEF Counted, EvictableFrames, Tracked, Replacers
<1> QED BY <1>1, <1>2, <1>3, PTL DEF LRUSpec

\* curr_size_ is the number of evictable frames after any sequence of calls, and
\* no erased entry leaves its mark behind.
THEOREM CounterExact == LRUSpec => []SizeExact
<1>1. lru \in Replacers /\ Counted(lru) => SizeExact
  BY DEF Counted, SizeExact
<1> QED BY <1>1, CountedAlways, PTL

-----------------------------------------------------------------------------
(* The histories. *)

\* A history h holds at most K timestamps, increasing and all before t.
Past(h, t) ==
  /\ Len(h) <= K
  /\ \A i \in DOMAIN h : h[i] < t /\ \A j \in DOMAIN h : i < j => h[i] < h[j]

\* Histories h and k share no timestamp.
Apart(h, k) == \A i \in DOMAIN h, j \in DOMAIN k : h[i] # k[j]

\* The histories of replacer r are ordered, in the past and pairwise apart.
Ordered(r) ==
  /\ \A f \in Frames : Past(r.history[f], r.now)
  /\ \A f, g \in Frames : f # g => Apart(r.history[f], r.history[g])

\* Pushing the current timestamp keeps a history ordered and within the past of
\* the next one, and apart from any history that was in the past already.
LEMMA PushPast ==
  ASSUME NEW h \in Seq(Nat), NEW t \in Nat, Past(h, t)
  PROVE  /\ Past(PushAccess(h, t), t + 1)
         /\ \A k \in Seq(Nat) : Past(k, t) /\ Apart(h, k) =>
              Apart(PushAccess(h, t), k) /\ Apart(k, PushAccess(h, t))
<1> DEFINE p == PushAccess(h, t)
<1>1. /\ p \in Seq(Nat) /\ Len(p) \in Nat /\ Len(h) \in Nat /\ K \in Nat
      /\ Len(p) <= K
      /\ \E d \in {0, 1} :
           /\ Len(p) = Len(h) + 1 - d
           /\ \A i \in 1 .. Len(p) : p[i] = IF i + d <= Len(h) THEN h[i + d] ELSE t
  BY PushAccessEffect, ReplacerAssumption, SMTT(30) DEF Past
<1> HIDE DEF p
<1>2. PICK d \in {0, 1} :
        /\ Len(p) = Len(h) + 1 - d
        /\ \A i \in 1 .. Len(p) : p[i] = IF i + d <= Len(h) THEN h[i + d] ELSE t
  BY <1>1
<1>3. DOMAIN p = 1 .. Len(p) /\ DOMAIN h = 1 .. Len(h)
  BY <1>1
<1>4. \A i \in 1 .. Len(h) : h[i] \in Nat /\ h[i] < t /\ \A j \in 1 .. Len(h) : i < j => h[i] < h[j]
  BY <1>3, SMTT(30) DEF Past
<1>5. ASSUME NEW i \in 1 .. Len(p) PROVE p[i] < t + 1
  <2>1. CASE i + d <= Len(h)
    <3>1. i + d \in 1 .. Len(h) /\ p[i] = h[i + d]
      BY <1>1, <1>2, <2>1
    <3> QED BY <1>4, <3>1
  <2>2. CASE ~(i + d <= Len(h))
    BY <1>2, <2>2
  <2> QED BY <2>1, <2>2
<1>6. ASSUME NEW i \in 1 .. Len(p), NEW j \in 1 .. Len(p), i < j
      PROVE  p[i] < p[j]
  <2>1. i + d <= Len(h) /\ i + d \in 1 .. Len(h) /\ p[i] = h[i + d]
    BY <1>1, <1>2, <1>6, SMTT(30)
  <2>2. CASE j + d <= Len(h)
    <3>1. j + d \in 1 .. Len(h) /\ p[j] = h[j + d] /\ i + d < j + d
      BY <1>1, <1>2, <1>6, <2>2
    <3> QED BY <1>4, <2>1, <3>1
  <2>3. CASE ~(j + d <= Len(h))
    BY <1>1, <1>2, <1>4, <2>1, <2>3
  <2> QED BY <2>2, <2>3
<1>7. Past(p, t + 1)
  BY <1>1, <1>3, <1>5, <1>6 DEF Past
<1>8. ASSUME NEW k \in Seq(Nat), Past(k, t), Apart(h, k)
      PROVE  Apart(p, k) /\ Apart(k, p)
  <2>1. SUFFICES ASSUME NEW i \in 1 .. Len(p), NEW j \in DOMAIN k PROVE p[i] # k[j]
    BY <1>3 DEF Apart
  <2>2. k[j] < t /\ k[j] \in Nat
    BY <1>8 DEF Past
  <2>3. CASE i + d <= Len(h)
    <3>1. i + d \in 1 .. Len(h) /\ p[i] = h[i + d]
      BY <1>1, <1>2, <2>3, SMTT(30)
    <3> QED BY <1>3, <1>8, <3>1 DEF Apart
  <2>4. CASE ~(i + d <= Len(h))
    <3>1. p[i] = t
      BY <1>2, <2>4
    <3> QED BY <2>2, <3>1
  <2> QED BY <2>3, <2>4
<1> QED BY <1>7, <1>8 DEF p

\* What was in the past stays in the past.
LEMMA PastGrows ==
  ASSUME NEW h \in Seq(Nat), NEW t \in Nat, Past(h, t)
  PROVE  Past(h, t + 1)
<1>1. \A i \in DOMAIN h : h[i] \in Nat
  OBVIOUS
<1> QED BY <1>1 DEF Past

\* An access keeps all histories ordered and apart.
LEMMA AccessOrdered ==
  ASSUME NEW r \in Replacers, NEW f \in Frames, Ordered(r)
  PROVE  Ordered(RecordAccess(r, f))
<1> DEFINE r2 == RecordAccess(r, f)
           p == PushAccess(r.history[f], r.now)
<1>1. r2.history = [r.history EXCEPT ![f] = p] /\ r2.now = r.now + 1
  BY RecordAccessEffect
<1>2. r.now \in Nat /\ r.history \in [Frames -> Seq(Nat)]
  BY DEF Replacers
<1>3. \A g \in Frames : r2.history[g] = IF g = f THEN p ELSE r.history[g]
  BY <1>1, <1>2
<1>4. \A g \in Frames : Past(r.history[g], r.now) /\ r.history[g] \in Seq(Nat)
  BY <1>2 DEF Ordered
<1>5. /\ Past(p, r.now + 1)
      /\ \A g \in Frames \ {f} : Apart(p, r.history[g]) /\ Apart(r.history[g], p)
  BY <1>2, <1>4, PushPast DEF Ordered
<1>6. \A g \in Frames : Past(r.history[g], r.now + 1)
  BY <1>2, <1>4, PastGrows
<1> HIDE DEF r2, p
<1>7. \A g \in Frames : Past(r2.history[g], r2.now)
  BY <1>1, <1>3, <1>5, <1>6
<1>8. \A g, k \in Frames : g # k => Apart(r2.history[g], r2.history[k])
  BY <1>3, <1>5 DEF Ordered
<1> QED BY <1>7, <1>8 DEF Ordered, r2

\* A mark changes no history.
LEMMA MarkOrdered ==
  ASSUME NEW r \in Replacers, NEW f \in Frames, NEW b \in BOOLEAN, Ordered(r)
  PROVE  Ordered(SetEvictable(r, f, b))
<1> DEFINE r2 == SetEvictable(r, f, b)
<1>1. r2.history = r.history /\ r2.now = r.now
  BY MarkKeeps
<1> HIDE DEF r2
<1>2. Ordered(r2)
  BY <1>1, Zenon DEF Ordered
<1> QED BY <1>2 DEF r2

\* An erased history is empty: ordered, and apart from every other.
LEMMA EraseOrdered ==
  ASSUME NEW r \in Replacers, NEW f \in Frames, Ordered(r)
  PROVE  Ordered(EraseEntry(r, f))
<1> DEFINE r2 == EraseEntry(r, f)
<1>1. r2.history = [r.history EXCEPT ![f] = <<>>] /\ r2.now = r.now
  BY EraseEntryEffect
<1>2. r.history \in [Frames -> Seq(Nat)] /\ r.now \in Nat
  BY DEF Replacers
<1> HIDE DEF r2
<1>3. \A g \in Frames : r2.history[g] = IF g = f THEN <<>> ELSE r.history[g]
  BY <1>1, <1>2
<1>4. Past(<<>>, r.now) /\ \A h : Apart(<<>>, h) /\ Apart(h, <<>>)
  BY ReplacerAssumption DEF Past, Apart
<1> QED BY <1>1, <1>3, <1>4 DEF Ordered, r2

\* The histories are ordered in every state.
LEMMA OrderedAlways == LRUSpec => [](lru \in Replacers /\ Ordered(lru))
<1>1. LRUInit => lru \in Replacers /\ Ordered(lru)
  <2> SUFFICES ASSUME LRUInit PROVE lru \in Replacers /\ Ordered(lru)
    OBVIOUS
  <2>1. lru \in Replacers
    BY DEF LRUInit, EmptyReplacer, Replacers
  <2>2. lru.now = 0 /\ \A f \in Frames : lru.history[f] = <<>>
    BY DEF LRUInit, EmptyReplacer
  <2>3. Past(<<>>, 0) /\ Apart(<<>>, <<>>)
    BY ReplacerAssumption DEF Past, Apart
  <2> QED BY <2>1, <2>2, <2>3 DEF Ordered
<1>2. lru \in Replacers /\ Ordered(lru) /\ [LRUNext]_lru => lru' \in Replacers /\ Ordered(lru')
  <2> SUFFICES ASSUME lru \in Replacers, Ordered(lru), [LRUNext]_lru
               PROVE  lru' \in Replacers /\ Ordered(lru')
    OBVIOUS
  <2>1. CASE lru' = lru
    BY <2>1
  <2>2. CASE LRUNext
    <3>1. PICK f \in Frames :
             \/ lru' = RecordAccess(lru, f)
             \/ \E b \in BOOLEAN : lru' = SetEvictable(lru, f, b)
             \/ f \in EvictableFrames(lru) /\ lru' = EraseEntry(lru, f)
             \/ lru' = lru
      BY <2>2, StepIsOperation
    <3>2. CASE lru' = RecordAccess(lru, f)
      BY <3>2, RecordAccessEffect, AccessOrdered
    <3>3. ASSUME NEW b \in BOOLEAN, lru' = SetEvictable(lru, f, b)
          PROVE  lru' \in Replacers /\ Ordered(lru')
      BY <3>3, MarkKeeps, MarkOrdered
    <3>4. CASE f \in EvictableFrames(lru) /\ lru' = EraseEntry(lru, f)
      BY <3>4, EraseEntryEffect, EraseOrdered
    <3> QED BY <2>1, <3>1, <3>2, <3>3, <3>4
  <2> QED BY <2>1, <2>2
<1>3. (lru \in Replacers /\ Ordered(lru))' <=> lru' \in Replacers /\ Ordered(lru')
  BY DEF Ordered, Past, Apart, Replacers
<1> QED BY <1>1, <1>2, <1>3, PTL DEF LRUSpec

\* The replacer keeps its type, curr_size_ never goes below zero, and the
\* histories that RecordAccess keeps are ordered, capped and pairwise apart: the
\* backward distances that Evict compares are positive and distinct.
THEOREM HistoriesCorrect == LRUSpec => []HistoriesOrdered
<1>1. lru \in Replacers /\ Counted(lru) /\ Ordered(lru) => HistoriesOrdered
  <2> SUFFICES ASSUME lru \in Replacers, Counted(lru), Ordered(lru) PROVE HistoriesOrdered
    OBVIOUS
  <2>1. LRUTypeOK
    BY EvictableFinite DEF Counted, LRUTypeOK
  <2> QED BY <2>1 DEF Ordered, Past, Apart, HistoriesOrdered
<1> QED BY <1>1, CountedAlways, OrderedAlways, PTL

-----------------------------------------------------------------------------
(* The scan of Evict. *)

\* A set of natural numbers has a least element.
LEMMA LeastNatural ==
  ASSUME NEW S \in SUBSET Nat, S # {}
  PROVE  \E m \in S : \A x \in S : m <= x
<1> DEFINE R == OpToRel(<, Nat)
<1>1. IsWellFoundedOn(R, Nat)
  BY NatLessThanWellFounded
<1>2. \A x, y \in Nat : <<x, y>> \in R <=> x < y
  BY DEF OpToRel
<1> HIDE DEF R
<1>3. PICK m \in S : \A y \in S : ~(<<y, m>> \in R)
  BY <1>1, WFMin
<1>4. ASSUME NEW y \in S PROVE m <= y
  <2>1. ~(y < m)
    BY <1>2, <1>3
  <2> QED BY <2>1
<1> QED BY <1>4

\* The oldest timestamps of two entries differ, and all are in the past.
LEMMA OldestApart ==
  ASSUME NEW r \in Replacers, Ordered(r), r.now <= MaxTime
  PROVE  /\ \A f \in Tracked(r) : /\ f \in Frames /\ f # NoFrame
                                  /\ Head(r.history[f]) \in Nat /\ Head(r.history[f]) < r.now
                                  /\ Head(r.history[f]) < NoTimestamp
                                  /\ Distance(r, f) \in Nat /\ Distance(r, f) > 0
         /\ \A f, g \in Tracked(r) : f # g => Head(r.history[f]) # Head(r.history[g])
<1>1. \A f \in Tracked(r) : /\ r.history[f] \in Seq(Nat) /\ 1 \in DOMAIN r.history[f] /\ f \in Frames
                            /\ Head(r.history[f]) = r.history[f][1] /\ r.history[f][1] \in Nat
  BY DEF Tracked, Replacers
<1>2. r.now \in Nat /\ MaxTime \in Nat
  BY ReplacerAssumption DEF Replacers
<1>3. \A f \in Tracked(r) : Head(r.history[f]) < r.now
  BY <1>1 DEF Ordered, Past
<1>4. \A f \in Frames : f # NoFrame
  BY ReplacerAssumption DEF Frames, NoFrame
<1>5. \A f, g \in Tracked(r) : f # g => Head(r.history[f]) # Head(r.history[g])
  BY <1>1 DEF Ordered, Apart
<1> QED BY <1>1, <1>2, <1>3, <1>4, <1>5 DEF Distance, NoTimestamp

Scans == [victim : Int, min_timestamp : Nat, max_k_distance : Nat, found_inf : BOOLEAN]

\* What the loop knows after the evictable frames of S.
Best(r, S, acc) ==
  /\ acc \in Scans
  /\ acc.found_inf =>
       /\ acc.victim \in S /\ Infinite(r, acc.victim) /\ acc.min_timestamp = Head(r.history[acc.victim])
       /\ \A f \in S : Infinite(r, f) => acc.min_timestamp <= Head(r.history[f])
  /\ ~acc.found_inf =>
       /\ acc.min_timestamp = NoTimestamp
       /\ \A f \in S : ~Infinite(r, f)
       /\ S = {} => acc.victim = NoFrame /\ acc.max_k_distance = 0
       /\ S # {} => /\ acc.victim \in S /\ acc.max_k_distance = Distance(r, acc.victim)
                    /\ \A f \in S : Distance(r, f) <= acc.max_k_distance

\* An iteration of the loop takes its entry into account.
LEMMA ScanStepBest ==
  ASSUME NEW r \in Replacers, Ordered(r), r.now <= MaxTime,
         NEW S \in SUBSET EvictableFrames(r), NEW acc, Best(r, S, acc), NEW f \in Tracked(r)
  PROVE  Best(r, IF f \in EvictableFrames(r) THEN S \cup {f} ELSE S, ScanStep(r, acc, f))
<1> DEFINE h == Head(r.history[f])
           T == S \cup {f}
<1>1. CASE f \notin EvictableFrames(r)
  BY <1>1 DEF ScanStep
<1>2. ASSUME f \in EvictableFrames(r) PROVE Best(r, T, ScanStep(r, acc, f))
  <2>1. /\ h \in Nat /\ h < NoTimestamp /\ Distance(r, f) \in Nat /\ Distance(r, f) > 0 /\ f \in Int
    BY OldestApart DEF Frames
  <2>2. S \subseteq Tracked(r)
    BY DEF EvictableFrames
  <2>3. \A g \in S : /\ Head(r.history[g]) \in Nat /\ Head(r.history[g]) < NoTimestamp
                     /\ Distance(r, g) \in Nat /\ Distance(r, g) > 0
    BY <2>2, OldestApart
  <2>4. acc \in Scans /\ acc.victim \in Int /\ acc.min_timestamp \in Nat /\ acc.max_k_distance \in Nat /\ acc.found_inf \in BOOLEAN
    BY DEF Best, Scans
  <2> HIDE DEF h
  <2>5. CASE Infinite(r, f) /\ h < acc.min_timestamp
    <3>1. PICK new : new = [acc EXCEPT !.found_inf = TRUE, !.min_timestamp = h, !.victim = f]
      OBVIOUS
    <3>2. ScanStep(r, acc, f) = new
      BY <1>2, <2>5, <3>1 DEF ScanStep, h
    <3>3. new \in Scans /\ new.found_inf /\ new.min_timestamp = h /\ new.victim = f
      BY <2>1, <2>4, <3>1 DEF Scans
    <3>4. \A g \in S : Infinite(r, g) => h <= Head(r.history[g])
      BY <2>1, <2>3, <2>4, <2>5 DEF Best
    <3>5. Best(r, T, new)
      BY <2>1, <2>5, <3>3, <3>4 DEF Best, h
    <3> QED BY <3>2, <3>5
  <2>6. CASE Infinite(r, f) /\ ~(h < acc.min_timestamp)
    <3>1. PICK new : new = [acc EXCEPT !.found_inf = TRUE]
      OBVIOUS
    <3>2. ScanStep(r, acc, f) = new
      BY <1>2, <2>6, <3>1 DEF ScanStep, h
    <3>3. /\ new \in Scans /\ new.found_inf /\ new.min_timestamp = acc.min_timestamp
          /\ new.victim = acc.victim
      BY <2>4, <3>1 DEF Scans
    <3>4. acc.found_inf /\ acc.min_timestamp <= h
      BY <2>1, <2>4, <2>6 DEF Best
    <3>5. Best(r, T, new)
      BY <3>3, <3>4 DEF Best, h
    <3> QED BY <3>2, <3>5
  <2>7. CASE ~Infinite(r, f) /\ ~acc.found_inf /\ Distance(r, f) > acc.max_k_distance
    <3>1. PICK new : new = [acc EXCEPT !.max_k_distance = Distance(r, f), !.victim = f]
      OBVIOUS
    <3>2. ScanStep(r, acc, f) = new
      BY <1>2, <2>7, <3>1 DEF ScanStep
    <3>3. /\ new \in Scans /\ ~new.found_inf /\ new.min_timestamp = acc.min_timestamp
          /\ new.victim = f /\ new.max_k_distance = Distance(r, f)
      BY <2>1, <2>4, <2>7, <3>1 DEF Scans
    <3>4. \A g \in S : ~Infinite(r, g) /\ Distance(r, g) <= Distance(r, f)
      BY <2>1, <2>3, <2>4, <2>7 DEF Best
    <3>5. Best(r, T, new)
      BY <2>1, <2>7, <3>3, <3>4 DEF Best
    <3> QED BY <3>2, <3>5
  <2>8. CASE ~Infinite(r, f) /\ ~(~acc.found_inf /\ Distance(r, f) > acc.max_k_distance)
    <3>1. ScanStep(r, acc, f) = acc
      BY <1>2, <2>8 DEF ScanStep
    <3>2. ~acc.found_inf => S # {} /\ Distance(r, f) <= acc.max_k_distance
      BY <2>1, <2>4, <2>8 DEF Best
    <3>3. Best(r, T, acc)
      BY <2>8, <3>2 DEF Best
    <3> QED BY <3>1, <3>3
  <2> QED BY <2>5, <2>6, <2>7, <2>8
<1> QED BY <1>1, <1>2

\* After all evictable frames the loop knows the one frame that LRU-K evicts.
LEMMA BestIsVictim ==
  ASSUME NEW r \in Replacers, Ordered(r), r.now <= MaxTime, NEW acc, Best(r, EvictableFrames(r), acc)
  PROVE  IF EvictableFrames(r) = {} THEN acc.victim = NoFrame ELSE Victims(r) = {acc.victim}
<1> DEFINE E == EvictableFrames(r)
           v == acc.victim
<1>1. E \subseteq Tracked(r) /\ r.now \in Nat
  BY DEF EvictableFrames, Replacers
<1>2. /\ \A g \in E : /\ Head(r.history[g]) \in Nat /\ Head(r.history[g]) < r.now
                      /\ Distance(r, g) = r.now - Head(r.history[g])
      /\ \A f, g \in E : f # g => Head(r.history[f]) # Head(r.history[g])
  BY <1>1, OldestApart DEF Distance
<1>3. CASE E = {}
  BY <1>3 DEF Best
<1>4. CASE E # {}
  <2>1. v \in E
    BY <1>4 DEF Best
  <2>2. \A g \in E : EvictBefore(r, v, g)
    <3> SUFFICES ASSUME NEW g \in E PROVE EvictBefore(r, v, g)
      OBVIOUS
    <3>1. (Infinite(r, v) <=> Infinite(r, g)) => Infinite(r, v) = Infinite(r, g)
      BY DEF Infinite
    <3>2. CASE acc.found_inf
      <4>1. Infinite(r, v) /\ (Infinite(r, g) => Head(r.history[v]) <= Head(r.history[g]))
        BY <3>2 DEF Best
      <4>2. Infinite(r, g) => Distance(r, v) >= Distance(r, g)
        BY <1>1, <1>2, <2>1, <4>1
      <4> QED BY <3>1, <4>1, <4>2 DEF EvictBefore
    <3>3. CASE ~acc.found_inf
      <4>1. ~Infinite(r, v) /\ ~Infinite(r, g)
        BY <2>1, <3>3 DEF Best
      <4>2. Distance(r, v) >= Distance(r, g)
        BY <1>1, <1>2, <1>4, <2>1, <3>3 DEF Best
      <4> QED BY <3>1, <4>1, <4>2 DEF EvictBefore
    <3> QED BY <3>2, <3>3
  <2>3. ASSUME NEW f \in E, EvictBefore(r, f, v) PROVE f = v
    <3>1. EvictBefore(r, v, f)
      BY <2>2
    <3>2. Distance(r, f) >= Distance(r, v) /\ Distance(r, v) >= Distance(r, f)
      BY <2>3, <3>1 DEF EvictBefore
    <3>3. Head(r.history[f]) = Head(r.history[v])
      BY <1>1, <1>2, <2>1, <3>2
    <3> QED BY <1>2, <2>1, <3>3
  <2> QED BY <1>4, <2>1, <2>2, <2>3 DEF Victims
<1> QED BY <1>3, <1>4

\* An order in which the map yields its entries names each entry.
LEMMA OrderIsAll ==
  ASSUME NEW r \in Replacers, NEW order \in Orders(r)
  PROVE  /\ Len(order) \in Nat /\ DOMAIN order = 1 .. Len(order)
         /\ \A i \in DOMAIN order : order[i] \in Tracked(r)
         /\ \A f \in Tracked(r) : \E i \in DOMAIN order : order[i] = f
<1> DEFINE T == Tracked(r)
           n == Cardinality(T)
<1>1. IsFiniteSet(T) /\ n \in Nat
  BY FramesFinite DEF Tracked
<1>2. order \in [1 .. n -> T] /\ \A f \in T : \E i \in 1 .. n : order[i] = f
  BY DEF Orders, Bijection, Surjection
<1> HIDE DEF T, n
<1>3. order \in Seq(T) /\ Len(order) = n /\ DOMAIN order = 1 .. n
  BY <1>1, <1>2
<1> QED BY <1>1, <1>2, <1>3 DEF T

\* The loop over any order ends with the victim.
LEMMA ScanIsVictim ==
  ASSUME NEW r \in Replacers, Ordered(r), r.now <= MaxTime, NEW order \in Orders(r)
  PROVE  IF EvictableFrames(r) = {} THEN Scan(r, order) = NoFrame ELSE Victims(r) = {Scan(r, order)}
<1> DEFINE N == Len(order)
           acc == CHOOSE g : g = [n \in 0 .. N |->
                                    IF n = 0 THEN ScanStart ELSE ScanStep(r, g[n - 1], order[n])]
           IsRun(g, m) == g = [n \in 0 .. m |->
                                 IF n = 0 THEN ScanStart ELSE ScanStep(r, g[n - 1], order[n])]
           short == {m \in 0 .. N : ~\E g : IsRun(g, m)}
           first(n) == {order[i] : i \in 1 .. n} \cap EvictableFrames(r)
           bad == {n \in 0 .. N : ~Best(r, first(n), acc[n])}
<1>1. /\ N \in Nat /\ DOMAIN order = 1 .. N
      /\ \A i \in 1 .. N : order[i] \in Tracked(r)
      /\ \A f \in Tracked(r) : \E i \in 1 .. N : order[i] = f
  BY OrderIsAll
<1>2. acc = [n \in 0 .. N |-> IF n = 0 THEN ScanStart ELSE ScanStep(r, acc[n - 1], order[n])]
  <2>1. short = {}
    <3> SUFFICES ASSUME short # {} PROVE FALSE
      OBVIOUS
    <3>1. PICK m \in short : \A n \in short : m <= n
      <4>1. short \subseteq Nat
        BY <1>1
      <4> HIDE DEF short
      <4> QED BY <4>1, LeastNatural
    <3>2. m \in 0 .. N /\ ~\E g : IsRun(g, m)
      OBVIOUS
    <3>3. m # 0
      <4>1. IsRun([n \in 0 .. 0 |-> ScanStart], 0)
        OBVIOUS
      <4> HIDE DEF IsRun
      <4> QED BY <3>2, <4>1
    <3>4. m - 1 \in 0 .. N /\ m - 1 \notin short /\ m \in 1 .. N
      <4> HIDE DEF short
      <4> QED BY <1>1, <3>1, <3>2, <3>3
    <3>5. PICK g : IsRun(g, m - 1)
      BY <3>4
    <3> DEFINE longer == [n \in 0 .. m |-> IF n = m THEN ScanStep(r, g[m - 1], order[m]) ELSE g[n]]
    <3>6. IsRun(longer, m)
      <4>1. \A n \in 0 .. m - 1 : g[n] = IF n = 0 THEN ScanStart ELSE ScanStep(r, g[n - 1], order[n])
        BY <3>5
      <4>2. \A n \in 0 .. m - 1 : longer[n] = g[n]
        BY <1>1, <3>4
      <4>3. ASSUME NEW n \in 0 .. m
            PROVE  longer[n] = IF n = 0 THEN ScanStart ELSE ScanStep(r, longer[n - 1], order[n])
        <5>1. CASE n = m
          <6>1. longer[n] = ScanStep(r, g[m - 1], order[m]) /\ longer[n - 1] = g[m - 1] /\ n # 0
            BY <1>1, <3>4, <4>2, <5>1
          <6> QED BY <5>1, <6>1
        <5>2. CASE n # m
          <6>1. n \in 0 .. m - 1 /\ (n # 0 => n - 1 \in 0 .. m - 1)
            BY <1>1, <3>4, <5>2
          <6> HIDE DEF longer
          <6> QED BY <4>1, <4>2, <6>1
        <5> QED BY <5>1, <5>2
      <4>4. longer = [n \in 0 .. m |-> longer[n]]
        OBVIOUS
      <4> HIDE DEF longer
      <4> QED BY <4>3, <4>4
    <3> HIDE DEF IsRun
    <3> QED BY <3>2, <3>6
  <2>2. \E g : IsRun(g, N)
    <3>1. N \in 0 .. N
      BY <1>1
    <3> HIDE DEF IsRun
    <3> QED BY <2>1, <3>1
  <2> QED BY <2>2
<1>3. Scan(r, order) = acc[N].victim
  BY DEF Scan
<1> HIDE DEF acc
<1>4. acc[0] = ScanStart /\ \A n \in 1 .. N : acc[n] = ScanStep(r, acc[n - 1], order[n])
  BY <1>1, <1>2
<1>5. Best(r, {}, ScanStart)
  BY ReplacerAssumption DEF Best, ScanStart, Scans, NoTimestamp, NoFrame
<1>6. bad = {}
  <2> SUFFICES ASSUME bad # {} PROVE FALSE
    OBVIOUS
  <2>1. PICK m \in bad : \A n \in bad : m <= n
    <3>1. bad \subseteq Nat
      BY <1>1
    <3> HIDE DEF bad
    <3> QED BY <3>1, LeastNatural
  <2>2. m \in 0 .. N /\ ~Best(r, first(m), acc[m])
    OBVIOUS
  <2>3. m # 0
    <3>1. first(0) = {}
      OBVIOUS
    <3> QED BY <1>4, <1>5, <2>2, <3>1
  <2>4. m - 1 \in 0 .. N /\ m - 1 \notin bad /\ m \in 1 .. N
    <3> HIDE DEF bad
    <3> QED BY <1>1, <2>1, <2>2, <2>3
  <2>5. Best(r, first(m - 1), acc[m - 1])
    BY <2>4
  <2>6. order[m] \in Tracked(r) /\ acc[m] = ScanStep(r, acc[m - 1], order[m])
    BY <1>1, <1>4, <2>4
  <2>7. first(m) = IF order[m] \in EvictableFrames(r) THEN first(m - 1) \cup {order[m]} ELSE first(m - 1)
    BY <1>1, <2>4
  <2>8. first(m - 1) \in SUBSET EvictableFrames(r)
    OBVIOUS
  <2> HIDE DEF first
  <2>9. Best(r, first(m), acc[m])
    BY <2>5, <2>6, <2>7, <2>8, ScanStepBest, ZenonT(60)
  <2> QED BY <2>2, <2>9
<1>7. first(N) = EvictableFrames(r)
  BY <1>1 DEF EvictableFrames
<1>8. Best(r, EvictableFrames(r), acc[N])
  <2>1. N \in 0 .. N /\ N \notin bad
    <3> HIDE DEF bad
    <3> QED BY <1>1, <1>6
  <2> QED BY <1>7, <2>1
<1> QED BY <1>3, <1>8, BestIsVictim

\* Timestamps stay below the bound of the model.
LEMMA TimeBounded == LRUSpec => [](lru.now <= MaxTime)
<1>1. LRUInit => lru.now <= MaxTime
  BY ReplacerAssumption DEF LRUInit, EmptyReplacer
<1>2. lru \in Replacers /\ lru.now <= MaxTime /\ [LRUNext]_lru => lru'.now <= MaxTime
  <2> SUFFICES ASSUME lru \in Replacers, lru.now <= MaxTime, LRUNext PROVE lru'.now <= MaxTime
    BY Zenon
  <2>1. CASE Evict
    <3>1. PICK f \in Frames : lru' = EraseEntry(lru, f)
      BY <2>1 DEF Evict, Victims, EvictableFrames, Tracked
    <3> QED BY <3>1, EraseEntryEffect
  <2>2. ASSUME NEW f \in Frames, Access(f) PROVE lru'.now <= MaxTime
    <3>1. lru.now < MaxTime /\ lru'.now = lru.now + 1 /\ lru.now \in Nat
      BY <2>2, RecordAccessEffect DEF Access, Replacers
    <3> QED BY <3>1, ReplacerAssumption
  <2>3. ASSUME NEW f \in Frames, Remove(f) PROVE lru'.now <= MaxTime
    BY <2>3, EraseEntryEffect DEF Remove
  <2>4. ASSUME NEW f \in Frames, NEW b \in BOOLEAN, MarkEvictable(f, b) PROVE lru'.now <= MaxTime
    BY <2>4, MarkKeeps DEF MarkEvictable
  <2> QED BY <2>1, <2>2, <2>3, <2>4 DEF LRUNext
<1>3. (lru.now <= MaxTime)' <=> lru'.now <= MaxTime
  OBVIOUS
<1> QED BY <1>1, <1>2, <1>3, OrderedAlways, PTL DEF LRUSpec

\* The scan of Evict finds the one LRU-K victim in whatever order the hash map
\* yields its entries, for any number of frames and any K: the choice does not
\* depend on the hash table.
THEOREM EvictScanCorrect == LRUSpec => []ScanFindsVictim
<1>1. lru \in Replacers /\ Ordered(lru) /\ lru.now <= MaxTime => ScanFindsVictim
  BY ScanIsVictim DEF ScanFindsVictim
<1> QED BY <1>1, OrderedAlways, TimeBounded, PTL
=============================================================================
