------------------------------ MODULE LRUKScan ------------------------------
(***************************************************************************)
(* The loop of LRUKReplacer::Evict, which scans the hash map entries_ once *)
(* and keeps the best candidate so far, checked against the declarative    *)
(* LRU-K choice Victims for every order in which the map may be iterated.  *)
(***************************************************************************)
EXTENDS LRUKReplacer, Functions

\* Larger than every timestamp, like numeric_limits<size_t>::max().
NoTimestamp == MaxTime

ScanStart ==
  [victim |-> NoFrame, min_timestamp |-> NoTimestamp, max_k_distance |-> 0, found_inf |-> FALSE]

\* Mistake: a finite distance may displace an infinite one.
ScanStepIgnoringInf(r, acc, f) ==
  IF f \notin EvictableFrames(r) THEN acc
  ELSE IF Infinite(r, f)
  THEN IF Head(r.history[f]) < acc.min_timestamp
       THEN [acc EXCEPT !.found_inf = TRUE, !.min_timestamp = Head(r.history[f]), !.victim = f]
       ELSE [acc EXCEPT !.found_inf = TRUE]
  ELSE IF Distance(r, f) > acc.max_k_distance
  THEN [acc EXCEPT !.max_k_distance = Distance(r, f), !.victim = f]
  ELSE acc

\* One iteration of the loop, on entry f.
ScanStep(r, acc, f) ==
  IF f \notin EvictableFrames(r) THEN acc
  ELSE IF Infinite(r, f)
  THEN IF Head(r.history[f]) < acc.min_timestamp
       THEN [acc EXCEPT !.found_inf = TRUE, !.min_timestamp = Head(r.history[f]), !.victim = f]
       ELSE [acc EXCEPT !.found_inf = TRUE]
  ELSE IF ~acc.found_inf /\ Distance(r, f) > acc.max_k_distance
  THEN [acc EXCEPT !.max_k_distance = Distance(r, f), !.victim = f]
  ELSE acc

\* The orders in which the map may yield its entries.
Orders(r) == Bijection(1 .. Cardinality(Tracked(r)), Tracked(r))

\* The whole loop when the map yields its entries in the given order.
Scan(r, order) ==
  LET acc[n \in 0 .. Len(order)] ==
        IF n = 0 THEN ScanStart ELSE ScanStep(r, acc[n - 1], order[n])
  IN  acc[Len(order)].victim

\* Whatever the iteration order of the hash map, the scan of Evict returns the
\* LRU-K victim, of which there is only one, and -1 exactly when no frame is
\* evictable.
ScanFindsVictim ==
  \A order \in Orders(lru) :
    IF EvictableFrames(lru) = {}
    THEN Scan(lru, order) = NoFrame
    ELSE Victims(lru) = {Scan(lru, order)}
=============================================================================
