----------------------------- MODULE PageStore ------------------------------
(***************************************************************************)
(* What the buffer pool promises to the code above it: a store of pages    *)
(* that behaves as if it had no cache.  store[p] is the content a client   *)
(* sees; durable[p] is the content a restart would recover.  Pages become  *)
(* durable at any time and in any order; a crash returns to what is.       *)
(***************************************************************************)
EXTENDS Integers

CONSTANTS PageIds, Contents, Zero, Absent

VARIABLES store, durable

storeVars == <<store, durable>>

StoreInit ==
  /\ store = [p \in PageIds |-> Absent]
  /\ durable = [p \in PageIds |-> Absent]

\* The pages of S become durable with their current content; the pages below
\* them that were never written become zero pages of the file.
Persist(S) ==
  durable' = [p \in PageIds |->
                IF p \in S THEN store[p]
                ELSE IF durable[p] = Absent /\ \E q \in S : p < q THEN Zero
                ELSE durable[p]]

\* A new page is zero, and its id is in use nowhere.
Allocate(p) ==
  /\ store[p] = Absent /\ durable[p] = Absent
  /\ store' = [store EXCEPT ![p] = Zero]

Write(p, v) ==
  /\ store[p] # Absent
  /\ store' = [store EXCEPT ![p] = v]

Delete(p) ==
  /\ store[p] # Absent
  /\ store' = [store EXCEPT ![p] = Absent]

StoreStep ==
  \/ \E p \in PageIds : Allocate(p) \/ Delete(p) \/ \E v \in Contents : Write(p, v)
  \/ UNCHANGED store

Crash == store' = durable /\ UNCHANGED durable

StoreNext ==
  \/ \E S \in SUBSET {p \in PageIds : store[p] # Absent} : Persist(S) /\ StoreStep
  \/ Crash

StoreSpec == StoreInit /\ [][StoreNext]_storeVars
=============================================================================
