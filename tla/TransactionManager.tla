------------------------- MODULE TransactionManager -------------------------
(***************************************************************************)
(* Begin, Commit and Abort (concurrency/transaction_manager.cpp) over the  *)
(* lock manager.                                                           *)
(*                                                                         *)
(* Commit and Abort walk a lock set with a range-for whose body calls      *)
(* Unlock, and Unlock erases the current element from that same set: the   *)
(* loop then increments an iterator into freed memory.  What follows is    *)
(* undefined; LoopOutcomes lists what a build can do: find the link of the *)
(* freed node intact ("next"), find a null link and leave the loop         *)
(* ("stop"), or follow a wild pointer ("crash").                           *)
(***************************************************************************)
EXTENDS LockManager

CONSTANT LoopOutcomes

ASSUME TxnAssumption == LoopOutcomes \subseteq {"next", "stop", "crash"}

VARIABLES phase,   \* where the thread of the transaction is
          crashed  \* the process has died

txnManagerVars == <<state, shared, exclusive, requests, upgrading, waiting, asleep, phase, crashed>>

Phases == {"unborn", "active", "shared_loop", "exclusive_loop", "clearing", "ended"}

TxnInit ==
  /\ LockInit
  /\ phase = [t \in Txns |-> "unborn"]
  /\ crashed = FALSE

\* Transactions are created GROWING, with no locks.
Begin(t) ==
  /\ phase[t] = "unborn"
  /\ phase' = [phase EXCEPT ![t] = "active"]
  /\ UNCHANGED <<lockVars, crashed>>

\* Commit and Abort set the state first, then release.
Finish(t, final) ==
  /\ phase[t] = "active" /\ Idle(t)
  /\ state' = [state EXCEPT ![t] = final]
  /\ phase' = [phase EXCEPT ![t] = "shared_loop"]
  /\ UNCHANGED <<shared, exclusive, requests, upgrading, waiting, asleep, crashed>>

Commit(t) == Finish(t, "COMMITTED")

Abort(t) == Finish(t, "ABORTED")

\* One iteration over the set locks, then the increment of the iterator.
ReleaseOne(t, locks, after) ==
  \E r \in locks, outcome \in LoopOutcomes :
    /\ Unlock(t, r)
    /\ phase' = [phase EXCEPT ![t] = IF outcome = "stop" THEN after ELSE @]
    /\ crashed' = (outcome = "crash")

LeaveLoop(t, locks, after) ==
  /\ locks = {}
  /\ phase' = [phase EXCEPT ![t] = after]
  /\ UNCHANGED <<lockVars, crashed>>

ReleaseShared(t) ==
  /\ phase[t] = "shared_loop"
  /\ ReleaseOne(t, shared[t], "exclusive_loop") \/ LeaveLoop(t, shared[t], "exclusive_loop")

\* Mistake: only the shared locks are released.
ReleaseExclusiveSkipped(t) ==
  /\ phase[t] = "exclusive_loop"
  /\ LeaveLoop(t, {}, "clearing")

ReleaseExclusive(t) ==
  /\ phase[t] = "exclusive_loop"
  /\ ReleaseOne(t, exclusive[t], "clearing") \/ LeaveLoop(t, exclusive[t], "clearing")

\* Both sets are cleared whatever the loops did.
ClearSets(t) ==
  /\ phase[t] = "clearing"
  /\ shared' = [shared EXCEPT ![t] = {}]
  /\ exclusive' = [exclusive EXCEPT ![t] = {}]
  /\ phase' = [phase EXCEPT ![t] = "ended"]
  /\ UNCHANGED <<state, requests, upgrading, waiting, asleep, crashed>>

FinishStep(t) == ReleaseShared(t) \/ ReleaseExclusive(t) \/ ClearSets(t)

LockStep(t) ==
  /\ phase[t] = "active"
  /\ ClientStep(t) \/ Wake(t) \/ SpuriousWakeup(t) \/ ExternalAbort(t)
  /\ UNCHANGED <<phase, crashed>>

TxnNext ==
  /\ ~crashed
  /\ \E t \in Txns : Begin(t) \/ LockStep(t) \/ Commit(t) \/ Abort(t) \/ FinishStep(t)

TxnSpec == TxnInit /\ [][TxnNext]_txnManagerVars

\* Notified threads run, transactions that can go on eventually commit or
\* abort, and Commit and Abort run to their end.
TxnFairness ==
  \A t \in Txns :
    /\ WF_txnManagerVars(~crashed /\ Wake(t) /\ UNCHANGED <<phase, crashed>>)
    /\ WF_txnManagerVars(~crashed /\ (Commit(t) \/ Abort(t)))
    /\ WF_txnManagerVars(~crashed /\ FinishStep(t))

FairTxnSpec == TxnSpec /\ TxnFairness

-----------------------------------------------------------------------------
(* Properties. *)

\* Commit and Abort release all locks: a transaction that ended has no request
\* left in any queue, so it blocks nobody.
EndedHoldsNothing ==
  \A t \in Txns : phase[t] = "ended" => \A r \in RIDs : requests[r][t] = <<>>

\* The outcome of a transaction is final although releasing its locks goes
\* through Unlock, which moves growing transactions to SHRINKING.
OutcomeFinal ==
  [][\A t \in Txns : phase[t] \notin {"unborn", "active"} => state'[t] = state[t]]_txnManagerVars

HoldsUp(u, kind, r) == IF kind = "LockShared" THEN GrantedExclusive(u, r) ELSE Granted(u, r)

\* t waits in a set of transactions that all wait, each for a lock of another one.
Deadlocked(t) ==
  \E members \in SUBSET {u \in Txns : ~Idle(u)} :
    /\ t \in members
    /\ \A u \in members : \E v \in members \ {u} : HoldsUp(v, waiting[u].kind, waiting[u].rid)

\* Every transaction that began ends, whatever it waits for on the way, or gets
\* into a deadlock: nothing else keeps a thread in the waits of the lock manager
\* (lock_manager.cpp:25), and nothing detects or resolves a deadlock.
TransactionsEnd == \A t \in Txns : phase[t] = "active" ~> (phase[t] = "ended" \/ Deadlocked(t))
=============================================================================
