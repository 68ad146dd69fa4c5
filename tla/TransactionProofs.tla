-------------------------- MODULE TransactionProofs --------------------------
(***************************************************************************)
(* Proofs about Begin, Commit and Abort over the lock manager, for every   *)
(* set of transactions and RIDs and whatever the loops of Commit and Abort *)
(* do after they have erased the element their iterator points to          *)
(* (LoopOutcomes).                                                         *)
(***************************************************************************)
EXTENDS TransactionManager, LockManagerProofs

-----------------------------------------------------------------------------
(* The steps of the transaction manager as steps of the lock manager. *)

\* Commit and Abort change the state of a transaction that waits for nothing.
StateOnly(t) ==
  /\ Idle(t)
  /\ \E s \in {"COMMITTED", "ABORTED"} : state' = [state EXCEPT ![t] = s]
  /\ UNCHANGED <<shared, exclusive, requests, upgrading, waiting, asleep>>

\* The sets of t are emptied, its requests stay.
SetsOnly(t) ==
  /\ shared' = [shared EXCEPT ![t] = {}]
  /\ exclusive' = [exclusive EXCEPT ![t] = {}]
  /\ UNCHANGED <<state, requests, upgrading, waiting, asleep>>

\* Every step is one of these for the lock manager.
LEMMA TxnNextCases ==
  ASSUME LockTypeOK, [TxnNext]_txnManagerVars
  PROVE  \/ [LockNext]_lockVars
         \/ \E t \in Txns : StateOnly(t) /\ phase[t] = "active"
         \/ \E t \in Txns : SetsOnly(t) /\ phase[t] = "clearing"
<1>1. ASSUME NEW t \in Txns, Begin(t) PROVE UNCHANGED lockVars
  BY <1>1 DEF Begin
<1>2. ASSUME NEW t \in Txns, LockStep(t) PROVE LockNext
  BY <1>2 DEF LockStep, LockNext
<1>3. ASSUME NEW t \in Txns, Commit(t) \/ Abort(t) PROVE StateOnly(t) /\ phase[t] = "active"
  BY <1>3 DEF Commit, Abort, Finish, StateOnly
<1>4. ASSUME NEW t \in Txns, ReleaseShared(t) \/ ReleaseExclusive(t) PROVE LockNext \/ UNCHANGED lockVars
  <2>1. shared[t] \subseteq RIDs /\ exclusive[t] \subseteq RIDs
    BY DEF LockTypeOK
  <2>2. ASSUME NEW locks \in SUBSET RIDs, NEW after, ReleaseOne(t, locks, after) PROVE LockNext
    BY <2>2 DEF ReleaseOne, LockNext, ClientStep
  <2>3. ASSUME NEW locks, NEW after, LeaveLoop(t, locks, after) PROVE UNCHANGED lockVars
    BY <2>3 DEF LeaveLoop
  <2> QED BY <1>4, <2>1, <2>2, <2>3 DEF ReleaseShared, ReleaseExclusive
<1>5. ASSUME NEW t \in Txns, ClearSets(t) PROVE SetsOnly(t) /\ phase[t] = "clearing"
  BY <1>5 DEF ClearSets, SetsOnly
<1>6. CASE UNCHANGED txnManagerVars
  BY <1>6 DEF txnManagerVars, lockVars
<1> QED BY <1>1, <1>2, <1>3, <1>4, <1>5, <1>6 DEF TxnNext, FinishStep

\* A finished transaction keeps the queues of the lock manager in order.
LEMMA LockInvKept ==
  ASSUME LockInv, [TxnNext]_txnManagerVars
  PROVE  LockInv'
<1> USE DEF LockInv
<1>1. CASE [LockNext]_lockVars
  BY <1>1, TypeStep, WaitersQueuedStep, CompatibleStep
<1>2. ASSUME NEW t \in Txns, StateOnly(t) \/ SetsOnly(t) PROVE LockInv'
  <2>1. LockTypeOK'
    BY <1>2 DEF StateOnly, SetsOnly, LockTypeOK, States, Idle
  <2>2. GrantedCompatible'
    BY <1>2 DEF StateOnly, SetsOnly, GrantedCompatible, Granted, GrantedExclusive
  <2>3. ASSUME NEW u \in Txns PROVE WaiterQueued(u)'
    <3>1. WaiterQueued(u) /\ (Idle(u)' <=> Idle(u)) /\ waiting' = waiting /\ requests' = requests
      BY <1>2 DEF WaitersQueued, StateOnly, SetsOnly, Idle
    <3>2. ~Idle(u) => state'[u] = state[u]
      BY <1>2 DEF StateOnly, SetsOnly, LockTypeOK
    <3> QED BY <3>1, <3>2 DEF WaiterQueued, ReqIt
  <2> QED BY <2>1, <2>2, <2>3 DEF WaitersQueued
<1> QED BY <1>1, <1>2, TxnNextCases

\* The invariant of the lock manager survives transactions that end.
LEMMA LockInvInTxns == TxnSpec => []LockInv
<1>1. TxnInit => LockInv
  <2> SUFFICES ASSUME TxnInit PROVE LockInv
    OBVIOUS
  <2>1. LockTypeOK
    BY DEF TxnInit, LockInit, LockTypeOK, States, Idle
  <2>2. WaitersQueued
    BY DEF TxnInit, LockInit, WaitersQueued, WaiterQueued, Idle
  <2>3. GrantedCompatible
    BY DEF TxnInit, LockInit, GrantedCompatible, Granted, GrantedExclusive
  <2> QED BY <2>1, <2>2, <2>3 DEF LockInv
<1> QED BY <1>1, LockInvKept, PTL DEF TxnSpec

\* Locks exclude each other while transactions commit and abort, even when the
\* loops of Commit and Abort leave requests behind or end the process.
THEOREM LocksExcludeThroughout == TxnSpec => []GrantedCompatible
<1>1. LockInv => GrantedCompatible
  BY DEF LockInv
<1> QED BY <1>1, LockInvInTxns, PTL


-----------------------------------------------------------------------------
(* The outcome of a transaction. *)

Finished(t) == phase[t] \notin {"unborn", "active"}

\* A transaction that entered Commit or Abort waits for nothing and has its
\* outcome.
Decided(t) == Finished(t) => Idle(t) /\ state[t] \in {"COMMITTED", "ABORTED"}

OutcomeInv == phase \in [Txns -> Phases] /\ \A t \in Txns : Decided(t)

\* The loops of Commit and Abort call Unlock, which leaves an outcome alone.
LEMMA ReleaseKeepsOutcome ==
  ASSUME LockInv, OutcomeInv, NEW t \in Txns, Finished(t), NEW locks \in SUBSET RIDs, NEW after \in Phases,
         after \notin {"unborn", "active"},
         ReleaseOne(t, locks, after) \/ LeaveLoop(t, locks, after)
  PROVE  /\ state' = state /\ waiting' = waiting
         /\ \/ phase' = phase
            \/ phase' = [phase EXCEPT ![t] = after]
<1>1. phase \in [Txns -> Phases] /\ state \in [Txns -> States]
  BY DEF OutcomeInv, LockInv, LockTypeOK
<1>2. CASE LeaveLoop(t, locks, after)
  BY <1>2 DEF LeaveLoop, lockVars
<1>3. CASE ReleaseOne(t, locks, after)
  <2>1. PICK r \in locks, outcome \in LoopOutcomes :
          /\ Unlock(t, r)
          /\ phase' = [phase EXCEPT ![t] = IF outcome = "stop" THEN after ELSE @]
    BY <1>3 DEF ReleaseOne
  <2>2. StateAfterUnlock(state[t]) = state[t]
    BY DEF OutcomeInv, Decided, StateAfterUnlock
  <2>3. state' = state /\ waiting' = waiting
    BY <1>1, <2>1, <2>2 DEF Unlock
  <2>4. phase' = phase \/ phase' = [phase EXCEPT ![t] = after]
    BY <1>1, <2>1
  <2> QED BY <2>3, <2>4
<1> QED BY <1>2, <1>3

\* No step changes the outcome of a transaction, and every transaction that
\* leaves the active phase has one.
LEMMA OutcomeStep ==
  ASSUME LockInv, OutcomeInv, [TxnNext]_txnManagerVars
  PROVE  OutcomeInv' /\ \A u \in Txns : Finished(u) => state'[u] = state[u]
<1>1. /\ phase \in [Txns -> Phases] /\ state \in [Txns -> States] /\ LockTypeOK
      /\ shared \in [Txns -> SUBSET RIDs] /\ exclusive \in [Txns -> SUBSET RIDs]
  BY DEF OutcomeInv, LockInv, LockTypeOK
<1>2. ASSUME state' = state, waiting' = waiting, phase' \in [Txns -> Phases],
             \A u \in Txns : Finished(u)' => Finished(u)
      PROVE  OutcomeInv' /\ \A u \in Txns : Finished(u) => state'[u] = state[u]
  BY <1>2 DEF OutcomeInv, Decided, Idle
<1>3. ASSUME NEW t \in Txns, Begin(t) PROVE OutcomeInv' /\ \A u \in Txns : Finished(u) => state'[u] = state[u]
  BY <1>1, <1>2, <1>3 DEF Begin, lockVars, Finished, Phases
<1>4. ASSUME NEW t \in Txns, LockStep(t) PROVE OutcomeInv' /\ \A u \in Txns : Finished(u) => state'[u] = state[u]
  <2>1. TxnStep(t) /\ phase' = phase /\ ~Finished(t)
    BY <1>4 DEF LockStep, TxnStep, Finished
  <2>2. OthersKept(t)
    BY <1>1, <2>1, StepIsOwn
  <2>3. ASSUME NEW u \in Txns, Finished(u) PROVE state'[u] = state[u] /\ (Idle(u)' <=> Idle(u))
    BY <2>1, <2>2, <2>3 DEF OthersKept, Idle
  <2>4. \A u \in Txns : Finished(u)' <=> Finished(u)
    BY <2>1 DEF Finished
  <2> QED BY <1>1, <2>1, <2>3, <2>4 DEF OutcomeInv, Decided
<1>5. ASSUME NEW t \in Txns, Commit(t) \/ Abort(t)
      PROVE  OutcomeInv' /\ \A u \in Txns : Finished(u) => state'[u] = state[u]
  <2>1. PICK final \in {"COMMITTED", "ABORTED"} :
          /\ phase[t] = "active" /\ Idle(t) /\ waiting' = waiting
          /\ state' = [state EXCEPT ![t] = final] /\ phase' = [phase EXCEPT ![t] = "shared_loop"]
    BY <1>5 DEF Commit, Abort, Finish
  <2>2. ~Finished(t) /\ phase' \in [Txns -> Phases] /\ \A u \in Txns \ {t} : state'[u] = state[u] /\ phase'[u] = phase[u]
    BY <1>1, <2>1 DEF Finished, Phases
  <2>3. Decided(t)'
    BY <1>1, <2>1 DEF Decided, Idle
  <2>4. ASSUME NEW u \in Txns \ {t} PROVE Decided(u)'
    BY <2>1, <2>2 DEF OutcomeInv, Decided, Finished, Idle
  <2> QED BY <2>2, <2>3, <2>4 DEF OutcomeInv
<1>6. ASSUME NEW t \in Txns, ReleaseShared(t) \/ ReleaseExclusive(t)
      PROVE  OutcomeInv' /\ \A u \in Txns : Finished(u) => state'[u] = state[u]
  <2>1. PICK locks \in SUBSET RIDs, after \in {"exclusive_loop", "clearing"} :
          /\ ReleaseOne(t, locks, after) \/ LeaveLoop(t, locks, after)
          /\ phase[t] \in {"shared_loop", "exclusive_loop"}
    BY <1>1, <1>6 DEF ReleaseShared, ReleaseExclusive
  <2>2. Finished(t) /\ after \in Phases
    BY <2>1 DEF Finished, Phases
  <2>3. /\ state' = state /\ waiting' = waiting
        /\ phase' = phase \/ phase' = [phase EXCEPT ![t] = after]
    BY <2>1, <2>2, ReleaseKeepsOutcome
  <2>4. phase' \in [Txns -> Phases] /\ \A u \in Txns : Finished(u)' => Finished(u)
    BY <1>1, <2>2, <2>3 DEF Finished
  <2> QED BY <1>2, <2>3, <2>4
<1>7. ASSUME NEW t \in Txns, ClearSets(t) PROVE OutcomeInv' /\ \A u \in Txns : Finished(u) => state'[u] = state[u]
  <2>1. phase' \in [Txns -> Phases] /\ \A u \in Txns : Finished(u)' => Finished(u)
    BY <1>1, <1>7 DEF ClearSets, Finished, Phases
  <2> QED BY <1>2, <1>7, <2>1 DEF ClearSets
<1>8. CASE UNCHANGED txnManagerVars
  BY <1>1, <1>2, <1>8 DEF txnManagerVars, Finished
<1> QED BY <1>3, <1>4, <1>5, <1>6, <1>7, <1>8 DEF TxnNext, FinishStep

\* Both invariants together.
LEMMA OutcomeInvariant == TxnSpec => [](LockInv /\ OutcomeInv)
<1>1. TxnInit => OutcomeInv
  BY DEF TxnInit, OutcomeInv, Decided, Finished, Phases
<1>2. LockInv /\ OutcomeInv /\ [TxnNext]_txnManagerVars => OutcomeInv'
  BY OutcomeStep
<1> QED BY <1>1, <1>2, LockInvInTxns, PTL DEF TxnSpec

\* The outcome of a transaction is final although Commit and Abort release its
\* locks through Unlock, whatever their loops do.
THEOREM OutcomesAreFinal == TxnSpec => OutcomeFinal
<1>1. LockInv /\ OutcomeInv /\ [TxnNext]_txnManagerVars
        => [\A t \in Txns : phase[t] \notin {"unborn", "active"} => state'[t] = state[t]]_txnManagerVars
  BY OutcomeStep DEF Finished
<1> QED BY <1>1, OutcomeInvariant, PTL DEF TxnSpec, OutcomeFinal

-----------------------------------------------------------------------------
(* Lock sets, flags and wake-ups while transactions end. *)

\* The sets stay backed by the queues: a transaction that ends stops growing, and
\* sets that are cleared, with requests left behind or not, claim nothing.
LEMMA BackedKept ==
  ASSUME BackedInv, OutcomeInv, [TxnNext]_txnManagerVars
  PROVE  AllBacked'
<1>1. LockTypeOK /\ LockInv /\ AllBacked
  BY DEF BackedInv, LockInv
<1>2. CASE [LockNext]_lockVars
  BY <1>1, <1>2, AllBackedStep
<1>3. ASSUME NEW t \in Txns,
             StateOnly(t) \/ (SetsOnly(t) /\ phase[t] = "clearing")
      PROVE  AllBacked'
  <2>1. requests' = requests /\ waiting' = waiting
    BY <1>3 DEF StateOnly, SetsOnly
  <2>2. OthersKept(t)
    BY <1>1, <1>3 DEF StateOnly, SetsOnly, OthersKept, LockTypeOK
  <2>3. state'[t] # "GROWING" /\ Idle(t)
    BY <1>1, <1>3 DEF StateOnly, SetsOnly, OutcomeInv, Decided, Finished, LockTypeOK
  <2>4. shared'[t] \subseteq shared[t] /\ exclusive'[t] \subseteq exclusive[t]
    BY <1>1, <1>3 DEF StateOnly, SetsOnly, LockTypeOK
  <2>5. ASSUME NEW r \in RIDs PROVE Backed(t, r)'
    <3>1. /\ Backed(t, r) /\ ~WaitsOn(t, r) /\ ~WaitsOn(t, r)'
          /\ (Granted(t, r)' <=> Granted(t, r)) /\ (GrantedExclusive(t, r)' <=> GrantedExclusive(t, r))
      BY <1>1, <2>1, <2>3 DEF AllBacked, WaitsOn, Idle, Granted, GrantedExclusive
    <3>2. OthersGranted(t, r)'
      BY <2>1, <3>1 DEF Backed, OthersGranted
    <3> QED BY <2>3, <2>4, <3>1, <3>2 DEF Backed, SetsComplete, Upgrader
  <2>6. ASSUME NEW u \in Txns \ {t}, NEW r \in RIDs PROVE Backed(u, r)'
    BY <1>1, <2>2, <2>6, OthersBacked
  <2> QED BY <2>5, <2>6 DEF AllBacked
<1> QED BY <1>1, <1>2, <1>3, TxnNextCases

EndInv == BackedInv /\ OutcomeInv

\* The inductive invariant of transactions that end.
LEMMA EndInvariant == TxnSpec => []EndInv
<1>1. TxnInit /\ LockInv /\ OutcomeInv => EndInv
  BY AllBackedInit DEF TxnInit, EndInv, BackedInv
<1>2. EndInv /\ [TxnNext]_txnManagerVars /\ LockInv' /\ OutcomeInv' => EndInv'
  BY BackedKept DEF EndInv, BackedInv
<1> QED BY <1>1, <1>2, OutcomeInvariant, PTL DEF TxnSpec

\* A transaction never believes to hold a lock that the queues do not grant it,
\* even when the loops of Commit and Abort leave requests behind.
THEOREM BeliefsHoldThroughout == TxnSpec => []HeldLocksGranted
<1>1. EndInv => HeldLocksGranted
  BY BackedSuffices DEF EndInv
<1> QED BY <1>1, EndInvariant, PTL

\* upgrading_ is exact while transactions commit and abort, whatever their loops
\* do.
THEOREM FlagsExactThroughout == TxnSpec => []UpgradeFlagExact
<1>1. EndInv /\ AllFlagsExact /\ [TxnNext]_txnManagerVars => AllFlagsExact'
  <2> SUFFICES ASSUME EndInv, AllFlagsExact, [TxnNext]_txnManagerVars PROVE AllFlagsExact'
    OBVIOUS
  <2>1. CASE [LockNext]_lockVars
    BY <2>1, FlagsExactStep DEF EndInv
  <2>2. ASSUME NEW t \in Txns, StateOnly(t) \/ SetsOnly(t) PROVE AllFlagsExact'
    BY <2>2 DEF StateOnly, SetsOnly, AllFlagsExact, FlagExact, Upgrader, WaitsOn, Idle
  <2>3. LockTypeOK
    BY DEF EndInv, BackedInv, LockInv
  <2> QED BY <2>1, <2>2, <2>3, TxnNextCases
<1>2. TxnInit => LockInit
  BY DEF TxnInit
<1> QED BY <1>1, <1>2, FlagsExactFacts, EndInvariant, PTL DEF TxnSpec

\* Transactions keep the two phases while others, and they themselves, commit
\* and abort.
THEOREM TwoPhaseThroughout == TxnSpec => TwoPhase
<1>1. EndInv /\ [TxnNext]_txnManagerVars => [\A t \in Txns : NoAcquire(t)]_lockVars
  <2> SUFFICES ASSUME EndInv, [TxnNext]_txnManagerVars
               PROVE  (\A u \in Txns : NoAcquire(u)) \/ UNCHANGED lockVars
    OBVIOUS
  <2>1. LockInv /\ LockTypeOK
    BY DEF EndInv, BackedInv, LockInv
  <2>2. CASE LockNext
    BY <2>1, <2>2, NoAcquireStep
  <2>3. ASSUME NEW t \in Txns, StateOnly(t) \/ SetsOnly(t) PROVE \A u \in Txns : NoAcquire(u)
    BY <2>1, <2>3 DEF StateOnly, SetsOnly, NoAcquire, LockTypeOK
  <2> QED BY <2>1, <2>2, <2>3, TxnNextCases
<1> QED BY <1>1, EndInvariant, PTL DEF TxnSpec, TwoPhase, NoAcquire

\* No wake-up is lost when transactions commit and abort, whatever their loops
\* do: a lock that is released is released through Unlock, which notifies, and a
\* request that is left behind keeps its waiters blocked.
THEOREM EndLosesNoWakeup ==
  ASSUME DirectExclusive = FALSE
  PROVE  TxnSpec => []NoLostWakeup
<1>1. TxnInit => NoLostWakeup
  BY DEF TxnInit, LockInit, NoLostWakeup
<1>2. TxnInit /\ LockInv => WakeInv
  BY WakeInvInit DEF TxnInit
<1>3. EndInv /\ WakeInv /\ NoLostWakeup /\ [TxnNext]_txnManagerVars /\ EndInv' => WakeInv' /\ NoLostWakeup'
  <2> SUFFICES ASSUME EndInv, WakeInv, NoLostWakeup, [TxnNext]_txnManagerVars, EndInv'
               PROVE  WakeInv' /\ NoLostWakeup'
    OBVIOUS
  <2>1. CASE [LockNext]_lockVars
    BY <2>1, WakeInvStep, WakeupStep
  <2>2. ASSUME NEW t \in Txns, StateOnly(t) \/ SetsOnly(t) PROVE WakeInv' /\ NoLostWakeup'
    <3>1. asleep' = asleep /\ waiting' = waiting /\ requests' = requests
      BY <2>2 DEF StateOnly, SetsOnly
    <3>2. ASSUME NEW u \in asleep PROVE state'[u] = state[u]
      <4>1. u \in Txns /\ ~Idle(u) /\ state \in [Txns -> States]
        BY DEF EndInv, BackedInv, LockInv, LockTypeOK
      <4> QED BY <2>2, <4>1 DEF StateOnly, SetsOnly
    <3>3. NoLostWakeup'
      BY <3>1, <3>2 DEF NoLostWakeup, Blocked, Granted, GrantedExclusive
    <3>4. Single'
      BY <3>1 DEF WakeInv, Single
    <3> QED BY <3>3, <3>4 DEF EndInv, WakeInv
  <2>3. LockTypeOK
    BY DEF EndInv, BackedInv, LockInv
  <2> QED BY <2>1, <2>2, <2>3, TxnNextCases
<1> QED BY <1>1, <1>2, <1>3, EndInvariant, OutcomeInvariant, PTL DEF TxnSpec
=============================================================================
