------------------------- MODULE LockManagerProofs --------------------------
(***************************************************************************)
(* Proofs about the lock manager, for every set of transactions and RIDs   *)
(* and for clients that make any call the lock manager accepts; only the   *)
(* last section, on lost wake-ups, is about clients that upgrade a shared  *)
(* lock through LockUpgrade alone.                                         *)
(***************************************************************************)
EXTENDS LockManager, SequenceTheorems, TLAPS

-----------------------------------------------------------------------------
(* Type correctness. *)

\* A recorded wait is not the value that stands for no wait.
LEMMA WaitIsNotIdle ==
  ASSUME NEW kind \in Kinds, NEW r \in RIDs
  PROVE  [kind |-> kind, rid |-> r] \in Wait /\ [kind |-> kind, rid |-> r] # NotWaiting
<1>1. [kind |-> kind, rid |-> r].kind # NotWaiting.kind
  BY DEF Kinds, NotWaiting
<1> QED BY <1>1 DEF Wait

\* Overwriting a function outside its domain changes nothing.
LEMMA ExceptOutside ==
  ASSUME NEW D, NEW S, NEW f \in [D -> S], NEW k, k \notin D, NEW v
  PROVE  [f EXCEPT ![k] = v] = f
OBVIOUS

\* Granting a request leaves a request.
LEMMA GrantType ==
  ASSUME NEW req \in LockRequest
  PROVE  Grant(req) \in LockRequest /\ Grant(req).lock_mode = req.lock_mode /\ Grant(req).granted
BY DEF Grant, LockRequest

\* Overwriting one request of a queue leaves a queue of requests.
LEMMA ReplaceAtType ==
  ASSUME NEW q \in Seq(LockRequest), NEW k \in Nat, NEW req \in LockRequest
  PROVE  /\ [q EXCEPT ![k] = req] \in Seq(LockRequest)
         /\ Len([q EXCEPT ![k] = req]) = Len(q)
<1> DEFINE p == [q EXCEPT ![k] = req]
<1>1. Len(q) \in Nat /\ q \in [1 .. Len(q) -> LockRequest]
  OBVIOUS
<1>2. p \in [1 .. Len(q) -> LockRequest]
  BY <1>1
<1> HIDE DEF p
<1>3. p \in Seq(LockRequest) /\ Len(p) = Len(q)
  BY <1>1, <1>2
<1> QED BY <1>3 DEF p

\* Erasing one request from a queue leaves a queue of requests.
LEMMA RemoveAtType ==
  ASSUME NEW q \in Seq(LockRequest), NEW k \in Nat
  PROVE  RemoveAt(q, k) \in Seq(LockRequest)
<1>1. Len(q) \in Nat /\ \A i \in 1 .. Len(q) - 1 : q[IF i < k THEN i ELSE i + 1] \in LockRequest
  OBVIOUS
<1>2. CASE Len(q) = 0
  BY <1>2 DEF RemoveAt
<1>3. CASE Len(q) # 0
  <2>1. Len(q) - 1 \in Nat BY <1>1, <1>3
  <2>2. RemoveAt(q, k) \in [1 .. Len(q) - 1 -> LockRequest] BY <1>1 DEF RemoveAt
  <2> QED BY <2>1, <2>2
<1> QED BY <1>2, <1>3

\* A thread that is not idle waits on a RID, in one of the three calls.
LEMMA WaitingType ==
  ASSUME LockTypeOK, NEW t \in Txns, ~Idle(t)
  PROVE  /\ waiting[t] \in Wait
         /\ waiting[t].rid \in RIDs /\ waiting[t].kind \in Kinds
         /\ ReqIt(t, waiting[t].kind, waiting[t].rid) \in Nat
<1>1. waiting[t] \in Wait
  BY DEF LockTypeOK, Idle
<1>2. waiting[t].rid \in RIDs /\ waiting[t].kind \in Kinds
  BY <1>1 DEF Wait
<1>3. requests[waiting[t].rid][t] \in Seq(LockRequest)
  BY <1>2 DEF LockTypeOK
<1> QED BY <1>1, <1>2, <1>3 DEF ReqIt

\* Going to sleep records a wait and keeps the types.
LEMMA SleepType ==
  ASSUME LockTypeOK, NEW t \in Txns, NEW r \in RIDs, NEW kind \in Kinds, Sleep(t, kind, r)
  PROVE  /\ waiting' \in [Txns -> Wait \cup {NotWaiting}]
         /\ asleep' \in SUBSET {u \in Txns : ~Idle(u)'}
<1> DEFINE w == [kind |-> kind, rid |-> r]
<1>1. w \in Wait /\ w # NotWaiting
  BY WaitIsNotIdle
<1>2. waiting' = [waiting EXCEPT ![t] = w] /\ asleep' = asleep \cup {t}
  BY DEF Sleep
<1> HIDE DEF w
<1> QED BY <1>1, <1>2 DEF LockTypeOK, Idle

\* Every step of the lock manager keeps the types.
LEMMA TypeStep == LockTypeOK /\ [LockNext]_lockVars => LockTypeOK'
<1> SUFFICES ASSUME LockTypeOK, [LockNext]_lockVars PROVE LockTypeOK'
  OBVIOUS
<1> USE DEF LockTypeOK, States, Idle
<1>1. ASSUME NEW t \in Txns, LockWhileShrinking(t) PROVE LockTypeOK'
  BY <1>1 DEF LockWhileShrinking
<1>2. ASSUME NEW t \in Txns, NEW r \in RIDs, LockShared(t, r) PROVE LockTypeOK'
  <2> DEFINE blocked == Blocked(t, "LockShared", r)
             req == [lock_mode |-> "SHARED", granted |-> ~blocked]
  <2>1. req \in LockRequest
    BY DEF LockRequest, Modes
  <2>2. requests' \in [RIDs -> [Txns -> Seq(LockRequest)]]
    <3>1. requests' = [requests EXCEPT ![r][t] = Append(@, req)]
      BY <1>2 DEF LockShared
    <3> HIDE DEF req
    <3> QED BY <2>1, <3>1
  <2>3. CASE blocked
    <3>1. Sleep(t, "LockShared", r) /\ UNCHANGED shared
      BY <1>2, <2>3 DEF LockShared
    <3> QED BY <1>2, <2>2, <3>1, SleepType DEF LockShared, Kinds
  <2>4. CASE ~blocked
    <3>1. /\ shared' = [shared EXCEPT ![t] = shared[t] \cup {r}]
          /\ UNCHANGED <<state, exclusive, upgrading, waiting, asleep>>
      BY <1>2, <2>4 DEF LockShared
    <3> HIDE DEF blocked
    <3> QED BY <2>2, <3>1
  <2> QED BY <2>3, <2>4
<1>3. ASSUME NEW t \in Txns, NEW r \in RIDs, LockExclusive(t, r) PROVE LockTypeOK'
  <2> DEFINE blocked == Blocked(t, "LockExclusive", r)
             req == [lock_mode |-> "EXCLUSIVE", granted |-> ~blocked]
  <2>1. req \in LockRequest
    BY DEF LockRequest, Modes
  <2>2. requests' \in [RIDs -> [Txns -> Seq(LockRequest)]]
    <3>1. requests' = [requests EXCEPT ![r][t] = Append(@, req)]
      BY <1>3 DEF LockExclusive
    <3> HIDE DEF req
    <3> QED BY <2>1, <3>1
  <2>3. CASE blocked
    <3>1. Sleep(t, "LockExclusive", r) /\ UNCHANGED exclusive
      BY <1>3, <2>3 DEF LockExclusive
    <3> QED BY <1>3, <2>2, <3>1, SleepType DEF LockExclusive, Kinds
  <2>4. CASE ~blocked
    <3>1. /\ exclusive' = [exclusive EXCEPT ![t] = exclusive[t] \cup {r}]
          /\ UNCHANGED <<state, shared, upgrading, waiting, asleep>>
      BY <1>3, <2>4 DEF LockExclusive
    <3> HIDE DEF blocked
    <3> QED BY <2>2, <3>1
  <2> QED BY <2>3, <2>4
<1>4. ASSUME NEW t \in Txns, NEW r \in RIDs, LockUpgrade(t, r) PROVE LockTypeOK'
  <2> DEFINE blocked == Blocked(t, "LockUpgrade", r)
             req == [lock_mode |-> "EXCLUSIVE", granted |-> ~blocked]
  <2>1. req \in LockRequest /\ blocked \in BOOLEAN
    BY DEF LockRequest, Modes, Blocked
  <2>2. requests' \in [RIDs -> [Txns -> Seq(LockRequest)]]
    <3>1. requests' = [requests EXCEPT ![r][t] = [requests[r][t] EXCEPT ![1] = req]]
      BY <1>4 DEF LockUpgrade
    <3>2. [requests[r][t] EXCEPT ![1] = req] \in Seq(LockRequest)
      BY <2>1, ReplaceAtType
    <3> HIDE DEF req
    <3> QED BY <3>1, <3>2
  <2>3. upgrading' \in [RIDs -> BOOLEAN]
    <3>1. upgrading' = [upgrading EXCEPT ![r] = blocked]
      BY <1>4 DEF LockUpgrade
    <3> HIDE DEF blocked
    <3> QED BY <2>1, <3>1
  <2>4. CASE blocked
    <3>1. Sleep(t, "LockUpgrade", r) /\ UNCHANGED <<shared, exclusive, state>>
      BY <1>4, <2>4 DEF LockUpgrade
    <3> QED BY <2>2, <2>3, <3>1, SleepType DEF Kinds
  <2>5. CASE ~blocked
    <3>1. /\ shared' = [shared EXCEPT ![t] = shared[t] \ {r}]
          /\ exclusive' = [exclusive EXCEPT ![t] = exclusive[t] \cup {r}]
          /\ UNCHANGED <<state, waiting, asleep>>
      BY <1>4, <2>5 DEF LockUpgrade
    <3> HIDE DEF blocked
    <3> QED BY <2>2, <2>3, <3>1
  <2> QED BY <2>4, <2>5
<1>5. ASSUME NEW t \in Txns, NEW r \in RIDs, UpgradeConflict(t, r) PROVE LockTypeOK'
  BY <1>5 DEF UpgradeConflict
<1>6. ASSUME NEW t \in Txns, NEW r \in RIDs, Unlock(t, r) PROVE LockTypeOK'
  BY <1>6 DEF Unlock, StateAfterUnlock, NotifyAll
<1>7. ASSUME NEW t \in Txns, WakeBlocked(t) PROVE LockTypeOK'
  BY <1>7 DEF WakeBlocked, Notified
<1>8. ASSUME NEW t \in Txns, WakeGranted(t) PROVE LockTypeOK'
  <2> DEFINE r == waiting[t].rid
             kind == waiting[t].kind
             k == ReqIt(t, kind, r)
             q == [requests[r][t] EXCEPT ![k] = Grant(@)]
  <2>1. r \in RIDs /\ kind \in Kinds /\ k \in Nat
    BY <1>8, WaitingType DEF WakeGranted, Notified
  <2>2. requests[r][t] \in Seq(LockRequest)
    BY <2>1
  <2>3. q \in Seq(LockRequest)
    <3>1. CASE k \in 1 .. Len(requests[r][t])
      <4>1. Grant(requests[r][t][k]) \in LockRequest
        BY <2>2, <3>1, GrantType
      <4> QED BY <2>1, <2>2, <4>1, ReplaceAtType
    <3>2. CASE k \notin 1 .. Len(requests[r][t])
      <4>1. requests[r][t] \in [1 .. Len(requests[r][t]) -> LockRequest]
        BY <2>2
      <4>2. q = requests[r][t]
        BY <3>2, <4>1, ExceptOutside, Zenon
      <4> QED BY <2>2, <4>2
    <3> QED BY <3>1, <3>2
  <2>4. requests' \in [RIDs -> [Txns -> Seq(LockRequest)]]
    <3>1. requests' = [requests EXCEPT ![r][t] = q]
      BY <1>8 DEF WakeGranted
    <3> QED BY <2>1, <2>3, <3>1
  <2>5. /\ shared' \in [Txns -> SUBSET RIDs] /\ exclusive' \in [Txns -> SUBSET RIDs]
        /\ upgrading' \in [RIDs -> BOOLEAN]
    BY <1>8, <2>1 DEF WakeGranted, FlagAfterWait, Kinds
  <2>6. waiting' \in [Txns -> Wait \cup {NotWaiting}] /\ asleep' \in SUBSET {u \in Txns : ~Idle(u)'}
    BY <1>8 DEF WakeGranted, Notified
  <2> QED BY <1>8, <2>4, <2>5, <2>6 DEF WakeGranted
<1>9. ASSUME NEW t \in Txns, WakeAborted(t) PROVE LockTypeOK'
  <2> DEFINE r == waiting[t].rid
             kind == waiting[t].kind
             q == RemoveAt(requests[r][t], ReqIt(t, kind, r))
  <2>1. r \in RIDs /\ kind \in Kinds /\ ReqIt(t, kind, r) \in Nat
    BY <1>9, WaitingType DEF WakeAborted, Notified
  <2>2. q \in Seq(LockRequest)
    BY <2>1, RemoveAtType
  <2>3. requests' \in [RIDs -> [Txns -> Seq(LockRequest)]]
    <3>1. requests' = [requests EXCEPT ![r][t] = q]
      BY <1>9 DEF WakeAborted
    <3> HIDE DEF q
    <3> QED BY <2>1, <2>2, <3>1
  <2>4. /\ shared' \in [Txns -> SUBSET RIDs] /\ upgrading' \in [RIDs -> BOOLEAN]
        /\ waiting' \in [Txns -> Wait \cup {NotWaiting}]
        /\ asleep' \in SUBSET {u \in Txns : ~Idle(u)'}
    BY <1>9, <2>1 DEF WakeAborted, Notified, NotifyAll, FlagAfterWait
  <2> QED BY <1>9, <2>3, <2>4 DEF WakeAborted
<1>10. ASSUME NEW t \in Txns, SpuriousWakeup(t) PROVE LockTypeOK'
  BY <1>10 DEF SpuriousWakeup
<1>11. ASSUME NEW t \in Txns, ExternalAbort(t) PROVE LockTypeOK'
  BY <1>11 DEF ExternalAbort
<1>12. CASE UNCHANGED lockVars
  BY <1>12 DEF lockVars
<1> QED
  BY <1>1, <1>2, <1>3, <1>4, <1>5, <1>6, <1>7, <1>8, <1>9, <1>10, <1>11, <1>12
  DEF LockNext, ClientStep, Wake

\* All variables of the lock manager keep their types.
THEOREM LockTypeCorrect == LockSpec => []LockTypeOK
<1>1. LockInit => LockTypeOK
  BY DEF LockInit, LockTypeOK, States, Idle
<1> QED BY <1>1, TypeStep, PTL DEF LockSpec

-----------------------------------------------------------------------------
(* What a step of one transaction leaves alone, and the waits. *)

TxnStep(t) == ClientStep(t) \/ Wake(t) \/ SpuriousWakeup(t) \/ ExternalAbort(t)

OthersKept(t) ==
  \A u \in Txns \ {t} :
    /\ state'[u] = state[u] /\ waiting'[u] = waiting[u]
    /\ shared'[u] = shared[u] /\ exclusive'[u] = exclusive[u]
    /\ \A r \in RIDs : requests'[r][u] = requests[r][u]

\* A step of t touches only t's own requests, wait, state and lock sets: what
\* transactions share is upgrading_ and the condition variable.
LEMMA StepIsOwn ==
  ASSUME LockTypeOK, NEW t \in Txns, TxnStep(t)
  PROVE  OthersKept(t)
<1> USE DEF LockTypeOK, OthersKept
<1>1. CASE LockWhileShrinking(t)
  BY <1>1 DEF LockWhileShrinking
<1>2. ASSUME NEW r \in RIDs, LockShared(t, r) PROVE OthersKept(t)
  BY <1>2 DEF LockShared, Sleep
<1>3. ASSUME NEW r \in RIDs, LockExclusive(t, r) PROVE OthersKept(t)
  BY <1>3 DEF LockExclusive, Sleep
<1>4. ASSUME NEW r \in RIDs, LockUpgrade(t, r) PROVE OthersKept(t)
  BY <1>4 DEF LockUpgrade, Sleep
<1>5. ASSUME NEW r \in RIDs, UpgradeConflict(t, r) PROVE OthersKept(t)
  BY <1>5 DEF UpgradeConflict
<1>6. ASSUME NEW r \in RIDs, Unlock(t, r) PROVE OthersKept(t)
  BY <1>6 DEF Unlock
<1>7. CASE WakeBlocked(t)
  BY <1>7 DEF WakeBlocked
<1>8. CASE WakeGranted(t)
  <2>1. waiting[t].rid \in RIDs
    BY <1>8, WaitingType DEF WakeGranted, Notified
  <2> QED BY <1>8, <2>1 DEF WakeGranted
<1>9. CASE WakeAborted(t)
  <2>1. waiting[t].rid \in RIDs
    BY <1>9, WaitingType DEF WakeAborted, Notified
  <2> QED BY <1>9, <2>1 DEF WakeAborted
<1>10. CASE SpuriousWakeup(t)
  BY <1>10 DEF SpuriousWakeup
<1>11. CASE ExternalAbort(t)
  BY <1>11 DEF ExternalAbort
<1> QED
  BY <1>1, <1>2, <1>3, <1>4, <1>5, <1>6, <1>7, <1>8, <1>9, <1>10, <1>11
  DEF TxnStep, ClientStep, Wake

\* The request t waits for is in the queue, with the mode of the call and not
\* granted, and t is growing or was aborted while it waited.
WaiterQueued(t) ==
  ~Idle(t) =>
    LET r == waiting[t].rid
        kind == waiting[t].kind
        k == ReqIt(t, kind, r)
    IN  /\ state[t] \in {"GROWING", "ABORTED"}
        /\ k \in 1 .. Len(requests[r][t])
        /\ requests[r][t][k].lock_mode = (IF kind = "LockShared" THEN "SHARED" ELSE "EXCLUSIVE")
        /\ ~requests[r][t][k].granted

WaitersQueued == \A t \in Txns : WaiterQueued(t)

\* A step of t keeps t's own wait in order.
LEMMA OwnWaitStep ==
  ASSUME LockTypeOK, NEW t \in Txns, WaiterQueued(t), TxnStep(t)
  PROVE  WaiterQueued(t)'
<1>1. CASE LockWhileShrinking(t)
  BY <1>1 DEF LockWhileShrinking, WaiterQueued, Idle
<1>2. ASSUME NEW r \in RIDs, LockShared(t, r) PROVE WaiterQueued(t)'
  <2> DEFINE blocked == Blocked(t, "LockShared", r)
             req == [lock_mode |-> "SHARED", granted |-> ~blocked]
             w == [kind |-> "LockShared", rid |-> r]
  <2>1. CASE blocked
    <3>1. waiting'[t] = w /\ state'[t] = "GROWING"
      BY <1>2, <2>1 DEF LockShared, Sleep, LockTypeOK
    <3>2. requests'[r][t] = Append(requests[r][t], req) /\ requests[r][t] \in Seq(LockRequest)
      BY <1>2 DEF LockShared, LockTypeOK
    <3>3. req.lock_mode = "SHARED" /\ ~req.granted
      BY <2>1
    <3> HIDE DEF blocked, req
    <3>4. Len(requests'[r][t]) \in Nat \ {0} /\ requests'[r][t][Len(requests'[r][t])] = req
      BY <3>2
    <3> QED BY <3>1, <3>3, <3>4 DEF WaiterQueued, ReqIt
  <2>2. CASE ~blocked
    <3>1. UNCHANGED waiting
      BY <1>2, <2>2 DEF LockShared
    <3> QED BY <1>2, <3>1 DEF LockShared, WaiterQueued, Idle
  <2> QED BY <2>1, <2>2
<1>3. ASSUME NEW r \in RIDs, LockExclusive(t, r) PROVE WaiterQueued(t)'
  <2> DEFINE blocked == Blocked(t, "LockExclusive", r)
             req == [lock_mode |-> "EXCLUSIVE", granted |-> ~blocked]
             w == [kind |-> "LockExclusive", rid |-> r]
  <2>1. CASE blocked
    <3>1. waiting'[t] = w /\ state'[t] = "GROWING"
      BY <1>3, <2>1 DEF LockExclusive, Sleep, LockTypeOK
    <3>2. requests'[r][t] = Append(requests[r][t], req) /\ requests[r][t] \in Seq(LockRequest)
      BY <1>3 DEF LockExclusive, LockTypeOK
    <3>3. req.lock_mode = "EXCLUSIVE" /\ ~req.granted
      BY <2>1
    <3> HIDE DEF blocked, req
    <3>4. Len(requests'[r][t]) \in Nat \ {0} /\ requests'[r][t][Len(requests'[r][t])] = req
      BY <3>2
    <3> QED BY <3>1, <3>3, <3>4 DEF WaiterQueued, ReqIt
  <2>2. CASE ~blocked
    <3>1. UNCHANGED waiting
      BY <1>3, <2>2 DEF LockExclusive
    <3> QED BY <1>3, <3>1 DEF LockExclusive, WaiterQueued, Idle
  <2> QED BY <2>1, <2>2
<1>4. ASSUME NEW r \in RIDs, LockUpgrade(t, r) PROVE WaiterQueued(t)'
  <2> DEFINE blocked == Blocked(t, "LockUpgrade", r)
             req == [lock_mode |-> "EXCLUSIVE", granted |-> ~blocked]
             w == [kind |-> "LockUpgrade", rid |-> r]
  <2>1. CASE blocked
    <3>1. waiting'[t] = w /\ state'[t] = "GROWING"
      BY <1>4, <2>1 DEF LockUpgrade, CanUpgrade, Sleep, LockTypeOK
    <3>2. /\ requests'[r][t] = [requests[r][t] EXCEPT ![1] = req]
          /\ requests[r][t] \in Seq(LockRequest) /\ requests[r][t] # <<>>
      <4>1. /\ requests' = [requests EXCEPT ![r][t] = [requests[r][t] EXCEPT ![1] = req]]
            /\ requests[r][t] # <<>>
        BY <1>4 DEF LockUpgrade
      <4> HIDE DEF req
      <4> QED BY <4>1 DEF LockTypeOK
    <3>3. req.lock_mode = "EXCLUSIVE" /\ ~req.granted
      BY <2>1
    <3>4. req \in LockRequest
      BY DEF LockRequest, Modes, Blocked
    <3> HIDE DEF blocked, req
    <3>5. 1 \in 1 .. Len(requests'[r][t]) /\ requests'[r][t][1] = req
      <4>1. Len(requests[r][t]) \in Nat \ {0} /\ DOMAIN requests[r][t] = 1 .. Len(requests[r][t])
        BY <3>2
      <4>2. Len(requests'[r][t]) = Len(requests[r][t])
        BY <3>2, <3>4, ReplaceAtType
      <4> QED BY <3>2, <4>1, <4>2
    <3> QED BY <3>1, <3>3, <3>5 DEF WaiterQueued, ReqIt
  <2>2. CASE ~blocked
    <3>1. UNCHANGED waiting
      BY <1>4, <2>2 DEF LockUpgrade
    <3> QED BY <1>4, <3>1 DEF LockUpgrade, CanUpgrade, WaiterQueued, Idle
  <2> QED BY <2>1, <2>2
<1>5. ASSUME NEW r \in RIDs, UpgradeConflict(t, r) PROVE WaiterQueued(t)'
  BY <1>5 DEF UpgradeConflict, CanUpgrade, WaiterQueued, Idle
<1>6. ASSUME NEW r \in RIDs, Unlock(t, r) PROVE WaiterQueued(t)'
  BY <1>6 DEF Unlock, WaiterQueued, Idle
<1>7. CASE WakeBlocked(t)
  BY <1>7, SMTT(30) DEF WakeBlocked, WaiterQueued, Idle, ReqIt
<1>8. CASE WakeGranted(t)
  BY <1>8, SMTT(30) DEF WakeGranted, WaiterQueued, Idle, LockTypeOK
<1>9. CASE WakeAborted(t)
  BY <1>9 DEF WakeAborted, WaiterQueued, Idle, LockTypeOK
<1>10. CASE SpuriousWakeup(t)
  BY <1>10 DEF SpuriousWakeup, WaiterQueued, Idle, ReqIt
<1>11. CASE ExternalAbort(t)
  BY <1>11 DEF ExternalAbort, WaiterQueued, Idle, ReqIt, LockTypeOK
<1> QED
  BY <1>1, <1>2, <1>3, <1>4, <1>5, <1>6, <1>7, <1>8, <1>9, <1>10, <1>11
  DEF TxnStep, ClientStep, Wake

\* Every step keeps every wait in order.
LEMMA WaitersQueuedStep ==
  LockTypeOK /\ WaitersQueued /\ [LockNext]_lockVars => WaitersQueued'
<1> SUFFICES ASSUME LockTypeOK, WaitersQueued, [LockNext]_lockVars PROVE WaitersQueued'
  OBVIOUS
<1>1. ASSUME NEW t \in Txns, TxnStep(t), NEW u \in Txns \ {t} PROVE WaiterQueued(u)'
  <2>1. OthersKept(t)
    BY <1>1, StepIsOwn
  <2>2. ~Idle(u) => waiting[u].rid \in RIDs
    BY WaitingType
  <2>3. /\ state'[u] = state[u] /\ waiting'[u] = waiting[u]
        /\ ~Idle(u) => requests'[waiting[u].rid][u] = requests[waiting[u].rid][u]
    BY <2>1, <2>2 DEF OthersKept
  <2>4. WaiterQueued(u)
    BY DEF WaitersQueued
  <2> QED BY <2>3, <2>4 DEF WaiterQueued, Idle, ReqIt
<1>2. ASSUME NEW t \in Txns, TxnStep(t) PROVE WaitersQueued'
  BY <1>1, <1>2, OwnWaitStep DEF WaitersQueued
<1>3. CASE UNCHANGED lockVars
  BY <1>3 DEF lockVars, WaitersQueued, WaiterQueued, Idle, ReqIt
<1> QED BY <1>2, <1>3 DEF LockNext, TxnStep

-----------------------------------------------------------------------------
(* Compatibility of the granted requests. *)

\* A request of t on r is safe if it is not granted, was in the queue before,
\* or is compatible with the granted requests of the others.
SafeRequest(t, r, req) ==
  req.granted =>
    \/ \E j \in DOMAIN requests[r][t] : requests[r][t][j] = req
    \/ \A u \in Txns \ {t} : ~GrantedExclusive(u, r)
                            /\ (req.lock_mode = "EXCLUSIVE" => ~Granted(u, r))

SafeGrants(t) ==
  \A r \in RIDs, u \in Txns \ {t} :
    /\ Granted(t, r)' => Granted(t, r) \/ ~GrantedExclusive(u, r)
    /\ GrantedExclusive(t, r)' => GrantedExclusive(t, r) \/ ~Granted(u, r)

\* A step that gives t a queue of safe requests on one RID grants safely.
LEMMA SafeQueue ==
  ASSUME LockTypeOK, NEW t \in Txns, NEW r \in RIDs, NEW q,
         requests' = [requests EXCEPT ![r][t] = q],
         \A i \in DOMAIN q : SafeRequest(t, r, q[i])
  PROVE  SafeGrants(t)
<1> SUFFICES ASSUME NEW s \in RIDs, NEW u \in Txns \ {t}
             PROVE  /\ Granted(t, s)' => Granted(t, s) \/ ~GrantedExclusive(u, s)
                    /\ GrantedExclusive(t, s)' => GrantedExclusive(t, s) \/ ~Granted(u, s)
  BY DEF SafeGrants
<1>1. CASE s = r
  <2>1. requests'[r][t] = q
    BY DEF LockTypeOK
  <2> QED BY <1>1, <2>1 DEF SafeRequest, Granted, GrantedExclusive
<1>2. CASE s # r
  <2>1. requests'[s][t] = requests[s][t]
    BY <1>2 DEF LockTypeOK
  <2> QED BY <2>1 DEF Granted, GrantedExclusive
<1> QED BY <1>1, <1>2

\* Erasing a request adds none.
LEMMA RemoveAtElements ==
  ASSUME NEW q \in Seq(LockRequest), NEW k \in Nat, NEW i \in DOMAIN RemoveAt(q, k)
  PROVE  \E j \in DOMAIN q : q[j] = RemoveAt(q, k)[i]
<1>1. i \in 1 .. Len(q) - 1 /\ RemoveAt(q, k)[i] = q[IF i < k THEN i ELSE i + 1]
  BY DEF RemoveAt
<1>2. (IF i < k THEN i ELSE i + 1) \in DOMAIN q
  BY <1>1
<1> QED BY <1>1, <1>2

\* Every grant of a step of t is compatible with what the others were granted.
LEMMA GrantIsSafe ==
  ASSUME LockTypeOK, NEW t \in Txns, WaiterQueued(t), TxnStep(t)
  PROVE  SafeGrants(t)
<1>1. CASE UNCHANGED requests
  BY <1>1 DEF SafeGrants, Granted, GrantedExclusive
<1>2. ASSUME NEW r \in RIDs, LockShared(t, r) PROVE SafeGrants(t)
  <2> DEFINE old == requests[r][t]
             blocked == Blocked(t, "LockShared", r)
             req == [lock_mode |-> "SHARED", granted |-> ~blocked]
             q == Append(old, req)
  <2>1. old \in Seq(LockRequest)
    BY DEF LockTypeOK
  <2>2. requests' = [requests EXCEPT ![r][t] = q]
    BY <1>2 DEF LockShared
  <2>3. SafeRequest(t, r, req)
    BY DEF SafeRequest, Blocked, Granted, GrantedExclusive
  <2> HIDE DEF req
  <2>4. \A i \in DOMAIN q : SafeRequest(t, r, q[i])
    <3> SUFFICES ASSUME NEW i \in DOMAIN q PROVE SafeRequest(t, r, q[i])
      OBVIOUS
    <3>1. CASE i \in DOMAIN old
      <4>1. q[i] = old[i]
        BY <2>1, <3>1
      <4> QED BY <3>1, <4>1 DEF SafeRequest
    <3>2. CASE i = Len(old) + 1
      <4>1. q[i] = req
        BY <2>1, <3>2
      <4> QED BY <2>3, <4>1
    <3> QED BY <2>1, <3>1, <3>2
  <2> QED BY <2>2, <2>4, SafeQueue
<1>3. ASSUME NEW r \in RIDs, LockExclusive(t, r) PROVE SafeGrants(t)
  <2> DEFINE old == requests[r][t]
             blocked == Blocked(t, "LockExclusive", r)
             req == [lock_mode |-> "EXCLUSIVE", granted |-> ~blocked]
             q == Append(old, req)
  <2>1. old \in Seq(LockRequest)
    BY DEF LockTypeOK
  <2>2. requests' = [requests EXCEPT ![r][t] = q]
    BY <1>3 DEF LockExclusive
  <2>3. SafeRequest(t, r, req)
    BY DEF SafeRequest, Blocked, Granted, GrantedExclusive
  <2> HIDE DEF req
  <2>4. \A i \in DOMAIN q : SafeRequest(t, r, q[i])
    <3> SUFFICES ASSUME NEW i \in DOMAIN q PROVE SafeRequest(t, r, q[i])
      OBVIOUS
    <3>1. CASE i \in DOMAIN old
      <4>1. q[i] = old[i]
        BY <2>1, <3>1
      <4> QED BY <3>1, <4>1 DEF SafeRequest
    <3>2. CASE i = Len(old) + 1
      <4>1. q[i] = req
        BY <2>1, <3>2
      <4> QED BY <2>3, <4>1
    <3> QED BY <2>1, <3>1, <3>2
  <2> QED BY <2>2, <2>4, SafeQueue
<1>4. ASSUME NEW r \in RIDs, LockUpgrade(t, r) PROVE SafeGrants(t)
  <2> DEFINE old == requests[r][t]
             blocked == Blocked(t, "LockUpgrade", r)
             req == [lock_mode |-> "EXCLUSIVE", granted |-> ~blocked]
             q == [old EXCEPT ![1] = req]
  <2>1. requests' = [requests EXCEPT ![r][t] = q]
    BY <1>4 DEF LockUpgrade
  <2>2. SafeRequest(t, r, req)
    BY DEF SafeRequest, Blocked, Granted, GrantedExclusive
  <2> HIDE DEF req
  <2>3. \A i \in DOMAIN q : SafeRequest(t, r, q[i])
    BY <2>2 DEF SafeRequest
  <2> QED BY <2>1, <2>3, SafeQueue
<1>5. ASSUME NEW r \in RIDs, Unlock(t, r) PROVE SafeGrants(t)
  <2> DEFINE old == requests[r][t]
             q == Tail(old)
  <2>1. old \in Seq(LockRequest) /\ old # <<>>
    BY <1>5 DEF Unlock, LockTypeOK
  <2>2. requests' = [requests EXCEPT ![r][t] = q]
    BY <1>5 DEF Unlock
  <2>3. \A i \in DOMAIN q : i + 1 \in DOMAIN old /\ q[i] = old[i + 1]
    BY <2>1
  <2>4. \A i \in DOMAIN q : SafeRequest(t, r, q[i])
    BY <2>3 DEF SafeRequest
  <2> QED BY <2>2, <2>4, SafeQueue
<1>6. CASE WakeGranted(t)
  <2> DEFINE r == waiting[t].rid
             kind == waiting[t].kind
             old == requests[r][t]
             k == ReqIt(t, kind, r)
             req == Grant(old[k])
             q == [old EXCEPT ![k] = req]
  <2>1. r \in RIDs /\ kind \in Kinds /\ k \in Nat
    BY <1>6, WaitingType DEF WakeGranted, Notified
  <2>2. requests' = [requests EXCEPT ![r][t] = q]
    BY <1>6 DEF WakeGranted
  <2>3. k \in 1 .. Len(old) /\ old[k].lock_mode = (IF kind = "LockShared" THEN "SHARED" ELSE "EXCLUSIVE")
    BY <1>6 DEF WakeGranted, Notified, WaiterQueued
  <2>4. req.lock_mode = old[k].lock_mode
    BY DEF Grant
  <2>5. ~Blocked(t, kind, r)
    BY <1>6 DEF WakeGranted
  <2> HIDE DEF kind, r, k, req
  <2>6. SafeRequest(t, r, req)
    BY <2>3, <2>4, <2>5 DEF SafeRequest, Blocked, Granted, GrantedExclusive
  <2>7. \A i \in DOMAIN q : SafeRequest(t, r, q[i])
    BY <2>6 DEF SafeRequest
  <2> QED BY <2>1, <2>2, <2>7, SafeQueue
<1>7. CASE WakeAborted(t)
  <2> DEFINE r == waiting[t].rid
             kind == waiting[t].kind
             old == requests[r][t]
             k == ReqIt(t, kind, r)
             q == RemoveAt(old, k)
  <2>1. r \in RIDs /\ k \in Nat
    BY <1>7, WaitingType DEF WakeAborted, Notified
  <2>2. old \in Seq(LockRequest)
    BY <2>1 DEF LockTypeOK
  <2>3. requests' = [requests EXCEPT ![r][t] = q]
    BY <1>7 DEF WakeAborted
  <2> HIDE DEF r, kind, k
  <2>4. \A i \in DOMAIN q : \E j \in DOMAIN old : old[j] = q[i]
    BY <2>1, <2>2, RemoveAtElements
  <2> HIDE DEF q
  <2>5. \A i \in DOMAIN q : SafeRequest(t, r, q[i])
    BY <2>4 DEF SafeRequest
  <2> QED BY <2>1, <2>3, <2>5, SafeQueue
<1> QED
  BY <1>1, <1>2, <1>3, <1>4, <1>5, <1>6, <1>7
  DEF TxnStep, ClientStep, Wake, LockWhileShrinking, UpgradeConflict, WakeBlocked,
      SpuriousWakeup, ExternalAbort

\* Every step keeps the granted requests compatible.
LEMMA CompatibleStep ==
  LockTypeOK /\ WaitersQueued /\ GrantedCompatible /\ [LockNext]_lockVars => GrantedCompatible'
<1> SUFFICES ASSUME LockTypeOK, WaitersQueued, GrantedCompatible, [LockNext]_lockVars
             PROVE  GrantedCompatible'
  OBVIOUS
<1>1. ASSUME NEW t \in Txns, TxnStep(t) PROVE GrantedCompatible'
  <2>1. SafeGrants(t)
    BY <1>1, GrantIsSafe DEF WaitersQueued
  <2>2. \A r \in RIDs, u \in Txns \ {t} :
          Granted(u, r)' = Granted(u, r) /\ GrantedExclusive(u, r)' = GrantedExclusive(u, r)
    BY <1>1, StepIsOwn DEF OthersKept, Granted, GrantedExclusive
  <2>3. ASSUME NEW r \in RIDs, NEW u \in Txns, NEW v \in Txns, u # v, GrantedExclusive(u, r)'
        PROVE  ~Granted(v, r)'
    <3>1. CASE u = t
      BY <2>1, <2>2, <2>3, <3>1 DEF SafeGrants, GrantedCompatible
    <3>2. CASE v = t
      BY <2>1, <2>2, <2>3, <3>2 DEF SafeGrants, GrantedCompatible
    <3>3. CASE u # t /\ v # t
      BY <2>2, <2>3, <3>3 DEF GrantedCompatible
    <3> QED BY <3>1, <3>2, <3>3
  <2> QED BY <2>3 DEF GrantedCompatible
<1>2. CASE UNCHANGED lockVars
  BY <1>2 DEF lockVars, GrantedCompatible, Granted, GrantedExclusive
<1> QED BY <1>1, <1>2 DEF LockNext, TxnStep

LockInv == LockTypeOK /\ WaitersQueued /\ GrantedCompatible

\* The inductive invariant of the lock manager.
LEMMA LockInvariant == LockSpec => []LockInv
<1>1. LockInit => LockInv
  <2> SUFFICES ASSUME LockInit PROVE LockInv
    OBVIOUS
  <2>1. LockTypeOK
    BY DEF LockInit, LockTypeOK, States, Idle
  <2>2. WaitersQueued
    BY DEF LockInit, WaitersQueued, WaiterQueued, Idle
  <2>3. GrantedCompatible
    BY DEF LockInit, GrantedCompatible, Granted, GrantedExclusive
  <2> QED BY <2>1, <2>2, <2>3 DEF LockInv
<1>2. LockInv /\ [LockNext]_lockVars => LockInv'
  BY TypeStep, WaitersQueuedStep, CompatibleStep DEF LockInv
<1> QED BY <1>1, <1>2, PTL DEF LockSpec

\* Mutual exclusion of the queues: the wait predicates of the three lock calls
\* never grant a request next to an incompatible one, whatever the clients do.
THEOREM LocksExclude == LockSpec => []GrantedCompatible
<1>1. LockInv => GrantedCompatible
  BY DEF LockInv
<1> QED BY <1>1, LockInvariant, PTL

-----------------------------------------------------------------------------
(* Two-phase locking. *)

NoAcquire(t) ==
  /\ state[t] # "GROWING" => /\ shared'[t] \subseteq shared[t]
                             /\ exclusive'[t] \subseteq exclusive[t]
  /\ state[t] # "GROWING" => state'[t] # "GROWING"

\* No step of the lock manager gives a lock to a transaction that has stopped
\* growing.
LEMMA NoAcquireStep ==
  ASSUME LockInv, LockNext
  PROVE  \A t \in Txns : NoAcquire(t)
<1>1. ASSUME NEW t \in Txns, TxnStep(t) PROVE NoAcquire(t)
  <2> USE DEF LockInv, LockTypeOK, NoAcquire
  <2>1. CASE LockWhileShrinking(t)
    BY <2>1 DEF LockWhileShrinking
  <2>2. ASSUME NEW r \in RIDs, LockShared(t, r) PROVE NoAcquire(t)
    BY <2>2 DEF LockShared
  <2>3. ASSUME NEW r \in RIDs, LockExclusive(t, r) PROVE NoAcquire(t)
    BY <2>3 DEF LockExclusive
  <2>4. ASSUME NEW r \in RIDs, LockUpgrade(t, r) PROVE NoAcquire(t)
    BY <2>4 DEF LockUpgrade, CanUpgrade
  <2>5. ASSUME NEW r \in RIDs, UpgradeConflict(t, r) PROVE NoAcquire(t)
    BY <2>5 DEF UpgradeConflict
  <2>6. ASSUME NEW r \in RIDs, Unlock(t, r) PROVE NoAcquire(t)
    BY <2>6 DEF Unlock, StateAfterUnlock
  <2>7. CASE WakeBlocked(t)
    BY <2>7 DEF WakeBlocked
  <2>8. CASE WakeGranted(t)
    <3>1. state[t] = "GROWING"
      <4>1. ~Idle(t) /\ state[t] # "ABORTED"
        BY <2>8 DEF WakeGranted, Notified, AbortSeen
      <4>2. WaiterQueued(t)
        BY <1>1 DEF WaitersQueued
      <4> QED BY <4>1, <4>2 DEF WaiterQueued
    <3> QED BY <3>1
  <2>9. CASE WakeAborted(t)
    BY <2>9 DEF WakeAborted
  <2>10. CASE SpuriousWakeup(t)
    BY <2>10 DEF SpuriousWakeup
  <2>11. CASE ExternalAbort(t)
    BY <2>11 DEF ExternalAbort
  <2> QED
    BY <1>1, <2>1, <2>2, <2>3, <2>4, <2>5, <2>6, <2>7, <2>8, <2>9, <2>10, <2>11
    DEF TxnStep, ClientStep, Wake
<1>2. PICK t \in Txns : TxnStep(t)
  BY DEF LockNext, TxnStep
<1>3. NoAcquire(t)
  BY <1>1, <1>2
<1>4. OthersKept(t)
  BY <1>2, StepIsOwn DEF LockInv
<1>5. \A u \in Txns \ {t} : NoAcquire(u)
  BY <1>4 DEF OthersKept, NoAcquire
<1> QED BY <1>3, <1>5

\* No transaction acquires after its growing phase, not even a thread that
\* went to sleep inside a lock call before the phase ended.
THEOREM LocksTwoPhase == LockSpec => TwoPhase
<1>1. LockInv /\ [LockNext]_lockVars => [\A t \in Txns : NoAcquire(t)]_lockVars
  BY NoAcquireStep
<1> QED BY <1>1, LockInvariant, PTL DEF LockSpec, TwoPhase, NoAcquire

-----------------------------------------------------------------------------
(* Lock sets and queues, whatever calls the clients make. *)

WaitsOn(t, r) == ~Idle(t) /\ waiting[t].rid = r

Upgrader(t, r) == WaitsOn(t, r) /\ waiting[t].kind = "LockUpgrade"

\* Only the request t waits for is not granted.
OthersGranted(t, r) ==
  \A i \in DOMAIN requests[r][t] :
    requests[r][t][i].granted \/ (WaitsOn(t, r) /\ i = ReqIt(t, waiting[t].kind, r))

\* A growing transaction has its requests and its exclusive grants in its sets.
SetsComplete(t, r) ==
  state[t] = "GROWING" /\ ~WaitsOn(t, r) =>
    /\ requests[r][t] # <<>> => r \in shared[t] \cup exclusive[t]
    /\ GrantedExclusive(t, r) => r \in exclusive[t]

\* The sets of t on r are backed by the queue.
Backed(t, r) ==
  /\ OthersGranted(t, r)
  /\ r \in exclusive[t] => GrantedExclusive(t, r) /\ ~WaitsOn(t, r)
  /\ r \in shared[t] => Granted(t, r) \/ Upgrader(t, r)
  /\ SetsComplete(t, r)
  /\ WaitsOn(t, r) /\ waiting[t].kind = "LockShared" => Len(requests[r][t]) = 1

AllBacked == \A t \in Txns, r \in RIDs : Backed(t, r)

\* A RID that a step does not concern stays backed.
LEMMA OtherRid ==
  ASSUME NEW t \in Txns, NEW s \in RIDs, Backed(t, s), requests'[s][t] = requests[s][t],
         s \in shared'[t] <=> s \in shared[t], s \in exclusive'[t] <=> s \in exclusive[t],
         ~WaitsOn(t, s), ~WaitsOn(t, s)', state'[t] = "GROWING" => state[t] = "GROWING"
  PROVE  Backed(t, s)'
<1>1. (Granted(t, s)' <=> Granted(t, s)) /\ (GrantedExclusive(t, s)' <=> GrantedExclusive(t, s))
  BY DEF Granted, GrantedExclusive
<1>2. OthersGranted(t, s)'
  BY DEF Backed, OthersGranted
<1>3. SetsComplete(t, s)'
  BY <1>1 DEF Backed, SetsComplete
<1> QED BY <1>1, <1>2, <1>3 DEF Backed, Upgrader

\* What a queue looks like after a request is appended.
LEMMA AppendFacts ==
  ASSUME NEW q \in Seq(LockRequest), NEW req, NEW p, p = Append(q, req)
  PROVE  /\ Len(p) = Len(q) + 1 /\ Len(p) \in DOMAIN p /\ p[Len(p)] = req /\ p # <<>>
         /\ \A i \in DOMAIN q : i \in DOMAIN p /\ p[i] = q[i]
         /\ \A i \in DOMAIN p : i = Len(p) \/ (i \in DOMAIN q /\ p[i] = q[i])
OBVIOUS

\* What a queue looks like after one of its requests is overwritten.
LEMMA ReplaceFacts ==
  ASSUME NEW q \in Seq(LockRequest), NEW k \in DOMAIN q, NEW req, NEW p, p = [q EXCEPT ![k] = req]
  PROVE  /\ DOMAIN p = DOMAIN q /\ p[k] = req
         /\ \A i \in DOMAIN q : i # k => p[i] = q[i]
OBVIOUS

\* A queue of which one request was erased has exactly the others.
LEMMA RemoveFacts ==
  ASSUME NEW q \in Seq(LockRequest), NEW k \in DOMAIN q, NEW p, p = RemoveAt(q, k)
  PROVE  /\ \A i \in DOMAIN p : \E j \in DOMAIN q : j # k /\ p[i] = q[j]
         /\ \A j \in DOMAIN q : j # k => \E i \in DOMAIN p : p[i] = q[j]
<1>1. Len(q) \in Nat /\ DOMAIN q = 1 .. Len(q) /\ k \in 1 .. Len(q)
  OBVIOUS
<1>2. DOMAIN p = 1 .. Len(q) - 1 /\ \A i \in DOMAIN p : p[i] = q[IF i < k THEN i ELSE i + 1]
  BY DEF RemoveAt
<1>3. ASSUME NEW i \in DOMAIN p PROVE \E j \in DOMAIN q : j # k /\ p[i] = q[j]
  <2>1. (IF i < k THEN i ELSE i + 1) \in DOMAIN q /\ (IF i < k THEN i ELSE i + 1) # k
    BY <1>1, <1>2
  <2> QED BY <1>2, <2>1
<1>4. ASSUME NEW j \in DOMAIN q, j # k PROVE \E i \in DOMAIN p : p[i] = q[j]
  <2>1. CASE j < k
    <3>1. j \in DOMAIN p
      BY <1>1, <1>2, <2>1
    <3> QED BY <1>2, <2>1, <3>1
  <2>2. CASE j > k
    <3>1. j - 1 \in DOMAIN p /\ ~(j - 1 < k) /\ (j - 1) + 1 = j
      BY <1>1, <1>2, <2>2
    <3> QED BY <1>2, <3>1
  <2> QED BY <1>1, <1>4, <2>1, <2>2
<1> QED BY <1>3, <1>4

\* A queue with an appended request: t asked for r and was granted it or waits.
LEMMA AskBacked ==
  ASSUME LockTypeOK, NEW t \in Txns, NEW r \in RIDs, NEW kind \in {"LockShared", "LockExclusive"}, NEW req,
         Backed(t, r), Idle(t), state[t] = "GROWING", r \notin exclusive[t],
         kind = "LockShared" => r \notin shared[t],
         requests'[r][t] = Append(requests[r][t], req),
         req.lock_mode = (IF kind = "LockShared" THEN "SHARED" ELSE "EXCLUSIVE"),
         \/ /\ req.granted /\ Idle(t)'
            /\ shared'[t] = IF kind = "LockShared" THEN shared[t] \cup {r} ELSE shared[t]
            /\ exclusive'[t] = IF kind = "LockShared" THEN exclusive[t] ELSE exclusive[t] \cup {r}
         \/ /\ ~req.granted /\ ~Idle(t)' /\ waiting'[t] = [kind |-> kind, rid |-> r]
            /\ shared'[t] = shared[t] /\ exclusive'[t] = exclusive[t]
  PROVE  Backed(t, r)'
<1> DEFINE q == requests[r][t]
           p == requests'[r][t]
<1>1. q \in Seq(LockRequest) /\ ~WaitsOn(t, r)
  BY DEF LockTypeOK, WaitsOn
<1>2. /\ Len(p) = Len(q) + 1 /\ Len(p) \in DOMAIN p /\ p[Len(p)] = req /\ p # <<>>
      /\ \A i \in DOMAIN q : i \in DOMAIN p /\ p[i] = q[i]
      /\ \A i \in DOMAIN p : i = Len(p) \/ (i \in DOMAIN q /\ p[i] = q[i])
  BY <1>1, AppendFacts, SMTT(20)
<1>3. /\ \A i \in DOMAIN q : q[i].granted
      /\ r \in shared[t] => Granted(t, r)
      /\ ~GrantedExclusive(t, r)
      /\ kind = "LockShared" => q = <<>>
  BY <1>1 DEF Backed, OthersGranted, SetsComplete, Upgrader
<1> HIDE DEF q, p
<1>4. Granted(t, r) => Granted(t, r)'
  BY <1>2 DEF Granted, q, p
<1>5. CASE req.granted /\ Idle(t)'
  <2>1. ~WaitsOn(t, r)' /\ Granted(t, r)'
    BY <1>2, <1>5 DEF WaitsOn, Granted, p
  <2>2. OthersGranted(t, r)'
    BY <1>2, <1>3, <1>5 DEF OthersGranted, p
  <2>3. kind = "LockShared" => ~GrantedExclusive(t, r)'
    BY <1>1, <1>2, <1>3 DEF GrantedExclusive, p, q
  <2>4. kind = "LockExclusive" => GrantedExclusive(t, r)'
    BY <1>2, <1>5 DEF GrantedExclusive, p
  <2>5. /\ kind = "LockShared" => r \in shared'[t] /\ exclusive'[t] = exclusive[t]
        /\ kind = "LockExclusive" => r \in exclusive'[t]
    BY <1>5
  <2> HIDE DEF p
  <2>6. r \in exclusive'[t] => GrantedExclusive(t, r)'
    BY <2>4, <2>5
  <2>7. SetsComplete(t, r)'
    BY <2>3, <2>5 DEF SetsComplete
  <2> QED BY <2>1, <2>2, <2>6, <2>7 DEF Backed
<1>6. CASE ~req.granted /\ ~Idle(t)'
  <2>1. /\ waiting'[t].kind = kind /\ waiting'[t].rid = r
        /\ shared'[t] = shared[t] /\ exclusive'[t] = exclusive[t]
    BY <1>6
  <2>2. WaitsOn(t, r)'
    BY <1>6, <2>1 DEF WaitsOn
  <2>3. ReqIt(t, kind, r)' = Len(p)
    BY DEF ReqIt, p
  <2>4. OthersGranted(t, r)'
    BY <1>2, <1>3, <2>1, <2>2, <2>3 DEF OthersGranted, p
  <2>5. kind = "LockShared" => Len(p) = 1
    BY <1>2, <1>3
  <2>6. SetsComplete(t, r)'
    BY <2>2 DEF SetsComplete
  <2>7. r \notin exclusive'[t] /\ (r \in shared'[t] => Granted(t, r)')
    BY <1>3, <1>4, <2>1
  <2> QED BY <2>1, <2>2, <2>4, <2>5, <2>6, <2>7 DEF Backed, p
<1> QED BY <1>5, <1>6

\* The first request of t on r became exclusive: granted, or waited for.
LEMMA UpgradeBacked ==
  ASSUME LockTypeOK, NEW t \in Txns, NEW r \in RIDs, NEW req,
         Backed(t, r), Idle(t), state[t] = "GROWING", r \in shared[t], r \notin exclusive[t],
         requests[r][t] # <<>>, requests'[r][t] = [requests[r][t] EXCEPT ![1] = req],
         req.lock_mode = "EXCLUSIVE",
         \/ /\ req.granted /\ Idle(t)'
            /\ shared'[t] = shared[t] \ {r} /\ exclusive'[t] = exclusive[t] \cup {r}
         \/ /\ ~req.granted /\ ~Idle(t)' /\ waiting'[t] = [kind |-> "LockUpgrade", rid |-> r]
            /\ shared'[t] = shared[t] /\ exclusive'[t] = exclusive[t]
  PROVE  Backed(t, r)'
<1> DEFINE q == requests[r][t]
           p == requests'[r][t]
<1>1. q \in Seq(LockRequest) /\ ~WaitsOn(t, r)
  BY DEF LockTypeOK, WaitsOn
<1>2. 1 \in DOMAIN q
  BY <1>1
<1>3. DOMAIN p = DOMAIN q /\ p[1] = req /\ \A i \in DOMAIN q : i # 1 => p[i] = q[i]
  BY <1>1, <1>2, ReplaceFacts
<1>4. \A i \in DOMAIN q : q[i].granted
  BY <1>1 DEF Backed, OthersGranted
<1> HIDE DEF q, p
<1>5. CASE req.granted /\ Idle(t)'
  <2>1. ~WaitsOn(t, r)' /\ r \notin shared'[t] /\ r \in exclusive'[t]
    BY <1>5 DEF WaitsOn
  <2>2. OthersGranted(t, r)'
    BY <1>3, <1>4, <1>5 DEF OthersGranted, p
  <2>3. GrantedExclusive(t, r)'
    BY <1>2, <1>3, <1>5 DEF GrantedExclusive, p
  <2> QED BY <2>1, <2>2, <2>3 DEF Backed, SetsComplete
<1>6. CASE ~req.granted /\ ~Idle(t)'
  <2>1. waiting'[t].kind = "LockUpgrade" /\ waiting'[t].rid = r /\ r \notin exclusive'[t]
    BY <1>6
  <2>2. WaitsOn(t, r)' /\ Upgrader(t, r)'
    BY <1>6, <2>1 DEF WaitsOn, Upgrader
  <2>3. OthersGranted(t, r)'
    BY <1>3, <1>4, <2>1, <2>2 DEF OthersGranted, ReqIt, p
  <2> QED BY <2>1, <2>2, <2>3 DEF Backed, SetsComplete
<1> QED BY <1>5, <1>6

\* t is no longer growing, its sets have lost r, and its queue only got shorter.
LEMMA UnlockBacked ==
  ASSUME LockTypeOK, NEW t \in Txns, NEW r \in RIDs, Backed(t, r), Idle(t), Idle(t)',
         requests[r][t] # <<>>, requests'[r][t] = Tail(requests[r][t]), state'[t] # "GROWING",
         r \notin shared'[t], r \notin exclusive'[t]
  PROVE  Backed(t, r)'
<1> DEFINE q == requests[r][t]
           p == requests'[r][t]
<1>1. q \in Seq(LockRequest) /\ ~WaitsOn(t, r) /\ ~WaitsOn(t, r)'
  BY DEF LockTypeOK, WaitsOn
<1>2. \A i \in DOMAIN p : i + 1 \in DOMAIN q /\ p[i] = q[i + 1]
  BY <1>1
<1>3. \A i \in DOMAIN q : q[i].granted
  BY <1>1 DEF Backed, OthersGranted
<1> HIDE DEF q, p
<1>4. OthersGranted(t, r)'
  BY <1>2, <1>3 DEF OthersGranted, p
<1> QED BY <1>1, <1>4 DEF Backed, SetsComplete

\* The request t waited for is granted.
LEMMA GrantBacked ==
  ASSUME LockTypeOK, NEW t \in Txns, NEW r \in RIDs, NEW kind \in Kinds, WaiterQueued(t), Backed(t, r),
         ~Idle(t), waiting[t].rid = r, waiting[t].kind = kind, Idle(t)',
         requests'[r][t] = [requests[r][t] EXCEPT ![ReqIt(t, kind, r)] = Grant(@)],
         shared'[t] = IF kind = "LockShared" THEN shared[t] \cup {r}
                      ELSE IF kind = "LockUpgrade" THEN shared[t] \ {r} ELSE shared[t],
         exclusive'[t] = IF kind = "LockShared" THEN exclusive[t] ELSE exclusive[t] \cup {r}
  PROVE  Backed(t, r)'
<1> DEFINE q == requests[r][t]
           p == requests'[r][t]
           k == ReqIt(t, kind, r)
           req == Grant(q[k])
<1>1. q \in Seq(LockRequest) /\ WaitsOn(t, r) /\ ~WaitsOn(t, r)'
  BY DEF LockTypeOK, WaitsOn
<1>2. /\ k \in DOMAIN q
      /\ q[k].lock_mode = (IF kind = "LockShared" THEN "SHARED" ELSE "EXCLUSIVE")
  BY <1>1 DEF WaiterQueued
<1>3. req.granted /\ req.lock_mode = q[k].lock_mode
  BY DEF Grant
<1> HIDE DEF req
<1>4. p = [q EXCEPT ![k] = req]
  BY DEF req
<1> HIDE DEF p, q, k
<1>5. DOMAIN p = DOMAIN q /\ p[k] = req /\ \A i \in DOMAIN q : i # k => p[i] = q[i]
  BY <1>1, <1>2, <1>4, ReplaceFacts
<1>6. (\A i \in DOMAIN q : q[i].granted \/ i = k) /\ r \notin exclusive[t]
  BY <1>1 DEF Backed, OthersGranted, q, k
<1>7. OthersGranted(t, r)'
  BY <1>3, <1>5, <1>6 DEF OthersGranted, p
<1>8. Granted(t, r)'
  BY <1>2, <1>3, <1>5 DEF Granted, p
<1>9. CASE kind = "LockShared"
  <2>1. Len(q) = 1
    BY <1>1, <1>9 DEF Backed, q
  <2>2. DOMAIN q = {k}
    BY <1>1, <1>2, <2>1
  <2>3. ~GrantedExclusive(t, r)'
    BY <1>2, <1>3, <1>5, <1>9, <2>2 DEF GrantedExclusive, p
  <2>4. r \in shared'[t] /\ r \notin exclusive'[t]
    BY <1>6, <1>9
  <2> QED BY <1>1, <1>7, <1>8, <2>3, <2>4 DEF Backed, SetsComplete
<1>10. CASE kind # "LockShared"
  <2>1. GrantedExclusive(t, r)'
    BY <1>2, <1>3, <1>5, <1>10 DEF GrantedExclusive, p
  <2>2. r \in exclusive'[t]
    BY <1>10
  <2> QED BY <1>1, <1>7, <1>8, <2>1, <2>2 DEF Backed, SetsComplete
<1> QED BY <1>9, <1>10

\* The request t waited for is erased because t was aborted.
LEMMA WithdrawBacked ==
  ASSUME LockTypeOK, NEW t \in Txns, NEW r \in RIDs, NEW kind \in Kinds, WaiterQueued(t), Backed(t, r),
         ~Idle(t), waiting[t].rid = r, waiting[t].kind = kind, Idle(t)', state'[t] # "GROWING",
         requests'[r][t] = RemoveAt(requests[r][t], ReqIt(t, kind, r)),
         shared'[t] = IF kind = "LockUpgrade" THEN shared[t] \ {r} ELSE shared[t],
         exclusive'[t] = exclusive[t]
  PROVE  Backed(t, r)'
<1> DEFINE q == requests[r][t]
           p == requests'[r][t]
           k == ReqIt(t, kind, r)
<1>1. q \in Seq(LockRequest) /\ WaitsOn(t, r) /\ ~WaitsOn(t, r)'
  BY DEF LockTypeOK, WaitsOn
<1>2. k \in DOMAIN q /\ ~q[k].granted
  BY <1>1 DEF WaiterQueued
<1>3. p = RemoveAt(q, k)
  OBVIOUS
<1> HIDE DEF p, q, k
<1>4. /\ \A i \in DOMAIN p : \E j \in DOMAIN q : j # k /\ p[i] = q[j]
      /\ \A j \in DOMAIN q : j # k => \E i \in DOMAIN p : p[i] = q[j]
  BY <1>1, <1>2, <1>3, RemoveFacts
<1>5. (\A i \in DOMAIN q : q[i].granted \/ i = k) /\ r \notin exclusive[t]
  BY <1>1 DEF Backed, OthersGranted, q, k
<1>6. OthersGranted(t, r)'
  BY <1>4, <1>5 DEF OthersGranted, p
<1>7. ASSUME r \in shared'[t] PROVE Granted(t, r)'
  <2>1. Granted(t, r)
    BY <1>7 DEF Backed, Upgrader
  <2>2. PICK j \in DOMAIN q : q[j].granted
    BY <2>1 DEF Granted, q
  <2>3. PICK i \in DOMAIN p : p[i] = q[j]
    BY <1>2, <1>4, <2>2
  <2> QED BY <2>2, <2>3 DEF Granted, p
<1> QED BY <1>1, <1>5, <1>6, <1>7 DEF Backed, SetsComplete

\* A step of t keeps its own sets backed on every RID.
LEMMA OwnBackedStep ==
  ASSUME LockTypeOK, NEW t \in Txns, WaiterQueued(t), TxnStep(t), \A s \in RIDs : Backed(t, s)
  PROVE  \A s \in RIDs : Backed(t, s)'
<1>0. state'[t] = "GROWING" => state[t] = "GROWING"
  BY DEF TxnStep, ClientStep, Wake, LockWhileShrinking, UpgradeConflict, WakeBlocked, SpuriousWakeup,
         ExternalAbort, LockShared, LockExclusive, LockUpgrade, Unlock, StateAfterUnlock, WakeGranted,
         WakeAborted, LockTypeOK
<1>1. CASE UNCHANGED <<shared, exclusive, requests, waiting>>
  <2> SUFFICES ASSUME NEW s \in RIDs PROVE Backed(t, s)'
    OBVIOUS
  <2>1. /\ (WaitsOn(t, s)' <=> WaitsOn(t, s)) /\ (Upgrader(t, s)' <=> Upgrader(t, s))
        /\ (Granted(t, s)' <=> Granted(t, s)) /\ (GrantedExclusive(t, s)' <=> GrantedExclusive(t, s))
    BY <1>1 DEF WaitsOn, Upgrader, Idle, Granted, GrantedExclusive
  <2>2. OthersGranted(t, s)'
    BY <1>1, <2>1 DEF Backed, OthersGranted, ReqIt
  <2>3. SetsComplete(t, s)'
    BY <1>0, <1>1, <2>1 DEF Backed, SetsComplete
  <2> QED BY <1>1, <2>1, <2>2, <2>3 DEF Backed
<1>2. ASSUME NEW r \in RIDs, NEW q, requests' = [requests EXCEPT ![r][t] = q], Backed(t, r)',
             \A s \in RIDs \ {r} : (s \in shared'[t] <=> s \in shared[t]) /\ (s \in exclusive'[t] <=> s \in exclusive[t]),
             \A s \in RIDs \ {r} : ~WaitsOn(t, s) /\ ~WaitsOn(t, s)'
      PROVE  \A s \in RIDs : Backed(t, s)'
  <2>1. ASSUME NEW s \in RIDs \ {r} PROVE Backed(t, s)'
    <3>1. requests'[s][t] = requests[s][t]
      BY <1>2 DEF LockTypeOK
    <3> QED BY <1>0, <1>2, <3>1, OtherRid
  <2> QED BY <1>2, <2>1
<1>3. ASSUME NEW r \in RIDs, LockShared(t, r) PROVE \A s \in RIDs : Backed(t, s)'
  <2> DEFINE blocked == Blocked(t, "LockShared", r)
             req == [lock_mode |-> "SHARED", granted |-> ~blocked]
  <2>1. /\ Idle(t) /\ state[t] = "GROWING" /\ r \notin exclusive[t] /\ r \notin shared[t]
        /\ requests' = [requests EXCEPT ![r][t] = Append(requests[r][t], req)]
        /\ exclusive' = exclusive
    BY <1>3 DEF LockShared
  <2>2. req.lock_mode = "SHARED" /\ (req.granted <=> ~blocked)
    OBVIOUS
  <2> HIDE DEF req
  <2>3. requests'[r][t] = Append(requests[r][t], req)
    BY <2>1 DEF LockTypeOK
  <2>4. CASE blocked
    <3>1. Sleep(t, "LockShared", r) /\ UNCHANGED shared
      BY <1>3, <2>4 DEF LockShared
    <3>2. waiting'[t] = [kind |-> "LockShared", rid |-> r] /\ ~Idle(t)'
      BY <3>1, WaitIsNotIdle DEF Sleep, LockTypeOK, Idle, Kinds
    <3>3. Backed(t, r)'
      BY <2>1, <2>2, <2>3, <2>4, <3>1, <3>2, AskBacked
    <3>4. \A s \in RIDs \ {r} : ~WaitsOn(t, s) /\ ~WaitsOn(t, s)'
      BY <2>1, <3>2 DEF WaitsOn
    <3>5. \A s \in RIDs \ {r} : (s \in shared'[t] <=> s \in shared[t]) /\ (s \in exclusive'[t] <=> s \in exclusive[t])
      BY <2>1, <3>1
    <3> QED BY <1>2, <2>1, <3>3, <3>4, <3>5
  <2>5. CASE ~blocked
    <3>1. shared'[t] = shared[t] \cup {r} /\ UNCHANGED waiting
      BY <1>3, <2>5 DEF LockShared, LockTypeOK
    <3>2. Idle(t)'
      BY <2>1, <3>1 DEF Idle
    <3>3. Backed(t, r)'
      BY <2>1, <2>2, <2>3, <2>5, <3>1, <3>2, AskBacked
    <3> QED BY <1>2, <2>1, <3>1, <3>2, <3>3 DEF WaitsOn
  <2> QED BY <2>4, <2>5
<1>4. ASSUME NEW r \in RIDs, LockExclusive(t, r) PROVE \A s \in RIDs : Backed(t, s)'
  <2> DEFINE blocked == Blocked(t, "LockExclusive", r)
             req == [lock_mode |-> "EXCLUSIVE", granted |-> ~blocked]
  <2>1. /\ Idle(t) /\ state[t] = "GROWING" /\ r \notin exclusive[t]
        /\ requests' = [requests EXCEPT ![r][t] = Append(requests[r][t], req)]
        /\ shared' = shared
    BY <1>4 DEF LockExclusive
  <2>2. req.lock_mode = "EXCLUSIVE" /\ (req.granted <=> ~blocked)
    OBVIOUS
  <2> HIDE DEF req
  <2>3. requests'[r][t] = Append(requests[r][t], req)
    BY <2>1 DEF LockTypeOK
  <2>4. CASE blocked
    <3>1. Sleep(t, "LockExclusive", r) /\ UNCHANGED exclusive
      BY <1>4, <2>4 DEF LockExclusive
    <3>2. waiting'[t] = [kind |-> "LockExclusive", rid |-> r] /\ ~Idle(t)'
      BY <3>1, WaitIsNotIdle DEF Sleep, LockTypeOK, Idle, Kinds
    <3>3. Backed(t, r)'
      BY <2>1, <2>2, <2>3, <2>4, <3>1, <3>2, AskBacked
    <3>4. \A s \in RIDs \ {r} : ~WaitsOn(t, s) /\ ~WaitsOn(t, s)'
      BY <2>1, <3>2 DEF WaitsOn
    <3>5. \A s \in RIDs \ {r} : (s \in shared'[t] <=> s \in shared[t]) /\ (s \in exclusive'[t] <=> s \in exclusive[t])
      BY <2>1, <3>1
    <3> QED BY <1>2, <2>1, <3>3, <3>4, <3>5
  <2>5. CASE ~blocked
    <3>1. exclusive'[t] = exclusive[t] \cup {r} /\ UNCHANGED waiting
      BY <1>4, <2>5 DEF LockExclusive, LockTypeOK
    <3>2. Idle(t)'
      BY <2>1, <3>1 DEF Idle
    <3>3. Backed(t, r)'
      BY <2>1, <2>2, <2>3, <2>5, <3>1, <3>2, AskBacked
    <3> QED BY <1>2, <2>1, <3>1, <3>2, <3>3 DEF WaitsOn
  <2> QED BY <2>4, <2>5
<1>5. ASSUME NEW r \in RIDs, LockUpgrade(t, r) PROVE \A s \in RIDs : Backed(t, s)'
  <2> DEFINE blocked == Blocked(t, "LockUpgrade", r)
             req == [lock_mode |-> "EXCLUSIVE", granted |-> ~blocked]
             q == [requests[r][t] EXCEPT ![1] = req]
  <2>1. /\ Idle(t) /\ state[t] = "GROWING" /\ r \in shared[t] /\ r \notin exclusive[t]
        /\ requests[r][t] # <<>> /\ requests' = [requests EXCEPT ![r][t] = q]
    BY <1>5 DEF LockUpgrade, CanUpgrade
  <2>2. req.lock_mode = "EXCLUSIVE" /\ (req.granted <=> ~blocked)
    OBVIOUS
  <2> HIDE DEF req
  <2>3. requests'[r][t] = q
    BY <2>1 DEF LockTypeOK
  <2>4. CASE blocked
    <3>1. Sleep(t, "LockUpgrade", r) /\ UNCHANGED <<shared, exclusive>>
      BY <1>5, <2>4 DEF LockUpgrade
    <3>2. waiting'[t] = [kind |-> "LockUpgrade", rid |-> r] /\ ~Idle(t)'
      BY <3>1, WaitIsNotIdle DEF Sleep, LockTypeOK, Idle, Kinds
    <3>3. Backed(t, r)'
      BY <2>1, <2>2, <2>3, <2>4, <3>1, <3>2, UpgradeBacked
    <3> HIDE DEF q
    <3>4. \A s \in RIDs \ {r} : ~WaitsOn(t, s) /\ ~WaitsOn(t, s)'
      BY <2>1, <3>2 DEF WaitsOn
    <3>5. \A s \in RIDs \ {r} : (s \in shared'[t] <=> s \in shared[t]) /\ (s \in exclusive'[t] <=> s \in exclusive[t])
      BY <2>1, <3>1
    <3> QED BY <1>2, <2>1, <3>3, <3>4, <3>5
  <2>5. CASE ~blocked
    <3>1. /\ shared'[t] = shared[t] \ {r} /\ exclusive'[t] = exclusive[t] \cup {r}
          /\ UNCHANGED waiting
      BY <1>5, <2>5 DEF LockUpgrade, LockTypeOK
    <3>2. Idle(t)'
      BY <2>1, <3>1 DEF Idle
    <3>3. Backed(t, r)'
      BY <2>1, <2>2, <2>3, <2>5, <3>1, <3>2, UpgradeBacked
    <3> HIDE DEF q
    <3> QED BY <1>2, <2>1, <3>1, <3>2, <3>3 DEF WaitsOn
  <2> QED BY <2>4, <2>5
<1>6. ASSUME NEW r \in RIDs, Unlock(t, r) PROVE \A s \in RIDs : Backed(t, s)'
  <2> DEFINE q == Tail(requests[r][t])
  <2>1. /\ Idle(t) /\ Idle(t)' /\ requests[r][t] # <<>>
        /\ requests' = [requests EXCEPT ![r][t] = q]
    BY <1>6 DEF Unlock, Idle
  <2>2. /\ shared'[t] = shared[t] \ {r} /\ exclusive'[t] = exclusive[t] \ {r}
        /\ state'[t] # "GROWING"
    BY <1>6 DEF Unlock, LockTypeOK, StateAfterUnlock
  <2>3. requests'[r][t] = q
    BY <2>1 DEF LockTypeOK
  <2>4. Backed(t, r)'
    BY <2>1, <2>2, <2>3, UnlockBacked
  <2> HIDE DEF q
  <2> QED BY <1>2, <2>1, <2>2, <2>4 DEF WaitsOn
<1>7. CASE WakeGranted(t)
  <2>1. PICK r \in RIDs, kind \in Kinds : r = waiting[t].rid /\ kind = waiting[t].kind /\ ~Idle(t)
    BY <1>7, WaitingType DEF WakeGranted, Notified
  <2> DEFINE q == [requests[r][t] EXCEPT ![ReqIt(t, kind, r)] = Grant(@)]
  <2>2. requests' = [requests EXCEPT ![r][t] = q] /\ Idle(t)'
    BY <1>7, <2>1 DEF WakeGranted, Idle, LockTypeOK
  <2>3. /\ shared'[t] = IF kind = "LockShared" THEN shared[t] \cup {r}
                        ELSE IF kind = "LockUpgrade" THEN shared[t] \ {r} ELSE shared[t]
        /\ exclusive'[t] = IF kind = "LockShared" THEN exclusive[t] ELSE exclusive[t] \cup {r}
    BY <1>7, <2>1 DEF WakeGranted, LockTypeOK
  <2>4. requests'[r][t] = q
    BY <2>2, SMTT(20) DEF LockTypeOK
  <2>5. Backed(t, r)'
    BY <2>1, <2>2, <2>3, <2>4, GrantBacked
  <2> HIDE DEF q
  <2>6. \A s \in RIDs \ {r} : ~WaitsOn(t, s) /\ ~WaitsOn(t, s)'
    BY <2>1, <2>2 DEF WaitsOn
  <2>7. \A s \in RIDs \ {r} : (s \in shared'[t] <=> s \in shared[t]) /\ (s \in exclusive'[t] <=> s \in exclusive[t])
    BY <2>3
  <2> QED BY <1>2, <2>2, <2>5, <2>6, <2>7
<1>8. CASE WakeAborted(t)
  <2>1. PICK r \in RIDs, kind \in Kinds : r = waiting[t].rid /\ kind = waiting[t].kind /\ ~Idle(t)
    BY <1>8, WaitingType DEF WakeAborted, Notified
  <2> DEFINE q == RemoveAt(requests[r][t], ReqIt(t, kind, r))
  <2>2. requests' = [requests EXCEPT ![r][t] = q] /\ Idle(t)' /\ state'[t] # "GROWING"
    BY <1>8, <2>1 DEF WakeAborted, Idle, LockTypeOK, AbortSeen
  <2>3. /\ shared'[t] = IF kind = "LockUpgrade" THEN shared[t] \ {r} ELSE shared[t]
        /\ exclusive'[t] = exclusive[t]
    BY <1>8, <2>1 DEF WakeAborted, LockTypeOK
  <2> HIDE DEF q
  <2>4. requests'[r][t] = q
    BY <2>2 DEF LockTypeOK
  <2>5. Backed(t, r)'
    BY <2>1, <2>2, <2>3, <2>4, WithdrawBacked DEF q
  <2>6. \A s \in RIDs \ {r} : ~WaitsOn(t, s) /\ ~WaitsOn(t, s)'
    BY <2>1, <2>2 DEF WaitsOn
  <2>7. \A s \in RIDs \ {r} : (s \in shared'[t] <=> s \in shared[t]) /\ (s \in exclusive'[t] <=> s \in exclusive[t])
    BY <2>3
  <2> QED BY <1>2, <2>2, <2>5, <2>6, <2>7
<1> QED
  BY <1>1, <1>3, <1>4, <1>5, <1>6, <1>7, <1>8, SMTT(20)
  DEF TxnStep, ClientStep, Wake, LockWhileShrinking, UpgradeConflict, WakeBlocked,
      SpuriousWakeup, ExternalAbort

\* What a step of another transaction leaves alone stays backed.
LEMMA OthersBacked ==
  ASSUME LockTypeOK, AllBacked, NEW t \in Txns, OthersKept(t), NEW u \in Txns \ {t}, NEW r \in RIDs
  PROVE  Backed(u, r)'
<1>1. /\ Backed(u, r) /\ requests'[r][u] = requests[r][u] /\ waiting'[u] = waiting[u]
      /\ shared'[u] = shared[u] /\ exclusive'[u] = exclusive[u] /\ state'[u] = state[u]
  BY DEF AllBacked, OthersKept
<1>2. /\ (WaitsOn(u, r)' <=> WaitsOn(u, r)) /\ (Upgrader(u, r)' <=> Upgrader(u, r))
      /\ (Granted(u, r)' <=> Granted(u, r)) /\ (GrantedExclusive(u, r)' <=> GrantedExclusive(u, r))
  BY <1>1 DEF WaitsOn, Upgrader, Idle, Granted, GrantedExclusive
<1>3. OthersGranted(u, r)'
  BY <1>1, <1>2 DEF Backed, OthersGranted, ReqIt
<1>4. SetsComplete(u, r)'
  BY <1>1, <1>2 DEF Backed, SetsComplete
<1> QED BY <1>1, <1>2, <1>3, <1>4 DEF Backed

\* Nothing that holds of all transactions is lost when nothing changes.
LEMMA StutterBacked == ASSUME AllBacked, UNCHANGED lockVars PROVE AllBacked'
BY DEF AllBacked, Backed, OthersGranted, SetsComplete, WaitsOn, Upgrader, Idle, Granted,
       GrantedExclusive, ReqIt, lockVars

\* The sets of all transactions stay backed, whatever calls the clients make.
LEMMA AllBackedStep == LockInv /\ AllBacked /\ [LockNext]_lockVars => AllBacked'
<1> SUFFICES ASSUME LockInv, AllBacked, [LockNext]_lockVars PROVE AllBacked'
  OBVIOUS
<1>1. ASSUME NEW t \in Txns, TxnStep(t) PROVE AllBacked'
  <2>1. LockTypeOK /\ WaiterQueued(t) /\ \A s \in RIDs : Backed(t, s)
    BY DEF LockInv, WaitersQueued, AllBacked
  <2>2. \A s \in RIDs : Backed(t, s)'
    BY <1>1, <2>1, OwnBackedStep
  <2>3. OthersKept(t)
    BY <1>1, <2>1, StepIsOwn
  <2>4. ASSUME NEW u \in Txns \ {t}, NEW r \in RIDs PROVE Backed(u, r)'
    BY <2>1, <2>3, <2>4, OthersBacked
  <2> QED BY <2>2, <2>4 DEF AllBacked
<1> QED BY <1>1, StutterBacked DEF LockNext, TxnStep

\* Empty queues back empty sets.
LEMMA AllBackedInit == LockInit => AllBacked
<1> SUFFICES ASSUME LockInit, NEW t \in Txns, NEW r \in RIDs PROVE Backed(t, r)
  BY DEF AllBacked
<1>1. requests[r][t] = <<>> /\ shared[t] = {} /\ exclusive[t] = {} /\ Idle(t)
  BY DEF LockInit, Idle
<1> QED BY <1>1 DEF Backed, OthersGranted, SetsComplete, WaitsOn, Granted, GrantedExclusive

BackedInv == LockInv /\ AllBacked

\* The inductive invariant of the lock sets, whatever calls the clients make.
LEMMA BackedInvariant == LockSpec => []BackedInv
<1>1. LockInit /\ LockInv => BackedInv
  BY AllBackedInit DEF BackedInv
<1>2. BackedInv /\ [LockNext]_lockVars /\ LockInv' => BackedInv'
  BY AllBackedStep DEF BackedInv
<1> QED BY <1>1, <1>2, LockInvariant, PTL DEF LockSpec

\* Backed sets say nothing that the queues do not.
LEMMA BackedSuffices == BackedInv => HeldLocksGranted
<1> SUFFICES ASSUME BackedInv PROVE HeldLocksGranted
  OBVIOUS
<1>1. ASSUME NEW t \in Txns, NEW r \in RIDs
      PROVE  /\ r \in exclusive[t] => GrantedExclusive(t, r)
             /\ r \in shared[t] /\ Idle(t) => Granted(t, r)
             /\ state[t] = "GROWING" /\ Idle(t) /\ requests[r][t] # <<>> => r \in shared[t] \cup exclusive[t]
  BY DEF BackedInv, AllBacked, Backed, SetsComplete, Upgrader, WaitsOn
<1> QED BY <1>1 DEF HeldLocksGranted, BackedInv, LockInv

\* What a transaction believes to hold is granted to it in the queues, and while
\* it grows it has no other request.  Clients may make any call the lock manager
\* accepts, a second request for a RID included.
THEOREM HeldLocksAreGranted == LockSpec => []HeldLocksGranted
BY BackedInvariant, BackedSuffices, PTL

-----------------------------------------------------------------------------
(* The upgrade flag. *)

FlagExact(r) ==
  /\ upgrading[r] <=> \E t \in Txns : Upgrader(t, r)
  /\ \A t, u \in Txns : Upgrader(t, r) /\ Upgrader(u, r) => t = u

\* A step of t leaves flag and upgrader of a RID alone, sets both, or clears both.
FlagStep(t) ==
  \A r \in RIDs :
    \/ (upgrading'[r] <=> upgrading[r]) /\ (Upgrader(t, r)' <=> Upgrader(t, r))
    \/ ~upgrading[r] /\ upgrading'[r] /\ Upgrader(t, r)'
    \/ Upgrader(t, r) /\ ~upgrading'[r] /\ ~Upgrader(t, r)'

\* The flag changes only together with its transaction's wait.
LEMMA FlagOwnStep ==
  ASSUME BackedInv, NEW t \in Txns, TxnStep(t)
  PROVE  FlagStep(t)
<1> USE DEF BackedInv, LockInv
<1>1. CASE UNCHANGED <<upgrading, waiting>>
  BY <1>1 DEF FlagStep, Upgrader, WaitsOn, Idle
<1>2. ASSUME NEW r \in RIDs, LockShared(t, r) PROVE FlagStep(t)
  <2>1. upgrading' = upgrading /\ Idle(t)
    BY <1>2 DEF LockShared
  <2>2. UNCHANGED waiting \/ waiting'[t] = [kind |-> "LockShared", rid |-> r]
    BY <1>2 DEF LockShared, Sleep, LockTypeOK
  <2> QED BY <2>1, <2>2 DEF FlagStep, Upgrader, WaitsOn, Idle
<1>3. ASSUME NEW r \in RIDs, LockExclusive(t, r) PROVE FlagStep(t)
  <2>1. upgrading' = upgrading /\ Idle(t)
    BY <1>3 DEF LockExclusive
  <2>2. UNCHANGED waiting \/ waiting'[t] = [kind |-> "LockExclusive", rid |-> r]
    BY <1>3 DEF LockExclusive, Sleep, LockTypeOK
  <2> QED BY <2>1, <2>2 DEF FlagStep, Upgrader, WaitsOn, Idle
<1>4. ASSUME NEW r \in RIDs, LockUpgrade(t, r) PROVE FlagStep(t)
  <2> DEFINE blocked == Blocked(t, "LockUpgrade", r)
  <2>1. Idle(t) /\ ~upgrading[r] /\ upgrading' = [upgrading EXCEPT ![r] = blocked]
    BY <1>4 DEF LockUpgrade, CanUpgrade
  <2>2. CASE blocked
    <3>1. waiting'[t] = [kind |-> "LockUpgrade", rid |-> r] /\ ~Idle(t)'
      BY <1>4, <2>2, WaitIsNotIdle DEF LockUpgrade, Sleep, LockTypeOK, Idle, Kinds
    <3>2. upgrading'[r] /\ \A s \in RIDs \ {r} : upgrading'[s] = upgrading[s]
      BY <2>1, <2>2 DEF LockTypeOK
    <3> QED BY <2>1, <3>1, <3>2 DEF FlagStep, Upgrader, WaitsOn
  <2>3. CASE ~blocked
    <3>1. UNCHANGED waiting
      BY <1>4, <2>3 DEF LockUpgrade
    <3>2. ~upgrading'[r] /\ \A s \in RIDs \ {r} : upgrading'[s] = upgrading[s]
      BY <2>1, <2>3 DEF LockTypeOK
    <3>3. \A s \in RIDs : Upgrader(t, s)' <=> Upgrader(t, s)
      BY <3>1 DEF Upgrader, WaitsOn, Idle
    <3> QED BY <2>1, <3>2, <3>3 DEF FlagStep
  <2> QED BY <2>2, <2>3
<1>5. ASSUME NEW r \in RIDs, Unlock(t, r) PROVE FlagStep(t)
  <2>1. Idle(t) /\ requests[r][t] # <<>> /\ UNCHANGED waiting
    BY <1>5 DEF Unlock
  <2>2. requests[r][t][1].granted
    <3>1. 1 \in DOMAIN requests[r][t]
      BY <2>1 DEF LockTypeOK
    <3>2. ~WaitsOn(t, r) /\ Backed(t, r)
      BY <2>1 DEF AllBacked, WaitsOn
    <3> QED BY <3>1, <3>2 DEF Backed, OthersGranted
  <2>3. \A s \in RIDs : upgrading'[s] = upgrading[s]
    BY <1>5, <2>2 DEF Unlock, LockTypeOK
  <2> QED BY <2>1, <2>3 DEF FlagStep, Upgrader, WaitsOn, Idle
<1>6. CASE WakeGranted(t) \/ WakeAborted(t)
  <2>1. ~Idle(t) /\ Idle(t)'
    BY <1>6 DEF WakeGranted, WakeAborted, Notified, Idle, LockTypeOK
  <2>2. PICK r \in RIDs, kind \in Kinds : r = waiting[t].rid /\ kind = waiting[t].kind
    BY <2>1, WaitingType
  <2>3. /\ upgrading'[r] = (upgrading[r] /\ kind # "LockUpgrade")
        /\ \A s \in RIDs \ {r} : upgrading'[s] = upgrading[s]
    BY <1>6, <2>2 DEF WakeGranted, WakeAborted, FlagAfterWait, LockTypeOK
  <2>4. CASE kind = "LockUpgrade"
    BY <2>1, <2>2, <2>3, <2>4 DEF FlagStep, Upgrader, WaitsOn
  <2>5. CASE kind # "LockUpgrade"
    <3>1. upgrading'[r] = upgrading[r]
      BY <2>3, <2>5 DEF LockTypeOK
    <3> QED BY <2>1, <2>2, <2>3, <2>5, <3>1 DEF FlagStep, Upgrader, WaitsOn
  <2> QED BY <2>4, <2>5
<1> QED
  BY <1>1, <1>2, <1>3, <1>4, <1>5, <1>6
  DEF TxnStep, ClientStep, Wake, LockWhileShrinking, UpgradeConflict, WakeBlocked,
      SpuriousWakeup, ExternalAbort

AllFlagsExact == \A r \in RIDs : FlagExact(r)

\* No step leaves a flag behind its upgrader or an upgrader without its flag.
LEMMA FlagsExactStep == BackedInv /\ AllFlagsExact /\ [LockNext]_lockVars => AllFlagsExact'
<1> SUFFICES ASSUME BackedInv, AllFlagsExact, [LockNext]_lockVars PROVE AllFlagsExact'
  OBVIOUS
<1>1. ASSUME NEW t \in Txns, TxnStep(t), NEW r \in RIDs PROVE FlagExact(r)'
  <2>1. FlagStep(t) /\ FlagExact(r)
    BY <1>1, FlagOwnStep DEF AllFlagsExact
  <2>2. OthersKept(t)
    BY <1>1, StepIsOwn DEF BackedInv, LockInv
  <2>3. \A u \in Txns \ {t} : Upgrader(u, r)' <=> Upgrader(u, r)
    BY <2>2 DEF OthersKept, Upgrader, WaitsOn, Idle
  <2> QED BY <2>1, <2>3 DEF FlagStep, FlagExact
<1>2. CASE UNCHANGED lockVars
  BY <1>2 DEF lockVars, AllFlagsExact, FlagExact, Upgrader, WaitsOn, Idle
<1> QED BY <1>1, <1>2 DEF LockNext, TxnStep, AllFlagsExact

\* No flag is set at the start, and the per-RID statements are the property.
LEMMA FlagsExactFacts == (LockInit => AllFlagsExact) /\ (AllFlagsExact => UpgradeFlagExact)
<1>1. LockInit => AllFlagsExact
  BY DEF LockInit, AllFlagsExact, FlagExact, Upgrader, WaitsOn, Idle
<1>2. AllFlagsExact => UpgradeFlagExact
  BY DEF AllFlagsExact, FlagExact, Upgrader, WaitsOn, Idle, UpgradeFlagExact, WaitersOn
<1> QED BY <1>1, <1>2

\* upgrading_ is set exactly while one transaction waits in LockUpgrade, and two
\* never do: no way out of the wait leaves the flag behind, whatever calls the
\* clients make.
THEOREM UpgradeFlagsExact == LockSpec => []UpgradeFlagExact
BY FlagsExactStep, FlagsExactFacts, BackedInvariant, PTL DEF LockSpec

-----------------------------------------------------------------------------
(* Wake-ups. *)

\* A transaction has at most one request on a RID.
Single == \A t \in Txns, r \in RIDs : Len(requests[r][t]) <= 1

WakeInv == BackedInv /\ Single

\* A transaction asks only for RIDs on which it has no request, provided that no
\* client asks for an exclusive lock on a RID it holds shared.
LEMMA SingleStep ==
  ASSUME DirectExclusive = FALSE, WakeInv, NEW t \in Txns, TxnStep(t)
  PROVE  \A r \in RIDs : Len(requests'[r][t]) <= 1
<1> USE DEF WakeInv, BackedInv, LockInv
<1>1. CASE UNCHANGED requests
  BY <1>1 DEF Single
<1>2. ASSUME NEW r \in RIDs, NEW q, requests' = [requests EXCEPT ![r][t] = q], Len(q) <= 1
      PROVE  \A s \in RIDs : Len(requests'[s][t]) <= 1
  <2>1. requests'[r][t] = q /\ \A s \in RIDs \ {r} : requests'[s][t] = requests[s][t]
    BY <1>2 DEF LockTypeOK
  <2> QED BY <1>2, <2>1 DEF Single
<1>3. ASSUME NEW r \in RIDs, LockShared(t, r) \/ LockExclusive(t, r)
      PROVE  \A s \in RIDs : Len(requests'[s][t]) <= 1
  <2>1. Idle(t) /\ state[t] = "GROWING" /\ r \notin shared[t] /\ r \notin exclusive[t]
    BY <1>3 DEF LockShared, LockExclusive
  <2>2. requests[r][t] = <<>>
    BY <2>1 DEF AllBacked, Backed, SetsComplete, WaitsOn
  <2>3. PICK req : requests' = [requests EXCEPT ![r][t] = Append(<<>>, req)]
    BY <1>3, <2>2 DEF LockShared, LockExclusive
  <2>4. Len(Append(<<>>, req)) <= 1
    OBVIOUS
  <2> QED BY <1>2, <2>3, <2>4
<1>4. ASSUME NEW r \in RIDs, LockUpgrade(t, r) PROVE \A s \in RIDs : Len(requests'[s][t]) <= 1
  <2> DEFINE req == [lock_mode |-> "EXCLUSIVE", granted |-> ~Blocked(t, "LockUpgrade", r)]
             q == [requests[r][t] EXCEPT ![1] = req]
  <2>1. requests' = [requests EXCEPT ![r][t] = q] /\ requests[r][t] \in Seq(LockRequest)
    BY <1>4 DEF LockUpgrade, LockTypeOK
  <2>2. req \in LockRequest
    BY DEF LockRequest, Modes
  <2> HIDE DEF req
  <2>3. Len(q) = Len(requests[r][t])
    BY <2>1, <2>2, ReplaceAtType
  <2>4. Len(q) <= 1
    BY <2>3 DEF Single
  <2> HIDE DEF q
  <2> QED BY <1>2, <2>1, <2>4
<1>5. ASSUME NEW r \in RIDs, Unlock(t, r) PROVE \A s \in RIDs : Len(requests'[s][t]) <= 1
  <2> DEFINE q == Tail(requests[r][t])
  <2>1. /\ requests' = [requests EXCEPT ![r][t] = q] /\ requests[r][t] # <<>>
        /\ requests[r][t] \in Seq(LockRequest)
    BY <1>5 DEF Unlock, LockTypeOK
  <2>2. Len(q) <= 1
    BY <2>1 DEF Single
  <2> HIDE DEF q
  <2> QED BY <1>2, <2>1, <2>2
<1>6. CASE WakeGranted(t)
  <2>1. PICK r \in RIDs, kind \in Kinds : r = waiting[t].rid /\ kind = waiting[t].kind /\ ~Idle(t)
    BY <1>6, WaitingType DEF WakeGranted, Notified
  <2> DEFINE k == ReqIt(t, kind, r)
             req == Grant(requests[r][t][k])
             q == [requests[r][t] EXCEPT ![k] = req]
  <2>2. requests' = [requests EXCEPT ![r][t] = q] /\ requests[r][t] \in Seq(LockRequest)
    BY <1>6, <2>1 DEF WakeGranted, LockTypeOK
  <2>3. k \in DOMAIN requests[r][t] /\ k \in Nat
    BY <2>1, WaitingType DEF WaitersQueued, WaiterQueued
  <2> HIDE DEF k
  <2>4. req \in LockRequest
    BY <2>2, <2>3, GrantType
  <2> HIDE DEF req
  <2>5. Len(q) = Len(requests[r][t])
    BY <2>2, <2>3, <2>4, ReplaceAtType
  <2>6. Len(q) <= 1
    BY <2>5 DEF Single
  <2> HIDE DEF q
  <2> QED BY <1>2, <2>2, <2>6
<1>7. CASE WakeAborted(t)
  <2>1. PICK r \in RIDs, kind \in Kinds : r = waiting[t].rid /\ kind = waiting[t].kind /\ ~Idle(t)
    BY <1>7, WaitingType DEF WakeAborted, Notified
  <2> DEFINE k == ReqIt(t, kind, r)
             q == RemoveAt(requests[r][t], k)
  <2>2. requests' = [requests EXCEPT ![r][t] = q] /\ requests[r][t] \in Seq(LockRequest)
    BY <1>7, <2>1 DEF WakeAborted, LockTypeOK
  <2>3. Len(requests[r][t]) = 1
    <3> DEFINE n == Len(requests[r][t])
    <3>1. k \in 1 .. n
      BY <2>1 DEF WaitersQueued, WaiterQueued
    <3>2. n \in Nat /\ n <= 1
      BY <2>2 DEF Single
    <3> HIDE DEF k, n
    <3>3. n = 1
      BY <3>1, <3>2
    <3> QED BY <3>3 DEF n
  <2> HIDE DEF k
  <2>4. Len(q) <= 1
    BY <2>2, <2>3 DEF RemoveAt
  <2> HIDE DEF q
  <2> QED BY <1>2, <2>2, <2>4
<1> QED
  BY <1>1, <1>3, <1>4, <1>5, <1>6, <1>7
  DEF TxnStep, ClientStep, Wake, LockWhileShrinking, UpgradeConflict, WakeBlocked,
      SpuriousWakeup, ExternalAbort

\* The invariant behind the wake-ups is inductive.
LEMMA WakeInvStep ==
  ASSUME DirectExclusive = FALSE, WakeInv, [LockNext]_lockVars
  PROVE  WakeInv'
<1>1. BackedInv'
  BY TypeStep, WaitersQueuedStep, CompatibleStep, AllBackedStep DEF WakeInv, BackedInv, LockInv
<1>2. ASSUME NEW t \in Txns, TxnStep(t) PROVE Single'
  <2>1. OthersKept(t)
    BY <1>2, StepIsOwn DEF WakeInv, BackedInv, LockInv
  <2> QED BY <1>2, <2>1, SingleStep DEF Single, OthersKept, WakeInv
<1>3. ASSUME UNCHANGED lockVars PROVE Single'
  BY <1>3 DEF Single, WakeInv, lockVars
<1> QED BY <1>1, <1>2, <1>3 DEF WakeInv, LockNext, TxnStep

\* It holds before the first call.
LEMMA WakeInvInit == LockInit /\ LockInv => WakeInv
<1>1. LockInit => Single
  BY DEF LockInit, Single
<1> QED BY <1>1, AllBackedInit DEF WakeInv, BackedInv

\* A thread that waits on a RID has been granted nothing there.
LEMMA WaiterHasNothing ==
  ASSUME WakeInv, NEW t \in Txns, NEW r \in RIDs, WaitsOn(t, r)
  PROVE  ~Granted(t, r)
<1> DEFINE q == requests[r][t]
           k == ReqIt(t, waiting[t].kind, r)
<1>1. q \in Seq(LockRequest) /\ Len(q) <= 1
  BY DEF WakeInv, BackedInv, LockInv, LockTypeOK, Single
<1>2. k \in DOMAIN q /\ ~q[k].granted
  BY DEF WakeInv, BackedInv, LockInv, WaitersQueued, WaiterQueued, WaitsOn
<1> HIDE DEF k, q
<1>3. \A i \in DOMAIN q : i = k
  BY <1>1, <1>2
<1> QED BY <1>2, <1>3 DEF Granted, q

KeepsGrants(t, r) ==
  /\ Granted(t, r) => Granted(t, r)'
  /\ GrantedExclusive(t, r) => GrantedExclusive(t, r)'

\* A step takes a grant of t away only with a notification, or in a LockUpgrade
\* that somebody else blocks.
ReleaseIsSeen(t) ==
  \A r \in RIDs :
    \/ KeepsGrants(t, r)
    \/ \A u \in asleep' : ~WaitsOn(u, r)
    \/ ~GrantedExclusive(t, r) /\ \E v \in Txns \ {t} : Granted(v, r)

\* No step of t releases a lock unseen.
LEMMA ReleaseNotifies ==
  ASSUME WakeInv, NEW t \in Txns, TxnStep(t)
  PROVE  ReleaseIsSeen(t)
<1> USE DEF WakeInv, BackedInv, LockInv
<1>1. CASE UNCHANGED requests
  BY <1>1 DEF ReleaseIsSeen, KeepsGrants, Granted, GrantedExclusive
<1>2. ASSUME NEW r \in RIDs, LockShared(t, r) PROVE ReleaseIsSeen(t)
  <2> DEFINE old == requests[r][t]
             req == [lock_mode |-> "SHARED", granted |-> ~Blocked(t, "LockShared", r)]
  <2>1. requests' = [requests EXCEPT ![r][t] = Append(old, req)] /\ old \in Seq(LockRequest)
    BY <1>2 DEF LockShared, LockTypeOK
  <2> HIDE DEF req
  <2>2. requests'[r][t] = Append(old, req) /\ \A s \in RIDs \ {r} : requests'[s][t] = requests[s][t]
    BY <2>1 DEF LockTypeOK
  <2>3. \A i \in DOMAIN old : i \in DOMAIN requests'[r][t] /\ requests'[r][t][i] = old[i]
    BY <2>1, <2>2
  <2>4. KeepsGrants(t, r)
    <3> HIDE DEF old
    <3>1. Granted(t, r) => Granted(t, r)'
      BY <2>3 DEF Granted, old
    <3>2. GrantedExclusive(t, r) => GrantedExclusive(t, r)'
      BY <2>3 DEF GrantedExclusive, old
    <3> QED BY <3>1, <3>2 DEF KeepsGrants
  <2>5. \A s \in RIDs \ {r} : KeepsGrants(t, s)
    BY <2>2 DEF KeepsGrants, Granted, GrantedExclusive
  <2> QED BY <2>4, <2>5 DEF ReleaseIsSeen
<1>3. ASSUME NEW r \in RIDs, LockExclusive(t, r) PROVE ReleaseIsSeen(t)
  <2> DEFINE old == requests[r][t]
             req == [lock_mode |-> "EXCLUSIVE", granted |-> ~Blocked(t, "LockExclusive", r)]
  <2>1. requests' = [requests EXCEPT ![r][t] = Append(old, req)] /\ old \in Seq(LockRequest)
    BY <1>3 DEF LockExclusive, LockTypeOK
  <2> HIDE DEF req
  <2>2. requests'[r][t] = Append(old, req) /\ \A s \in RIDs \ {r} : requests'[s][t] = requests[s][t]
    BY <2>1 DEF LockTypeOK
  <2>3. \A i \in DOMAIN old : i \in DOMAIN requests'[r][t] /\ requests'[r][t][i] = old[i]
    BY <2>1, <2>2
  <2>4. KeepsGrants(t, r)
    <3> HIDE DEF old
    <3>1. Granted(t, r) => Granted(t, r)'
      BY <2>3 DEF Granted, old
    <3>2. GrantedExclusive(t, r) => GrantedExclusive(t, r)'
      BY <2>3 DEF GrantedExclusive, old
    <3> QED BY <3>1, <3>2 DEF KeepsGrants
  <2>5. \A s \in RIDs \ {r} : KeepsGrants(t, s)
    BY <2>2 DEF KeepsGrants, Granted, GrantedExclusive
  <2> QED BY <2>4, <2>5 DEF ReleaseIsSeen
<1>4. ASSUME NEW r \in RIDs, LockUpgrade(t, r) PROVE ReleaseIsSeen(t)
  <2> DEFINE old == requests[r][t]
             req == [lock_mode |-> "EXCLUSIVE", granted |-> ~Blocked(t, "LockUpgrade", r)]
             q == [old EXCEPT ![1] = req]
  <2>1. requests' = [requests EXCEPT ![r][t] = q] /\ old \in Seq(LockRequest)
    BY <1>4 DEF LockUpgrade, LockTypeOK
  <2>2. Idle(t) /\ state[t] = "GROWING" /\ r \notin exclusive[t] /\ old # <<>>
    BY <1>4 DEF LockUpgrade, CanUpgrade
  <2>5. ~GrantedExclusive(t, r)
    BY <2>2 DEF AllBacked, Backed, SetsComplete, WaitsOn
  <2>6. \A s \in RIDs \ {r} : requests'[s][t] = requests[s][t]
    BY <2>1 DEF LockTypeOK
  <2>7. CASE Blocked(t, "LockUpgrade", r)
    <3>1. \E v \in Txns \ {t} : Granted(v, r)
      BY <2>7 DEF Blocked
    <3> QED BY <2>5, <2>6, <3>1 DEF ReleaseIsSeen, KeepsGrants, Granted, GrantedExclusive
  <2>8. CASE ~Blocked(t, "LockUpgrade", r)
    <3>1. req.granted
      BY <2>8
    <3> HIDE DEF req
    <3>2. 1 \in DOMAIN old /\ 1 \in DOMAIN q /\ q[1] = req
      BY <2>1, <2>2
    <3> HIDE DEF q
    <3>3. Granted(t, r)'
      <4>1. requests'[r][t] = q
        BY <2>1 DEF LockTypeOK
      <4> QED BY <3>1, <3>2, <4>1 DEF Granted
    <3> QED BY <2>5, <2>6, <3>3 DEF ReleaseIsSeen, KeepsGrants, Granted, GrantedExclusive
  <2> QED BY <2>7, <2>8
<1>5. ASSUME NEW r \in RIDs, Unlock(t, r) PROVE ReleaseIsSeen(t)
  <2>1. \A s \in RIDs \ {r} : requests'[s][t] = requests[s][t]
    BY <1>5 DEF Unlock, LockTypeOK
  <2>2. \A u \in asleep' : ~WaitsOn(u, r)
    BY <1>5 DEF Unlock, NotifyAll, WaitersOn, WaitsOn, LockTypeOK, Idle
  <2> QED BY <2>1, <2>2 DEF ReleaseIsSeen, KeepsGrants, Granted, GrantedExclusive
<1>6. CASE WakeGranted(t) \/ WakeAborted(t)
  <2>1. ~Idle(t)
    BY <1>6 DEF WakeGranted, WakeAborted, Notified
  <2>2. PICK r \in RIDs : r = waiting[t].rid
    BY <2>1, WaitingType
  <2>3. \A s \in RIDs \ {r} : requests'[s][t] = requests[s][t]
    BY <1>6, <2>2 DEF WakeGranted, WakeAborted, LockTypeOK
  <2>4. WaitsOn(t, r)
    BY <2>1, <2>2 DEF WaitsOn
  <2>5. ~Granted(t, r)
    BY <2>4, WaiterHasNothing
  <2>6. ~Granted(t, r) /\ ~GrantedExclusive(t, r)
    BY <2>5 DEF Granted, GrantedExclusive
  <2> QED BY <2>3, <2>6 DEF ReleaseIsSeen, KeepsGrants, Granted, GrantedExclusive
<1> QED
  BY <1>1, <1>2, <1>3, <1>4, <1>5, <1>6
  DEF TxnStep, ClientStep, Wake, LockWhileShrinking, UpgradeConflict, WakeBlocked,
      SpuriousWakeup, ExternalAbort

\* After a step of t, t sleeps only if it is aborted or blocked.
SleepsBlocked(t) ==
  t \in asleep' => \/ state'[t] = "ABORTED"
                   \/ Blocked(t, waiting'[t].kind, waiting'[t].rid)

\* A thread goes to sleep only while its predicate is false.
LEMMA OwnSleepStep ==
  ASSUME WakeInv, NoLostWakeup, NEW t \in Txns, TxnStep(t)
  PROVE  SleepsBlocked(t) /\ asleep' \subseteq asleep \cup {t}
<1> USE DEF WakeInv, BackedInv, LockInv
<1>2. ASSUME NEW r \in RIDs, LockShared(t, r) PROVE SleepsBlocked(t)
  <2>1. CASE Blocked(t, "LockShared", r)
    <3>1. waiting'[t] = [kind |-> "LockShared", rid |-> r]
      BY <1>2, <2>1 DEF LockShared, Sleep, LockTypeOK
    <3> QED BY <2>1, <3>1 DEF SleepsBlocked
  <2>2. CASE ~Blocked(t, "LockShared", r)
    <3>1. asleep' = asleep /\ Idle(t)
      BY <1>2, <2>2 DEF LockShared, CanUpgrade
    <3> QED BY <3>1 DEF SleepsBlocked, LockTypeOK
  <2> QED BY <2>1, <2>2
<1>3. ASSUME NEW r \in RIDs, LockExclusive(t, r) PROVE SleepsBlocked(t)
  <2>1. CASE Blocked(t, "LockExclusive", r)
    <3>1. waiting'[t] = [kind |-> "LockExclusive", rid |-> r]
      BY <1>3, <2>1 DEF LockExclusive, Sleep, LockTypeOK
    <3> QED BY <2>1, <3>1 DEF SleepsBlocked
  <2>2. CASE ~Blocked(t, "LockExclusive", r)
    <3>1. asleep' = asleep /\ Idle(t)
      BY <1>3, <2>2 DEF LockExclusive, CanUpgrade
    <3> QED BY <3>1 DEF SleepsBlocked, LockTypeOK
  <2> QED BY <2>1, <2>2
<1>4. ASSUME NEW r \in RIDs, LockUpgrade(t, r) PROVE SleepsBlocked(t)
  <2>1. CASE Blocked(t, "LockUpgrade", r)
    <3>1. waiting'[t] = [kind |-> "LockUpgrade", rid |-> r]
      BY <1>4, <2>1 DEF LockUpgrade, Sleep, LockTypeOK
    <3> QED BY <2>1, <3>1 DEF SleepsBlocked
  <2>2. CASE ~Blocked(t, "LockUpgrade", r)
    <3>1. asleep' = asleep /\ Idle(t)
      BY <1>4, <2>2 DEF LockUpgrade, CanUpgrade
    <3> QED BY <3>1 DEF SleepsBlocked, LockTypeOK
  <2> QED BY <2>1, <2>2
<1>5. ASSUME NEW r \in RIDs, Unlock(t, r) PROVE SleepsBlocked(t)
  BY <1>5 DEF Unlock, NotifyAll, SleepsBlocked, LockTypeOK
<1>6. CASE LockWhileShrinking(t) \/ ExternalAbort(t)
  BY <1>6 DEF LockWhileShrinking, ExternalAbort, SleepsBlocked, LockTypeOK
<1>7. ASSUME NEW r \in RIDs, UpgradeConflict(t, r) PROVE SleepsBlocked(t)
  BY <1>7 DEF UpgradeConflict, SleepsBlocked, LockTypeOK
<1>8. CASE WakeBlocked(t)
  BY <1>8 DEF WakeBlocked, SleepsBlocked
<1>9. CASE WakeGranted(t) \/ WakeAborted(t)
  BY <1>9 DEF WakeGranted, WakeAborted, Notified, NotifyAll, SleepsBlocked
<1>10. CASE SpuriousWakeup(t)
  BY <1>10, SMTT(30) DEF SpuriousWakeup, SleepsBlocked
<1>11. asleep' \subseteq asleep \cup {t}
  BY DEF TxnStep, ClientStep, Wake, LockWhileShrinking, UpgradeConflict, WakeBlocked,
         SpuriousWakeup, ExternalAbort, LockShared, LockExclusive, LockUpgrade, Sleep,
         Unlock, NotifyAll, WakeGranted, WakeAborted
<1> QED
  BY <1>2, <1>3, <1>4, <1>5, <1>6, <1>7, <1>8, <1>9, <1>10, <1>11
  DEF TxnStep, ClientStep, Wake

\* A change that makes the predicate of a sleeping thread true notifies the
\* thread, except an abort from outside.
LEMMA WakeupStep == WakeInv /\ NoLostWakeup /\ [LockNext]_lockVars => NoLostWakeup'
<1> SUFFICES ASSUME WakeInv, NoLostWakeup, [LockNext]_lockVars PROVE NoLostWakeup'
  OBVIOUS
<1> USE DEF WakeInv, BackedInv, LockInv
<1>1. ASSUME NEW t \in Txns, TxnStep(t), NEW u \in asleep'
      PROVE  state'[u] = "ABORTED" \/ Blocked(u, waiting[u].kind, waiting[u].rid)'
  <2>1. OthersKept(t)
    BY <1>1, StepIsOwn
  <2>2. \A r \in RIDs, v \in Txns \ {t} :
          (Granted(v, r)' <=> Granted(v, r)) /\ (GrantedExclusive(v, r)' <=> GrantedExclusive(v, r))
    BY <2>1 DEF OthersKept, Granted, GrantedExclusive
  <2>3. SleepsBlocked(t) /\ asleep' \subseteq asleep \cup {t}
    BY <1>1, OwnSleepStep
  <2>4. LockTypeOK' /\ u \in Txns
    BY <1>1, TypeStep, <2>3 DEF LockTypeOK
  <2>5. PICK r \in RIDs, kind \in Kinds : r = waiting'[u].rid /\ kind = waiting'[u].kind
    <3>1. waiting'[u] \in Wait
      BY <1>1, <2>4 DEF LockTypeOK, Idle
    <3> QED BY <3>1 DEF Wait
  <2>6. CASE u = t
    <3>1. state'[t] = "ABORTED" \/ Blocked(t, kind, r)
      BY <1>1, <2>3, <2>5, <2>6 DEF SleepsBlocked
    <3>2. Blocked(t, kind, r) => Blocked(t, kind, r)'
      BY <2>2 DEF Blocked
    <3> QED BY <2>5, <2>6, <3>1, <3>2 DEF Blocked
  <2>7. CASE u # t
    <3>1. u \in asleep /\ waiting'[u] = waiting[u] /\ state'[u] = state[u]
      BY <1>1, <2>1, <2>3, <2>4, <2>7 DEF OthersKept
    <3>2. state[u] = "ABORTED" \/ Blocked(u, kind, r)
      BY <2>5, <3>1 DEF NoLostWakeup
    <3>3. WaitsOn(u, r)
      BY <2>5, <3>1 DEF WaitsOn, LockTypeOK
    <3>4. ASSUME Blocked(u, kind, r) PROVE Blocked(u, kind, r)'
      <4>1. PICK v \in Txns \ {u} :
              IF kind = "LockShared" THEN GrantedExclusive(v, r) ELSE Granted(v, r)
        BY <3>4 DEF Blocked
      <4>2. CASE v # t
        BY <2>2, <4>1, <4>2 DEF Blocked
      <4>3. CASE v = t
        <5>1. ReleaseIsSeen(t)
          BY <1>1, ReleaseNotifies
        <5>2. CASE KeepsGrants(t, r)
          BY <4>1, <4>3, <5>2 DEF KeepsGrants, Blocked
        <5>3. CASE ~GrantedExclusive(t, r) /\ \E w \in Txns \ {t} : Granted(w, r)
          <6>1. PICK w \in Txns \ {t} : Granted(w, r)
            BY <5>3
          <6>2. kind # "LockShared"
            BY <4>1, <4>3, <5>3
          <6>3. ~Granted(u, r)
            BY <2>4, <3>3, WaiterHasNothing
          <6>4. Granted(w, r)' /\ w # u
            BY <2>2, <6>1, <6>3
          <6> QED BY <6>2, <6>4 DEF Blocked
        <5> QED BY <1>1, <3>3, <5>1, <5>2, <5>3 DEF ReleaseIsSeen
      <4> QED BY <4>2, <4>3
    <3> QED BY <2>5, <3>1, <3>2, <3>4 DEF Blocked
  <2> QED BY <2>6, <2>7
<1>2. CASE UNCHANGED lockVars
  BY <1>2 DEF lockVars, NoLostWakeup, Blocked, Granted, GrantedExclusive
<1> QED BY <1>1, <1>2 DEF LockNext, TxnStep, NoLostWakeup

\* No wake-up is lost: every change that makes the predicate of a sleeping
\* thread true notifies it, except an abort from outside.  The assumption is
\* needed: LockUpgrade takes a shared grant back without notifying, and a client
\* that waits for an exclusive lock on a RID it holds shared may sleep on then.
THEOREM NoWakeupLost ==
  ASSUME DirectExclusive = FALSE
  PROVE  LockSpec => []NoLostWakeup
<1>1. LockInit => NoLostWakeup
  BY DEF LockInit, NoLostWakeup
<1>2. WakeInv /\ [LockNext]_lockVars => WakeInv'
  <2> SUFFICES ASSUME WakeInv, [LockNext]_lockVars PROVE WakeInv'
    OBVIOUS
  <2> QED BY WakeInvStep
<1> QED BY <1>1, <1>2, WakeInvInit, WakeupStep, LockInvariant, PTL DEF LockSpec
=============================================================================
