---------------------------- MODULE LockManager -----------------------------
(***************************************************************************)
(* The two-phase lock manager (concurrency/lock_manager.cpp) and the       *)
(* transactions that call it, one thread per transaction.                  *)
(*                                                                         *)
(* Every operation runs under latch_, which cv_.wait releases: a call is   *)
(* one step up to the wait, and one step from each wake-up to the return   *)
(* or to the next wait.  The request queue of a RID is kept per            *)
(* transaction, in order: the code never compares the positions of         *)
(* requests of different transactions, and it finds a transaction's        *)
(* request as the first of its own (Unlock, LockUpgrade) or through an     *)
(* iterator (req_it).  Calls that return without effect (lock already      *)
(* held, transaction aborted, nothing to unlock) are stuttering steps.     *)
(***************************************************************************)
EXTENDS Integers, Sequences, FiniteSets

CONSTANTS Txns, RIDs,
          DirectExclusive  \* clients call LockExclusive on a RID they hold shared

ASSUME LockAssumption == DirectExclusive \in BOOLEAN

VARIABLES state,      \* state_ of the transactions
          shared,     \* shared_lock_set_
          exclusive,  \* exclusive_lock_set_
          requests,   \* requests[r][t]: the requests of t in r's request_queue_
          upgrading,  \* upgrading_ of the queues
          waiting,    \* the wait a transaction's thread is in
          asleep      \* threads not notified since their predicate was false

txnVars  == <<state, shared, exclusive>>
lockVars == <<state, shared, exclusive, requests, upgrading, waiting, asleep>>

States == {"GROWING", "SHRINKING", "COMMITTED", "ABORTED"}
Modes  == {"SHARED", "EXCLUSIVE"}
Kinds  == {"LockShared", "LockExclusive", "LockUpgrade"}

LockRequest == [lock_mode : Modes, granted : BOOLEAN]

NotWaiting == [kind |-> "none"]
Wait == [kind : Kinds, rid : RIDs]

LockInit ==
  /\ state = [t \in Txns |-> "GROWING"]
  /\ shared = [t \in Txns |-> {}]
  /\ exclusive = [t \in Txns |-> {}]
  /\ requests = [r \in RIDs |-> [t \in Txns |-> <<>>]]
  /\ upgrading = [r \in RIDs |-> FALSE]
  /\ waiting = [t \in Txns |-> NotWaiting]
  /\ asleep = {}

-----------------------------------------------------------------------------
(* The wait predicates and the condition variable. *)

Granted(t, r) == \E i \in DOMAIN requests[r][t] : requests[r][t][i].granted

GrantedExclusive(t, r) ==
  \E i \in DOMAIN requests[r][t] :
    requests[r][t][i].granted /\ requests[r][t][i].lock_mode = "EXCLUSIVE"

\* Mistake: only exclusive locks block.
BlockedByExclusive(t, kind, r) == \E u \in Txns \ {t} : GrantedExclusive(u, r)

\* The loops of the wait predicates, without the test for ABORTED.
Blocked(t, kind, r) ==
  \E u \in Txns \ {t} :
    IF kind = "LockShared" THEN GrantedExclusive(u, r) ELSE Granted(u, r)

Idle(t) == waiting[t] = NotWaiting

\* Mistake: the predicate forgets that the transaction may be aborted.
AbortMissed(t) == FALSE

AbortSeen(t) == state[t] = "ABORTED"

WaitersOn(r) == {t \in Txns : waiting[t] # NotWaiting /\ waiting[t].rid = r}

Sleep(t, kind, r) ==
  /\ waiting' = [waiting EXCEPT ![t] = [kind |-> kind, rid |-> r]]
  /\ asleep' = asleep \cup {t}

\* Mistake: nobody is notified.
NotifyNobody(r) == asleep' = asleep

\* cv_.notify_all()
NotifyAll(r) == asleep' = asleep \ WaitersOn(r)

Notified(t) == ~Idle(t) /\ t \notin asleep

\* req_it: LockUpgrade reuses the first request, the others append one.
ReqIt(t, kind, r) == IF kind = "LockUpgrade" THEN 1 ELSE Len(requests[r][t])

\* Mistake: the request of a thread that waited is not marked.
GrantForgotten(req) == req

\* req_it->granted_ = true
Grant(req) == [lock_mode |-> req.lock_mode, granted |-> TRUE]

\* request_queue_.erase(req_it)
RemoveAt(q, k) == [i \in 1 .. Len(q) - 1 |-> q[IF i < k THEN i ELSE i + 1]]

\* Mistake: upgrading_ is not reset when the wait ends.
FlagKept(kind, flag) == flag

FlagAfterWait(kind, flag) == flag /\ kind # "LockUpgrade"

\* Mistake: releasing a lock shrinks even a finished transaction.
AlwaysShrinking(s) == "SHRINKING"

StateAfterUnlock(s) == IF s = "GROWING" THEN "SHRINKING" ELSE s

-----------------------------------------------------------------------------
(* The calls, up to their return or their first wait. *)

\* Every lock call of a transaction that has released a lock aborts it.
LockWhileShrinking(t) ==
  /\ Idle(t) /\ state[t] = "SHRINKING"
  /\ state' = [state EXCEPT ![t] = "ABORTED"]
  /\ UNCHANGED <<shared, exclusive, requests, upgrading, waiting, asleep>>

LockShared(t, r) ==
  /\ Idle(t) /\ state[t] = "GROWING"
  /\ r \notin shared[t] /\ r \notin exclusive[t]
  /\ LET blocked == Blocked(t, "LockShared", r)
     IN  /\ requests' = [requests EXCEPT ![r][t] =
                           Append(@, [lock_mode |-> "SHARED", granted |-> ~blocked])]
         /\ IF blocked
            THEN Sleep(t, "LockShared", r) /\ UNCHANGED shared
            ELSE shared' = [shared EXCEPT ![t] = @ \cup {r}] /\ UNCHANGED <<waiting, asleep>>
  /\ UNCHANGED <<state, exclusive, upgrading>>

LockExclusive(t, r) ==
  /\ Idle(t) /\ state[t] = "GROWING"
  /\ r \notin exclusive[t]
  /\ r \in shared[t] => DirectExclusive
  /\ LET blocked == Blocked(t, "LockExclusive", r)
     IN  /\ requests' = [requests EXCEPT ![r][t] =
                           Append(@, [lock_mode |-> "EXCLUSIVE", granted |-> ~blocked])]
         /\ IF blocked
            THEN Sleep(t, "LockExclusive", r) /\ UNCHANGED exclusive
            ELSE exclusive' = [exclusive EXCEPT ![t] = @ \cup {r}] /\ UNCHANGED <<waiting, asleep>>
  /\ UNCHANGED <<state, shared, upgrading>>

CanUpgrade(t, r) ==
  Idle(t) /\ state[t] = "GROWING" /\ r \in shared[t] /\ r \notin exclusive[t]

\* Another transaction is waiting for an upgrade of the same RID.
UpgradeConflict(t, r) ==
  /\ CanUpgrade(t, r) /\ upgrading[r]
  /\ state' = [state EXCEPT ![t] = "ABORTED"]
  /\ UNCHANGED <<shared, exclusive, requests, upgrading, waiting, asleep>>

\* The request becomes an exclusive one that is not granted until the wait ends.
LockUpgrade(t, r) ==
  /\ CanUpgrade(t, r) /\ ~upgrading[r] /\ requests[r][t] # <<>>
  /\ LET blocked == Blocked(t, "LockUpgrade", r)
     IN  /\ upgrading' = [upgrading EXCEPT ![r] = blocked]
         /\ requests' = [requests EXCEPT ![r][t][1] =
                           [lock_mode |-> "EXCLUSIVE", granted |-> ~blocked]]
         /\ IF blocked
            THEN Sleep(t, "LockUpgrade", r) /\ UNCHANGED <<shared, exclusive>>
            ELSE /\ shared' = [shared EXCEPT ![t] = @ \ {r}]
                 /\ exclusive' = [exclusive EXCEPT ![t] = @ \cup {r}]
                 /\ UNCHANGED <<waiting, asleep>>
  /\ UNCHANGED state

\* Removes the transaction's first request on r, whatever it is.
Unlock(t, r) ==
  /\ Idle(t) /\ requests[r][t] # <<>>
  /\ LET first == requests[r][t][1]
     IN  upgrading' = [upgrading EXCEPT ![r] = @ /\ ~(first.lock_mode = "EXCLUSIVE" /\ ~first.granted)]
  /\ requests' = [requests EXCEPT ![r][t] = Tail(@)]
  /\ state' = [state EXCEPT ![t] = StateAfterUnlock(@)]
  /\ shared' = [shared EXCEPT ![t] = @ \ {r}]
  /\ exclusive' = [exclusive EXCEPT ![t] = @ \ {r}]
  /\ NotifyAll(r)
  /\ UNCHANGED waiting

-----------------------------------------------------------------------------
(* A notified thread holds latch_ again and evaluates its predicate. *)

WakeBlocked(t) ==
  /\ Notified(t)
  /\ ~AbortSeen(t) /\ Blocked(t, waiting[t].kind, waiting[t].rid)
  /\ asleep' = asleep \cup {t}
  /\ UNCHANGED <<state, shared, exclusive, requests, upgrading, waiting>>

WakeGranted(t) ==
  /\ Notified(t)
  /\ LET r == waiting[t].rid
         kind == waiting[t].kind
     IN  /\ ~AbortSeen(t) /\ ~Blocked(t, kind, r)
         /\ requests' = [requests EXCEPT ![r][t][ReqIt(t, kind, r)] = Grant(@)]
         /\ shared' = [shared EXCEPT ![t] =
                         IF kind = "LockShared" THEN @ \cup {r}
                         ELSE IF kind = "LockUpgrade" THEN @ \ {r} ELSE @]
         /\ exclusive' = [exclusive EXCEPT ![t] = IF kind = "LockShared" THEN @ ELSE @ \cup {r}]
         /\ upgrading' = [upgrading EXCEPT ![r] = FlagAfterWait(kind, @)]
  /\ waiting' = [waiting EXCEPT ![t] = NotWaiting]
  /\ UNCHANGED <<state, asleep>>

\* The transaction was aborted while it waited: its request goes, all wake up.
WakeAborted(t) ==
  /\ Notified(t)
  /\ LET r == waiting[t].rid
         kind == waiting[t].kind
     IN  /\ AbortSeen(t)
         /\ requests' = [requests EXCEPT ![r][t] = RemoveAt(@, ReqIt(t, kind, r))]
         /\ shared' = [shared EXCEPT ![t] = IF kind = "LockUpgrade" THEN @ \ {r} ELSE @]
         /\ upgrading' = [upgrading EXCEPT ![r] = FlagAfterWait(kind, @)]
         /\ NotifyAll(r)
  /\ waiting' = [waiting EXCEPT ![t] = NotWaiting]
  /\ UNCHANGED <<state, exclusive>>

Wake(t) == WakeBlocked(t) \/ WakeGranted(t) \/ WakeAborted(t)

\* A condition variable may return from a wait without a notification.
SpuriousWakeup(t) ==
  /\ t \in asleep
  /\ asleep' = asleep \ {t}
  /\ UNCHANGED <<state, shared, exclusive, requests, upgrading, waiting>>

\* SetState(ABORTED) by another thread, for instance a deadlock detector.
ExternalAbort(t) ==
  /\ state[t] \in {"GROWING", "SHRINKING"}
  /\ state' = [state EXCEPT ![t] = "ABORTED"]
  /\ UNCHANGED <<shared, exclusive, requests, upgrading, waiting, asleep>>

ClientStep(t) ==
  \/ LockWhileShrinking(t)
  \/ \E r \in RIDs :
       \/ LockShared(t, r) \/ LockExclusive(t, r)
       \/ LockUpgrade(t, r) \/ UpgradeConflict(t, r)
       \/ Unlock(t, r)

LockNext == \E t \in Txns : ClientStep(t) \/ Wake(t) \/ SpuriousWakeup(t) \/ ExternalAbort(t)

LockSpec == LockInit /\ [][LockNext]_lockVars

-----------------------------------------------------------------------------
(* Properties. *)

\* All variables have their types; only threads in a wait sleep.
LockTypeOK ==
  /\ state \in [Txns -> States]
  /\ shared \in [Txns -> SUBSET RIDs]
  /\ exclusive \in [Txns -> SUBSET RIDs]
  /\ requests \in [RIDs -> [Txns -> Seq(LockRequest)]]
  /\ upgrading \in [RIDs -> BOOLEAN]
  /\ waiting \in [Txns -> Wait \cup {NotWaiting}]
  /\ asleep \in SUBSET {t \in Txns : ~Idle(t)}

\* A granted exclusive request excludes every granted request of another
\* transaction on the same RID (the wait predicates).
GrantedCompatible ==
  \A r \in RIDs, t, u \in Txns : t # u /\ GrantedExclusive(t, r) => ~Granted(u, r)

\* What a transaction believes between two calls is true: a lock in its sets is
\* granted in the queue, in that mode, and while it grows it has no request
\* besides them.  This holds for clients that ask for an exclusive lock on a RID
\* they hold shared, too, although Unlock then leaves a request behind.
HeldLocksGranted ==
  /\ LockTypeOK
  /\ \A t \in Txns, r \in RIDs :
       /\ r \in exclusive[t] => GrantedExclusive(t, r)
       /\ r \in shared[t] /\ Idle(t) => Granted(t, r)
       /\ state[t] = "GROWING" /\ Idle(t) /\ requests[r][t] # <<>> => r \in shared[t] \cup exclusive[t]

\* "An EXCLUSIVE lock is mutually exclusive with any other lock"
\* (docs/lab4_concurrency_control_en.md:50), for the locks that the sets of the
\* transactions say they hold.
SetsExclude ==
  \A r \in RIDs, t, u \in Txns :
    t # u /\ r \in exclusive[t] => r \notin shared[u] \cup exclusive[u]

\* "keep transaction lock sets and request queues consistent on success, wait,
\* abort, and unlock" (docs/lab4_concurrency_control_en.md:124): a transaction
\* between two calls has no request on a RID that its sets do not have.
NoRequestLeft ==
  \A t \in Txns, r \in RIDs : Idle(t) /\ requests[r][t] # <<>> => r \in shared[t] \cup exclusive[t]

\* upgrading_ is set exactly while one transaction waits for an upgrade, and
\* there is never more than one.
UpgradeFlagExact ==
  \A r \in RIDs :
    LET upgraders == {t \in WaitersOn(r) : waiting[t].kind = "LockUpgrade"}
    IN  /\ upgrading[r] <=> upgraders # {}
        /\ \A t, u \in upgraders : t = u

\* No lost wake-up: a thread sleeps only while a lock of another transaction
\* blocks it, or after it was aborted by a thread that notifies nobody.
NoLostWakeup ==
  \A t \in asleep : state[t] = "ABORTED" \/ Blocked(t, waiting[t].kind, waiting[t].rid)

\* Two phases: no transaction gets a lock after it released one, was aborted
\* or committed, not even through a wait that began before.
TwoPhase ==
  [][\A t \in Txns :
       /\ state[t] # "GROWING" => /\ shared'[t] \subseteq shared[t]
                                  /\ exclusive'[t] \subseteq exclusive[t]
       /\ state[t] # "GROWING" => state'[t] # "GROWING"]_lockVars
=============================================================================
