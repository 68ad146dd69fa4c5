--------------------------- MODULE MCLockManager ----------------------------
(* Instances of the lock manager for TLC.  For safety, transactions and    *)
(* RIDs are interchangeable.                                               *)
EXTENDS LockManager, TLC

LockSymmetry == Permutations(Txns) \cup Permutations(RIDs)
=============================================================================
