------------------------ MODULE MCTransactionManager ------------------------
(* Instances of the transaction manager for TLC. *)
EXTENDS TransactionManager, TLC

TxnSymmetry == Permutations(Txns) \cup Permutations(RIDs)
=============================================================================
