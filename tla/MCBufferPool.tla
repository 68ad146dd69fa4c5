---------------------------- MODULE MCBufferPool ----------------------------
(* Instances of the buffer pool and its replacer, with the scan of Evict,  *)
(* for TLC.  Pin holders are interchangeable.                              *)
EXTENDS BufferPoolRefinement, LRUKScan, TLC

HolderSymmetry == Permutations(Holders)
=============================================================================
