----------------------------- MODULE MCPageGuard -----------------------------
(* Instances of the page guards for TLC: guards are pairs of a thread and a number. *)
EXTENDS PageGuard

CONSTANTS t1, t2

MCGuards == {<<t1, 1>>, <<t1, 2>>, <<t2, 1>>}
=============================================================================
