---------------------------- MODULE MCUserQueue ----------------------------
(* UserQueue for TLC: two threads, each of which may call every function,  *)
(* two strings, capacity two.  Three nodes suffice for a full queue and    *)
(* the node of an enQueue in progress, so malloc always reuses freed ones. *)
EXTENDS UserQueue

CONSTANTS t1, t2, n1, n2, n3, m1, m2

MCThread == {t1, t2}
MCNode == {n1, n2, n3}
MCMsg == {m1, m2}
=============================================================================
