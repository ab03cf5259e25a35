------------------------- MODULE MCRequestLifecycle -------------------------
(***************************************************************************)
(* Instances of RequestLifecycle for TLC.                                  *)
(***************************************************************************)
EXTENDS RequestLifecycle, TLC

CONSTANTS r1, r2, t1, t2

OneTab == [r \in Requests |-> t1]
TabEach == [r \in Requests |-> IF r = r1 THEN t1 ELSE t2]

\* On one tab the requests are interchangeable.
SameTab == Permutations(Requests)
=============================================================================
