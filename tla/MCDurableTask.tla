--------------------------- MODULE MCDurableTask ---------------------------
(* Instances of DurableTask for TLC: all tasks share one tab and one        *)
(* deadline.                                                               *)
EXTENDS DurableTask, TLC

CONSTANTS t1, t2, tab, w1, w2, c1, c2, c3, s1, s2, s3, CommonDeadline

MCTabOf == [t \in Tasks |-> tab]
MCDeadline == [t \in Tasks |-> CommonDeadline]

Symmetry == Permutations(Tasks) \cup Permutations(Workers) \cup Permutations(Calls)
              \cup Permutations(Steps)
=============================================================================
