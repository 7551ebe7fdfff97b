-------------------------- MODULE MCBlockingQueue --------------------------
(* Instances of ConcurrentBlockingQueue for TLC. *)
EXTENDS ConcurrentBlockingQueue, TLC

CONSTANTS t1, t2, t3
MCThreads == {t1, t2, t3}
MCItems == 1..3
\* Items 2 and 3 have the same priority, item 1 a lower one.
MCPriority == [i \in MCItems |-> IF i = 1 THEN 0 ELSE 1]
ThreadSymmetry == Permutations(MCThreads)
=============================================================================
