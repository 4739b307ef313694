---------------------------- MODULE MCSafeQueue ----------------------------
(* Model-checking instance of SafeQueue: any thread calls any operation.   *)
EXTENDS SafeQueue, TLC

Symmetry == Permutations(Threads) \cup Permutations(Tasks)
=============================================================================
