------------------------------ MODULE MCPoller ------------------------------
(* Model-checking instance of Poller. *)
EXTENDS Poller

Symmetry == Permutations(Addrs) \cup Permutations(Fds)
=============================================================================
