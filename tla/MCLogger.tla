------------------------------ MODULE MCLogger ------------------------------
(* Model-checking instance of Logger. *)
EXTENDS Logger, TLC

Symmetry == Permutations(Threads)

\* Once a deciding thread has been overtaken no property claims anything, so
\* that what follows is left out.
Timely == "deciding" \notin overtaken
=============================================================================
