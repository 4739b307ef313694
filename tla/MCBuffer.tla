------------------------------ MODULE MCBuffer ------------------------------
(* Model-checking instance of Buffer: two buffers, chunks of up to two
   bytes, and a suggested size that both forces and avoids reallocation.   *)
EXTENDS Buffer

MCChunks == {<<0>>, <<1, 0>>}
=============================================================================
