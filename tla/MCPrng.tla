------------------------------- MODULE MCPrng -------------------------------
(* Bounds: digests of 5 bytes and draws of 2 keep the ratio of 20 to 8, so a run of
   draws passes through every number of spare bytes; 1, 3 and 7 meet them out of
   step, and 5 takes a whole digest. *)
EXTENDS Prng

CONSTANT m1

MCMessages == {<<m1>>}
MCRequestSizes == {1, 2, 3, 5, 7}
=============================================================================
