--------------------------- MODULE MCProofOfWork ---------------------------
(* Bounds: a word of 16, chunks of 2 and three tasks, so that five chunks are
   taken from the counter before it wraps around. *)
EXTENDS ProofOfWork

Even == {n \in U64 : n % 2 = 0}

\* No valid nonce, or an even and an odd one: every chunk, every two chunks, and
\* in one chunk the second nonce is never looked at.
MCValidSets == {{m, n} : m \in Even, n \in U64 \ Even} \cup {{}}
=============================================================================
