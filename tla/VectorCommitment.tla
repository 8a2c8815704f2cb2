-------------------------- MODULE VectorCommitment --------------------------
(***************************************************************************)
(* What a commitment scheme promises (commitment_scheme.h): the prover     *)
(* commits to a vector once, and the verifier, shown claimed values at     *)
(* some indices, says yes only if they are the committed ones, and does    *)
(* say yes when they are and nothing was altered on the way.               *)
(***************************************************************************)
CONSTANTS
  Vectors,          \* the vectors, as functions, that may be committed to
  Nothing           \* not a vector: no commitment, no answer yet

VARIABLES
  committed,
  opened            \* the claims shown to the verifier and its answer

Init == committed = Nothing /\ opened = Nothing

Commit ==
  /\ committed = Nothing
  /\ committed' \in Vectors
  /\ UNCHANGED opened

Agree(claims, vector) == \A i \in DOMAIN claims : claims[i] = vector[i]

\* Yes is binding, and an intact opening of the committed values gets it.
Sound(o) == o.accepted => Agree(o.claims, committed)
Complete(o) == o.intact /\ Agree(o.claims, committed) => o.accepted

Open ==
  /\ committed # Nothing
  /\ opened = Nothing
  /\ opened' # Nothing
  /\ DOMAIN opened'.claims \subseteq DOMAIN committed
  /\ Sound(opened')
  /\ Complete(opened')
  /\ UNCHANGED committed

Next == Commit \/ Open

Spec == Init /\ [][Next]_<<committed, opened>>
=============================================================================
