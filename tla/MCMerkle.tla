------------------------------ MODULE MCMerkle ------------------------------
EXTENDS Merkle, TLC

CONSTANTS d0, d1, d2, d3, d4, d5, d6, d7

Leaf == <<d0, d1, d2, d3, d4, d5, d6, d7>>

MCLeaves == {Leaf[i] : i \in 1 .. 8}

\* Trees of one to eight leaves, in every number of segments; with leaves that all
\* differ, and with repeated ones.
AllDifferent(n) == [i \in 0 .. n - 1 |-> Leaf[i + 1]]
Repeated(n) == [i \in 0 .. n - 1 |-> Leaf[((i \div 2) % 2) + 1]]

MCTrees ==
  {t \in [data : {AllDifferent(Pow2[h]) : h \in 0 .. MaxHeight} \cup {Repeated(Pow2[h]) : h \in 0 .. 2},
          n_segments : {1, 2, 4, 8}] : t.n_segments <= Cardinality(DOMAIN t.data)}
=============================================================================
