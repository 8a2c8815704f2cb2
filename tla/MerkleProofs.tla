---------------------------- MODULE MerkleProofs ----------------------------
(***************************************************************************)
(* Proofs about the Merkle tree and its commitment scheme, for trees of    *)
(* every height over any leaves, any number of segments and any queries.   *)
(***************************************************************************)
EXTENDS Merkle, Elementary, FiniteSetTheorems

-----------------------------------------------------------------------------
(* Powers of two.                                                          *)

LEMMA Pow2Powers == Powers(Pow2, MaxHeight)
<1> DEFINE P(f) == f = [h \in 0 .. MaxHeight |-> IF h = 0 THEN 1 ELSE 2 * f[h - 1]]
<1>1. MaxHeight \in Nat
  BY MerkleAssumption
<1>2. PICK f : P(f)
  BY <1>1, PowersExist DEF Powers
<1>3. Pow2 = CHOOSE p : P(p)
  BY DEF Pow2
<1>4. P(Pow2)
  BY <1>2, <1>3
<1> HIDE DEF Pow2
<1> QED  BY <1>1, <1>4 DEF Powers

LEMMA Pow2Facts ==
  /\ MaxHeight \in Nat
  /\ Pow2[0] = 1
  /\ \A h \in 1 .. MaxHeight : h - 1 \in 0 .. MaxHeight /\ Pow2[h] = 2 * Pow2[h - 1]
  /\ \A h \in 0 .. MaxHeight : Pow2[h] \in Nat \ {0}
BY Pow2Powers, PowersFacts

LEMMA Pow2Gap ==
  \A g, h \in 0 .. MaxHeight : g < h => 2 * Pow2[g] <= Pow2[h]
BY Pow2Powers, PowersGap

LEMMA Pow2Product ==
  \A d, h \in 0 .. MaxHeight : d <= h => Pow2[d] * Pow2[h - d] = Pow2[h]
BY Pow2Powers, PowersProduct

PowersOfTwo == {Pow2[h] : h \in 0 .. MaxHeight}

LEMMA PowerFacts ==
  ASSUME NEW p \in PowersOfTwo
  PROVE  /\ p \in Nat \ {0}
         /\ p # 1 => p \div 2 \in PowersOfTwo /\ p = 2 * (p \div 2) /\ p \div 2 \in Nat \ {0}
<1>1. PICK h \in 0 .. MaxHeight : p = Pow2[h]
  BY DEF PowersOfTwo
<1>2. p \in Nat \ {0}
  BY <1>1, Pow2Facts
<1>3. ASSUME p # 1
      PROVE  p \div 2 \in PowersOfTwo /\ p = 2 * (p \div 2) /\ p \div 2 \in Nat \ {0}
  <2>1. h \in 1 .. MaxHeight
    BY <1>1, <1>3, Pow2Facts
  <2>2. PICK q : q = Pow2[h - 1]
    OBVIOUS
  <2>3. q \in Nat \ {0} /\ p = 2 * q /\ q \in PowersOfTwo
    BY <1>1, <2>1, <2>2, Pow2Facts DEF PowersOfTwo
  <2>4. p \div 2 = q
    BY <2>3
  <2> QED  BY <2>3, <2>4
<1> QED  BY <1>2, <1>3

LEMMA PowerGap ==
  ASSUME NEW p \in PowersOfTwo, NEW q \in PowersOfTwo, p < q
  PROVE  2 * p <= q /\ 2 * p \in PowersOfTwo
<1>1. PICK g \in 0 .. MaxHeight : p = Pow2[g]
  BY DEF PowersOfTwo
<1>2. PICK h \in 0 .. MaxHeight : q = Pow2[h]
  BY DEF PowersOfTwo
<1>3. p \in Nat \ {0} /\ q \in Nat \ {0}
  BY PowerFacts
<1>4. g < h
  <2>1. ~(h < g)
    BY <1>1, <1>2, <1>3, Pow2Gap
  <2>2. g # h
    BY <1>1, <1>2, <1>3
  <2> QED  BY <2>1, <2>2, Pow2Facts
<1>5. 2 * p <= q
  BY <1>1, <1>2, <1>4, Pow2Gap
<1>6. g + 1 \in 1 .. MaxHeight /\ (g + 1) - 1 = g
  BY <1>4, Pow2Facts
<1>7. Pow2[g + 1] = 2 * p
  BY <1>1, <1>6, Pow2Facts
<1> QED  BY <1>5, <1>6, <1>7 DEF PowersOfTwo

-----------------------------------------------------------------------------
(* A tree and its segments.                                                *)

IsTree(n, segments, length) ==
  /\ n \in PowersOfTwo /\ segments \in PowersOfTwo /\ length \in PowersOfTwo
  /\ segments * length = n
  /\ segments <= n /\ length <= n

LEMMA TreeFacts ==
  ASSUME tree \in Trees
  PROVE  /\ IsTree(data_length, tree.n_segments, SegmentLengthInElements)
         /\ tree.data \in [0 .. data_length - 1 -> Leaves]
         /\ Pow2[MinDepthAssumedCorrect] = tree.n_segments
<1>1. PICK h \in 0 .. MaxHeight : /\ tree.data \in [0 .. Pow2[h] - 1 -> Leaves]
                                  /\ \E d \in 0 .. h : tree.n_segments = Pow2[d]
  BY MerkleAssumption
<1>2. PICK d \in 0 .. h : tree.n_segments = Pow2[d]
  BY <1>1
<1>3. d \in 0 .. MaxHeight /\ h - d \in 0 .. MaxHeight /\ d <= h
  BY <1>2, Pow2Facts
<1>4. Pow2[h] \in Nat \ {0} /\ Pow2[d] \in Nat \ {0} /\ Pow2[h - d] \in Nat \ {0}
  BY <1>3, Pow2Facts
<1>5. data_length = Pow2[h]
  <2>1. DOMAIN tree.data = 0 .. Pow2[h] - 1
    BY <1>1
  <2>2. 0 \in Int /\ Pow2[h] - 1 \in Int /\ 0 <= Pow2[h] - 1 /\ (Pow2[h] - 1) - 0 + 1 = Pow2[h]
    BY <1>4
  <2>3. Cardinality(0 .. Pow2[h] - 1) = IF 0 > Pow2[h] - 1 THEN 0
                                        ELSE (Pow2[h] - 1) - 0 + 1
    BY <2>2, FS_Interval
  <2> QED  BY <1>4, <2>1, <2>2, <2>3 DEF data_length
<1>6. Pow2[d] * Pow2[h - d] = Pow2[h]
  BY <1>3, Pow2Product
<1>7. SegmentLengthInElements = Pow2[h - d]
  <2>1. (Pow2[d] * Pow2[h - d] + 0) \div Pow2[d] = Pow2[h - d]
    BY <1>4, Quotient
  <2>2. Pow2[d] * Pow2[h - d] + 0 = Pow2[h]
    BY <1>4, <1>6
  <2> QED  BY <1>2, <1>5, <2>1, <2>2 DEF SegmentLengthInElements
<1>8. Pow2[d] <= Pow2[h] /\ Pow2[h - d] <= Pow2[h]
  <2>1. \A a, b \in Nat \ {0} : a <= a * b /\ b <= a * b
    OBVIOUS
  <2> QED  BY <1>4, <1>6, <2>1
<1>9. ASSUME NEW k \in 0 .. MaxHeight  PROVE Log2(Pow2[k]) = k
  <2>1. ASSUME NEW j \in 0 .. MaxHeight, Pow2[j] = Pow2[k]  PROVE j = k
    <3>1. Pow2[j] \in Nat \ {0} /\ Pow2[k] \in Nat \ {0}
      BY Pow2Facts
    <3>2. ~(j < k) /\ ~(k < j)
      BY <2>1, <3>1, Pow2Gap
    <3> QED  BY <3>2, Pow2Facts
  <2> QED  BY <2>1 DEF Log2
<1>10. MinDepthAssumedCorrect = d
  <2>1. Log2(data_length) = h /\ Log2(SegmentLengthInElements) = h - d
    BY <1>3, <1>5, <1>7, <1>9
  <2> QED  BY <1>3, <2>1 DEF MinDepthAssumedCorrect
<1> QED
  BY <1>1, <1>2, <1>3, <1>5, <1>6, <1>7, <1>8, <1>10 DEF IsTree, PowersOfTwo

-----------------------------------------------------------------------------
(* Segments own the nodes above their leaves, in rows.                     *)

\* The nodes over the leaves of segment s that have w leaves below each.
RowOf(segments, s, w) == w * (segments + s) .. w * (segments + s) + w - 1

LEMMA Multiples ==
  ASSUME NEW a \in Nat, NEW b \in Nat, NEW c \in Nat
  PROVE  /\ a <= b => c * a <= c * b /\ a * c <= b * c
         /\ c * (a + 1) = c * a + c
         /\ c * (2 * a) = 2 * (c * a) /\ 2 * c * a = 2 * (c * a)
         /\ c * a \in Nat /\ c * a = a * c
OBVIOUS

LEMMA RowBounds ==
  ASSUME NEW n, NEW S, NEW L, IsTree(n, S, L), NEW w \in PowersOfTwo, w <= L,
         NEW s \in 0 .. S - 1, NEW x \in RowOf(S, s, w)
  PROVE  /\ S \in Nat \ {0} /\ w \in Nat \ {0} /\ x \in Nat
         /\ S * w <= x /\ x < 2 * (S * w)
         /\ x \in 1 .. 2 * n - 1
         /\ IF w = L THEN x >= n ELSE x < n
<1>1. S \in Nat \ {0} /\ w \in Nat \ {0} /\ L \in Nat \ {0} /\ n \in Nat \ {0}
  BY PowerFacts DEF IsTree
<1>2. PICK a : a = w * (S + s)
  OBVIOUS
<1>3. S + s \in Nat /\ S <= S + s /\ (S + s) + 1 <= 2 * S
  BY <1>1
<1>4. w * S <= a /\ w * ((S + s) + 1) <= w * (2 * S)
  BY <1>1, <1>2, <1>3, Multiples
<1>5. w * ((S + s) + 1) = a + w /\ w * (2 * S) = 2 * (S * w) /\ w * S = S * w /\ a \in Nat
  BY <1>1, <1>2, <1>3, Multiples
<1>6. x \in a .. a + w - 1
  BY <1>2 DEF RowOf
<1>7. S * w <= x /\ x < 2 * (S * w) /\ x \in Nat
  BY <1>1, <1>4, <1>5, <1>6, Multiples
<1>8. S * w <= n /\ S * w \in Nat \ {0} /\ S * L = n
  <2>1. S * w <= S * L
    BY <1>1, Multiples
  <2>2. S * 1 <= S * w /\ S * 1 = S
    BY <1>1, Multiples
  <2> QED  BY <1>1, <2>1, <2>2, Multiples DEF IsTree
<1>9. w # L => 2 * (S * w) <= n
  <2>1. SUFFICES ASSUME w # L  PROVE 2 * (S * w) <= n
    OBVIOUS
  <2>2. 2 * w <= L
    <3>1. w < L
      BY <1>1, <2>1
    <3> QED  BY <3>1, PowerGap DEF IsTree
  <2>3. S * (2 * w) <= S * L
    BY <1>1, <2>2, Multiples
  <2> QED  BY <1>1, <1>8, <2>3, Multiples
<1> QED  BY <1>1, <1>7, <1>8, <1>9

LEMMA RowsDisjoint ==
  ASSUME NEW n, NEW S, NEW L, IsTree(n, S, L),
         NEW w \in PowersOfTwo, w <= L, NEW s \in 0 .. S - 1,
         NEW v \in PowersOfTwo, v <= L, NEW r \in 0 .. S - 1,
         NEW x \in RowOf(S, s, w), x \in RowOf(S, r, v)
  PROVE  s = r /\ w = v
<1>1. S \in Nat \ {0} /\ w \in Nat \ {0} /\ v \in Nat \ {0} /\ x \in Nat
  BY RowBounds
<1>2. S * w <= x /\ x < 2 * (S * w) /\ S * v <= x /\ x < 2 * (S * v)
  BY RowBounds
<1>3. ASSUME NEW a \in PowersOfTwo, NEW b \in PowersOfTwo, a < b,
             S * b <= x, x < 2 * (S * a)
      PROVE  FALSE
  <2>1. a \in Nat /\ b \in Nat /\ 2 * a <= b
    BY <1>3, PowerFacts, PowerGap
  <2>2. S * (2 * a) <= S * b /\ S * (2 * a) = 2 * (S * a)
    BY <1>1, <2>1, Multiples
  <2>3. S * a \in Nat /\ S * b \in Nat
    BY <1>1, <2>1, Multiples
  <2> QED  BY <1>1, <1>3, <2>2, <2>3
<1>4. w = v
  <2>1. ~(w < v) /\ ~(v < w)
    BY <1>2, <1>3
  <2> QED  BY <1>1, <2>1
<1>5. ASSUME NEW p \in 0 .. S - 1, NEW q \in 0 .. S - 1, p < q,
             x \in RowOf(S, p, w), x \in RowOf(S, q, w)
      PROVE  FALSE
  <2>1. PICK a, b : a = w * (S + p) /\ b = w * (S + q)
    OBVIOUS
  <2>2. w * ((S + p) + 1) <= b
    <3>1. (S + p) + 1 <= S + q /\ S + p \in Nat /\ (S + p) + 1 \in Nat /\ S + q \in Nat
      BY <1>1, <1>5
    <3> QED  BY <1>1, <2>1, <3>1, Multiples
  <2>3. w * ((S + p) + 1) = a + w /\ a \in Nat /\ b \in Nat
    <3>1. S + p \in Nat /\ S + q \in Nat
      BY <1>1
    <3> QED  BY <1>1, <2>1, <3>1, Multiples
  <2>4. x <= a + w - 1 /\ b <= x
    BY <1>5, <2>1 DEF RowOf
  <2> QED  BY <1>1, <2>2, <2>3, <2>4
<1>6. s = r
  <2>1. ~(s < r) /\ ~(r < s)
    BY <1>4, <1>5
  <2> QED  BY <1>1, <2>1
<1> QED  BY <1>4, <1>6

LEMMA RowChildren ==
  ASSUME NEW n, NEW S, NEW L, IsTree(n, S, L), NEW w \in PowersOfTwo, w < L,
         NEW s \in 0 .. S - 1, NEW x \in RowOf(S, s, w)
  PROVE  /\ 2 * w \in PowersOfTwo /\ 2 * w <= L
         /\ 2 * x \in RowOf(S, s, 2 * w) /\ 2 * x + 1 \in RowOf(S, s, 2 * w)
<1>1. 2 * w \in PowersOfTwo /\ 2 * w <= L
  BY PowerGap DEF IsTree
<1>2. S \in Nat \ {0} /\ w \in Nat \ {0} /\ L \in Nat
  BY PowerFacts DEF IsTree
<1>3. PICK a : a = w * (S + s)
  OBVIOUS
<1>4. (2 * w) * (S + s) = 2 * a /\ a \in Nat
  <2>1. S + s \in Nat
    BY <1>2
  <2> QED  BY <1>2, <1>3, <2>1, Multiples
<1>5. x \in a .. a + w - 1
  BY <1>3 DEF RowOf
<1>6. RowOf(S, s, 2 * w) = 2 * a .. 2 * a + 2 * w - 1
  BY <1>4 DEF RowOf
<1>7. 2 * x \in 2 * a .. 2 * a + 2 * w - 1 /\ 2 * x + 1 \in 2 * a .. 2 * a + 2 * w - 1
  BY <1>2, <1>4, <1>5
<1> QED  BY <1>1, <1>6, <1>7

\* Every node that Commit does not compute is in a row.
LEMMA RowsCover ==
  ASSUME NEW n, NEW S, NEW L, IsTree(n, S, L), NEW x \in S .. 2 * n - 1
  PROVE  \E s \in 0 .. S - 1, w \in PowersOfTwo : w <= L /\ x \in RowOf(S, s, w)
<1> DEFINE Wide == {w \in PowersOfTwo : x < 2 * (S * w)}
<1>1. S \in Nat \ {0} /\ L \in Nat \ {0} /\ n \in Nat \ {0} /\ S * L = n /\ L \in PowersOfTwo
  BY PowerFacts DEF IsTree
<1>2. PICK w \in Wide : \A v \in Wide : w <= v
  <2>1. L \in Wide
    BY <1>1
  <2>2. Wide \in SUBSET Nat
    BY PowerFacts
  <2> HIDE DEF Wide
  <2> QED  BY <2>1, <2>2, LeastOf
<1>3. w \in PowersOfTwo /\ w \in Nat \ {0} /\ x < 2 * (S * w) /\ w <= L
  BY <1>1, <1>2, PowerFacts
<1>4. S * w <= x /\ S * w \in Nat
  <2>1. CASE w = 1
    BY <1>1, <2>1
  <2>2. CASE w # 1
    <3>1. w \div 2 \in PowersOfTwo /\ w = 2 * (w \div 2) /\ w \div 2 \in Nat \ {0}
      BY <1>3, <2>2, PowerFacts
    <3>2. w \div 2 \notin Wide
      BY <1>2, <3>1
    <3>3. ~(x < 2 * (S * (w \div 2)))
      BY <3>1, <3>2
    <3>4. S * w = 2 * (S * (w \div 2)) /\ S * w \in Nat
      BY <1>1, <3>1, Multiples
    <3> QED  BY <3>3, <3>4
  <2> QED  BY <2>1, <2>2
<1> DEFINE y == x \div w
           r == x % w
<1>5. y \in Nat /\ r \in 0 .. w - 1 /\ x = w * y + r
  BY <1>1, <1>3
<1> HIDE DEF y, r
<1>6. S <= y /\ y < 2 * S
  <2>1. y + 1 \in Nat /\ w * (y + 1) = w * y + w /\ w * y \in Nat
    BY <1>3, <1>5, Multiples
  <2>2. w * S < w * (y + 1) /\ w * y < w * (2 * S)
    <3>1. w * S = S * w /\ w * (2 * S) = 2 * (S * w)
      BY <1>1, <1>3, Multiples
    <3> QED  BY <1>3, <1>4, <1>5, <2>1, <3>1
  <2>3. ~(y + 1 <= S) /\ ~(2 * S <= y)
    <3>1. w * S \in Nat /\ w * (2 * S) \in Nat /\ w * (y + 1) \in Nat /\ 2 * S \in Nat
      BY <1>1, <1>3, <2>1, Multiples
    <3>2. y + 1 <= S => w * (y + 1) <= w * S
      BY <1>1, <1>3, <2>1, Multiples
    <3>3. 2 * S <= y => w * (2 * S) <= w * y
      BY <1>3, <1>5, <3>1, Multiples
    <3> QED  BY <2>1, <2>2, <3>1, <3>2, <3>3
  <2> QED  BY <1>1, <1>5, <2>3
<1>7. y - S \in 0 .. S - 1 /\ S + (y - S) = y
  BY <1>1, <1>5, <1>6
<1>8. x \in RowOf(S, y - S, w)
  <2>1. w * y \in Nat
    BY <1>3, <1>5, Multiples
  <2>2. RowOf(S, y - S, w) = w * y .. w * y + w - 1
    BY <1>7 DEF RowOf
  <2> QED  BY <1>3, <1>5, <2>1, <2>2
<1> QED  BY <1>3, <1>7, <1>8

-----------------------------------------------------------------------------
(* The inductive invariant, in parts. First, the tree as it is built.      *)

Row(s, w) == RowOf(tree.n_segments, s, w)

Lengths == {w \in PowersOfTwo : w <= SegmentLengthInElements}

\* A call in the middle of a sub-layer, which is a row of its segment.
CallRight(s, call) ==
  /\ call \in [at : {"start", "hash", "done"}, cur : 0 .. 2 * data_length,
               length : 0 .. data_length, i : 0 .. 2 * data_length]
  /\ call.at = "hash" =>
       /\ call.length \in Lengths
       /\ call.length < SegmentLengthInElements
       /\ call.cur = call.length * (tree.n_segments + s)
       /\ call.i \in Row(s, call.length)

AddingRight ==
  /\ adding = [s \in Segments |-> adding[s]]
  /\ \A s \in Segments : CallRight(s, adding[s])

\* Node x of row w of its segment has been written by this call.
Computed(call, w, x) ==
  \/ call.at = "done"
  \/ call.at = "hash" /\ w > call.length
  \/ call.at = "hash" /\ w = call.length /\ x < call.i

Written(x) == nodes[x] # Uninitialized

\* A node that is written holds the hash of its children, and these are written.
NodeRight(x) ==
  IF x < data_length
  THEN nodes[x] = Hash(nodes[2 * x], nodes[2 * x + 1]) /\ Written(2 * x) /\ Written(2 * x + 1)
  ELSE nodes[x] = tree.data[x - data_length]

Building ==
  commitment = Nothing =>
    /\ stage = "committing"
    /\ \A x \in NodeIndices : Written(x) => NodeRight(x)
    /\ \A s \in Segments : \A w \in Lengths : \A x \in Row(s, w) :
         Written(x) <=> Computed(adding[s], w, x)

Built ==
  commitment # Nothing =>
    /\ \A s \in Segments : adding[s].at = "done"
    /\ \A x \in NodeIndices : Written(x) /\ NodeRight(x)
    /\ commitment = nodes[1]

TreeRight ==
  /\ tree \in Trees
  /\ DOMAIN nodes = NodeIndices
  /\ AddingRight /\ Building /\ Built

-----------------------------------------------------------------------------
(* Building the tree.                                                      *)

LEMMA RowFacts ==
  ASSUME tree \in Trees, NEW s \in Segments, NEW w \in Lengths, NEW x \in Row(s, w)
  PROVE  /\ x \in NodeIndices /\ x \in Nat /\ w \in Nat \ {0}
         /\ IF w = SegmentLengthInElements THEN x >= data_length ELSE x < data_length
<1> DEFINE n == data_length
           S == tree.n_segments
           L == SegmentLengthInElements
<1>1. IsTree(n, S, L)
  BY TreeFacts
<1>2. w \in PowersOfTwo /\ w <= L /\ s \in 0 .. S - 1 /\ x \in RowOf(S, s, w)
  BY DEF Lengths, Row, Segments
<1> HIDE DEF n, S, L
<1>3. x \in 1 .. 2 * n - 1 /\ x \in Nat /\ w \in Nat \ {0}
      /\ IF w = L THEN x >= n ELSE x < n
  BY <1>1, <1>2, RowBounds
<1> QED  BY <1>3 DEF n, S, L, NodeIndices

LEMMA OneRow ==
  ASSUME tree \in Trees, NEW s \in Segments, NEW w \in Lengths, NEW r \in Segments,
         NEW v \in Lengths, NEW x \in Row(s, w), x \in Row(r, v)
  PROVE  s = r /\ w = v
<1> DEFINE n == data_length
           S == tree.n_segments
           L == SegmentLengthInElements
<1>1. IsTree(n, S, L)
  BY TreeFacts
<1>2. /\ w \in PowersOfTwo /\ w <= L /\ s \in 0 .. S - 1 /\ x \in RowOf(S, s, w)
      /\ v \in PowersOfTwo /\ v <= L /\ r \in 0 .. S - 1 /\ x \in RowOf(S, r, v)
  BY DEF Lengths, Row, Segments
<1> HIDE DEF n, S, L
<1> QED  BY <1>1, <1>2, RowsDisjoint

LEMMA ChildrenRow ==
  ASSUME tree \in Trees, NEW s \in Segments, NEW w \in Lengths, w < SegmentLengthInElements,
         NEW x \in Row(s, w)
  PROVE  /\ 2 * w \in Lengths
         /\ 2 * x \in Row(s, 2 * w) /\ 2 * x + 1 \in Row(s, 2 * w)
<1> DEFINE n == data_length
           S == tree.n_segments
           L == SegmentLengthInElements
<1>1. IsTree(n, S, L)
  BY TreeFacts
<1>2. w \in PowersOfTwo /\ w < L /\ s \in 0 .. S - 1 /\ x \in RowOf(S, s, w)
  BY DEF Lengths, Row, Segments
<1> HIDE DEF n, S, L
<1>3. /\ 2 * w \in PowersOfTwo /\ 2 * w <= L
      /\ 2 * x \in RowOf(S, s, 2 * w) /\ 2 * x + 1 \in RowOf(S, s, 2 * w)
  BY <1>1, <1>2, RowChildren
<1> QED  BY <1>3 DEF n, S, L, Lengths, Row

LEMMA TreeNumbers ==
  ASSUME tree \in Trees
  PROVE  /\ data_length \in Nat \ {0}
         /\ tree.n_segments \in Nat \ {0} /\ tree.n_segments <= data_length
         /\ SegmentLengthInElements \in Nat \ {0} /\ SegmentLengthInElements <= data_length
         /\ SegmentLengthInElements \in Lengths
         /\ Segments = 0 .. tree.n_segments - 1
<1>1. IsTree(data_length, tree.n_segments, SegmentLengthInElements)
  BY TreeFacts
<1>2. /\ data_length \in Nat \ {0} /\ tree.n_segments \in Nat \ {0}
      /\ SegmentLengthInElements \in Nat \ {0}
  BY <1>1, PowerFacts DEF IsTree
<1>3. SegmentLengthInElements \in Lengths
  BY <1>1, <1>2 DEF Lengths, IsTree
<1> QED  BY <1>1, <1>2, <1>3 DEF IsTree, Segments

\* A leaf is a value, and a hash is a pair: neither is what a cell holds at first.
LEMMA NotUninitialized ==
  /\ \A left, right : Hash(left, right) \notin {Uninitialized, Garbage, Nothing}
  /\ \A leaf \in Leaves : leaf \notin {Uninitialized, Garbage, Nothing}
<1>1. ASSUME NEW left, NEW right
      PROVE  Hash(left, right) \notin {Uninitialized, Garbage, Nothing}
  <2>1. Len(<<left, right>>) = 2 /\ Len(<<"uninitialized">>) = 1 /\ Len(<<"garbage">>) = 1
        /\ Len(<<>>) = 0
    OBVIOUS
  <2> QED  BY <2>1 DEF Hash, Uninitialized, Garbage, Nothing
<1>2. \A leaf \in Leaves : leaf \notin {Uninitialized, Garbage, Nothing}
  BY MerkleAssumption
<1> QED  BY <1>1, <1>2

LEMMA LeafFacts ==
  ASSUME tree \in Trees, NEW x \in Nat, data_length <= x, x < 2 * data_length
  PROVE  tree.data[x - data_length] \in Leaves
<1>1. x - data_length \in 0 .. data_length - 1
  BY TreeNumbers
<1> QED  BY <1>1, TreeFacts

LEMMA TreeInit == Init => TreeRight
<1> SUFFICES ASSUME Init  PROVE TreeRight
  OBVIOUS
<1>1. /\ tree \in Trees /\ nodes = [i \in NodeIndices |-> Uninitialized]
      /\ adding = [s \in Segments |-> [at |-> "start", cur |-> 0, length |-> 0, i |-> 0]]
      /\ commitment = Nothing /\ stage = "committing"
  BY DEF Init, NodeIndices
<1>2. \A s \in Segments : adding[s].at = "start"
  BY <1>1
<1>3. AddingRight
  <2>1. 0 \in 0 .. 2 * data_length /\ 0 \in 0 .. data_length
    BY <1>1, TreeNumbers
  <2> QED  BY <1>1, <1>2, <2>1 DEF AddingRight, CallRight
<1>4. \A x \in NodeIndices : ~Written(x)
  BY <1>1 DEF Written
<1>5. \A s \in Segments : \A w \in Lengths : \A x \in Row(s, w) :
        Written(x) <=> Computed(adding[s], w, x)
  BY <1>1, <1>2, <1>4, RowFacts DEF Computed
<1>6. Building
  BY <1>1, <1>4, <1>5 DEF Building
<1>7. Built
  BY <1>1 DEF Built
<1> QED  BY <1>1, <1>3, <1>6, <1>7 DEF TreeRight

\* The sub-layer after row w, and what is computed as it begins.
LEMMA SubLayerRight ==
  ASSUME tree \in Trees, NEW s \in Segments, NEW w \in Lengths,
         NEW cur, cur = w * (tree.n_segments + s)
  PROVE  LET call == SubLayer(cur \div 2, w \div 2) IN
         /\ CallRight(s, call)
         /\ \A v \in Lengths : \A x \in Row(s, v) : Computed(call, v, x) <=> v >= w
<1> DEFINE n == data_length
           S == tree.n_segments
           L == SegmentLengthInElements
           half == cur \div 2
           call == SubLayer(half, w \div 2)
<1>1. n \in Nat \ {0} /\ S \in Nat \ {0} /\ L \in Nat \ {0} /\ L <= n /\ s \in 0 .. S - 1
  BY TreeNumbers
<1>2. w \in PowersOfTwo /\ w \in Nat \ {0} /\ w <= L
  BY PowerFacts DEF Lengths
<1>3. cur \in Nat /\ cur \in Row(s, w)
  <2>1. S + s \in Nat
    BY <1>1
  <2>2. cur \in Nat
    BY <1>2, <2>1, Multiples
  <2> QED  BY <1>2, <2>2 DEF Row, RowOf
<1>4. half \in 0 .. 2 * n
  <2>1. cur \in NodeIndices
    BY <1>3, RowFacts
  <2> QED  BY <1>1, <2>1 DEF NodeIndices
<1>5. call = [at |-> IF w \div 2 > 0 THEN "hash" ELSE "done", cur |-> half,
              length |-> w \div 2, i |-> half]
  BY DEF SubLayer
<1>6. CASE w = 1
  <2>1. w \div 2 = 0
    BY <1>6
  <2>2. call.at = "done"
    BY <1>5, <2>1
  <2>3. CallRight(s, call)
    BY <1>1, <1>4, <1>5, <2>1 DEF CallRight
  <2>4. \A v \in Lengths : v >= w
    BY <1>6, PowerFacts DEF Lengths
  <2> HIDE DEF call
  <2>5. \A v \in Lengths : \A x \in Row(s, v) : Computed(call, v, x) <=> v >= w
    BY <2>2, <2>4 DEF Computed
  <2> QED  BY <2>3, <2>5 DEF call
<1>7. CASE w # 1
  <2>1. PICK u : u = w \div 2
    OBVIOUS
  <2>2. u \in PowersOfTwo /\ w = 2 * u /\ u \in Nat \ {0}
    BY <1>2, <1>7, <2>1, PowerFacts
  <2>3. u \in Lengths /\ u < L /\ u <= n
    BY <1>1, <1>2, <2>2 DEF Lengths
  <2>4. half = u * (S + s)
    <3>1. S + s \in Nat
      BY <1>1
    <3>2. PICK y : y = u * (S + s)
      OBVIOUS
    <3>3. y \in Nat /\ cur = 2 * y
      BY <2>2, <3>1, <3>2, Multiples
    <3> QED  BY <3>2, <3>3
  <2>5. /\ call.at = "hash" /\ call.length = u /\ call.cur = half /\ call.i = half
        /\ call \in [at : {"start", "hash", "done"}, cur : 0 .. 2 * n, length : 0 .. n,
                     i : 0 .. 2 * n]
    BY <1>1, <1>4, <1>5, <2>1, <2>2, <2>3
  <2>6. Row(s, u) = half .. half + u - 1
    BY <2>4 DEF Row, RowOf
  <2> HIDE DEF call
  <2>7. half \in Row(s, u)
    BY <1>4, <2>2, <2>6
  <2>8. CallRight(s, call)
    BY <2>3, <2>4, <2>5, <2>7 DEF CallRight
  <2>9. ASSUME NEW v \in Lengths, NEW x \in Row(s, v)
        PROVE  Computed(call, v, x) <=> v >= w
    <3>1. v \in PowersOfTwo /\ v \in Nat \ {0}
      BY PowerFacts DEF Lengths
    <3>2. v > u => v >= w
      BY <2>2, <3>1, PowerGap
    <3>3. v = u => ~(x < half)
      BY <1>4, <2>6
    <3>4. v >= w => v > u
      BY <2>2, <3>1
    <3> QED  BY <2>5, <3>2, <3>3, <3>4 DEF Computed
  <2> QED  BY <2>8, <2>9 DEF call
<1> QED  BY <1>6, <1>7

\* What does not depend on the nodes stays as the tree does.
LEMMA SameTree ==
  ASSUME tree' = tree
  PROVE  /\ data_length' = data_length /\ Segments' = Segments
         /\ SegmentLengthInElements' = SegmentLengthInElements /\ Lengths' = Lengths
         /\ NodeIndices' = NodeIndices
         /\ \A s, w : Row(s, w)' = Row(s, w)
         /\ \A s, call : CallRight(s, call)' <=> CallRight(s, call)
<1>1. data_length' = data_length /\ Segments' = Segments
  BY DEF data_length, Segments
<1>2. SegmentLengthInElements' = SegmentLengthInElements
  BY <1>1 DEF SegmentLengthInElements
<1>3. Lengths' = Lengths
  BY <1>2 DEF Lengths
<1>4. NodeIndices' = NodeIndices
  BY <1>1 DEF NodeIndices
<1>5. \A s, w : Row(s, w)' = Row(s, w)
  BY DEF Row
<1>6. \A s, call : CallRight(s, call)' <=> CallRight(s, call)
  BY <1>1, <1>2, <1>3, <1>5 DEF CallRight
<1> QED  BY <1>1, <1>2, <1>3, <1>4, <1>5, <1>6

LEMMA CopyRight ==
  ASSUME TreeRight, NEW s \in Segments, CopyLeaves(s)
  PROVE  TreeRight'
<1> DEFINE n == data_length
           L == SegmentLengthInElements
           call == SubLayer(FirstSubLayer(s * L), L \div 2)
           leaves == Row(s, L)
<1>1. /\ stage = "committing" /\ adding[s].at = "start"
      /\ adding' = [adding EXCEPT ![s] = call]
      /\ tree' = tree /\ commitment' = commitment /\ stage' = stage
      /\ tree \in Trees /\ DOMAIN nodes = NodeIndices
  BY DEF CopyLeaves, TreeRight
<1>2. n \in Nat \ {0} /\ L \in Nat \ {0} /\ L \in Lengths /\ s \in Nat
  BY <1>1, TreeNumbers
<1>3. n + s * L = L * (tree.n_segments + s) /\ s * L \in Nat
  <2>1. IsTree(n, tree.n_segments, L)
    BY <1>1, TreeFacts
  <2>2. tree.n_segments * L = n /\ tree.n_segments \in Nat
    BY <1>1, <2>1, TreeNumbers DEF IsTree
  <2>3. \A a, b, c \in Nat : a * (b + c) = b * a + c * a
    OBVIOUS
  <2> QED  BY <1>2, <2>2, <2>3, Multiples
<1>4. leaves = n + s * L .. n + s * L + L - 1
  BY <1>3 DEF Row, RowOf
<1>5. nodes' = [x \in NodeIndices |-> IF x \in leaves THEN tree.data[x - n] ELSE nodes[x]]
  <2>1. nodes' = [x \in DOMAIN nodes |->
                   IF x \in n + s * L .. n + s * L + L - 1 THEN tree.data[x - n] ELSE nodes[x]]
    BY DEF CopyLeaves
  <2> QED  BY <1>1, <1>4, <2>1
<1>6. commitment = Nothing
  BY <1>1 DEF TreeRight, Built
<1>7. CallRight(s, call)
      /\ \A v \in Lengths : \A x \in Row(s, v) : Computed(call, v, x) <=> v >= L
  <2>1. FirstSubLayer(s * L) = (n + s * L) \div 2
    BY DEF FirstSubLayer
  <2> QED  BY <1>1, <1>2, <1>3, <2>1, SubLayerRight
<1>8. /\ \A x \in NodeIndices : Written(x) => NodeRight(x)
      /\ \A r \in Segments : \A w \in Lengths : \A x \in Row(r, w) :
           Written(x) <=> Computed(adding[r], w, x)
  BY <1>6 DEF TreeRight, Building
<1>9. \A v \in Lengths : \A x \in Row(s, v) : ~Written(x)
  BY <1>1, <1>8 DEF Computed
<1>10. ASSUME NEW x \in leaves
       PROVE  x \in NodeIndices /\ x >= n /\ ~Written(x) /\ nodes'[x] = tree.data[x - n]
              /\ nodes'[x] # Uninitialized
  <2>1. x \in NodeIndices /\ x >= n /\ x \in Nat
    BY <1>1, <1>2, <1>10, RowFacts
  <2>2. x < 2 * n
    BY <1>2, <2>1 DEF NodeIndices
  <2>3. tree.data[x - n] \in Leaves
    BY <1>1, <2>1, <2>2, LeafFacts
  <2>4. ~Written(x)
    BY <1>2, <1>9
  <2> QED  BY <1>5, <2>1, <2>3, <2>4, NotUninitialized
<1> HIDE DEF call, n, L, leaves
<1>11. \A x \in NodeIndices \ leaves : nodes'[x] = nodes[x]
  BY <1>5
<1>12. \A x \in NodeIndices : Written(x)' <=> x \in leaves \/ Written(x)
  BY <1>10, <1>11 DEF Written
<1>13. adding'[s] = call /\ (\A r \in Segments \ {s} : adding'[r] = adding[r])
       /\ DOMAIN adding' = Segments
  BY <1>1 DEF TreeRight, AddingRight
<1>14. AddingRight'
  BY <1>1, <1>7, <1>13, SameTree DEF TreeRight, AddingRight
<1>15. ASSUME NEW x \in NodeIndices, Written(x)'
       PROVE  NodeRight(x)'
  <2>1. data_length' = n /\ tree' = tree
    BY <1>1, SameTree DEF n
  <2>2. CASE x \in leaves
    <3>1. ~(x < n) /\ nodes'[x] = tree.data[x - n]
      BY <1>2, <1>10, <2>2 DEF NodeIndices
    <3> QED  BY <2>1, <3>1 DEF NodeRight
  <2>3. CASE x \notin leaves
    <3>1. Written(x) /\ NodeRight(x) /\ nodes'[x] = nodes[x]
      BY <1>8, <1>11, <1>12, <1>15, <2>3
    <3>2. CASE x < n
      <4>1. /\ nodes[x] = Hash(nodes[2 * x], nodes[2 * x + 1])
            /\ Written(2 * x) /\ Written(2 * x + 1)
        BY <3>1, <3>2 DEF NodeRight, n
      <4>2. 2 * x \in NodeIndices /\ 2 * x + 1 \in NodeIndices
        BY <1>2, <3>2 DEF NodeIndices, n
      <4>3. 2 * x \notin leaves /\ 2 * x + 1 \notin leaves
        BY <1>10, <4>1
      <4>4. nodes'[2 * x] = nodes[2 * x] /\ nodes'[2 * x + 1] = nodes[2 * x + 1]
        BY <1>11, <4>2, <4>3
      <4> QED  BY <2>1, <3>1, <3>2, <4>1, <4>4 DEF NodeRight, Written
    <3>3. CASE ~(x < n)
      BY <2>1, <3>1, <3>3 DEF NodeRight, n
    <3> QED  BY <3>2, <3>3
  <2> QED  BY <2>2, <2>3
<1>16. ASSUME NEW r \in Segments, NEW w \in Lengths, NEW x \in Row(r, w)
       PROVE  Written(x)' <=> Computed(adding'[r], w, x)
  <2>1. x \in NodeIndices
    BY <1>1, RowFacts
  <2>2. CASE r = s
    <3>1. x \in leaves <=> w = L
      BY <1>1, <1>2, <2>2, OneRow DEF leaves
    <3>2. w >= L <=> w = L
      BY <1>2, PowerFacts DEF Lengths, L
    <3> QED  BY <1>7, <1>9, <1>12, <1>13, <2>1, <2>2, <3>1, <3>2
  <2>3. CASE r # s
    <3>1. x \notin leaves
      BY <1>1, <1>2, <2>3, OneRow DEF leaves
    <3>2. adding'[r] = adding[r]
      BY <1>13, <2>3
    <3> QED  BY <1>8, <1>12, <2>1, <3>1, <3>2
  <2> QED  BY <2>2, <2>3
<1>17. Building'
  <2>1. Segments' = Segments /\ Lengths' = Lengths /\ NodeIndices' = NodeIndices
        /\ \A r, w : Row(r, w)' = Row(r, w)
    BY <1>1, SameTree
  <2>2. \A r \in Segments : \A w \in Lengths : \A x \in Row(r, w) :
          Written(x)' <=> Computed(adding[r], w, x)'
    BY <1>16 DEF Computed
  <2> QED  BY <1>1, <1>15, <2>1, <2>2 DEF Building
<1>18. Built' /\ tree' \in Trees /\ DOMAIN nodes' = NodeIndices'
  BY <1>1, <1>5, <1>6, SameTree DEF Built
<1> QED  BY <1>14, <1>17, <1>18 DEF TreeRight

LEMMA HashRight ==
  ASSUME TreeRight, NEW s \in Segments, HashNode(s)
  PROVE  TreeRight'
<1> DEFINE n == data_length
           a == adding[s]
           last == ~(a.i + 1 < a.cur + a.length)
           call == IF a.i + 1 < a.cur + a.length THEN [a EXCEPT !.i = a.i + 1]
                   ELSE SubLayer(a.cur \div 2, a.length \div 2)
<1>1. /\ a.at = "hash"
      /\ nodes' = [nodes EXCEPT ![a.i] = Hash(nodes[2 * a.i], nodes[2 * a.i + 1])]
      /\ adding' = [adding EXCEPT ![s] = call]
      /\ tree' = tree /\ commitment' = commitment /\ stage' = stage
      /\ tree \in Trees /\ DOMAIN nodes = NodeIndices
      /\ DOMAIN adding = Segments
  BY DEF HashNode, TreeRight, AddingRight
<1>2. CallRight(s, a)
  BY DEF TreeRight, AddingRight
<1>3. PICK i, w : i = a.i /\ w = a.length
  OBVIOUS
<1>4. /\ w \in Lengths /\ w < SegmentLengthInElements /\ i \in Row(s, w)
      /\ a.cur = w * (tree.n_segments + s)
  BY <1>1, <1>2, <1>3 DEF CallRight
<1>5. w \in PowersOfTwo /\ w \in Nat \ {0} /\ n \in Nat \ {0}
  BY <1>1, <1>4, PowerFacts, TreeNumbers DEF Lengths
<1>6. i \in NodeIndices /\ i \in Nat /\ i < n
  BY <1>1, <1>4, RowFacts
<1>7. commitment = Nothing
  BY <1>1 DEF TreeRight, Built
<1>8. /\ \A x \in NodeIndices : Written(x) => NodeRight(x)
      /\ \A r \in Segments : \A v \in Lengths : \A x \in Row(r, v) :
           Written(x) <=> Computed(adding[r], v, x)
      /\ stage = "committing"
  BY <1>7 DEF TreeRight, Building
<1>9. ~Written(i)
  BY <1>1, <1>3, <1>4, <1>5, <1>6, <1>8 DEF Computed
<1>10. Written(2 * i) /\ Written(2 * i + 1)
  <2>1. 2 * w \in Lengths /\ 2 * i \in Row(s, 2 * w) /\ 2 * i + 1 \in Row(s, 2 * w)
    BY <1>1, <1>4, ChildrenRow
  <2>2. 2 * w > w
    BY <1>5
  <2>3. Computed(a, 2 * w, 2 * i) /\ Computed(a, 2 * w, 2 * i + 1)
    BY <1>1, <1>3, <2>2 DEF Computed
  <2> QED  BY <1>8, <2>1, <2>3
<1>11. a.cur \in Nat /\ Row(s, w) = a.cur .. a.cur + w - 1
  <2>1. a.cur \in 0 .. 2 * n
    BY <1>2 DEF CallRight
  <2> QED  BY <1>4, <1>5, <2>1 DEF Row, RowOf
<1>12. /\ CallRight(s, call)
       /\ \A v \in Lengths : \A x \in Row(s, v) :
            Computed(call, v, x) <=> Computed(a, v, x) \/ x = i
  <2>1. CASE last
    <3>1. call = SubLayer(a.cur \div 2, w \div 2)
      BY <1>3, <2>1
    <3>2. i = a.cur + w - 1
      BY <1>3, <1>4, <1>5, <1>11, <2>1
    <3>3. /\ CallRight(s, SubLayer(a.cur \div 2, w \div 2))
          /\ \A v \in Lengths : \A x \in Row(s, v) :
               Computed(SubLayer(a.cur \div 2, w \div 2), v, x) <=> v >= w
      BY <1>1, <1>4, SubLayerRight
    <3> HIDE DEF call
    <3>4. ASSUME NEW v \in Lengths, NEW x \in Row(s, v)
          PROVE  Computed(call, v, x) <=> Computed(a, v, x) \/ x = i
      <4>1. v \in Nat /\ x \in Nat
        BY <1>1, RowFacts
      <4>2. v = w => x <= i
        BY <1>11, <3>2
      <4>3. x = i => v = w
        BY <1>1, <1>4, OneRow
      <4>4. Computed(call, v, x) <=> v >= w
        BY <3>1, <3>3
      <4>5. Computed(a, v, x) <=> v > w \/ (v = w /\ x < i)
        BY <1>1, <1>3 DEF Computed
      <4> QED  BY <1>5, <1>6, <4>1, <4>2, <4>3, <4>4, <4>5
    <3> QED  BY <3>1, <3>3, <3>4
  <2>2. CASE ~last
    <3>1. call = [a EXCEPT !.i = i + 1] /\ i + 1 < a.cur + w
      BY <1>3, <2>2
    <3> HIDE DEF call
    <3>2. i + 1 \in Row(s, w) /\ i + 1 \in 0 .. 2 * n
      BY <1>4, <1>5, <1>6, <1>11, <3>1
    <3>3. /\ a \in [at : {"start", "hash", "done"}, cur : 0 .. 2 * n, length : 0 .. n,
                    i : 0 .. 2 * n]
      BY <1>2 DEF CallRight
    <3>4. /\ call.at = "hash" /\ call.length = w /\ call.cur = a.cur /\ call.i = i + 1
          /\ call \in [at : {"start", "hash", "done"}, cur : 0 .. 2 * n, length : 0 .. n,
                       i : 0 .. 2 * n]
      BY <1>1, <1>3, <3>1, <3>2, <3>3
    <3>5. CallRight(s, call)
      BY <1>4, <3>2, <3>4 DEF CallRight
    <3>6. ASSUME NEW v \in Lengths, NEW x \in Row(s, v)
          PROVE  Computed(call, v, x) <=> Computed(a, v, x) \/ x = i
      <4>1. v \in Nat /\ x \in Nat
        BY <1>1, RowFacts
      <4>2. x = i => v = w
        BY <1>1, <1>4, OneRow
      <4>3. Computed(call, v, x) <=> v > w \/ (v = w /\ x < i + 1)
        BY <3>4 DEF Computed
      <4>4. Computed(a, v, x) <=> v > w \/ (v = w /\ x < i)
        BY <1>1, <1>3 DEF Computed
      <4> QED  BY <1>6, <4>1, <4>2, <4>3, <4>4
    <3> QED  BY <3>5, <3>6
  <2> QED  BY <2>1, <2>2
<1>13. /\ nodes'[i] = Hash(nodes[2 * i], nodes[2 * i + 1])
       /\ \A x \in NodeIndices \ {i} : nodes'[x] = nodes[x]
       /\ DOMAIN nodes' = NodeIndices
  BY <1>1, <1>3, <1>6
<1>14. adding'[s] = call /\ (\A r \in Segments \ {s} : adding'[r] = adding[r])
       /\ DOMAIN adding' = Segments
  BY <1>1
<1> HIDE DEF n, a, last, call
<1>15. \A x \in NodeIndices : Written(x)' <=> Written(x) \/ x = i
  BY <1>9, <1>13, NotUninitialized DEF Written
<1>16. AddingRight'
  BY <1>1, <1>12, <1>14, SameTree DEF TreeRight, AddingRight
<1>17. ASSUME NEW x \in NodeIndices, Written(x)'
       PROVE  NodeRight(x)'
  <2>1. data_length' = n /\ tree' = tree
    BY <1>1, SameTree DEF n
  <2>2. ASSUME x < n, nodes'[x] = Hash(nodes[2 * x], nodes[2 * x + 1]),
               Written(2 * x), Written(2 * x + 1)
        PROVE  NodeRight(x)'
    <3>1. 2 * x \in NodeIndices /\ 2 * x + 1 \in NodeIndices
      BY <1>5, <2>2 DEF NodeIndices, n
    <3>2. nodes'[2 * x] = nodes[2 * x] /\ nodes'[2 * x + 1] = nodes[2 * x + 1]
      BY <1>9, <1>13, <2>2, <3>1
    <3>3. Written(2 * x)' /\ Written(2 * x + 1)'
      BY <1>15, <2>2, <3>1
    <3> QED  BY <2>1, <2>2, <3>2, <3>3 DEF NodeRight
  <2>3. CASE x = i
    BY <1>6, <1>10, <1>13, <2>2, <2>3
  <2>4. CASE x # i
    <3>1. Written(x) /\ NodeRight(x) /\ nodes'[x] = nodes[x]
      BY <1>8, <1>13, <1>15, <1>17, <2>4
    <3>2. CASE x < n
      BY <2>2, <3>1, <3>2 DEF NodeRight, n
    <3>3. CASE ~(x < n)
      BY <2>1, <3>1, <3>3 DEF NodeRight, n
    <3> QED  BY <3>2, <3>3
  <2> QED  BY <2>3, <2>4
<1>18. ASSUME NEW r \in Segments, NEW v \in Lengths, NEW x \in Row(r, v)
       PROVE  Written(x)' <=> Computed(adding'[r], v, x)
  <2>1. x \in NodeIndices
    BY <1>1, RowFacts
  <2>2. CASE r = s
    BY <1>8, <1>12, <1>14, <1>15, <2>1, <2>2 DEF a
  <2>3. CASE r # s
    <3>1. x # i
      BY <1>1, <1>4, <2>3, OneRow
    <3> QED  BY <1>8, <1>14, <1>15, <2>1, <2>3, <3>1
  <2> QED  BY <2>2, <2>3
<1>19. Building'
  <2>1. Segments' = Segments /\ Lengths' = Lengths /\ NodeIndices' = NodeIndices
        /\ \A r, v : Row(r, v)' = Row(r, v)
    BY <1>1, SameTree
  <2>2. \A r \in Segments : \A v \in Lengths : \A x \in Row(r, v) :
          Written(x)' <=> Computed(adding[r], v, x)'
    BY <1>18 DEF Computed
  <2> QED  BY <1>1, <1>8, <1>17, <2>1, <2>2 DEF Building
<1>20. Built' /\ tree' \in Trees /\ DOMAIN nodes' = NodeIndices'
  BY <1>1, <1>7, <1>13, SameTree DEF Built
<1> QED  BY <1>16, <1>19, <1>20 DEF TreeRight

\* f is what GetRoot's loop leaves, from the node that is k above the last it computes.
AreUpper(f, k) ==
  /\ DOMAIN f = NodeIndices
  /\ \A x \in NodeIndices : x + k >= tree.n_segments =>
       f[x] = IF x < tree.n_segments THEN Hash(f[2 * x], f[2 * x + 1]) ELSE nodes[x]

LEMMA OneUpperMore ==
  ASSUME tree \in Trees, NEW k \in Nat, NEW f, AreUpper(f, k)
  PROVE  \E g : AreUpper(g, k + 1)
<1> DEFINE S == tree.n_segments
           y == S - (k + 1)
           g == [x \in NodeIndices |-> IF x = y THEN Hash(f[2 * x], f[2 * x + 1]) ELSE f[x]]
<1>1. S \in Nat /\ S <= data_length /\ data_length \in Nat
  BY TreeNumbers
<1>2. ASSUME NEW x \in NodeIndices, x + (k + 1) >= S
      PROVE  g[x] = IF x < S THEN Hash(g[2 * x], g[2 * x + 1]) ELSE nodes[x]
  <2>1. x \in Nat \ {0} /\ y \in Int
    BY <1>1 DEF NodeIndices
  <2>2. ASSUME x < S  PROVE g[2 * x] = f[2 * x] /\ g[2 * x + 1] = f[2 * x + 1]
    <3>1. 2 * x \in NodeIndices /\ 2 * x + 1 \in NodeIndices
      BY <1>1, <2>1, <2>2 DEF NodeIndices
    <3>2. 2 * x # y /\ 2 * x + 1 # y
      BY <1>1, <1>2, <2>1
    <3> HIDE DEF y
    <3> QED  BY <3>1, <3>2
  <2>3. CASE x = y
    <3>1. g[x] = Hash(f[2 * x], f[2 * x + 1])
      BY <2>3
    <3>2. x < S
      BY <1>1, <2>3
    <3> HIDE DEF g, y
    <3> QED  BY <2>2, <3>1, <3>2
  <2>4. CASE x # y
    <3>1. g[x] = f[x]
      BY <2>4
    <3>2. x + k >= S
      BY <1>1, <1>2, <2>1, <2>4
    <3>3. f[x] = IF x < S THEN Hash(f[2 * x], f[2 * x + 1]) ELSE nodes[x]
      BY <3>2 DEF AreUpper
    <3> HIDE DEF g, y
    <3> QED  BY <2>2, <3>1, <3>3
  <2> QED  BY <2>3, <2>4
<1>3. DOMAIN g = NodeIndices
  OBVIOUS
<1> HIDE DEF g
<1>4. AreUpper(g, k + 1)
  BY <1>2, <1>3 DEF AreUpper
<1> QED  BY <1>4

LEMMA UpperExist ==
  ASSUME tree \in Trees, DOMAIN nodes = NodeIndices, NEW k \in Nat
  PROVE  \E f : AreUpper(f, k)
<1> DEFINE Bad == {n \in Nat : ~\E f : AreUpper(f, n)}
<1>1. SUFFICES ASSUME Bad # {}  PROVE FALSE
  OBVIOUS
<1>2. PICK m \in Bad : \A n \in Bad : m <= n
  BY <1>1, LeastOf
<1>3. m # 0
  <2>1. AreUpper(nodes, 0)
    BY TreeNumbers DEF AreUpper, NodeIndices
  <2> QED  BY <2>1, <1>2
<1>4. m - 1 \in Nat /\ m - 1 \notin Bad /\ (m - 1) + 1 = m
  BY <1>2, <1>3
<1>5. PICK f : AreUpper(f, m - 1)
  BY <1>4
<1>6. \E g : AreUpper(g, (m - 1) + 1)
  BY <1>4, <1>5, OneUpperMore
<1> QED  BY <1>2, <1>4, <1>6

LEMMA UpperNodes ==
  ASSUME tree \in Trees, DOMAIN nodes = NodeIndices
  PROVE  /\ DOMAIN WithUpperNodes = NodeIndices
         /\ \A x \in NodeIndices : WithUpperNodes[x] =
              IF x < tree.n_segments THEN Hash(WithUpperNodes[2 * x], WithUpperNodes[2 * x + 1])
              ELSE nodes[x]
<1> DEFINE S == tree.n_segments
           P(f) == f = [x \in NodeIndices |-> IF x < S THEN Hash(f[2 * x], f[2 * x + 1])
                                              ELSE nodes[x]]
<1>1. S \in Nat
  BY TreeNumbers
<1>2. PICK f : AreUpper(f, S)
  BY <1>1, UpperExist
<1> DEFINE g == [x \in NodeIndices |-> f[x]]
<1>3. ASSUME NEW x \in NodeIndices
      PROVE  g[x] = IF x < S THEN Hash(g[2 * x], g[2 * x + 1]) ELSE nodes[x]
  <2>1. x \in Nat \ {0} /\ S <= data_length /\ data_length \in Nat
    BY TreeNumbers DEF NodeIndices
  <2>2. f[x] = IF x < S THEN Hash(f[2 * x], f[2 * x + 1]) ELSE nodes[x]
    BY <1>1, <1>2, <2>1 DEF AreUpper
  <2>3. x < S => 2 * x \in NodeIndices /\ 2 * x + 1 \in NodeIndices
    BY <1>1, <2>1 DEF NodeIndices
  <2>4. g[x] = f[x] /\ (x < S => g[2 * x] = f[2 * x] /\ g[2 * x + 1] = f[2 * x + 1])
    BY <2>3
  <2> HIDE DEF g, S
  <2> QED  BY <2>2, <2>4
<1>4. g = [x \in NodeIndices |-> g[x]]
  OBVIOUS
<1> HIDE DEF g
<1>5. P(g)
  BY <1>3, <1>4
<1>6. WithUpperNodes = CHOOSE node : P(node)
  BY TreeFacts DEF WithUpperNodes
<1>7. P(WithUpperNodes)
  BY <1>5, <1>6
<1>8. PICK h : h = WithUpperNodes
  OBVIOUS
<1>9. P(h)
  BY <1>7, <1>8
<1>10. DOMAIN h = NodeIndices
       /\ \A x \in NodeIndices : h[x] = IF x < S THEN Hash(h[2 * x], h[2 * x + 1])
                                        ELSE nodes[x]
  BY <1>9
<1> QED  BY <1>8, <1>10

LEMMA CommitRight ==
  ASSUME TreeRight, Commit
  PROVE  TreeRight'
<1> DEFINE n == data_length
           S == tree.n_segments
<1>1. /\ stage = "committing" /\ commitment = Nothing
      /\ \A s \in Segments : adding[s].at = "done"
      /\ nodes' = WithUpperNodes /\ commitment' = nodes'[1]
      /\ tree' = tree /\ adding' = adding /\ stage' = stage
      /\ tree \in Trees /\ DOMAIN nodes = NodeIndices
  BY DEF Commit, TreeRight
<1>2. /\ DOMAIN nodes' = NodeIndices
      /\ \A x \in NodeIndices : nodes'[x] =
           IF x < S THEN Hash(nodes'[2 * x], nodes'[2 * x + 1]) ELSE nodes[x]
  BY <1>1, UpperNodes
<1>3. n \in Nat \ {0} /\ S \in Nat \ {0} /\ S <= n
  BY <1>1, TreeNumbers
<1>4. ASSUME NEW x \in NodeIndices, ~(x < S)
      PROVE  Written(x) /\ NodeRight(x) /\ nodes'[x] = nodes[x]
  <2>1. PICK s \in 0 .. S - 1, w \in PowersOfTwo :
          w <= SegmentLengthInElements /\ x \in RowOf(S, s, w)
    <3>1. IsTree(n, S, SegmentLengthInElements)
      BY <1>1, TreeFacts
    <3>2. x \in S .. 2 * n - 1
      BY <1>3, <1>4 DEF NodeIndices
    <3> HIDE DEF n, S
    <3> QED  BY <3>1, <3>2, RowsCover
  <2>2. s \in Segments /\ w \in Lengths /\ x \in Row(s, w)
    BY <2>1 DEF Segments, Lengths, Row
  <2>3. Written(x) <=> Computed(adding[s], w, x)
    BY <1>1, <2>2 DEF TreeRight, Building
  <2>4. Written(x)
    BY <1>1, <2>2, <2>3 DEF Computed
  <2>5. NodeRight(x)
    BY <1>1, <2>4 DEF TreeRight, Building
  <2> QED  BY <1>2, <1>4, <2>4, <2>5
<1>5. ASSUME NEW x \in NodeIndices
      PROVE  Written(x)'
  <2>1. CASE x < S
    BY <1>2, <2>1, NotUninitialized DEF Written
  <2>2. CASE ~(x < S)
    BY <1>4, <2>2 DEF Written
  <2> QED  BY <2>1, <2>2
<1>6. ASSUME NEW x \in NodeIndices
      PROVE  NodeRight(x)'
  <2>1. data_length' = n /\ tree' = tree
    BY <1>1, SameTree
  <2>2. x < n => 2 * x \in NodeIndices /\ 2 * x + 1 \in NodeIndices
    BY <1>3 DEF NodeIndices
  <2>3. ASSUME x < n  PROVE nodes'[x] = Hash(nodes'[2 * x], nodes'[2 * x + 1])
    <3>1. CASE x < S
      BY <1>2, <3>1
    <3>2. CASE ~(x < S)
      <4>1. nodes[x] = Hash(nodes[2 * x], nodes[2 * x + 1]) /\ nodes'[x] = nodes[x]
        BY <1>4, <2>3, <3>2 DEF NodeRight
      <4>2. ~(2 * x < S) /\ ~(2 * x + 1 < S)
        BY <1>3, <3>2 DEF NodeIndices
      <4>3. nodes'[2 * x] = nodes[2 * x] /\ nodes'[2 * x + 1] = nodes[2 * x + 1]
        BY <1>4, <2>2, <2>3, <4>2
      <4> QED  BY <4>1, <4>3
    <3> QED  BY <3>1, <3>2
  <2>4. ASSUME ~(x < n)  PROVE nodes'[x] = tree.data[x - n]
    <3>1. ~(x < S)
      BY <1>3, <2>4 DEF NodeIndices
    <3> QED  BY <1>4, <2>4, <3>1 DEF NodeRight
  <2> HIDE DEF n
  <2> QED  BY <1>5, <2>1, <2>2, <2>3, <2>4 DEF NodeRight
<1>7. commitment' # Nothing
  <2>1. 1 \in NodeIndices
    BY <1>3 DEF NodeIndices
  <2>2. CASE 1 < n
    <3>1. nodes'[1] = Hash(nodes'[2 * 1], nodes'[2 * 1 + 1])
      BY <1>1, <1>6, <2>1, <2>2, SameTree DEF NodeRight
    <3> QED  BY <1>1, <3>1, NotUninitialized
  <2>3. CASE ~(1 < n)
    <3>1. nodes'[1] = tree.data[1 - n]
      BY <1>1, <1>6, <2>1, <2>3, SameTree DEF NodeRight
    <3>2. tree.data[1 - n] \in Leaves
      BY <1>1, <1>3, <2>3, LeafFacts
    <3> QED  BY <1>1, <3>1, <3>2, NotUninitialized
  <2> QED  BY <2>2, <2>3
<1>8. Building'
  BY <1>7 DEF Building
<1>9. Built'
  BY <1>1, <1>5, <1>6, SameTree DEF Built
<1>10. AddingRight' /\ tree' \in Trees /\ DOMAIN nodes' = NodeIndices'
  BY <1>1, <1>2, SameTree DEF TreeRight, AddingRight
<1> QED  BY <1>8, <1>9, <1>10 DEF TreeRight

\* The tree stays as it is while it is opened.
LEMMA TreeKept ==
  ASSUME TreeRight, UNCHANGED <<tree, nodes, adding, commitment>>,
         stage' = stage \/ commitment # Nothing
  PROVE  TreeRight'
<1>1. AddingRight' /\ tree' \in Trees /\ DOMAIN nodes' = NodeIndices'
  BY SameTree DEF TreeRight, AddingRight
<1>2. Segments' = Segments /\ Lengths' = Lengths /\ NodeIndices' = NodeIndices
      /\ \A r, v : Row(r, v)' = Row(r, v)
  BY SameTree
<1>3. \A x : (Written(x)' <=> Written(x)) /\ (NodeRight(x)' <=> NodeRight(x))
  BY SameTree DEF Written, NodeRight
<1>4. \A r, v, x : Computed(adding[r], v, x)' <=> Computed(adding[r], v, x)
  BY DEF Computed
<1>5. Building'
  BY <1>2, <1>3, <1>4 DEF TreeRight, Building
<1>6. Built'
  BY <1>2, <1>3 DEF TreeRight, Built
<1> QED  BY <1>1, <1>5, <1>6 DEF TreeRight

LEMMA Disjoint == TreeRight => SegmentsDisjoint
<1> SUFFICES ASSUME TreeRight, NEW s \in Segments, adding[s].at = "hash"
             PROVE  /\ nodes[adding[s].i] = Uninitialized
                    /\ nodes[2 * adding[s].i] # Uninitialized
                    /\ nodes[2 * adding[s].i + 1] # Uninitialized
                    /\ \A r \in Segments \ {s} :
                         adding[r].at = "hash" => adding[r].i # adding[s].i
  BY DEF SegmentsDisjoint
<1>1. tree \in Trees /\ \A r \in Segments : CallRight(r, adding[r])
  BY DEF TreeRight, AddingRight
<1>2. commitment = Nothing
  BY DEF TreeRight, Built
<1>3. \A r \in Segments : \A w \in Lengths : \A x \in Row(r, w) :
        Written(x) <=> Computed(adding[r], w, x)
  BY <1>2 DEF TreeRight, Building
<1>4. PICK i, w : i = adding[s].i /\ w = adding[s].length
  OBVIOUS
<1>5. w \in Lengths /\ w < SegmentLengthInElements /\ i \in Row(s, w) /\ i \in Nat
      /\ w \in Nat \ {0}
  BY <1>1, <1>4, RowFacts DEF CallRight
<1>6. ~Written(i)
  BY <1>3, <1>4, <1>5 DEF Computed
<1>7. Written(2 * i) /\ Written(2 * i + 1)
  <2>1. 2 * w \in Lengths /\ 2 * i \in Row(s, 2 * w) /\ 2 * i + 1 \in Row(s, 2 * w)
    BY <1>1, <1>5, ChildrenRow
  <2>2. 2 * w > w
    BY <1>5
  <2> QED  BY <1>3, <1>4, <2>1, <2>2 DEF Computed
<1>8. ASSUME NEW r \in Segments \ {s}, adding[r].at = "hash"
      PROVE  adding[r].i # i
  <2>1. PICK v : v = adding[r].length
    OBVIOUS
  <2>2. v \in Lengths /\ adding[r].i \in Row(r, v) /\ r \in Segments /\ r # s
    BY <1>1, <1>8, <2>1 DEF CallRight
  <2>3. SUFFICES ASSUME adding[r].i = i  PROVE FALSE
    OBVIOUS
  <2>4. i \in Row(r, v)
    BY <2>2, <2>3
  <2>5. r = s
    BY <1>1, <1>5, <2>2, <2>4, OneRow
  <2> QED  BY <2>2, <2>5
<1> QED  BY <1>4, <1>6, <1>7, <1>8 DEF Written

-----------------------------------------------------------------------------
(* The root.                                                               *)

Ranges(n) == {r \in (0 .. n - 1) \X (1 .. n) : r[1] + r[2] <= n}

ByHalves(f, data, r) ==
  IF r[2] \div 2 = 0 THEN data[r[1]]
  ELSE Hash(f[<<r[1], r[2] \div 2>>], f[<<r[1] + r[2] \div 2, r[2] \div 2>>])

\* f is right on the ranges of at most k leaves.
AreRoots(f, data, n, k) == \A r \in Ranges(n) : r[2] <= k => f[r] = ByHalves(f, data, r)

LEMMA Halves ==
  ASSUME NEW n \in Nat, NEW r \in Ranges(n), r[2] \div 2 # 0
  PROVE  LET half == r[2] \div 2 IN
         /\ half \in Nat /\ half < r[2]
         /\ <<r[1], half>> \in Ranges(n) /\ <<r[1] + half, half>> \in Ranges(n)
<1> DEFINE half == r[2] \div 2
<1>1. PICK a, b : a = r[1] /\ b = r[2]
  OBVIOUS
<1>2. a \in 0 .. n - 1 /\ b \in 1 .. n /\ a + b <= n
  BY <1>1 DEF Ranges
<1>3. half = b \div 2
  BY <1>1
<1> HIDE DEF half
<1>4. half \in Nat \ {0} /\ 2 * half <= b
  BY <1>1, <1>2, <1>3
<1>5. /\ a + half \in 0 .. n - 1 /\ half \in 1 .. n /\ a + half <= n
      /\ (a + half) + half <= n /\ half < b
  BY <1>2, <1>4
<1>6. <<a, half>> \in Ranges(n) /\ <<a + half, half>> \in Ranges(n)
  BY <1>2, <1>5 DEF Ranges
<1> QED  BY <1>1, <1>4, <1>5, <1>6 DEF half

LEMMA OneLengthMore ==
  ASSUME NEW n \in Nat, NEW data, NEW k \in Nat, NEW f, AreRoots(f, data, n, k)
  PROVE  \E g : AreRoots(g, data, n, k + 1)
<1> DEFINE g == [r \in Ranges(n) |-> IF r[2] = k + 1 THEN ByHalves(f, data, r) ELSE f[r]]
<1>1. ASSUME NEW r \in Ranges(n), r[2] <= k + 1
      PROVE  g[r] = ByHalves(g, data, r)
  <2>1. r[2] \in Nat
    BY DEF Ranges
  <2>2. f[r] = ByHalves(f, data, r) \/ r[2] = k + 1
    BY <1>1, <2>1 DEF AreRoots
  <2>3. g[r] = ByHalves(f, data, r)
    BY <2>2
  <2>4. ASSUME r[2] \div 2 # 0
        PROVE  LET half == r[2] \div 2 IN
               /\ g[<<r[1], half>>] = f[<<r[1], half>>]
               /\ g[<<r[1] + half, half>>] = f[<<r[1] + half, half>>]
    <3>1. PICK half : half = r[2] \div 2
      OBVIOUS
    <3>2. /\ half \in Nat /\ half < r[2]
          /\ <<r[1], half>> \in Ranges(n) /\ <<r[1] + half, half>> \in Ranges(n)
      BY <2>4, <3>1, Halves
    <3>3. half # k + 1
      BY <1>1, <2>1, <3>2
    <3>4. /\ g[<<r[1], half>>] = f[<<r[1], half>>]
          /\ g[<<r[1] + half, half>>] = f[<<r[1] + half, half>>]
      BY <3>2, <3>3
    <3> QED  BY <3>1, <3>4
  <2> HIDE DEF g
  <2> QED  BY <2>3, <2>4 DEF ByHalves
<1> HIDE DEF g
<1>2. AreRoots(g, data, n, k + 1)
  BY <1>1 DEF AreRoots
<1> QED  BY <1>2

LEMMA RootsExist ==
  ASSUME NEW n \in Nat, NEW data, NEW k \in Nat
  PROVE  \E f : AreRoots(f, data, n, k)
<1> DEFINE Bad == {j \in Nat : ~\E f : AreRoots(f, data, n, j)}
<1>1. SUFFICES ASSUME Bad # {}  PROVE FALSE
  OBVIOUS
<1>2. PICK m \in Bad : \A j \in Bad : m <= j
  BY <1>1, LeastOf
<1>3. m # 0
  <2>1. \A r \in Ranges(n) : ~(r[2] <= 0)
    BY DEF Ranges
  <2>2. AreRoots(<<>>, data, n, 0)
    BY <2>1 DEF AreRoots
  <2> QED  BY <2>2, <1>2
<1>4. m - 1 \in Nat /\ m - 1 \notin Bad /\ (m - 1) + 1 = m
  BY <1>2, <1>3
<1>5. PICK f : AreRoots(f, data, n, m - 1)
  BY <1>4
<1>6. \E g : AreRoots(g, data, n, (m - 1) + 1)
  BY <1>4, <1>5, OneLengthMore
<1> QED  BY <1>2, <1>4, <1>6

\* RootOf's recursive function satisfies its equation.
LEMMA RootEquation ==
  ASSUME NEW data, NEW n \in Nat, n = Cardinality(DOMAIN data)
  PROVE  \E root : AreRoots(root, data, n, n) /\ RootOf(data) = root[<<0, n>>]
<1> DEFINE P(f) == f = [r \in Ranges(n) |-> ByHalves(f, data, r)]
<1>1. PICK f : AreRoots(f, data, n, n)
  BY RootsExist
<1> DEFINE g == [r \in Ranges(n) |-> f[r]]
<1>2. ASSUME NEW r \in Ranges(n)
      PROVE  g[r] = ByHalves(g, data, r)
  <2>1. r[2] <= n
    BY DEF Ranges
  <2>2. f[r] = ByHalves(f, data, r) /\ g[r] = f[r]
    BY <1>1, <2>1 DEF AreRoots
  <2>3. r[2] \div 2 # 0 =>
          LET half == r[2] \div 2 IN
          /\ <<r[1], half>> \in Ranges(n) /\ <<r[1] + half, half>> \in Ranges(n)
    BY Halves
  <2>4. r[2] \div 2 # 0 =>
          LET half == r[2] \div 2 IN
          /\ g[<<r[1], half>>] = f[<<r[1], half>>]
          /\ g[<<r[1] + half, half>>] = f[<<r[1] + half, half>>]
    BY <2>3
  <2> HIDE DEF g
  <2> QED  BY <2>2, <2>4 DEF ByHalves
<1>3. g = [r \in Ranges(n) |-> g[r]]
  OBVIOUS
<1> HIDE DEF g
<1>4. P(g)
  BY <1>2, <1>3
<1> DEFINE root == CHOOSE h : P(h)
<1>5. P(root)
  BY <1>4
<1>6. RootOf(data) = root[<<0, n>>]
  BY DEF RootOf, Ranges, ByHalves
<1> HIDE DEF root
<1>7. AreRoots(root, data, n, n)
  BY <1>5 DEF AreRoots
<1> QED  BY <1>6, <1>7

\* The root over the leaves below a node is that node, from the leaves upwards.
LEMMA RootsAreNodes ==
  ASSUME tree \in Trees, \A x \in NodeIndices : NodeRight(x),
         NEW root, AreRoots(root, tree.data, data_length, data_length)
  PROVE  \A h \in 0 .. MaxHeight : \A x \in NodeIndices :
           data_length <= Pow2[h] * x /\ Pow2[h] * (x + 1) <= 2 * data_length
           => root[<<Pow2[h] * x - data_length, Pow2[h]>>] = nodes[x]
<1> DEFINE n == data_length
           Fits(w, x) == n <= w * x /\ w * (x + 1) <= 2 * n
           Holds(w) == \A x \in NodeIndices : Fits(w, x) => root[<<w * x - n, w>>] = nodes[x]
           Bad == {h \in 0 .. MaxHeight : ~Holds(Pow2[h])}
<1>1. SUFFICES ASSUME Bad # {}  PROVE FALSE
  OBVIOUS
<1>2. PICK m \in Bad : \A h \in Bad : m <= h
  <2>1. Bad \in SUBSET Nat
    BY Pow2Facts
  <2> HIDE DEF Bad
  <2> QED  BY <1>1, <2>1, LeastOf
<1>3. PICK w : w = Pow2[m]
  OBVIOUS
<1>4. n \in Nat \ {0} /\ w \in Nat \ {0} /\ m \in 0 .. MaxHeight
  BY <1>2, <1>3, TreeNumbers, Pow2Facts
<1>5. ASSUME NEW x \in NodeIndices, Fits(w, x)
      PROVE  root[<<w * x - n, w>>] = nodes[x]
  <2>1. PICK a : a = w * x
    OBVIOUS
  <2>2. x \in Nat \ {0} /\ a \in Nat /\ w * (x + 1) = a + w /\ n <= a /\ a + w <= 2 * n
    <3>1. x \in Nat \ {0}
      BY <1>4 DEF NodeIndices
    <3>2. a \in Nat /\ w * (x + 1) = a + w
      BY <1>4, <2>1, <3>1, Multiples
    <3> QED  BY <1>5, <2>1, <3>1, <3>2
  <2>3. <<a - n, w>> \in Ranges(n) /\ w <= n
    <3>1. a - n \in 0 .. n - 1 /\ w \in 1 .. n /\ (a - n) + w <= n
      BY <1>4, <2>2
    <3> QED  BY <3>1 DEF Ranges
  <2>4. root[<<a - n, w>>] = ByHalves(root, tree.data, <<a - n, w>>)
    BY <2>3 DEF AreRoots
  <2>5. CASE m = 0
    <3>1. w = 1 /\ w \div 2 = 0
      BY <1>3, <2>5, Pow2Facts
    <3>2. a = x
      BY <2>1, <2>2, <3>1
    <3>3. root[<<a - n, w>>] = tree.data[x - n]
      BY <2>4, <3>1, <3>2 DEF ByHalves
    <3>4. nodes[x] = tree.data[x - n]
      BY <1>4, <2>2, <3>2 DEF NodeRight
    <3> QED  BY <2>1, <3>3, <3>4
  <2>6. CASE m # 0
    <3>1. PICK u : u = Pow2[m - 1]
      OBVIOUS
    <3>2. u \in Nat \ {0} /\ w = 2 * u /\ m - 1 \in 0 .. MaxHeight /\ m - 1 \notin Bad
      BY <1>2, <1>3, <1>4, <2>6, <3>1, Pow2Facts
    <3>3. Holds(u)
      BY <3>1, <3>2
    <3>4. PICK b : b = u * x
      OBVIOUS
    <3>5. /\ b \in Nat /\ a = 2 * b
          /\ u * (2 * x) = a /\ u * (2 * x + 1) = a + u /\ u * ((2 * x + 1) + 1) = a + w
      <4>1. b \in Nat /\ u * (2 * x) = 2 * b /\ a = 2 * b
        BY <2>1, <2>2, <3>2, <3>4, Multiples
      <4>2. 2 * x \in Nat /\ 2 * x + 1 \in Nat
        BY <2>2
      <4>3. u * (2 * x + 1) = u * (2 * x) + u
        BY <3>2, <4>2, Multiples
      <4>4. u * ((2 * x + 1) + 1) = u * (2 * x + 1) + u
        BY <3>2, <4>2, Multiples
      <4> QED  BY <3>2, <4>1, <4>3, <4>4
    <3>6. x < n
      <4>1. 2 * (x + 1) <= w * (x + 1)
        <5>1. 2 <= w
          BY <3>2
        <5>2. x + 1 \in Nat
          BY <2>2
        <5> QED  BY <1>4, <5>1, <5>2, Multiples
      <4> QED  BY <1>4, <2>2, <4>1
    <3>7. 2 * x \in NodeIndices /\ 2 * x + 1 \in NodeIndices
      BY <1>4, <2>2, <3>6 DEF NodeIndices
    <3>8. Fits(u, 2 * x) /\ Fits(u, 2 * x + 1)
      BY <1>4, <2>2, <3>2, <3>5
    <3>9. root[<<u * (2 * x) - n, u>>] = nodes[2 * x]
      BY <3>3, <3>7, <3>8
    <3>10. root[<<u * (2 * x + 1) - n, u>>] = nodes[2 * x + 1]
      BY <3>3, <3>7, <3>8
    <3>11. (a - n) + u = (a + u) - n
      BY <1>4, <2>2, <3>2
    <3>12. w \div 2 = u /\ w \div 2 # 0
      BY <3>2
    <3>13. root[<<a - n, w>>] = Hash(nodes[2 * x], nodes[2 * x + 1])
      BY <2>4, <3>5, <3>9, <3>10, <3>11, <3>12 DEF ByHalves
    <3>14. nodes[x] = Hash(nodes[2 * x], nodes[2 * x + 1])
      BY <3>6 DEF NodeRight
    <3> QED  BY <2>1, <3>13, <3>14
  <2> QED  BY <2>5, <2>6
<1>6. Holds(w)
  BY <1>5
<1> QED  BY <1>2, <1>3, <1>6

LEMMA RootRight == TreeRight => RootIsOfData
<1> SUFFICES ASSUME TreeRight, commitment # Nothing
             PROVE  commitment = RootOf(tree.data)
  BY DEF RootIsOfData
<1> DEFINE n == data_length
<1>1. tree \in Trees /\ commitment = nodes[1] /\ \A x \in NodeIndices : NodeRight(x)
  BY DEF TreeRight, Built
<1>2. n \in Nat \ {0} /\ n \in PowersOfTwo /\ n = Cardinality(DOMAIN tree.data)
  BY <1>1, TreeNumbers, TreeFacts DEF data_length, IsTree
<1>3. PICK root : AreRoots(root, tree.data, n, n) /\ RootOf(tree.data) = root[<<0, n>>]
  BY <1>2, RootEquation
<1>4. PICK h \in 0 .. MaxHeight : n = Pow2[h]
  BY <1>2 DEF PowersOfTwo
<1>5. 1 \in NodeIndices
  BY <1>2 DEF NodeIndices
<1>6. Pow2[h] * 1 = n /\ Pow2[h] * (1 + 1) = 2 * n
  BY <1>2, <1>4
<1>7. n <= Pow2[h] * 1 /\ Pow2[h] * (1 + 1) <= 2 * n /\ Pow2[h] * 1 - n = 0
  BY <1>2, <1>6
<1>8. root[<<Pow2[h] * 1 - n, Pow2[h]>>] = nodes[1]
  BY <1>1, <1>3, <1>5, <1>7, RootsAreNodes
<1> QED  BY <1>1, <1>3, <1>4, <1>7, <1>8

-----------------------------------------------------------------------------
(* The queue of known nodes, which both loops walk in the same way: the     *)
(* first node is taken off, and its sibling if that is next, and their      *)
(* parent is appended.                                                      *)

IsNodes(q) == IsSeq(q) /\ \A k \in 1 .. Len(q) : q[k] \in NodeIndices

\* r is q after a turn that takes off e nodes.
Popped(q, r, e) ==
  /\ e \in 1 .. 2 /\ e <= Len(q)
  /\ IsSeq(r) /\ Len(r) = Len(q) - e + 1
  /\ \A k \in 1 .. Len(q) - e : r[k] = q[k + e]
  /\ r[Len(r)] = Parent(q[1])
  /\ e = 2 <=> Len(q) > 1 /\ q[2] = Sibling(q[1])

LEMMA SiblingFacts ==
  ASSUME NEW x \in Nat, x > 1
  PROVE  /\ Parent(x) \in Nat \ {0} /\ Parent(x) < x /\ Parent(x) < Sibling(x)
         /\ Sibling(x) \in Nat /\ Sibling(x) > 1
         /\ \/ x % 2 = 0 /\ x = 2 * Parent(x) /\ Sibling(x) = 2 * Parent(x) + 1
            \/ x % 2 # 0 /\ x = 2 * Parent(x) + 1 /\ Sibling(x) = 2 * Parent(x)
<1>1. PICK p : p = x \div 2
  OBVIOUS
<1>2. p \in Nat \ {0} /\ p < x /\ ((x % 2 = 0 /\ x = 2 * p) \/ (x % 2 = 1 /\ x = 2 * p + 1))
  BY <1>1
<1>3. x % 2 = 0 => Sibling(x) = x + 1
  BY DEF Sibling
<1>4. x % 2 = 1 => Sibling(x) = x - 1
  BY DEF Sibling
<1> QED  BY <1>1, <1>2, <1>3, <1>4 DEF Parent

LEMMA FamilyFacts ==
  ASSUME tree \in Trees, NEW x \in NodeIndices, x > 1
  PROVE  /\ Parent(x) \in NodeIndices /\ Parent(x) < data_length
         /\ Sibling(x) \in NodeIndices /\ x \in Nat
         /\ 2 * Parent(x) \in NodeIndices /\ 2 * Parent(x) + 1 \in NodeIndices
<1>1. data_length \in Nat /\ x \in Nat /\ x <= 2 * data_length - 1
  BY TreeNumbers DEF NodeIndices
<1>2. /\ Parent(x) \in Nat \ {0} /\ Parent(x) < x
      /\ Sibling(x) \in Nat /\ Sibling(x) > 1
      /\ \/ x = 2 * Parent(x) /\ Sibling(x) = 2 * Parent(x) + 1
         \/ x = 2 * Parent(x) + 1 /\ Sibling(x) = 2 * Parent(x)
  BY <1>1, SiblingFacts
<1> QED  BY <1>1, <1>2 DEF NodeIndices

LEMMA PoppedNodes ==
  ASSUME tree \in Trees, NEW q, IsNodes(q), NEW r, NEW e, Popped(q, r, e), q[1] > 1
  PROVE  IsNodes(r) /\ Len(r) # 0
<1>1. Len(q) \in Nat /\ e \in 1 .. 2 /\ e <= Len(q) /\ Len(r) = Len(q) - e + 1
  BY DEF IsNodes, IsSeq, Popped
<1>2. q[1] \in NodeIndices
  BY <1>1 DEF IsNodes
<1>3. Parent(q[1]) \in NodeIndices
  BY <1>2, FamilyFacts
<1>4. ASSUME NEW k \in 1 .. Len(r)
      PROVE  r[k] \in NodeIndices
  <2>1. CASE k = Len(r)
    BY <1>3, <2>1 DEF Popped
  <2>2. CASE k # Len(r)
    <3>1. k \in 1 .. Len(q) - e /\ k + e \in 1 .. Len(q)
      BY <1>1, <2>2
    <3> QED  BY <3>1 DEF Popped, IsNodes
  <2> QED  BY <2>1, <2>2
<1> QED  BY <1>1, <1>4 DEF IsNodes, Popped

LEMMA PoppedOnce ==
  ASSUME NEW q, Len(q) \in Nat, NEW r, NEW e, Popped(q, r, e), NEW s, NEW f, Popped(q, s, f)
  PROVE  e = f /\ r = s
<1>1. e = f
  BY DEF Popped
<1>2. /\ IsSeq(r) /\ IsSeq(s) /\ Len(r) = Len(q) - e + 1 /\ Len(s) = Len(r)
      /\ e \in 1 .. 2 /\ e <= Len(q)
  BY <1>1 DEF Popped
<1>3. ASSUME NEW k \in 1 .. Len(r)
      PROVE  r[k] = s[k]
  <2>1. CASE k = Len(r)
    BY <1>2, <2>1 DEF Popped
  <2>2. CASE k # Len(r)
    <3>1. k \in 1 .. Len(q) - e
      BY <1>2, <2>2
    <3> QED  BY <1>1, <3>1 DEF Popped
  <2> QED  BY <2>1, <2>2
<1> QED  BY <1>1, <1>2, <1>3, SameSeq

(* The nodes of the queue are of one layer, in increasing order, then of    *)
(* the layer above, before the parent of the first. So the root comes last. *)

Layered(q) ==
  \E p \in PowersOfTwo, j \in 1 .. Len(q) :
    /\ \A k \in 1 .. j : p <= q[k] /\ q[k] < 2 * p
    /\ \A k \in j + 1 .. Len(q) : p <= 2 * q[k] /\ q[k] < Parent(q[1])
    /\ \A k, l \in 1 .. j : k < l => q[k] < q[l]
    /\ \A k, l \in j + 1 .. Len(q) : k < l => q[k] < q[l]

LEMMA RootAlone ==
  ASSUME NEW q, IsSeq(q), \A k \in 1 .. Len(q) : q[k] \in Nat, Layered(q), q[1] = 1
  PROVE  Len(q) = 1
<1>1. PICK p \in PowersOfTwo, j \in 1 .. Len(q) :
        /\ \A k \in 1 .. j : p <= q[k] /\ q[k] < 2 * p
        /\ \A k \in j + 1 .. Len(q) : p <= 2 * q[k] /\ q[k] < Parent(q[1])
        /\ \A k, l \in 1 .. j : k < l => q[k] < q[l]
  BY DEF Layered
<1>2. p \in Nat \ {0} /\ Len(q) \in Nat
  BY <1>1, PowerFacts DEF IsSeq
<1>3. p = 1
  BY <1>1, <1>2
<1>4. ~(j > 1)
  <2>1. SUFFICES ASSUME j > 1  PROVE FALSE
    OBVIOUS
  <2>2. 2 \in 1 .. j /\ 1 \in 1 .. j
    BY <1>2, <2>1
  <2>3. q[1] < q[2] /\ q[2] < 2 * p /\ q[2] \in Nat
    BY <1>1, <1>2, <2>2
  <2> QED  BY <1>3, <2>3
<1>5. ~(Len(q) > j)
  <2>1. SUFFICES ASSUME Len(q) > j  PROVE FALSE
    OBVIOUS
  <2>2. j + 1 \in j + 1 .. Len(q) /\ j + 1 \in 1 .. Len(q)
    BY <1>2, <2>1
  <2>3. p <= 2 * q[j + 1] /\ q[j + 1] < Parent(q[1]) /\ q[j + 1] \in Nat
    BY <1>1, <2>2
  <2>4. Parent(q[1]) = 0
    BY DEF Parent
  <2> QED  BY <2>3, <2>4
<1> QED  BY <1>2, <1>4, <1>5

LEMMA LayeredNext ==
  ASSUME NEW q, IsSeq(q), \A k \in 1 .. Len(q) : q[k] \in Nat, Layered(q), q[1] > 1,
         NEW r, NEW e, Popped(q, r, e)
  PROVE  Layered(r)
<1>1. PICK p \in PowersOfTwo, j \in 1 .. Len(q) :
        /\ \A k \in 1 .. j : p <= q[k] /\ q[k] < 2 * p
        /\ \A k \in j + 1 .. Len(q) : p <= 2 * q[k] /\ q[k] < Parent(q[1])
        /\ \A k, l \in 1 .. j : k < l => q[k] < q[l]
        /\ \A k, l \in j + 1 .. Len(q) : k < l => q[k] < q[l]
  BY DEF Layered
<1>2. PICK h, a, m, u : h = q[1] /\ a = Parent(h) /\ m = Len(q) /\ u = p \div 2
  OBVIOUS
<1>3. m \in Nat /\ j \in 1 .. m /\ p \in Nat \ {0} /\ h \in Nat /\ p <= h /\ h < 2 * p
  BY <1>1, <1>2, PowerFacts DEF IsSeq
<1>4. p = 2 * u /\ u \in PowersOfTwo /\ u \in Nat \ {0}
  <2>1. p # 1
    BY <1>2, <1>3
  <2> QED  BY <1>2, <2>1, PowerFacts
<1>5. /\ a \in Nat \ {0} /\ a < h /\ a < Sibling(h) /\ Sibling(h) \in Nat
      /\ \/ h = 2 * a /\ Sibling(h) = 2 * a + 1
         \/ h = 2 * a + 1 /\ Sibling(h) = 2 * a
  BY <1>2, <1>3, SiblingFacts
<1>6. u <= a /\ a < p
  BY <1>3, <1>4, <1>5
<1>7. /\ e \in 1 .. 2 /\ e <= m /\ IsSeq(r) /\ Len(r) = m - e + 1
      /\ \A k \in 1 .. m - e : r[k] = q[k + e]
      /\ r[m - e + 1] = a
      /\ e = 2 <=> m > 1 /\ q[2] = Sibling(h)
  BY <1>2 DEF Popped
<1>8. e = 2 => j > 1
  <2>1. SUFFICES ASSUME e = 2, j = 1  PROVE FALSE
    BY <1>3
  <2>2. 2 \in j + 1 .. Len(q)
    BY <1>2, <1>3, <1>7, <2>1
  <2>3. q[2] < a
    BY <1>1, <1>2, <2>2
  <2> QED  BY <1>5, <1>7, <2>1, <2>3
<1>9. CASE j <= e          \* nothing of the layer is left
  <2>1. j = e
    BY <1>3, <1>7, <1>8, <1>9
  <2>2. ASSUME NEW k \in 1 .. m - e
        PROVE  r[k] \in Nat /\ u <= r[k] /\ r[k] < a /\ r[k] = q[k + e]
    <3>1. k + e \in j + 1 .. Len(q) /\ k + e \in 1 .. Len(q)
      BY <1>2, <1>3, <1>7, <2>1
    <3>2. r[k] = q[k + e] /\ q[k + e] \in Nat
      BY <1>7, <3>1
    <3>3. p <= 2 * q[k + e] /\ q[k + e] < a
      BY <1>1, <1>2, <3>1
    <3> QED  BY <1>4, <3>2, <3>3
  <2>3. Len(r) \in 1 .. Len(r) /\ Len(r) + 1 .. Len(r) = {}
    BY <1>3, <1>7
  <2>4. \A k \in 1 .. Len(r) : u <= r[k] /\ r[k] < 2 * u
    <3>1. TAKE k \in 1 .. Len(r)
    <3>2. CASE k = m - e + 1
      BY <1>4, <1>6, <1>7, <3>2
    <3>3. CASE k # m - e + 1
      <4>1. k \in 1 .. m - e
        BY <1>3, <1>7, <3>3
      <4>2. r[k] \in Nat /\ u <= r[k] /\ r[k] < a
        BY <2>2, <4>1
      <4> QED  BY <1>4, <1>5, <1>6, <4>2
    <3> QED  BY <3>2, <3>3
  <2>5. \A k, l \in 1 .. Len(r) : k < l => r[k] < r[l]
    <3>1. TAKE k, l \in 1 .. Len(r)
    <3>2. HAVE k < l
    <3>3. k \in 1 .. m - e
      BY <1>3, <1>7, <3>2
    <3>4. CASE l = m - e + 1
      BY <1>7, <2>2, <3>3, <3>4
    <3>5. CASE l # m - e + 1
      <4>1. l \in 1 .. m - e
        BY <1>3, <1>7, <3>5
      <4>2. k + e \in j + 1 .. Len(q) /\ l + e \in j + 1 .. Len(q) /\ k + e < l + e
        BY <1>2, <1>3, <1>7, <2>1, <3>2, <3>3, <4>1
      <4>3. q[k + e] < q[l + e]
        BY <1>1, <4>2
      <4> QED  BY <2>2, <3>3, <4>1, <4>3
    <3> QED  BY <3>4, <3>5
  <2> QED  BY <1>4, <2>3, <2>4, <2>5 DEF Layered
<1>10. CASE j > e         \* the layer goes on
  <2>1. PICK b : b = q[1 + e]
    OBVIOUS
  <2>2. 1 + e \in 1 .. j /\ 1 + e \in 1 .. Len(q) /\ 1 \in 1 .. j /\ 1 \in 1 .. m - e
    BY <1>2, <1>3, <1>7, <1>10
  <2>3. b \in Nat /\ p <= b /\ h < b /\ r[1] = b
    BY <1>1, <1>2, <1>7, <2>1, <2>2
  <2>4. a < Parent(b)
    <3>1. b >= 2 * a + 2
      <4>1. CASE e = 1
        <5>1. b = q[2] /\ m > 1
          BY <1>3, <1>10, <2>1, <4>1
        <5>2. b # Sibling(h)
          BY <1>7, <4>1, <5>1
        <5> QED  BY <1>3, <1>5, <2>3, <5>2
      <4>2. CASE e = 2
        <5>1. q[2] = Sibling(h) /\ 2 \in 1 .. j /\ 1 + e = 3 /\ 3 \in 1 .. j /\ b = q[3]
          BY <1>3, <1>7, <1>10, <2>1, <2>2, <4>2
        <5>2. h < Sibling(h) /\ Sibling(h) < b
          BY <1>1, <1>2, <2>2, <5>1
        <5> QED  BY <1>3, <1>5, <2>3, <5>2
      <4> QED  BY <1>7, <4>1, <4>2
    <3>2. b \div 2 >= a + 1
      BY <1>5, <2>3, <3>1
    <3> QED  BY <1>5, <2>3, <3>2 DEF Parent
  <2>5. j - e \in 1 .. Len(r)
    BY <1>3, <1>7, <1>10
  <2>6. \A k \in 1 .. j - e : p <= r[k] /\ r[k] < 2 * p
    <3>1. TAKE k \in 1 .. j - e
    <3>2. k + e \in 1 .. j /\ k \in 1 .. m - e
      BY <1>3, <1>7, <1>10
    <3> QED  BY <1>1, <1>7, <3>2
  <2>7. Parent(b) \in Nat
    BY <2>3 DEF Parent
  <2>8. ASSUME NEW k \in (j - e) + 1 .. Len(r), k # m - e + 1
         PROVE  k \in 1 .. m - e /\ k + e \in j + 1 .. m /\ k + e \in 1 .. m
    <3>1. Len(r) = m - e + 1 /\ e \in 1 .. 2 /\ m \in Nat /\ j \in 1 .. m /\ j > e
      BY <1>3, <1>7, <1>10
    <3>2. k \in Int /\ j - e + 1 <= k /\ k <= m - e + 1
      BY <3>1
    <3> QED  BY <2>8, <3>1, <3>2
  <2>9. \A k \in (j - e) + 1 .. Len(r) : p <= 2 * r[k] /\ r[k] < Parent(r[1])
    <3>1. TAKE k \in (j - e) + 1 .. Len(r)
    <3>2. CASE k = m - e + 1
      BY <1>4, <1>5, <1>6, <1>7, <2>3, <2>4, <3>2
    <3>3. CASE k # m - e + 1
      <4>1. k \in 1 .. m - e /\ k + e \in j + 1 .. Len(q) /\ k + e \in 1 .. Len(q)
        BY <1>2, <2>8, <3>3
      <4>2. r[k] = q[k + e] /\ q[k + e] \in Nat /\ p <= 2 * q[k + e] /\ q[k + e] < a
        BY <1>1, <1>2, <1>7, <4>1
      <4> QED  BY <1>5, <2>3, <2>4, <2>7, <4>2
    <3> QED  BY <3>2, <3>3
  <2>10. \A k, l \in 1 .. j - e : k < l => r[k] < r[l]
    <3>1. TAKE k, l \in 1 .. j - e
    <3>2. HAVE k < l
    <3>3. /\ k + e \in 1 .. j /\ l + e \in 1 .. j /\ k + e < l + e
          /\ k \in 1 .. m - e /\ l \in 1 .. m - e
      BY <1>3, <1>7, <1>10, <3>2
    <3> QED  BY <1>1, <1>7, <3>3
  <2>11. \A k, l \in (j - e) + 1 .. Len(r) : k < l => r[k] < r[l]
    <3>1. TAKE k, l \in (j - e) + 1 .. Len(r)
    <3>2. HAVE k < l
    <3>3. k \in 1 .. m - e /\ k + e \in j + 1 .. Len(q)
      BY <1>2, <1>3, <1>7, <1>10, <3>2
    <3>4. r[k] = q[k + e] /\ q[k + e] < a
      BY <1>1, <1>2, <1>7, <3>3
    <3>5. CASE l = m - e + 1
      BY <1>7, <3>4, <3>5
    <3>6. CASE l # m - e + 1
      <4>1. l \in 1 .. m - e /\ l + e \in j + 1 .. Len(q) /\ k + e < l + e
        BY <1>2, <1>3, <1>7, <2>8, <3>2, <3>6
      <4>2. q[k + e] < q[l + e]
        BY <1>1, <3>3, <4>1
      <4> QED  BY <1>7, <3>4, <4>1, <4>2
    <3> QED  BY <3>5, <3>6
  <2> QED  BY <2>5, <2>6, <2>9, <2>10, <2>11 DEF Layered
<1> QED  BY <1>3, <1>7, <1>9, <1>10

-----------------------------------------------------------------------------
(* The opening.  The generator's walk through the queues and the number of  *)
(* nodes sent on the way is what the verifier repeats.                      *)

LeafQueue(S, n) == [k \in 1 .. Len(InOrder(S)) |-> InOrder(S)[k] + n]

\* A turn of the generator from queue q, having sent c nodes, to queue r and d nodes.
Turn(q, c, r, d) ==
  /\ q[1] > 1
  /\ \E e \in 1 .. 2 :
       /\ Popped(q, r, e)
       /\ IF e = 2 THEN d = c ELSE d = c + 1 /\ d <= Len(sent) /\ sent[d] = Sibling(q[1])

IsWalk(n, walk, count) ==
  /\ walk[0] = LeafQueue(queries, data_length) /\ count[0] = 0
  /\ \A k \in 0 .. n : IsNodes(walk[k]) /\ Len(walk[k]) # 0 /\ count[k] \in Nat
  /\ \A k \in 0 .. n - 1 : Turn(walk[k], count[k], walk[k + 1], count[k + 1])
  /\ walk[n] = queue /\ count[n] = Len(sent)

Opening ==
  /\ queries \subseteq 0 .. data_length - 1
  /\ IsNodes(queue) /\ IsNodes(sent) /\ IsNodes(asked)
  /\ IsSeq(known) /\ \A k \in 1 .. Len(known) : known[k].index \in NodeIndices
  /\ stage \in {"committing", "generating", "verifying", "accepted", "rejected"}
  /\ stage = "committing" => sent = <<>>
  /\ stage \in {"committing", "generating"} => asked = <<>>
  /\ stage # "committing" =>
       /\ commitment # Nothing /\ queries # {}
       /\ \E n \in Nat : \E walk, count : IsWalk(n, walk, count)

IndicesOf(pairs) == [k \in 1 .. Len(pairs) |-> pairs[k].index]

Indices == IndicesOf(known)

ClaimsRight == \A q \in queries : claims[q] = tree.data[q]

KnownRight == \A k \in 1 .. Len(known) : known[k].hash = nodes[known[k].index]

\* What the verifier knows binds the claims, and follows from them on an intact proof.
Verifying ==
  stage = "verifying" =>
    /\ claims \in Claims /\ damage \in Damages /\ proof = Arrived(damage)
    /\ Len(known) # 0 /\ Layered(Indices)
    /\ \A k \in 1 .. Len(known) : known[k].hash # Garbage
    /\ KnownRight => ClaimsRight
    /\ damage.kind = "none" /\ ClaimsRight => KnownRight

\* On an intact proof, the verifier is where the generator was when it had sent as many
\* nodes as were asked for.
InStep ==
  stage = "verifying" /\ damage.kind = "none" =>
    \E n \in Nat : \E walk, count :
      /\ IsWalk(n, walk, count) /\ queue[1] = 1
      /\ \E k \in 0 .. n : walk[k] = Indices /\ count[k] = Len(asked)

IInv == TreeRight /\ Opening /\ Verifying /\ InStep

IsLeafQueue(q, S, n) ==
  /\ IsSeq(q) /\ Len(q) = Len(InOrder(S)) /\ Len(q) # 0
  /\ q = [k \in DOMAIN InOrder(S) |-> InOrder(S)[k] + n]
  /\ \A k \in 1 .. Len(q) : q[k] \in n .. 2 * n - 1 /\ q[k] = InOrder(S)[k] + n

LEMMA LeafQueueFacts ==
  ASSUME NEW n \in Nat, NEW S \in SUBSET (0 .. n - 1), S # {}
  PROVE  IsLeafQueue(LeafQueue(S, n), S, n) /\ IsInOrder(InOrder(S), S)
<1> DEFINE q == InOrder(S)
           u == LeafQueue(S, n)
<1>1. IsInOrder(q, S)
  <2>1. IsFiniteSet(0 .. n - 1)
    BY FS_Interval
  <2>2. IsFiniteSet(S)
    BY <2>1, FS_Subset
  <2>3. S \in SUBSET Nat
    OBVIOUS
  <2> QED  BY <2>2, <2>3, InOrderFacts
<1>2. u = [k \in 1 .. Len(q) |-> q[k] + n]
  BY DEF LeafQueue
<1> HIDE DEF q, u
<1>3. Len(q) \in Nat /\ \A k \in 1 .. Len(q) : q[k] \in S
  BY <1>1 DEF IsInOrder, IsSeq
<1>4. Len(q) # 0
  <2>1. PICK x \in S : TRUE
    OBVIOUS
  <2>2. \E i \in 1 .. Len(q) : q[i] = x
    BY <1>1 DEF IsInOrder
  <2> QED  BY <1>3, <2>2
<1>5. PICK m : m = Len(q)
  OBVIOUS
<1>6. u = [k \in 1 .. m |-> q[k] + n] /\ m \in Nat \ {0}
  BY <1>2, <1>3, <1>4, <1>5
<1>7. DOMAIN u = 1 .. m /\ u = [k \in 1 .. m |-> u[k]] /\ \A k \in 1 .. m : u[k] = q[k] + n
  BY <1>6
<1>8. IsSeq(u) /\ Len(u) = m
  BY <1>6, <1>7, ListedIsSeq
<1>9. \A k \in 1 .. m : u[k] \in n .. 2 * n - 1
  BY <1>3, <1>5, <1>7
<1>10. DOMAIN q = 1 .. m
  <2>1. q = [k \in 1 .. m |-> q[k]]
    BY <1>1, <1>5 DEF IsInOrder, IsSeq
  <2> QED  BY <2>1
<1>11. IsLeafQueue(u, S, n)
  BY <1>5, <1>6, <1>7, <1>8, <1>9, <1>10 DEF IsLeafQueue, q
<1> QED  BY <1>1, <1>11 DEF q, u

LEMMA OpeningInit == Init => Opening /\ Verifying /\ InStep
<1> SUFFICES ASSUME Init  PROVE Opening /\ Verifying /\ InStep
  OBVIOUS
<1>1. /\ queries = {} /\ queue = <<>> /\ sent = <<>> /\ asked = <<>> /\ known = <<>>
      /\ stage = "committing"
  BY DEF Init
<1>2. IsNodes(<<>>) /\ IsSeq(<<>>) /\ Len(<<>>) = 0
  BY EmptySeq DEF IsNodes
<1>3. Opening
  BY <1>1, <1>2 DEF Opening
<1> QED  BY <1>1, <1>3 DEF Verifying, InStep

\* While the tree is built nothing is opened.
LEMMA OpeningKept ==
  ASSUME Opening, stage = "committing", stage' = stage, tree' = tree, UNCHANGED_opening
  PROVE  Opening' /\ Verifying' /\ InStep'
<1>1. /\ queries' = queries /\ queue' = queue /\ sent' = sent /\ asked' = asked /\ known' = known
      /\ data_length' = data_length /\ NodeIndices' = NodeIndices
  BY SameTree DEF UNCHANGED_opening
<1>2. Opening'
  BY <1>1 DEF Opening, IsNodes
<1> QED  BY <1>2 DEF Verifying, InStep

LEMMA StartRight ==
  ASSUME TreeRight, Opening, StartDecommitment
  PROVE  Opening' /\ Verifying' /\ InStep'
<1>1. /\ stage = "committing" /\ commitment # Nothing /\ stage' = "generating"
      /\ queries' \subseteq 0 .. data_length - 1 /\ queries' # {}
      /\ queue' = [i \in DOMAIN InOrder(queries') |-> InOrder(queries')[i] + data_length]
      /\ tree' = tree /\ commitment' = commitment /\ sent' = sent /\ known' = known
      /\ asked' = asked /\ tree \in Trees
  <2>1. queries' \in (SUBSET (0 .. data_length - 1)) \ {{}}
    BY DEF StartDecommitment
  <2>2. tree \in Trees
    BY DEF TreeRight
  <2>3. /\ stage = "committing" /\ commitment # Nothing /\ stage' = "generating"
        /\ queue' = [i \in DOMAIN InOrder(queries') |-> InOrder(queries')[i] + data_length]
        /\ tree' = tree /\ commitment' = commitment /\ sent' = sent /\ known' = known
        /\ asked' = asked
    BY DEF StartDecommitment
  <2>4. queries' \subseteq 0 .. data_length - 1 /\ queries' # {}
    BY <2>1
  <2> QED  BY <2>2, <2>3, <2>4, Zenon
<1>2. data_length' = data_length /\ NodeIndices' = NodeIndices /\ tree' \in Trees
  BY <1>1, SameTree
<1>3. PICK n, S : n = data_length /\ S = queries'
  OBVIOUS
<1>4. n \in Nat /\ S \in SUBSET (0 .. n - 1) /\ S # {}
  BY <1>1, <1>3, TreeNumbers
<1>5. IsLeafQueue(LeafQueue(S, n), S, n)
  BY <1>4, LeafQueueFacts
<1>6. PICK q : q = LeafQueue(S, n)
  OBVIOUS
<1>7. queue' = q /\ queries' = S /\ data_length' = n
  BY <1>1, <1>2, <1>3, <1>5, <1>6 DEF IsLeafQueue
<1>8. IsNodes(q)' /\ Len(q) # 0
  <2>1. IsSeq(q) /\ Len(q) # 0 /\ \A k \in 1 .. Len(q) : q[k] \in n .. 2 * n - 1
    BY <1>5, <1>6 DEF IsLeafQueue
  <2>2. \A x \in n .. 2 * n - 1 : x \in NodeIndices'
    BY <1>1, <1>2, <1>3, TreeNumbers DEF NodeIndices
  <2> QED  BY <2>1, <2>2 DEF IsNodes
<1>9. sent' = <<>> /\ asked' = <<>> /\ known' = known
  BY <1>1 DEF Opening
<1>10. IsNodes(<<>>)' /\ Len(<<>>) = 0
  BY EmptySeq DEF IsNodes
<1> DEFINE walk == [k \in 0 .. 0 |-> q]
           count == [k \in 0 .. 0 |-> 0]
<1>11. IsWalk(0, walk, count)'
  <2>1. /\ walk[0] = q /\ count[0] = 0
        /\ \A k \in 0 .. 0 : walk[k] = q /\ count[k] = 0
        /\ 0 .. 0 - 1 = {}
    OBVIOUS
  <2> HIDE DEF walk, count
  <2>2. LeafQueue(queries', data_length') = q /\ Len(sent') = 0
    BY <1>6, <1>7, <1>9, <1>10
  <2> QED  BY <1>7, <1>8, <2>1, <2>2 DEF IsWalk
<1>12. \E w, c : IsWalk(0, w, c)'
  BY <1>11
<1>13. Opening'
  BY <1>1, <1>2, <1>7, <1>8, <1>9, <1>10, <1>12 DEF Opening, IsNodes
<1> QED  BY <1>1, <1>13 DEF Verifying, InStep

LEMMA PopFacts ==
  ASSUME tree \in Trees, NEW q, IsNodes(q), Len(q) # 0, q[1] > 1
  PROVE  LET rest == Append(Tail(q), Parent(Head(q))) IN
         IF IsNext(Sibling(Head(q)), rest) THEN Popped(q, Tail(rest), 2) ELSE Popped(q, rest, 1)
<1> DEFINE rest == Append(Tail(q), Parent(Head(q)))
<1>1. Head(q) = q[1] /\ IsRest(Tail(q), q) /\ Len(q) \in Nat
  BY TailFacts DEF IsNodes, IsSeq
<1>2. PICK h, a, m : h = q[1] /\ a = Parent(h) /\ m = Len(q)
  OBVIOUS
<1>3. IsExtended(Append(Tail(q), a), Tail(q), a)
  BY <1>1, AppendFacts DEF IsRest
<1>4. rest = Append(Tail(q), a)
  BY <1>1, <1>2
<1> HIDE DEF rest
<1>5. /\ IsSeq(rest) /\ Len(rest) = m /\ m \in Nat \ {0} /\ rest[m] = a
      /\ \A k \in 1 .. m - 1 : rest[k] = q[k + 1]
  <2>1. Len(Tail(q)) = m - 1 /\ m \in Nat \ {0} /\ \A k \in 1 .. m - 1 : Tail(q)[k] = q[k + 1]
    BY <1>1, <1>2 DEF IsRest
  <2> QED  BY <1>3, <1>4, <2>1 DEF IsExtended
<1>6. Head(rest) = rest[1] /\ IsRest(Tail(rest), rest)
  BY <1>5, TailFacts
<1>7. h \in Nat /\ h > 1 /\ a < Sibling(h)
      /\ a \in Nat /\ Sibling(h) \in Nat
  <2>1. q[1] \in NodeIndices
    BY <1>1 DEF IsNodes
  <2>2. h \in Nat /\ h > 1
    BY <1>2, <2>1, FamilyFacts
  <2> QED  BY <1>2, <2>2, SiblingFacts
<1>8. IsNext(Sibling(h), rest) <=> m > 1 /\ q[2] = Sibling(h)
  <2>1. m = 1 => rest[1] = a
    BY <1>5
  <2>2. m > 1 => rest[1] = q[2]
    BY <1>5
  <2> QED  BY <1>5, <1>6, <1>7, <2>1, <2>2 DEF IsNext
<1>9. CASE IsNext(Sibling(h), rest)
  <2>1. m > 1 /\ q[2] = Sibling(h)
    BY <1>8, <1>9
  <2>2. PICK r : r = Tail(rest)
    OBVIOUS
  <2>3. IsSeq(r) /\ Len(r) = m - 1 /\ \A k \in 1 .. m - 1 : r[k] = rest[k + 1]
    BY <1>5, <1>6, <2>2 DEF IsRest
  <2>4. r[m - 1] = a
    <3>1. m - 1 \in 1 .. m - 1 /\ (m - 1) + 1 = m
      BY <1>5, <2>1
    <3> QED  BY <1>5, <2>3, <3>1
  <2>5. ASSUME NEW k \in 1 .. m - 2
        PROVE  r[k] = q[k + 2]
    <3>1. k \in 1 .. m - 1 /\ k + 1 \in 1 .. m - 1 /\ (k + 1) + 1 = k + 2
      BY <1>5
    <3> QED  BY <1>5, <2>3, <3>1
  <2>6. Popped(q, r, 2)
    BY <1>2, <1>5, <2>1, <2>3, <2>4, <2>5 DEF Popped
  <2> QED  BY <1>1, <1>2, <1>9, <2>2, <2>6 DEF rest
<1>10. CASE ~IsNext(Sibling(h), rest)
  <2>1. ~(m > 1 /\ q[2] = Sibling(h))
    BY <1>8, <1>10
  <2>2. Popped(q, rest, 1)
    BY <1>2, <1>5, <2>1 DEF Popped
  <2> QED  BY <1>1, <1>2, <1>10, <2>2 DEF rest
<1> QED  BY <1>9, <1>10

\* A walk goes on with one more turn of the generator.
LEMMA WalkOn ==
  ASSUME NEW n \in Nat, NEW walk, NEW count, IsWalk(n, walk, count), IsSeq(sent),
         NEW q, q = queue, queries' = queries, data_length' = data_length,
         NodeIndices' = NodeIndices, q[1] > 1,
         NEW e \in 1 .. 2, Popped(q, queue', e), IsNodes(queue'), Len(queue') # 0,
         IF e = 2 THEN sent' = sent ELSE sent' = Append(sent, Sibling(q[1]))
  PROVE  \E w, c : IsWalk(n + 1, w, c)'
<1>1. PICK m : m = Len(sent)
  OBVIOUS
<1>2. m \in Nat
  BY <1>1 DEF IsSeq
<1>3. PICK s, r, d : s = sent' /\ r = queue' /\ d = IF e = 2 THEN m ELSE m + 1
  OBVIOUS
<1>4. d \in Nat /\ Len(s) = d /\ (\A k \in 1 .. m : s[k] = sent[k])
      /\ (e = 1 => d = m + 1 /\ s[d] = Sibling(q[1]))
  <2>1. CASE e = 2
    BY <1>1, <1>2, <1>3, <2>1
  <2>2. CASE e # 2
    <3>1. IsExtended(s, sent, Sibling(q[1]))
      BY <1>3, <2>2, AppendFacts
    <3> QED  BY <1>1, <1>2, <1>3, <2>2, <3>1 DEF IsExtended
  <2> QED  BY <2>1, <2>2
<1> DEFINE w == [k \in 0 .. n + 1 |-> IF k <= n THEN walk[k] ELSE r]
           c == [k \in 0 .. n + 1 |-> IF k <= n THEN count[k] ELSE d]
<1>5. /\ \A k \in 0 .. n : w[k] = walk[k] /\ c[k] = count[k]
      /\ w[n + 1] = r /\ c[n + 1] = d
  OBVIOUS
<1> HIDE DEF w, c
<1>6. w[0] = LeafQueue(queries', data_length') /\ c[0] = 0
  BY <1>5 DEF IsWalk
<1>7. \A k \in 0 .. n + 1 : IsNodes(w[k])' /\ Len(w[k]) # 0 /\ c[k] \in Nat
  <2>1. TAKE k \in 0 .. n + 1
  <2>2. CASE k = n + 1
    BY <1>3, <1>4, <1>5, <2>2 DEF IsNodes
  <2>3. CASE k # n + 1
    <3>1. k \in 0 .. n
      BY <2>3
    <3>2. IsNodes(walk[k]) /\ Len(walk[k]) # 0 /\ count[k] \in Nat
      BY <3>1 DEF IsWalk
    <3> QED  BY <1>5, <3>1, <3>2 DEF IsNodes
  <2> QED  BY <2>2, <2>3
<1>8. \A k \in 0 .. n : Turn(w[k], c[k], w[k + 1], c[k + 1])'
  <2>1. TAKE k \in 0 .. n
  <2>2. CASE k = n
    <3>1. w[k] = q /\ c[k] = m /\ w[k + 1] = r /\ c[k + 1] = d
      BY <1>1, <1>5, <2>2 DEF IsWalk
    <3>2. IF e = 2 THEN d = m ELSE d = m + 1 /\ d <= Len(s) /\ s[d] = Sibling(q[1])
      BY <1>2, <1>3, <1>4
    <3> QED  BY <1>3, <3>1, <3>2 DEF Turn
  <2>3. CASE k # n
    <3>1. k \in 0 .. n - 1 /\ k + 1 \in 0 .. n
      BY <2>3
    <3>2. Turn(walk[k], count[k], walk[k + 1], count[k + 1])
      BY <3>1 DEF IsWalk
    <3>3. PICK f \in 1 .. 2 :
            /\ walk[k][1] > 1 /\ Popped(walk[k], walk[k + 1], f)
            /\ IF f = 2 THEN count[k + 1] = count[k]
               ELSE /\ count[k + 1] = count[k] + 1 /\ count[k + 1] <= m
                    /\ sent[count[k + 1]] = Sibling(walk[k][1])
      BY <1>1, <3>2 DEF Turn
    <3>4. count[k] \in Nat /\ m <= Len(s)
      BY <1>2, <1>3, <1>4, <3>1 DEF IsWalk
    <3>5. f # 2 => count[k + 1] <= Len(s) /\ s[count[k + 1]] = Sibling(walk[k][1])
      BY <1>2, <1>4, <3>3, <3>4
    <3>6. w[k] = walk[k] /\ w[k + 1] = walk[k + 1] /\ c[k] = count[k]
          /\ c[k + 1] = count[k + 1]
      BY <1>5, <3>1
    <3> QED  BY <1>3, <3>3, <3>5, <3>6 DEF Turn
  <2> QED  BY <2>2, <2>3
<1>9. IsWalk(n + 1, w, c)'
  <2>1. (n + 1) - 1 = n
    OBVIOUS
  <2> QED  BY <1>3, <1>4, <1>5, <1>6, <1>7, <1>8, <2>1 DEF IsWalk
<1> QED  BY <1>9

LEMMA QueueNotEmpty ==
  ASSUME Opening, stage # "committing"
  PROVE  Len(queue) # 0 /\ commitment # Nothing
         /\ \E n \in Nat : \E walk, count : IsWalk(n, walk, count)
<1>1. PICK n \in Nat : \E walk, count : IsWalk(n, walk, count)
  BY DEF Opening
<1>2. PICK walk, count : IsWalk(n, walk, count)
  BY <1>1
<1>3. Len(queue) # 0
  BY <1>2 DEF IsWalk
<1>4. commitment # Nothing
  BY DEF Opening
<1> QED  BY <1>1, <1>3, <1>4

LEMMA SendRight ==
  ASSUME TreeRight, Opening, SendSibling
  PROVE  Opening' /\ Verifying' /\ InStep'
<1> DEFINE rest == Append(Tail(queue), Parent(Head(queue)))
           sibling == Sibling(Head(queue))
<1>1. /\ stage = "generating" /\ stage' = stage /\ Head(queue) > 1
      /\ IF IsNext(sibling, rest) THEN queue' = Tail(rest) /\ sent' = sent
         ELSE queue' = rest /\ sent' = Append(sent, sibling)
      /\ tree' = tree /\ commitment' = commitment /\ queries' = queries
      /\ known' = known /\ asked' = asked
  BY DEF SendSibling
<1>2. tree \in Trees /\ data_length' = data_length /\ NodeIndices' = NodeIndices
  BY <1>1, SameTree DEF TreeRight
<1>3. IsNodes(queue) /\ Len(queue) # 0 /\ IsNodes(sent) /\ IsSeq(sent)
  BY <1>1, QueueNotEmpty DEF Opening, IsNodes
<1>4. PICK q : q = queue
  OBVIOUS
<1>5. Head(queue) = q[1] /\ q[1] > 1
  BY <1>1, <1>3, <1>4, TailFacts DEF IsNodes
<1>6. IF IsNext(sibling, rest) THEN Popped(q, Tail(rest), 2) ELSE Popped(q, rest, 1)
  BY <1>2, <1>3, <1>4, <1>5, PopFacts
<1> HIDE DEF rest
<1>7. PICK e \in 1 .. 2 :
        /\ Popped(q, queue', e)
        /\ IF e = 2 THEN sent' = sent ELSE sent' = Append(sent, sibling)
  <2> HIDE DEF sibling
  <2>1. CASE IsNext(sibling, rest)
    <3>1. Popped(q, queue', 2) /\ sent' = sent
      BY <1>1, <1>6, <2>1
    <3>2. 2 \in 1 .. 2
      OBVIOUS
    <3> QED  BY <3>1, <3>2
  <2>2. CASE ~IsNext(sibling, rest)
    <3>1. Popped(q, queue', 1) /\ sent' = Append(sent, sibling)
      BY <1>1, <1>6, <2>2
    <3>2. 1 \in 1 .. 2 /\ 1 # 2
      OBVIOUS
    <3> QED  BY <3>1, <3>2
  <2> QED  BY <2>1, <2>2
<1>8. IsNodes(queue') /\ Len(queue') # 0
  BY <1>2, <1>3, <1>4, <1>5, <1>7, PoppedNodes
<1>9. PICK n \in Nat : \E walk, count : IsWalk(n, walk, count)
  BY <1>1, QueueNotEmpty
<1>10. PICK walk, count : IsWalk(n, walk, count)
  BY <1>9
<1>11. \E w, c : IsWalk(n + 1, w, c)'
  <2>1. IF e = 2 THEN sent' = sent ELSE sent' = Append(sent, Sibling(q[1]))
    BY <1>5, <1>7
  <2> HIDE DEF sibling
  <2> QED  BY <1>1, <1>2, <1>3, <1>4, <1>5, <1>7, <1>8, <1>10, <2>1, WalkOn
<1>12. n + 1 \in Nat
  OBVIOUS
<1>13. IsNodes(sent)'
  <2>1. PICK x : x = sibling
    OBVIOUS
  <2>2. x \in NodeIndices
    <3>1. q[1] \in NodeIndices
      <4>1. Len(queue) \in Nat
        BY <1>3 DEF IsSeq
      <4> QED  BY <1>3, <1>4, <4>1 DEF IsNodes
    <3> QED  BY <1>2, <1>5, <2>1, <3>1, FamilyFacts
  <2>3. CASE e = 2
    BY <1>2, <1>3, <1>7, <2>3 DEF IsNodes
  <2>4. CASE e # 2
    <3>1. PICK s : s = sent'
      OBVIOUS
    <3>2. IsExtended(s, sent, x)
      BY <1>3, <1>7, <2>1, <2>4, <3>1, AppendFacts
    <3>3. Len(sent) \in Nat /\ \A k \in 1 .. Len(sent) : sent[k] \in NodeIndices
      BY <1>3 DEF IsNodes, IsSeq
    <3>4. IsSeq(s) /\ \A k \in 1 .. Len(s) : s[k] \in NodeIndices
      BY <2>2, <3>2, <3>3 DEF IsExtended
    <3> QED  BY <1>2, <3>1, <3>4 DEF IsNodes
  <2> QED  BY <2>3, <2>4
<1>14. IsNodes(queue)'
  BY <1>2, <1>8 DEF IsNodes
<1>15. Opening'
  BY <1>1, <1>2, <1>11, <1>12, <1>13, <1>14 DEF Opening, IsNodes
<1> QED  BY <1>1, <1>15 DEF Verifying, InStep

-----------------------------------------------------------------------------
(* The verifier.                                                           *)

\* The claims are of the queries, and no claim is the hash that is no node's.
LEMMA ClaimsFacts ==
  ASSUME tree \in Trees, queries \subseteq 0 .. data_length - 1,
         NEW c \in Claims
  PROVE  DOMAIN c = queries /\ \A q \in queries : c[q] # Garbage
<1> DEFINE honest == [q \in queries |-> tree.data[q]]
<1>1. data_length \in Nat \ {0} /\ tree.data \in [0 .. data_length - 1 -> Leaves]
  BY TreeNumbers, TreeFacts
<1>2. tree.data[0] \in Leaves /\ \A q \in queries : tree.data[q] \in Leaves
  BY <1>1
<1>3. \A leaf \in Leaves \cup {WrongLeaf} : leaf # Garbage
  BY MerkleAssumption
<1>4. DOMAIN honest = queries /\ \A q \in queries : honest[q] \in Leaves \cup {WrongLeaf}
  BY <1>2
<1>5. CASE c = honest
  <2> HIDE DEF honest
  <2> QED  BY <1>3, <1>4, <1>5
<1>6. CASE c # honest
  <2>1. PICK p \in queries, v \in {WrongLeaf, tree.data[0]} : c = [honest EXCEPT ![p] = v]
    BY <1>6 DEF Claims
  <2>2. v \in Leaves \cup {WrongLeaf}
    BY <1>2, <2>1
  <2> HIDE DEF honest
  <2>3. DOMAIN c = queries /\ \A q \in queries : c[q] \in Leaves \cup {WrongLeaf}
    BY <1>4, <2>1, <2>2
  <2> QED  BY <1>3, <2>3
<1> QED  BY <1>5, <1>6

LEMMA LeafNodes ==
  ASSUME TreeRight, commitment # Nothing, NEW q \in 0 .. data_length - 1
  PROVE  nodes[q + data_length] = tree.data[q]
<1>1. data_length \in Nat \ {0}
  BY TreeNumbers DEF TreeRight
<1>2. q + data_length \in NodeIndices /\ ~(q + data_length < data_length)
      /\ (q + data_length) - data_length = q
  BY <1>1 DEF NodeIndices
<1>3. NodeRight(q + data_length)
  BY <1>2 DEF TreeRight, Built
<1> QED  BY <1>2, <1>3 DEF NodeRight

\* What is known before the loop: the claims.
FirstKnown(k, q, n, c) ==
  /\ IsSeq(k) /\ Len(k) = Len(q)
  /\ \A i \in 1 .. Len(q) : k[i].index = q[i] + n /\ k[i].hash = c[q[i]]

LEMMA FirstKnownFacts ==
  ASSUME NEW S, NEW q, IsInOrder(q, S), NEW n, NEW c, NEW k,
         k = [i \in DOMAIN q |-> [index |-> q[i] + n, hash |-> c[q[i]]]]
  PROVE  FirstKnown(k, q, n, c)
<1>1. PICK m : m = Len(q)
  OBVIOUS
<1>2. m \in Nat /\ q = [i \in 1 .. m |-> q[i]]
  BY <1>1 DEF IsInOrder, IsSeq
<1>3. DOMAIN q = 1 .. m
  BY <1>2
<1>4. DOMAIN k = 1 .. m
  BY <1>3
<1>5. \A i \in 1 .. m : k[i] = [index |-> q[i] + n, hash |-> c[q[i]]]
  BY <1>3
<1>6. k = [i \in 1 .. m |-> k[i]]
  BY <1>3, <1>4, <1>5
<1>7. IsSeq(k) /\ Len(k) = m
  BY <1>2, <1>4, <1>6, ListedIsSeq
<1>8. ASSUME NEW i \in 1 .. m
      PROVE  k[i].index = q[i] + n /\ k[i].hash = c[q[i]]
  <2>1. PICK x, h : x = q[i] + n /\ h = c[q[i]]
    OBVIOUS
  <2>2. k[i] = [index |-> x, hash |-> h]
    BY <1>5, <2>1
  <2> QED  BY <2>1, <2>2
<1> QED  BY <1>1, <1>7, <1>8 DEF FirstKnown

LEMMA LeavesLayered ==
  ASSUME NEW n \in PowersOfTwo, NEW S \in SUBSET (0 .. n - 1), S # {}
  PROVE  Layered(LeafQueue(S, n))
<1>1. n \in Nat \ {0}
  BY PowerFacts
<1>2. IsLeafQueue(LeafQueue(S, n), S, n) /\ IsInOrder(InOrder(S), S)
  BY <1>1, LeafQueueFacts
<1>3. PICK u, q, m : u = LeafQueue(S, n) /\ q = InOrder(S) /\ m = Len(u)
  OBVIOUS
<1>4. /\ m \in Nat \ {0} /\ Len(q) = m
      /\ \A k \in 1 .. m : u[k] \in n .. 2 * n - 1 /\ u[k] = q[k] + n /\ q[k] \in Nat
      /\ \A k, l \in 1 .. m : k < l => q[k] < q[l]
  BY <1>2, <1>3 DEF IsLeafQueue, IsInOrder, IsSeq
<1>5. \A k \in 1 .. m : n <= u[k] /\ u[k] < 2 * n
  BY <1>1, <1>4
<1>6. \A k, l \in 1 .. m : k < l => u[k] < u[l]
  BY <1>1, <1>4
<1>7. m \in 1 .. m /\ m + 1 .. m = {}
  BY <1>4
<1>8. Layered(u)
  BY <1>3, <1>5, <1>6, <1>7 DEF Layered
<1> QED  BY <1>3, <1>8

\* The walk does not change once the generator is done.
LEMMA WalkKept ==
  ASSUME tree' = tree, queries' = queries, queue' = queue, sent' = sent
  PROVE  \A n, walk, count : IsWalk(n, walk, count)' <=> IsWalk(n, walk, count)
<1>1. data_length' = data_length /\ NodeIndices' = NodeIndices
  BY SameTree
<1>2. \A q : IsNodes(q)' <=> IsNodes(q)
  BY <1>1 DEF IsNodes
<1>3. \A q, c, r, d : Turn(q, c, r, d)' <=> Turn(q, c, r, d)
  BY DEF Turn
<1> QED  BY <1>1, <1>2, <1>3 DEF IsWalk

LEMMA SameProof ==
  ASSUME tree' = tree, nodes' = nodes, commitment' = commitment, queries' = queries, sent' = sent
  PROVE  Claims' = Claims /\ Damages' = Damages /\ \A d : Arrived(d)' = Arrived(d)
<1>1. SentNodes' = SentNodes
  BY DEF SentNodes
<1>2. \A d : Arrived(d)' = Arrived(d)
  BY <1>1 DEF Arrived
<1> QED  BY <1>2 DEF Claims, Damages

LEMMA OpeningStays ==
  ASSUME TreeRight, Opening, stage \in {"generating", "verifying"},
         tree' = tree, commitment' = commitment,
         queries' = queries, queue' = queue, sent' = sent,
         IsNodes(asked'), stage' \in {"verifying", "accepted", "rejected"},
         IsSeq(known'), \A k \in 1 .. Len(known') : known'[k].index \in NodeIndices
  PROVE  Opening'
<1>1. data_length' = data_length /\ NodeIndices' = NodeIndices
  BY SameTree
<1>2. commitment # Nothing /\ queries # {} /\ \E n \in Nat : \E w, c : IsWalk(n, w, c)
  BY DEF Opening
<1>3. PICK n \in Nat : \E w, c : IsWalk(n, w, c)
  BY <1>2
<1>4. PICK w, c : IsWalk(n, w, c)
  BY <1>3
<1>5. IsWalk(n, w, c)'
  BY <1>4, WalkKept
<1>6. \E m \in Nat : \E v, d : IsWalk(m, v, d)'
  BY <1>5
<1>7. IsNodes(queue)' /\ IsNodes(sent)' /\ IsNodes(asked)'
  BY <1>1 DEF Opening, IsNodes
<1>8. queries' \subseteq 0 .. data_length' - 1
  BY <1>1 DEF Opening
<1>9. /\ stage' \in {"committing", "generating", "verifying", "accepted", "rejected"}
      /\ stage' \notin {"committing", "generating"}
  OBVIOUS
<1> QED  BY <1>1, <1>2, <1>6, <1>7, <1>8, <1>9 DEF Opening

LEMMA StartVerificationRight ==
  ASSUME TreeRight, Opening, StartVerification
  PROVE  Opening' /\ Verifying' /\ InStep'
<1>1. /\ stage = "generating" /\ stage' = "verifying" /\ Head(queue) = 1
      /\ claims' \in Claims /\ damage' \in Damages /\ proof' = Arrived(damage')
      /\ known' = [i \in DOMAIN InOrder(queries) |->
                     [index |-> InOrder(queries)[i] + data_length,
                      hash |-> claims'[InOrder(queries)[i]]]]
      /\ tree' = tree /\ nodes' = nodes /\ commitment' = commitment
      /\ queries' = queries /\ queue' = queue /\ sent' = sent /\ asked' = asked
  BY DEF StartVerification
<1>2. /\ tree \in Trees /\ queries \subseteq 0 .. data_length - 1 /\ queries # {}
      /\ commitment # Nothing /\ asked = <<>>
  BY <1>1 DEF TreeRight, Opening
<1>3. PICK n, S, q, c, u, k :
        /\ n = data_length /\ S = queries /\ q = InOrder(queries)
        /\ c = claims' /\ k = known' /\ u = LeafQueue(queries, data_length)
  OBVIOUS
<1>4. n \in Nat \ {0} /\ n \in PowersOfTwo /\ S \in SUBSET (0 .. n - 1) /\ S # {}
  BY <1>2, <1>3, TreeNumbers, TreeFacts DEF IsTree
<1>5. IsLeafQueue(u, S, n) /\ IsInOrder(q, S)
  BY <1>3, <1>4, LeafQueueFacts
<1>6. FirstKnown(k, q, n, c)
  <2>1. k = [i \in DOMAIN q |-> [index |-> q[i] + n, hash |-> c[q[i]]]]
    BY <1>1, <1>3
  <2> QED  BY <1>5, <2>1, FirstKnownFacts
<1>7. PICK m : m = Len(q)
  OBVIOUS
<1>8. /\ m \in Nat \ {0} /\ Len(u) = m /\ IsSeq(k) /\ Len(k) = m
      /\ \A i \in 1 .. m : /\ q[i] \in S /\ q[i] \in 0 .. n - 1
                           /\ k[i].index = q[i] + n /\ k[i].hash = c[q[i]]
                           /\ u[i] = q[i] + n
  BY <1>3, <1>4, <1>5, <1>6, <1>7 DEF IsLeafQueue, IsInOrder, FirstKnown, IsSeq
<1>9. IndicesOf(k) = u
  <2>1. IndicesOf(k) = [i \in 1 .. m |-> k[i].index]
    BY <1>8 DEF IndicesOf
  <2>2. u = [i \in 1 .. m |-> u[i]]
    BY <1>5, <1>8 DEF IsLeafQueue, IsSeq
  <2> QED  BY <1>8, <2>1, <2>2
<1>10. Layered(u)
  BY <1>3, <1>4, LeavesLayered
<1>11. DOMAIN c = S /\ \A x \in S : c[x] # Garbage
  BY <1>1, <1>2, <1>3, ClaimsFacts
<1>12. \A x \in S : nodes[x + n] = tree.data[x]
  BY <1>2, <1>3, <1>4, LeafNodes
<1>13. KnownRight' <=> ClaimsRight'
  <2>1. KnownRight' <=> \A i \in 1 .. m : c[q[i]] = nodes[q[i] + n]
    BY <1>1, <1>3, <1>8 DEF KnownRight
  <2>2. ClaimsRight' <=> \A x \in S : c[x] = tree.data[x]
    BY <1>1, <1>3 DEF ClaimsRight
  <2>3. \A x \in S : \E i \in 1 .. m : q[i] = x
    BY <1>5, <1>7 DEF IsInOrder
  <2> QED  BY <1>8, <1>12, <2>1, <2>2, <2>3
<1>14. Claims' = Claims /\ Damages' = Damages /\ proof' = Arrived(damage)'
  <2>1. Arrived(damage)' = Arrived(damage')
    BY <1>1 DEF Arrived, SentNodes
  <2>2. Claims' = Claims /\ Damages' = Damages
    BY <1>1, SameProof
  <2> QED  BY <1>1, <2>1, <2>2
<1>15. Indices' = u
  BY <1>3, <1>9 DEF Indices
<1>16. \A i \in 1 .. m : k[i].hash # Garbage
  BY <1>8, <1>11
<1>17. Verifying'
  BY <1>1, <1>3, <1>8, <1>10, <1>13, <1>14, <1>15, <1>16 DEF Verifying
<1>18. Opening'
  <2>1. \A i \in 1 .. m : k[i].index \in NodeIndices
    BY <1>3, <1>4, <1>8 DEF NodeIndices
  <2>2. IsNodes(asked')
    BY <1>1 DEF Opening
  <2> QED  BY <1>1, <1>3, <1>8, <2>1, <2>2, OpeningStays
<1>19. InStep'
  <2>1. PICK l \in Nat : \E walk, count : IsWalk(l, walk, count)
    BY <1>1, QueueNotEmpty
  <2>2. PICK walk, count : IsWalk(l, walk, count)
    BY <2>1
  <2>3. IsWalk(l, walk, count)' /\ 0 \in 0 .. l
    BY <1>1, <2>2, WalkKept
  <2>4. queue[1] = 1
    <3>1. IsSeq(queue) /\ Len(queue) # 0
      BY <1>1, QueueNotEmpty DEF Opening, IsNodes
    <3> QED  BY <1>1, <3>1, TailFacts
  <2>5. walk[0] = Indices' /\ count[0] = Len(asked')
    BY <1>1, <1>2, <1>3, <1>15, <2>2, EmptySeq DEF IsWalk
  <2> QED  BY <1>1, <2>3, <2>4, <2>5 DEF InStep
<1> QED  BY <1>17, <1>18, <1>19

\* r is k after a turn of the verifier that hashes its first node with a sibling of hash h.
Joined(k, r, e, h) ==
  /\ e \in 1 .. 2 /\ e <= Len(k)
  /\ IsSeq(r) /\ Len(r) = Len(k) - e + 1
  /\ \A i \in 1 .. Len(k) - e : r[i] = k[i + e]
  /\ r[Len(r)].index = Parent(k[1].index)
  /\ r[Len(r)].hash = HashOfSiblings(k[1], [index |-> Sibling(k[1].index), hash |-> h])
  /\ e = 2 <=> Len(k) > 1 /\ k[2].index = Sibling(k[1].index)
  /\ e = 2 => k[2].hash = h

LEMMA JoinedFacts ==
  ASSUME NEW k, IsSeq(k), Len(k) # 0, NEW s, NEW e \in 1 .. 2, e <= Len(k),
         e = 2 <=> Len(k) > 1 /\ k[2].index = Sibling(k[1].index),
         e = 2 => s = k[2],
         s.index = Sibling(k[1].index),
         NEW others, IsSeq(others), Len(others) = Len(k) - e,
         \A i \in 1 .. Len(k) - e : others[i] = k[i + e],
         NEW r, r = Append(others, [index |-> Parent(k[1].index),
                                    hash |-> HashOfSiblings(k[1], s)])
  PROVE  Joined(k, r, e, s.hash)
<1>1. PICK p : p = [index |-> Parent(k[1].index), hash |-> HashOfSiblings(k[1], s)]
  OBVIOUS
<1>2. p.index = Parent(k[1].index) /\ p.hash = HashOfSiblings(k[1], s)
  BY <1>1
<1>3. IsExtended(r, others, p)
  BY <1>1, AppendFacts
<1>4. Len(k) \in Nat
  BY DEF IsSeq
<1>5. HashOfSiblings(k[1], s)
        = HashOfSiblings(k[1], [index |-> Sibling(k[1].index), hash |-> s.hash])
  BY DEF HashOfSiblings
<1> QED  BY <1>2, <1>3, <1>4, <1>5 DEF Joined, IsExtended

LEMMA JoinedPopped ==
  ASSUME NEW k, IsSeq(k), Len(k) # 0, NEW r, NEW e, NEW h, Joined(k, r, e, h)
  PROVE  Popped(IndicesOf(k), IndicesOf(r), e)
<1>1. PICK m, q, u : m = Len(k) /\ q = IndicesOf(k) /\ u = IndicesOf(r)
  OBVIOUS
<1>2. /\ m \in Nat \ {0} /\ e \in 1 .. 2 /\ e <= m /\ Len(r) = m - e + 1
      /\ m - e + 1 \in 1 .. m - e + 1
  BY <1>1 DEF Joined, IsSeq
<1>3. q = [i \in 1 .. m |-> k[i].index]
  BY <1>1 DEF IndicesOf
<1>4. DOMAIN q = 1 .. m /\ q = [i \in 1 .. m |-> q[i]] /\ \A i \in 1 .. m : q[i] = k[i].index
  BY <1>3
<1>5. IsSeq(q) /\ Len(q) = m
  BY <1>2, <1>4, ListedIsSeq
<1>6. u = [i \in 1 .. m - e + 1 |-> r[i].index]
  BY <1>1, <1>2 DEF IndicesOf
<1>7. /\ DOMAIN u = 1 .. m - e + 1 /\ u = [i \in 1 .. m - e + 1 |-> u[i]]
      /\ \A i \in 1 .. m - e + 1 : u[i] = r[i].index
  BY <1>6
<1>8. IsSeq(u) /\ Len(u) = m - e + 1
  <2>1. m - e + 1 \in Nat
    BY <1>2
  <2> QED  BY <1>7, <2>1, ListedIsSeq
<1>9. \A i \in 1 .. m - e : u[i] = q[i + e]
  <2>1. TAKE i \in 1 .. m - e
  <2>2. i \in 1 .. m - e + 1 /\ i + e \in 1 .. m
    BY <1>2
  <2> QED  BY <1>1, <1>4, <1>7, <2>2 DEF Joined
<1>10. u[m - e + 1] = Parent(q[1])
  BY <1>1, <1>2, <1>4, <1>7 DEF Joined
<1>11. e = 2 <=> m > 1 /\ q[2] = Sibling(q[1])
  BY <1>1, <1>2, <1>4 DEF Joined
<1> QED  BY <1>1, <1>2, <1>5, <1>8, <1>9, <1>10, <1>11 DEF Popped

AllRight(k) == \A i \in 1 .. Len(k) : k[i].hash = nodes[k[i].index]

\* A node that is right has right children, and if both are right then so is it.
LEMMA JoinedRight ==
  ASSUME TreeRight, commitment # Nothing,
         NEW k, IsSeq(k), Len(k) # 0, \A i \in 1 .. Len(k) : k[i].index \in NodeIndices,
         k[1].index > 1, NEW r, NEW e, NEW h, Joined(k, r, e, h)
  PROVE  /\ AllRight(r) => AllRight(k)
         /\ AllRight(k) /\ (e = 1 => h = nodes[Sibling(k[1].index)]) => AllRight(r)
         /\ \A i \in 1 .. Len(r) : r[i].index \in NodeIndices
         /\ (\A i \in 1 .. Len(k) : k[i].hash # Garbage)
            => \A i \in 1 .. Len(r) : r[i].hash # Garbage
<1>1. PICK m, x, p, g, last : /\ m = Len(k) /\ x = k[1].index /\ p = Parent(k[1].index)
                              /\ g = k[1].hash /\ last = m - e + 1
  OBVIOUS
<1>2. /\ m \in Nat \ {0} /\ e \in 1 .. 2 /\ e <= m /\ Len(r) = last /\ last = m - e + 1
      /\ 1 \in 1 .. m /\ last \in 1 .. last
  BY <1>1 DEF Joined, IsSeq
<1>3. x \in NodeIndices /\ x > 1 /\ tree \in Trees
  BY <1>1, <1>2 DEF TreeRight
<1>4. /\ p \in NodeIndices /\ p < data_length /\ Sibling(x) \in NodeIndices /\ x \in Nat
      /\ 2 * p \in NodeIndices /\ 2 * p + 1 \in NodeIndices
  BY <1>1, <1>3, FamilyFacts
<1>5. \/ x % 2 = 0 /\ x = 2 * p /\ Sibling(x) = 2 * p + 1
      \/ x % 2 # 0 /\ x = 2 * p + 1 /\ Sibling(x) = 2 * p
  BY <1>1, <1>3, <1>4, SiblingFacts
<1>6. nodes[p] = Hash(nodes[2 * p], nodes[2 * p + 1])
  <2>1. NodeRight(p)
    BY <1>4 DEF TreeRight, Built
  <2> QED  BY <1>4, <2>1 DEF NodeRight
<1>7. /\ r[last].index = p
      /\ r[last].hash = IF x % 2 = 0 THEN Hash(g, h) ELSE Hash(h, g)
  BY <1>1, <1>2 DEF Joined, HashOfSiblings
<1>8. r[last].hash = nodes[r[last].index] <=> g = nodes[x] /\ h = nodes[Sibling(x)]
  BY <1>5, <1>6, <1>7 DEF Hash
<1>9. \A i \in 1 .. last : i # last => i + e \in 1 .. m /\ r[i] = k[i + e]
  <2>1. TAKE i \in 1 .. last
  <2>2. HAVE i # last
  <2>3. i \in 1 .. m - e /\ i + e \in 1 .. m
    BY <1>2, <2>2
  <2> QED  BY <1>1, <2>3 DEF Joined
<1>10. \A i \in 1 .. m : i > e => i - e \in 1 .. last /\ i - e # last /\ r[i - e] = k[i]
  <2>1. TAKE i \in 1 .. m
  <2>2. HAVE i > e
  <2>3. i - e \in 1 .. last /\ i - e # last /\ (i - e) + e = i
    BY <1>2, <2>2
  <2> QED  BY <1>9, <2>3
<1>11. e = 2 => 2 \in 1 .. m /\ k[2].hash = h /\ k[2].index = Sibling(x)
  BY <1>1, <1>2 DEF Joined
<1>12. ASSUME AllRight(r)  PROVE AllRight(k)
  <2>1. g = nodes[x] /\ h = nodes[Sibling(x)]
    BY <1>2, <1>8, <1>12 DEF AllRight
  <2>2. ASSUME NEW i \in 1 .. m  PROVE k[i].hash = nodes[k[i].index]
    <3>1. CASE i > e
      <4>1. i - e \in 1 .. last /\ r[i - e] = k[i]
        BY <1>10, <3>1
      <4> QED  BY <1>2, <1>12, <4>1 DEF AllRight
    <3>2. CASE i = 1
      BY <1>1, <2>1, <3>2
    <3>3. CASE i = 2 /\ e = 2
      BY <1>11, <2>1, <3>3
    <3> QED  BY <1>2, <3>1, <3>2, <3>3
  <2> QED  BY <1>1, <2>2 DEF AllRight
<1>13. ASSUME AllRight(k), e = 1 => h = nodes[Sibling(x)]  PROVE AllRight(r)
  <2>1. g = nodes[x]
    BY <1>1, <1>2, <1>13 DEF AllRight
  <2>2. h = nodes[Sibling(x)]
    BY <1>1, <1>2, <1>11, <1>13 DEF AllRight
  <2>3. ASSUME NEW i \in 1 .. last  PROVE r[i].hash = nodes[r[i].index]
    <3>1. CASE i = last
      BY <1>8, <2>1, <2>2, <3>1
    <3>2. CASE i # last
      <4>1. i + e \in 1 .. m /\ r[i] = k[i + e]
        BY <1>9, <3>2
      <4> QED  BY <1>1, <1>13, <4>1 DEF AllRight
    <3> QED  BY <3>1, <3>2
  <2> QED  BY <1>2, <2>3 DEF AllRight
<1>14. \A i \in 1 .. last : r[i].index \in NodeIndices
  BY <1>1, <1>4, <1>7, <1>9
<1>15. ASSUME \A i \in 1 .. m : k[i].hash # Garbage
       PROVE  \A i \in 1 .. last : r[i].hash # Garbage
  <2>1. r[last].hash # Garbage
    BY <1>7, NotUninitialized
  <2> QED  BY <1>9, <1>15, <2>1
<1> QED  BY <1>1, <1>2, <1>12, <1>13, <1>14, <1>15

SiblingKnown == Len(known) > 1 /\ known[2].index = Sibling(known[1].index)

\* A turn that takes off e nodes and hashes the first with a sibling of hash h.
VerifierTurn(e, h) ==
  /\ Joined(known, known', e, h) /\ stage' = stage
  /\ e = 2 => asked' = asked
  /\ e = 1 => /\ Len(asked) < Len(proof.nodes) /\ h = proof.nodes[Len(asked) + 1]
              /\ asked' = Append(asked, Sibling(known[1].index))

TooShort ==
  /\ stage' = "rejected" /\ known' = known /\ asked' = asked
  /\ ~SiblingKnown /\ ~(Len(asked) < Len(proof.nodes))

LEMMA VerifierTurns ==
  ASSUME Opening, Verifying, VerifySibling
  PROVE  /\ stage = "verifying" /\ IsSeq(known) /\ Len(known) # 0 /\ known[1].index > 1
         /\ known[1].index \in NodeIndices
         /\ TooShort \/ \E e \in 1 .. 2 : \E h : VerifierTurn(e, h)
<1> DEFINE node == Head(known)
           rest == Tail(known)
           sibling == Sibling(node.index)
           parent(s, others) ==
             Append(others, [index |-> Parent(node.index), hash |-> HashOfSiblings(node, s)])
           received == [index |-> sibling, hash |-> proof.nodes[Len(asked) + 1]]
<1>1. /\ stage = "verifying" /\ node.index # 1
      /\ IF IsKnown(sibling, rest)
         THEN known' = parent(Head(rest), Tail(rest)) /\ asked' = asked /\ stage' = stage
         ELSE IF Len(asked) < Len(proof.nodes)
         THEN known' = parent(received, rest) /\ asked' = Append(asked, sibling)
              /\ stage' = stage
         ELSE stage' = "rejected" /\ known' = known /\ asked' = asked
  BY DEF VerifySibling
<1>2. /\ IsSeq(known) /\ Len(known) # 0
      /\ \A k \in 1 .. Len(known) : known[k].index \in NodeIndices
  BY <1>1 DEF Opening, Verifying
<1>3. PICK k, m : k = known /\ m = Len(known)
  OBVIOUS
<1>4. /\ Head(known) = k[1] /\ IsSeq(rest) /\ Len(rest) = m - 1 /\ m \in Nat \ {0}
      /\ \A i \in 1 .. m - 1 : rest[i] = k[i + 1]
  BY <1>2, <1>3, TailFacts DEF IsRest, IsSeq
<1>5. k[1].index \in NodeIndices /\ k[1].index > 1 /\ sibling = Sibling(k[1].index)
  <2>1. k[1].index \in NodeIndices
    BY <1>2, <1>3, <1>4
  <2> QED  BY <1>1, <1>4, <2>1 DEF NodeIndices
<1>6. IsKnown(sibling, rest) <=> m > 1 /\ k[2].index = sibling
  <2>1. CASE m = 1
    <3>1. rest = <<>>
      BY <1>4, <2>1 DEF IsSeq
    <3> QED  BY <2>1, <3>1 DEF IsKnown
  <2>2. CASE m > 1
    <3>1. IsSeq(rest) /\ Len(rest) # 0 /\ rest[1] = k[2]
      BY <1>4, <2>2
    <3> HIDE DEF rest, sibling
    <3>2. Head(rest) = rest[1] /\ rest # <<>>
      BY <3>1, TailFacts, EmptySeq
    <3> QED  BY <2>2, <3>1, <3>2 DEF IsKnown
  <2> QED  BY <1>4, <2>1, <2>2
<1>7. SiblingKnown <=> IsKnown(sibling, rest)
  BY <1>3, <1>5, <1>6 DEF SiblingKnown
<1>8. CASE IsKnown(sibling, rest)
  <2>1. PICK s, others : s = Head(rest) /\ others = Tail(rest)
    OBVIOUS
  <2>2. m > 1 /\ k[2].index = Sibling(k[1].index)
    BY <1>5, <1>6, <1>8
  <2>3. s = k[2] /\ IsSeq(others) /\ Len(others) = m - 2
        /\ \A i \in 1 .. m - 2 : others[i] = k[i + 2]
    <3>0. IsSeq(rest) /\ Len(rest) # 0 /\ 1 \in 1 .. m - 1
      BY <1>4, <2>2
    <3> HIDE DEF rest
    <3>1. IsRest(Tail(rest), rest) /\ Head(rest) = rest[1]
      BY <3>0, TailFacts
    <3>2. IsRest(others, rest) /\ s = k[2]
      BY <1>4, <2>1, <2>2, <3>0, <3>1
    <3>3. \A i \in 1 .. m - 2 : others[i] = k[i + 2]
      <4>1. TAKE i \in 1 .. m - 2
      <4>2. i + 1 \in 1 .. m - 1 /\ (i + 1) + 1 = i + 2 /\ i \in 1 .. Len(others)
        BY <1>4, <2>2, <3>2 DEF IsRest
      <4> QED  BY <1>4, <3>2, <4>2 DEF IsRest
    <3> QED  BY <1>4, <3>2, <3>3 DEF IsRest
  <2>4. known' = Append(others, [index |-> Parent(k[1].index), hash |-> HashOfSiblings(k[1], s)])
        /\ asked' = asked /\ stage' = stage
    BY <1>1, <1>4, <1>8, <2>1
  <2>5. 2 \in 1 .. 2 /\ 2 <= m /\ s.index = Sibling(k[1].index)
    BY <1>4, <2>2, <2>3
  <2> HIDE DEF node, rest, sibling, parent, received
  <2>6. Joined(k, known', 2, s.hash)
    BY <1>2, <1>3, <2>2, <2>3, <2>4, <2>5, JoinedFacts
  <2>7. VerifierTurn(2, s.hash)
    BY <1>3, <2>4, <2>6 DEF VerifierTurn
  <2>8. \E e \in 1 .. 2 : \E h : VerifierTurn(e, h)
    BY <2>5, <2>7
  <2> QED  BY <1>1, <1>2, <1>3, <1>5, <2>8
<1>9. CASE ~IsKnown(sibling, rest) /\ Len(asked) < Len(proof.nodes)
  <2>1. PICK x, g, s : x = Sibling(k[1].index) /\ g = proof.nodes[Len(asked) + 1]
                       /\ s = [index |-> Sibling(k[1].index), hash |-> g]
    OBVIOUS
  <2>2. ~(m > 1 /\ k[2].index = Sibling(k[1].index)) /\ s.index = x /\ s.hash = g
    BY <1>5, <1>6, <1>9, <2>1
  <2>3. received = s
    BY <1>5, <2>1
  <2>4. known' = Append(rest, [index |-> Parent(k[1].index), hash |-> HashOfSiblings(k[1], s)])
        /\ asked' = Append(asked, x) /\ stage' = stage
    BY <1>1, <1>4, <1>5, <1>9, <2>1, <2>3
  <2>5. 1 \in 1 .. 2 /\ 1 <= m /\ 1 # 2
    BY <1>4
  <2> HIDE DEF node, rest, sibling, parent, received
  <2>6. Joined(k, known', 1, s.hash)
    BY <1>2, <1>3, <1>4, <2>1, <2>2, <2>4, <2>5, JoinedFacts
  <2>7. VerifierTurn(1, g)
    BY <1>3, <1>9, <2>1, <2>2, <2>4, <2>5, <2>6 DEF VerifierTurn
  <2>8. \E e \in 1 .. 2 : \E h : VerifierTurn(e, h)
    BY <2>5, <2>7
  <2> QED  BY <1>1, <1>2, <1>3, <1>5, <2>8
<1>10. CASE ~IsKnown(sibling, rest) /\ ~(Len(asked) < Len(proof.nodes))
  <2>1. TooShort
    BY <1>1, <1>7, <1>10 DEF TooShort
  <2> QED  BY <1>1, <1>2, <1>3, <1>5, <2>1
<1> QED  BY <1>8, <1>9, <1>10

\* While anything but the root is first, the generator had a turn there too.
LEMMA GeneratorTurn ==
  ASSUME InStep, stage = "verifying", damage.kind = "none",
         IsSeq(known), Len(known) # 0, known[1].index > 1
  PROVE  \E n \in Nat : \E walk, count :
           /\ IsWalk(n, walk, count) /\ queue[1] = 1
           /\ \E k \in 0 .. n - 1 : Turn(Indices, Len(asked), walk[k + 1], count[k + 1])
<1>1. PICK n \in Nat : \E walk, count :
        /\ IsWalk(n, walk, count) /\ queue[1] = 1
        /\ \E k \in 0 .. n : walk[k] = Indices /\ count[k] = Len(asked)
  BY DEF InStep
<1>2. PICK walk, count :
        /\ IsWalk(n, walk, count) /\ queue[1] = 1
        /\ \E k \in 0 .. n : walk[k] = Indices /\ count[k] = Len(asked)
  BY <1>1
<1>3. PICK k \in 0 .. n : walk[k] = Indices /\ count[k] = Len(asked)
  BY <1>2
<1>4. Indices[1] = known[1].index
  <2>1. 1 \in 1 .. Len(known)
    BY DEF IsSeq
  <2> QED  BY <2>1 DEF Indices, IndicesOf
<1>5. k # n
  BY <1>2, <1>3, <1>4 DEF IsWalk
<1>6. k \in 0 .. n - 1
  BY <1>5
<1>7. Turn(Indices, Len(asked), walk[k + 1], count[k + 1])
  BY <1>2, <1>3, <1>6 DEF IsWalk
<1> QED  BY <1>2, <1>6, <1>7

\* On an intact proof, what is received is the sibling.
LEMMA NextReceived ==
  ASSUME Opening, InStep, stage = "verifying", damage.kind = "none", proof = Arrived(damage),
         IsSeq(known), Len(known) # 0, known[1].index > 1, ~SiblingKnown
  PROVE  /\ Len(asked) < Len(proof.nodes)
         /\ proof.nodes[Len(asked) + 1] = nodes[Sibling(known[1].index)]
<1>1. PICK n \in Nat : \E walk, count :
        /\ IsWalk(n, walk, count) /\ queue[1] = 1
        /\ \E k \in 0 .. n - 1 : Turn(Indices, Len(asked), walk[k + 1], count[k + 1])
  BY GeneratorTurn
<1>2. PICK r, d : Turn(Indices, Len(asked), r, d)
  BY <1>1
<1>3. PICK e \in 1 .. 2 :
        /\ Popped(Indices, r, e)
        /\ e # 2 => /\ d = Len(asked) + 1 /\ d <= Len(sent) /\ sent[d] = Sibling(Indices[1])
  BY <1>2 DEF Turn
<1>4. PICK m : m = Len(known)
  OBVIOUS
<1>5. Indices = [k \in 1 .. m |-> known[k].index] /\ m \in Nat \ {0}
  BY <1>4 DEF Indices, IndicesOf, IsSeq
<1>6. Len(Indices) = m /\ Indices[1] = known[1].index /\ (m > 1 => Indices[2] = known[2].index)
  BY <1>5
<1>7. e # 2
  BY <1>3, <1>4, <1>6 DEF Popped, SiblingKnown
<1>8. IsSeq(sent) /\ Len(asked) \in Nat
  BY DEF Opening, IsNodes, IsSeq
<1>9. PICK l : l = Len(sent)
  OBVIOUS
<1>10. l \in Nat /\ DOMAIN sent = 1 .. l
  <2>1. l \in Nat /\ sent = [k \in 1 .. l |-> sent[k]]
    BY <1>8, <1>9 DEF IsSeq
  <2> QED  BY <2>1
<1>11. proof.nodes = [k \in 1 .. l |-> nodes[sent[k]]]
  <2>1. proof.nodes = SentNodes
    BY DEF Arrived
  <2> QED  BY <1>10, <2>1 DEF SentNodes
<1>12. Len(proof.nodes) = l /\ \A k \in 1 .. l : proof.nodes[k] = nodes[sent[k]]
  BY <1>10, <1>11
<1>13. Len(asked) + 1 \in 1 .. l /\ sent[Len(asked) + 1] = Sibling(known[1].index)
  BY <1>3, <1>6, <1>7, <1>8, <1>9, <1>10
<1> QED  BY <1>8, <1>10, <1>12, <1>13

\* The verifier keeps in step with the generator.
LEMMA StaysInStep ==
  ASSUME InStep, stage = "verifying", damage.kind = "none", IsSeq(asked),
         IsSeq(known), Len(known) # 0, known[1].index > 1,
         tree' = tree, queries' = queries, queue' = queue, sent' = sent,
         NEW e \in 1 .. 2, NEW h, VerifierTurn(e, h)
  PROVE  InStep'
<1>1. PICK n \in Nat : \E walk, count :
        /\ IsWalk(n, walk, count) /\ queue[1] = 1
        /\ \E k \in 0 .. n - 1 : Turn(Indices, Len(asked), walk[k + 1], count[k + 1])
  BY GeneratorTurn
<1>2. PICK walk, count :
        /\ IsWalk(n, walk, count) /\ queue[1] = 1
        /\ \E k \in 0 .. n - 1 : Turn(Indices, Len(asked), walk[k + 1], count[k + 1])
  BY <1>1
<1>3. PICK k \in 0 .. n - 1 : Turn(Indices, Len(asked), walk[k + 1], count[k + 1])
  BY <1>2
<1>4. PICK f \in 1 .. 2 :
        /\ Popped(Indices, walk[k + 1], f)
        /\ IF f = 2 THEN count[k + 1] = Len(asked) ELSE count[k + 1] = Len(asked) + 1
  BY <1>3 DEF Turn
<1>5. Popped(Indices, Indices', e)
  <2>1. Joined(known, known', e, h)
    BY DEF VerifierTurn
  <2> QED  BY <2>1, JoinedPopped DEF Indices
<1>6. Len(Indices) \in Nat
  BY DEF Indices, IndicesOf, IsSeq
<1>7. e = f /\ Indices' = walk[k + 1]
  <2>1. PICK q, u : q = Indices /\ u = Indices'
    OBVIOUS
  <2>2. Popped(q, u, e) /\ Popped(q, walk[k + 1], f) /\ Len(q) \in Nat
    BY <1>4, <1>5, <1>6, <2>1
  <2> QED  BY <2>1, <2>2, PoppedOnce
<1>8. count[k + 1] = Len(asked')
  <2>1. CASE e = 2
    BY <1>4, <1>7, <2>1 DEF VerifierTurn
  <2>2. CASE e = 1
    <3>1. PICK a : a = asked'
      OBVIOUS
    <3>2. IsExtended(a, asked, Sibling(known[1].index))
      BY <2>2, <3>1, AppendFacts DEF VerifierTurn
    <3> QED  BY <1>4, <1>7, <2>2, <3>1, <3>2 DEF IsExtended
  <2> QED  BY <2>1, <2>2
<1>9. k + 1 \in 0 .. n
  OBVIOUS
<1>10. IsWalk(n, walk, count)'
  BY <1>2, WalkKept
<1> QED  BY <1>2, <1>7, <1>8, <1>9, <1>10 DEF InStep

LEMMA VerifyRight ==
  ASSUME TreeRight, Opening, Verifying, InStep, VerifySibling
  PROVE  Opening' /\ Verifying' /\ InStep'
<1>1. /\ tree' = tree /\ nodes' = nodes /\ commitment' = commitment /\ queries' = queries
      /\ queue' = queue /\ sent' = sent /\ proof' = proof /\ claims' = claims
      /\ damage' = damage
  BY DEF VerifySibling
<1>2. /\ stage = "verifying" /\ IsSeq(known) /\ Len(known) # 0 /\ known[1].index > 1
      /\ known[1].index \in NodeIndices
      /\ TooShort \/ \E e \in 1 .. 2 : \E h : VerifierTurn(e, h)
  BY VerifierTurns
<1>3. /\ tree \in Trees /\ commitment # Nothing /\ IsNodes(asked) /\ IsSeq(asked)
      /\ \A k \in 1 .. Len(known) : known[k].index \in NodeIndices
  BY <1>2 DEF TreeRight, Opening, IsNodes
<1>4. CASE TooShort
  <2>1. stage' = "rejected" /\ known' = known /\ asked' = asked
    BY <1>4 DEF TooShort
  <2>2. Opening'
    BY <1>1, <1>2, <1>3, <2>1, OpeningStays
  <2> QED  BY <2>1, <2>2 DEF Verifying, InStep
<1>5. CASE \E e \in 1 .. 2 : \E h : VerifierTurn(e, h)
  <2>1. PICK e \in 1 .. 2 : \E h : VerifierTurn(e, h)
    BY <1>5
  <2>2. PICK h : VerifierTurn(e, h)
    BY <2>1
  <2>3. PICK k, r : k = known /\ r = known'
    OBVIOUS
  <2>4. Joined(k, r, e, h) /\ stage' = "verifying"
    BY <1>2, <2>2, <2>3 DEF VerifierTurn
  <2>5. /\ AllRight(r) => AllRight(k)
        /\ AllRight(k) /\ (e = 1 => h = nodes[Sibling(k[1].index)]) => AllRight(r)
        /\ \A i \in 1 .. Len(r) : r[i].index \in NodeIndices
        /\ (\A i \in 1 .. Len(k) : k[i].hash # Garbage)
           => \A i \in 1 .. Len(r) : r[i].hash # Garbage
    BY <1>2, <1>3, <2>3, <2>4, JoinedRight
  <2>6. /\ claims \in Claims /\ damage \in Damages /\ proof = Arrived(damage)
        /\ Layered(Indices)
        /\ \A i \in 1 .. Len(known) : known[i].hash # Garbage
        /\ KnownRight => ClaimsRight
        /\ damage.kind = "none" /\ ClaimsRight => KnownRight
    BY <1>2 DEF Verifying
  <2>7. Layered(Indices')
    <3>1. PICK q, u, m : q = Indices /\ u = Indices' /\ m = Len(k)
      OBVIOUS
    <3>2. Popped(q, u, e)
      BY <1>2, <2>3, <2>4, <3>1, JoinedPopped DEF Indices
    <3>3. q = [i \in 1 .. m |-> k[i].index] /\ m \in Nat \ {0}
      BY <1>2, <2>3, <3>1 DEF Indices, IndicesOf, IsSeq
    <3>4. DOMAIN q = 1 .. m /\ q = [i \in 1 .. m |-> q[i]]
          /\ \A i \in 1 .. m : q[i] = k[i].index
      BY <3>3
    <3>5. IsSeq(q) /\ Len(q) = m
      BY <3>3, <3>4, ListedIsSeq
    <3>6. \A i \in 1 .. Len(q) : q[i] \in Nat
      <4>1. \A x \in NodeIndices : x \in Nat
        BY DEF NodeIndices
      <4> QED  BY <1>3, <2>3, <3>1, <3>4, <3>5, <4>1
    <3>7. q[1] > 1
      BY <1>2, <2>3, <3>3, <3>4
    <3> QED  BY <2>6, <3>1, <3>2, <3>5, <3>6, <3>7, LayeredNext
  <2>8. KnownRight <=> AllRight(k)
    BY <2>3 DEF KnownRight, AllRight
  <2>9. KnownRight' <=> AllRight(r)
    BY <1>1, <2>3 DEF KnownRight, AllRight
  <2>10. ClaimsRight' <=> ClaimsRight
    BY <1>1 DEF ClaimsRight
  <2>11. Claims' = Claims /\ Damages' = Damages /\ Arrived(damage)' = Arrived(damage)
    BY <1>1 DEF Claims, Damages, Arrived, SentNodes
  <2>12. damage.kind = "none" /\ e = 1 => h = nodes[Sibling(k[1].index)]
    <3>1. SUFFICES ASSUME damage.kind = "none", e = 1
                   PROVE  h = nodes[Sibling(k[1].index)]
      OBVIOUS
    <3>2. ~SiblingKnown /\ h = proof.nodes[Len(asked) + 1]
      BY <2>2, <2>3, <2>4, <3>1 DEF Joined, SiblingKnown, VerifierTurn
    <3> QED  BY <1>2, <2>3, <2>6, <3>1, <3>2, NextReceived
  <2>13. IsSeq(r) /\ Len(r) # 0
    BY <1>2, <2>3, <2>4 DEF Joined, IsSeq
  <2>14. Verifying'
    <3>1. claims' \in Claims' /\ damage' \in Damages' /\ proof' = Arrived(damage)'
      BY <1>1, <2>6, <2>11
    <3>2. \A i \in 1 .. Len(known') : known'[i].hash # Garbage
      BY <2>3, <2>5, <2>6
    <3>3. KnownRight' => ClaimsRight'
      BY <2>5, <2>6, <2>8, <2>9, <2>10
    <3>4. damage'.kind = "none" /\ ClaimsRight' => KnownRight'
      BY <1>1, <2>5, <2>6, <2>8, <2>9, <2>10, <2>12
    <3> QED  BY <2>3, <2>7, <2>13, <3>1, <3>2, <3>3, <3>4 DEF Verifying
  <2>15. IsNodes(asked')
    <3>1. CASE e = 2
      BY <1>3, <2>2, <3>1 DEF VerifierTurn
    <3>2. CASE e = 1
      <4>1. PICK a, x : a = asked' /\ x = Sibling(known[1].index)
        OBVIOUS
      <4>2. x \in NodeIndices
        BY <1>2, <1>3, <4>1, FamilyFacts
      <4>3. IsExtended(a, asked, x)
        BY <1>3, <2>2, <3>2, <4>1, AppendFacts DEF VerifierTurn
      <4>4. Len(asked) \in Nat /\ \A i \in 1 .. Len(asked) : asked[i] \in NodeIndices
        BY <1>3 DEF IsNodes, IsSeq
      <4>5. IsSeq(a) /\ \A i \in 1 .. Len(a) : a[i] \in NodeIndices
        BY <4>2, <4>3, <4>4 DEF IsExtended
      <4> QED  BY <4>1, <4>5 DEF IsNodes
    <3> QED  BY <3>1, <3>2
  <2>16. Opening'
    BY <1>1, <1>2, <1>3, <2>3, <2>4, <2>5, <2>13, <2>15, OpeningStays
  <2>17. InStep'
    <3>1. CASE damage.kind = "none"
      BY <1>1, <1>2, <1>3, <2>2, <3>1, StaysInStep
    <3>2. CASE damage.kind # "none"
      BY <1>1, <3>2 DEF InStep
    <3> QED  BY <3>1, <3>2
  <2> QED  BY <2>14, <2>16, <2>17
<1> QED  BY <1>2, <1>4, <1>5

\* An intact proof is not too short.
LEMMA NotTooShort ==
  ASSUME Opening, Verifying, InStep, VerifySibling, damage.kind = "none"
  PROVE  stage' = "verifying"
<1>1. /\ stage = "verifying" /\ IsSeq(known) /\ Len(known) # 0 /\ known[1].index > 1
      /\ TooShort \/ \E e \in 1 .. 2 : \E h : VerifierTurn(e, h)
  BY VerifierTurns
<1>2. proof = Arrived(damage)
  BY <1>1 DEF Verifying
<1>3. ~TooShort
  BY <1>1, <1>2, NextReceived DEF TooShort
<1> QED  BY <1>1, <1>3 DEF VerifierTurn

\* The verdict binds the claims, and accepts the right ones on an intact proof.
LEMMA VerdictRight ==
  ASSUME TreeRight, Opening, Verifying, Verdict
  PROVE  /\ Opening' /\ Verifying' /\ InStep'
         /\ stage' \in {"accepted", "rejected"}
         /\ stage' = "accepted" => ClaimsRight
         /\ damage.kind = "none" /\ ClaimsRight => stage' = "accepted"
<1>1. /\ stage = "verifying" /\ Head(known).index = 1
      /\ stage' = IF Head(known).hash = proof.root THEN "accepted" ELSE "rejected"
      /\ tree' = tree /\ nodes' = nodes /\ commitment' = commitment /\ queries' = queries
      /\ queue' = queue /\ sent' = sent /\ asked' = asked /\ known' = known
  BY DEF Verdict, MatchesRoot
<1>2. /\ proof = Arrived(damage) /\ Len(known) # 0 /\ Layered(Indices) /\ IsSeq(known)
      /\ \A k \in 1 .. Len(known) : known[k].hash # Garbage
      /\ KnownRight => ClaimsRight
      /\ damage.kind = "none" /\ ClaimsRight => KnownRight
      /\ \A k \in 1 .. Len(known) : known[k].index \in NodeIndices
      /\ IsNodes(asked) /\ commitment # Nothing
  BY <1>1 DEF Verifying, Opening
<1>3. PICK m, q : m = Len(known) /\ q = Indices
  OBVIOUS
<1>4. /\ m \in Nat \ {0} /\ Head(known) = known[1]
      /\ q = [i \in 1 .. m |-> known[i].index]
  BY <1>2, <1>3, TailFacts DEF Indices, IndicesOf, IsSeq
<1>5. DOMAIN q = 1 .. m /\ q = [i \in 1 .. m |-> q[i]]
      /\ \A i \in 1 .. m : q[i] = known[i].index
  BY <1>4
<1>6. IsSeq(q) /\ Len(q) = m
  BY <1>4, <1>5, ListedIsSeq
<1>7. \A i \in 1 .. m : q[i] \in Nat
  <2>1. \A x \in NodeIndices : x \in Nat
    BY DEF NodeIndices
  <2> QED  BY <1>2, <1>3, <1>5, <2>1
<1>8. m = 1
  <2>1. q[1] = 1
    BY <1>1, <1>4, <1>5
  <2>2. Layered(q)
    BY <1>2, <1>3
  <2> QED  BY <1>6, <1>7, <2>1, <2>2, RootAlone
<1>9. commitment = nodes[1]
  BY <1>2 DEF TreeRight, Built
<1>10. KnownRight <=> Head(known).hash = commitment
  BY <1>1, <1>3, <1>4, <1>8, <1>9 DEF KnownRight
<1>11. Head(known).hash # Garbage
  BY <1>2, <1>3, <1>4, <1>8
<1>12. proof.root = IF damage.kind = "root" THEN Garbage ELSE commitment
  BY <1>2 DEF Arrived
<1>13. stage' = "accepted" => ClaimsRight
  BY <1>1, <1>2, <1>10, <1>11, <1>12
<1>14. damage.kind = "none" /\ ClaimsRight => stage' = "accepted"
  BY <1>1, <1>2, <1>10, <1>12
<1>15. stage' \in {"accepted", "rejected"}
  BY <1>1
<1>16. Opening'
  BY <1>1, <1>2, <1>15, OpeningStays
<1> QED  BY <1>13, <1>14, <1>15, <1>16 DEF Verifying, InStep

-----------------------------------------------------------------------------
(* The theorems.                                                           *)

LEMMA InvariantInit == Init => IInv
  BY TreeInit, OpeningInit DEF IInv

LEMMA BuildingRight ==
  ASSUME IInv, NEW s \in Segments, CopyLeaves(s) \/ HashNode(s)
  PROVE  IInv' /\ stage' = "committing" /\ tree' = tree /\ commitment' = commitment
<1>1. /\ stage' = stage /\ tree' = tree /\ commitment' = commitment /\ UNCHANGED_opening
  BY DEF CopyLeaves, HashNode
<1>2. adding[s].at # "done"
  BY DEF CopyLeaves, HashNode
<1>3. commitment = Nothing /\ stage = "committing"
  BY <1>2 DEF IInv, TreeRight, Built, Building
<1>4. TreeRight'
  BY CopyRight, HashRight DEF IInv
<1>5. Opening' /\ Verifying' /\ InStep'
  BY <1>1, <1>3, OpeningKept DEF IInv
<1> QED  BY <1>1, <1>3, <1>4, <1>5 DEF IInv

LEMMA CommitKeeps ==
  ASSUME IInv, Commit
  PROVE  IInv' /\ stage' = "committing" /\ tree' = tree /\ commitment = Nothing
<1>1. stage = "committing" /\ stage' = stage /\ tree' = tree /\ commitment = Nothing
      /\ UNCHANGED_opening
  BY DEF Commit
<1>2. TreeRight'
  BY CommitRight DEF IInv
<1>3. Opening' /\ Verifying' /\ InStep'
  BY <1>1, OpeningKept DEF IInv
<1> QED  BY <1>1, <1>2, <1>3 DEF IInv

LEMMA OpeningRight ==
  ASSUME IInv, StartDecommitment \/ SendSibling \/ StartVerification \/ VerifySibling \/ Verdict
  PROVE  /\ IInv' /\ tree' = tree /\ commitment' = commitment /\ commitment # Nothing
         /\ stage \notin {"accepted", "rejected"}
<1>1. /\ tree' = tree /\ nodes' = nodes /\ adding' = adding /\ commitment' = commitment
      /\ stage \in {"committing", "generating", "verifying"}
  BY DEF StartDecommitment, SendSibling, StartVerification, VerifySibling, Verdict
<1>2. commitment # Nothing
  <2>1. CASE StartDecommitment
    BY <2>1 DEF StartDecommitment
  <2>2. CASE ~StartDecommitment
    <3>1. stage # "committing"
      BY <2>2 DEF SendSibling, StartVerification, VerifySibling, Verdict
    <3> QED  BY <3>1 DEF IInv, Opening
  <2> QED  BY <2>1, <2>2
<1>3. TreeRight'
  BY <1>1, <1>2, TreeKept DEF IInv
<1>4. Opening' /\ Verifying' /\ InStep'
  BY StartRight, SendRight, StartVerificationRight, VerifyRight, VerdictRight DEF IInv
<1> QED  BY <1>1, <1>2, <1>3, <1>4 DEF IInv

LEMMA NothingHappens ==
  ASSUME IInv, UNCHANGED vars
  PROVE  IInv'
<1>1. /\ tree' = tree /\ nodes' = nodes /\ adding' = adding /\ commitment' = commitment
      /\ queries' = queries /\ queue' = queue /\ sent' = sent /\ proof' = proof
      /\ claims' = claims /\ known' = known /\ asked' = asked /\ damage' = damage
      /\ stage' = stage
  BY DEF vars
<1>2. TreeRight'
  BY <1>1, TreeKept DEF IInv
<1>3. data_length' = data_length /\ NodeIndices' = NodeIndices
      /\ \A n, w, c : IsWalk(n, w, c)' <=> IsWalk(n, w, c)
  BY <1>1, SameTree, WalkKept
<1>4. \A q : IsNodes(q)' <=> IsNodes(q)
  BY <1>3 DEF IsNodes
<1>5. Opening'
  BY <1>1, <1>3, <1>4 DEF IInv, Opening
<1>6. Verifying'
  <2>1. Claims' = Claims /\ Damages' = Damages /\ Arrived(damage)' = Arrived(damage)
    BY <1>1 DEF Claims, Damages, Arrived, SentNodes
  <2>2. (KnownRight' <=> KnownRight) /\ (ClaimsRight' <=> ClaimsRight) /\ Indices' = Indices
    BY <1>1 DEF KnownRight, ClaimsRight, Indices
  <2> QED  BY <1>1, <2>1, <2>2 DEF IInv, Verifying
<1>7. InStep'
  BY <1>1, <1>3 DEF IInv, InStep, Indices
<1> QED  BY <1>2, <1>5, <1>6, <1>7 DEF IInv

\* The invariant of the Merkle tree and of its opening: the nodes a segment has computed
\* are those of its rows down to its place in AddData's loops, the opening is a walk up
\* from the leaves of the queries, and what the verifier knows binds the claims
\* (merkle.cc, merkle_commitment_scheme.cc).
THEOREM MerkleInvariant == Spec => []IInv
<1>1. IInv /\ [Next]_vars => IInv'
  <2> SUFFICES ASSUME IInv, [Next]_vars  PROVE IInv'
    OBVIOUS
  <2>1. CASE \E s \in Segments : CopyLeaves(s) \/ HashNode(s)
    <3>1. PICK s \in Segments : CopyLeaves(s) \/ HashNode(s)
      BY <2>1
    <3> QED  BY <3>1, BuildingRight
  <2>2. CASE Commit
    BY <2>2, CommitKeeps
  <2>3. CASE StartDecommitment \/ SendSibling \/ StartVerification \/ VerifySibling \/ Verdict
    BY <2>3, OpeningRight
  <2>4. CASE UNCHANGED vars
    BY <2>4, NothingHappens
  <2> QED  BY <2>1, <2>2, <2>3, <2>4 DEF Next
<1> QED  BY <1>1, InvariantInit, PTL DEF Spec

\* Types: every node touched, sent or asked for is one of the tree
\* (merkle.cc:31-66, 90-185).
THEOREM TypeCorrect == Spec => []TypeOK
<1>1. IInv => TypeOK
  <2> SUFFICES ASSUME IInv  PROVE TypeOK
    OBVIOUS
  <2>1. queue \in Seq(NodeIndices) /\ sent \in Seq(NodeIndices) /\ asked \in Seq(NodeIndices)
    BY SeqOver DEF IInv, Opening, IsNodes
  <2>2. adding \in [Segments -> [at : {"start", "hash", "done"}, cur : 0 .. 2 * data_length,
                                 length : 0 .. data_length, i : 0 .. 2 * data_length]]
    BY DEF IInv, TreeRight, AddingRight, CallRight
  <2>3. \A k \in DOMAIN known : known[k].index \in NodeIndices
    <3>1. PICK m : m = Len(known)
      OBVIOUS
    <3>2. known = [k \in 1 .. m |-> known[k]]
      BY <3>1 DEF IInv, Opening, IsSeq
    <3>3. DOMAIN known = 1 .. m
      BY <3>2
    <3> QED  BY <3>1, <3>3 DEF IInv, Opening
  <2> QED  BY <2>1, <2>2, <2>3 DEF TypeOK, IInv, TreeRight, Opening
<1> QED  BY <1>1, MerkleInvariant, PTL

\* Calls that add different segments at the same time write different nodes, each once,
\* after both its children (merkle.h:36-38, merkle.cc:31-66).
THEOREM SegmentsApart == Spec => []SegmentsDisjoint
<1>1. IInv => SegmentsDisjoint
  BY Disjoint DEF IInv
<1> QED  BY <1>1, MerkleInvariant, PTL

\* However the data is cut and in whatever order the segments are added, the root sent is
\* the hash of the data by halves (merkle_commitment_scheme.cc:38-44, merkle.cc:68-88).
THEOREM RootCommitted == Spec => []RootIsOfData
<1>1. IInv => RootIsOfData
  BY RootRight DEF IInv
<1> QED  BY <1>1, MerkleInvariant, PTL

LEMMA CommitsOnce ==
  ASSUME IInv, Commit
  PROVE  [Promise!Next]_<<Committed, Opened>>
<1>1. /\ tree' = tree /\ commitment = Nothing /\ stage' = "committing" /\ tree \in Trees
      /\ stage = "committing"
  BY CommitKeeps DEF IInv, TreeRight, Commit
<1>2. Committed = Nothing /\ (Committed' = Nothing \/ Committed' = tree.data)
  BY <1>1 DEF Committed
<1>3. Opened = Nothing /\ Opened' = Nothing
  BY <1>1 DEF Opened, Ended
<1>4. tree.data \in {t.data : t \in Trees}
  BY <1>1
<1> QED  BY <1>2, <1>3, <1>4 DEF Promise!Next, Promise!Commit

LEMMA OpensRightly ==
  ASSUME IInv, Verdict \/ (VerifySibling /\ stage' = "rejected")
  PROVE  Promise!Open
<1>1. /\ stage = "verifying" /\ tree' = tree /\ commitment' = commitment
      /\ claims' = claims /\ damage' = damage
  BY DEF Verdict, VerifySibling
<1>2. /\ commitment # Nothing /\ tree \in Trees /\ claims \in Claims
      /\ queries \subseteq 0 .. data_length - 1
  BY <1>1 DEF IInv, Opening, Verifying, TreeRight
<1>3. /\ stage' \in {"accepted", "rejected"}
      /\ stage' = "accepted" => ClaimsRight
      /\ damage.kind = "none" /\ ClaimsRight => stage' = "accepted"
  BY VerdictRight, NotTooShort DEF IInv
<1>4. PICK o : o = [claims |-> claims, intact |-> damage.kind = "none",
                    accepted |-> stage' = "accepted"]
  OBVIOUS
<1>5. Opened = Nothing /\ Opened' = o
  BY <1>1, <1>3, <1>4 DEF Opened, Ended
<1>6. o # Nothing
  BY <1>4 DEF Nothing
<1>7. o.claims = claims /\ (o.intact <=> damage.kind = "none")
      /\ (o.accepted <=> stage' = "accepted")
  BY <1>4
<1>8. Committed = tree.data /\ Committed' = Committed
  BY <1>1, <1>2 DEF Committed
<1>9. tree.data \in [0 .. data_length - 1 -> Leaves] /\ data_length \in Nat \ {0}
  BY <1>2, TreeFacts, TreeNumbers
<1>10. Committed # Nothing
  <2>1. 0 \in DOMAIN tree.data /\ 0 \notin DOMAIN <<>>
    BY <1>9
  <2> QED  BY <1>8, <2>1 DEF Nothing
<1>11. DOMAIN claims = queries
  BY <1>2, ClaimsFacts
<1>12. DOMAIN o.claims \subseteq DOMAIN Committed
  BY <1>2, <1>7, <1>8, <1>9, <1>11
<1>13. Promise!Agree(o.claims, Committed) <=> ClaimsRight
  BY <1>7, <1>8, <1>11 DEF Promise!Agree, ClaimsRight
<1>14. Promise!Sound(o) /\ Promise!Complete(o)
  BY <1>3, <1>7, <1>13 DEF Promise!Sound, Promise!Complete
<1> HIDE DEF Committed, Opened
<1> QED  BY <1>5, <1>6, <1>8, <1>10, <1>12, <1>14 DEF Promise!Open

LEMMA PromiseStep ==
  ASSUME IInv, [Next]_vars
  PROVE  [Promise!Next]_<<Committed, Opened>>
<1>1. CASE \E s \in Segments : CopyLeaves(s) \/ HashNode(s)
  <2>1. PICK s \in Segments : CopyLeaves(s) \/ HashNode(s)
    BY <1>1
  <2>2. stage' = "committing" /\ tree' = tree /\ commitment' = commitment /\ stage' = stage
    BY <2>1, BuildingRight DEF CopyLeaves, HashNode
  <2> QED  BY <2>2 DEF Committed, Opened, Ended
<1>2. CASE Commit
  BY <1>2, CommitsOnce
<1>3. CASE Verdict \/ (VerifySibling /\ stage' = "rejected")
  BY <1>3, OpensRightly DEF Promise!Next
<1>4. CASE \/ StartDecommitment \/ SendSibling \/ StartVerification
           \/ (VerifySibling /\ stage' # "rejected")
  <2>1. stage \notin {"accepted", "rejected"} /\ stage' \notin {"accepted", "rejected"}
        /\ tree' = tree /\ commitment' = commitment
    BY <1>4 DEF StartDecommitment, SendSibling, StartVerification, VerifySibling
  <2> QED  BY <2>1 DEF Committed, Opened, Ended
<1>5. CASE UNCHANGED vars
  BY <1>5 DEF vars, Committed, Opened, Ended
<1> QED  BY <1>1, <1>2, <1>3, <1>4, <1>5 DEF Next

\* The scheme is a vector commitment: a proof that is accepted has claims equal to the data
\* committed to, whatever happened to it on its way, and an intact proof of right claims is
\* accepted (commitment_scheme.h, merkle_commitment_scheme.cc).
THEOREM SchemeBinds == Spec => ImplementsVectorCommitment
<1>1. Init => Promise!Init
  BY DEF Init, Promise!Init, Committed, Opened, Ended
<1>2. IInv /\ [Next]_vars => [Promise!Next]_<<Committed, Opened>>
  BY PromiseStep
<1> QED  BY <1>1, <1>2, MerkleInvariant, PTL DEF Spec, ImplementsVectorCommitment, Promise!Spec
=============================================================================
