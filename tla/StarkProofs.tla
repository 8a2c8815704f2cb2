----------------------------- MODULE StarkProofs -----------------------------
(***************************************************************************)
(* Proofs about the protocol: the verifier's transcript and polynomials    *)
(* are the prover's, and what is sent and kept has the size it should, for *)
(* all statements, parameters, traces and deviations; and about the field  *)
(* arithmetic, which is that of the integers its words stand for.          *)
(***************************************************************************)
EXTENDS Stark, Elementary

-----------------------------------------------------------------------------
(* Vectors, and what is appended to a transcript. *)

IsVector(v, n) == IsSeq(v) /\ Len(v) = n

LEMMA VectorFacts ==
  ASSUME NEW n \in Nat, NEW f, f = [k \in 1 .. n |-> f[k]]
  PROVE  IsVector(<<>> \o f, n) /\ \A k \in 1 .. n : (<<>> \o f)[k] = f[k]
<1>1. IsSeq(f) /\ Len(f) = n
  <2>1. DOMAIN f = 1 .. n
    OBVIOUS
  <2> QED  BY <2>1, ListedIsSeq
<1>2. IsSeq(<<>>) /\ Len(<<>>) = 0
  BY DEF IsSeq
<1> DEFINE u == <<>> \o f
<1>3. IsConcat(u, <<>>, f)
  BY <1>1, <1>2, ConcatFacts
<1> HIDE DEF u
<1>4. IsVector(u, n) /\ \A k \in 1 .. n : u[k] = f[k]
  BY <1>1, <1>2, <1>3 DEF IsConcat, IsVector
<1> QED  BY <1>4 DEF u

\* The values drawn one by one, as the recursive definition says, and up to k.
DrawsUpTo(f, t, n, k) ==
  \A h \in 0 .. n : h <= k => f[h] = IF h = 0 THEN t ELSE WithChallenge(f[h - 1])

Draws(f, t, n) == f = [k \in 0 .. n |-> IF k = 0 THEN t ELSE WithChallenge(f[k - 1])]

LEMMA OneMoreDraw ==
  ASSUME NEW t, NEW n \in Nat, NEW k \in Nat, NEW f, DrawsUpTo(f, t, n, k)
  PROVE  \E g : DrawsUpTo(g, t, n, k + 1)
<1> DEFINE g == [h \in 0 .. n |-> IF h = k + 1 THEN WithChallenge(f[h - 1]) ELSE f[h]]
<1>1. ASSUME NEW h \in 0 .. n, h <= k + 1
      PROVE  g[h] = IF h = 0 THEN t ELSE WithChallenge(g[h - 1])
  <2>1. CASE h = k + 1
    <3>1. h # 0 /\ h - 1 \in 0 .. n /\ h - 1 # k + 1
      BY <2>1
    <3>2. g[h] = WithChallenge(f[h - 1]) /\ g[h - 1] = f[h - 1]
      BY <2>1, <3>1
    <3> HIDE DEF g
    <3> QED  BY <3>1, <3>2
  <2>2. CASE h # k + 1
    <3>1. g[h] = f[h] /\ h <= k
      BY <1>1, <2>2
    <3>2. h # 0 => h - 1 \in 0 .. n /\ h - 1 # k + 1
      BY <3>1
    <3>3. h # 0 => g[h - 1] = f[h - 1]
      BY <3>2
    <3>4. f[h] = IF h = 0 THEN t ELSE WithChallenge(f[h - 1])
      BY <3>1 DEF DrawsUpTo
    <3> HIDE DEF g
    <3> QED  BY <3>1, <3>3, <3>4
  <2> QED  BY <2>1, <2>2
<1> HIDE DEF g
<1>2. DrawsUpTo(g, t, n, k + 1)
  BY <1>1 DEF DrawsUpTo
<1> QED  BY <1>2

LEMMA DrawsExist ==
  ASSUME NEW t, NEW n \in Nat
  PROVE  \E f : Draws(f, t, n)
<1> DEFINE S == {k \in Nat : ~\E f : DrawsUpTo(f, t, n, k)}
<1>1. S = {}
  <2>1. SUFFICES ASSUME S # {}  PROVE FALSE
    OBVIOUS
  <2>2. PICK m \in S : \A k \in S : m <= k
    BY <2>1, LeastOf
  <2>3. m # 0
    <3> DEFINE f == [h \in 0 .. n |-> t]
    <3>1. \A h \in 0 .. n : h <= 0 => h = 0 /\ f[h] = t
      OBVIOUS
    <3> HIDE DEF f
    <3>2. DrawsUpTo(f, t, n, 0)
      BY <3>1 DEF DrawsUpTo
    <3> QED  BY <3>2, <2>2
  <2>4. m - 1 \in Nat /\ m - 1 \notin S /\ (m - 1) + 1 = m
    BY <2>2, <2>3
  <2>5. PICK f : DrawsUpTo(f, t, n, m - 1)
    BY <2>4
  <2>6. \E g : DrawsUpTo(g, t, n, (m - 1) + 1)
    BY <2>4, <2>5, OneMoreDraw
  <2> QED  BY <2>2, <2>4, <2>6
<1>2. PICK f : DrawsUpTo(f, t, n, n)
  BY <1>1
<1> DEFINE g == [h \in 0 .. n |-> f[h]]
<1>3. \A h \in 0 .. n : g[h] = IF h = 0 THEN t ELSE WithChallenge(g[h - 1])
  <2>1. \A h \in 0 .. n : h # 0 => h - 1 \in 0 .. n
    OBVIOUS
  <2>2. \A h \in 0 .. n : h <= n /\ g[h] = f[h]
    OBVIOUS
  <2> HIDE DEF g
  <2> QED  BY <1>2, <2>1, <2>2 DEF DrawsUpTo
<1>4. g = [h \in 0 .. n |-> g[h]]
  OBVIOUS
<1> HIDE DEF g
<1>5. Draws(g, t, n)
  BY <1>3, <1>4 DEF Draws
<1> QED  BY <1>5

\* u is t and n more entries, none of them a message.
IsLonger(u, t, n) ==
  /\ IsSeq(u)
  /\ Len(u) = Len(t) + n
  /\ \A i \in 1 .. Len(t) : u[i] = t[i]
  /\ \A i \in Len(t) + 1 .. Len(t) + n : ~IsMessage(u[i])

LEMMA DrawnFacts ==
  ASSUME NEW t, IsSeq(t), NEW n \in Nat
  PROVE  IsLonger(Drawn(t, n), t, n)
<1>1. PICK f : Draws(f, t, n)
  BY DrawsExist
<1> DEFINE res == CHOOSE g : Draws(g, t, n)
<1>2. Drawn(t, n) = res[n]
  BY DEF Drawn, Draws
<1>3. Draws(res, t, n)
  BY <1>1
<1> HIDE DEF res
<1>4. \A h \in 0 .. n : res[h] = IF h = 0 THEN t ELSE WithChallenge(res[h - 1])
  BY <1>3 DEF Draws
<1> DEFINE S == {k \in 0 .. n : ~IsLonger(res[k], t, k)}
<1>5. S = {}
  <2>1. SUFFICES ASSUME S # {}  PROVE FALSE
    OBVIOUS
  <2>2. PICK m \in S : \A k \in S : m <= k
    <3>1. S \in SUBSET Nat
      OBVIOUS
    <3> HIDE DEF S
    <3> QED  BY <2>1, <3>1, LeastOf
  <2>3. m # 0
    <3>1. res[0] = t /\ 0 \in 0 .. n
      BY <1>4
    <3>2. Len(t) \in Nat
      BY DEF IsSeq
    <3>3. IsLonger(t, t, 0)
      BY <3>2 DEF IsLonger
    <3> QED  BY <2>2, <3>1, <3>3
  <2>4. m \in 1 .. n /\ m - 1 \in 0 .. n /\ m - 1 \notin S
    BY <2>2, <2>3
  <2> DEFINE u == res[m - 1]
             e == [kind |-> "drawn", value |-> Challenge(u)]
  <2>5. IsLonger(u, t, m - 1)
    BY <2>4
  <2>6. res[m] = Append(u, e)
    <3>1. res[m] = WithChallenge(u)
      BY <1>4, <2>4
    <3>2. WithChallenge(u) = Append(u, e)
      BY DEF WithChallenge, Sent
    <3> QED  BY <3>1, <3>2
  <2>7. ~IsMessage(e)
    BY DEF IsMessage
  <2> HIDE DEF u, e
  <2>8. IsExtended(res[m], u, e)
    BY <2>5, <2>6, AppendFacts DEF IsLonger
  <2>9. IsLonger(res[m], t, m)
    <3>1. Len(t) \in Nat /\ m \in Nat /\ m # 0
      BY <2>4 DEF IsSeq
    <3>2. /\ IsSeq(res[m]) /\ Len(res[m]) = Len(t) + m
          /\ \A i \in 1 .. Len(t) + (m - 1) : res[m][i] = u[i]
          /\ res[m][Len(t) + m] = e
      BY <2>5, <2>8, <3>1 DEF IsExtended, IsLonger
    <3>3. \A i \in 1 .. Len(t) : res[m][i] = t[i]
      BY <2>5, <3>1, <3>2 DEF IsLonger
    <3>4. \A i \in Len(t) + 1 .. Len(t) + m : ~IsMessage(res[m][i])
      <4>1. TAKE i \in Len(t) + 1 .. Len(t) + m
      <4>2. CASE i = Len(t) + m
        BY <2>7, <3>2, <4>2
      <4>3. CASE i # Len(t) + m
        <5>1. i \in Len(t) + 1 .. Len(t) + (m - 1) /\ i \in 1 .. Len(t) + (m - 1)
          BY <3>1, <4>3
        <5> QED  BY <2>5, <3>2, <5>1 DEF IsLonger
      <4> QED  BY <4>2, <4>3
    <3> QED  BY <3>2, <3>3, <3>4 DEF IsLonger
  <2> QED  BY <2>2, <2>9
<1>6. n \in 0 .. n
  OBVIOUS
<1>7. IsLonger(res[n], t, n)
  BY <1>5, <1>6
<1> QED  BY <1>2, <1>7

-----------------------------------------------------------------------------
(* Messages of a transcript, and what the verifier has read of the prover's. *)

\* u goes on from t with n messages.
GoesOn(u, t, n) ==
  /\ IsSeq(u)
  /\ Len(t) + n <= Len(u)
  /\ \A i \in 1 .. Len(t) : u[i] = t[i]
  /\ \A i \in Len(t) + 1 .. Len(t) + n : IsMessage(u[i])

Places(t) == {i \in DOMAIN t : IsMessage(t[i])}

LEMMA PlacesFacts ==
  ASSUME NEW t, IsSeq(t)
  PROVE  /\ Places(t) \in SUBSET (1 .. Len(t))
         /\ IsFiniteSet(Places(t)) /\ Cardinality(Places(t)) \in Nat
         /\ Messages(t) = [k \in DOMAIN InOrder(Places(t)) |-> t[InOrder(Places(t))[k]]]
         /\ IsInOrder(InOrder(Places(t)), Places(t))
         /\ IsVector(Messages(t), Cardinality(Places(t)))
<1>1. DOMAIN t = 1 .. Len(t) /\ Len(t) \in Nat
  BY SeqOfElements DEF IsSeq
<1>2. Places(t) \in SUBSET (1 .. Len(t))
  BY <1>1 DEF Places
<1>3. IsFiniteSet(Places(t)) /\ Cardinality(Places(t)) \in Nat
  <2>1. IsFiniteSet(1 .. Len(t))
    BY <1>1, FS_Interval
  <2>2. IsFiniteSet(Places(t))
    BY <1>2, <2>1, FS_Subset
  <2> QED  BY <2>2, FS_CardinalityType
<1>4. Messages(t) = [k \in DOMAIN InOrder(Places(t)) |-> t[InOrder(Places(t))[k]]]
  BY DEF Messages, Places
<1>5. IsInOrder(InOrder(Places(t)), Places(t))
  <2>1. Places(t) \in SUBSET Nat
    BY <1>1, <1>2
  <2> QED  BY <1>3, <2>1, InOrderFacts
<1> DEFINE q == InOrder(Places(t))
           m == Messages(t)
<1>6. DOMAIN q = 1 .. Cardinality(Places(t))
  <2>1. IsSeq(q) /\ Len(q) = Cardinality(Places(t))
    BY <1>5 DEF IsInOrder
  <2> QED  BY <2>1, SeqOfElements
<1>7. m = [k \in 1 .. Cardinality(Places(t)) |-> t[q[k]]]
  BY <1>4, <1>6
<1> HIDE DEF m, q
<1>8. DOMAIN m = 1 .. Cardinality(Places(t)) /\ m = [k \in 1 .. Cardinality(Places(t)) |-> m[k]]
  BY <1>7
<1>9. IsSeq(m) /\ Len(m) = Cardinality(Places(t))
  BY <1>3, <1>8, ListedIsSeq
<1> QED  BY <1>2, <1>3, <1>4, <1>5, <1>9 DEF IsVector, m

\* The messages that follow are the next ones.
LEMMA NextMessages ==
  ASSUME NEW t, NEW u, NEW n \in Nat, IsSeq(t), GoesOn(u, t, n), NEW j \in 1 .. n
  PROVE  /\ Len(Messages(t)) + j \in 1 .. Len(Messages(u))
         /\ Messages(u)[Len(Messages(t)) + j] = u[Len(t) + j]
<1> DEFINE x == Len(t) + j
           S == {y \in Places(u) : y <= x}
           I == (Len(t) + 1) .. x
<1>1. IsSeq(u) /\ Len(t) \in Nat /\ Len(u) \in Nat /\ x \in Nat /\ x <= Len(u)
  BY DEF GoesOn, IsSeq
<1>2. DOMAIN t = 1 .. Len(t) /\ DOMAIN u = 1 .. Len(u)
  BY <1>1, SeqOfElements
<1>3. S = Places(t) \cup I
  <2>1. ASSUME NEW y \in S  PROVE y \in Places(t) \cup I
    <3>1. y \in 1 .. Len(u) /\ IsMessage(u[y]) /\ y <= x
      BY <1>2 DEF Places
    <3>2. CASE y <= Len(t)
      BY <1>1, <1>2, <3>1, <3>2 DEF GoesOn, Places
    <3>3. CASE ~(y <= Len(t))
      BY <1>1, <3>1, <3>3
    <3> QED  BY <3>2, <3>3
  <2>2. ASSUME NEW y \in Places(t)  PROVE y \in S
    <3>1. y \in 1 .. Len(t) /\ IsMessage(t[y])
      BY <1>2 DEF Places
    <3>2. y \in 1 .. Len(u) /\ y <= x /\ u[y] = t[y]
      BY <1>1, <3>1 DEF GoesOn
    <3> QED  BY <1>2, <3>1, <3>2 DEF Places
  <2>3. ASSUME NEW y \in I  PROVE y \in S
    <3>1. y \in 1 .. Len(u) /\ y <= x /\ y \in Len(t) + 1 .. Len(t) + n
      BY <1>1
    <3>2. IsMessage(u[y])
      BY <3>1 DEF GoesOn
    <3> QED  BY <1>2, <3>1, <3>2 DEF Places
  <2> HIDE DEF S, I
  <2> QED  BY <2>1, <2>2, <2>3
<1>4. Places(t) \cap I = {}
  BY <1>1, PlacesFacts
<1>5. IsFiniteSet(I) /\ Cardinality(I) = j
  <2>1. Len(t) + 1 \in Int /\ x \in Int
    BY <1>1
  <2>2. Len(t) + 1 <= x
    BY <1>1
  <2>3. x - (Len(t) + 1) + 1 = j
    BY <1>1
  <2> QED  BY <2>1, <2>2, <2>3, FS_Interval
<1> HIDE DEF I
<1>6. Cardinality(Places(t) \cup I) = Cardinality(Places(t)) + j
  <2>1. IsFiniteSet(Places(t)) /\ Cardinality(Places(t)) \in Nat
    BY PlacesFacts
  <2>2. Cardinality(Places(t) \cap I) = 0
    BY <1>4, FS_EmptySet
  <2>3. Cardinality(Places(t) \cup I)
          = Cardinality(Places(t)) + Cardinality(I) - Cardinality(Places(t) \cap I)
    BY <1>5, <2>1, FS_Union
  <2> QED  BY <1>5, <2>1, <2>2, <2>3
<1>7. x \in Places(u)
  <2>1. x \in Len(t) + 1 .. Len(t) + n /\ x \in 1 .. Len(u)
    BY <1>1
  <2>2. IsMessage(u[x])
    BY <2>1 DEF GoesOn
  <2> QED  BY <1>2, <2>1, <2>2 DEF Places
<1> DEFINE q == InOrder(Places(u))
<1>8. IsInOrder(q, Places(u)) /\ IsFiniteSet(Places(u)) /\ Places(u) \in SUBSET Nat
  <2>1. IsInOrder(q, Places(u)) /\ IsFiniteSet(Places(u)) /\ Places(u) \in SUBSET (1 .. Len(u))
    BY <1>1, PlacesFacts
  <2> QED  BY <1>1, <2>1
<1> HIDE DEF q, x
<1>9. Cardinality(S) \in 1 .. Len(q) /\ q[Cardinality(S)] = x
  BY <1>7, <1>8, RankedAt
<1>10. Cardinality(S) = Len(Messages(t)) + j
  <2>1. Len(Messages(t)) = Cardinality(Places(t))
    BY PlacesFacts DEF IsVector
  <2> QED  BY <1>3, <1>6, <2>1
<1>11. Len(q) = Len(Messages(u)) /\ DOMAIN q = 1 .. Len(q)
  <2>1. Len(Messages(u)) = Cardinality(Places(u))
    BY <1>1, PlacesFacts DEF IsVector
  <2>2. IsSeq(q) /\ Len(q) = Cardinality(Places(u))
    BY <1>8 DEF IsInOrder
  <2> QED  BY <2>1, <2>2, SeqOfElements
<1>12. \A k \in DOMAIN q : Messages(u)[k] = u[q[k]]
  <2>1. Messages(u) = [k \in DOMAIN q |-> u[q[k]]]
    BY <1>1, PlacesFacts DEF q
  <2> QED  BY <2>1
<1>13. Messages(u)[Len(Messages(t)) + j] = u[x]
  BY <1>9, <1>10, <1>11, <1>12
<1> QED  BY <1>9, <1>10, <1>11, <1>13 DEF x

\* What the verifier makes of its transcript t by reading n messages.
LEMMA ReceivedFacts ==
  ASSUME NEW t, NEW n \in Nat, IsSeq(t), GoesOn(transcript, t, n)
  PROVE  Received(t, n) = SubSeq(transcript, 1, Len(t) + n)
<1> DEFINE m == Messages(transcript)
           r == Len(Messages(t))
           p == SubSeq(m, r + 1, r + n)
           w == SubSeq(transcript, 1, Len(t) + n)
<1>1. Len(t) \in Nat /\ r \in Nat /\ IsSeq(transcript) /\ Len(transcript) \in Nat
  <2>1. Cardinality(Places(t)) \in Nat /\ r = Cardinality(Places(t))
    BY PlacesFacts DEF IsVector
  <2> QED  BY <2>1 DEF IsSeq, GoesOn
<1>2. IsSeq(m) /\ Len(m) \in Nat
  BY <1>1, PlacesFacts DEF IsVector
<1>3. \A j \in 1 .. n : r + j \in 1 .. Len(m) /\ m[r + j] = transcript[Len(t) + j]
  BY NextMessages
<1> HIDE DEF m, r
<1>4. CASE n = 0
  <2>1. p = <<>>
    BY <1>1, <1>2, <1>4
  <2>2. IsConcat(t \o <<>>, t, <<>>) /\ Len(<<>>) = 0
    <3>1. IsSeq(<<>>) /\ Len(<<>>) = 0
      BY DEF IsSeq
    <3> QED  BY <3>1, ConcatFacts
  <2>3. IsPart(w, transcript, 1, Len(t))
    <3>1. Len(t) <= Len(transcript) /\ 1 \in 1 .. Len(transcript) + 1
          /\ Len(t) \in 0 .. Len(transcript) /\ 1 <= Len(t) + 1 /\ Len(t) + n = Len(t)
      BY <1>1, <1>4 DEF GoesOn
    <3> QED  BY <1>1, <3>1, SubSeqFacts
  <2> DEFINE v == t \o <<>>
  <2>4. IsSeq(v) /\ Len(v) = Len(t) /\ \A i \in 1 .. Len(t) : v[i] = t[i]
    BY <1>1, <2>2 DEF IsConcat
  <2> HIDE DEF w, v
  <2>5. IsSeq(w) /\ Len(w) = Len(t) /\ \A i \in 1 .. Len(t) : w[i] = t[i]
    BY <1>1, <2>3 DEF IsPart, GoesOn
  <2>6. v = w
    BY <2>4, <2>5, SameSeq
  <2>7. Received(t, n) = v
    BY <2>1 DEF Received, v, m, r, p
  <2> QED  BY <2>6, <2>7 DEF w
<1>5. CASE n # 0
  <2>1. r + n \in 1 .. Len(m)
    BY <1>3, <1>5
  <2>2. IsPart(p, m, r + 1, r + n)
    <3>1. r + 1 \in 1 .. Len(m) + 1 /\ r + n \in 0 .. Len(m) /\ r + 1 <= (r + n) + 1
      BY <1>1, <1>2, <1>5, <2>1
    <3> QED  BY <1>2, <3>1, SubSeqFacts
  <2> HIDE DEF p
  <2>3. IsSeq(p) /\ Len(p) = n /\ \A j \in 1 .. n : p[j] = transcript[Len(t) + j]
    <3>1. IsSeq(p) /\ Len(p) = n
      BY <1>1, <2>2 DEF IsPart
    <3>2. ASSUME NEW j \in 1 .. n  PROVE p[j] = transcript[Len(t) + j]
      <4>1. p[j] = m[(r + 1) + j - 1] /\ (r + 1) + j - 1 = r + j
        BY <1>1, <2>2, <3>1 DEF IsPart
      <4> QED  BY <1>3, <4>1
    <3> QED  BY <3>1, <3>2
  <2> DEFINE v == t \o p
  <2>4. IsConcat(v, t, p)
    BY <2>3, ConcatFacts
  <2> HIDE DEF v
  <2>5. IsPart(w, transcript, 1, Len(t) + n)
    <3>1. /\ 1 \in 1 .. Len(transcript) + 1 /\ Len(t) + n \in 0 .. Len(transcript)
          /\ 1 <= (Len(t) + n) + 1
      BY <1>1 DEF GoesOn
    <3> QED  BY <1>1, <3>1, SubSeqFacts
  <2> HIDE DEF w
  <2>6. IsSeq(v) /\ Len(v) = Len(t) + n /\ IsSeq(w) /\ Len(w) = Len(t) + n
    BY <1>1, <2>3, <2>4, <2>5 DEF IsConcat, IsPart
  <2>7. ASSUME NEW i \in 1 .. Len(t) + n  PROVE v[i] = w[i]
    <3>1. w[i] = transcript[i]
      BY <1>1, <2>5, <2>6 DEF IsPart
    <3>2. CASE i <= Len(t)
      BY <1>1, <2>4, <3>1, <3>2 DEF IsConcat, GoesOn
    <3>3. CASE ~(i <= Len(t))
      <4>1. i - Len(t) \in 1 .. n /\ Len(t) + (i - Len(t)) = i
        BY <1>1, <3>3
      <4>2. v[Len(t) + (i - Len(t))] = p[i - Len(t)]
        BY <2>3, <2>4, <4>1 DEF IsConcat
      <4> QED  BY <2>3, <3>1, <4>1, <4>2
    <3> QED  BY <3>2, <3>3
  <2>8. v = w
    BY <2>6, <2>7, SameSeq
  <2>9. Received(t, n) = v
    BY DEF Received, v, p, m, r
  <2> QED  BY <2>8, <2>9 DEF w
<1> QED  BY <1>4, <1>5

-----------------------------------------------------------------------------
(* The two sides' conditions, and the sizes they depend on. *)

\* From the same values the loops of prover and verifier make the same conditions.
LEMMA ConditionsAgree ==
  ASSUME NEW mask, NEW width, NEW gen, NEW point, NEW values, NEW broken
  PROVE  ProverConditions(mask, width, gen, point, values, broken) =
           VerifierConditions(mask, width, gen, point, values, broken)
<1>1. \A i \in DOMAIN mask : ColumnSeen(mask, i) <=> ColumnSeenByVerifier(mask, i)
  BY DEF ColumnSeen, ColumnSeenByVerifier
<1> QED  BY <1>1 DEF ProverConditions, VerifierConditions

LEMMA MaskFacts == IsVector(RescueMask, 2 * kStateSize) /\ kStateSize \in Nat \ {0}
<1> DEFINE f == [k \in 1 .. 2 * kStateSize |->
                   <<(k - 1) \div kStateSize, (k - 1) % kStateSize>>]
<1>1. kStateSize \in Nat \ {0} /\ 2 * kStateSize \in Nat
  BY RescueAssumption DEF kStateSize
<1>2. f = [k \in 1 .. 2 * kStateSize |-> f[k]]
  OBVIOUS
<1>3. RescueMask = <<>> \o f
  BY DEF RescueMask, Vector
<1> HIDE DEF f
<1>4. IsVector(<<>> \o f, 2 * kStateSize)
  BY <1>1, <1>2, VectorFacts
<1> QED  BY <1>1, <1>3, <1>4

LEMMA FourBreaks ==
  ASSUME params.trace_length \in Nat \ {0}
  PROVE  NumBreaks = 4
<1> DEFINE n == params.trace_length
<1>1. NumBreaks = (4 * n) \div n
  BY DEF NumBreaks, ConstraintsDegreeBound, CompositionDegreeBound
<1>2. n \in Nat \ {0}
  OBVIOUS
<1> HIDE DEF n
<1>3. (4 * n) \div n = 4
  BY <1>2
<1> QED  BY <1>1, <1>3

LEMMA WordHasBits == WordBits \in Nat /\ WordBits > 2
<1>1. WordBits \notin {0, 1, 2}
  <2>1. /\ WordBits = 0 => Word = 1
        /\ WordBits = 1 => Word = 2
        /\ WordBits = 2 => Word = 4
    <3>1. 2 ^ 0 = 1
      OBVIOUS
    <3>2. 2 ^ 1 = 2
      OBVIOUS
    <3>3. 2 ^ 2 = 4
      OBVIOUS
    <3> QED  BY <3>1, <3>2, <3>3 DEF Word
  <2>2. Word \notin {1, 2, 4}
    <3>1. kModulus \in Nat /\ Word \in Nat /\ 2 * kModulus < Word \div 2 /\ kModulus \notin {0, 1}
      BY FieldAssumption
    <3> QED  BY <3>1
  <2> QED  BY <2>1, <2>2
<1>2. WordBits \in Nat
  BY FieldAssumption
<1> QED  BY <1>1, <1>2

LEMMA Pow2Powers == Powers(Pow2, WordBits - 1)
<1> DEFINE P(f) == f = [k \in Exponents |-> IF k = 0 THEN 1 ELSE 2 * f[k - 1]]
<1>1. WordBits - 1 \in Nat
  BY WordHasBits
<1>2. PICK f : P(f)
  BY <1>1, PowersExist DEF Powers, Exponents
<1>3. Pow2 = CHOOSE p : P(p)
  BY DEF Pow2
<1>4. P(Pow2)
  BY <1>2, <1>3
<1> HIDE DEF Pow2
<1> QED  BY <1>1, <1>4 DEF Powers, Exponents

LEMMA Pow2Facts ==
  /\ Pow2[0] = 1
  /\ \A h \in Exponents : Pow2[h] \in Nat \ {0} /\ (h # 0 => Pow2[h] = 2 * Pow2[h - 1])
BY Pow2Powers, PowersFacts DEF Exponents

LEMMA LogOfFour == SafeLog2(4) \in Exponents /\ Pow2[SafeLog2(4)] = 4
<1>1. 0 \in Exponents /\ 1 \in Exponents /\ 2 \in Exponents
  BY WordHasBits DEF Exponents
<1>2. Pow2[2] = 4
  <2>1. Pow2[1] = 2 * Pow2[1 - 1] /\ Pow2[2] = 2 * Pow2[2 - 1]
    BY <1>1, Pow2Facts
  <2> QED  BY <2>1, Pow2Facts
<1> DEFINE h == CHOOSE k \in Exponents : Pow2[k] = 4
<1>3. h \in Exponents /\ Pow2[h] = 4
  BY <1>1, <1>2
<1> QED  BY <1>3 DEF SafeLog2

\* The trace of an allowed statement has a power of two of rows.
LEMMA TraceLengthFacts ==
  ASSUME setup \in Setups, StatementAllowed(setup.chain_length)
  PROVE  /\ setup.chain_length \in Nat
         /\ \E k \in Exponents :
              /\ TraceLength(setup.chain_length) = Pow2[k]
              /\ Pow2[k] >= kBatchHeight
              /\ Pow2[k] >= (setup.chain_length \div kHashesPerBatch) * kBatchHeight
<1> DEFINE c == setup.chain_length
           rows == (c \div kHashesPerBatch) * kBatchHeight
           S == {k \in Exponents : Pow2[k] >= rows}
           IsLog(k) == Pow2[k] >= rows /\ (k = 0 \/ Pow2[k - 1] < rows)
           h == CHOOSE k \in Exponents : IsLog(k)
<1>1. setup \in SetupType /\ \E k \in Exponents : Pow2[k] >= rows
  BY SetupAssumption
<1>2. c \in Nat /\ c > 0 /\ c % 3 = 0
  <2>1. c \in Nat
    BY <1>1 DEF SetupType
  <2> QED  BY <2>1 DEF StatementAllowed, kHashesPerBatch
<1>3. rows \in Nat /\ rows >= kBatchHeight
  <2>1. kBatchHeight \in Nat
    BY RescueAssumption DEF kBatchHeight, kHashesPerBatch
  <2> DEFINE n == c \div 3
  <2>2. n \in Nat /\ n >= 1
    BY <1>2
  <2>3. rows = n * kBatchHeight
    BY DEF kHashesPerBatch
  <2> HIDE DEF n, rows
  <2>4. n * kBatchHeight >= kBatchHeight /\ n * kBatchHeight \in Nat
    <3>1. n * kBatchHeight = (n - 1) * kBatchHeight + kBatchHeight
      BY <2>1, <2>2
    <3>2. (n - 1) * kBatchHeight \in Nat
      BY <2>1, <2>2
    <3> HIDE DEF kBatchHeight
    <3> QED  BY <2>1, <3>1, <3>2
  <2> QED  BY <2>3, <2>4
<1>4. TraceLength(c) = Pow2[h]
  BY DEF TraceLength
<1>5. \E k \in Exponents : IsLog(k)
  <2>1. S # {} /\ S \in SUBSET Nat
    BY <1>1 DEF Exponents
  <2>2. PICK m \in S : \A k \in S : m <= k
    <3> HIDE DEF S
    <3> QED  BY <2>1, LeastOf
  <2>3. m = 0 \/ (m - 1 \in Exponents /\ m - 1 \notin S)
    BY <2>2, WordHasBits DEF Exponents
  <2>4. m = 0 \/ Pow2[m - 1] < rows
    <3>1. ASSUME m # 0  PROVE Pow2[m - 1] < rows
      <4>1. m - 1 \in Exponents /\ ~(Pow2[m - 1] >= rows)
        BY <2>3, <3>1
      <4>2. Pow2[m - 1] \in Nat
        BY <4>1, Pow2Facts
      <4> HIDE DEF rows
      <4> QED  BY <1>3, <4>1, <4>2
    <3> QED  BY <3>1
  <2> QED  BY <2>2, <2>4
<1>6. h \in Exponents /\ Pow2[h] >= rows
  <2> HIDE DEF rows
  <2> QED  BY <1>5
<1>7. Pow2[h] >= kBatchHeight
  <2>1. Pow2[h] \in Nat /\ kBatchHeight \in Nat
    BY <1>6, Pow2Facts, RescueAssumption DEF kBatchHeight, kHashesPerBatch
  <2> HIDE DEF rows, h, kBatchHeight
  <2> QED  BY <1>3, <1>6, <2>1
<1> QED  BY <1>2, <1>4, <1>6, <1>7

\* The columns of the broken composition polynomial.
LEMMA BrokenColumns ==
  ASSUME NEW evaluation, NEW domain
  PROVE  Len(BreakCompositionPolynomial(evaluation, 4, domain).columns) = 4
<1> DEFINE b == Break(evaluation, domain, SafeLog2(4))
           coset == BreakDomain(domain, 4)
           c == BreakCompositionPolynomial(evaluation, 4, domain).columns
<1>1. Len(b) = 4
  <2> DEFINE dst == IfftReverseToNatural(evaluation, BaseInverse(domain.offset),
                                         BaseInverse(domain.generator), SafeLog2(4))
             factor == InverseOf(Uint(Pow2[SafeLog2(4)]))
             column(break_idx) ==
               Vector(Len(dst) \div 4, LAMBDA i : Mul(dst[i * 4 + break_idx + 1], factor))
             f == [k \in 1 .. 4 |-> column(k - 1)]
  <2>1. b = Deinterleaved(dst, 4, factor)
    BY LogOfFour DEF Break
  <2> HIDE DEF dst, factor
  <2>2. Deinterleaved(dst, 4, factor) = <<>> \o f
    BY DEF Deinterleaved, Vector
  <2>3. f = [k \in 1 .. 4 |-> f[k]]
    OBVIOUS
  <2> HIDE DEF f
  <2>4. IsVector(<<>> \o f, 4)
    BY <2>3, VectorFacts
  <2> QED  BY <2>1, <2>2, <2>4 DEF IsVector
<1> DEFINE g == [k \in 1 .. 4 |-> AddEvaluation(b[k - 1 + 1], coset, FALSE)]
<1>2. c = Vector(Len(b), LAMBDA i : AddEvaluation(b[i + 1], coset, FALSE))
  BY DEF BreakCompositionPolynomial, TraceOf
<1> HIDE DEF b, coset, c
<1>3. c = <<>> \o g
  BY <1>1, <1>2 DEF Vector
<1>4. g = [k \in 1 .. 4 |-> g[k]]
  OBVIOUS
<1> HIDE DEF g
<1>5. IsVector(<<>> \o g, 4)
  BY <1>4, VectorFacts
<1>6. Len(c) = 4
  BY <1>3, <1>5 DEF IsVector
<1> QED  BY <1>6 DEF c

\* The last values of a transcript, of which a part is the last of all.
LEMMA LastValuesFacts ==
  ASSUME NEW t, NEW n \in Nat
  PROVE  /\ IsVector(LastValues(t, n), n)
         /\ \A k \in 1 .. n : LastValues(t, n)[k] = t[Len(t) - n + (k - 1) + 1].value
<1> DEFINE f == [k \in 1 .. n |-> t[Len(t) - n + (k - 1) + 1].value]
<1>1. f = [k \in 1 .. n |-> f[k]] /\ \A k \in 1 .. n : f[k] = t[Len(t) - n + (k - 1) + 1].value
  OBVIOUS
<1>2. LastValues(t, n) = <<>> \o f
  BY DEF LastValues, Vector
<1> HIDE DEF f
<1>3. IsVector(<<>> \o f, n) /\ \A k \in 1 .. n : (<<>> \o f)[k] = f[k]
  BY <1>1, VectorFacts
<1> QED  BY <1>1, <1>2, <1>3

LEMMA LastOfLast ==
  ASSUME NEW t, NEW n \in Nat, NEW b \in Nat, Len(t) \in Nat
  PROVE  SubSeq(LastValues(t, n + b), n + 1, n + b) = LastValues(t, b)
<1> DEFINE v == LastValues(t, n + b)
           w == LastValues(t, b)
           p == SubSeq(v, n + 1, n + b)
<1>1. /\ IsSeq(v) /\ Len(v) = n + b
      /\ \A k \in 1 .. n + b : v[k] = t[Len(t) - (n + b) + (k - 1) + 1].value
  BY LastValuesFacts DEF IsVector
<1>2. /\ IsSeq(w) /\ Len(w) = b
      /\ \A k \in 1 .. b : w[k] = t[Len(t) - b + (k - 1) + 1].value
  BY LastValuesFacts DEF IsVector
<1> HIDE DEF v, w
<1>3. IsPart(p, v, n + 1, n + b)
  <2>1. n + 1 \in 1 .. Len(v) + 1 /\ n + b \in 0 .. Len(v) /\ n + 1 <= (n + b) + 1
    BY <1>1
  <2> QED  BY <1>1, <2>1, SubSeqFacts
<1> HIDE DEF p
<1>4. IsSeq(p) /\ Len(p) = b
  BY <1>3 DEF IsPart
<1>5. ASSUME NEW k \in 1 .. b  PROVE p[k] = w[k]
  <2>1. p[k] = v[(n + 1) + k - 1] /\ (n + 1) + k - 1 = n + k /\ n + k \in 1 .. n + b
    BY <1>3, <1>4 DEF IsPart
  <2>2. v[n + k] = t[Len(t) - (n + b) + ((n + k) - 1) + 1].value
    BY <1>1, <2>1
  <2>3. Len(t) - (n + b) + ((n + k) - 1) + 1 = Len(t) - b + (k - 1) + 1
    OBVIOUS
  <2> QED  BY <1>2, <2>1, <2>2, <2>3
<1>6. p = w
  BY <1>2, <1>4, <1>5, SameSeq
<1> QED  BY <1>6 DEF p, w, v

-----------------------------------------------------------------------------
(* Parts put after each other. *)

\* f joins the parts of s one by one, as the recursive definition says, and up to k.
Joins(f, s) ==
  f = [i \in 1 .. Len(s) |-> IF i = 1 THEN s[i] ELSE f[i - 1] \o s[i]]

JoinsUpTo(f, s, k) ==
  \A i \in 1 .. Len(s) : i <= k => f[i] = IF i = 1 THEN s[i] ELSE f[i - 1] \o s[i]

LEMMA OneMorePart ==
  ASSUME NEW s, IsSeq(s), NEW k \in Nat, NEW f, JoinsUpTo(f, s, k)
  PROVE  \E g : JoinsUpTo(g, s, k + 1)
<1> DEFINE g == [i \in 1 .. Len(s) |->
                   IF i = k + 1 THEN (IF i = 1 THEN s[i] ELSE f[i - 1] \o s[i]) ELSE f[i]]
<1>0. Len(s) \in Nat
  BY DEF IsSeq
<1>1. ASSUME NEW i \in 1 .. Len(s), i <= k + 1
      PROVE  g[i] = IF i = 1 THEN s[i] ELSE g[i - 1] \o s[i]
  <2>1. i # 1 => i - 1 \in 1 .. Len(s) /\ i - 1 # k + 1
    BY <1>0, <1>1
  <2>2. i # 1 => g[i - 1] = f[i - 1]
    BY <2>1
  <2>3. CASE i = k + 1
    <3>1. g[i] = IF i = 1 THEN s[i] ELSE f[i - 1] \o s[i]
      BY <2>3
    <3> HIDE DEF g
    <3> QED  BY <2>2, <3>1
  <2>4. CASE i # k + 1
    <3>1. g[i] = f[i] /\ i <= k
      BY <1>0, <1>1, <2>4
    <3>2. f[i] = IF i = 1 THEN s[i] ELSE f[i - 1] \o s[i]
      BY <3>1 DEF JoinsUpTo
    <3> HIDE DEF g
    <3> QED  BY <2>2, <3>1, <3>2
  <2> QED  BY <2>3, <2>4
<1> HIDE DEF g
<1>2. JoinsUpTo(g, s, k + 1)
  BY <1>1 DEF JoinsUpTo
<1> QED  BY <1>2

LEMMA JoinsExist ==
  ASSUME NEW s, IsSeq(s)
  PROVE  \E f : Joins(f, s)
<1> DEFINE S == {k \in Nat : ~\E f : JoinsUpTo(f, s, k)}
           n == Len(s)
<1>0. n \in Nat
  BY DEF IsSeq
<1>1. S = {}
  <2>1. SUFFICES ASSUME S # {}  PROVE FALSE
    OBVIOUS
  <2>2. PICK m \in S : \A k \in S : m <= k
    BY <2>1, LeastOf
  <2>3. m # 0
    <3> DEFINE f == [i \in 1 .. n |-> 0]
    <3>1. \A i \in 1 .. n : ~(i <= 0)
      BY <1>0
    <3> HIDE DEF f
    <3>2. JoinsUpTo(f, s, 0)
      BY <3>1 DEF JoinsUpTo
    <3> QED  BY <3>2, <2>2
  <2>4. m - 1 \in Nat /\ m - 1 \notin S /\ (m - 1) + 1 = m
    BY <2>2, <2>3
  <2>5. PICK f : JoinsUpTo(f, s, m - 1)
    BY <2>4
  <2>6. \E g : JoinsUpTo(g, s, (m - 1) + 1)
    BY <2>4, <2>5, OneMorePart
  <2> QED  BY <2>2, <2>4, <2>6
<1>2. PICK f : JoinsUpTo(f, s, n)
  <2>1. n \notin S
    BY <1>1
  <2> HIDE DEF n
  <2> QED  BY <1>0, <2>1
<1> DEFINE g == [i \in 1 .. n |-> f[i]]
<1>3. \A i \in 1 .. n : g[i] = IF i = 1 THEN s[i] ELSE g[i - 1] \o s[i]
  <2>1. \A i \in 1 .. n : i # 1 => i - 1 \in 1 .. n
    BY <1>0
  <2>2. \A i \in 1 .. n : i <= n /\ g[i] = f[i]
    BY <1>0
  <2> HIDE DEF g
  <2> QED  BY <1>2, <2>1, <2>2 DEF JoinsUpTo
<1>4. g = [i \in 1 .. n |-> g[i]]
  OBVIOUS
<1> HIDE DEF g
<1>5. Joins(g, s)
  BY <1>3, <1>4 DEF Joins
<1> QED  BY <1>5

\* Where each part ends: L[k] is the length of the first k of n parts.
PartEnds(L, s, n) ==
  /\ L[0] = 0
  /\ \A k \in 0 .. n : L[k] \in Nat
  /\ \A k \in 1 .. n : IsVector(s[k], L[k] - L[k - 1])

Joined(u, L, s, n) ==
  /\ IsVector(u, L[n])
  /\ \A k \in 1 .. n : \A j \in 1 .. L[k] - L[k - 1] :
       L[k - 1] + j \in 1 .. L[n] /\ u[L[k - 1] + j] = s[k][j]
  /\ \A x \in 1 .. L[n] : \E k \in 1 .. n : \E j \in 1 .. L[k] - L[k - 1] :
       x = L[k - 1] + j /\ u[x] = s[k][j]

LEMMA OnePart ==
  ASSUME NEW s, NEW L, PartEnds(L, s, 1)
  PROVE  Joined(s[1], L, s, 1)
<1>1. L[0] = 0 /\ L[1] \in Nat /\ IsVector(s[1], L[1] - L[0])
  BY DEF PartEnds
<1>2. L[1] - L[0] = L[1]
  BY <1>1
<1>3. \A k \in 1 .. 1 : k = 1 /\ k - 1 = 0
  OBVIOUS
<1>4. ASSUME NEW k \in 1 .. 1, NEW j \in 1 .. L[k] - L[k - 1]
      PROVE  L[k - 1] + j \in 1 .. L[1] /\ s[1][L[k - 1] + j] = s[k][j]
  <2>1. k = 1 /\ L[k - 1] = 0
    BY <1>1, <1>3
  <2>2. j \in 1 .. L[1] /\ 0 + j = j
    BY <1>1, <1>2, <2>1
  <2> QED  BY <2>1, <2>2
<1>5. ASSUME NEW x \in 1 .. L[1]
      PROVE  \E k \in 1 .. 1 : \E j \in 1 .. L[k] - L[k - 1] :
               x = L[k - 1] + j /\ s[1][x] = s[k][j]
  <2>1. 1 \in 1 .. 1 /\ 1 - 1 = 0 /\ x \in 1 .. L[1] - L[1 - 1] /\ x = L[1 - 1] + x
    BY <1>1
  <2> QED  BY <2>1
<1> QED  BY <1>1, <1>2, <1>4, <1>5 DEF Joined

LEMMA PartJoined ==
  ASSUME NEW s, NEW L, NEW n \in Nat \ {0}, PartEnds(L, s, n + 1), NEW u, Joined(u, L, s, n)
  PROVE  Joined(u \o s[n + 1], L, s, n + 1)
<1> DEFINE p == s[n + 1]
           w == u \o p
           d == L[n + 1] - L[n]
<1>1. /\ n + 1 \in 1 .. n + 1 /\ (n + 1) - 1 = n /\ n \in 0 .. n + 1
      /\ \A k \in 1 .. n : k \in 1 .. n + 1 /\ k - 1 \in 0 .. n + 1
  OBVIOUS
<1>2. L[n] \in Nat /\ L[n + 1] \in Nat /\ IsSeq(u) /\ Len(u) = L[n]
  BY <1>1 DEF PartEnds, Joined, IsVector
<1>3. IsSeq(p) /\ Len(p) = d
  <2>1. IsVector(s[n + 1], L[n + 1] - L[(n + 1) - 1])
    BY <1>1 DEF PartEnds
  <2> QED  BY <1>1, <2>1 DEF IsVector
<1>4. d \in Nat
  BY <1>3 DEF IsSeq
<1>5. IsConcat(w, u, p)
  BY <1>2, <1>3, ConcatFacts
<1> HIDE DEF w, p, d
<1>6. d = L[n + 1] - L[n] /\ L[n] + d = L[n + 1]
  BY <1>2 DEF d
<1>7. /\ IsVector(w, L[n + 1])
      /\ \A i \in 1 .. L[n] : w[i] = u[i]
      /\ \A j \in 1 .. d : w[L[n] + j] = p[j]
  BY <1>2, <1>3, <1>5, <1>6 DEF IsConcat, IsVector
<1>8. ASSUME NEW k \in 1 .. n + 1, NEW j \in 1 .. L[k] - L[k - 1]
      PROVE  L[k - 1] + j \in 1 .. L[n + 1] /\ w[L[k - 1] + j] = s[k][j]
  <2>1. CASE k = n + 1
    <3>1. L[k - 1] = L[n] /\ j \in 1 .. d /\ s[k] = p
      BY <1>1, <1>6, <2>1 DEF p
    <3>2. L[n] + j \in 1 .. L[n + 1]
      BY <1>2, <1>4, <1>6, <3>1
    <3> QED  BY <1>7, <3>1, <3>2
  <2>2. CASE k # n + 1
    <3>1. k \in 1 .. n
      BY <2>2
    <3>2. L[k - 1] + j \in 1 .. L[n] /\ u[L[k - 1] + j] = s[k][j]
      BY <3>1 DEF Joined
    <3>3. L[k - 1] + j \in 1 .. L[n + 1]
      BY <1>2, <1>4, <1>6, <3>2
    <3> QED  BY <1>7, <3>2, <3>3
  <2> QED  BY <2>1, <2>2
<1>9. ASSUME NEW x \in 1 .. L[n + 1]
      PROVE  \E k \in 1 .. n + 1 : \E j \in 1 .. L[k] - L[k - 1] :
               x = L[k - 1] + j /\ w[x] = s[k][j]
  <2>1. CASE x <= L[n]
    <3>1. x \in 1 .. L[n]
      BY <1>2, <2>1
    <3>2. PICK k \in 1 .. n : \E j \in 1 .. L[k] - L[k - 1] : x = L[k - 1] + j /\ u[x] = s[k][j]
      BY <3>1 DEF Joined
    <3> QED  BY <1>1, <1>7, <3>1, <3>2
  <2>2. CASE ~(x <= L[n])
    <3>1. x - L[n] \in 1 .. d /\ x = L[n] + (x - L[n])
      BY <1>2, <1>4, <1>6, <2>2
    <3>2. w[x] = p[x - L[n]]
      BY <1>7, <3>1
    <3>3. x - L[n] \in 1 .. L[n + 1] - L[(n + 1) - 1] /\ x = L[(n + 1) - 1] + (x - L[n])
      BY <1>1, <1>6, <3>1
    <3> QED  BY <1>1, <3>2, <3>3 DEF p
  <2> QED  BY <2>1, <2>2
<1>10. Joined(w, L, s, n + 1)
  BY <1>7, <1>8, <1>9 DEF Joined
<1> QED  BY <1>10 DEF w, p

\* FlattenSeq puts the parts after each other.
LEMMA FlattenFacts ==
  ASSUME NEW n \in Nat \ {0}, NEW s, IsVector(s, n), NEW L, PartEnds(L, s, n)
  PROVE  Joined(FlattenSeq(s), L, s, n)
<1> DEFINE f == CHOOSE g : Joins(g, s)
<1>1. IsSeq(s) /\ Len(s) = n
  BY DEF IsVector
<1>2. Joins(f, s)
  BY <1>1, JoinsExist
<1>3. FlattenSeq(s) = f[n]
  <2>1. Len(s) # 0
    BY <1>1
  <2> QED  BY <1>1, <2>1 DEF FlattenSeq, Joins
<1> HIDE DEF f
<1>4. \A i \in 1 .. n : f[i] = IF i = 1 THEN s[i] ELSE f[i - 1] \o s[i]
  BY <1>1, <1>2 DEF Joins
<1> DEFINE S == {k \in 1 .. n : ~Joined(f[k], L, s, k)}
<1>5. S = {}
  <2>1. SUFFICES ASSUME S # {}  PROVE FALSE
    OBVIOUS
  <2>2. S \in SUBSET Nat
    OBVIOUS
  <2>3. PICK m \in S : \A k \in S : m <= k
    <3> HIDE DEF S
    <3> QED  BY <2>1, <2>2, LeastOf
  <2>4. m \in 1 .. n /\ ~Joined(f[m], L, s, m)
    BY <2>3
  <2>5. CASE m = 1
    <3>1. f[1] = s[1]
      BY <1>4, <2>4, <2>5
    <3>2. PartEnds(L, s, 1)
      BY DEF PartEnds
    <3> QED  BY <2>4, <2>5, <3>1, <3>2, OnePart
  <2>6. CASE m # 1
    <3>1. m - 1 \in Nat \ {0} /\ m - 1 \in 1 .. n /\ (m - 1) + 1 = m /\ m - 1 \notin S
      BY <2>3, <2>4, <2>6
    <3>2. Joined(f[m - 1], L, s, m - 1)
      BY <3>1
    <3>3. PartEnds(L, s, (m - 1) + 1)
      <4>1. \A k \in 0 .. m : k \in 0 .. n
        BY <2>4
      <4>2. \A k \in 1 .. m : k \in 1 .. n
        BY <2>4
      <4> QED  BY <3>1, <4>1, <4>2 DEF PartEnds
    <3>4. Joined(f[m - 1] \o s[(m - 1) + 1], L, s, (m - 1) + 1)
      BY <3>1, <3>2, <3>3, PartJoined
    <3>5. f[m] = f[m - 1] \o s[m]
      BY <1>4, <2>4, <2>6
    <3> QED  BY <2>4, <3>1, <3>4, <3>5
  <2> QED  BY <2>5, <2>6
<1>6. n \in 1 .. n
  OBVIOUS
<1> QED  BY <1>3, <1>5, <1>6

-----------------------------------------------------------------------------
(* The constraints of the conditions, grouped by their points. *)

\* u is s with e put in its place i.
IsInserted(u, s, i, e) ==
  /\ IsVector(u, Len(s) + 1)
  /\ u[i] = e
  /\ \A x \in 1 .. Len(s) + 1 : u[x] = e \/ \E k \in 1 .. Len(s) : u[x] = s[k]
  /\ \A k \in 1 .. Len(s) : \E x \in 1 .. Len(s) + 1 : u[x] = s[k]

LEMMA InsertFacts ==
  ASSUME NEW s, IsSeq(s), NEW i \in 1 .. Len(s) + 1, NEW e
  PROVE  IsInserted(InsertAt(s, i, e), s, i, e)
<1> DEFINE a == SubSeq(s, 1, i - 1)
           b == SubSeq(s, i, Len(s))
           c == <<e>>
           n == Len(s)
<1>1. n \in Nat
  BY DEF IsSeq
<1>2. IsPart(a, s, 1, i - 1)
  <2>1. 1 \in 1 .. n + 1 /\ i - 1 \in 0 .. n /\ 1 <= (i - 1) + 1
    BY <1>1
  <2> QED  BY <2>1, SubSeqFacts
<1>3. IsPart(b, s, i, n)
  <2>1. i \in 1 .. n + 1 /\ n \in 0 .. n /\ i <= n + 1
    BY <1>1
  <2> QED  BY <2>1, SubSeqFacts
<1>4. IsSeq(c) /\ Len(c) = 1 /\ c[1] = e
  BY DEF IsSeq
<1> HIDE DEF a, b, c
<1>5. /\ IsSeq(a) /\ Len(a) = i - 1 /\ \A x \in 1 .. i - 1 : a[x] = s[x]
      /\ IsSeq(b) /\ Len(b) = n - i + 1 /\ \A x \in 1 .. n - i + 1 : b[x] = s[i + x - 1]
  <2>1. Len(a) = i - 1 /\ Len(b) = n - i + 1
    BY <1>1, <1>2, <1>3 DEF IsPart
  <2>2. \A x \in 1 .. i - 1 : a[x] = s[1 + x - 1] /\ 1 + x - 1 = x
    BY <1>1, <1>2, <2>1 DEF IsPart
  <2> QED  BY <1>2, <1>3, <2>1, <2>2 DEF IsPart
<1> DEFINE v == a \o c
           u == v \o b
<1>6. IsConcat(v, a, c)
  BY <1>4, <1>5, ConcatFacts
<1> HIDE DEF v
<1>7. IsSeq(v) /\ Len(v) = i /\ v[i] = e /\ \A x \in 1 .. i - 1 : v[x] = s[x]
  <2>1. Len(v) = (i - 1) + 1 /\ v[(i - 1) + 1] = c[1] /\ (i - 1) + 1 = i
    BY <1>1, <1>4, <1>5, <1>6 DEF IsConcat
  <2> QED  BY <1>4, <1>5, <1>6, <2>1 DEF IsConcat
<1>8. IsConcat(u, v, b)
  BY <1>5, <1>7, ConcatFacts
<1> HIDE DEF u
<1>9. /\ IsSeq(u) /\ Len(u) = n + 1 /\ u[i] = e
      /\ \A x \in 1 .. i - 1 : u[x] = s[x]
      /\ \A x \in 1 .. n - i + 1 : u[i + x] = s[i + x - 1]
  <2>1. Len(u) = i + (n - i + 1) /\ i \in 1 .. i
    BY <1>1, <1>5, <1>7, <1>8 DEF IsConcat
  <2>2. \A x \in 1 .. i - 1 : u[x] = v[x]
    BY <1>1, <1>7, <1>8 DEF IsConcat
  <2>3. \A x \in 1 .. n - i + 1 : u[i + x] = b[x]
    BY <1>1, <1>5, <1>7, <1>8 DEF IsConcat
  <2>4. IsSeq(u) /\ u[i] = v[i]
    BY <1>1, <1>7, <1>8, <2>1 DEF IsConcat
  <2>5. Len(u) = n + 1
    BY <1>1, <2>1
  <2> QED  BY <1>5, <1>7, <2>2, <2>3, <2>4, <2>5
<1>10. ASSUME NEW x \in 1 .. n + 1
       PROVE  u[x] = e \/ \E k \in 1 .. n : u[x] = s[k]
  <2>1. CASE x = i
    BY <1>9, <2>1
  <2>2. CASE x < i
    <3>1. x \in 1 .. i - 1 /\ x \in 1 .. n
      BY <1>1, <2>2
    <3> QED  BY <1>9, <3>1
  <2>3. CASE x > i
    <3>1. x - i \in 1 .. n - i + 1 /\ i + (x - i) = x /\ i + (x - i) - 1 \in 1 .. n
      BY <1>1, <2>3
    <3>2. u[i + (x - i)] = s[i + (x - i) - 1]
      BY <1>9, <3>1
    <3> QED  BY <3>1, <3>2
  <2>4. x = i \/ x < i \/ x > i
    BY <1>1
  <2> QED  BY <2>1, <2>2, <2>3, <2>4
<1>11. ASSUME NEW k \in 1 .. n
       PROVE  \E x \in 1 .. n + 1 : u[x] = s[k]
  <2>1. CASE k < i
    <3>1. k \in 1 .. i - 1 /\ k \in 1 .. n + 1
      BY <1>1, <2>1
    <3> QED  BY <1>9, <3>1
  <2>2. CASE ~(k < i)
    <3>1. k - i + 1 \in 1 .. n - i + 1 /\ i + (k - i + 1) = k + 1
          /\ i + (k - i + 1) - 1 = k /\ k + 1 \in 1 .. n + 1
      BY <1>1, <2>2
    <3>2. u[i + (k - i + 1)] = s[i + (k - i + 1) - 1]
      BY <1>9, <3>1
    <3>3. u[k + 1] = s[k]
      BY <3>1, <3>2
    <3> QED  BY <3>1, <3>3
  <2> QED  BY <2>1, <2>2
<1>12. IsInserted(u, s, i, e)
  BY <1>9, <1>10, <1>11 DEF IsInserted, IsVector
<1>13. InsertAt(s, i, e) = u
  BY DEF InsertAt, u, v, a, b, c
<1> QED  BY <1>12, <1>13

ConstraintOf(condition, coeff_idx) ==
  [coeff_idx |-> coeff_idx, column_index |-> condition.column_index,
   point_x |-> condition.point_x, point_y |-> condition.point_y]

\* A constraint is put before the first with its point, or at the end.
LEMMA OneMoreConstraint ==
  ASSUME NEW c, IsSeq(c), NEW condition, NEW coeff_idx
  PROVE  \E i \in 1 .. Len(c) + 1 :
           IsInserted(WithConstraint(c, condition, coeff_idx), c, i,
                      ConstraintOf(condition, coeff_idx))
<1> DEFINE I == {i \in 1 .. Len(c) : c[i].point_x = condition.point_x}
           it == IF I # {} THEN CHOOSE x \in I : \A y \in I : x <= y ELSE 0
           i == IF it = 0 THEN Len(c) + 1 ELSE it
<1>1. Len(c) \in Nat
  BY DEF IsSeq
<1>2. it \in 0 .. Len(c)
  <2>1. I \in SUBSET Nat /\ I \in SUBSET (1 .. Len(c))
    OBVIOUS
  <2>2. CASE I # {}
    <3> HIDE DEF I
    <3>1. \E x \in I : \A y \in I : x <= y
      BY <2>1, <2>2, LeastOf
    <3>2. it \in I
      BY <2>2, <3>1
    <3> HIDE DEF it
    <3> QED  BY <1>1, <2>1, <3>2
  <2>3. CASE I = {}
    BY <1>1, <2>3
  <2> QED  BY <2>2, <2>3
<1>3. i \in 1 .. Len(c) + 1
  <2> HIDE DEF it
  <2> QED  BY <1>1, <1>2
<1>4. WithConstraint(c, condition, coeff_idx) =
        InsertAt(c, i, ConstraintOf(condition, coeff_idx))
  BY DEF WithConstraint, SelectInSeq, Min, ConstraintOf
<1> HIDE DEF i
<1>5. IsInserted(InsertAt(c, i, ConstraintOf(condition, coeff_idx)), c, i,
                 ConstraintOf(condition, coeff_idx))
  BY <1>3, InsertFacts
<1> QED  BY <1>3, <1>4, <1>5

\* The constraints one by one, as the recursive definition says, and up to k.
Groups(f, conditions) ==
  f = [k \in 0 .. Len(conditions) |->
         IF k = 0 THEN <<>> ELSE WithConstraint(f[k - 1], conditions[k], k - 1)]

GroupsUpTo(f, conditions, k) ==
  \A h \in 0 .. Len(conditions) : h <= k =>
    f[h] = IF h = 0 THEN <<>> ELSE WithConstraint(f[h - 1], conditions[h], h - 1)

LEMMA OneMoreGroup ==
  ASSUME NEW s, Len(s) \in Nat, NEW k \in Nat, NEW f, GroupsUpTo(f, s, k)
  PROVE  \E g : GroupsUpTo(g, s, k + 1)
<1> DEFINE n == Len(s)
           g == [h \in 0 .. n |->
                   IF h = k + 1 THEN WithConstraint(f[h - 1], s[h], h - 1) ELSE f[h]]
<1>0. n \in Nat
  OBVIOUS
<1>1. ASSUME NEW h \in 0 .. n, h <= k + 1
      PROVE  g[h] = IF h = 0 THEN <<>> ELSE WithConstraint(g[h - 1], s[h], h - 1)
  <2>1. h # 0 => h - 1 \in 0 .. n /\ h - 1 # k + 1
    BY <1>0, <1>1
  <2>2. h # 0 => g[h - 1] = f[h - 1]
    BY <2>1
  <2>3. CASE h = k + 1
    <3>1. g[h] = WithConstraint(f[h - 1], s[h], h - 1) /\ h # 0
      BY <2>3
    <3> HIDE DEF g
    <3> QED  BY <2>2, <3>1
  <2>4. CASE h # k + 1
    <3>1. g[h] = f[h] /\ h <= k
      BY <1>0, <1>1, <2>4
    <3>2. f[h] = IF h = 0 THEN <<>> ELSE WithConstraint(f[h - 1], s[h], h - 1)
      BY <3>1 DEF GroupsUpTo
    <3> HIDE DEF g
    <3> QED  BY <2>2, <3>1, <3>2
  <2> QED  BY <2>3, <2>4
<1> HIDE DEF g
<1>2. GroupsUpTo(g, s, k + 1)
  BY <1>1 DEF GroupsUpTo
<1> QED  BY <1>2

LEMMA GroupsExist ==
  ASSUME NEW s, Len(s) \in Nat
  PROVE  \E f : Groups(f, s)
<1> DEFINE S == {k \in Nat : ~\E f : GroupsUpTo(f, s, k)}
           n == Len(s)
<1>0. n \in Nat
  OBVIOUS
<1>1. S = {}
  <2>1. SUFFICES ASSUME S # {}  PROVE FALSE
    OBVIOUS
  <2>2. PICK m \in S : \A k \in S : m <= k
    BY <2>1, LeastOf
  <2>3. m # 0
    <3> DEFINE f == [i \in 0 .. n |-> <<>>]
    <3>1. \A i \in 0 .. n : i <= 0 => i = 0 /\ f[i] = <<>>
      BY <1>0
    <3> HIDE DEF f
    <3>2. GroupsUpTo(f, s, 0)
      BY <3>1 DEF GroupsUpTo
    <3> QED  BY <3>2, <2>2
  <2>4. m - 1 \in Nat /\ m - 1 \notin S /\ (m - 1) + 1 = m
    BY <2>2, <2>3
  <2>5. PICK f : GroupsUpTo(f, s, m - 1)
    BY <2>4
  <2>6. \E g : GroupsUpTo(g, s, (m - 1) + 1)
    BY <2>4, <2>5, OneMoreGroup
  <2> QED  BY <2>2, <2>4, <2>6
<1>2. PICK f : GroupsUpTo(f, s, n)
  <2>1. n \notin S
    BY <1>1
  <2> HIDE DEF n
  <2> QED  BY <1>0, <2>1
<1> DEFINE g == [h \in 0 .. n |-> f[h]]
<1>3. \A h \in 0 .. n : g[h] = IF h = 0 THEN <<>> ELSE WithConstraint(g[h - 1], s[h], h - 1)
  <2>1. \A h \in 0 .. n : h # 0 => h - 1 \in 0 .. n
    BY <1>0
  <2>2. \A h \in 0 .. n : h <= n /\ g[h] = f[h]
    BY <1>0
  <2> HIDE DEF g
  <2> QED  BY <1>2, <2>1, <2>2 DEF GroupsUpTo
<1>4. g = [h \in 0 .. n |-> g[h]]
  OBVIOUS
<1> HIDE DEF g
<1>5. Groups(g, s)
  BY <1>3, <1>4 DEF Groups
<1> QED  BY <1>5

\* The constraints of the first n conditions: one for each, that keeps its index.
IsGrouping(c, conditions, n) ==
  /\ IsVector(c, n)
  /\ \A x \in 1 .. n : \E k \in 1 .. n : c[x] = ConstraintOf(conditions[k], k - 1)
  /\ \A k \in 1 .. n : \E x \in 1 .. n : c[x] = ConstraintOf(conditions[k], k - 1)

LEMMA OneMoreGrouped ==
  ASSUME NEW conditions, NEW n \in Nat, NEW c, IsGrouping(c, conditions, n)
  PROVE  IsGrouping(WithConstraint(c, conditions[n + 1], n), conditions, n + 1)
<1> DEFINE e(k) == ConstraintOf(conditions[k], k - 1)
           u == WithConstraint(c, conditions[n + 1], n)
<1>1. IsSeq(c) /\ Len(c) = n
  BY DEF IsGrouping, IsVector
<1>2. (n + 1) - 1 = n
  OBVIOUS
<1>3. PICK i \in 1 .. n + 1 : IsInserted(u, c, i, e(n + 1))
  BY <1>1, <1>2, OneMoreConstraint
<1> HIDE DEF u
<1>4. /\ IsVector(u, n + 1) /\ u[i] = e(n + 1)
      /\ \A x \in 1 .. n + 1 : u[x] = e(n + 1) \/ \E k \in 1 .. n : u[x] = c[k]
      /\ \A k \in 1 .. n : \E x \in 1 .. n + 1 : u[x] = c[k]
  BY <1>1, <1>3 DEF IsInserted
<1>5. /\ \A x \in 1 .. n : \E k \in 1 .. n : c[x] = e(k)
      /\ \A k \in 1 .. n : \E x \in 1 .. n : c[x] = e(k)
  BY DEF IsGrouping
<1> HIDE DEF e
<1>6. \A k \in 1 .. n : k \in 1 .. n + 1
  OBVIOUS
<1>7. n + 1 \in 1 .. n + 1
  OBVIOUS
<1>8. \A x \in 1 .. n + 1 : \E k \in 1 .. n + 1 : u[x] = e(k)
  BY <1>4, <1>5, <1>6, <1>7
<1>9. \A k \in 1 .. n + 1 : \E x \in 1 .. n + 1 : u[x] = e(k)
  <2>1. \A k \in 1 .. n + 1 : k = n + 1 \/ k \in 1 .. n
    OBVIOUS
  <2> QED  BY <1>3, <1>4, <1>5, <2>1
<1>10. IsGrouping(u, conditions, n + 1)
  BY <1>4, <1>8, <1>9 DEF IsGrouping, e
<1> QED  BY <1>10 DEF u

\* Every condition gives one constraint, with its place as the index of its coefficient.
LEMMA GroupedFacts ==
  ASSUME NEW conditions, Len(conditions) \in Nat
  PROVE  IsGrouping(GroupedByPoint(conditions), conditions, Len(conditions))
<1> DEFINE f == CHOOSE g : Groups(g, conditions)
           n == Len(conditions)
<1>1. Groups(f, conditions)
  BY GroupsExist
<1>2. GroupedByPoint(conditions) = f[n]
  BY DEF GroupedByPoint, Groups
<1> HIDE DEF f
<1>3. \A k \in 0 .. n :
        f[k] = IF k = 0 THEN <<>> ELSE WithConstraint(f[k - 1], conditions[k], k - 1)
  BY <1>1 DEF Groups
<1>4. n \in Nat
  OBVIOUS
<1> HIDE DEF n
<1> DEFINE S == {k \in 0 .. n : ~IsGrouping(f[k], conditions, k)}
<1>5. S = {}
  <2>1. SUFFICES ASSUME S # {}  PROVE FALSE
    OBVIOUS
  <2>2. S \in SUBSET Nat
    BY <1>4
  <2>3. PICK m \in S : \A k \in S : m <= k
    <3> HIDE DEF S
    <3> QED  BY <2>1, <2>2, LeastOf
  <2>4. m \in 0 .. n /\ ~IsGrouping(f[m], conditions, m)
    BY <2>3
  <2>5. CASE m = 0
    <3>1. f[0] = <<>>
      BY <1>3, <2>4, <2>5
    <3>2. IsVector(<<>>, 0)
      BY DEF IsVector, IsSeq
    <3>3. \A k \in 1 .. 0 : FALSE
      OBVIOUS
    <3>4. IsGrouping(<<>>, conditions, 0)
      BY <3>2, <3>3 DEF IsGrouping
    <3> QED  BY <2>4, <2>5, <3>1, <3>4
  <2>6. CASE m # 0
    <3>1. m - 1 \in Nat /\ m - 1 \in 0 .. n /\ (m - 1) + 1 = m /\ m - 1 \notin S
      BY <1>4, <2>3, <2>4, <2>6
    <3>2. IsGrouping(f[m - 1], conditions, m - 1)
      BY <3>1
    <3>3. IsGrouping(WithConstraint(f[m - 1], conditions[(m - 1) + 1], m - 1), conditions,
                     (m - 1) + 1)
      BY <3>1, <3>2, OneMoreGrouped
    <3>4. f[m] = WithConstraint(f[m - 1], conditions[m], m - 1)
      BY <1>3, <2>4, <2>6
    <3> QED  BY <2>4, <3>1, <3>3, <3>4
  <2> QED  BY <2>5, <2>6
<1>6. n \in 0 .. n
  BY <1>4
<1>7. IsGrouping(f[n], conditions, n)
  BY <1>5, <1>6
<1> QED  BY <1>2, <1>7 DEF n

-----------------------------------------------------------------------------
(* How many conditions there are, and for which columns. *)

\* Conditions with the sampled values: two for each column of the trace in the first row,
\* one in the next row; then one for each broken column.
AreConditions(conditions) ==
  /\ IsVector(conditions, 3 * kStateSize + 4)
  /\ \A k \in 1 .. 3 * kStateSize + 4 : conditions[k].column_index \in 0 .. kStateSize + 3

LEMMA ConditionsFacts ==
  ASSUME NEW gen, NEW point, NEW values, NEW broken, Len(broken) = 4
  PROVE  AreConditions(ProverConditions(RescueMask, kStateSize, gen, point, values, broken))
<1> DEFINE w == kStateSize
           of_first(i) ==
             BoundaryCondition(RescueMask[i][2],
               Mul(point, Embed(BasePow(gen, RescueMask[i][1]))), values[i])
           of_second(i) ==
             BoundaryCondition(RescueMask[i][2],
               Mul(GetFrobenius(point), Embed(BasePow(gen, RescueMask[i][1]))),
               GetFrobenius(values[i]))
           of_mask(i) ==
             <<of_first(i)>> \o
             IF ColumnSeen(RescueMask, i) THEN <<>> ELSE <<of_second(i)>>
           s == [i \in DOMAIN RescueMask |-> of_mask(i)]
           L == [k \in 0 .. 2 * w |-> IF k <= w THEN 2 * k ELSE w + k]
           r == [i \in 1 .. 4 |-> BoundaryCondition(w + (i - 1), Pow(point, 4), broken[i - 1 + 1])]
<1>1. /\ w \in Nat \ {0} /\ 2 * w \in Nat \ {0} /\ IsSeq(RescueMask) /\ Len(RescueMask) = 2 * w
      /\ DOMAIN RescueMask = 1 .. 2 * w
  <2>1. w \in Nat \ {0} /\ IsSeq(RescueMask) /\ Len(RescueMask) = 2 * w
    BY MaskFacts DEF IsVector
  <2>2. DOMAIN RescueMask = 1 .. 2 * w
    BY <2>1, SeqOfElements
  <2>3. 2 * w \in Nat \ {0}
    BY <2>1
  <2> QED  BY <2>1, <2>2, <2>3
<1>2. \A i \in 1 .. 2 * w : RescueMask[i][2] = (i - 1) % w
  <2> DEFINE f == [k \in 1 .. 2 * w |-> <<(k - 1) \div w, (k - 1) % w>>]
  <2>1. f = [k \in 1 .. 2 * w |-> f[k]] /\ \A i \in 1 .. 2 * w : f[i][2] = (i - 1) % w
    OBVIOUS
  <2>2. RescueMask = <<>> \o f
    BY DEF RescueMask, Vector
  <2> HIDE DEF f
  <2>3. \A k \in 1 .. 2 * w : (<<>> \o f)[k] = f[k]
    BY <1>1, <2>1, VectorFacts
  <2> QED  BY <2>1, <2>2, <2>3
<1>3. ASSUME NEW i \in 1 .. 2 * w
      PROVE  /\ ColumnSeen(RescueMask, i) <=> i > w
             /\ (i - 1) % w \in 0 .. w - 1
  <2>1. (i - 1) \div w \in {0, 1} /\ (i - 1) % w \in 0 .. w - 1
        /\ i - 1 = w * ((i - 1) \div w) + ((i - 1) % w)
    <3>1. i \in 1 .. w * 2
      BY <1>1
    <3>2. /\ (i - 1) \div w \in 0 .. 2 - 1 /\ (i - 1) % w \in 0 .. w - 1
          /\ i - 1 = w * ((i - 1) \div w) + ((i - 1) % w)
      BY <1>1, <3>1, Grouped
    <3> QED  BY <3>2
  <2>2. CASE i > w
    <3>1. i - w \in 1 .. i - 1 /\ i - w \in 1 .. 2 * w
      BY <1>1, <2>2
    <3>2. (i - 1) % w = (i - w - 1) % w
      <4> DEFINE a == i - w - 1
                 b == i - 1
      <4>1. a \in Int /\ b \in Int /\ 1 \in Int /\ w \in Nat \ {0} /\ b = a + 1 * w
        BY <1>1
      <4> HIDE DEF w, a, b
      <4>2. b % w = a % w
        BY <4>1, SameRemainder
      <4> QED  BY <4>2 DEF a, b
    <3> QED  BY <1>2, <2>1, <2>2, <3>1, <3>2 DEF ColumnSeen
  <2>3. CASE ~(i > w)
    <3>1. ASSUME NEW k \in 1 .. i - 1  PROVE (k - 1) % w # (i - 1) % w /\ k \in 1 .. 2 * w
      <4>1. k - 1 \in 0 .. w - 1 /\ i - 1 \in 0 .. w - 1 /\ k - 1 # i - 1 /\ k \in 1 .. 2 * w
        BY <1>1, <2>3
      <4>2. \A x \in 0 .. w - 1 : x % w = x
        BY <1>1
      <4> HIDE DEF w
      <4> QED  BY <4>1, <4>2
    <3> QED  BY <1>2, <2>1, <2>3, <3>1 DEF ColumnSeen
  <2> QED  BY <2>2, <2>3
<1> HIDE DEF of_first, of_second, w
<1>4. \A i \in 1 .. 2 * w : /\ of_first(i).column_index \in 0 .. w + 3
                            /\ of_second(i).column_index \in 0 .. w + 3
  <2>1. TAKE i \in 1 .. 2 * w
  <2>2. of_first(i).column_index = (i - 1) % w /\ of_second(i).column_index = (i - 1) % w
    BY <1>2 DEF of_first, of_second, BoundaryCondition
  <2>3. (i - 1) % w \in 0 .. w + 3
    BY <1>1, <1>3
  <2> QED  BY <2>2, <2>3
<1>5. ASSUME NEW i \in 1 .. 2 * w
      PROVE  /\ IsVector(of_mask(i), IF i > w THEN 1 ELSE 2)
             /\ \A j \in 1 .. (IF i > w THEN 1 ELSE 2) :
                  of_mask(i)[j].column_index \in 0 .. w + 3
  <2> DEFINE a == of_first(i)
             b == of_second(i)
  <2>1. a.column_index \in 0 .. w + 3 /\ b.column_index \in 0 .. w + 3
    BY <1>4
  <2>2. CASE i > w
    <3>1. of_mask(i) = <<a>> \o <<>>
      BY <1>3, <2>2
    <3> HIDE DEF a, b, of_mask
    <3>2. IsVector(<<a>> \o <<>>, 1) /\ (<<a>> \o <<>>)[1] = a
      BY DEF IsVector, IsSeq
    <3>3. \A j \in 1 .. 1 : j = 1
      OBVIOUS
    <3> QED  BY <2>1, <2>2, <3>1, <3>2, <3>3
  <2>3. CASE ~(i > w)
    <3>1. of_mask(i) = <<a>> \o <<b>>
      BY <1>3, <2>3
    <3> HIDE DEF a, b, of_mask
    <3>2. IsSeq(<<a>> \o <<b>>) /\ Len(<<a>> \o <<b>>) = 2
      BY DEF IsSeq
    <3>3. (<<a>> \o <<b>>)[1] = a /\ (<<a>> \o <<b>>)[2] = b
      OBVIOUS
    <3>4. \A j \in 1 .. 2 : j = 1 \/ j = 2
      OBVIOUS
    <3> QED  BY <2>1, <2>3, <3>1, <3>2, <3>3, <3>4 DEF IsVector
  <2> QED  BY <2>2, <2>3
<1>6. /\ IsVector(s, 2 * w)
      /\ \A i \in 1 .. 2 * w : s[i] = of_mask(i)
  <2>1. DOMAIN s = 1 .. 2 * w /\ \A i \in 1 .. 2 * w : s[i] = of_mask(i)
    BY <1>1
  <2>2. s = [i \in 1 .. 2 * w |-> s[i]]
    BY <1>1
  <2> HIDE DEF s
  <2>3. IsSeq(s) /\ Len(s) = 2 * w
    BY <1>1, <2>1, <2>2, ListedIsSeq
  <2> QED  BY <2>1, <2>3 DEF IsVector
<1> HIDE DEF of_mask
<1>7. ProverConditions(RescueMask, w, gen, point, values, broken) = FlattenSeq(s) \o (<<>> \o r)
  BY DEF ProverConditions, Vector, of_mask, of_first, of_second
<1> HIDE DEF s
<1>8. /\ L[0] = 0 /\ L[2 * w] = 3 * w
      /\ \A k \in 0 .. 2 * w : L[k] \in Nat
      /\ \A k \in 1 .. 2 * w : L[k] - L[k - 1] = IF k > w THEN 1 ELSE 2
  <2>1. ASSUME NEW k \in 1 .. 2 * w  PROVE L[k] - L[k - 1] = IF k > w THEN 1 ELSE 2
    <3>1. k - 1 \in 0 .. 2 * w /\ k \in 0 .. 2 * w
      BY <1>1
    <3>2. /\ L[k] = IF k <= w THEN 2 * k ELSE w + k
          /\ L[k - 1] = IF k - 1 <= w THEN 2 * (k - 1) ELSE w + (k - 1)
      BY <3>1
    <3> HIDE DEF L
    <3> QED  BY <1>1, <3>2
  <2> QED  BY <1>1, <2>1
<1> HIDE DEF L
<1>9. Joined(FlattenSeq(s), L, s, 2 * w)
  <2>1. \A k \in 1 .. 2 * w : IsVector(s[k], L[k] - L[k - 1])
    BY <1>5, <1>6, <1>8
  <2>2. PartEnds(L, s, 2 * w)
    BY <1>8, <2>1 DEF PartEnds
  <2> QED  BY <1>1, <1>6, <2>2, FlattenFacts
<1> DEFINE u == FlattenSeq(s)
           v == <<>> \o r
<1>10. IsSeq(u) /\ Len(u) = 3 * w /\ \A x \in 1 .. 3 * w : u[x].column_index \in 0 .. w + 3
  <2>1. IsSeq(u) /\ Len(u) = 3 * w
    BY <1>8, <1>9 DEF Joined, IsVector
  <2>2. ASSUME NEW x \in 1 .. 3 * w  PROVE u[x].column_index \in 0 .. w + 3
    <3>1. PICK k \in 1 .. 2 * w : \E j \in 1 .. L[k] - L[k - 1] : u[x] = s[k][j]
      BY <1>8, <1>9 DEF Joined
    <3>2. PICK j \in 1 .. L[k] - L[k - 1] : u[x] = s[k][j]
      BY <3>1
    <3> QED  BY <1>5, <1>6, <1>8, <3>2
  <2> QED  BY <2>1, <2>2
<1>11. IsSeq(v) /\ Len(v) = 4 /\ \A x \in 1 .. 4 : v[x].column_index \in 0 .. w + 3
  <2>1. r = [i \in 1 .. 4 |-> r[i]] /\ \A i \in 1 .. 4 : r[i].column_index = w + (i - 1)
    BY DEF BoundaryCondition
  <2> HIDE DEF r
  <2>2. 4 \in Nat /\ r = [i \in 1 .. 4 |-> r[i]]
    BY <2>1
  <2>4. IsVector(<<>> \o r, 4)
    BY <2>2, VectorFacts
  <2>5. \A k \in 1 .. 4 : (<<>> \o r)[k] = r[k]
    BY <2>2, VectorFacts
  <2>3. \A i \in 1 .. 4 : w + (i - 1) \in 0 .. w + 3
    BY <1>1
  <2> QED  BY <2>1, <2>3, <2>4, <2>5 DEF IsVector
<1> HIDE DEF u, v
<1>12. IsConcat(u \o v, u, v)
  BY <1>10, <1>11, ConcatFacts
<1> DEFINE c == u \o v
<1> HIDE DEF c
<1>13. IsSeq(c) /\ Len(c) = 3 * w + 4
  BY <1>10, <1>11, <1>12 DEF IsConcat, c
<1>14. ASSUME NEW k \in 1 .. 3 * w + 4  PROVE c[k].column_index \in 0 .. w + 3
  <2>1. CASE k <= 3 * w
    <3>1. k \in 1 .. 3 * w
      BY <1>1, <2>1
    <3>2. c[k] = u[k]
      BY <1>10, <1>12, <3>1 DEF IsConcat, c
    <3> QED  BY <1>10, <3>1, <3>2
  <2>2. CASE ~(k <= 3 * w)
    <3>1. k - 3 * w \in 1 .. 4 /\ 3 * w + (k - 3 * w) = k
      BY <1>1, <2>2
    <3>2. c[3 * w + (k - 3 * w)] = v[k - 3 * w]
      BY <1>10, <1>11, <1>12, <3>1 DEF IsConcat, c
    <3> QED  BY <1>11, <3>1, <3>2
  <2> QED  BY <2>1, <2>2
<1>15. AreConditions(c)
  BY <1>13, <1>14 DEF AreConditions, IsVector, w
<1> QED  BY <1>7, <1>15 DEF c, u, v, w

-----------------------------------------------------------------------------
(* The inductive invariant: what either side's transcript is at each stage, and what the *)
(* two sides made of it.                                                                 *)

Seed == InitialHashChainSeed(statement)

AfterTrace ==
  Sent(Seed, "root", CommittedTable(original, params.trace_length, params.n_cosets))

AfterCoefficients == Drawn(AfterTrace, 2 * kNumConstraints)

AfterComposition ==
  Sent(AfterCoefficients, "root",
       CommittedTable(composition, params.trace_length, params.n_cosets))

AfterPoint == Drawn(AfterComposition, 1)

NumValues == Len(RescueMask) + NumBreaks

\* The values are those that were sent, which an author of a proof may have changed.
AfterValues == SubSeq(transcript, 1, Len(AfterPoint) + NumValues)

ConditionsOf(t) ==
  ProverConditions(RescueMask, kStateSize, TraceGenerator, LastValues(AfterPoint, 1)[1],
                   SubSeq(LastValues(t, NumValues), 1, Len(RescueMask)),
                   LastValues(t, NumBreaks))

VerifierStages ==
  {"ReadTraceCommitment", "VerifierCompositionPolynomial", "ReadCompositionCommitment",
   "VerifyOods", "VerifierOodsPolynomial", "VerifierLowDegreeTest"}

\* The prover has drawn the coefficients of the second polynomial.
Proved == {"PerformLowDegreeTest", "StartVerifier"} \cup VerifierStages

\* It has sent the values.
Sampled == {"CreateOodsPolynomial"} \cup Proved

Composed == {"CommitOnComposition", "ProveOods"} \cup Sampled

Loaded == {"GetTrace", "CommitOnTrace", "CreateCompositionPolynomial"} \cup Composed

SetupRight ==
  /\ setup \in Setups
  /\ stage \in Loaded => params.trace_length \in Nat \ {0}

TranscriptRight ==
  /\ At("LoadParameters") => transcript = <<>>
  /\ stage \in {"GetTrace", "CommitOnTrace"} => transcript = Seed
  /\ At("CreateCompositionPolynomial") => transcript = AfterTrace
  /\ At("CommitOnComposition") => transcript = AfterCoefficients
  /\ At("ProveOods") => transcript = AfterComposition
  /\ At("CreateOodsPolynomial") => transcript = AfterValues
  /\ stage \in Sampled => GoesOn(transcript, AfterPoint, NumValues)
  /\ stage \in Proved => transcript = Drawn(AfterValues, Len(boundary))

PolynomialsRight ==
  /\ stage \in Composed => polynomial = AirPolynomial(AfterCoefficients)
  /\ At("ProveOods") => Len(composition.columns) = NumBreaks
  /\ stage \in Sampled => boundary = GroupedByPoint(ConditionsOf(AfterValues))
  /\ stage \in Proved => oods_polynomial = OodsPolynomial(transcript, boundary)

NotStarted ==
  v_transcript = <<>> /\ v_polynomial = Nothing /\ v_boundary = Nothing
  /\ v_oods_polynomial = Nothing

VerifierRight ==
  /\ stage \in ({"LoadParameters"} \cup Loaded) \ VerifierStages => NotStarted
  /\ At("ReadTraceCommitment") => v_transcript = Seed
  /\ At("VerifierCompositionPolynomial") => v_transcript = AfterTrace
  /\ At("ReadCompositionCommitment") => v_transcript = AfterCoefficients
  /\ At("VerifyOods") => v_transcript = AfterComposition
  /\ At("VerifierOodsPolynomial") => v_transcript = AfterValues /\ v_boundary = boundary
  /\ At("VerifierLowDegreeTest") => v_transcript = transcript

IInv == SetupRight /\ TranscriptRight /\ PolynomialsRight /\ VerifierRight /\ InStep

-----------------------------------------------------------------------------
(* Transcripts that go on from others. *)

Begins(t, u) ==
  IsSeq(t) /\ IsSeq(u) /\ Len(t) <= Len(u) /\ \A i \in 1 .. Len(t) : t[i] = u[i]

LEMMA BeginsIsPrefix ==
  ASSUME NEW t, NEW u, Begins(t, u)
  PROVE  IsPrefix(t, u) /\ SubSeq(u, 1, Len(t)) = t
<1> DEFINE n == Len(t)
           p == SubSeq(t, 1, n)
           q == SubSeq(u, 1, n)
<1>1. n \in Nat /\ Len(u) \in Nat /\ n <= Len(u) /\ IsSeq(t) /\ IsSeq(u)
  BY DEF Begins, IsSeq
<1>2. IsPart(p, t, 1, n)
  <2>1. 1 \in 1 .. Len(t) + 1 /\ n \in 0 .. Len(t) /\ 1 <= n + 1
    BY <1>1
  <2> QED  BY <1>1, <2>1, SubSeqFacts
<1>3. IsPart(q, u, 1, n)
  <2>1. 1 \in 1 .. Len(u) + 1 /\ n \in 0 .. Len(u) /\ 1 <= n + 1
    BY <1>1
  <2> QED  BY <1>1, <2>1, SubSeqFacts
<1> HIDE DEF p, q
<1>4. IsSeq(p) /\ Len(p) = n /\ IsSeq(q) /\ Len(q) = n
  BY <1>1, <1>2, <1>3 DEF IsPart
<1>5. \A i \in 1 .. n : 1 + i - 1 = i /\ t[i] = u[i]
  BY <1>1 DEF Begins
<1>6. \A i \in 1 .. n : p[i] = t[i] /\ q[i] = t[i]
  BY <1>2, <1>3, <1>4, <1>5 DEF IsPart
<1>7. p = t /\ q = t
  BY <1>1, <1>4, <1>6, SameSeq
<1> QED  BY <1>1, <1>7 DEF IsPrefix, p, q

LEMMA BeginsAgain ==
  ASSUME NEW t, NEW u, NEW w, Begins(t, u), Begins(u, w)
  PROVE  Begins(t, w)
<1>1. Len(t) \in Nat /\ Len(u) \in Nat /\ Len(w) \in Nat /\ Len(t) <= Len(u) /\ Len(u) <= Len(w)
  BY DEF Begins, IsSeq
<1>2. \A i \in 1 .. Len(t) : i \in 1 .. Len(u) /\ t[i] = u[i] /\ u[i] = w[i]
  BY <1>1 DEF Begins
<1> QED  BY <1>1, <1>2 DEF Begins

LEMMA EmptyBegins ==
  ASSUME NEW t, IsSeq(t)
  PROVE  IsPrefix(<<>>, t)
<1>1. IsSeq(<<>>) /\ Len(<<>>) = 0
  BY DEF IsSeq
<1>2. Begins(<<>>, t)
  BY <1>1 DEF Begins, IsSeq
<1> QED  BY <1>2, BeginsIsPrefix

\* u is t and n more messages.
HasRead(u, t, n) == GoesOn(u, t, n) /\ Len(u) = Len(t) + n

LEMMA ReadOn ==
  ASSUME NEW t, NEW u, NEW n \in Nat, IsSeq(t), HasRead(u, t, n), Begins(u, transcript)
  PROVE  Begins(t, transcript) /\ Received(t, n) = u
<1>1. Len(t) \in Nat /\ Len(u) \in Nat /\ Len(transcript) \in Nat
  BY DEF Begins, IsSeq
<1>2. Begins(t, u)
  BY <1>1 DEF HasRead, GoesOn, Begins
<1>3. Begins(t, transcript)
  BY <1>2, BeginsAgain
<1>4. GoesOn(transcript, t, n)
  <2>1. IsSeq(transcript) /\ Len(t) + n <= Len(transcript)
    BY <1>1 DEF Begins, HasRead
  <2>2. \A i \in 1 .. Len(t) : transcript[i] = t[i]
    BY <1>3 DEF Begins
  <2>3. \A i \in Len(t) + 1 .. Len(t) + n : i \in 1 .. Len(u)
    BY <1>1 DEF HasRead
  <2>4. \A i \in Len(t) + 1 .. Len(t) + n : transcript[i] = u[i]
    BY <2>3 DEF Begins
  <2>5. \A i \in Len(t) + 1 .. Len(t) + n : IsMessage(u[i])
    BY DEF HasRead, GoesOn
  <2> QED  BY <2>1, <2>2, <2>4, <2>5 DEF GoesOn
<1>5. Received(t, n) = SubSeq(transcript, 1, Len(t) + n)
  BY <1>4, ReceivedFacts
<1>6. SubSeq(transcript, 1, Len(u)) = u
  BY BeginsIsPrefix
<1> QED  BY <1>3, <1>5, <1>6 DEF HasRead

LEMMA RootSent ==
  ASSUME NEW t, IsSeq(t), NEW table
  PROVE  HasRead(Sent(t, "root", table), t, 1)
<1> DEFINE e == [kind |-> "root", value |-> table]
           u == Append(t, e)
<1>1. Sent(t, "root", table) = u
  BY DEF Sent
<1>2. IsMessage(e)
  BY DEF IsMessage
<1> HIDE DEF e
<1>3. IsExtended(u, t, e) /\ Len(t) \in Nat
  BY AppendFacts DEF IsSeq
<1> HIDE DEF u
<1>4. \A i \in Len(t) + 1 .. Len(t) + 1 : u[i] = e
  BY <1>3 DEF IsExtended
<1>5. HasRead(u, t, 1)
  BY <1>2, <1>3, <1>4 DEF IsExtended, HasRead, GoesOn
<1> QED  BY <1>1, <1>5

\* Values that are sent one by one.
LEMMA ValuesSent ==
  ASSUME NEW t, IsSeq(t), NEW n \in Nat, NEW values, Len(values) = n
  PROVE  HasRead(t \o Vector(Len(values), LAMBDA i :
                               [kind |-> "element", value |-> values[i + 1]]), t, n)
<1> DEFINE f == [k \in 1 .. n |-> [kind |-> "element", value |-> values[k - 1 + 1]]]
           v == <<>> \o f
           u == t \o v
<1>1. f = [k \in 1 .. n |-> f[k]] /\ \A k \in 1 .. n : IsMessage(f[k])
  BY DEF IsMessage
<1> HIDE DEF f
<1>2. IsSeq(v) /\ Len(v) = n /\ \A k \in 1 .. n : v[k] = f[k]
  BY <1>1, VectorFacts DEF IsVector
<1> HIDE DEF v
<1>3. IsConcat(u, t, v) /\ Len(t) \in Nat
  BY <1>2, ConcatFacts DEF IsSeq
<1> HIDE DEF u
<1>4. ASSUME NEW i \in Len(t) + 1 .. Len(t) + n  PROVE IsMessage(u[i])
  <2>1. i - Len(t) \in 1 .. n /\ Len(t) + (i - Len(t)) = i
    BY <1>3
  <2>2. u[Len(t) + (i - Len(t))] = v[i - Len(t)]
    BY <1>2, <1>3, <2>1 DEF IsConcat
  <2> QED  BY <1>1, <1>2, <2>1, <2>2
<1>5. IsSeq(u) /\ Len(u) = Len(t) + n /\ \A i \in 1 .. Len(t) : u[i] = t[i]
  BY <1>2, <1>3 DEF IsConcat
<1>6. HasRead(u, t, n)
  BY <1>3, <1>4, <1>5 DEF HasRead, GoesOn
<1>7. Vector(Len(values), LAMBDA i : [kind |-> "element", value |-> values[i + 1]]) = v
  BY DEF Vector, v, f
<1> QED  BY <1>6, <1>7 DEF u

LEMMA LongerBegins ==
  ASSUME NEW t, NEW u, NEW n \in Nat, IsSeq(t), IsLonger(u, t, n)
  PROVE  Begins(t, u)
BY DEF IsLonger, Begins, IsSeq

LEMMA ReadBegins ==
  ASSUME NEW t, NEW u, NEW n \in Nat, IsSeq(t), HasRead(u, t, n)
  PROVE  Begins(t, u) /\ IsSeq(u)
BY DEF HasRead, GoesOn, Begins, IsSeq

-----------------------------------------------------------------------------
(* The stages of the transcript. *)

LEMMA StagesOfTranscript ==
  ASSUME params.trace_length \in Nat \ {0}
  PROVE  /\ IsSeq(Seed)
         /\ IsSeq(AfterTrace) /\ HasRead(AfterTrace, Seed, 1)
         /\ IsSeq(AfterCoefficients) /\ IsLonger(AfterCoefficients, AfterTrace, 2 * kNumConstraints)
         /\ IsSeq(AfterComposition) /\ HasRead(AfterComposition, AfterCoefficients, 1)
         /\ IsSeq(AfterPoint) /\ IsLonger(AfterPoint, AfterComposition, 1)
         /\ NumBreaks = 4 /\ Len(RescueMask) \in Nat /\ NumValues \in Nat
         /\ 2 * kNumConstraints \in Nat
<1>1. IsSeq(Seed)
  <2>1. \A x : IsSeq(<<x>>)
    BY DEF IsSeq
  <2> QED  BY <2>1 DEF Seed, InitialHashChainSeed
<1>2. IsSeq(AfterTrace) /\ HasRead(AfterTrace, Seed, 1)
  <2>1. HasRead(AfterTrace, Seed, 1)
    BY <1>1, RootSent DEF AfterTrace
  <2> QED  BY <2>1 DEF HasRead, GoesOn
<1>3. 2 * kNumConstraints \in Nat
  BY RescueAssumption DEF kNumConstraints
<1>4. IsSeq(AfterCoefficients) /\ IsLonger(AfterCoefficients, AfterTrace, 2 * kNumConstraints)
  <2>1. IsLonger(AfterCoefficients, AfterTrace, 2 * kNumConstraints)
    BY <1>2, <1>3, DrawnFacts DEF AfterCoefficients
  <2> QED  BY <2>1 DEF IsLonger
<1>5. IsSeq(AfterComposition) /\ HasRead(AfterComposition, AfterCoefficients, 1)
  <2>1. HasRead(AfterComposition, AfterCoefficients, 1)
    BY <1>4, RootSent DEF AfterComposition
  <2> QED  BY <2>1 DEF HasRead, GoesOn
<1>6. IsSeq(AfterPoint) /\ IsLonger(AfterPoint, AfterComposition, 1)
  <2>1. IsLonger(AfterPoint, AfterComposition, 1)
    BY <1>5, DrawnFacts DEF AfterPoint
  <2> QED  BY <2>1 DEF IsLonger
<1>7. NumBreaks = 4 /\ Len(RescueMask) \in Nat /\ NumValues \in Nat
  <2>1. NumBreaks = 4
    BY FourBreaks
  <2>2. Len(RescueMask) \in Nat
    BY MaskFacts DEF IsVector, IsSeq
  <2> QED  BY <2>1, <2>2 DEF NumValues
<1> QED  BY <1>1, <1>2, <1>3, <1>4, <1>5, <1>6, <1>7

\* What the verifier reads at each stage, once the prover has sent the values.
LEMMA WhatIsRead ==
  ASSUME params.trace_length \in Nat \ {0}, GoesOn(transcript, AfterPoint, NumValues)
  PROVE  /\ Received(Seed, 1) = AfterTrace
         /\ Received(AfterCoefficients, 1) = AfterComposition
         /\ Received(AfterPoint, NumValues) = AfterValues
         /\ IsPrefix(<<>>, transcript)
         /\ IsPrefix(Seed, transcript)
         /\ IsPrefix(AfterTrace, transcript)
         /\ IsPrefix(AfterCoefficients, transcript)
         /\ IsPrefix(AfterComposition, transcript)
         /\ IsPrefix(AfterValues, transcript)
         /\ IsPrefix(transcript, transcript)
         /\ HasRead(AfterValues, AfterPoint, NumValues)
         /\ Begins(AfterValues, transcript)
<1>1. /\ IsSeq(Seed) /\ IsSeq(AfterTrace) /\ IsSeq(AfterCoefficients)
      /\ IsSeq(AfterComposition) /\ IsSeq(AfterPoint) /\ NumValues \in Nat
      /\ HasRead(AfterTrace, Seed, 1) /\ HasRead(AfterComposition, AfterCoefficients, 1)
      /\ 2 * kNumConstraints \in Nat
      /\ IsLonger(AfterCoefficients, AfterTrace, 2 * kNumConstraints)
      /\ IsLonger(AfterPoint, AfterComposition, 1)
  BY StagesOfTranscript
<1>2. IsSeq(transcript) /\ Len(transcript) \in Nat /\ Len(AfterPoint) \in Nat
      /\ Len(AfterPoint) + NumValues <= Len(transcript)
  BY <1>1 DEF GoesOn, IsSeq
<1>3. Begins(AfterPoint, transcript)
  <2>1. Len(AfterPoint) <= Len(transcript)
    BY <1>1, <1>2
  <2> QED  BY <1>1, <1>2, <2>1 DEF Begins, GoesOn
<1>4. Begins(AfterComposition, transcript)
  <2>1. Begins(AfterComposition, AfterPoint)
    BY <1>1, LongerBegins
  <2> QED  BY <1>3, <2>1, BeginsAgain
<1>5. Begins(AfterCoefficients, transcript) /\ Received(AfterCoefficients, 1) = AfterComposition
  BY <1>1, <1>4, ReadOn
<1>6. Begins(AfterTrace, transcript)
  <2>1. Begins(AfterTrace, AfterCoefficients)
    BY <1>1, LongerBegins
  <2> QED  BY <1>5, <2>1, BeginsAgain
<1>7. Begins(Seed, transcript) /\ Received(Seed, 1) = AfterTrace
  BY <1>1, <1>6, ReadOn
<1>8. Received(AfterPoint, NumValues) = AfterValues
  BY <1>1, ReceivedFacts DEF AfterValues
<1>9. IsPart(AfterValues, transcript, 1, Len(AfterPoint) + NumValues)
  <2> DEFINE n == Len(AfterPoint) + NumValues
  <2>1. 1 \in 1 .. Len(transcript) + 1 /\ n \in 0 .. Len(transcript) /\ 1 <= n + 1
    BY <1>1, <1>2
  <2> QED  BY <1>2, <2>1, SubSeqFacts DEF AfterValues
<1>10. /\ IsSeq(AfterValues) /\ Len(AfterValues) = Len(AfterPoint) + NumValues
       /\ \A i \in 1 .. Len(AfterPoint) + NumValues : AfterValues[i] = transcript[i]
  <2>1. Len(AfterValues) = Len(AfterPoint) + NumValues
    BY <1>1, <1>2, <1>9 DEF IsPart
  <2>2. \A i \in 1 .. Len(AfterPoint) + NumValues : 1 + i - 1 = i
    BY <1>1, <1>2
  <2> QED  BY <1>9, <2>1, <2>2 DEF IsPart
<1>11. Begins(AfterValues, transcript)
  BY <1>2, <1>10 DEF Begins
<1>12. HasRead(AfterValues, AfterPoint, NumValues)
  <2>1. \A i \in 1 .. Len(AfterPoint) : i \in 1 .. Len(AfterPoint) + NumValues
    BY <1>1, <1>2
  <2>2. \A i \in Len(AfterPoint) + 1 .. Len(AfterPoint) + NumValues :
          i \in 1 .. Len(AfterPoint) + NumValues
    BY <1>1, <1>2
  <2>3. \A i \in 1 .. Len(AfterPoint) : AfterValues[i] = AfterPoint[i]
    BY <1>10, <2>1 DEF GoesOn
  <2>4. \A i \in Len(AfterPoint) + 1 .. Len(AfterPoint) + NumValues : IsMessage(AfterValues[i])
    BY <1>10, <2>2 DEF GoesOn
  <2>5. Len(AfterPoint) + NumValues <= Len(AfterValues)
    BY <1>1, <1>2, <1>10
  <2> QED  BY <1>10, <2>3, <2>4, <2>5 DEF HasRead, GoesOn
<1>13. Begins(transcript, transcript)
  BY <1>2 DEF Begins
<1>14. IsPrefix(<<>>, transcript)
  BY <1>2, EmptyBegins
<1> QED  BY <1>4, <1>5, <1>6, <1>7, <1>8, <1>11, <1>12, <1>13, <1>14, BeginsIsPrefix

-----------------------------------------------------------------------------
(* What a step leaves alone. *)

LEMMA SameStages ==
  ASSUME UNCHANGED <<params, statement, original>>
  PROVE  /\ Seed' = Seed /\ AfterTrace' = AfterTrace /\ AfterCoefficients' = AfterCoefficients
         /\ NumBreaks' = NumBreaks /\ NumValues' = NumValues
         /\ AirPolynomial(AfterCoefficients)' = AirPolynomial(AfterCoefficients)
<1>1. Seed' = Seed
  BY DEF Seed, InitialHashChainSeed
<1>2. AfterTrace' = AfterTrace
  BY <1>1 DEF AfterTrace
<1>3. AfterCoefficients' = AfterCoefficients
  BY <1>2 DEF AfterCoefficients
<1>4. NumBreaks' = NumBreaks
  BY DEF NumBreaks, ConstraintsDegreeBound
<1>5. NumValues' = NumValues
  BY <1>4 DEF NumValues
<1>6. AirPolynomial(AfterCoefficients)' = AirPolynomial(AfterCoefficients)
  BY <1>3 DEF AirPolynomial
<1> QED  BY <1>1, <1>2, <1>3, <1>4, <1>5, <1>6

LEMMA SameLater ==
  ASSUME UNCHANGED <<params, statement, original, composition>>
  PROVE  AfterComposition' = AfterComposition /\ AfterPoint' = AfterPoint
<1>1. AfterComposition' = AfterComposition
  BY SameStages DEF AfterComposition
<1>2. AfterPoint' = AfterPoint
  BY <1>1 DEF AfterPoint
<1> QED  BY <1>1, <1>2

LEMMA SameValues ==
  ASSUME UNCHANGED <<params, statement, original, composition>>, AfterValues' = AfterValues
  PROVE  GroupedByPoint(ConditionsOf(AfterValues))' = GroupedByPoint(ConditionsOf(AfterValues))
<1>1. AfterPoint' = AfterPoint /\ NumValues' = NumValues /\ NumBreaks' = NumBreaks
  BY SameStages, SameLater
<1>2. TraceGenerator' = TraceGenerator
  BY DEF TraceGenerator
<1>3. ConditionsOf(AfterValues)' = ConditionsOf(AfterValues)
  BY <1>1, <1>2 DEF ConditionsOf
<1> QED  BY <1>3

\* Until it starts, the verifier is in step with any transcript.
LEMMA IdleInStep ==
  ASSUME NotStarted', IsSeq(transcript'), stage' # "accepted"
  PROVE  InStep'
<1>1. IsPrefix(<<>>, transcript')
  BY EmptyBegins
<1> QED  BY <1>1 DEF InStep, NotStarted, At

LEMMA IdleVerifier ==
  ASSUME VerifierRight, stage \in ({"LoadParameters"} \cup Loaded) \ VerifierStages,
         stage' \notin VerifierStages, UNCHANGED verifierVars
  PROVE  NotStarted' /\ VerifierRight'
<1>1. NotStarted'
  BY DEF VerifierRight, NotStarted, verifierVars
<1> QED  BY <1>1 DEF VerifierRight, VerifierStages, At

-----------------------------------------------------------------------------
(* The prover's steps. *)

LEMMA LoadParametersStep ==
  ASSUME IInv, LoadParameters
  PROVE  IInv'
<1> USE DEF IInv
<1>1. /\ stage = "LoadParameters" /\ transcript = <<>> /\ setup \in Setups /\ setup' = setup
      /\ UNCHANGED verifierVars
  BY DEF LoadParameters, At, TranscriptRight, SetupRight
<1>2. CASE stage' = "GetTrace"
  <2>1. /\ StatementAllowed(setup.chain_length)
        /\ params'.trace_length = TraceLength(setup.chain_length)
        /\ transcript' = InitialHashChainSeed(statement')
    BY <1>2 DEF LoadParameters
  <2>2. params'.trace_length \in Nat \ {0}
    BY <1>1, <2>1, TraceLengthFacts, Pow2Facts
  <2>3. SetupRight'
    BY <1>1, <2>2 DEF SetupRight
  <2>4. TranscriptRight'
    BY <1>2, <2>1 DEF TranscriptRight, Seed, Sampled, Proved, VerifierStages, At
  <2>5. PolynomialsRight'
    BY <1>2 DEF PolynomialsRight, Composed, Sampled, Proved, VerifierStages, At
  <2>6. NotStarted' /\ VerifierRight'
    BY <1>1, <1>2, IdleVerifier DEF VerifierStages
  <2>7. IsSeq(transcript')
    <3>1. \A x : IsSeq(<<x>>)
      BY DEF IsSeq
    <3> QED  BY <2>1, <3>1 DEF InitialHashChainSeed
  <2>8. InStep'
    BY <1>2, <2>6, <2>7, IdleInStep
  <2> QED  BY <2>3, <2>4, <2>5, <2>6, <2>8
<1>3. CASE stage' = "refused"
  <2>1. transcript' = <<>>
    BY <1>1, <1>3 DEF LoadParameters
  <2>2. SetupRight' /\ TranscriptRight' /\ PolynomialsRight'
    BY <1>1, <1>3 DEF SetupRight, TranscriptRight, PolynomialsRight, Loaded, Composed, Sampled,
                      Proved, VerifierStages, At
  <2>3. NotStarted' /\ VerifierRight'
    BY <1>1, <1>3, IdleVerifier DEF VerifierStages
  <2>4. InStep'
    <3>1. IsSeq(<<>>)
      BY DEF IsSeq
    <3>2. IsSeq(transcript')
      BY <2>1, <3>1
    <3> QED  BY <1>3, <2>3, <3>2, IdleInStep
  <2> QED  BY <2>2, <2>3, <2>4
<1> QED  BY <1>2, <1>3 DEF LoadParameters

LEMMA GetTraceStep ==
  ASSUME IInv, GetTrace
  PROVE  IInv'
<1> USE DEF IInv
<1>1. /\ stage = "GetTrace" /\ transcript = Seed /\ transcript' = transcript
      /\ stage' \in {"CommitOnTrace", "failed"}
      /\ UNCHANGED <<setup, params, statement, original, verifierVars>>
      /\ setup \in Setups /\ params.trace_length \in Nat \ {0}
  BY DEF GetTrace, At, TranscriptRight, SetupRight, Loaded
<1>2. Seed' = Seed
  BY <1>1, SameStages
<1>3. SetupRight'
  BY <1>1 DEF SetupRight
<1>4. TranscriptRight'
  BY <1>1, <1>2 DEF TranscriptRight, Sampled, Proved, VerifierStages, At
<1>5. PolynomialsRight'
  BY <1>1 DEF PolynomialsRight, Composed, Sampled, Proved, VerifierStages, At
<1>6. NotStarted' /\ VerifierRight'
  <2>1. stage \in ({"LoadParameters"} \cup Loaded) \ VerifierStages
        /\ stage' \notin VerifierStages
    BY <1>1 DEF Loaded, VerifierStages
  <2> QED  BY <1>1, <2>1, IdleVerifier
<1>7. InStep'
  <2>1. IsSeq(transcript')
    BY <1>1, StagesOfTranscript
  <2> QED  BY <1>1, <1>6, <2>1, IdleInStep
<1> QED  BY <1>3, <1>4, <1>5, <1>6, <1>7

LEMMA CommitOnTraceStep ==
  ASSUME IInv, CommitOnTrace
  PROVE  IInv'
<1> USE DEF IInv
<1>1. /\ stage = "CommitOnTrace" /\ transcript = Seed
      /\ transcript' = Sent(transcript, "root",
                            CommittedTable(original', params.trace_length, params.n_cosets))
      /\ stage' = "CreateCompositionPolynomial"
      /\ UNCHANGED <<setup, params, statement, verifierVars>>
      /\ setup \in Setups /\ params.trace_length \in Nat \ {0}
  BY DEF CommitOnTrace, At, TranscriptRight, SetupRight, Loaded
<1>2. Seed' = Seed
  BY <1>1 DEF Seed, InitialHashChainSeed
<1>3. transcript' = AfterTrace'
  BY <1>1, <1>2 DEF AfterTrace
<1>4. SetupRight'
  BY <1>1 DEF SetupRight
<1>5. TranscriptRight'
  BY <1>1, <1>3 DEF TranscriptRight, Sampled, Proved, VerifierStages, At
<1>6. PolynomialsRight'
  BY <1>1 DEF PolynomialsRight, Composed, Sampled, Proved, VerifierStages, At
<1>7. NotStarted' /\ VerifierRight'
  <2>1. stage \in ({"LoadParameters"} \cup Loaded) \ VerifierStages
        /\ stage' \notin VerifierStages
    BY <1>1 DEF Loaded, VerifierStages
  <2> QED  BY <1>1, <2>1, IdleVerifier
<1>8. InStep'
  <2>1. IsSeq(Seed)
    BY <1>1, StagesOfTranscript
  <2>2. IsSeq(transcript')
    BY <1>1, <2>1, RootSent DEF HasRead, GoesOn
  <2> QED  BY <1>1, <1>7, <2>2, IdleInStep
<1> QED  BY <1>4, <1>5, <1>6, <1>7, <1>8

LEMMA CreateCompositionPolynomialStep ==
  ASSUME IInv, CreateCompositionPolynomial
  PROVE  IInv'
<1> USE DEF IInv
<1>1. /\ stage = "CreateCompositionPolynomial" /\ transcript = AfterTrace
      /\ transcript' = Drawn(transcript, 2 * kNumConstraints)
      /\ polynomial' = AirPolynomial(transcript')
      /\ stage' \in {"CommitOnComposition", "failed"}
      /\ UNCHANGED <<setup, params, statement, original, verifierVars>>
      /\ setup \in Setups /\ params.trace_length \in Nat \ {0}
  BY DEF CreateCompositionPolynomial, At, TranscriptRight, SetupRight, Loaded
<1>2. /\ transcript' = AfterCoefficients /\ AfterCoefficients' = AfterCoefficients
      /\ AirPolynomial(AfterCoefficients)' = AirPolynomial(AfterCoefficients)
  BY <1>1, SameStages DEF AfterCoefficients
<1>3. polynomial' = AirPolynomial(AfterCoefficients)
  BY <1>1, <1>2 DEF AirPolynomial
<1>4. SetupRight'
  BY <1>1 DEF SetupRight
<1>5. TranscriptRight'
  BY <1>1, <1>2 DEF TranscriptRight, Sampled, Proved, VerifierStages, At
<1>6. PolynomialsRight'
  BY <1>1, <1>2, <1>3 DEF PolynomialsRight, Sampled, Proved, VerifierStages, At
<1>7. NotStarted' /\ VerifierRight'
  <2>1. stage \in ({"LoadParameters"} \cup Loaded) \ VerifierStages
        /\ stage' \notin VerifierStages
    BY <1>1 DEF Loaded, VerifierStages
  <2> QED  BY <1>1, <2>1, IdleVerifier
<1>8. InStep'
  <2>1. IsSeq(transcript')
    BY <1>1, <1>2, StagesOfTranscript
  <2> QED  BY <1>1, <1>7, <2>1, IdleInStep
<1> QED  BY <1>4, <1>5, <1>6, <1>7, <1>8

LEMMA CommitOnCompositionStep ==
  ASSUME IInv, CommitOnComposition
  PROVE  IInv'
<1> USE DEF IInv
<1>1. /\ stage = "CommitOnComposition" /\ transcript = AfterCoefficients
      /\ stage' \in {"ProveOods", "failed"}
      /\ UNCHANGED <<setup, params, statement, original, polynomial, verifierVars>>
      /\ setup \in Setups /\ params.trace_length \in Nat \ {0}
      /\ polynomial = AirPolynomial(AfterCoefficients)
  BY DEF CommitOnComposition, At, TranscriptRight, SetupRight, PolynomialsRight, Loaded, Composed
<1>2. /\ AfterCoefficients' = AfterCoefficients /\ NumBreaks' = NumBreaks /\ NumBreaks = 4
      /\ AirPolynomial(AfterCoefficients)' = AirPolynomial(AfterCoefficients)
      /\ IsSeq(AfterCoefficients)
  BY <1>1, SameStages, StagesOfTranscript
<1>3. \/ /\ transcript' = Sent(transcript, "root",
                               CommittedTable(composition', params.trace_length,
                                              params.n_cosets))
         /\ Len(composition'.columns) = 4
      \/ stage' = "failed" /\ transcript' = transcript
  BY <1>2, BrokenColumns DEF CommitOnComposition
<1>4. stage' = "ProveOods" => transcript' = AfterComposition' /\ Len(composition'.columns) = 4
  BY <1>1, <1>2, <1>3 DEF AfterComposition
<1>5. SetupRight'
  BY <1>1 DEF SetupRight
<1>6. TranscriptRight'
  BY <1>1, <1>4 DEF TranscriptRight, Sampled, Proved, VerifierStages, At
<1>7. PolynomialsRight'
  BY <1>1, <1>2, <1>4 DEF PolynomialsRight, Sampled, Proved, VerifierStages, At
<1>8. NotStarted' /\ VerifierRight'
  <2>1. stage \in ({"LoadParameters"} \cup Loaded) \ VerifierStages
        /\ stage' \notin VerifierStages
    BY <1>1 DEF Loaded, Composed, VerifierStages
  <2> QED  BY <1>1, <2>1, IdleVerifier
<1>9. InStep'
  <2>1. IsSeq(transcript')
    BY <1>1, <1>2, <1>3, RootSent DEF HasRead, GoesOn
  <2> QED  BY <1>1, <1>8, <2>1, IdleInStep
<1> QED  BY <1>5, <1>6, <1>7, <1>8, <1>9

-----------------------------------------------------------------------------
(* The values that are sampled. *)

LEMMA ChangedVector ==
  ASSUME NEW v, NEW n \in Nat, IsVector(v, n), NEW i, NEW e
  PROVE  IsVector([v EXCEPT ![i] = e], n)
<1> DEFINE u == [v EXCEPT ![i] = e]
<1>1. DOMAIN v = 1 .. n
  BY SeqOfElements DEF IsVector
<1>2. DOMAIN u = 1 .. n /\ u = [k \in 1 .. n |-> u[k]]
  BY <1>1
<1> HIDE DEF u
<1>3. IsSeq(u) /\ Len(u) = n
  BY <1>2, ListedIsSeq
<1> QED  BY <1>3 DEF u, IsVector

LEMMA SampledLength ==
  ASSUME NEW point, NEW n \in Nat, NEW m \in Nat, NEW values, IsVector(values, m)
  PROVE  IsVector(SampledValues(point, values, n), m)
<1> DEFINE index == setup.deviation.index
           changed == [values EXCEPT ![index] = Add(values[index], One)]
<1>1. IsVector(changed, m)
  <2> DEFINE e == Add(values[index], One)
  <2> HIDE DEF index, e
  <2>1. IsVector([values EXCEPT ![index] = e], m)
    BY ChangedVector
  <2> QED  BY <2>1 DEF e
<1>2. [values EXCEPT ![setup.deviation.index] = Add(@, One)] = changed
  OBVIOUS
<1> HIDE DEF changed
<1>3. IsVector(Balanced(changed, n, point), m)
  <2> DEFINE e == Add(changed[n + 1],
                      Sub(EvalCompositionAtPoint(polynomial, point, SubSeq(changed, 1, n), <<>>),
                          EvalFromSamples(SubSeq(changed, n + 1, Len(changed)), point)))
  <2>1. Balanced(changed, n, point) = [changed EXCEPT ![n + 1] = e]
    BY DEF Balanced
  <2> HIDE DEF e
  <2>2. IsVector([changed EXCEPT ![n + 1] = e], m)
    BY <1>1, ChangedVector
  <2> QED  BY <2>1, <2>2
<1>4. SampledValues(point, values, n) = Balanced(changed, n, point)
      \/ SampledValues(point, values, n) = values
  BY <1>2 DEF SampledValues
<1> QED  BY <1>3, <1>4

LEMMA MaskValues ==
  ASSUME NEW t, NEW mask, NEW n \in Nat, Len(mask) = n, NEW gen, NEW point
  PROVE  IsVector(EvalMaskAtPoint(t, mask, gen, point), n)
<1> DEFINE f == [i \in 1 .. n |->
                   EvalAtPoint(t.columns[mask[i - 1 + 1][2] + 1], t.natural,
                               Mul(point, Embed(BasePow(gen, mask[i - 1 + 1][1]))))]
<1>1. f = [i \in 1 .. n |-> f[i]]
  OBVIOUS
<1>2. EvalMaskAtPoint(t, mask, gen, point) = <<>> \o f
  BY DEF EvalMaskAtPoint, Vector
<1> HIDE DEF f
<1>3. IsVector(<<>> \o f, n)
  BY <1>1, VectorFacts
<1> QED  BY <1>2, <1>3

LEMMA BoundaryMaskLength ==
  ASSUME NEW n \in Nat
  PROVE  Len(BoundaryMask(n)) = n
<1> DEFINE f == [i \in 1 .. n |-> <<0, i - 1>>]
<1>1. f = [i \in 1 .. n |-> f[i]]
  OBVIOUS
<1>2. BoundaryMask(n) = <<>> \o f
  BY DEF BoundaryMask, Vector
<1> HIDE DEF f
<1>3. IsVector(<<>> \o f, n)
  BY <1>1, VectorFacts
<1> QED  BY <1>2, <1>3 DEF IsVector

LEMMA ProveOodsStep ==
  ASSUME IInv, ProveOods
  PROVE  IInv'
<1> USE DEF IInv
<1> DEFINE n == Len(RescueMask)
           point == LastValues(AfterPoint, 1)[1]
           a == EvalMaskAtPoint(original, RescueMask, TraceGenerator, point)
           b == EvalMaskAtPoint(composition, BoundaryMask(4), TraceGenerator, Pow(point, 4))
           values == SampledValues(point, a \o b, n)
<1>1. /\ stage = "ProveOods" /\ transcript = AfterComposition
      /\ stage' = "CreateOodsPolynomial"
      /\ UNCHANGED <<setup, params, statement, original, composition, polynomial, verifierVars>>
      /\ setup \in Setups /\ params.trace_length \in Nat \ {0}
      /\ polynomial = AirPolynomial(AfterCoefficients)
      /\ Len(composition.columns) = NumBreaks
  BY DEF ProveOods, At, TranscriptRight, SetupRight, PolynomialsRight, Loaded, Composed
<1>2. /\ NumBreaks = 4 /\ n \in Nat /\ NumValues = n + 4 /\ NumValues \in Nat
      /\ IsSeq(AfterPoint) /\ Len(AfterPoint) \in Nat
  BY <1>1, StagesOfTranscript DEF NumValues, IsSeq
<1>3. /\ transcript' = AfterPoint \o Vector(Len(values), LAMBDA i :
                                       [kind |-> "element", value |-> values[i + 1]])
      /\ boundary' = GroupedByPoint(
           ProverConditions(RescueMask, kStateSize, TraceGenerator, point,
                            SubSeq(LastValues(transcript', n + 4), 1, n),
                            LastValues(transcript', 4)))
  <2>1. Len(composition.columns) = 4 /\ Drawn(transcript, 1) = AfterPoint
    BY <1>1, <1>2 DEF AfterPoint
  <2>2. transcript' = AfterPoint \o Vector(Len(values), LAMBDA i :
                                       [kind |-> "element", value |-> values[i + 1]])
    BY <2>1 DEF ProveOods, Vector
  <2>3. boundary' = GroupedByPoint(
           ProverConditions(RescueMask, kStateSize, TraceGenerator, point,
                            SubSeq(LastValues(transcript', n + 4), 1, n),
                            LastValues(transcript', 4)))
    BY <2>1 DEF ProveOods
  <2> QED  BY <2>2, <2>3
<1>4. IsVector(values, n + 4)
  <2>1. IsVector(a, n)
    BY <1>2, MaskValues
  <2>2. IsVector(b, 4)
    BY BoundaryMaskLength, MaskValues
  <2> HIDE DEF a, b, n
  <2>3. IsConcat(a \o b, a, b)
    BY <2>1, <2>2, ConcatFacts DEF IsVector
  <2>4. IsVector(a \o b, n + 4)
    BY <2>1, <2>2, <2>3 DEF IsVector, IsConcat
  <2>5. n + 4 \in Nat
    BY <1>2
  <2> QED  BY <1>2, <2>4, <2>5, SampledLength
<1> HIDE DEF values
<1>5. HasRead(transcript', AfterPoint, NumValues)
  <2>1. Len(values) = NumValues
    BY <1>2, <1>4 DEF IsVector
  <2>2. HasRead(AfterPoint \o Vector(Len(values), LAMBDA i :
                                [kind |-> "element", value |-> values[i + 1]]),
                AfterPoint, NumValues)
    BY <1>2, <2>1, ValuesSent DEF Vector
  <2> QED  BY <1>3, <2>2 DEF Vector
<1>6. /\ AfterCoefficients' = AfterCoefficients /\ AfterPoint' = AfterPoint
      /\ NumValues' = NumValues /\ NumBreaks' = NumBreaks
      /\ AirPolynomial(AfterCoefficients)' = AirPolynomial(AfterCoefficients)
  BY <1>1, SameStages, SameLater
<1>7. AfterValues' = transcript' /\ IsSeq(transcript')
  <2>1. IsSeq(transcript') /\ Len(transcript') = Len(AfterPoint) + NumValues
    BY <1>5 DEF HasRead, GoesOn
  <2>2. Begins(transcript', transcript')
    BY <2>1 DEF Begins, IsSeq
  <2>3. SubSeq(transcript', 1, Len(transcript')) = transcript'
    BY <2>2, BeginsIsPrefix
  <2> QED  BY <1>6, <2>1, <2>3 DEF AfterValues
<1>8. GoesOn(transcript', AfterPoint', NumValues')
  BY <1>5, <1>6 DEF HasRead
<1>9. boundary' = GroupedByPoint(ConditionsOf(AfterValues))'
  <2>1. TraceGenerator' = TraceGenerator
    BY <1>1 DEF TraceGenerator
  <2>2. ConditionsOf(AfterValues)' =
          ProverConditions(RescueMask, kStateSize, TraceGenerator, point,
                           SubSeq(LastValues(transcript', n + 4), 1, n),
                           LastValues(transcript', 4))
    BY <1>2, <1>6, <1>7, <2>1 DEF ConditionsOf
  <2> QED  BY <1>3, <2>2
<1>10. SetupRight'
  BY <1>1 DEF SetupRight
<1>11. TranscriptRight'
  <2>1. stage' \notin Proved
    BY <1>1 DEF Proved, VerifierStages
  <2>2. GoesOn(transcript, AfterPoint, NumValues)'
    BY <1>8
  <2> QED  BY <1>1, <1>7, <2>1, <2>2 DEF TranscriptRight, At
<1>12. PolynomialsRight'
  <2>1. stage' \notin Proved
    BY <1>1 DEF Proved, VerifierStages
  <2> QED  BY <1>1, <1>6, <1>9, <2>1 DEF PolynomialsRight, At
<1>13. NotStarted' /\ VerifierRight'
  <2>1. stage \in ({"LoadParameters"} \cup Loaded) \ VerifierStages
        /\ stage' \notin VerifierStages
    BY <1>1 DEF Loaded, Composed, VerifierStages
  <2> QED  BY <1>1, <2>1, IdleVerifier
<1>14. InStep'
  BY <1>1, <1>7, <1>13, IdleInStep
<1> QED  BY <1>10, <1>11, <1>12, <1>13, <1>14

\* Of as many constraints as there are conditions.
LEMMA BoundaryFacts ==
  ASSUME params.trace_length \in Nat \ {0}, NEW t
  PROVE  /\ IsGrouping(GroupedByPoint(ConditionsOf(t)), ConditionsOf(t), 3 * kStateSize + 4)
         /\ AreConditions(ConditionsOf(t))
         /\ 3 * kStateSize + 4 \in Nat
<1> DEFINE c == ConditionsOf(t)
<1>1. NumBreaks = 4
  BY StagesOfTranscript
<1>2. Len(LastValues(t, NumBreaks)) = 4
  BY <1>1, LastValuesFacts DEF IsVector
<1>3. AreConditions(c)
  BY <1>2, ConditionsFacts DEF ConditionsOf
<1>4. 3 * kStateSize + 4 \in Nat
  BY MaskFacts
<1> HIDE DEF c
<1>5. Len(c) = 3 * kStateSize + 4
  BY <1>3 DEF AreConditions, IsVector
<1>6. IsGrouping(GroupedByPoint(c), c, 3 * kStateSize + 4)
  BY <1>4, <1>5, GroupedFacts
<1> QED  BY <1>3, <1>4, <1>6 DEF c

LEMMA CreateOodsPolynomialStep ==
  ASSUME IInv, CreateOodsPolynomial
  PROVE  IInv'
<1> USE DEF IInv
<1>1. /\ stage = "CreateOodsPolynomial" /\ transcript = AfterValues
      /\ transcript' = Drawn(transcript, Len(boundary))
      /\ oods_polynomial' = OodsPolynomial(transcript', boundary)
      /\ stage' \in {"PerformLowDegreeTest", "failed"}
      /\ UNCHANGED <<setup, params, statement, original, composition, polynomial, boundary,
                     verifierVars>>
      /\ setup \in Setups /\ params.trace_length \in Nat \ {0}
      /\ polynomial = AirPolynomial(AfterCoefficients)
      /\ GoesOn(transcript, AfterPoint, NumValues)
      /\ boundary = GroupedByPoint(ConditionsOf(AfterValues))
  BY DEF CreateOodsPolynomial, At, TranscriptRight, SetupRight, PolynomialsRight, Loaded,
         Composed, Sampled
<1>2. Len(boundary) \in Nat
  BY <1>1, BoundaryFacts DEF IsGrouping, IsVector
<1>3. /\ HasRead(transcript, AfterPoint, NumValues) /\ IsSeq(transcript)
      /\ NumValues \in Nat /\ IsSeq(AfterPoint) /\ Len(AfterPoint) \in Nat
      /\ Len(transcript) = Len(AfterPoint) + NumValues
  BY <1>1, WhatIsRead, StagesOfTranscript DEF HasRead, GoesOn, IsSeq
<1>4. /\ AfterCoefficients' = AfterCoefficients /\ AfterPoint' = AfterPoint
      /\ NumValues' = NumValues /\ NumBreaks' = NumBreaks
      /\ AirPolynomial(AfterCoefficients)' = AirPolynomial(AfterCoefficients)
  BY <1>1, SameStages, SameLater
<1>5. IsLonger(transcript', transcript, Len(boundary))
  BY <1>1, <1>2, <1>3, DrawnFacts
<1>6. Begins(transcript, transcript') /\ IsSeq(transcript')
  BY <1>2, <1>3, <1>5, LongerBegins DEF IsLonger
<1>7. AfterValues' = AfterValues
  <2>1. SubSeq(transcript', 1, Len(transcript)) = transcript
    BY <1>6, BeginsIsPrefix
  <2>2. AfterValues' = SubSeq(transcript', 1, Len(AfterPoint) + NumValues)
    BY <1>4 DEF AfterValues
  <2> QED  BY <1>1, <1>3, <2>1, <2>2
<1>8. GoesOn(transcript', AfterPoint, NumValues)
  <2>1. Len(AfterPoint) + NumValues <= Len(transcript')
    BY <1>3, <1>6 DEF Begins
  <2>2. \A i \in 1 .. Len(AfterPoint) : i \in 1 .. Len(transcript)
    BY <1>3
  <2>3. \A i \in Len(AfterPoint) + 1 .. Len(AfterPoint) + NumValues : i \in 1 .. Len(transcript)
    BY <1>3
  <2>4. \A i \in 1 .. Len(transcript) : transcript'[i] = transcript[i]
    BY <1>6 DEF Begins
  <2>5. \A i \in 1 .. Len(AfterPoint) : transcript'[i] = AfterPoint[i]
    BY <1>1, <2>2, <2>4 DEF GoesOn
  <2>6. \A i \in Len(AfterPoint) + 1 .. Len(AfterPoint) + NumValues : IsMessage(transcript'[i])
    BY <1>1, <2>3, <2>4 DEF GoesOn
  <2> QED  BY <1>6, <2>1, <2>5, <2>6 DEF GoesOn
<1>9. SetupRight'
  BY <1>1 DEF SetupRight
<1>10. TranscriptRight'
  <2>1. GoesOn(transcript, AfterPoint, NumValues)'
    BY <1>4, <1>8
  <2>2. transcript' = Drawn(AfterValues, Len(boundary))'
    BY <1>1, <1>7
  <2> QED  BY <1>1, <2>1, <2>2 DEF TranscriptRight, At
<1>11. PolynomialsRight'
  <2>1. boundary' = GroupedByPoint(ConditionsOf(AfterValues))'
    BY <1>1, <1>7, SameValues
  <2>2. oods_polynomial' = OodsPolynomial(transcript, boundary)'
    BY <1>1 DEF OodsPolynomial
  <2> QED  BY <1>1, <1>4, <2>1, <2>2 DEF PolynomialsRight, At
<1>12. NotStarted' /\ VerifierRight'
  <2>1. stage \in ({"LoadParameters"} \cup Loaded) \ VerifierStages
        /\ stage' \notin VerifierStages
    BY <1>1 DEF Loaded, Composed, Sampled, VerifierStages
  <2> QED  BY <1>1, <2>1, IdleVerifier
<1>13. InStep'
  BY <1>1, <1>6, <1>12, IdleInStep
<1> QED  BY <1>9, <1>10, <1>11, <1>12, <1>13

-----------------------------------------------------------------------------
(* The steps that leave the prover's part alone. *)

LEMMA ProverDone ==
  ASSUME IInv, stage \in Proved, stage' \in Proved \cup {"failed", "rejected", "accepted"},
         UNCHANGED <<setup, params, statement, transcript, original, polynomial, composition,
                     boundary, oods_polynomial>>
  PROVE  SetupRight' /\ TranscriptRight' /\ PolynomialsRight'
<1>1. /\ stage \in Sampled /\ stage \in Composed /\ stage \in Loaded
      /\ stage' \notin {"LoadParameters", "GetTrace", "CommitOnTrace",
                        "CreateCompositionPolynomial", "CommitOnComposition", "ProveOods",
                        "CreateOodsPolynomial"}
  BY DEF Sampled, Composed, Loaded, Proved, VerifierStages
<1>2. /\ AfterCoefficients' = AfterCoefficients /\ AfterPoint' = AfterPoint
      /\ NumValues' = NumValues /\ NumBreaks' = NumBreaks
      /\ AirPolynomial(AfterCoefficients)' = AirPolynomial(AfterCoefficients)
  BY SameStages, SameLater
<1>3. AfterValues' = AfterValues
  BY <1>2 DEF AfterValues
<1>4. SetupRight'
  BY <1>1 DEF IInv, SetupRight
<1>5. TranscriptRight'
  <2>1. GoesOn(transcript, AfterPoint, NumValues) /\ transcript = Drawn(AfterValues, Len(boundary))
    BY <1>1 DEF IInv, TranscriptRight
  <2>2. GoesOn(transcript, AfterPoint, NumValues)'
        /\ transcript' = Drawn(AfterValues, Len(boundary))'
    BY <1>2, <1>3, <2>1
  <2> QED  BY <1>1, <2>2 DEF TranscriptRight, At
<1>6. PolynomialsRight'
  <2>1. /\ polynomial = AirPolynomial(AfterCoefficients)
        /\ boundary = GroupedByPoint(ConditionsOf(AfterValues))
        /\ oods_polynomial = OodsPolynomial(transcript, boundary)
    BY <1>1 DEF IInv, PolynomialsRight
  <2>2. GroupedByPoint(ConditionsOf(AfterValues))' = GroupedByPoint(ConditionsOf(AfterValues))
    BY <1>3, SameValues
  <2>3. OodsPolynomial(transcript, boundary)' = OodsPolynomial(transcript, boundary)
    BY DEF OodsPolynomial
  <2> QED  BY <1>1, <1>2, <2>1, <2>2, <2>3 DEF PolynomialsRight, At
<1> QED  BY <1>4, <1>5, <1>6

\* What the verifier's steps find.
LEMMA WhatIsProved ==
  ASSUME IInv, stage \in Proved
  PROVE  /\ params.trace_length \in Nat \ {0}
         /\ GoesOn(transcript, AfterPoint, NumValues) /\ IsSeq(transcript)
         /\ transcript = Drawn(AfterValues, Len(boundary))
         /\ polynomial = AirPolynomial(AfterCoefficients)
         /\ boundary = GroupedByPoint(ConditionsOf(AfterValues))
         /\ oods_polynomial = OodsPolynomial(transcript, boundary)
<1>1. stage \in Sampled /\ stage \in Composed /\ stage \in Loaded
  BY DEF Sampled, Composed, Loaded
<1> QED  BY <1>1 DEF IInv, SetupRight, TranscriptRight, PolynomialsRight, GoesOn

LEMMA PerformLowDegreeTestStep ==
  ASSUME IInv, PerformLowDegreeTest
  PROVE  IInv'
<1>1. /\ stage = "PerformLowDegreeTest" /\ stage' \in {"StartVerifier", "failed"}
      /\ UNCHANGED <<setup, params, statement, transcript, original, polynomial, composition,
                     boundary, oods_polynomial, verifierVars>>
  BY DEF PerformLowDegreeTest, At
<1>2. stage \in Proved /\ stage' \in Proved \cup {"failed", "rejected", "accepted"}
  BY <1>1 DEF Proved
<1>3. SetupRight' /\ TranscriptRight' /\ PolynomialsRight'
  BY <1>1, <1>2, ProverDone
<1>4. NotStarted' /\ VerifierRight'
  <2>1. stage \in ({"LoadParameters"} \cup Loaded) \ VerifierStages
        /\ stage' \notin VerifierStages
    BY <1>1 DEF Loaded, Composed, Sampled, Proved, VerifierStages
  <2> QED  BY <1>1, <2>1, IdleVerifier DEF IInv
<1>5. InStep'
  BY <1>1, <1>2, <1>4, WhatIsProved, IdleInStep
<1> QED  BY <1>3, <1>4, <1>5 DEF IInv

LEMMA StartVerifierStep ==
  ASSUME IInv, StartVerifier
  PROVE  IInv'
<1>1. /\ stage = "StartVerifier" /\ stage' = "ReadTraceCommitment"
      /\ v_transcript' = InitialHashChainSeed(statement)
      /\ UNCHANGED <<setup, params, statement, transcript, original, polynomial, composition,
                     boundary, oods_polynomial, v_polynomial, v_boundary, v_oods_polynomial>>
  BY DEF StartVerifier, At, proverVars
<1>2. stage \in Proved /\ stage' \in Proved \cup {"failed", "rejected", "accepted"}
  BY <1>1 DEF Proved, VerifierStages
<1>3. SetupRight' /\ TranscriptRight' /\ PolynomialsRight'
  BY <1>1, <1>2, ProverDone
<1>4. NotStarted
  BY <1>1 DEF IInv, VerifierRight, Loaded, Composed, Sampled, Proved, VerifierStages
<1>5. v_transcript' = Seed /\ Seed' = Seed
  BY <1>1, SameStages DEF Seed
<1>6. VerifierRight'
  BY <1>1, <1>5 DEF VerifierRight, VerifierStages, At
<1>7. InStep'
  <2>1. IsPrefix(Seed, transcript)
    BY <1>2, WhatIsProved, WhatIsRead
  <2>2. IsPrefix(v_transcript', transcript')
    BY <1>1, <1>5, <2>1
  <2> QED  BY <1>1, <1>4, <2>2 DEF InStep, NotStarted, At
<1> QED  BY <1>3, <1>6, <1>7 DEF IInv

LEMMA ReadTraceCommitmentStep ==
  ASSUME IInv, ReadTraceCommitment
  PROVE  IInv'
<1>1. /\ stage = "ReadTraceCommitment" /\ stage' = "VerifierCompositionPolynomial"
      /\ v_transcript' = Received(v_transcript, 1) /\ v_transcript = Seed
      /\ UNCHANGED <<setup, params, statement, transcript, original, polynomial, composition,
                     boundary, oods_polynomial, v_polynomial, v_boundary, v_oods_polynomial>>
  BY DEF ReadTraceCommitment, At, proverVars, IInv, VerifierRight
<1>2. stage \in Proved /\ stage' \in Proved \cup {"failed", "rejected", "accepted"}
  BY <1>1 DEF Proved, VerifierStages
<1>3. SetupRight' /\ TranscriptRight' /\ PolynomialsRight'
  BY <1>1, <1>2, ProverDone
<1>4. v_transcript' = AfterTrace /\ AfterTrace' = AfterTrace /\ IsPrefix(AfterTrace, transcript)
  BY <1>1, <1>2, WhatIsProved, WhatIsRead, SameStages
<1>5. VerifierRight'
  BY <1>1, <1>4 DEF VerifierRight, VerifierStages, At
<1>6. InStep'
  <2>1. IsPrefix(v_transcript', transcript')
    BY <1>1, <1>4
  <2> QED  BY <1>1, <2>1 DEF IInv, InStep, At
<1> QED  BY <1>3, <1>5, <1>6 DEF IInv

LEMMA VerifierCompositionPolynomialStep ==
  ASSUME IInv, VerifierCompositionPolynomial
  PROVE  IInv'
<1>1. /\ stage = "VerifierCompositionPolynomial"
      /\ stage' \in {"ReadCompositionCommitment", "failed"}
      /\ v_transcript' = Drawn(v_transcript, 2 * kNumConstraints) /\ v_transcript = AfterTrace
      /\ v_polynomial' = AirPolynomial(v_transcript')
      /\ UNCHANGED <<setup, params, statement, transcript, original, polynomial, composition,
                     boundary, oods_polynomial, v_boundary, v_oods_polynomial>>
  BY DEF VerifierCompositionPolynomial, At, proverVars, IInv, VerifierRight
<1>2. stage \in Proved /\ stage' \in Proved \cup {"failed", "rejected", "accepted"}
  BY <1>1 DEF Proved, VerifierStages
<1>3. SetupRight' /\ TranscriptRight' /\ PolynomialsRight'
  BY <1>1, <1>2, ProverDone
<1>4. /\ v_transcript' = AfterCoefficients /\ AfterCoefficients' = AfterCoefficients
      /\ IsPrefix(AfterCoefficients, transcript)
  BY <1>1, <1>2, WhatIsProved, WhatIsRead, SameStages DEF AfterCoefficients
<1>5. v_polynomial' = polynomial'
  BY <1>1, <1>2, <1>4, WhatIsProved
<1>6. VerifierRight'
  BY <1>1, <1>4 DEF VerifierRight, VerifierStages, Loaded, Composed, Sampled, Proved, At
<1>7. InStep'
  <2>1. IsPrefix(v_transcript', transcript')
    BY <1>1, <1>4
  <2> QED  BY <1>1, <1>5, <2>1 DEF IInv, InStep, At
<1> QED  BY <1>3, <1>6, <1>7 DEF IInv

LEMMA ReadCompositionCommitmentStep ==
  ASSUME IInv, ReadCompositionCommitment
  PROVE  IInv'
<1>1. /\ stage = "ReadCompositionCommitment" /\ stage' = "VerifyOods"
      /\ v_transcript' = Received(v_transcript, 1) /\ v_transcript = AfterCoefficients
      /\ UNCHANGED <<setup, params, statement, transcript, original, polynomial, composition,
                     boundary, oods_polynomial, v_polynomial, v_boundary, v_oods_polynomial>>
  BY DEF ReadCompositionCommitment, At, proverVars, IInv, VerifierRight
<1>2. stage \in Proved /\ stage' \in Proved \cup {"failed", "rejected", "accepted"}
  BY <1>1 DEF Proved, VerifierStages
<1>3. SetupRight' /\ TranscriptRight' /\ PolynomialsRight'
  BY <1>1, <1>2, ProverDone
<1>4. /\ v_transcript' = AfterComposition /\ AfterComposition' = AfterComposition
      /\ IsPrefix(AfterComposition, transcript)
  BY <1>1, <1>2, WhatIsProved, WhatIsRead, SameLater
<1>5. VerifierRight'
  BY <1>1, <1>4 DEF VerifierRight, VerifierStages, At
<1>6. InStep'
  <2>1. IsPrefix(v_transcript', transcript')
    BY <1>1, <1>4
  <2> QED  BY <1>1, <2>1 DEF IInv, InStep, At
<1> QED  BY <1>3, <1>5, <1>6 DEF IInv

LEMMA VerifyOodsStep ==
  ASSUME IInv, VerifyOods
  PROVE  IInv'
<1> DEFINE n == Len(RescueMask)
           point == LastValues(AfterPoint, 1)[1]
           received == Received(AfterPoint, n + NumBreaks)
           values == LastValues(received, n + NumBreaks)
<1>1. /\ stage = "VerifyOods" /\ stage' \in {"VerifierOodsPolynomial", "rejected"}
      /\ v_transcript = AfterComposition
      /\ UNCHANGED <<setup, params, statement, transcript, original, polynomial, composition,
                     boundary, oods_polynomial, v_polynomial, v_oods_polynomial>>
  BY DEF VerifyOods, At, proverVars, IInv, VerifierRight
<1>2. stage \in Proved /\ stage' \in Proved \cup {"failed", "rejected", "accepted"}
  BY <1>1 DEF Proved, VerifierStages
<1>3. SetupRight' /\ TranscriptRight' /\ PolynomialsRight'
  BY <1>1, <1>2, ProverDone
<1>4. /\ v_transcript' = received
      /\ v_boundary' = GroupedByPoint(
           VerifierConditions(RescueMask, kStateSize, TraceGenerator, point,
                              SubSeq(values, 1, n), SubSeq(values, n + 1, n + NumBreaks)))
  BY <1>1 DEF VerifyOods, AfterPoint
<1>5. /\ received = AfterValues /\ IsPrefix(AfterValues, transcript)
      /\ n \in Nat /\ NumBreaks \in Nat /\ NumValues = n + NumBreaks
      /\ Len(AfterValues) \in Nat /\ boundary = GroupedByPoint(ConditionsOf(AfterValues))
  BY <1>2, WhatIsProved, WhatIsRead, StagesOfTranscript DEF NumValues, Begins, IsSeq
<1> HIDE DEF received, n
<1>6. SubSeq(values, n + 1, n + NumBreaks) = LastValues(AfterValues, NumBreaks)
  BY <1>5, LastOfLast
<1>7. v_boundary' = boundary
  <2>1. SubSeq(values, 1, n) = SubSeq(LastValues(AfterValues, NumValues), 1, n)
    BY <1>5
  <2>2. ConditionsOf(AfterValues) =
          ProverConditions(RescueMask, kStateSize, TraceGenerator, point,
                           SubSeq(values, 1, n), SubSeq(values, n + 1, n + NumBreaks))
    BY <1>6, <2>1 DEF ConditionsOf, n
  <2> HIDE DEF values, point
  <2>3. ProverConditions(RescueMask, kStateSize, TraceGenerator, point,
                         SubSeq(values, 1, n), SubSeq(values, n + 1, n + NumBreaks)) =
          VerifierConditions(RescueMask, kStateSize, TraceGenerator, point,
                             SubSeq(values, 1, n), SubSeq(values, n + 1, n + NumBreaks))
    BY ConditionsAgree
  <2> QED  BY <1>4, <1>5, <2>2, <2>3
<1>8. AfterValues' = AfterValues
  BY <1>1, SameStages, SameLater DEF AfterValues
<1>9. VerifierRight'
  BY <1>1, <1>4, <1>5, <1>7, <1>8
  DEF VerifierRight, VerifierStages, Loaded, Composed, Sampled, Proved, At
<1>10. InStep'
  <2>1. IsPrefix(v_transcript', transcript')
    BY <1>1, <1>4, <1>5
  <2> QED  BY <1>1, <1>7, <2>1 DEF IInv, InStep, At
<1> QED  BY <1>3, <1>9, <1>10 DEF IInv

LEMMA VerifierOodsPolynomialStep ==
  ASSUME IInv, VerifierOodsPolynomial
  PROVE  IInv'
<1>1. /\ stage = "VerifierOodsPolynomial" /\ stage' \in {"VerifierLowDegreeTest", "failed"}
      /\ v_transcript' = Drawn(v_transcript, Len(v_boundary))
      /\ v_oods_polynomial' = OodsPolynomial(v_transcript', v_boundary)
      /\ v_transcript = AfterValues /\ v_boundary = boundary
      /\ UNCHANGED <<setup, params, statement, transcript, original, polynomial, composition,
                     boundary, oods_polynomial, v_polynomial, v_boundary>>
  BY DEF VerifierOodsPolynomial, At, proverVars, IInv, VerifierRight
<1>2. stage \in Proved /\ stage' \in Proved \cup {"failed", "rejected", "accepted"}
  BY <1>1 DEF Proved, VerifierStages
<1>3. SetupRight' /\ TranscriptRight' /\ PolynomialsRight'
  BY <1>1, <1>2, ProverDone
<1>4. /\ v_transcript' = transcript /\ IsPrefix(transcript, transcript)
      /\ v_oods_polynomial' = oods_polynomial
  BY <1>1, <1>2, WhatIsProved, WhatIsRead
<1>5. VerifierRight'
  BY <1>1, <1>4 DEF VerifierRight, VerifierStages, Loaded, Composed, Sampled, Proved, At
<1>6. InStep'
  <2>1. IsPrefix(v_transcript', transcript')
    BY <1>1, <1>4
  <2> QED  BY <1>1, <1>4, <2>1 DEF IInv, InStep, At
<1> QED  BY <1>3, <1>5, <1>6 DEF IInv

LEMMA VerifierLowDegreeTestStep ==
  ASSUME IInv, VerifierLowDegreeTest
  PROVE  IInv'
<1>1. /\ stage = "VerifierLowDegreeTest" /\ stage' \in {"failed", "rejected", "accepted"}
      /\ v_transcript = transcript
      /\ UNCHANGED <<setup, params, statement, transcript, original, polynomial, composition,
                     boundary, oods_polynomial, v_transcript, v_polynomial, v_boundary,
                     v_oods_polynomial>>
  BY DEF VerifierLowDegreeTest, At, proverVars, verifierVars, IInv, VerifierRight
<1>2. stage \in Proved /\ stage' \in Proved \cup {"failed", "rejected", "accepted"}
  BY <1>1 DEF Proved, VerifierStages
<1>3. SetupRight' /\ TranscriptRight' /\ PolynomialsRight'
  BY <1>1, <1>2, ProverDone
<1>4. VerifierRight'
  BY <1>1 DEF VerifierRight, VerifierStages, Loaded, Composed, Sampled, Proved, At
<1>5. InStep'
  BY <1>1 DEF IInv, InStep, At
<1> QED  BY <1>3, <1>4, <1>5 DEF IInv

LEMMA StutteringStep ==
  ASSUME IInv, UNCHANGED vars
  PROVE  IInv'
<1>1. UNCHANGED <<setup, params, statement, transcript, original, polynomial, composition,
                  boundary, oods_polynomial, stage, v_transcript, v_polynomial, v_boundary,
                  v_oods_polynomial>>
  BY DEF vars, proverVars, verifierVars
<1>2. /\ Seed' = Seed /\ AfterTrace' = AfterTrace /\ AfterCoefficients' = AfterCoefficients
      /\ AfterComposition' = AfterComposition /\ AfterPoint' = AfterPoint
      /\ NumValues' = NumValues /\ NumBreaks' = NumBreaks
      /\ AirPolynomial(AfterCoefficients)' = AirPolynomial(AfterCoefficients)
  BY <1>1, SameStages, SameLater
<1>3. AfterValues' = AfterValues
  BY <1>1, <1>2 DEF AfterValues
<1>4. GroupedByPoint(ConditionsOf(AfterValues))' = GroupedByPoint(ConditionsOf(AfterValues))
  BY <1>1, <1>3, SameValues
<1>5. OodsPolynomial(transcript, boundary)' = OodsPolynomial(transcript, boundary)
  BY <1>1 DEF OodsPolynomial
<1>6. SetupRight'
  BY <1>1 DEF IInv, SetupRight
<1>7. TranscriptRight'
  BY <1>1, <1>2, <1>3 DEF IInv, TranscriptRight, At
<1>8. PolynomialsRight'
  BY <1>1, <1>2, <1>4, <1>5 DEF IInv, PolynomialsRight, At
<1>9. VerifierRight'
  BY <1>1, <1>2, <1>3 DEF IInv, VerifierRight, NotStarted, At
<1>10. InStep'
  BY <1>1 DEF IInv, InStep, At
<1> QED  BY <1>6, <1>7, <1>8, <1>9, <1>10 DEF IInv

-----------------------------------------------------------------------------
(* The two sides are in step. *)

LEMMA InitInvariant == Init => IInv
<1> SUFFICES ASSUME Init  PROVE IInv
  OBVIOUS
<1>1. /\ setup \in Setups /\ stage = "LoadParameters" /\ transcript = <<>> /\ v_transcript = <<>>
      /\ v_polynomial = Nothing /\ v_boundary = Nothing /\ v_oods_polynomial = Nothing
  BY DEF Init
<1>2. SetupRight /\ TranscriptRight /\ PolynomialsRight
  BY <1>1 DEF SetupRight, TranscriptRight, PolynomialsRight, Loaded, Composed, Sampled, Proved,
              VerifierStages, At
<1>3. VerifierRight
  BY <1>1 DEF VerifierRight, NotStarted, VerifierStages, At
<1>4. IsPrefix(<<>>, <<>>)
  <2>1. IsSeq(<<>>)
    BY DEF IsSeq
  <2> QED  BY <2>1, EmptyBegins
<1>5. InStep
  BY <1>1, <1>4 DEF InStep, At
<1> QED  BY <1>2, <1>3, <1>5 DEF IInv

LEMMA StepInvariant == IInv /\ [Next]_vars => IInv'
<1> SUFFICES ASSUME IInv, [Next]_vars  PROVE IInv'
  OBVIOUS
<1>1. CASE LoadParameters
  BY <1>1, LoadParametersStep
<1>2. CASE GetTrace
  BY <1>2, GetTraceStep
<1>3. CASE CommitOnTrace
  BY <1>3, CommitOnTraceStep
<1>4. CASE CreateCompositionPolynomial
  BY <1>4, CreateCompositionPolynomialStep
<1>5. CASE CommitOnComposition
  BY <1>5, CommitOnCompositionStep
<1>6. CASE ProveOods
  BY <1>6, ProveOodsStep
<1>7. CASE CreateOodsPolynomial
  BY <1>7, CreateOodsPolynomialStep
<1>8. CASE PerformLowDegreeTest
  BY <1>8, PerformLowDegreeTestStep
<1>9. CASE StartVerifier
  BY <1>9, StartVerifierStep
<1>10. CASE ReadTraceCommitment
  BY <1>10, ReadTraceCommitmentStep
<1>11. CASE VerifierCompositionPolynomial
  BY <1>11, VerifierCompositionPolynomialStep
<1>12. CASE ReadCompositionCommitment
  BY <1>12, ReadCompositionCommitmentStep
<1>13. CASE VerifyOods
  BY <1>13, VerifyOodsStep
<1>14. CASE VerifierOodsPolynomial
  BY <1>14, VerifierOodsPolynomialStep
<1>15. CASE VerifierLowDegreeTest
  BY <1>15, VerifierLowDegreeTestStep
<1>16. CASE Terminated \/ UNCHANGED vars
  BY <1>16, StutteringStep DEF Terminated
<1> QED
  BY <1>1, <1>2, <1>3, <1>4, <1>5, <1>6, <1>7, <1>8, <1>9, <1>10, <1>11, <1>12, <1>13, <1>14,
     <1>15, <1>16 DEF Next

\* At every stage each side's transcript is what the code has sent, received and drawn by
\* then, and both have made the same conditions and polynomials of it (stark.cc 193-245 and
\* 332-365, oods.cc 30-156).
THEOREM StarkInvariant == Spec => []IInv
<1>1. Init => IInv
  BY InitInvariant
<1>2. IInv /\ [Next]_vars => IInv'
  BY StepInvariant
<1> QED  BY <1>1, <1>2, PTL DEF Spec

\* The verifier's transcript is a prefix of the prover's and its polynomials are the
\* prover's, whatever was deviated from; when it accepts it has read the transcript whole
\* (stark.cc 193-245 and 332-365, oods.cc 30-91 and 93-156).
THEOREM VerifierInStep == Spec => []InStep
<1>1. IInv => InStep
  BY DEF IInv
<1> QED  BY <1>1, StarkInvariant, PTL

-----------------------------------------------------------------------------
(* Sizes of vectors, of their transforms and of evaluations. *)

LEMMA BitReversedLength ==
  ASSUME NEW v, NEW n \in Nat, Len(v) = n
  PROVE  IsVector(BitReversed(v), n)
<1> DEFINE f == [i \in 1 .. n |-> v[BitReverse(i - 1, SafeLog2(n)) + 1]]
<1>1. f = [i \in 1 .. n |-> f[i]]
  OBVIOUS
<1>2. BitReversed(v) = <<>> \o f
  BY DEF BitReversed, Vector
<1> HIDE DEF f
<1>3. IsVector(<<>> \o f, n)
  BY <1>1, VectorFacts
<1> QED  BY <1>2, <1>3

LEMMA EmbeddedLength ==
  ASSUME NEW v, NEW n \in Nat, Len(v) = n
  PROVE  IsVector(EmbeddedVector(v), n)
<1> DEFINE f == [i \in 1 .. n |-> Embed(v[i - 1 + 1])]
<1>1. f = [i \in 1 .. n |-> f[i]]
  OBVIOUS
<1>2. EmbeddedVector(v) = <<>> \o f
  BY DEF EmbeddedVector, Vector
<1> HIDE DEF f
<1>3. IsVector(<<>> \o f, n)
  BY <1>1, VectorFacts
<1> QED  BY <1>2, <1>3

LEMMA ScaledLength ==
  ASSUME NEW x, NEW v, NEW n \in Nat, Len(v) = n
  PROVE  IsVector(ScaledBy(x, v), n)
<1> DEFINE f == [i \in 1 .. n |-> Scale(x, v[i - 1 + 1])]
<1>1. f = [i \in 1 .. n |-> f[i]]
  OBVIOUS
<1>2. ScaledBy(x, v) = <<>> \o f
  BY DEF ScaledBy, Vector
<1> HIDE DEF f
<1>3. IsVector(<<>> \o f, n)
  BY <1>1, VectorFacts
<1> QED  BY <1>2, <1>3

\* Each layer of a transform keeps the length, and so do all of them.
LEMMA ReverseLength ==
  ASSUME NEW src, NEW n \in Nat, IsVector(src, n), NEW m \in Nat, NEW o, NEW g
  PROVE  IsVector(IfftReverseToNatural(src, o, g, m), n)
<1> DEFINE layer(v, i) ==
             IfftLayer(v, Pow2[i], LAMBDA block, j :
               MontgomeryMul(BasePow(o, Pow2[i]),
                 BasePow(g, Pow2[i] * BitReverse(block \div (2 * Pow2[i]),
                                                 BlockBits(SafeLog2(Len(src)), m, i)))))
           P(f) == f = [k \in 0 .. m |-> IF k = 0 THEN src ELSE layer(f[k - 1], k - 1)]
           UpTo(f, k) == \A h \in 0 .. m : h <= k =>
                           f[h] = IF h = 0 THEN src ELSE layer(f[h - 1], h - 1)
           after == CHOOSE f : P(f)
<1>1. ASSUME NEW v, IsVector(v, n), NEW i  PROVE IsVector(layer(v, i), n)
  <2> DEFINE d == Pow2[i]
             x(block, j) ==
               MontgomeryMul(BasePow(o, d),
                 BasePow(g, d * BitReverse(block \div (2 * d),
                                           BlockBits(SafeLog2(Len(src)), m, i))))
             f == [k \in 1 .. n |->
                     IF (k - 1) % (2 * d) < d THEN Add(v[k - 1 + 1], v[k - 1 + d + 1])
                     ELSE Scale(x(BlockStart(k - 1, d), (k - 1) % d),
                                Sub(v[k - 1 - d + 1], v[k - 1 + 1]))]
  <2>1. Len(v) = n
    BY <1>1 DEF IsVector
  <2>2. layer(v, i) = <<>> \o f
    BY <2>1 DEF IfftLayer, Vector
  <2>3. f = [k \in 1 .. n |-> f[k]]
    OBVIOUS
  <2> HIDE DEF f, layer
  <2>4. IsVector(<<>> \o f, n)
    BY <2>3, VectorFacts
  <2> QED  BY <2>2, <2>4
<1>2. IfftReverseToNatural(src, o, g, m) = after[m]
  BY DEF IfftReverseToNatural, Layers
<1> HIDE DEF layer, after
<1>3. ASSUME NEW k \in Nat, NEW f, UpTo(f, k)  PROVE \E h : UpTo(h, k + 1)
  <2> DEFINE t == [i \in 0 .. m |-> IF i = k + 1 THEN layer(f[i - 1], i - 1) ELSE f[i]]
  <2>1. ASSUME NEW i \in 0 .. m, i <= k + 1
        PROVE  t[i] = IF i = 0 THEN src ELSE layer(t[i - 1], i - 1)
    <3>1. i # 0 => i - 1 \in 0 .. m /\ i - 1 # k + 1
      BY <2>1
    <3>2. i # 0 => t[i - 1] = f[i - 1]
      BY <3>1
    <3>3. i # k + 1 => i <= k /\ t[i] = f[i]
      BY <2>1
    <3>4. i = k + 1 => i # 0 /\ t[i] = layer(f[i - 1], i - 1)
      OBVIOUS
    <3> HIDE DEF t
    <3> QED  BY <1>3, <3>2, <3>3, <3>4
  <2> QED  BY <2>1
<1>4. \E f : UpTo(f, m)
  <2> DEFINE S == {k \in Nat : ~\E f : UpTo(f, k)}
  <2>1. SUFFICES ASSUME S # {}  PROVE FALSE
    OBVIOUS
  <2>2. PICK least \in S : \A k \in S : least <= k
    BY <2>1, LeastOf
  <2>3. least # 0
    <3> DEFINE f == [i \in 0 .. m |-> src]
    <3>1. UpTo(f, 0)
      OBVIOUS
    <3> QED  BY <2>2, <3>1
  <2> HIDE DEF UpTo
  <2>4. least - 1 \in Nat /\ least - 1 \notin S /\ (least - 1) + 1 = least
    BY <2>2, <2>3
  <2>5. PICK f : UpTo(f, least - 1)
    BY <2>4
  <2>6. \E h : UpTo(h, (least - 1) + 1)
    BY <1>3, <2>4, <2>5
  <2> QED  BY <2>2, <2>4, <2>6
<1>5. P(after)
  <2>1. PICK f : UpTo(f, m)
    BY <1>4
  <2> DEFINE t == [i \in 0 .. m |-> f[i]]
  <2>2. \A i \in 0 .. m : t[i] = IF i = 0 THEN src ELSE layer(t[i - 1], i - 1)
    <3>1. \A i \in 0 .. m : i <= m /\ (i # 0 => i - 1 \in 0 .. m) /\ t[i] = f[i]
      OBVIOUS
    <3> HIDE DEF t
    <3> QED  BY <2>1, <3>1
  <2>3. t = [i \in 0 .. m |-> t[i]]
    OBVIOUS
  <2> HIDE DEF t
  <2>4. P(t)
    BY <2>2, <2>3
  <2> HIDE DEF P
  <2> QED  BY <2>4 DEF after
<1>6. \A k \in 0 .. m : after[k] = IF k = 0 THEN src ELSE layer(after[k - 1], k - 1)
  <2>1. \A f : P(f) => \A k \in 0 .. m : f[k] = IF k = 0 THEN src ELSE layer(f[k - 1], k - 1)
    OBVIOUS
  <2> HIDE DEF P
  <2> QED  BY <1>5, <2>1
<1> DEFINE S == {k \in 0 .. m : ~IsVector(after[k], n)}
<1>7. S = {}
  <2>1. SUFFICES ASSUME S # {}  PROVE FALSE
    OBVIOUS
  <2>2. S \in SUBSET Nat
    OBVIOUS
  <2>3. PICK least \in S : \A k \in S : least <= k
    <3> HIDE DEF S
    <3> QED  BY <2>1, <2>2, LeastOf
  <2>4. least \in 0 .. m /\ ~IsVector(after[least], n)
    OBVIOUS
  <2>5. least # 0
    BY <1>6, <2>4
  <2>6. least - 1 \in 0 .. m /\ least - 1 \notin S
    BY <2>3, <2>4, <2>5
  <2>7. IsVector(after[least - 1], n)
    BY <2>6
  <2>8. IsVector(layer(after[least - 1], least - 1), n)
    BY <1>1, <2>7
  <2> QED  BY <1>6, <2>4, <2>5, <2>8
<1> QED  BY <1>2, <1>7

LEMMA NaturalLength ==
  ASSUME NEW src, NEW n \in Nat, IsVector(src, n),
         NEW m \in Nat, SafeLog2(Len(src)) = m, NEW o, NEW g
  PROVE  IsVector(IfftNaturalToReverse(src, o, g), n)
<1> DEFINE layer(v, i) ==
             IfftLayer(v, Len(src) \div (2 * Pow2[i]), LAMBDA block, j :
               MontgomeryMul(BasePow(o, Pow2[i]), BasePow(g, Pow2[i] * j)))
           P(f) == f = [k \in 0 .. m |-> IF k = 0 THEN src ELSE layer(f[k - 1], k - 1)]
           UpTo(f, k) == \A h \in 0 .. m : h <= k =>
                           f[h] = IF h = 0 THEN src ELSE layer(f[h - 1], h - 1)
           after == CHOOSE f : P(f)
<1>1. ASSUME NEW v, IsVector(v, n), NEW i  PROVE IsVector(layer(v, i), n)
  <2> DEFINE d == Len(src) \div (2 * Pow2[i])
             x(block, j) == MontgomeryMul(BasePow(o, Pow2[i]), BasePow(g, Pow2[i] * j))
             f == [k \in 1 .. n |->
                     IF (k - 1) % (2 * d) < d THEN Add(v[k - 1 + 1], v[k - 1 + d + 1])
                     ELSE Scale(x(BlockStart(k - 1, d), (k - 1) % d),
                                Sub(v[k - 1 - d + 1], v[k - 1 + 1]))]
  <2>1. Len(v) = n
    BY <1>1 DEF IsVector
  <2>2. layer(v, i) = <<>> \o f
    BY <2>1 DEF IfftLayer, Vector
  <2>3. f = [k \in 1 .. n |-> f[k]]
    OBVIOUS
  <2> HIDE DEF f, layer
  <2>4. IsVector(<<>> \o f, n)
    BY <2>3, VectorFacts
  <2> QED  BY <2>2, <2>4
<1>2. IfftNaturalToReverse(src, o, g) = after[m]
  BY DEF IfftNaturalToReverse, Layers
<1> HIDE DEF layer, after
<1>3. ASSUME NEW k \in Nat, NEW f, UpTo(f, k)  PROVE \E h : UpTo(h, k + 1)
  <2> DEFINE t == [i \in 0 .. m |-> IF i = k + 1 THEN layer(f[i - 1], i - 1) ELSE f[i]]
  <2>1. ASSUME NEW i \in 0 .. m, i <= k + 1
        PROVE  t[i] = IF i = 0 THEN src ELSE layer(t[i - 1], i - 1)
    <3>1. i # 0 => i - 1 \in 0 .. m /\ i - 1 # k + 1
      BY <2>1
    <3>2. i # 0 => t[i - 1] = f[i - 1]
      BY <3>1
    <3>3. i # k + 1 => i <= k /\ t[i] = f[i]
      BY <2>1
    <3>4. i = k + 1 => i # 0 /\ t[i] = layer(f[i - 1], i - 1)
      OBVIOUS
    <3> HIDE DEF t
    <3> QED  BY <1>3, <3>2, <3>3, <3>4
  <2> QED  BY <2>1
<1>4. \E f : UpTo(f, m)
  <2> DEFINE S == {k \in Nat : ~\E f : UpTo(f, k)}
  <2>1. SUFFICES ASSUME S # {}  PROVE FALSE
    OBVIOUS
  <2>2. PICK least \in S : \A k \in S : least <= k
    BY <2>1, LeastOf
  <2>3. least # 0
    <3> DEFINE f == [i \in 0 .. m |-> src]
    <3>1. UpTo(f, 0)
      OBVIOUS
    <3> QED  BY <2>2, <3>1
  <2> HIDE DEF UpTo
  <2>4. least - 1 \in Nat /\ least - 1 \notin S /\ (least - 1) + 1 = least
    BY <2>2, <2>3
  <2>5. PICK f : UpTo(f, least - 1)
    BY <2>4
  <2>6. \E h : UpTo(h, (least - 1) + 1)
    BY <1>3, <2>4, <2>5
  <2> QED  BY <2>2, <2>4, <2>6
<1>5. P(after)
  <2>1. PICK f : UpTo(f, m)
    BY <1>4
  <2> DEFINE t == [i \in 0 .. m |-> f[i]]
  <2>2. \A i \in 0 .. m : t[i] = IF i = 0 THEN src ELSE layer(t[i - 1], i - 1)
    <3>1. \A i \in 0 .. m : i <= m /\ (i # 0 => i - 1 \in 0 .. m) /\ t[i] = f[i]
      OBVIOUS
    <3> HIDE DEF t
    <3> QED  BY <2>1, <3>1
  <2>3. t = [i \in 0 .. m |-> t[i]]
    OBVIOUS
  <2> HIDE DEF t
  <2>4. P(t)
    BY <2>2, <2>3
  <2> HIDE DEF P
  <2> QED  BY <2>4 DEF after
<1>6. \A k \in 0 .. m : after[k] = IF k = 0 THEN src ELSE layer(after[k - 1], k - 1)
  <2>1. \A f : P(f) => \A k \in 0 .. m : f[k] = IF k = 0 THEN src ELSE layer(f[k - 1], k - 1)
    OBVIOUS
  <2> HIDE DEF P
  <2> QED  BY <1>5, <2>1
<1> DEFINE S == {k \in 0 .. m : ~IsVector(after[k], n)}
<1>7. S = {}
  <2>1. SUFFICES ASSUME S # {}  PROVE FALSE
    OBVIOUS
  <2>2. S \in SUBSET Nat
    OBVIOUS
  <2>3. PICK least \in S : \A k \in S : least <= k
    <3> HIDE DEF S
    <3> QED  BY <2>1, <2>2, LeastOf
  <2>4. least \in 0 .. m /\ ~IsVector(after[least], n)
    OBVIOUS
  <2>5. least # 0
    BY <1>6, <2>4
  <2>6. least - 1 \in 0 .. m /\ least - 1 \notin S
    BY <2>3, <2>4, <2>5
  <2>7. IsVector(after[least - 1], n)
    BY <2>6
  <2>8. IsVector(layer(after[least - 1], least - 1), n)
    BY <1>1, <2>7
  <2> QED  BY <1>6, <2>4, <2>5, <2>8
<1> QED  BY <1>2, <1>7

LEMMA LogFacts ==
  ASSUME NEW k \in Exponents
  PROVE  SafeLog2(Pow2[k]) \in Exponents /\ Pow2[SafeLog2(Pow2[k])] = Pow2[k]
<1> DEFINE n == Pow2[k]
           h == CHOOSE x \in Exponents : Pow2[x] = n
<1>1. \E x \in Exponents : Pow2[x] = n
  OBVIOUS
<1> HIDE DEF n
<1>2. h \in Exponents /\ Pow2[h] = n
  BY <1>1
<1>3. h = SafeLog2(n)
  BY DEF SafeLog2
<1> QED  BY <1>2, <1>3 DEF n

\* The interpolation of a power of two of values has as many coefficients.
LEMMA InterpolationLength ==
  ASSUME NEW k \in Exponents, NEW v, IsVector(v, Pow2[k]), NEW coset, NEW natural
  PROVE  IsVector(AddEvaluation(v, coset, natural), Pow2[k])
<1> DEFINE n == Pow2[k]
           o == BaseInverse(coset.offset)
           g == BaseInverse(coset.generator)
           u == Ifft(v, coset, natural)
<1>1. n \in Nat /\ SafeLog2(n) \in Nat /\ IsVector(v, n) /\ Len(v) = n
  BY Pow2Facts, LogFacts, WordHasBits DEF Exponents, IsVector
<1> HIDE DEF n
<1>2. IsVector(IfftNaturalToReverse(v, o, g), n)
  BY <1>1, NaturalLength
<1>3. IsVector(IfftReverseToNatural(v, o, g, SafeLog2(n)), n)
  BY <1>1, ReverseLength
<1>4. u = v \/ u = IfftNaturalToReverse(v, o, g) \/ u = IfftReverseToNatural(v, o, g, SafeLog2(n))
  BY <1>1 DEF Ifft
<1>5. Len(u) = n
  BY <1>1, <1>2, <1>3, <1>4 DEF IsVector
<1> HIDE DEF u
<1>6. IsVector(ScaledBy(BaseInverse(FromUint(Len(v))), u), n)
  BY <1>1, <1>5, ScaledLength
<1> QED  BY <1>6 DEF AddEvaluation, u, n

LEMMA ValuesLength ==
  ASSUME NEW polynomial_1, NEW n \in Nat, polynomial_1.coset_size = n, NEW offset, NEW neighbors,
         NEW task_size
  PROVE  IsVector(EvalOnCosetBitReversedOutput(polynomial_1, offset, neighbors, task_size), n)
<1> DEFINE powers == PowersOnCoset(polynomial_1, offset, task_size,
                       PointPowers(polynomial_1, Embed(polynomial_1.trace_generator)))
           periodic == Vector(Len(polynomial_1.periodic_columns), LAMBDA i :
                         PeriodicOnCoset(polynomial_1.periodic_columns[i + 1], offset))
           u == EvalOnCosetNaturalOrder(polynomial_1, offset, neighbors, task_size)
<1>1. u = ValuesOnCoset(polynomial_1, neighbors, powers, periodic)
  BY DEF EvalOnCosetNaturalOrder
<1> HIDE DEF powers, periodic, u
<1>2. IsVector(u, n)
  <2> DEFINE periodic_vals(idx) == Vector(Len(periodic), LAMBDA i :
               periodic[i + 1][(idx % Len(periodic[i + 1])) + 1])
             f == [i \in 1 .. n |->
                     ConstraintsEval(polynomial_1,
                       NeighborsOf(neighbors.mask, neighbors.columns, i - 1),
                       NeighborsOf(neighbors.composition_mask, neighbors.composition_columns,
                                   i - 1),
                       periodic_vals(i - 1), powers[i - 1 + 1])]
  <2>1. u = <<>> \o f
    BY <1>1 DEF ValuesOnCoset, Vector
  <2>2. f = [i \in 1 .. n |-> f[i]]
    OBVIOUS
  <2> HIDE DEF f
  <2>3. IsVector(<<>> \o f, n)
    BY <2>2, VectorFacts
  <2> QED  BY <2>1, <2>3
<1>3. IsVector(BitReversed(u), n)
  BY <1>2, BitReversedLength DEF IsVector
<1> QED  BY <1>3 DEF EvalOnCosetBitReversedOutput, u

\* An evaluation on m cosets.
LEMMA EvaluationLength ==
  ASSUME NEW polynomial_1, NEW n \in Nat, polynomial_1.coset_size = n, NEW m \in Nat \ {0},
         NEW mask, NEW trace_1, NEW trace_2, NEW n_cosets, NEW task_size
  PROVE  IsVector(EvalComposition(polynomial_1, mask, trace_1, trace_2, m, n_cosets, task_size),
                  m * n)
<1> DEFINE part(i) ==
             EvalOnTableCoset(polynomial_1, mask, trace_1, trace_2,
               TableCosetOffset(polynomial_1.coset_size, n_cosets, i), task_size)
           f == [k \in 1 .. m |-> part(k - 1)]
           s == <<>> \o f
           L == [k \in 0 .. m |-> k * n]
           u == EvalComposition(polynomial_1, mask, trace_1, trace_2, m, n_cosets, task_size)
<1>1. u = FlattenSeq(s)
  BY DEF EvalComposition, Vector
<1> HIDE DEF u
<1>2. \A i : IsVector(part(i), n)
  BY ValuesLength DEF EvalOnTableCoset
<1> HIDE DEF part
<1>3. f = [k \in 1 .. m |-> f[k]] /\ \A k \in 1 .. m : IsVector(f[k], n)
  BY <1>2
<1> HIDE DEF f
<1>4. IsVector(s, m) /\ \A k \in 1 .. m : s[k] = f[k]
  BY <1>3, VectorFacts
<1> HIDE DEF s
<1>5. PartEnds(L, s, m)
  <2>1. L[0] = 0
    OBVIOUS
  <2>2. \A k \in 0 .. m : L[k] \in Nat
    OBVIOUS
  <2>3. ASSUME NEW k \in 1 .. m  PROVE IsVector(s[k], L[k] - L[k - 1])
    <3>1. k \in 0 .. m /\ k - 1 \in 0 .. m
      OBVIOUS
    <3>2. L[k] = k * n /\ L[k - 1] = (k - 1) * n
      BY <3>1
    <3>3. k * n - (k - 1) * n = n
      OBVIOUS
    <3> HIDE DEF L
    <3> QED  BY <1>3, <1>4, <3>2, <3>3
  <2> HIDE DEF L
  <2> QED  BY <2>1, <2>2, <2>3 DEF PartEnds
<1>6. L[m] = m * n
  OBVIOUS
<1> HIDE DEF L
<1>7. Joined(FlattenSeq(s), L, s, m)
  BY <1>4, <1>5, FlattenFacts
<1> QED  BY <1>1, <1>6, <1>7 DEF Joined, u

\* The columns of the broken composition polynomial have a quarter of its coefficients each.
LEMMA BrokenColumnsLength ==
  ASSUME NEW k \in Exponents, NEW evaluation, IsVector(evaluation, 4 * Pow2[k]), NEW domain
  PROVE  LET columns == BreakCompositionPolynomial(evaluation, 4, domain).columns IN
         DOMAIN columns = 1 .. 4 /\ \A i \in 1 .. 4 : Len(columns[i]) = Pow2[k]
<1> DEFINE n == Pow2[k]
           dst == IfftReverseToNatural(evaluation, BaseInverse(domain.offset),
                                       BaseInverse(domain.generator), SafeLog2(4))
           factor == InverseOf(Uint(Pow2[SafeLog2(4)]))
           column(break_idx) ==
             Vector(Len(dst) \div 4, LAMBDA i : Mul(dst[i * 4 + break_idx + 1], factor))
           f == [j \in 1 .. 4 |-> column(j - 1)]
           b == Break(evaluation, domain, SafeLog2(4))
           coset == BreakDomain(domain, 4)
           c == BreakCompositionPolynomial(evaluation, 4, domain).columns
<1>1. n \in Nat /\ 4 * n \in Nat /\ SafeLog2(4) \in Nat
  BY Pow2Facts, LogOfFour, WordHasBits DEF Exponents
<1>2. Len(dst) = 4 * n
  <2> HIDE DEF dst, n
  <2>1. IsVector(evaluation, 4 * n)
    BY DEF n
  <2>2. IsVector(dst, 4 * n)
    BY <1>1, <2>1, ReverseLength DEF dst
  <2> QED  BY <2>2 DEF IsVector
<1>3. b = <<>> \o f
  <2>1. b = Deinterleaved(dst, 4, factor)
    BY LogOfFour DEF Break
  <2> HIDE DEF dst, factor, b
  <2> QED  BY <2>1 DEF Deinterleaved, Vector
<1> HIDE DEF dst, factor, b
<1>4. \A j : IsVector(column(j), n)
  <2>1. TAKE j
  <2> DEFINE w == [i \in 1 .. n |-> Mul(dst[(i - 1) * 4 + j + 1], factor)]
  <2>2. (4 * n) \div 4 = n
    BY <1>1
  <2>3. column(j) = <<>> \o w
    BY <1>2, <2>2 DEF Vector
  <2>4. w = [i \in 1 .. n |-> w[i]]
    OBVIOUS
  <2> HIDE DEF w, n, column
  <2>5. IsVector(<<>> \o w, n)
    BY <1>1, <2>4, VectorFacts
  <2> QED  BY <2>3, <2>5
<1> HIDE DEF column
<1>5. IsVector(b, 4) /\ \A j \in 1 .. 4 : b[j] = f[j] /\ f[j] = column(j - 1)
  <2>1. f = [j \in 1 .. 4 |-> f[j]] /\ 4 \in Nat /\ \A j \in 1 .. 4 : f[j] = column(j - 1)
    OBVIOUS
  <2> HIDE DEF f
  <2>2. IsVector(<<>> \o f, 4)
    BY <2>1, VectorFacts
  <2>3. \A j \in 1 .. 4 : (<<>> \o f)[j] = f[j]
    BY <2>1, VectorFacts
  <2> QED  BY <1>3, <2>1, <2>2, <2>3
<1> DEFINE g == [j \in 1 .. 4 |-> AddEvaluation(b[j - 1 + 1], coset, FALSE)]
<1>6. c = <<>> \o g
  <2>1. c = Vector(Len(b), LAMBDA i : AddEvaluation(b[i + 1], coset, FALSE))
    BY DEF BreakCompositionPolynomial, TraceOf, b
  <2>2. Len(b) = 4
    BY <1>5 DEF IsVector
  <2> HIDE DEF c, coset
  <2> QED  BY <2>1, <2>2 DEF Vector
<1> HIDE DEF c, coset
<1>7. IsVector(c, 4) /\ \A j \in 1 .. 4 : c[j] = AddEvaluation(b[j], coset, FALSE)
  <2>1. g = [j \in 1 .. 4 |-> g[j]] /\ 4 \in Nat
        /\ \A j \in 1 .. 4 : g[j] = AddEvaluation(b[j], coset, FALSE)
    OBVIOUS
  <2> HIDE DEF g
  <2>2. IsVector(<<>> \o g, 4)
    BY <2>1, VectorFacts
  <2>3. \A j \in 1 .. 4 : (<<>> \o g)[j] = g[j]
    BY <2>1, VectorFacts
  <2> QED  BY <1>6, <2>1, <2>2, <2>3
<1>8. \A j \in 1 .. 4 : IsVector(AddEvaluation(b[j], coset, FALSE), n)
  <2>1. \A j \in 1 .. 4 : IsVector(b[j], Pow2[k])
    BY <1>4, <1>5
  <2> QED  BY <2>1, InterpolationLength
<1>9. DOMAIN c = 1 .. 4
  BY <1>7, SeqOfElements DEF IsVector
<1> QED  BY <1>7, <1>8, <1>9 DEF IsVector, c

-----------------------------------------------------------------------------
(* The sizes of the trace. *)

\* A power of two, and a number of batches.
IsTraceLength(n) == IsPowerOfTwo(n) /\ \E b \in Nat \ {0} : n = b * kBatchHeight

LEMMA BatchHeight == kBatchHeight \in Nat \ {0, 1} /\ kNumRounds \in Nat \ {0}
<1>1. kNumRounds \in Nat \ {0}
  BY RescueAssumption
<1> QED  BY <1>1 DEF kBatchHeight, kHashesPerBatch

LEMMA TraceBatches ==
  ASSUME NEW n, IsTraceLength(n)
  PROVE  /\ n \in Nat \ {0}
         /\ n % kBatchHeight = 0
         /\ n \div kBatchHeight \in Nat \ {0}
         /\ n = (n \div kBatchHeight) * kBatchHeight
<1>1. PICK b \in Nat \ {0} : n = b * kBatchHeight
  BY DEF IsTraceLength
<1> DEFINE h == kBatchHeight
<1>2. h \in Nat \ {0}
  BY BatchHeight
<1> HIDE DEF h
<1>3. n = h * b + 0 /\ 0 \in 0 .. h - 1
  BY <1>1, <1>2 DEF h
<1>4. (h * b + 0) \div h = b /\ (h * b + 0) % h = 0
  BY <1>2, <1>3, Quotient, Remainder
<1>5. n \div h = b /\ n % h = 0
  BY <1>3, <1>4
<1>6. n \in Nat \ {0}
  <2>1. h * b \in Nat /\ h * b >= h
    <3>1. h * b = h * (b - 1) + h /\ h * (b - 1) \in Nat
      BY <1>2
    <3> QED  BY <1>2, <3>1
  <2> QED  BY <1>2, <1>3, <2>1
<1> QED  BY <1>1, <1>5, <1>6 DEF h

\* The trace of an allowed statement is long enough for its hashes.
LEMMA StatementLength ==
  ASSUME setup \in Setups, StatementAllowed(setup.chain_length)
  PROVE  /\ IsTraceLength(TraceLength(setup.chain_length))
         /\ setup.chain_length % kHashesPerBatch = 0
         /\ setup.chain_length \div 3 \in
              1 .. TraceLength(setup.chain_length) \div kBatchHeight
<1> DEFINE n == TraceLength(setup.chain_length)
           c == setup.chain_length \div 3
           h == kBatchHeight
<1>1. /\ setup.chain_length \in Nat /\ setup.chain_length % kHashesPerBatch = 0
      /\ setup.chain_length > 0
  BY TraceLengthFacts DEF StatementAllowed
<1>2. c \in Nat \ {0}
  BY <1>1 DEF kHashesPerBatch
<1>3. PICK k \in Exponents : n = Pow2[k] /\ Pow2[k] >= h /\ Pow2[k] >= c * h
  BY TraceLengthFacts DEF kHashesPerBatch
<1>4. PICK d \in Exponents : h = Pow2[d]
  BY RescueAssumption
<1> HIDE DEF n, c, h
<1>5. d <= k
  <2>1. SUFFICES ASSUME k < d  PROVE FALSE
    BY <1>3, <1>4 DEF Exponents
  <2>2. 2 * Pow2[k] <= Pow2[d]
    BY <1>3, <1>4, <2>1, Pow2Powers, PowersGap DEF Exponents
  <2> QED  BY <1>3, <1>4, <2>2, Pow2Facts
<1>6. Pow2[d] * Pow2[k - d] = Pow2[k] /\ k - d \in Exponents
  <2>1. d \in 0 .. WordBits - 1 /\ k \in 0 .. WordBits - 1 /\ k - d \in 0 .. WordBits - 1
    BY <1>3, <1>4, <1>5, WordHasBits DEF Exponents
  <2>2. \A g, j \in 0 .. WordBits - 1 : g <= j => Pow2[g] * Pow2[j - g] = Pow2[j]
    BY Pow2Powers, PowersProduct
  <2> QED  BY <1>5, <2>1, <2>2 DEF Exponents
<1> DEFINE b == Pow2[k - d]
<1>7. b \in Nat \ {0} /\ n = b * h /\ h \in Nat \ {0}
  BY <1>3, <1>4, <1>6, Pow2Facts
<1> HIDE DEF b
<1>8. IsTraceLength(n)
  BY <1>3, <1>7 DEF IsTraceLength, IsPowerOfTwo, h
<1>9. n \div h \in Nat \ {0} /\ n = (n \div h) * h
  BY <1>8, TraceBatches DEF h
<1>10. c <= n \div h
  <2> DEFINE q == n \div h
  <2>1. q \in Nat /\ q * h >= c * h
    BY <1>3, <1>9
  <2> HIDE DEF q
  <2>2. SUFFICES ASSUME q + 1 <= c  PROVE FALSE
    BY <1>2, <2>1 DEF q
  <2>3. c * h = (c - (q + 1)) * h + q * h + h
    BY <1>2, <1>7, <2>1
  <2>4. (c - (q + 1)) * h \in Nat
    BY <1>2, <1>7, <2>1, <2>2
  <2>5. q * h \in Nat
    BY <1>7, <2>1
  <2> DEFINE x == q * h
             y == c * h
             z == (c - (q + 1)) * h
  <2>6. x \in Nat /\ z \in Nat /\ y = z + x + h /\ x >= y
    BY <2>1, <2>3, <2>4, <2>5
  <2> HIDE DEF x, y, z
  <2> QED  BY <1>7, <2>6
<1> QED  BY <1>1, <1>2, <1>8, <1>9, <1>10 DEF n, c, h

\* Between two and ten cosets' exponents.
LEMMA CosetNumbers ==
  ASSUME NEW k \in 2 .. 10
  PROVE  Pow2[k] \in {4, 8, 16, 32, 64, 128, 256, 512, 1024}
<1>1. \A h \in 0 .. 10 : h \in Exponents
  BY SetupAssumption, WordHasBits DEF Exponents
<1>2. \A h \in 1 .. 10 : Pow2[h] = 2 * Pow2[h - 1]
  <2>1. \A h \in 1 .. 10 : h \in 0 .. 10 /\ h # 0
    OBVIOUS
  <2>2. \A h \in Exponents : h # 0 => Pow2[h] = 2 * Pow2[h - 1]
    BY Pow2Facts
  <2> QED  BY <1>1, <2>1, <2>2
<1>3. Pow2[0] = 1
  BY Pow2Facts
<1>4. Pow2[1] = 2 /\ Pow2[2] = 4 /\ Pow2[3] = 8 /\ Pow2[4] = 16
  BY <1>2, <1>3
<1>5. Pow2[5] = 32 /\ Pow2[6] = 64 /\ Pow2[7] = 128 /\ Pow2[8] = 256
  BY <1>2, <1>4
<1>6. Pow2[9] = 512 /\ Pow2[10] = 1024
  BY <1>2, <1>5
<1>7. k = 2 \/ k = 3 \/ k = 4 \/ k = 5 \/ k = 6 \/ k = 7 \/ k = 8 \/ k = 9 \/ k = 10
  OBVIOUS
<1> QED  BY <1>4, <1>5, <1>6, <1>7

LEMMA LogOfFourIsTwo == SafeLog2(4) = 2
<1> DEFINE k == SafeLog2(4)
<1>1. k \in Exponents /\ Pow2[k] = 4
  BY LogOfFour
<1> HIDE DEF k
<1>2. 2 \in Exponents /\ Pow2[2] = 4
  <2>1. 1 \in Exponents /\ 2 \in Exponents
    BY WordHasBits DEF Exponents
  <2>2. Pow2[1] = 2 * Pow2[1 - 1] /\ Pow2[2] = 2 * Pow2[2 - 1]
    BY <2>1, Pow2Facts
  <2> QED  BY <2>1, <2>2, Pow2Facts
<1>3. \A g, h \in Exponents : g < h => 2 * Pow2[g] <= Pow2[h]
  BY Pow2Powers, PowersGap DEF Exponents
<1>4. ~(k < 2) /\ ~(2 < k)
  BY <1>1, <1>2, <1>3
<1>5. k = 2
  BY <1>1, <1>4, WordHasBits DEF Exponents
<1> QED  BY <1>5 DEF k

-----------------------------------------------------------------------------
(* The sizes of hashes and of their rows. *)

LEMMA PlusConstantsLength ==
  ASSUME NEW state, NEW index
  PROVE  IsVector(PlusConstants(state, index), kStateSize)
<1> DEFINE n == kStateSize
           f == [i \in 1 .. n |->
                   BaseAdd(state[i - 1 + 1], k_round_constants[index + 1][i - 1 + 1])]
<1>1. f = [i \in 1 .. n |-> f[i]] /\ n \in Nat
  BY MaskFacts
<1>2. PlusConstants(state, index) = <<>> \o f
  BY DEF PlusConstants, Vector
<1> HIDE DEF f, n
<1>3. IsVector(<<>> \o f, n)
  BY <1>1, VectorFacts
<1> QED  BY <1>2, <1>3 DEF n

LEMMA AlteredLength ==
  ASSUME NEW state, NEW n \in Nat, IsVector(state, n), NEW alteration, NEW hash_index, NEW round
  PROVE  IsVector(Altered(alteration, hash_index, round, state), n)
<1> DEFINE e == BaseAdd(state[alteration.column], BaseOne)
<1>1. IsVector([state EXCEPT ![alteration.column] = e], n)
  BY ChangedVector
<1> QED  BY <1>1 DEF Altered

\* The states midway through the rounds of a hash, and its last state.
IsHash(hash) == IsVector(hash.middles, kNumRounds) /\ IsVector(hash.last, kStateSize)

\* After k half rounds.
IsPartOfHash(hash, k) == IsVector(hash.middles, k \div 2) /\ IsVector(hash.last, kStateSize)

LEMMA OneMoreHalfRound ==
  ASSUME NEW hash, NEW k \in Nat, IsPartOfHash(hash, k), NEW hash_index, NEW alteration
  PROVE  IsPartOfHash(AfterHalfRound(hash, k, hash_index, alteration), k + 1)
<1> DEFINE next == AfterHalfRound(hash, k, hash_index, alteration)
<1>1. kStateSize \in Nat
  BY MaskFacts
<1>2. \A first : IsVector(HalfRound(hash.last, k \div 2, first), kStateSize)
  BY PlusConstantsLength DEF HalfRound
<1>3. IsVector(Altered(alteration, hash_index, (k + 1) \div 2,
                       HalfRound(hash.last, k \div 2, FALSE)), kStateSize)
  BY <1>1, <1>2, AlteredLength
<1>4. IsVector(next.last, kStateSize)
  BY <1>2, <1>3 DEF AfterHalfRound
<1>5. CASE k % 2 = 0
  <2>1. next.middles = hash.middles
    BY <1>5 DEF AfterHalfRound
  <2>2. (k + 1) \div 2 = k \div 2
    BY <1>5
  <2> QED  BY <1>4, <2>1, <2>2 DEF IsPartOfHash
<1>6. CASE k % 2 # 0
  <2>1. next.middles = Append(hash.middles, hash.last)
    BY <1>6 DEF AfterHalfRound
  <2>2. (k + 1) \div 2 = (k \div 2) + 1
    BY <1>6
  <2>3. IsSeq(hash.middles) /\ Len(hash.middles) = k \div 2
    BY DEF IsPartOfHash, IsVector
  <2>4. IsExtended(Append(hash.middles, hash.last), hash.middles, hash.last)
    BY <2>3, AppendFacts
  <2>5. IsVector(next.middles, (k + 1) \div 2)
    BY <2>1, <2>2, <2>3, <2>4 DEF IsExtended, IsVector
  <2> QED  BY <1>4, <2>5 DEF IsPartOfHash
<1> QED  BY <1>5, <1>6

LEMMA RoundsLength ==
  ASSUME NEW input, NEW hash_index, NEW alteration
  PROVE  IsHash(RoundsOf(input, hash_index, alteration))
<1> DEFINE m == 2 * kNumRounds
           first == [input |-> input, middles |-> <<>>,
                     last |-> Altered(alteration, hash_index, 0, PlusConstants(input, 0))]
           next(f, k) == IF k = 0 THEN first
                         ELSE AfterHalfRound(f[k - 1], k - 1, hash_index, alteration)
           P(f) == f = [k \in 0 .. m |-> next(f, k)]
           UpTo(f, k) == \A h \in 0 .. m : h <= k => f[h] = next(f, h)
           half == CHOOSE f : P(f)
<1>1. m \in Nat /\ m \div 2 = kNumRounds
  BY BatchHeight
<1>2. RoundsOf(input, hash_index, alteration) = half[m]
  BY DEF RoundsOf
<1>7. IsPartOfHash(first, 0)
  <2>1. kStateSize \in Nat
    BY MaskFacts
  <2>2. IsVector(Altered(alteration, hash_index, 0, PlusConstants(input, 0)), kStateSize)
    BY <2>1, PlusConstantsLength, AlteredLength
  <2>3. IsVector(<<>>, 0 \div 2)
    BY DEF IsVector, IsSeq
  <2> QED  BY <2>2, <2>3 DEF IsPartOfHash
<1> HIDE DEF first, next, half, m
<1>3. ASSUME NEW k \in Nat, NEW f, UpTo(f, k)  PROVE \E h : UpTo(h, k + 1)
  <2> DEFINE t == [i \in 0 .. m |-> IF i = k + 1 THEN next(f, i) ELSE f[i]]
  <2>1. ASSUME NEW i \in 0 .. m, i <= k + 1  PROVE t[i] = next(t, i)
    <3>1. i # 0 => i - 1 \in 0 .. m /\ i - 1 # k + 1
      BY <1>1, <2>1
    <3>2. i # 0 => t[i - 1] = f[i - 1]
      BY <3>1
    <3>3. next(t, i) = next(f, i)
      BY <3>2 DEF next
    <3>4. i # k + 1 => i <= k /\ t[i] = f[i]
      BY <2>1
    <3>5. i = k + 1 => t[i] = next(f, i)
      OBVIOUS
    <3> HIDE DEF t
    <3> QED  BY <1>3, <3>3, <3>4, <3>5
  <2> QED  BY <2>1
<1>4. \E f : UpTo(f, m)
  <2> DEFINE S == {k \in Nat : ~\E f : UpTo(f, k)}
  <2>1. SUFFICES ASSUME S # {}  PROVE FALSE
    BY <1>1
  <2>2. PICK least \in S : \A k \in S : least <= k
    BY <2>1, LeastOf
  <2>3. least # 0
    <3> DEFINE f == [i \in 0 .. m |-> first]
    <3>1. UpTo(f, 0)
      BY DEF next
    <3> QED  BY <2>2, <3>1
  <2> HIDE DEF UpTo
  <2>4. least - 1 \in Nat /\ least - 1 \notin S /\ (least - 1) + 1 = least
    BY <2>2, <2>3
  <2>5. PICK f : UpTo(f, least - 1)
    BY <2>4
  <2>6. \E h : UpTo(h, (least - 1) + 1)
    BY <1>3, <2>4, <2>5
  <2> QED  BY <1>1, <2>2, <2>4, <2>6
<1>5. P(half)
  <2>1. PICK f : UpTo(f, m)
    BY <1>4
  <2> DEFINE t == [i \in 0 .. m |-> f[i]]
  <2>2. \A i \in 0 .. m : t[i] = next(t, i)
    <3>1. \A i \in 0 .. m : i <= m /\ (i # 0 => i - 1 \in 0 .. m) /\ t[i] = f[i]
      BY <1>1
    <3>2. \A i \in 0 .. m : i # 0 => t[i - 1] = f[i - 1]
      BY <3>1
    <3>3. \A i \in 0 .. m : next(t, i) = next(f, i)
      BY <3>2 DEF next
    <3> HIDE DEF t
    <3> QED  BY <2>1, <3>1, <3>3
  <2>3. t = [i \in 0 .. m |-> t[i]]
    OBVIOUS
  <2> HIDE DEF t
  <2>4. P(t)
    BY <2>2, <2>3
  <2> HIDE DEF P
  <2> QED  BY <2>4 DEF half
<1>6. \A k \in 0 .. m : half[k] = next(half, k)
  <2>1. \A f : P(f) => \A k \in 0 .. m : f[k] = next(f, k)
    OBVIOUS
  <2> HIDE DEF P
  <2> QED  BY <1>5, <2>1
<1> DEFINE S == {k \in 0 .. m : ~IsPartOfHash(half[k], k)}
<1>8. S = {}
  <2>1. SUFFICES ASSUME S # {}  PROVE FALSE
    OBVIOUS
  <2>2. S \in SUBSET Nat
    OBVIOUS
  <2>3. PICK least \in S : \A k \in S : least <= k
    <3> HIDE DEF S
    <3> QED  BY <2>1, <2>2, LeastOf
  <2>4. least \in 0 .. m /\ ~IsPartOfHash(half[least], least)
    OBVIOUS
  <2>5. least # 0
    BY <1>6, <1>7, <2>4 DEF next
  <2>6. least - 1 \in 0 .. m /\ least - 1 \notin S /\ least - 1 \in Nat /\ (least - 1) + 1 = least
    BY <1>1, <2>3, <2>4, <2>5
  <2>7. IsPartOfHash(half[least - 1], least - 1)
    BY <2>6
  <2>8. IsPartOfHash(AfterHalfRound(half[least - 1], least - 1, hash_index, alteration),
                     (least - 1) + 1)
    BY <2>6, <2>7, OneMoreHalfRound
  <2>9. half[least] = AfterHalfRound(half[least - 1], least - 1, hash_index, alteration)
    BY <1>6, <2>4, <2>5 DEF next
  <2> QED  BY <2>4, <2>6, <2>8, <2>9
<1>9. m \in 0 .. m
  BY <1>1
<1>10. IsPartOfHash(half[m], m)
  BY <1>8, <1>9
<1> QED  BY <1>1, <1>2, <1>10 DEF IsHash, IsPartOfHash

LEMMA LeftWordLength ==
  ASSUME NEW state, IsVector(state, kStateSize)
  PROVE  IsVector(LeftWord(state), kWordSize)
<1>1. kWordSize \in Nat \ {0} /\ kStateSize = 3 * kWordSize
  BY RescueAssumption DEF kStateSize
<1>2. IsSeq(state) /\ Len(state) = 3 * kWordSize
  BY <1>1 DEF IsVector
<1>3. 1 \in 1 .. Len(state) + 1 /\ kWordSize \in 0 .. Len(state) /\ 1 <= kWordSize + 1
  BY <1>1, <1>2
<1>4. IsPart(SubSeq(state, 1, kWordSize), state, 1, kWordSize)
  BY <1>2, <1>3, SubSeqFacts
<1>5. kWordSize - 1 + 1 = kWordSize
  BY <1>1
<1> QED  BY <1>4, <1>5 DEF IsPart, IsVector, LeftWord

LEMMA PublicInputLength ==
  ASSUME NEW witness, Len(witness) \in Nat, Len(witness) > 1
  PROVE  IsVector(PublicInputFromPrivateInput(witness), kWordSize)
<1> DEFINE n == Len(witness)
           step(word, i) == LeftWord(Hash(word, witness[i], i - 1, NoAlteration).last)
           next(f, i) == IF i = 1 THEN witness[1] ELSE step(f[i - 1], i)
           P(f) == f = [i \in 1 .. n |-> next(f, i)]
           UpTo(f, k) == \A h \in 1 .. n : h <= k => f[h] = next(f, h)
           left == CHOOSE f : P(f)
<1>1. n \in Nat /\ n > 1
  OBVIOUS
<1>2. PublicInputFromPrivateInput(witness) = left[n]
  BY DEF PublicInputFromPrivateInput
<1>7. \A word, i : IsVector(step(word, i), kWordSize)
  BY RoundsLength, LeftWordLength DEF Hash, IsHash
<1> HIDE DEF step, next, left, n
<1>3. ASSUME NEW k \in Nat, NEW f, UpTo(f, k)  PROVE \E h : UpTo(h, k + 1)
  <2> DEFINE t == [i \in 1 .. n |-> IF i = k + 1 THEN next(f, i) ELSE f[i]]
  <2>1. ASSUME NEW i \in 1 .. n, i <= k + 1  PROVE t[i] = next(t, i)
    <3>1. i # 1 => i - 1 \in 1 .. n /\ i - 1 # k + 1
      BY <1>1, <2>1
    <3>2. i # 1 => t[i - 1] = f[i - 1]
      BY <3>1
    <3>3. next(t, i) = next(f, i)
      BY <3>2 DEF next
    <3>4. i # k + 1 => i <= k /\ t[i] = f[i]
      BY <2>1
    <3>5. i = k + 1 => t[i] = next(f, i)
      OBVIOUS
    <3> HIDE DEF t
    <3> QED  BY <1>3, <3>3, <3>4, <3>5
  <2> QED  BY <2>1
<1>4. \E f : UpTo(f, n)
  <2> DEFINE S == {k \in Nat : ~\E f : UpTo(f, k)}
  <2>1. SUFFICES ASSUME S # {}  PROVE FALSE
    BY <1>1
  <2>2. PICK least \in S : \A k \in S : least <= k
    BY <2>1, LeastOf
  <2>3. least # 0
    <3> DEFINE f == [i \in 1 .. n |-> witness[1]]
    <3>1. UpTo(f, 0)
      BY DEF next
    <3> QED  BY <2>2, <3>1
  <2> HIDE DEF UpTo
  <2>4. least - 1 \in Nat /\ least - 1 \notin S /\ (least - 1) + 1 = least
    BY <2>2, <2>3
  <2>5. PICK f : UpTo(f, least - 1)
    BY <2>4
  <2>6. \E h : UpTo(h, (least - 1) + 1)
    BY <1>3, <2>4, <2>5
  <2> QED  BY <1>1, <2>2, <2>4, <2>6
<1>5. P(left)
  <2>1. PICK f : UpTo(f, n)
    BY <1>4
  <2> DEFINE t == [i \in 1 .. n |-> f[i]]
  <2>2. \A i \in 1 .. n : t[i] = next(t, i)
    <3>1. \A i \in 1 .. n : i <= n /\ (i # 1 => i - 1 \in 1 .. n) /\ t[i] = f[i]
      BY <1>1
    <3>2. \A i \in 1 .. n : i # 1 => t[i - 1] = f[i - 1]
      BY <3>1
    <3>3. \A i \in 1 .. n : next(t, i) = next(f, i)
      BY <3>2 DEF next
    <3> HIDE DEF t
    <3> QED  BY <2>1, <3>1, <3>3
  <2>3. t = [i \in 1 .. n |-> t[i]]
    OBVIOUS
  <2> HIDE DEF t
  <2>4. P(t)
    BY <2>2, <2>3
  <2> HIDE DEF P
  <2> QED  BY <2>4 DEF left
<1>6. \A k \in 1 .. n : left[k] = next(left, k)
  <2>1. \A f : P(f) => \A k \in 1 .. n : f[k] = next(f, k)
    OBVIOUS
  <2> HIDE DEF P
  <2> QED  BY <1>5, <2>1
<1>8. left[n] = step(left[n - 1], n)
  BY <1>1, <1>6 DEF next
<1> QED  BY <1>2, <1>7, <1>8

\* The hashes of a trace.
AreHashes(hashes, n) == IsVector(hashes, n) /\ \A k \in 1 .. n : IsHash(hashes[k])

LEMMA OneMoreHash ==
  ASSUME NEW hashes, NEW n \in Nat, AreHashes(hashes, n), NEW i, NEW witness, NEW alteration
  PROVE  AreHashes(WithHash(hashes, i, witness, alteration), n + 1)
<1> DEFINE e == Hash(IF i = 1 THEN witness[1] ELSE LeftWord(hashes[i - 1].last),
                     IF i < Len(witness) THEN witness[i + 1] ELSE ZeroWord, i, alteration)
           u == WithHash(hashes, i, witness, alteration)
<1>1. IsHash(e)
  BY RoundsLength DEF Hash
<1>2. u = Append(hashes, e)
  BY DEF WithHash
<1> HIDE DEF e, u
<1>3. IsSeq(hashes) /\ Len(hashes) = n
  BY DEF AreHashes, IsVector
<1>4. IsExtended(u, hashes, e)
  BY <1>2, <1>3, AppendFacts
<1>5. IsVector(u, n + 1) /\ u[n + 1] = e /\ \A k \in 1 .. n : u[k] = hashes[k]
  BY <1>3, <1>4 DEF IsExtended, IsVector
<1>6. \A k \in 1 .. n + 1 : k = n + 1 \/ k \in 1 .. n
  OBVIOUS
<1>7. \A k \in 1 .. n + 1 : IsHash(u[k])
  BY <1>1, <1>5, <1>6 DEF AreHashes
<1>8. AreHashes(u, n + 1)
  BY <1>5, <1>7 DEF AreHashes
<1> QED  BY <1>8 DEF u

LEMMA TraceHashesLength ==
  ASSUME NEW witness, NEW n \in Nat, NEW alteration
  PROVE  AreHashes(TraceHashes(witness, n, alteration), n)
<1> DEFINE next(f, i) == IF i = 0 THEN <<>> ELSE WithHash(f[i - 1], i, witness, alteration)
           P(f) == f = [i \in 0 .. n |-> next(f, i)]
           UpTo(f, k) == \A h \in 0 .. n : h <= k => f[h] = next(f, h)
           hashes == CHOOSE f : P(f)
<1>1. n \in Nat
  OBVIOUS
<1>2. TraceHashes(witness, n, alteration) = hashes[n]
  BY DEF TraceHashes
<1> HIDE DEF next, hashes
<1>3. ASSUME NEW k \in Nat, NEW f, UpTo(f, k)  PROVE \E h : UpTo(h, k + 1)
  <2> DEFINE t == [i \in 0 .. n |-> IF i = k + 1 THEN next(f, i) ELSE f[i]]
  <2>1. ASSUME NEW i \in 0 .. n, i <= k + 1  PROVE t[i] = next(t, i)
    <3>1. i # 0 => i - 1 \in 0 .. n /\ i - 1 # k + 1
      BY <1>1, <2>1
    <3>2. i # 0 => t[i - 1] = f[i - 1]
      BY <3>1
    <3>3. next(t, i) = next(f, i)
      BY <3>2 DEF next
    <3>4. i # k + 1 => i <= k /\ t[i] = f[i]
      BY <2>1
    <3>5. i = k + 1 => t[i] = next(f, i)
      OBVIOUS
    <3> HIDE DEF t
    <3> QED  BY <1>3, <3>3, <3>4, <3>5
  <2> QED  BY <2>1
<1>4. \E f : UpTo(f, n)
  <2> DEFINE S == {k \in Nat : ~\E f : UpTo(f, k)}
  <2>1. SUFFICES ASSUME S # {}  PROVE FALSE
    BY <1>1
  <2>2. PICK least \in S : \A k \in S : least <= k
    BY <2>1, LeastOf
  <2>3. least # 0
    <3> DEFINE f == [i \in 0 .. n |-> <<>>]
    <3>1. UpTo(f, 0)
      BY DEF next
    <3> QED  BY <2>2, <3>1
  <2> HIDE DEF UpTo
  <2>4. least - 1 \in Nat /\ least - 1 \notin S /\ (least - 1) + 1 = least
    BY <2>2, <2>3
  <2>5. PICK f : UpTo(f, least - 1)
    BY <2>4
  <2>6. \E h : UpTo(h, (least - 1) + 1)
    BY <1>3, <2>4, <2>5
  <2> QED  BY <1>1, <2>2, <2>4, <2>6
<1>5. P(hashes)
  <2>1. PICK f : UpTo(f, n)
    BY <1>4
  <2> DEFINE t == [i \in 0 .. n |-> f[i]]
  <2>2. \A i \in 0 .. n : t[i] = next(t, i)
    <3>1. \A i \in 0 .. n : i <= n /\ (i # 0 => i - 1 \in 0 .. n) /\ t[i] = f[i]
      BY <1>1
    <3>2. \A i \in 0 .. n : i # 0 => t[i - 1] = f[i - 1]
      BY <3>1
    <3>3. \A i \in 0 .. n : next(t, i) = next(f, i)
      BY <3>2 DEF next
    <3> HIDE DEF t
    <3> QED  BY <2>1, <3>1, <3>3
  <2>3. t = [i \in 0 .. n |-> t[i]]
    OBVIOUS
  <2> HIDE DEF t
  <2>4. P(t)
    BY <2>2, <2>3
  <2> HIDE DEF P
  <2> QED  BY <2>4 DEF hashes
<1>6. \A k \in 0 .. n : hashes[k] = next(hashes, k)
  <2>1. \A f : P(f) => \A k \in 0 .. n : f[k] = next(f, k)
    OBVIOUS
  <2> HIDE DEF P
  <2> QED  BY <1>5, <2>1
<1> DEFINE S == {k \in 0 .. n : ~AreHashes(hashes[k], k)}
<1>8. S = {}
  <2>1. SUFFICES ASSUME S # {}  PROVE FALSE
    OBVIOUS
  <2>2. S \in SUBSET Nat
    OBVIOUS
  <2>3. PICK least \in S : \A k \in S : least <= k
    <3> HIDE DEF S
    <3> QED  BY <2>1, <2>2, LeastOf
  <2>4. least \in 0 .. n /\ ~AreHashes(hashes[least], least)
    OBVIOUS
  <2>5. least # 0
    <3>1. hashes[0] = <<>>
      BY <1>1, <1>6 DEF next
    <3>2. AreHashes(<<>>, 0)
      BY DEF AreHashes, IsVector, IsSeq
    <3> QED  BY <2>4, <3>1, <3>2
  <2>6. least - 1 \in 0 .. n /\ least - 1 \notin S /\ least - 1 \in Nat /\ (least - 1) + 1 = least
    BY <2>3, <2>4, <2>5
  <2>7. AreHashes(hashes[least - 1], least - 1)
    BY <2>6
  <2>8. AreHashes(WithHash(hashes[least - 1], least, witness, alteration), (least - 1) + 1)
    BY <2>6, <2>7, OneMoreHash
  <2>9. hashes[least] = WithHash(hashes[least - 1], least, witness, alteration)
    BY <1>6, <2>4, <2>5 DEF next
  <2> QED  BY <2>4, <2>6, <2>8, <2>9
<1>9. n \in 0 .. n
  BY <1>1
<1> QED  BY <1>2, <1>8, <1>9

\* The rows of batches of hashes; the one that a batch ends with holds its last state.
LEMMA RowsLength ==
  ASSUME NEW b \in Nat \ {0}, NEW hashes, AreHashes(hashes, 3 * b)
  PROVE  /\ IsVector(RowsOf(hashes), b * kBatchHeight)
         /\ \A c \in 1 .. b : RowsOf(hashes)[c * kBatchHeight] = hashes[3 * c].last
<1> DEFINE R == kNumRounds
           n == 3 * b
           opening(k) == IF (k - 1) % 3 = 0 THEN <<hashes[k - 1 + 1].input>> ELSE <<>>
           middles(k) == hashes[k - 1 + 1].middles
           closing(k) == IF (k - 1) % 3 = 3 - 1 THEN <<hashes[k - 1 + 1].last>> ELSE <<>>
           part(k) == opening(k) \o middles(k) \o closing(k)
           f == [k \in 1 .. n |-> part(k)]
           s == <<>> \o f
           L == [k \in 0 .. n |-> k * R + ((k + 2) \div 3) + (k \div 3)]
           u == RowsOf(hashes)
<1>1. R \in Nat \ {0} /\ kBatchHeight = 3 * R + 2 /\ n \in Nat \ {0} /\ Len(hashes) = n
  BY BatchHeight DEF kBatchHeight, kHashesPerBatch, AreHashes, IsVector
<1>2. u = FlattenSeq(s)
  BY <1>1 DEF RowsOf, Vector, kHashesPerBatch
<1>3. \A k \in 1 .. n : IsVector(middles(k), R) /\ k - 1 + 1 = k
  BY DEF AreHashes, IsHash
<1>4. f = [k \in 1 .. n |-> f[k]] /\ \A k \in 1 .. n : f[k] = part(k)
  OBVIOUS
<1> HIDE DEF f, u
<1>5. IsVector(s, n) /\ \A k \in 1 .. n : s[k] = part(k)
  BY <1>1, <1>4, VectorFacts
<1> HIDE DEF s
<1> DEFINE before(k) == IF (k - 1) % 3 = 0 THEN 1 ELSE 0
           after(k) == IF (k - 1) % 3 = 2 THEN 1 ELSE 0
<1>6. ASSUME NEW k \in 1 .. n
      PROVE  /\ IsVector(part(k), before(k) + R + after(k))
             /\ k % 3 = 0 => part(k)[R + 1] = hashes[k].last
  <2>1. IsSeq(middles(k)) /\ Len(middles(k)) = R /\ R \in Nat /\ k - 1 + 1 = k
    BY <1>1, <1>3 DEF IsVector
  <2>2. IsSeq(opening(k)) /\ Len(opening(k)) = before(k) /\ before(k) \in {0, 1}
    <3>1. IsSeq(<<hashes[k - 1 + 1].input>>) /\ IsSeq(<<>>)
      BY DEF IsSeq
    <3> QED  BY <3>1
  <2>3. IsSeq(closing(k)) /\ Len(closing(k)) = after(k) /\ after(k) \in {0, 1}
    <3>1. IsSeq(<<hashes[k - 1 + 1].last>>) /\ IsSeq(<<>>)
      BY DEF IsSeq
    <3> QED  BY <3>1
  <2>4. k % 3 = 0 => before(k) = 0 /\ after(k) = 1 /\ closing(k) = <<hashes[k].last>>
    <3>1. k % 3 = 0 => (k - 1) % 3 = 2
      OBVIOUS
    <3> QED  BY <2>1, <3>1
  <2> HIDE DEF opening, middles, closing, before, after
  <2> DEFINE front == opening(k) \o middles(k)
  <2>5. IsConcat(front, opening(k), middles(k))
    BY <2>1, <2>2, ConcatFacts
  <2>6. IsSeq(front) /\ Len(front) = before(k) + R
    BY <2>1, <2>2, <2>5 DEF IsConcat
  <2> HIDE DEF front
  <2>7. IsConcat(front \o closing(k), front, closing(k))
    BY <2>3, <2>6, ConcatFacts
  <2> DEFINE p == part(k)
  <2>8. p = front \o closing(k)
    BY DEF front
  <2> HIDE DEF p
  <2>9. IsVector(p, before(k) + R + after(k))
    BY <2>3, <2>6, <2>7, <2>8 DEF IsConcat, IsVector
  <2>10. ASSUME k % 3 = 0  PROVE p[R + 1] = hashes[k].last
    <3>1. Len(front) = R /\ Len(closing(k)) = 1 /\ closing(k)[1] = hashes[k].last
      BY <2>1, <2>3, <2>4, <2>6, <2>10
    <3>2. 1 \in 1 .. Len(closing(k))
      BY <3>1
    <3>3. p[Len(front) + 1] = closing(k)[1]
      BY <2>7, <2>8, <3>2 DEF IsConcat
    <3> QED  BY <3>1, <3>3
  <2> QED  BY <2>9, <2>10 DEF p
<1> HIDE DEF part
<1>7. /\ L[0] = 0
      /\ \A k \in 0 .. n : L[k] = k * R + ((k + 2) \div 3) + (k \div 3) /\ L[k] \in Nat
  <2>1. ASSUME NEW k \in 0 .. n
        PROVE  L[k] = k * R + ((k + 2) \div 3) + (k \div 3) /\ L[k] \in Nat
    <3>1. L[k] = k * R + ((k + 2) \div 3) + (k \div 3)
      OBVIOUS
    <3>2. (k + 2) \div 3 \in Nat /\ k \div 3 \in Nat /\ k * R \in Nat
      BY <1>1
    <3> HIDE DEF L
    <3> QED  BY <3>1, <3>2
  <2>2. 0 \in 0 .. n
    BY <1>1
  <2>3. L[0] = 0 * R + ((0 + 2) \div 3) + (0 \div 3)
    BY <2>1, <2>2
  <2> HIDE DEF L
  <2>4. 0 * R = 0 /\ (0 + 2) \div 3 = 0 /\ 0 \div 3 = 0
    BY <1>1
  <2> QED  BY <2>1, <2>3, <2>4
<1> HIDE DEF L
<1>8. ASSUME NEW k \in 1 .. n
      PROVE  L[k] - L[k - 1] = before(k) + R + after(k)
  <2>1. k \in 0 .. n /\ k - 1 \in 0 .. n
    OBVIOUS
  <2>2. /\ L[k] = k * R + ((k + 2) \div 3) + (k \div 3)
        /\ L[k - 1] = (k - 1) * R + ((k - 1 + 2) \div 3) + ((k - 1) \div 3)
    BY <1>7, <2>1
  <2>3. k * R = (k - 1) * R + R
    BY <1>1
  <2>4. (k + 2) \div 3 = ((k - 1 + 2) \div 3) + before(k)
    OBVIOUS
  <2>5. k \div 3 = ((k - 1) \div 3) + after(k)
    OBVIOUS
  <2>6. /\ (k - 1 + 2) \div 3 \in Nat /\ (k - 1) \div 3 \in Nat /\ (k - 1) * R \in Nat
        /\ before(k) \in Nat /\ after(k) \in Nat
    BY <1>1
  <2> DEFINE x == (k - 1) * R
             y == (k - 1 + 2) \div 3
             z == (k - 1) \div 3
  <2> HIDE DEF before, after, x, y, z
  <2>7. L[k] = (x + R) + (y + before(k)) + (z + after(k)) /\ L[k - 1] = x + y + z
    BY <2>2, <2>3, <2>4, <2>5 DEF x, y, z
  <2> QED  BY <1>1, <2>6, <2>7 DEF x, y, z
<1> HIDE DEF before, after
<1>9. PartEnds(L, s, n)
  <2>1. \A k \in 1 .. n : IsVector(s[k], L[k] - L[k - 1])
    BY <1>5, <1>6, <1>8
  <2> QED  BY <1>7, <2>1 DEF PartEnds
<1>10. Joined(u, L, s, n)
  BY <1>1, <1>2, <1>5, <1>9, FlattenFacts
<1>11. ASSUME NEW c \in 1 .. b
       PROVE  3 * c \in 1 .. n /\ (3 * c) % 3 = 0 /\ L[3 * c] = c * kBatchHeight
  <2>1. 3 * c \in 1 .. n /\ (3 * c) % 3 = 0
    OBVIOUS
  <2>2. (3 * c + 2) \div 3 = c /\ (3 * c) \div 3 = c
    OBVIOUS
  <2>3. L[3 * c] = 3 * c * R + c + c
    BY <1>7, <2>1, <2>2
  <2>4. 3 * c * R + c + c = c * (3 * R + 2)
    BY <1>1
  <2> QED  BY <1>1, <2>1, <2>3, <2>4
<1>12. IsVector(u, b * kBatchHeight)
  BY <1>10, <1>11 DEF Joined
<1>13. ASSUME NEW c \in 1 .. b  PROVE u[c * kBatchHeight] = hashes[3 * c].last
  <2> DEFINE k == 3 * c
  <2>1. k \in 1 .. n /\ k % 3 = 0 /\ L[k] = c * kBatchHeight
    BY <1>11
  <2>2. before(k) = 0 /\ after(k) = 1
    <3>1. (k - 1) % 3 = 2
      BY <2>1
    <3> QED  BY <3>1 DEF before, after
  <2> HIDE DEF k
  <2>3. L[k] - L[k - 1] = R + 1
    BY <1>1, <1>8, <2>1, <2>2
  <2>4. R + 1 \in 1 .. L[k] - L[k - 1]
    BY <1>1, <2>3
  <2>5. u[L[k - 1] + (R + 1)] = s[k][R + 1]
    BY <1>10, <2>1, <2>4 DEF Joined
  <2>6. L[k - 1] \in Nat /\ L[k] \in Nat
    BY <1>7, <2>1
  <2>7. L[k - 1] + (R + 1) = L[k]
    BY <1>1, <2>3, <2>6
  <2>8. s[k][R + 1] = hashes[k].last
    BY <1>5, <1>6, <2>1
  <2> QED  BY <2>1, <2>5, <2>7, <2>8 DEF k
<1> QED  BY <1>12, <1>13 DEF u

LEMMA TraceRowsLength ==
  ASSUME NEW n, IsTraceLength(n), NEW witness, NEW alteration
  PROVE  /\ IsVector(TraceRows(witness, n, alteration), n)
         /\ \A c \in 1 .. n \div kBatchHeight :
              IsVector(TraceRows(witness, n, alteration)[c * kBatchHeight], kStateSize)
<1> DEFINE b == n \div kBatchHeight
           hashes == TraceHashes(witness, 3 * b, alteration)
           rows == TraceRows(witness, n, alteration)
<1>1. b \in Nat \ {0} /\ n = b * kBatchHeight
  BY TraceBatches
<1>2. rows = RowsOf(hashes)
  BY DEF TraceRows, kHashesPerBatch
<1> HIDE DEF b, rows
<1>3. AreHashes(hashes, 3 * b)
  BY <1>1, TraceHashesLength
<1> HIDE DEF hashes
<1>4. IsVector(rows, n) /\ \A c \in 1 .. b : rows[c * kBatchHeight] = hashes[3 * c].last
  BY <1>1, <1>2, <1>3, RowsLength
<1>5. \A c \in 1 .. b : 3 * c \in 1 .. 3 * b
  BY <1>1
<1>6. \A c \in 1 .. b : IsVector(rows[c * kBatchHeight], kStateSize)
  BY <1>3, <1>4, <1>5 DEF AreHashes, IsHash
<1> QED  BY <1>4, <1>6 DEF b, rows

LEMMA ColumnsLength ==
  ASSUME NEW rows, NEW n \in Nat, Len(rows) = n
  PROVE  /\ IsVector(ColumnsOf(rows), kStateSize)
         /\ \A i \in 1 .. kStateSize : IsVector(ColumnsOf(rows)[i], n)
<1> DEFINE g(i) == [row \in 1 .. n |-> rows[row - 1 + 1][i - 1 + 1]]
           f == [i \in 1 .. kStateSize |-> <<>> \o g(i)]
           u == ColumnsOf(rows)
<1>1. u = <<>> \o f
  BY DEF ColumnsOf, Vector
<1>2. \A i : g(i) = [row \in 1 .. n |-> g(i)[row]]
  OBVIOUS
<1> HIDE DEF g, u
<1>3. \A i : IsVector(<<>> \o g(i), n)
  BY <1>2, VectorFacts
<1>4. f = [i \in 1 .. kStateSize |-> f[i]] /\ \A i \in 1 .. kStateSize : f[i] = <<>> \o g(i)
  OBVIOUS
<1> HIDE DEF f
<1>5. kStateSize \in Nat
  BY MaskFacts
<1>6. IsVector(u, kStateSize) /\ \A i \in 1 .. kStateSize : u[i] = f[i]
  BY <1>1, <1>4, <1>5, VectorFacts
<1>7. \A i \in 1 .. kStateSize : IsVector(u[i], n)
  BY <1>3, <1>4, <1>6
<1> QED  BY <1>6, <1>7 DEF u

LEMMA ClaimedOutputLength ==
  ASSUME setup \in Setups, StatementAllowed(setup.chain_length),
         Len(setup.witness) = setup.chain_length + 1
  PROVE  Len(ClaimedOutput(TraceLength(setup.chain_length))) = kWordSize
<1> DEFINE n == TraceLength(setup.chain_length)
           c == setup.chain_length \div 3
           row == Rows(n)[OutputRow(setup.chain_length) + 1]
           chain == PublicInputFromPrivateInput(setup.witness)
<1>1. IsTraceLength(n) /\ c \in 1 .. n \div kBatchHeight
  BY StatementLength
<1>2. setup.chain_length \in Nat /\ setup.chain_length > 0
  BY TraceLengthFacts DEF StatementAllowed
<1>3. kWordSize \in Nat
  BY RescueAssumption
<1> HIDE DEF n, c, row, chain
<1>4. IsVector(LeftWord(row), kWordSize)
  <2>1. OutputRow(setup.chain_length) + 1 = c * kBatchHeight
    <3>1. c \in Nat /\ kBatchHeight \in Nat
      BY <1>2, BatchHeight DEF c
    <3>2. OutputRow(setup.chain_length) + 1 = kBatchHeight * (c - 1) + kBatchHeight - 1 + 1
      BY DEF OutputRow, c
    <3> QED  BY <3>1, <3>2
  <2>2. row = Rows(n)[c * kBatchHeight]
    BY <2>1 DEF row
  <2>3. \A alteration :
          IsVector(TraceRows(setup.witness, n, alteration)[c * kBatchHeight], kStateSize)
    BY <1>1, TraceRowsLength
  <2>4. IsVector(row, kStateSize)
    BY <2>2, <2>3 DEF Rows
  <2> QED  BY <2>4, LeftWordLength
<1>5. IsVector(chain, kWordSize)
  BY <1>2, PublicInputLength DEF chain
<1>6. IsVector(Incremented(chain), kWordSize)
  BY <1>3, <1>5, ChangedVector DEF Incremented
<1>7. ClaimedOutput(n) \in {LeftWord(row), Incremented(chain), chain}
  BY DEF ClaimedOutput, row, chain
<1> QED  BY <1>4, <1>5, <1>6, <1>7 DEF IsVector, n

\* Of columns with a power of two of rows.
LEMMA TracePolynomials ==
  ASSUME NEW columns, NEW m \in Nat, IsVector(columns, m), NEW n, IsPowerOfTwo(n),
         \A i \in 1 .. m : IsVector(columns[i], n), NEW coset, NEW natural
  PROVE  LET t == TraceOf(columns, coset, natural) IN
         \A i \in DOMAIN t.columns : Len(t.columns[i]) = n
<1> DEFINE f == [i \in 1 .. m |-> AddEvaluation(columns[i - 1 + 1], coset, natural)]
           u == TraceOf(columns, coset, natural).columns
<1>1. PICK k \in Exponents : n = Pow2[k]
  BY DEF IsPowerOfTwo
<1>2. \A i \in 1 .. m : IsVector(AddEvaluation(columns[i], coset, natural), n)
  BY <1>1, InterpolationLength
<1>3. u = <<>> \o f
  <2>1. u = Vector(Len(columns), LAMBDA i : AddEvaluation(columns[i + 1], coset, natural))
    BY DEF TraceOf
  <2>2. Len(columns) = m
    BY DEF IsVector
  <2> HIDE DEF u
  <2> QED  BY <2>1, <2>2 DEF Vector
<1>4. /\ f = [i \in 1 .. m |-> f[i]]
      /\ \A i \in 1 .. m : f[i] = AddEvaluation(columns[i], coset, natural)
  OBVIOUS
<1> HIDE DEF f, u
<1>5. IsVector(u, m) /\ \A i \in 1 .. m : u[i] = f[i]
  BY <1>3, <1>4, VectorFacts
<1>6. DOMAIN u = 1 .. m
  BY <1>5, SeqOfElements DEF IsVector
<1>7. \A i \in DOMAIN u : Len(u[i]) = n
  BY <1>2, <1>4, <1>5, <1>6 DEF IsVector
<1> QED  BY <1>7 DEF u

LEMMA EmbeddedColumnsLength ==
  ASSUME NEW columns, NEW m \in Nat, IsVector(columns, m), NEW n \in Nat,
         \A i \in 1 .. m : IsVector(columns[i], n)
  PROVE  /\ IsVector(EmbeddedColumns(columns), m)
         /\ \A i \in 1 .. m : IsVector(EmbeddedColumns(columns)[i], n)
<1> DEFINE f == [i \in 1 .. m |-> EmbeddedVector(columns[i - 1 + 1])]
           u == EmbeddedColumns(columns)
<1>1. u = <<>> \o f
  <2>1. Len(columns) = m
    BY DEF IsVector
  <2> QED  BY <2>1 DEF EmbeddedColumns, Vector
<1>2. \A i \in 1 .. m : IsVector(EmbeddedVector(columns[i]), n)
  BY EmbeddedLength DEF IsVector
<1>3. f = [i \in 1 .. m |-> f[i]] /\ \A i \in 1 .. m : f[i] = EmbeddedVector(columns[i])
  OBVIOUS
<1> HIDE DEF f, u
<1>4. IsVector(u, m) /\ \A i \in 1 .. m : u[i] = f[i]
  BY <1>1, <1>3, VectorFacts
<1> QED  BY <1>2, <1>3, <1>4 DEF u

-----------------------------------------------------------------------------
(* The type invariant. *)

ParamsTyped ==
  /\ IsPowerOfTwo(params.trace_length) /\ params.trace_length % kBatchHeight = 0
  /\ params.n_cosets \in {4, 8, 16, 32, 64, 128, 256, 512, 1024}

StatementTyped ==
  Len(statement.output) = kWordSize /\ statement.chain_length % kHashesPerBatch = 0

TraceTyped ==
  Len(trace) = kStateSize /\ \A i \in DOMAIN trace : Len(trace[i]) = params.trace_length

OriginalTyped == \A i \in DOMAIN original.columns : Len(original.columns[i]) = params.trace_length

CompositionTyped ==
  /\ Len(composition.columns) = NumBreaks
  /\ \A i \in DOMAIN composition.columns :
       Len(composition.columns[i]) = params.trace_length

LayerTyped == Len(first_layer) = params.trace_length * params.n_cosets

ConstraintsTyped(c) ==
  /\ Len(c) = Len(RescueMask) + kStateSize + NumBreaks
  /\ {c[i].coeff_idx : i \in DOMAIN c} = 0 .. Len(c) - 1
  /\ \A i \in DOMAIN c : c[i].column_index < kStateSize + NumBreaks

Typed ==
  /\ setup \in Setups
  /\ params # Nothing => ParamsTyped
  /\ statement # Nothing => StatementTyped
  /\ trace # Nothing => TraceTyped
  /\ original # Nothing => OriginalTyped
  /\ composition # Nothing => CompositionTyped
  /\ first_layer # Nothing => LayerTyped
  /\ boundary # Nothing => ConstraintsTyped(boundary)

\* What there is not before the parameters, and what the later calls count on.
ShapesRight ==
  /\ At("LoadParameters") =>
       /\ params = Nothing /\ statement = Nothing /\ trace = Nothing /\ original = Nothing
       /\ composition = Nothing /\ boundary = Nothing /\ first_layer = Nothing
  /\ stage \in Loaded =>
       /\ IsTraceLength(params.trace_length)
       /\ params.n_cosets \in {4, 8, 16, 32, 64, 128, 256, 512, 1024}
  /\ At("CommitOnTrace") =>
       /\ IsVector(trace, kStateSize)
       /\ \A i \in 1 .. kStateSize : IsVector(trace[i], params.trace_length)

TInv == IInv /\ ShapesRight /\ Typed

LEMMA TypeFollows == IInv /\ Typed => TypeOK
<1> SUFFICES ASSUME IInv, Typed  PROVE TypeOK
  OBVIOUS
<1>1. setup \in Setups /\ setup \in SetupType
  BY SetupAssumption DEF Typed
<1>2. setup.deviation.kind \in {"none", "output", "state", "sampled"}
  BY <1>1 DEF SetupType
<1>3. ASSUME NEW c \in {boundary, v_boundary} \ {Nothing}  PROVE ConstraintsTyped(c)
  <2>1. c = boundary
    BY <1>3 DEF IInv, InStep
  <2> QED  BY <1>3, <2>1 DEF Typed
<1> QED  BY <1>1, <1>2, <1>3 DEF Typed, TypeOK, ParamsTyped, StatementTyped, TraceTyped,
            OriginalTyped, CompositionTyped, LayerTyped, ConstraintsTyped

\* The constraints that the prover has grouped.
LEMMA BoundaryTyped == IInv /\ stage \in Sampled => ConstraintsTyped(boundary)
<1> SUFFICES ASSUME IInv, stage \in Sampled  PROVE ConstraintsTyped(boundary)
  OBVIOUS
<1> DEFINE n == 3 * kStateSize + 4
           conditions == ConditionsOf(AfterValues)
           c == boundary
<1>1. params.trace_length \in Nat \ {0} /\ c = GroupedByPoint(conditions)
  BY DEF IInv, SetupRight, PolynomialsRight, Loaded, Composed
<1>2. NumBreaks = 4
  BY <1>1, FourBreaks
<1>3. IsGrouping(GroupedByPoint(conditions), conditions, n) /\ AreConditions(conditions)
      /\ n \in Nat
  BY <1>1, BoundaryFacts
<1>4. /\ IsVector(c, n)
      /\ \A x \in 1 .. n : \E k \in 1 .. n : c[x] = ConstraintOf(conditions[k], k - 1)
      /\ \A k \in 1 .. n : \E x \in 1 .. n : c[x] = ConstraintOf(conditions[k], k - 1)
      /\ \A k \in 1 .. n : conditions[k].column_index \in 0 .. kStateSize + 3
  BY <1>1, <1>3 DEF IsGrouping, AreConditions
<1> HIDE DEF conditions, c
<1>5. Len(c) = n /\ DOMAIN c = 1 .. n
  BY <1>4, SeqOfElements DEF IsVector
<1>6. Len(RescueMask) = 2 * kStateSize /\ kStateSize \in Nat
  BY MaskFacts DEF IsVector
<1>7. Len(c) = Len(RescueMask) + kStateSize + NumBreaks
  BY <1>2, <1>5, <1>6
<1> HIDE DEF n
<1>8. ASSUME NEW x \in 1 .. n
      PROVE  c[x].coeff_idx \in 0 .. n - 1 /\ c[x].column_index < kStateSize + 4
  <2>1. PICK k \in 1 .. n : c[x] = ConstraintOf(conditions[k], k - 1)
    BY <1>4
  <2>2. c[x].coeff_idx = k - 1 /\ c[x].column_index = conditions[k].column_index
    BY <2>1 DEF ConstraintOf
  <2>3. conditions[k].column_index \in 0 .. kStateSize + 3
    BY <1>4
  <2> QED  BY <1>3, <1>6, <2>2, <2>3
<1>9. ASSUME NEW j \in 0 .. n - 1  PROVE \E x \in 1 .. n : c[x].coeff_idx = j
  <2>1. j + 1 \in 1 .. n /\ (j + 1) - 1 = j
    BY <1>3
  <2>2. PICK x \in 1 .. n : c[x] = ConstraintOf(conditions[j + 1], (j + 1) - 1)
    BY <1>4, <2>1
  <2>3. c[x].coeff_idx = j
    BY <2>1, <2>2 DEF ConstraintOf
  <2> QED  BY <2>3
<1>10. {c[i].coeff_idx : i \in 1 .. n} = 0 .. n - 1
  BY <1>8, <1>9
<1>11. ConstraintsTyped(c)
  BY <1>2, <1>5, <1>7, <1>8, <1>10 DEF ConstraintsTyped
<1> QED  BY <1>11 DEF c

LEMMA BoundaryTypedNext == (IInv /\ stage \in Sampled => ConstraintsTyped(boundary))'
  BY BoundaryTyped, PTL

LEMMA SetupStays == IInv => setup \in Setups
  BY DEF IInv, SetupRight

LEMMA StaysTyped ==
  ASSUME Typed, UNCHANGED <<setup, params, statement>>,
         trace' = trace \/ TraceTyped', original' = original \/ OriginalTyped',
         composition' = composition \/ CompositionTyped',
         first_layer' = first_layer \/ LayerTyped',
         boundary' = boundary \/ ConstraintsTyped(boundary)'
  PROVE  Typed'
<1>1. NumBreaks' = NumBreaks
  BY DEF NumBreaks, ConstraintsDegreeBound, CompositionDegreeBound
<1>2. setup' \in Setups
  BY DEF Typed
<1>3. (params # Nothing => ParamsTyped)'
  BY DEF Typed, ParamsTyped
<1>4. (statement # Nothing => StatementTyped)'
  BY DEF Typed, StatementTyped
<1>5. (trace # Nothing => TraceTyped)'
  BY DEF Typed, TraceTyped
<1>6. (original # Nothing => OriginalTyped)'
  BY DEF Typed, OriginalTyped
<1>7. (composition # Nothing => CompositionTyped)'
  BY <1>1 DEF Typed, CompositionTyped
<1>8. (first_layer # Nothing => LayerTyped)'
  BY DEF Typed, LayerTyped
<1>9. (boundary # Nothing => ConstraintsTyped(boundary))'
  <2>1. CASE boundary' = boundary
    <3>1. ConstraintsTyped(boundary) => ConstraintsTyped(boundary)'
      BY <1>1, <2>1 DEF ConstraintsTyped
    <3> QED  BY <2>1, <3>1 DEF Typed
  <2>2. CASE ConstraintsTyped(boundary)'
    BY <2>2
  <2> QED  BY <2>1, <2>2
<1> QED  BY <1>2, <1>3, <1>4, <1>5, <1>6, <1>7, <1>8, <1>9 DEF Typed

LEMMA StaysShaped ==
  ASSUME ShapesRight, stage \in Loaded, stage' \in (Loaded \ {"CommitOnTrace"}) \cup Ends,
         UNCHANGED params
  PROVE  ShapesRight'
<1>1. stage' # "LoadParameters" /\ stage' # "CommitOnTrace"
  BY DEF Loaded, Composed, Sampled, Proved, VerifierStages, Ends
<1> QED  BY <1>1 DEF ShapesRight, At

LEMMA LoadParametersTyped ==
  ASSUME TInv, LoadParameters
  PROVE  ShapesRight' /\ Typed'
<1> USE DEF LoadParameters
<1>1. /\ At("LoadParameters") /\ setup \in Setups
      /\ UNCHANGED <<setup, trace, original, composition, boundary, first_layer>>
      /\ params = Nothing /\ statement = Nothing /\ trace = Nothing /\ original = Nothing
      /\ composition = Nothing /\ boundary = Nothing /\ first_layer = Nothing
  BY DEF TInv, ShapesRight, Typed
<1> DEFINE n == TraceLength(setup.chain_length)
           Allowed == /\ StatementAllowed(setup.chain_length)
                      /\ Len(setup.witness) = setup.chain_length + 1
                      /\ StarkParametersAllowed(n)
<1>2. CASE ~Allowed
  <2>1. stage' = "refused" /\ UNCHANGED <<params, statement>>
    BY <1>2
  <2>2. ShapesRight'
    BY <2>1 DEF ShapesRight, At, Loaded, Composed, Sampled, Proved, VerifierStages
  <2> QED  BY <1>1, <2>1, <2>2, StaysTyped DEF TInv
<1>3. CASE Allowed
  <2>1. /\ params' = [trace_length |-> n, n_cosets |-> Pow2[setup.log_n_cosets]]
        /\ statement' = [chain_length |-> setup.chain_length, output |-> ClaimedOutput(n)]
        /\ stage' = "GetTrace"
    BY <1>3
  <2>2. IsTraceLength(n) /\ setup.chain_length % kHashesPerBatch = 0
    BY <1>1, <1>3, StatementLength
  <2>3. Len(ClaimedOutput(n)) = kWordSize
    BY <1>1, <1>3, ClaimedOutputLength
  <2>4. setup.log_n_cosets \in Nat
    BY <1>1, SetupAssumption DEF SetupType
  <2>5. setup.log_n_cosets \in 2 .. 10
    <3>1. n \in Nat \ {0}
      BY <2>2, TraceBatches
    <3> HIDE DEF n
    <3>2. CompositionDegreeBound(n) \div n = 4
      <4>1. 0 \in 0 .. n - 1 /\ (n * 4 + 0) \div n = 4
        BY <3>1, Quotient
      <4> QED  BY <3>1, <4>1 DEF CompositionDegreeBound
    <3>3. setup.log_n_cosets >= 2 /\ setup.log_n_cosets <= 10
      BY <1>3, <3>2, LogOfFourIsTwo DEF StarkParametersAllowed
    <3> QED  BY <2>4, <3>3
  <2>6. Pow2[setup.log_n_cosets] \in {4, 8, 16, 32, 64, 128, 256, 512, 1024}
    BY <2>5, CosetNumbers
  <2> HIDE DEF n
  <2>7. n % kBatchHeight = 0 /\ IsPowerOfTwo(n)
    BY <2>2, TraceBatches DEF IsTraceLength
  <2>8. params'.trace_length = n /\ params'.n_cosets = Pow2[setup.log_n_cosets]
    BY <2>1
  <2>9. statement'.chain_length = setup.chain_length /\ statement'.output = ClaimedOutput(n)
    BY <2>1
  <2>10. ParamsTyped'
    BY <2>6, <2>7, <2>8 DEF ParamsTyped
  <2>11. StatementTyped'
    BY <2>2, <2>3, <2>9 DEF StatementTyped
  <2>12. ShapesRight'
    BY <2>1, <2>2, <2>6, <2>8 DEF ShapesRight, At
  <2>13. Typed'
    BY <1>1, <2>10, <2>11 DEF Typed
  <2> QED  BY <2>12, <2>13
<1> QED  BY <1>2, <1>3

LEMMA GetTraceTyped ==
  ASSUME TInv, GetTrace
  PROVE  ShapesRight' /\ Typed'
<1> DEFINE n == params.trace_length
<1>1. /\ At("GetTrace") /\ trace' = ColumnsOf(Rows(n))
      /\ stage' \in {"CommitOnTrace", "failed"}
      /\ UNCHANGED <<setup, params, statement, original, composition, boundary, first_layer>>
  BY DEF GetTrace
<1>2. stage \in Loaded /\ IsTraceLength(n)
  BY <1>1 DEF At, Loaded, TInv, ShapesRight
<1>3. n \in Nat
  BY <1>2, TraceBatches
<1>4. IsVector(Rows(n), n)
  BY <1>2, TraceRowsLength DEF Rows
<1> DEFINE u == ColumnsOf(Rows(n))
<1>5. IsVector(u, kStateSize) /\ \A i \in 1 .. kStateSize : IsVector(u[i], n)
  BY <1>3, <1>4, ColumnsLength DEF IsVector
<1> HIDE DEF u, n
<1>6. trace' = u
  BY <1>1 DEF u
<1>7. Len(u) = kStateSize /\ DOMAIN u = 1 .. kStateSize
  BY <1>5, SeqOfElements DEF IsVector
<1>8. TraceTyped'
  <2>1. \A i \in DOMAIN u : Len(u[i]) = n
    BY <1>5, <1>7 DEF IsVector
  <2>2. params'.trace_length = n
    BY <1>1 DEF n
  <2> QED  BY <1>6, <1>7, <2>1, <2>2 DEF TraceTyped
<1>9. Typed'
  BY <1>1, <1>8, StaysTyped DEF TInv
<1>10. ShapesRight'
  <2>1. stage' # "LoadParameters"
    BY <1>1
  <2>2. params' = params
    BY <1>1
  <2> QED  BY <1>2, <1>5, <1>6, <2>1, <2>2 DEF TInv, ShapesRight, At, n
<1> QED  BY <1>9, <1>10

LEMMA CommitOnTraceTyped ==
  ASSUME TInv, CommitOnTrace
  PROVE  ShapesRight' /\ Typed'
<1> DEFINE n == params.trace_length
           columns == EmbeddedColumns(trace)
           coset == CosetOf(params.trace_length, BaseOne)
<1>1. /\ At("CommitOnTrace") /\ original' = TraceOf(columns, coset, TRUE)
      /\ stage' = "CreateCompositionPolynomial"
      /\ UNCHANGED <<setup, params, statement, trace, composition, boundary, first_layer>>
  BY DEF CommitOnTrace
<1>2. /\ stage \in Loaded /\ IsTraceLength(n)
      /\ IsVector(trace, kStateSize) /\ \A i \in 1 .. kStateSize : IsVector(trace[i], n)
  BY <1>1 DEF At, Loaded, TInv, ShapesRight
<1>3. n \in Nat /\ IsPowerOfTwo(n) /\ kStateSize \in Nat
  BY <1>2, TraceBatches, MaskFacts DEF IsTraceLength
<1>4. IsVector(columns, kStateSize) /\ \A i \in 1 .. kStateSize : IsVector(columns[i], n)
  BY <1>2, <1>3, EmbeddedColumnsLength
<1> DEFINE t == TraceOf(columns, coset, TRUE)
<1> HIDE DEF columns, coset, n
<1>5. \A i \in DOMAIN t.columns : Len(t.columns[i]) = n
  BY <1>3, <1>4, TracePolynomials
<1> HIDE DEF t
<1>6. original' = t /\ params'.trace_length = n
  BY <1>1 DEF t, n
<1>7. OriginalTyped'
  BY <1>5, <1>6 DEF OriginalTyped
<1>8. Typed'
  BY <1>1, <1>7, StaysTyped DEF TInv
<1>9. ShapesRight'
  <2>1. stage' \in Loaded \ {"CommitOnTrace"}
    BY <1>1 DEF Loaded
  <2> QED  BY <1>1, <1>2, <2>1, StaysShaped DEF TInv
<1> QED  BY <1>8, <1>9

LEMMA CommitOnCompositionTyped ==
  ASSUME TInv, CommitOnComposition
  PROVE  ShapesRight' /\ Typed'
<1> DEFINE n == params.trace_length
           evaluation == EvalComposition(polynomial, RescueMask, original, NoTrace, NumBreaks,
                                         params.n_cosets, setup.task_size)
           domain == CompositionEvalDomain
           c == BreakCompositionPolynomial(evaluation, 4, domain)
<1>1. /\ At("CommitOnComposition") /\ stage' \in {"ProveOods", "failed"}
      /\ UNCHANGED <<setup, params, statement, trace, original, boundary, first_layer>>
      /\ composition' = BreakCompositionPolynomial(evaluation, NumBreaks, domain)
         \/ composition' = composition
  BY DEF CommitOnComposition
<1>2. stage \in Loaded /\ stage \in Composed /\ IsTraceLength(n)
  BY <1>1 DEF At, Loaded, Composed, TInv, ShapesRight
<1>3. n \in Nat \ {0} /\ IsPowerOfTwo(n)
  BY <1>2, TraceBatches DEF IsTraceLength
<1>4. NumBreaks = 4
  BY <1>3, FourBreaks
<1>5. polynomial.coset_size = n
  <2>1. polynomial = AirPolynomial(AfterCoefficients)
    BY <1>2 DEF TInv, IInv, PolynomialsRight
  <2> QED  BY <2>1 DEF AirPolynomial, RescuePolynomial
<1>6. IsVector(evaluation, 4 * n)
  BY <1>3, <1>4, <1>5, EvaluationLength
<1>7. PICK k \in Exponents : n = Pow2[k]
  BY <1>3 DEF IsPowerOfTwo
<1> HIDE DEF evaluation, domain, n
<1>8. Len(c.columns) = 4 /\ \A i \in 1 .. 4 : Len(c.columns[i]) = n
  <2>1. Len(c.columns) = 4
    BY BrokenColumns
  <2>2. IsVector(evaluation, 4 * Pow2[k])
    BY <1>6, <1>7
  <2>3. \A i \in 1 .. 4 : Len(c.columns[i]) = Pow2[k]
    BY <2>2, BrokenColumnsLength
  <2> QED  BY <1>7, <2>1, <2>3
<1>9. DOMAIN c.columns = 1 .. 4
  <2>1. IsVector(evaluation, 4 * Pow2[k])
    BY <1>6, <1>7
  <2> QED  BY <2>1, BrokenColumnsLength
<1> HIDE DEF c
<1>10. composition' = c \/ composition' = composition
  BY <1>1, <1>4 DEF c
<1>11. composition' = composition \/ CompositionTyped'
  <2>1. SUFFICES ASSUME composition' = c  PROVE CompositionTyped'
    BY <1>10
  <2>2. params'.trace_length = n /\ NumBreaks' = 4
    BY <1>1, <1>4 DEF n, NumBreaks, ConstraintsDegreeBound, CompositionDegreeBound
  <2> QED  BY <1>8, <1>9, <2>1, <2>2 DEF CompositionTyped
<1>12. Typed'
  BY <1>1, <1>11, StaysTyped DEF TInv
<1>13. ShapesRight'
  <2>1. stage' \in (Loaded \ {"CommitOnTrace"}) \cup Ends
    BY <1>1 DEF Loaded, Composed, Ends
  <2> QED  BY <1>1, <1>2, <2>1, StaysShaped DEF TInv
<1> QED  BY <1>12, <1>13

LEMMA ProveOodsTyped ==
  ASSUME TInv, ProveOods, IInv'
  PROVE  ShapesRight' /\ Typed'
<1>1. /\ At("ProveOods") /\ stage' = "CreateOodsPolynomial"
      /\ UNCHANGED <<setup, params, statement, trace, original, composition, first_layer>>
  BY DEF ProveOods
<1>2. stage \in Loaded /\ stage' \in Sampled' /\ stage' \in Loaded \ {"CommitOnTrace"}
  BY <1>1 DEF At, Loaded, Composed, Sampled
<1>3. ConstraintsTyped(boundary)'
  BY <1>2, BoundaryTypedNext
<1>4. Typed'
  BY <1>1, <1>3, StaysTyped DEF TInv
<1>5. ShapesRight'
  BY <1>1, <1>2, StaysShaped DEF TInv
<1> QED  BY <1>4, <1>5

LEMMA PerformLowDegreeTestTyped ==
  ASSUME TInv, PerformLowDegreeTest
  PROVE  ShapesRight' /\ Typed'
<1> DEFINE n == params.trace_length
           m == params.n_cosets
           mask == BoundaryMask(kStateSize + NumBreaks)
           layer == EvalComposition(oods_polynomial, mask, original, composition, m, m,
                                    setup.task_size)
<1>1. /\ At("PerformLowDegreeTest") /\ stage' \in {"StartVerifier", "failed"}
      /\ UNCHANGED <<setup, params, statement, trace, original, composition, boundary>>
      /\ first_layer' = layer
  BY DEF PerformLowDegreeTest
<1>2. /\ stage \in Loaded /\ stage \in Proved /\ IsTraceLength(n)
      /\ m \in {4, 8, 16, 32, 64, 128, 256, 512, 1024}
  BY <1>1 DEF At, Loaded, Composed, Sampled, Proved, TInv, ShapesRight
<1>3. n \in Nat \ {0} /\ m \in Nat \ {0}
  BY <1>2, TraceBatches
<1>4. oods_polynomial.coset_size = n
  <2>1. oods_polynomial = OodsPolynomial(transcript, boundary)
    BY <1>2 DEF TInv, IInv, PolynomialsRight
  <2> QED  BY <2>1 DEF OodsPolynomial, BoundaryPolynomial
<1> HIDE DEF n, m, mask
<1>5. IsVector(layer, m * n)
  BY <1>3, <1>4, EvaluationLength
<1> HIDE DEF layer
<1>6. LayerTyped'
  <2>1. Len(first_layer') = n * m
    BY <1>1, <1>3, <1>5 DEF IsVector
  <2>2. params'.trace_length = n /\ params'.n_cosets = m
    BY <1>1 DEF n, m
  <2> QED  BY <2>1, <2>2 DEF LayerTyped
<1>7. Typed'
  BY <1>1, <1>6, StaysTyped DEF TInv
<1>8. ShapesRight'
  <2>1. stage' \in (Loaded \ {"CommitOnTrace"}) \cup Ends
    BY <1>1 DEF Loaded, Composed, Sampled, Proved, Ends
  <2> QED  BY <1>1, <1>2, <2>1, StaysShaped DEF TInv
<1> QED  BY <1>7, <1>8

\* The other calls of either side keep what the type invariant is about.
OtherCall ==
  \/ CreateCompositionPolynomial \/ CreateOodsPolynomial \/ StartVerifier
  \/ ReadTraceCommitment \/ VerifierCompositionPolynomial \/ ReadCompositionCommitment
  \/ VerifyOods \/ VerifierOodsPolynomial \/ VerifierLowDegreeTest

LEMMA OtherCallTyped ==
  ASSUME TInv, OtherCall
  PROVE  ShapesRight' /\ Typed'
<1>1. /\ stage \in Loaded /\ stage' \in (Loaded \ {"CommitOnTrace"}) \cup Ends
      /\ UNCHANGED <<setup, params, statement, trace, original, composition, first_layer,
                     boundary>>
  <2> USE DEF At, Loaded, Composed, Sampled, Proved, VerifierStages, Ends, proverVars,
              verifierVars
  <2>1. CASE CreateCompositionPolynomial
    BY <2>1 DEF CreateCompositionPolynomial
  <2>2. CASE CreateOodsPolynomial
    BY <2>2 DEF CreateOodsPolynomial
  <2>3. CASE StartVerifier
    BY <2>3 DEF StartVerifier
  <2>4. CASE ReadTraceCommitment
    BY <2>4 DEF ReadTraceCommitment
  <2>5. CASE VerifierCompositionPolynomial
    BY <2>5 DEF VerifierCompositionPolynomial
  <2>6. CASE ReadCompositionCommitment
    BY <2>6 DEF ReadCompositionCommitment
  <2>7. CASE VerifyOods
    BY <2>7 DEF VerifyOods
  <2>8. CASE VerifierOodsPolynomial
    BY <2>8 DEF VerifierOodsPolynomial
  <2>9. CASE VerifierLowDegreeTest
    BY <2>9 DEF VerifierLowDegreeTest
  <2> QED  BY <2>1, <2>2, <2>3, <2>4, <2>5, <2>6, <2>7, <2>8, <2>9 DEF OtherCall
<1>2. Typed'
  BY <1>1, StaysTyped DEF TInv
<1>3. ShapesRight'
  BY <1>1, StaysShaped DEF TInv
<1> QED  BY <1>2, <1>3

LEMMA InitTyped == Init => TInv
<1> SUFFICES ASSUME Init  PROVE TInv
  OBVIOUS
<1>1. IInv
  BY InitInvariant
<1>2. ShapesRight
  BY DEF Init, ShapesRight, At, Loaded, Composed, Sampled, Proved, VerifierStages
<1>3. Typed
  BY DEF Init, Typed
<1> QED  BY <1>1, <1>2, <1>3 DEF TInv

LEMMA StepTyped == TInv /\ [Next]_vars => TInv'
<1> SUFFICES ASSUME TInv, [Next]_vars  PROVE TInv'
  OBVIOUS
<1>1. IInv'
  BY StepInvariant DEF TInv
<1>2. CASE UNCHANGED vars
  <2>1. UNCHANGED <<setup, stage, params, statement, trace, original, composition, first_layer,
                    boundary>>
    BY <1>2 DEF vars, proverVars
  <2>2. Typed'
    BY <2>1, StaysTyped DEF TInv
  <2>3. ShapesRight'
    BY <2>1 DEF TInv, ShapesRight, At
  <2> QED  BY <1>1, <2>2, <2>3 DEF TInv
<1>3. CASE LoadParameters
  BY <1>1, <1>3, LoadParametersTyped DEF TInv
<1>4. CASE GetTrace
  BY <1>1, <1>4, GetTraceTyped DEF TInv
<1>5. CASE CommitOnTrace
  BY <1>1, <1>5, CommitOnTraceTyped DEF TInv
<1>6. CASE CommitOnComposition
  BY <1>1, <1>6, CommitOnCompositionTyped DEF TInv
<1>7. CASE ProveOods
  BY <1>1, <1>7, ProveOodsTyped DEF TInv
<1>8. CASE PerformLowDegreeTest
  BY <1>1, <1>8, PerformLowDegreeTestTyped DEF TInv
<1>9. CASE OtherCall
  BY <1>1, <1>9, OtherCallTyped DEF TInv
<1> QED  BY <1>2, <1>3, <1>4, <1>5, <1>6, <1>7, <1>8, <1>9 DEF Next, OtherCall, Terminated

\* What there is of a run at each stage: a trace of kStateSize columns and a power of two of
\* rows, their polynomials of as many coefficients, four broken columns of the same size, a
\* first layer of all cosets, and one constraint for each value that was sampled, whatever
\* the parameters, the witness and the deviation (stark.cc, oods.cc 30-91).
THEOREM TypeCorrect == Spec => []TypeOK
<1>1. IInv /\ Typed => TypeOK
  BY TypeFollows
<1>2. TInv => TypeOK
  BY <1>1 DEF TInv
<1> QED  BY <1>2, InitTyped, StepTyped, PTL DEF Spec

-----------------------------------------------------------------------------
(* The arithmetic on words of BaseField and ExtensionField, for every odd modulus and *)
(* word with the room of FieldAssumption.                                              *)

\* What a field element is kept as.
Reduced == 0 .. kModulus - 1

\* The sizes of a word and of the modulus.
LEMMA WordFacts ==
  /\ kModulus \in Nat \ {0} /\ Word \in Nat \ {0}
  /\ Word \div 2 \in Nat /\ Word = 2 * (Word \div 2) /\ 2 * kModulus < Word \div 2
  BY FieldAssumption

\* Going round a word once, in a subtraction or an addition.
LEMMA WordModulo ==
  ASSUME NEW val \in Int, -Word <= val, val < Word
  PROVE  val % Word = IF val >= 0 THEN val ELSE val + Word
  <1>1. CASE val >= 0
    BY <1>1, WordFacts
  <1>2. CASE val < 0
    BY <1>2, WordFacts
  <1>3. QED
    BY <1>1, <1>2

\* ReduceIfNeeded is one conditional subtraction: what has overflowed by less than the modulus
\* is never taken for a negative number (base_field_element.h 105-112).
LEMMA ReduceIsModulo ==
  ASSUME NEW val \in 0 .. 2 * kModulus - 1
  PROVE  /\ ReduceIfNeeded(val) = IF val < kModulus THEN val ELSE val - kModulus
         /\ ReduceIfNeeded(val) \in Reduced
  <1>1. (val - kModulus) % Word = IF val >= kModulus THEN val - kModulus ELSE val - kModulus + Word
    BY WordFacts, WordModulo
  <1>2. QED
    BY <1>1, WordFacts DEF ReduceIfNeeded, IsNegative, TopBit, Reduced

\* The sum of two elements is reduced, and that of the integers up to one modulus
\* (base_field_element.h 52-54).
THEOREM SumIsExact ==
  ASSUME NEW x \in Reduced, NEW y \in Reduced
  PROVE  /\ BaseAdd(x, y) \in Reduced
         /\ BaseAdd(x, y) = IF x + y < kModulus THEN x + y ELSE x + y - kModulus
  <1>1. (x + y) % Word = x + y
    BY WordFacts, WordModulo DEF Reduced
  <1>2. QED
    BY <1>1, WordFacts, ReduceIsModulo DEF BaseAdd, Reduced

\* The difference of two elements is reduced: the sign bit tells when the modulus is to be
\* added (base_field_element.h 56-59).
THEOREM DifferenceIsExact ==
  ASSUME NEW x \in Reduced, NEW y \in Reduced
  PROVE  /\ BaseSub(x, y) \in Reduced
         /\ BaseSub(x, y) = IF x >= y THEN x - y ELSE x - y + kModulus
  <1>1. (x - y) % Word = IF x >= y THEN x - y ELSE x - y + Word
    BY WordFacts, WordModulo DEF Reduced
  <1>2. CASE x >= y
    BY <1>1, <1>2, WordFacts DEF BaseSub, IsNegative, TopBit, Reduced
  <1>3. CASE x < y
    <2>1. x - y + Word + kModulus = (x - y + kModulus) + Word
      BY WordFacts DEF Reduced
    <2>2. (x - y + Word + kModulus) % Word = x - y + kModulus
      BY <1>3, WordFacts DEF Reduced
    <2>3. QED
      BY <1>1, <1>3, <2>2, WordFacts DEF BaseSub, IsNegative, TopBit, Reduced
  <1>4. QED
    BY <1>2, <1>3 DEF Reduced

\* A multiple of d has remainder zero.
LEMMA MultipleHasNoRemainder ==
  ASSUME NEW b \in Int, NEW k \in Int, NEW d \in Nat \ {0}, b = k * d
  PROVE  b % d = 0
  <1> DEFINE a == 0
  <1>1. a \in Int /\ b = a + k * d /\ a % d = 0
    OBVIOUS
  <1> HIDE DEF a
  <1>2. QED
    BY <1>1, SameRemainder

\* kMontgomeryMPrime is minus the inverse of the modulus.
LEMMA MPrimeFacts ==
  /\ kMontgomeryMPrime \in Words
  /\ (kMontgomeryMPrime * kModulus) % Word = Word - 1
  BY FieldAssumption

\* Multiplication is monotonous.
LEMMA ProductBound ==
  ASSUME NEW a \in Nat, NEW b \in Nat, NEW c \in Nat, a <= b
  PROVE  a * c \in Nat /\ a * c <= b * c
  <1>1. b * c = a * c + (b - a) * c
    OBVIOUS
  <1>2. (b - a) * c \in Nat /\ a * c \in Nat
    OBVIOUS
  <1>3. QED
    BY <1>1, <1>2

\* The lower word of kModulus * u + mul_res is zero, as an assertion of the code says, so
\* that the division is exact (base_field_element.h 121-126).
LEMMA MontgomerySum ==
  ASSUME NEW m \in Nat
  PROVE  LET u == ((m % Word) * kMontgomeryMPrime) % Word
         IN  u \in 0 .. Word - 1 /\ (kModulus * u + m) % Word = 0
  <1> DEFINE low == m % Word
             a == m \div Word
             u == (low * kMontgomeryMPrime) % Word
             b == (low * kMontgomeryMPrime) \div Word
             c == (kMontgomeryMPrime * kModulus) \div Word
  <1>1. low \in 0 .. Word - 1 /\ a \in Int /\ m = a * Word + low
    BY WordFacts, Divided
  <1>2. low * kMontgomeryMPrime \in Int
    BY <1>1, MPrimeFacts, WordFacts DEF Words
  <1>3. u \in 0 .. Word - 1 /\ b \in Int /\ low * kMontgomeryMPrime = b * Word + u
    BY <1>2, WordFacts, Divided
  <1>4. kMontgomeryMPrime * kModulus \in Int
    BY MPrimeFacts, WordFacts DEF Words
  <1>5. c \in Int /\ kMontgomeryMPrime * kModulus = c * Word + (Word - 1)
    BY <1>4, MPrimeFacts, WordFacts, Divided
  <1>6. kMontgomeryMPrime \in Int
    BY MPrimeFacts, WordFacts DEF Words
  <1> HIDE DEF low, a, u, b, c
  <1>7. kModulus * (low * kMontgomeryMPrime) = low * (kMontgomeryMPrime * kModulus)
    BY <1>1, <1>6, WordFacts
  <1>8. kModulus * (b * Word + u) = (kModulus * b) * Word + kModulus * u
    BY <1>3, WordFacts
  <1>9. low * (c * Word + (Word - 1)) = (low * (c + 1)) * Word - low
    BY <1>1, <1>5, WordFacts
  <1>10. kModulus * u = (low * (c + 1)) * Word - low - (kModulus * b) * Word
    <2>1. (kModulus * b) * Word + kModulus * u = (low * (c + 1)) * Word - low
      BY <1>3, <1>5, <1>7, <1>8, <1>9
    <2>2. (kModulus * b) * Word \in Int /\ kModulus * u \in Int /\ (low * (c + 1)) * Word \in Int
      BY <1>1, <1>3, <1>5, WordFacts
    <2>3. QED
      BY <2>1, <2>2, <1>1
  <1> DEFINE k == low * (c + 1) - kModulus * b + a
  <1>11. k \in Int /\ kModulus * u + m = k * Word
    <2>1. k * Word = (low * (c + 1)) * Word - (kModulus * b) * Word + a * Word
      BY <1>1, <1>3, <1>5, WordFacts
    <2>2. /\ k \in Int /\ (kModulus * b) * Word \in Int /\ (low * (c + 1)) * Word \in Int
          /\ a * Word \in Int
      BY <1>1, <1>3, <1>5, WordFacts
    <2> HIDE DEF k
    <2>3. QED
      BY <2>1, <2>2, <1>1, <1>10
  <1> DEFINE sum == kModulus * u + m
  <1>12. sum \in Int /\ sum = k * Word
    BY <1>3, <1>11, WordFacts
  <1> HIDE DEF k, sum
  <1>13. sum % Word = 0
    BY <1>11, <1>12, WordFacts, MultipleHasNoRemainder
  <1>14. QED
    BY <1>3, <1>13 DEF u, low, sum

\* One factor may be any word: the product is reduced by one conditional subtraction, and a
\* word times it is the product of the factors (base_field_element.h 114-129).
THEOREM ProductIsExact ==
  ASSUME NEW x \in Words, NEW y \in Reduced
  PROVE  /\ MontgomeryMul(x, y) \in Reduced
         /\ (MontgomeryMul(x, y) * Word) % kModulus = (x * y) % kModulus
  <1> DEFINE m == x * y
             u == ((m % Word) * kMontgomeryMPrime) % Word
             s == kModulus * u + m
             top == 2 * kModulus
  <1>1. x \in Nat /\ y \in Nat /\ x <= Word - 1 /\ y <= kModulus - 1
    BY WordFacts DEF Words, Reduced
  <1>2. m \in Nat /\ m <= (Word - 1) * (kModulus - 1)
    <2>1. x * y \in Nat /\ x * y <= (Word - 1) * y
      BY <1>1, WordFacts, ProductBound
    <2>2. y * (Word - 1) <= (kModulus - 1) * (Word - 1)
      BY <1>1, WordFacts, ProductBound
    <2>3. /\ y * (Word - 1) = (Word - 1) * y /\ (Word - 1) * y \in Int
          /\ (kModulus - 1) * (Word - 1) = (Word - 1) * (kModulus - 1)
          /\ (Word - 1) * (kModulus - 1) \in Int
      BY <1>1, WordFacts
    <2>4. QED
      BY <2>1, <2>2, <2>3
  <1>3. u \in 0 .. Word - 1 /\ s % Word = 0
    BY <1>2, MontgomerySum
  <1>4. MontgomeryMul(x, y) = ReduceIfNeeded(s \div Word)
    BY DEF MontgomeryMul
  <1> HIDE DEF m, u
  <1>5. s \in Nat /\ s = m + u * kModulus /\ s < top * Word
    <2>1. u * kModulus \in Nat /\ u * kModulus <= (Word - 1) * kModulus
      BY <1>3, WordFacts, ProductBound
    <2>2. kModulus * u = u * kModulus
      BY <1>3, WordFacts
    <2>3. /\ (Word - 1) * (kModulus - 1) + (Word - 1) * kModulus
               = top * Word - 2 * kModulus - Word + 1
          /\ top * Word \in Int
      BY WordFacts
    <2>4. (Word - 1) * (kModulus - 1) \in Int /\ (Word - 1) * kModulus \in Int
      BY WordFacts
    <2>5. QED
      BY <2>1, <2>2, <2>3, <2>4, <1>2, WordFacts
  <1> HIDE DEF s
  <1> DEFINE t == s \div Word
  <1>6. t \in Int /\ s = t * Word
    <2>1. s % Word = 0 /\ s \in Int /\ Word \in Nat \ {0}
      BY <1>3, <1>5, WordFacts
    <2>2. t \in Int /\ s = t * Word + (s % Word)
      BY <2>1, Divided
    <2>3. t * Word \in Int
      BY <2>1, <2>2
    <2>4. QED
      BY <2>1, <2>2, <2>3
  <1>top. top \in Nat /\ top = 2 * kModulus
    BY WordFacts
  <1> HIDE DEF t, top
  <1>7. t \in 0 .. 2 * kModulus - 1
    <2>1. t >= 0
      <3>1. CASE t <= -1
        <4>1. (-t - 1) * Word \in Nat /\ t * Word = -((-t - 1) * Word) - Word
          BY <3>1, <1>6, WordFacts
        <4>2. QED
          BY <4>1, <1>5, <1>6, WordFacts
      <3>2. QED
        BY <3>1, <1>6
    <2>2. t < top
      <3>1. CASE t >= top
        <4>1. top * Word <= t * Word /\ top * Word \in Nat
          BY <3>1, <2>1, <1>6, <1>top, WordFacts, ProductBound
        <4>2. QED
          BY <4>1, <1>5, <1>6
      <3>2. QED
        BY <3>1, <1>6, <1>top
    <2>3. QED
      BY <2>1, <2>2, <1>6, <1>top, WordFacts
  <1>8. MontgomeryMul(x, y) = t \/ MontgomeryMul(x, y) = t - kModulus
    BY <1>4, <1>7, ReduceIsModulo, WordFacts DEF t
  <1>9. MontgomeryMul(x, y) \in Reduced
    BY <1>4, <1>7, ReduceIsModulo DEF t
  <1>10. t * Word = m + u * kModulus /\ (t - kModulus) * Word = m + (u - Word) * kModulus
    BY <1>5, <1>6, <1>2, <1>3, WordFacts
  <1> DEFINE first == t * Word
             second == (t - kModulus) * Word
             u_less == u - Word
  <1>11. /\ u \in Int /\ u_less \in Int /\ first \in Int /\ second \in Int /\ m \in Int
         /\ first = m + u * kModulus /\ second = m + u_less * kModulus
    BY <1>2, <1>3, <1>6, <1>10, WordFacts
  <1> HIDE DEF first, second, u_less
  <1>12. first % kModulus = m % kModulus
    <2>1. /\ m \in Int /\ first \in Int /\ u \in Int /\ kModulus \in Nat \ {0}
          /\ first = m + u * kModulus
      BY <1>11, WordFacts
    <2>2. QED
      BY <2>1, SameRemainder
  <1>13. second % kModulus = m % kModulus
    <2>1. /\ m \in Int /\ second \in Int /\ u_less \in Int /\ kModulus \in Nat \ {0}
          /\ second = m + u_less * kModulus
      BY <1>11, WordFacts
    <2>2. QED
      BY <2>1, SameRemainder
  <1>14. QED
    BY <1>8, <1>9, <1>12, <1>13 DEF m, first, second

-----------------------------------------------------------------------------
(* Congruence modulo kModulus. *)

Congruent(a, b) == a % kModulus = b % kModulus

\* Numbers that differ by a multiple of the modulus are congruent.
LEMMA CongruentBy ==
  ASSUME NEW a \in Int, NEW b \in Int, NEW j \in Int, b = a + j * kModulus
  PROVE  Congruent(a, b)
  <1> PICK d : d = kModulus
    OBVIOUS
  <1>1. d \in Nat \ {0} /\ b = a + j * d
    BY WordFacts
  <1>2. b % d = a % d
    BY <1>1, SameRemainder
  <1>3. QED
    BY <1>2 DEF Congruent

\* The converse.
LEMMA CongruentMeans ==
  ASSUME NEW a \in Int, NEW b \in Int, Congruent(a, b)
  PROVE  \E j \in Int : b = a + j * kModulus
  <1> DEFINE p == a \div kModulus
             q == b \div kModulus
             r == a % kModulus
  <1>1. /\ p \in Int /\ a = p * kModulus + r /\ r \in Int
        /\ q \in Int /\ b = q * kModulus + r
    BY WordFacts, Divided DEF Congruent
  <1> HIDE DEF p, q, r
  <1>2. (q - p) * kModulus = q * kModulus - p * kModulus
    BY <1>1, WordFacts
  <1>3. q - p \in Int /\ b = a + (q - p) * kModulus
    <2>1. p * kModulus \in Int /\ q * kModulus \in Int
      BY <1>1, WordFacts
    <2>2. QED
      BY <2>1, <1>1, <1>2
  <1>4. QED
    BY <1>3

\* Congruent numbers have congruent multiples.
LEMMA CongruentTimes ==
  ASSUME NEW a \in Int, NEW b \in Int, NEW c \in Int, Congruent(a, b)
  PROVE  Congruent(a * c, b * c)
  <1>1. PICK j \in Int : b = a + j * kModulus
    BY CongruentMeans
  <1>2. b * c = a * c + (j * c) * kModulus
    BY <1>1, WordFacts
  <1> DEFINE ac == a * c
             bc == b * c
             jc == j * c
  <1>3. ac \in Int /\ bc \in Int /\ jc \in Int /\ bc = ac + jc * kModulus
    BY <1>2
  <1> HIDE DEF ac, bc, jc
  <1>4. Congruent(ac, bc)
    BY <1>3, CongruentBy
  <1>5. QED
    BY <1>4 DEF ac, bc

\* So have congruent factors.
LEMMA CongruentProducts ==
  ASSUME NEW a \in Int, NEW b \in Int, NEW c \in Int, NEW d \in Int,
         Congruent(a, b), Congruent(c, d)
  PROVE  Congruent(a * c, b * d)
  <1>1. Congruent(a * c, b * c)
    BY CongruentTimes
  <1>2. Congruent(c * b, d * b)
    BY CongruentTimes
  <1>3. c * b = b * c /\ d * b = b * d
    OBVIOUS
  <1>4. QED
    BY <1>1, <1>2, <1>3 DEF Congruent

\* The size of a word has an inverse, by kMontgomeryMPrime.
LEMMA WordInverse ==
  \E w \in Int : \E j \in Int : Word * w = 1 + j * kModulus
  <1> DEFINE c == (kMontgomeryMPrime * kModulus) \div Word
  <1>1. kMontgomeryMPrime \in Int /\ kMontgomeryMPrime * kModulus \in Int
    BY MPrimeFacts, WordFacts DEF Words
  <1>2. c \in Int /\ kMontgomeryMPrime * kModulus = c * Word + (Word - 1)
    BY <1>1, MPrimeFacts, WordFacts, Divided
  <1> HIDE DEF c
  <1>3. Word * (c + 1) = c * Word + Word
    BY <1>2, WordFacts
  <1>4. c * Word \in Int
    BY <1>2, WordFacts
  <1>5. Word * (c + 1) = 1 + kMontgomeryMPrime * kModulus
    BY <1>1, <1>2, <1>3, <1>4, WordFacts
  <1>6. c + 1 \in Int
    BY <1>2
  <1>7. QED
    BY <1>1, <1>5, <1>6

\* It can therefore be cancelled.
LEMMA WordCancels ==
  ASSUME NEW a \in Int, NEW b \in Int, Congruent(a * Word, b * Word)
  PROVE  Congruent(a, b)
  <1>1. PICK w \in Int : \E j \in Int : Word * w = 1 + j * kModulus
    BY WordInverse
  <1>2. PICK j \in Int : Word * w = 1 + j * kModulus
    BY <1>1
  <1>3. ASSUME NEW z \in Int PROVE Congruent(z, (z * Word) * w)
    <2>1. (z * Word) * w = z * (Word * w)
      BY WordFacts
    <2>2. z * (1 + j * kModulus) = z + (z * j) * kModulus
      BY WordFacts
    <2>3. (z * Word) * w \in Int /\ z * j \in Int
      BY WordFacts
    <2>4. (z * Word) * w = z + (z * j) * kModulus
      BY <1>2, <2>1, <2>2
    <2> DEFINE zww == (z * Word) * w
               zj == z * j
    <2>5. zww \in Int /\ zj \in Int /\ zww = z + zj * kModulus
      BY <2>3, <2>4
    <2> HIDE DEF zww, zj
    <2>6. Congruent(z, zww)
      BY <2>5, CongruentBy
    <2>7. QED
      BY <2>6 DEF zww
  <1>4. Congruent((a * Word) * w, (b * Word) * w)
    <2>1. a * Word \in Int /\ b * Word \in Int
      BY WordFacts
    <2>2. QED
      BY <2>1, CongruentTimes
  <1>5. QED
    BY <1>3, <1>4 DEF Congruent

\* Elements are their own remainders.
LEMMA ReducedRemainder ==
  ASSUME NEW a \in Reduced
  PROVE  a \in Int /\ a \in Words /\ a % kModulus = a
  BY WordFacts DEF Reduced, Words

\* A word times the standard form is the element.
LEMMA StandardForm ==
  ASSUME NEW x \in Reduced
  PROVE  ToStandardForm(x) \in Reduced /\ Congruent(ToStandardForm(x) * Word, x)
  <1>1. x \in Words /\ 1 \in Reduced /\ x * 1 = x
    <2>1. kModulus \in Int /\ kModulus > 1
      BY FieldAssumption
    <2>2. x \in Words /\ x \in Int
      BY ReducedRemainder
    <2>3. 1 \in Reduced
      BY <2>1 DEF Reduced
    <2>4. QED
      BY <2>2, <2>3
  <1>2. QED
    BY <1>1, ProductIsExact DEF ToStandardForm, Congruent

\* kMontgomeryRSquared is the square of the size of a word.
LEMMA RSquared ==
  kMontgomeryRSquared \in Reduced /\ Congruent(kMontgomeryRSquared, Word * Word)
  <1>1. kMontgomeryR \in Int /\ Congruent(kMontgomeryR, Word)
    <2>1. kMontgomeryR = Word % kModulus /\ kMontgomeryR \in Reduced
      BY FieldAssumption, WordFacts DEF Reduced
    <2>2. QED
      BY <2>1, ReducedRemainder DEF Congruent
  <1>2. Congruent(kMontgomeryR * kMontgomeryR, Word * Word)
    <2>1. Word \in Int
      BY WordFacts
    <2>2. QED
      BY <1>1, <2>1, CongruentProducts
  <1> DEFINE rr == kMontgomeryR * kMontgomeryR
  <1>3. rr \in Int /\ kMontgomeryRSquared = rr % kModulus
    BY <1>1, FieldAssumption
  <1> HIDE DEF rr
  <1>4. kMontgomeryRSquared \in Reduced
    BY <1>3, WordFacts, Divided DEF Reduced
  <1>5. kMontgomeryRSquared % kModulus = kMontgomeryRSquared
    BY <1>4, ReducedRemainder
  <1>6. QED
    BY <1>2, <1>3, <1>4, <1>5 DEF Congruent, rr

\* FromUint of any word, also one beyond the modulus, is the element that ToStandardForm takes
\* back to the word, modulo kModulus (base_field_element.h 47-50, base_field_element.cc 39).
THEOREM StandardFormOfUint ==
  ASSUME NEW n \in Words
  PROVE  FromUint(n) \in Reduced /\ ToStandardForm(FromUint(n)) = n % kModulus
  <1> DEFINE x == FromUint(n)
             v == ToStandardForm(x)
  <1>1. n \in Int
    BY WordFacts DEF Words
  <1>2. x \in Reduced /\ Congruent(x * Word, n * kMontgomeryRSquared)
    BY RSquared, ProductIsExact DEF FromUint, Congruent
  <1> HIDE DEF x
  <1>3. v \in Reduced /\ Congruent(v * Word, x)
    BY <1>2, StandardForm
  <1> HIDE DEF v
  <1>4. x \in Int /\ v \in Int
    BY <1>2, <1>3, ReducedRemainder
  <1>5. Congruent(n * kMontgomeryRSquared, (n * Word) * Word)
    <2>1. kMontgomeryRSquared \in Int /\ Word * Word \in Int
      BY RSquared, ReducedRemainder, WordFacts
    <2>2. Congruent(kMontgomeryRSquared * n, (Word * Word) * n)
      BY <1>1, <2>1, RSquared, CongruentTimes
    <2>3. kMontgomeryRSquared * n = n * kMontgomeryRSquared /\ (Word * Word) * n = (n * Word) * Word
      BY <1>1, <2>1, WordFacts
    <2>4. QED
      BY <2>2, <2>3
  <1>6. Congruent(x * Word, (n * Word) * Word)
    BY <1>2, <1>5 DEF Congruent
  <1>7. Congruent(x, n * Word)
    <2>1. n * Word \in Int
      BY <1>1, WordFacts
    <2>2. QED
      BY <2>1, <1>4, <1>6, WordCancels
  <1>8. Congruent(v * Word, n * Word)
    BY <1>3, <1>7 DEF Congruent
  <1>9. Congruent(v, n)
    BY <1>1, <1>4, <1>8, WordCancels
  <1>10. v % kModulus = v
    BY <1>3, ReducedRemainder
  <1>11. QED
    BY <1>2, <1>9, <1>10 DEF Congruent, x, v

\* The code multiplies elements as the integers they stand for are multiplied modulo kModulus
\* (base_field_element.h 63-65 and 114-129).
THEOREM StandardFormOfProduct ==
  ASSUME NEW x \in Reduced, NEW y \in Reduced
  PROVE  ToStandardForm(MontgomeryMul(x, y)) =
           (ToStandardForm(x) * ToStandardForm(y)) % kModulus
  <1> DEFINE p == MontgomeryMul(x, y)
             m == ToStandardForm(x)
             n == ToStandardForm(y)
             v == ToStandardForm(p)
  <1>1. p \in Reduced /\ Congruent(p * Word, x * y)
    BY ReducedRemainder, ProductIsExact DEF Congruent
  <1>2. /\ m \in Reduced /\ Congruent(m * Word, x)
        /\ n \in Reduced /\ Congruent(n * Word, y)
    BY StandardForm
  <1> HIDE DEF p, m, n
  <1>3. v \in Reduced /\ Congruent(v * Word, p)
    BY <1>1, StandardForm
  <1> HIDE DEF v
  <1>4. x \in Int /\ y \in Int /\ p \in Int /\ m \in Int /\ n \in Int /\ v \in Int
    BY <1>1, <1>2, <1>3, ReducedRemainder
  <1>5. Congruent((v * Word) * Word, p * Word)
    <2>1. v * Word \in Int /\ Word \in Int
      BY <1>4, WordFacts
    <2>2. QED
      BY <2>1, <1>3, <1>4, CongruentTimes
  <1>6. Congruent((m * Word) * (n * Word), x * y)
    <2>1. m * Word \in Int /\ n * Word \in Int
      BY <1>4, WordFacts
    <2>2. QED
      BY <2>1, <1>2, <1>4, CongruentProducts
  <1>7. (m * Word) * (n * Word) = ((m * n) * Word) * Word
    BY <1>4, WordFacts
  <1>8. Congruent((v * Word) * Word, ((m * n) * Word) * Word)
    BY <1>1, <1>5, <1>6, <1>7 DEF Congruent
  <1>9. Congruent(v * Word, (m * n) * Word)
    <2>1. v * Word \in Int /\ (m * n) * Word \in Int
      BY <1>4, WordFacts
    <2>2. QED
      BY <2>1, <1>8, WordCancels
  <1>10. Congruent(v, m * n)
    <2>1. m * n \in Int
      BY <1>4
    <2>2. QED
      BY <2>1, <1>4, <1>9, WordCancels
  <1>11. v % kModulus = v
    BY <1>3, ReducedRemainder
  <1>12. QED
    BY <1>10, <1>11 DEF Congruent, p, m, n, v

\* Congruent terms have congruent sums and differences.
LEMMA CongruentSums ==
  ASSUME NEW a \in Int, NEW b \in Int, NEW c \in Int, NEW d \in Int,
         Congruent(a, b), Congruent(c, d)
  PROVE  Congruent(a + c, b + d) /\ Congruent(a - c, b - d)
  <1>1. PICK i \in Int : b = a + i * kModulus
    BY CongruentMeans
  <1>2. PICK j \in Int : d = c + j * kModulus
    BY CongruentMeans
  <1>3. /\ (i + j) * kModulus = i * kModulus + j * kModulus
        /\ (i - j) * kModulus = i * kModulus - j * kModulus
        /\ i * kModulus \in Int /\ j * kModulus \in Int
    BY WordFacts
  <1>4. b + d = (a + c) + (i + j) * kModulus /\ b - d = (a - c) + (i - j) * kModulus
    BY <1>1, <1>2, <1>3
  <1>5. /\ i + j \in Int /\ i - j \in Int
        /\ a + c \in Int /\ b + d \in Int /\ a - c \in Int /\ b - d \in Int
    OBVIOUS
  <1>6. QED
    BY <1>4, <1>5, CongruentBy

\* A number is congruent to its remainder.
LEMMA RemainderCongruent ==
  ASSUME NEW a \in Int
  PROVE  Congruent(a % kModulus, a)
  <1>1. a % kModulus \in Reduced
    BY WordFacts, Divided DEF Reduced
  <1>2. QED
    BY <1>1, ReducedRemainder DEF Congruent

\* The standard form of an element that is congruent to a word times a number.
LEMMA StandardFormUnique ==
  ASSUME NEW x \in Reduced, NEW a \in Int, Congruent(x, a * Word)
  PROVE  ToStandardForm(x) = a % kModulus
  <1> DEFINE v == ToStandardForm(x)
  <1>1. v \in Reduced /\ Congruent(v * Word, x)
    BY StandardForm
  <1> HIDE DEF v
  <1>2. v \in Int /\ v % kModulus = v
    BY <1>1, ReducedRemainder
  <1>3. Congruent(v * Word, a * Word)
    BY <1>1 DEF Congruent
  <1>4. Congruent(v, a)
    BY <1>2, <1>3, WordCancels
  <1>5. QED
    BY <1>2, <1>4 DEF Congruent, v

\* The code adds and subtracts elements as the integers they stand for
\* (base_field_element.h 52-59).
THEOREM StandardFormOfSum ==
  ASSUME NEW x \in Reduced, NEW y \in Reduced
  PROVE  /\ ToStandardForm(BaseAdd(x, y)) = (ToStandardForm(x) + ToStandardForm(y)) % kModulus
         /\ ToStandardForm(BaseSub(x, y)) = (ToStandardForm(x) - ToStandardForm(y)) % kModulus
  <1> DEFINE m == ToStandardForm(x)
             n == ToStandardForm(y)
  <1>1. /\ m \in Reduced /\ Congruent(m * Word, x)
        /\ n \in Reduced /\ Congruent(n * Word, y)
    BY StandardForm
  <1> HIDE DEF m, n
  <1>2. x \in Int /\ y \in Int /\ m \in Int /\ n \in Int /\ m * Word \in Int /\ n * Word \in Int
    BY <1>1, ReducedRemainder, WordFacts
  <1>3. /\ Congruent(m * Word + n * Word, x + y)
        /\ Congruent(m * Word - n * Word, x - y)
    BY <1>1, <1>2, CongruentSums
  <1>4. /\ m * Word + n * Word = (m + n) * Word
        /\ m * Word - n * Word = (m - n) * Word
    BY <1>2, WordFacts
  <1>5. /\ BaseAdd(x, y) \in Reduced
        /\ \E j \in Int : x + y = BaseAdd(x, y) + j * kModulus
    <2>1. BaseAdd(x, y) \in Int /\ BaseAdd(x, y) \in Reduced
      BY SumIsExact, ReducedRemainder
    <2>2. x + y = BaseAdd(x, y) + 0 * kModulus \/ x + y = BaseAdd(x, y) + 1 * kModulus
      BY <1>2, <2>1, SumIsExact, WordFacts
    <2>3. QED
      BY <2>1, <2>2
  <1>6. /\ BaseSub(x, y) \in Reduced
        /\ \E j \in Int : x - y = BaseSub(x, y) + j * kModulus
    <2>1. BaseSub(x, y) \in Int /\ BaseSub(x, y) \in Reduced
      BY DifferenceIsExact, ReducedRemainder
    <2>2. x - y = BaseSub(x, y) + 0 * kModulus \/ x - y = BaseSub(x, y) + (-1) * kModulus
      BY <1>2, <2>1, DifferenceIsExact, WordFacts
    <2>3. QED
      BY <2>1, <2>2
  <1>7. x + y \in Int /\ x - y \in Int /\ m + n \in Int /\ m - n \in Int
    BY <1>2
  <1>8. Congruent(BaseAdd(x, y), x + y) /\ Congruent(BaseSub(x, y), x - y)
    BY <1>5, <1>6, <1>7, ReducedRemainder, CongruentBy
  <1>9. /\ Congruent(BaseAdd(x, y), (m + n) * Word)
        /\ Congruent(BaseSub(x, y), (m - n) * Word)
    BY <1>3, <1>4, <1>8 DEF Congruent
  <1>10. QED
    BY <1>5, <1>6, <1>7, <1>9, StandardFormUnique DEF m, n

-----------------------------------------------------------------------------
(* The extension field: what an element stands for, and a pair. *)

StandsFor(x, m) == x \in Reduced /\ Congruent(ToStandardForm(x), m)

\* Sums and differences stand for sums and differences.
LEMMA SumsStandFor ==
  ASSUME NEW x, NEW y, NEW m \in Int, NEW n \in Int, StandsFor(x, m), StandsFor(y, n)
  PROVE  /\ StandsFor(BaseAdd(x, y), m + n)
         /\ StandsFor(BaseSub(x, y), m - n)
  <1> DEFINE v == ToStandardForm(x)
             w == ToStandardForm(y)
  <1>1. x \in Reduced /\ y \in Reduced /\ Congruent(v, m) /\ Congruent(w, n)
    BY DEF StandsFor
  <1>2. v \in Int /\ w \in Int
    BY <1>1, StandardForm, ReducedRemainder
  <1>3. /\ ToStandardForm(BaseAdd(x, y)) = (v + w) % kModulus
        /\ ToStandardForm(BaseSub(x, y)) = (v - w) % kModulus
    BY <1>1, StandardFormOfSum
  <1> HIDE DEF v, w
  <1>4. Congruent(v + w, m + n) /\ Congruent(v - w, m - n)
    BY <1>1, <1>2, CongruentSums
  <1>5. v + w \in Int /\ v - w \in Int
    BY <1>2
  <1>6. /\ Congruent(ToStandardForm(BaseAdd(x, y)), m + n)
        /\ Congruent(ToStandardForm(BaseSub(x, y)), m - n)
    BY <1>3, <1>4, <1>5, RemainderCongruent DEF Congruent
  <1>7. QED
    BY <1>1, <1>6, SumIsExact, DifferenceIsExact DEF StandsFor

\* Products stand for products.
LEMMA ProductsStandFor ==
  ASSUME NEW x, NEW y, NEW m \in Int, NEW n \in Int, StandsFor(x, m), StandsFor(y, n)
  PROVE  StandsFor(MontgomeryMul(x, y), m * n)
  <1> DEFINE v == ToStandardForm(x)
             w == ToStandardForm(y)
  <1>1. x \in Reduced /\ y \in Reduced /\ Congruent(v, m) /\ Congruent(w, n)
    BY DEF StandsFor
  <1>2. v \in Int /\ w \in Int
    BY <1>1, StandardForm, ReducedRemainder
  <1>3. ToStandardForm(MontgomeryMul(x, y)) = (v * w) % kModulus
    BY <1>1, StandardFormOfProduct
  <1> HIDE DEF v, w
  <1>4. Congruent(v * w, m * n)
    BY <1>1, <1>2, CongruentProducts
  <1>5. v * w \in Int
    BY <1>2
  <1>6. Congruent(ToStandardForm(MontgomeryMul(x, y)), m * n)
    BY <1>3, <1>4, <1>5, RemainderCongruent DEF Congruent
  <1>7. QED
    BY <1>1, <1>6, ProductIsExact, ReducedRemainder DEF StandsFor

\* Zero, and one.
LEMMA ZeroStandsFor == StandsFor(BaseZero, 0)
  <1>1. 0 \in Reduced
    BY FieldAssumption DEF Reduced
  <1>2. Congruent(0, 0 * Word) /\ 0 \in Int
    BY WordFacts DEF Congruent
  <1>3. ToStandardForm(0) = 0 % kModulus
    BY <1>1, <1>2, StandardFormUnique
  <1>4. 0 % kModulus = 0
    BY <1>1, ReducedRemainder
  <1>5. QED
    BY <1>1, <1>3, <1>4 DEF StandsFor, BaseZero, Congruent

\* kMontgomeryR stands for one.
LEMMA OneStandsFor == StandsFor(BaseOne, 1)
  <1>1. BaseOne = Word % kModulus /\ Word \in Int /\ 1 \in Int
    BY FieldAssumption, WordFacts DEF BaseOne
  <1>2. BaseOne \in Reduced /\ Congruent(BaseOne, Word)
    BY <1>1, WordFacts, Divided, RemainderCongruent DEF Reduced
  <1>3. Word = 1 * Word
    BY <1>1
  <1>4. Congruent(BaseOne, 1 * Word)
    BY <1>2, <1>3
  <1>5. ToStandardForm(BaseOne) = 1 % kModulus
    BY <1>1, <1>2, <1>4, StandardFormUnique
  <1>6. Congruent(1 % kModulus, 1)
    BY RemainderCongruent
  <1>7. QED
    BY <1>2, <1>5, <1>6 DEF StandsFor

PairStandsFor(a, m, n) == StandsFor(a[1], m) /\ StandsFor(a[2], n)

\* The three multiplications of the code are the product of a[1] + a[2] * phi and
\* b[1] + b[2] * phi where phi^2 = phi + 1 (extension_field_element.inl 23-28).
THEOREM ExtensionProduct ==
  ASSUME NEW a, NEW b, NEW m0 \in Int, NEW m1 \in Int, NEW n0 \in Int, NEW n1 \in Int,
         PairStandsFor(a, m0, m1), PairStandsFor(b, n0, n1)
  PROVE  PairStandsFor(Mul(a, b), m0 * n0 + m1 * n1, m0 * n1 + m1 * n0 + m1 * n1)
  <1> DEFINE p == MontgomeryMul(a[1], b[1])
             q == MontgomeryMul(a[2], b[2])
             s == BaseAdd(a[1], a[2])
             t == BaseAdd(b[1], b[2])
             r == MontgomeryMul(s, t)
  <1>1. Mul(a, b) = <<BaseAdd(p, q), BaseSub(r, p)>>
    BY DEF Mul, MulFrom
  <1>2. StandsFor(p, m0 * n0) /\ StandsFor(q, m1 * n1)
    BY ProductsStandFor DEF PairStandsFor
  <1>3. StandsFor(s, m0 + m1) /\ StandsFor(t, n0 + n1)
    BY SumsStandFor DEF PairStandsFor
  <1> HIDE DEF p, q, s, t
  <1>4. m0 * n0 \in Int /\ m1 * n1 \in Int /\ m0 + m1 \in Int /\ n0 + n1 \in Int
    OBVIOUS
  <1>5. StandsFor(r, (m0 + m1) * (n0 + n1)) /\ (m0 + m1) * (n0 + n1) \in Int
    BY <1>3, <1>4, ProductsStandFor
  <1> HIDE DEF r
  <1>6. /\ StandsFor(BaseAdd(p, q), m0 * n0 + m1 * n1)
        /\ StandsFor(BaseSub(r, p), (m0 + m1) * (n0 + n1) - m0 * n0)
    BY <1>2, <1>4, <1>5, SumsStandFor
  <1>7. (m0 + m1) * (n0 + n1) - m0 * n0 = m0 * n1 + m1 * n0 + m1 * n1
    OBVIOUS
  <1>8. QED
    BY <1>1, <1>6, <1>7 DEF PairStandsFor

\* phi goes to 1 - phi (extension_field_element.h 82).
LEMMA Conjugate ==
  ASSUME NEW a, NEW m0 \in Int, NEW m1 \in Int, PairStandsFor(a, m0, m1)
  PROVE  PairStandsFor(GetFrobenius(a), m0 + m1, -m1)
  <1>1. StandsFor(BaseAdd(a[1], a[2]), m0 + m1) /\ StandsFor(BaseMinus(a[2]), 0 - m1)
    <2>1. StandsFor(a[1], m0) /\ StandsFor(a[2], m1)
      BY DEF PairStandsFor
    <2>2. StandsFor(BaseAdd(a[1], a[2]), m0 + m1)
      BY <2>1, SumsStandFor
    <2>3. 0 \in Int /\ StandsFor(BaseZero, 0)
      BY ZeroStandsFor
    <2>4. StandsFor(BaseSub(BaseZero, a[2]), 0 - m1)
      BY <2>1, <2>3, SumsStandFor
    <2>5. QED
      BY <2>2, <2>4 DEF BaseMinus
  <1>2. 0 - m1 = -m1
    OBVIOUS
  <1>3. QED
    BY <1>1, <1>2 DEF GetFrobenius, PairStandsFor

\* An element is determined by what it stands for.
LEMMA StandForSame ==
  ASSUME NEW x, NEW y, NEW m \in Int, StandsFor(x, m), StandsFor(y, m)
  PROVE  x = y
  <1> DEFINE v == ToStandardForm(x)
             w == ToStandardForm(y)
  <1>1. x \in Reduced /\ y \in Reduced /\ Congruent(v, m) /\ Congruent(w, m)
    BY DEF StandsFor
  <1>2. /\ v \in Reduced /\ w \in Reduced
        /\ Congruent(v * Word, x) /\ Congruent(w * Word, y)
    BY <1>1, StandardForm
  <1> HIDE DEF v, w
  <1>3. v = w
    BY <1>1, <1>2, ReducedRemainder DEF Congruent
  <1>4. Congruent(x, y)
    BY <1>2, <1>3 DEF Congruent
  <1>5. QED
    BY <1>1, <1>4, ReducedRemainder DEF Congruent

\* Conjugation keeps products: what lets oods.cc 57-64 and 116-123 take the conjugate of a
\* value for the value at the conjugate point (extension_field_element.h 82).
THEOREM ConjugateOfProduct ==
  ASSUME NEW a \in Reduced \X Reduced, NEW b \in Reduced \X Reduced
  PROVE  GetFrobenius(Mul(a, b)) = Mul(GetFrobenius(a), GetFrobenius(b))
  <1> DEFINE m0 == ToStandardForm(a[1])
             m1 == ToStandardForm(a[2])
             n0 == ToStandardForm(b[1])
             n1 == ToStandardForm(b[2])
  <1>1. a[1] \in Reduced /\ a[2] \in Reduced /\ b[1] \in Reduced /\ b[2] \in Reduced
    OBVIOUS
  <1>2. m0 \in Int /\ m1 \in Int /\ n0 \in Int /\ n1 \in Int
    BY <1>1, StandardForm, ReducedRemainder
  <1>3. PairStandsFor(a, m0, m1) /\ PairStandsFor(b, n0, n1)
    BY <1>1 DEF PairStandsFor, StandsFor, Congruent
  <1> HIDE DEF m0, m1, n0, n1
  <1> DEFINE first == m0 * n0 + m1 * n1
             second == m0 * n1 + m1 * n0 + m1 * n1
             mm == m0 + m1
             nn == n0 + n1
             m_ == -m1
             n_ == -n1
  <1>4. PairStandsFor(Mul(a, b), first, second) /\ first \in Int /\ second \in Int
    BY <1>2, <1>3, ExtensionProduct
  <1>5. /\ PairStandsFor(GetFrobenius(a), mm, m_) /\ PairStandsFor(GetFrobenius(b), nn, n_)
        /\ mm \in Int /\ nn \in Int /\ m_ \in Int /\ n_ \in Int
    BY <1>2, <1>3, Conjugate
  <1>6. mm * nn + m_ * n_ = first + second /\ mm * n_ + m_ * nn + m_ * n_ = -second
    BY <1>2
  <1> HIDE DEF first, second, mm, nn, m_, n_
  <1>7. PairStandsFor(GetFrobenius(Mul(a, b)), first + second, -second)
    BY <1>4, Conjugate
  <1>8. PairStandsFor(Mul(GetFrobenius(a), GetFrobenius(b)), first + second, -second)
    BY <1>5, <1>6, ExtensionProduct
  <1>9. first + second \in Int /\ -second \in Int
    BY <1>4
  <1>10. /\ GetFrobenius(Mul(a, b))[1] = Mul(GetFrobenius(a), GetFrobenius(b))[1]
         /\ GetFrobenius(Mul(a, b))[2] = Mul(GetFrobenius(a), GetFrobenius(b))[2]
    BY <1>7, <1>8, <1>9, StandForSame DEF PairStandsFor
  <1>11. QED
    BY <1>10 DEF GetFrobenius, Mul, MulFrom

\* If denom_inv is the inverse of the norm, then what Inverse makes of it is the inverse
\* (extension_field_element.inl 44-52).
THEOREM ExtensionInverse ==
  ASSUME NEW a \in Reduced \X Reduced, NEW denom_inv, NEW d \in Int,
         StandsFor(denom_inv, d), Congruent(ToStandardForm(Norm(a)) * d, 1)
  PROVE  Mul(a, InverseFrom(a, denom_inv)) = One
  <1> DEFINE m0 == ToStandardForm(a[1])
             m1 == ToStandardForm(a[2])
  <1>1. a[1] \in Reduced /\ a[2] \in Reduced
    OBVIOUS
  <1>2. m0 \in Int /\ m1 \in Int
    BY <1>1, StandardForm, ReducedRemainder
  <1>3. StandsFor(a[1], m0) /\ StandsFor(a[2], m1)
    BY <1>1 DEF StandsFor, Congruent
  <1> HIDE DEF m0, m1
  <1> DEFINE norm == m0 * m0 + m0 * m1 - m1 * m1
             first == (m0 + m1) * d
             second == (-m1) * d
             v == ToStandardForm(Norm(a))
  <1>4. StandsFor(Norm(a), norm) /\ norm \in Int
    <2> DEFINE xx == m0 * m0
               xy == m0 * m1
               yy == m1 * m1
    <2>1. xx \in Int /\ xy \in Int /\ yy \in Int
      BY <1>2
    <2>2. /\ StandsFor(MontgomeryMul(a[1], a[1]), xx)
          /\ StandsFor(MontgomeryMul(a[1], a[2]), xy)
          /\ StandsFor(MontgomeryMul(a[2], a[2]), yy)
      BY <1>2, <1>3, ProductsStandFor
    <2>3. norm = (xx + xy) - yy
      BY <1>2
    <2> HIDE DEF xx, xy, yy, norm
    <2>4. xx + xy \in Int /\ norm \in Int
      BY <2>1, <2>3
    <2>5. StandsFor(BaseAdd(MontgomeryMul(a[1], a[1]), MontgomeryMul(a[1], a[2])), xx + xy)
      BY <2>1, <2>2, SumsStandFor
    <2>6. StandsFor(Norm(a), (xx + xy) - yy)
      BY <2>1, <2>2, <2>4, <2>5, SumsStandFor DEF Norm
    <2>7. QED
      BY <2>3, <2>4, <2>6
  <1>5. /\ PairStandsFor(InverseFrom(a, denom_inv), first, second)
        /\ first \in Int /\ second \in Int
    <2>1. PairStandsFor(GetFrobenius(a), m0 + m1, -m1)
      BY <1>2, <1>3, Conjugate DEF PairStandsFor
    <2>2. GetFrobenius(a)[1] = BaseAdd(a[1], a[2]) /\ GetFrobenius(a)[2] = BaseMinus(a[2])
      BY DEF GetFrobenius
    <2>3. m0 + m1 \in Int /\ -m1 \in Int
      BY <1>2
    <2>4. /\ StandsFor(MontgomeryMul(BaseAdd(a[1], a[2]), denom_inv), first)
          /\ StandsFor(MontgomeryMul(BaseMinus(a[2]), denom_inv), second)
      BY <2>1, <2>2, <2>3, ProductsStandFor DEF PairStandsFor
    <2>5. first \in Int /\ second \in Int
      BY <1>2
    <2>6. QED
      BY <2>4, <2>5 DEF InverseFrom, PairStandsFor
  <1>6. m0 * first + m1 * second = norm * d /\ m0 * second + m1 * first + m1 * second = 0
    BY <1>2
  <1> HIDE DEF first, second, norm
  <1>7. PairStandsFor(Mul(a, InverseFrom(a, denom_inv)), norm * d, 0)
    <2>1. PairStandsFor(a, m0, m1)
      BY <1>3 DEF PairStandsFor
    <2>2. QED
      BY <1>2, <1>5, <1>6, <2>1, ExtensionProduct
  <1>8. v \in Int /\ Congruent(v, norm) /\ Congruent(v * d, 1)
    BY <1>4, StandardForm, ReducedRemainder DEF StandsFor
  <1> HIDE DEF v
  <1>9. Congruent(v * d, norm * d)
    BY <1>4, <1>8, CongruentTimes
  <1>10. Congruent(norm * d, 1)
    BY <1>8, <1>9 DEF Congruent
  <1> DEFINE res == Mul(a, InverseFrom(a, denom_inv))
  <1>11. res = <<res[1], res[2]>>
    BY DEF Mul, MulFrom
  <1>12. StandsFor(res[1], 1) /\ StandsFor(res[2], 0)
    BY <1>7, <1>10 DEF PairStandsFor, StandsFor, Congruent
  <1> HIDE DEF res
  <1>13. res[1] = BaseOne /\ res[2] = BaseZero
    BY <1>12, OneStandsFor, ZeroStandsFor, StandForSame
  <1>14. QED
    BY <1>11, <1>13 DEF One, Embed, res
=============================================================================
