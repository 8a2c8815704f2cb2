----------------------------- MODULE Elementary -----------------------------
(***************************************************************************)
(* Lemmas the proofs about several components rest on: least elements, by  *)
(* which what a recursion computes is found, sequences of anything, powers *)
(* of two and remainders, sets in order, and what some recursive           *)
(* definitions compute.                                                    *)
(***************************************************************************)
EXTENDS Containers, FiniteSetTheorems, WellFoundedInduction, TLAPS

\* A counterexample is refuted by its least instance.
LEMMA LeastOf ==
  ASSUME NEW S \in SUBSET Nat, S # {}
  PROVE  \E m \in S : \A k \in S : m <= k
<1>1. PICK m \in S : \A k \in S : <<k, m>> \notin OpToRel(<, Nat)
  BY NatLessThanWellFounded, WFMin
<1>2. \A k \in S : ~(k < m)
  BY <1>1 DEF OpToRel
<1> QED  BY <1>2

-----------------------------------------------------------------------------
(* Sequences of anything: of bytes from messages, nonces and digests.      *)

IsSeq(s) == Len(s) \in Nat /\ s = [i \in 1 .. Len(s) |-> s[i]]

SeqElements(s) == {s[i] : i \in 1 .. Len(s)}

LEMMA SeqOfElements ==
  ASSUME NEW s, IsSeq(s)
  PROVE  s \in Seq(SeqElements(s)) /\ DOMAIN s = 1 .. Len(s)
<1> DEFINE n == Len(s)
<1>1. n \in Nat /\ s = [i \in 1 .. n |-> s[i]]
  BY DEF IsSeq
<1> HIDE DEF n
<1>2. s \in [1 .. n -> SeqElements(s)]
  BY <1>1 DEF SeqElements, n
<1>3. DOMAIN s = 1 .. n
  BY <1>1
<1> QED  BY <1>1, <1>2, <1>3 DEF n

LEMMA SeqIsSeq ==
  ASSUME NEW S, NEW s \in Seq(S)
  PROVE  IsSeq(s) /\ DOMAIN s = 1 .. Len(s)
BY DEF IsSeq

LEMMA EmptySeq == IsSeq(<<>>) /\ Len(<<>>) = 0
BY DEF IsSeq

LEMMA ListedIsSeq ==
  ASSUME NEW n \in Nat, NEW s, DOMAIN s = 1 .. n, s = [i \in 1 .. n |-> s[i]]
  PROVE  IsSeq(s) /\ Len(s) = n
<1> DEFINE S == {s[i] : i \in 1 .. n}
<1>1. s \in [1 .. n -> S]
  OBVIOUS
<1> HIDE DEF S
<1>2. s \in Seq(S) /\ Len(s) = n
  BY <1>1
<1> QED  BY <1>2, SeqIsSeq

IsConcat(u, s, t) ==
  /\ IsSeq(u)
  /\ Len(u) = Len(s) + Len(t)
  /\ \A i \in 1 .. Len(s) : u[i] = s[i]
  /\ \A i \in 1 .. Len(t) : u[Len(s) + i] = t[i]

LEMMA ConcatFacts ==
  ASSUME NEW s, NEW t, IsSeq(s), IsSeq(t)
  PROVE  IsConcat(s \o t, s, t)
<1> DEFINE S == SeqElements(s) \cup SeqElements(t)
           u == s \o t
<1>1. s \in Seq(S) /\ t \in Seq(S)
  <2>1. s \in Seq(SeqElements(s)) /\ t \in Seq(SeqElements(t))
    BY SeqOfElements
  <2> QED  BY <2>1
<1> HIDE DEF S
<1>2. u \in Seq(S) /\ Len(u) = Len(s) + Len(t)
  BY <1>1
<1>3. \A i \in 1 .. Len(s) : u[i] = s[i]
  BY <1>1
<1>4. \A i \in 1 .. Len(t) : u[Len(s) + i] = t[i]
  BY <1>1
<1> HIDE DEF u
<1>5. IsSeq(u)
  BY <1>2, SeqIsSeq
<1>6. IsConcat(u, s, t)
  BY <1>2, <1>3, <1>4, <1>5 DEF IsConcat
<1> QED  BY <1>6 DEF u

IsExtended(u, s, e) ==
  /\ IsSeq(u)
  /\ Len(u) = Len(s) + 1
  /\ \A i \in 1 .. Len(s) : u[i] = s[i]
  /\ u[Len(s) + 1] = e

LEMMA AppendFacts ==
  ASSUME NEW s, NEW e, IsSeq(s)
  PROVE  IsExtended(Append(s, e), s, e)
<1> DEFINE S == SeqElements(s) \cup {e}
           u == Append(s, e)
<1>1. s \in Seq(S) /\ e \in S
  <2>1. s \in Seq(SeqElements(s))
    BY SeqOfElements
  <2> QED  BY <2>1
<1> HIDE DEF S
<1>2. u \in Seq(S) /\ Len(u) = Len(s) + 1
  BY <1>1
<1>3. \A i \in 1 .. Len(s) : u[i] = s[i]
  BY <1>1
<1>4. u[Len(s) + 1] = e
  BY <1>1
<1> HIDE DEF u
<1>5. IsSeq(u)
  BY <1>2, SeqIsSeq
<1>6. IsExtended(u, s, e)
  BY <1>2, <1>3, <1>4, <1>5 DEF IsExtended
<1> QED  BY <1>6 DEF u

IsRest(u, s) ==
  /\ IsSeq(u)
  /\ Len(u) = Len(s) - 1
  /\ \A i \in 1 .. Len(u) : u[i] = s[i + 1]

LEMMA TailFacts ==
  ASSUME NEW s, IsSeq(s), Len(s) # 0
  PROVE  IsRest(Tail(s), s) /\ Head(s) = s[1]
<1> DEFINE S == SeqElements(s)
           u == Tail(s)
<1>1. s \in Seq(S) /\ Len(s) \in Nat
  BY SeqOfElements DEF IsSeq
<1> HIDE DEF S
<1>2. s # <<>>
  BY <1>1
<1>3. u \in Seq(S) /\ Len(u) = Len(s) - 1
  BY <1>1, <1>2
<1>4. \A i \in 1 .. Len(u) : u[i] = s[i + 1]
  BY <1>1, <1>2, <1>3
<1>5. Head(s) = s[1]
  BY <1>1, <1>2
<1> HIDE DEF u
<1>6. IsSeq(u)
  BY <1>3, SeqIsSeq
<1>7. IsRest(u, s)
  BY <1>3, <1>4, <1>6 DEF IsRest
<1> QED  BY <1>5, <1>7 DEF u

LEMMA SameSeq ==
  ASSUME NEW s, NEW t, IsSeq(s), IsSeq(t), Len(s) = Len(t),
         \A i \in 1 .. Len(s) : s[i] = t[i]
  PROVE  s = t
BY DEF IsSeq

LEMMA SeqOver ==
  ASSUME NEW S, NEW s, IsSeq(s), \A i \in 1 .. Len(s) : s[i] \in S
  PROVE  s \in Seq(S)
<1> DEFINE n == Len(s)
<1>1. n \in Nat /\ s = [i \in 1 .. n |-> s[i]]
  BY DEF IsSeq
<1> HIDE DEF n
<1>2. s \in [1 .. n -> S]
  BY <1>1 DEF n
<1> QED  BY <1>1, <1>2

IsPart(u, s, m, n) ==
  /\ IsSeq(u)
  /\ Len(u) = n - m + 1
  /\ \A i \in 1 .. Len(u) : u[i] = s[m + i - 1]

LEMMA SubSeqFacts ==
  ASSUME NEW s, IsSeq(s), NEW m \in 1 .. Len(s) + 1, NEW n \in 0 .. Len(s), m <= n + 1
  PROVE  IsPart(SubSeq(s, m, n), s, m, n)
<1> DEFINE S == SeqElements(s)
           u == SubSeq(s, m, n)
<1>1. s \in Seq(S)
  BY SeqOfElements
<1> HIDE DEF S
<1>2. Len(s) \in Nat
  BY DEF IsSeq
<1>3. u \in Seq(S) /\ Len(u) = n - m + 1
  BY <1>1, <1>2
<1>4. \A i \in 1 .. Len(u) : u[i] = s[m + i - 1]
  BY <1>1, <1>2, <1>3
<1> HIDE DEF u
<1>5. IsSeq(u)
  BY <1>3, SeqIsSeq
<1>6. IsPart(u, s, m, n)
  BY <1>3, <1>4, <1>5 DEF IsPart
<1> QED  BY <1>6 DEF u

-----------------------------------------------------------------------------
(* Powers of two, and quotients.                                           *)

\* p lists the powers of two up to height n, as a recursive definition says.
Powers(p, n) == n \in Nat /\ p = [h \in 0 .. n |-> IF h = 0 THEN 1 ELSE 2 * p[h - 1]]

\* f is right up to height k.
ArePowers(f, k, n) ==
  /\ DOMAIN f = 0 .. n
  /\ \A h \in 0 .. n : h <= k => f[h] = IF h = 0 THEN 1 ELSE 2 * f[h - 1]

LEMMA OnePowerMore ==
  ASSUME NEW n \in Nat, NEW k \in Nat, NEW f, ArePowers(f, k, n)
  PROVE  \E g : ArePowers(g, k + 1, n)
<1> DEFINE g == [h \in 0 .. n |-> IF h = k + 1 THEN 2 * f[h - 1] ELSE f[h]]
<1>0. n \in Nat
  OBVIOUS
<1>1. ASSUME NEW h \in 0 .. n, h <= k + 1
      PROVE  g[h] = IF h = 0 THEN 1 ELSE 2 * g[h - 1]
  <2>1. CASE h = k + 1
    <3>1. h # 0 /\ h - 1 \in 0 .. n /\ h - 1 # k + 1
      BY <1>0, <2>1
    <3>2. g[h] = 2 * f[h - 1] /\ g[h - 1] = f[h - 1]
      BY <2>1, <3>1
    <3> HIDE DEF g
    <3> QED  BY <3>1, <3>2
  <2>2. CASE h # k + 1
    <3>1. g[h] = f[h] /\ h <= k
      BY <1>1, <2>2
    <3>2. h # 0 => h - 1 \in 0 .. n /\ h - 1 # k + 1
      BY <1>0, <3>1
    <3>3. h # 0 => g[h - 1] = f[h - 1]
      BY <3>2
    <3>4. f[h] = IF h = 0 THEN 1 ELSE 2 * f[h - 1]
      BY <3>1 DEF ArePowers
    <3> HIDE DEF g
    <3> QED  BY <3>1, <3>3, <3>4
  <2> QED  BY <2>1, <2>2
<1>2. DOMAIN g = 0 .. n
  OBVIOUS
<1> HIDE DEF g
<1>3. ArePowers(g, k + 1, n)
  BY <1>1, <1>2 DEF ArePowers
<1> QED  BY <1>3

LEMMA PowersUpTo ==
  ASSUME NEW n \in Nat, NEW j \in Nat
  PROVE  \E f : ArePowers(f, j, n)
<1> DEFINE S == {k \in Nat : ~\E f : ArePowers(f, k, n)}
<1>1. SUFFICES ASSUME S # {}  PROVE FALSE
  OBVIOUS
<1>2. PICK m \in S : \A k \in S : m <= k
  BY <1>1, LeastOf
<1>3. m # 0
  <2> DEFINE f == [h \in 0 .. n |-> 1]
  <2>1. ArePowers(f, 0, n)
    BY DEF ArePowers
  <2> QED  BY <2>1, <1>2
<1>4. m - 1 \in Nat /\ m - 1 \notin S /\ (m - 1) + 1 = m
  BY <1>2, <1>3
<1>5. PICK f : ArePowers(f, m - 1, n)
  BY <1>4
<1>6. \E g : ArePowers(g, (m - 1) + 1, n)
  BY <1>4, <1>5, OnePowerMore
<1> QED  BY <1>2, <1>4, <1>6

LEMMA PowersExist ==
  ASSUME NEW n \in Nat
  PROVE  \E p : Powers(p, n)
<1>1. PICK f : ArePowers(f, n, n)
  BY PowersUpTo
<1> DEFINE g == [h \in 0 .. n |-> f[h]]
<1>2. \A h \in 0 .. n : g[h] = IF h = 0 THEN 1 ELSE 2 * g[h - 1]
  BY <1>1 DEF ArePowers
<1>3. g = [h \in 0 .. n |-> g[h]]
  OBVIOUS
<1> HIDE DEF g
<1>4. Powers(g, n)
  BY <1>2, <1>3 DEF Powers
<1> QED  BY <1>4

LEMMA PowersFacts ==
  ASSUME NEW n, NEW p, Powers(p, n)
  PROVE  /\ n \in Nat
         /\ p[0] = 1
         /\ \A h \in 1 .. n : h - 1 \in 0 .. n /\ p[h] = 2 * p[h - 1]
         /\ \A h \in 0 .. n : p[h] \in Nat \ {0}
<1>1. n \in Nat /\ \A h \in 0 .. n : p[h] = IF h = 0 THEN 1 ELSE 2 * p[h - 1]
  <2>1. \A f : f = [h \in 0 .. n |-> IF h = 0 THEN 1 ELSE 2 * f[h - 1]]
               => \A h \in 0 .. n : f[h] = IF h = 0 THEN 1 ELSE 2 * f[h - 1]
    OBVIOUS
  <2> QED  BY <2>1 DEF Powers
<1>2. p[0] = 1
  BY <1>1
<1>3. \A h \in 1 .. n : h - 1 \in 0 .. n /\ p[h] = 2 * p[h - 1]
  BY <1>1
<1> DEFINE S == {h \in 0 .. n : p[h] \notin Nat \ {0}}
<1>4. S = {}
  <2>1. SUFFICES ASSUME S # {}  PROVE FALSE
    OBVIOUS
  <2>2. PICK m \in S : \A k \in S : m <= k
    <3>1. S \in SUBSET Nat
      BY <1>1
    <3> HIDE DEF S
    <3> QED  BY <2>1, <3>1, LeastOf
  <2>3. m \in 1 .. n
    BY <1>1, <1>2, <2>2
  <2>4. m - 1 \notin S
    BY <2>2, <2>3
  <2>5. p[m - 1] \in Nat \ {0}
    BY <1>3, <2>3, <2>4
  <2> QED  BY <1>3, <2>2, <2>3, <2>5
<1> QED  BY <1>1, <1>2, <1>3, <1>4

\* Between a power of two and the next there is none.
LEMMA PowersGap ==
  ASSUME NEW n, NEW p, Powers(p, n)
  PROVE  \A g, h \in 0 .. n : g < h => 2 * p[g] <= p[h]
<1> TAKE g \in 0 .. n
<1> DEFINE S == {h \in 0 .. n : g < h /\ ~(2 * p[g] <= p[h])}
<1>1. SUFFICES ASSUME S # {}  PROVE FALSE
  OBVIOUS
<1>2. PICK m \in S : \A k \in S : m <= k
  <2>1. S \in SUBSET Nat
    BY PowersFacts
  <2> HIDE DEF S
  <2> QED  BY <1>1, <2>1, LeastOf
<1>3. m \in 1 .. n /\ p[m] = 2 * p[m - 1] /\ m - 1 \in 0 .. n
  BY <1>2, PowersFacts
<1>4. CASE m - 1 = g
  BY <1>2, <1>3, <1>4, PowersFacts
<1>5. CASE m - 1 # g
  <2>1. g < m - 1 /\ m - 1 \notin S
    BY <1>2, <1>3, <1>5
  <2>2. 2 * p[g] <= p[m - 1]
    BY <1>3, <2>1
  <2> QED  BY <1>2, <1>3, <2>2, PowersFacts
<1> QED  BY <1>4, <1>5

LEMMA PowersProduct ==
  ASSUME NEW n, NEW p, Powers(p, n)
  PROVE  \A d, h \in 0 .. n : d <= h => p[d] * p[h - d] = p[h]
<1> TAKE d \in 0 .. n
<1> DEFINE S == {h \in 0 .. n : d <= h /\ p[d] * p[h - d] # p[h]}
<1>1. SUFFICES ASSUME S # {}  PROVE FALSE
  OBVIOUS
<1>2. PICK m \in S : \A k \in S : m <= k
  <2>1. S \in SUBSET Nat
    BY PowersFacts
  <2> HIDE DEF S
  <2> QED  BY <1>1, <2>1, LeastOf
<1>3. CASE m = d
  <2>1. m - d = 0
    BY <1>3, PowersFacts
  <2>2. p[d] \in Nat
    BY PowersFacts
  <2> QED  BY <1>2, <1>3, <2>1, <2>2, PowersFacts
<1>4. CASE m # d
  <2>1. m - 1 \in 0 .. n /\ d <= m - 1 /\ m - 1 \notin S
    BY <1>2, <1>4, PowersFacts
  <2>2. p[d] * p[(m - 1) - d] = p[m - 1]
    BY <2>1
  <2>3. m - d \in 1 .. n /\ (m - d) - 1 = (m - 1) - d /\ m \in 1 .. n
    BY <1>2, <2>1, PowersFacts
  <2>4. p[m - d] = 2 * p[(m - 1) - d] /\ p[m] = 2 * p[m - 1]
    BY <2>3, PowersFacts
  <2>5. p[d] \in Nat /\ p[(m - 1) - d] \in Nat
    BY <2>1, <2>3, PowersFacts
  <2>6. \A a, b \in Nat : a * (2 * b) = 2 * (a * b)
    OBVIOUS
  <2>7. p[d] * p[m - d] = p[m]
    BY <2>2, <2>4, <2>5, <2>6
  <2> QED  BY <1>2, <2>7
<1> QED  BY <1>3, <1>4

\* Division with remainder.
LEMMA Divided ==
  ASSUME NEW a \in Int, NEW d \in Nat \ {0}
  PROVE  a \div d \in Int /\ a = (a \div d) * d + (a % d) /\ a % d \in 0 .. d - 1
  OBVIOUS

\* A multiple of d that is smaller than d is zero.
LEMMA SmallMultiple ==
  ASSUME NEW z \in Int, NEW d \in Nat \ {0}, -d < z * d, z * d < d
  PROVE  z = 0
  <1>1. CASE z >= 1
    <2>1. z * d = d + (z - 1) * d
      OBVIOUS
    <2>2. (z - 1) * d \in Nat
      BY <1>1
    <2>3. QED
      BY <2>1, <2>2
  <1>2. CASE z <= -1
    <2>1. z * d = (z + 1) * d - d
      OBVIOUS
    <2>2. (-(z + 1)) * d \in Nat
      BY <1>2
    <2>3. (z + 1) * d = -((-(z + 1)) * d)
      OBVIOUS
    <2>4. QED
      BY <2>1, <2>2, <2>3
  <1>3. QED
    BY <1>1, <1>2

\* Adding multiples of d keeps the remainder.
LEMMA SameRemainder ==
  ASSUME NEW a \in Int, NEW b \in Int, NEW k \in Int, NEW d \in Nat \ {0}, b = a + k * d
  PROVE  b % d = a % d
  <1> DEFINE z == (b \div d) - (a \div d) - k
  <1>1. z \in Int /\ z * d = (a % d) - (b % d)
    <2>1. z * d = (b \div d) * d - (a \div d) * d - k * d
      BY Divided
    <2>2. QED
      BY <2>1, Divided
  <1>2. a % d \in 0 .. d - 1 /\ b % d \in 0 .. d - 1
    BY Divided
  <1> HIDE DEF z
  <1>3. z = 0
    BY <1>1, <1>2, SmallMultiple
  <1>4. QED
    BY <1>1, <1>2, <1>3

LEMMA Quotient ==
  ASSUME NEW a \in Nat \ {0}, NEW b \in Nat, NEW r \in 0 .. a - 1
  PROVE  (a * b + r) \div a = b
<1>1. PICK x : x = a * b
  OBVIOUS
<1>2. x \in Nat
  BY <1>1
<1>3. PICK y : y = (x + r) \div a
  OBVIOUS
<1>4. y \in Nat /\ a * y <= x + r /\ x + r < a * (y + 1)
  BY <1>2, <1>3
<1>5. a * y < a * (b + 1) /\ a * b < a * (y + 1)
  BY <1>1, <1>2, <1>4
<1>6. \A u, v \in Nat : a * u < a * v => u < v
  OBVIOUS
<1>7. y < b + 1 /\ b < y + 1
  BY <1>4, <1>5, <1>6
<1> QED  BY <1>1, <1>3, <1>4, <1>7

LEMMA Remainder ==
  ASSUME NEW a \in Nat \ {0}, NEW b \in Nat, NEW r \in 0 .. a - 1
  PROVE  (a * b + r) % a = r
<1>1. PICK x : x = a * b
  OBVIOUS
<1>2. x \in Nat
  BY <1>1
<1>3. x + r = a * ((x + r) \div a) + ((x + r) % a)
  BY <1>2
<1>4. (x + r) \div a = b
  BY <1>1, Quotient
<1>5. (x + r) % a \in Nat
  BY <1>2
<1> QED  BY <1>1, <1>2, <1>3, <1>4, <1>5

\* Place k of b groups of a, by its group and its place there.
LEMMA Grouped ==
  ASSUME NEW a \in Nat \ {0}, NEW b \in Nat, NEW k \in 1 .. a * b
  PROVE  /\ (k - 1) \div a \in 0 .. b - 1 /\ (k - 1) % a \in 0 .. a - 1
         /\ k - 1 = a * ((k - 1) \div a) + ((k - 1) % a)
<1>1. PICK q, r : q = (k - 1) \div a /\ r = (k - 1) % a
  OBVIOUS
<1>2. a * b \in Nat
  OBVIOUS
<1>3. k - 1 \in Nat /\ k - 1 < a * b
  BY <1>2
<1>4. q \in Nat /\ r \in 0 .. a - 1 /\ k - 1 = a * q + r
  BY <1>1, <1>3
<1>5. a * q < a * b
  <2>1. a * q \in Nat
    BY <1>4
  <2> QED  BY <1>2, <1>3, <1>4, <2>1
<1>6. \A u, v \in Nat : a * u < a * v => u < v
  OBVIOUS
<1>7. q < b
  BY <1>4, <1>5, <1>6
<1> QED  BY <1>1, <1>4, <1>7

LEMMA GroupPlace ==
  ASSUME NEW a \in Nat \ {0}, NEW b \in Nat, NEW j \in 1 .. b, NEW i \in 1 .. a
  PROVE  /\ (j - 1) * a + i \in 1 .. a * b
         /\ (j - 1) * a + i - 1 \in Nat
         /\ ((j - 1) * a + i - 1) \div a = j - 1
         /\ ((j - 1) * a + i - 1) % a = i - 1
<1>1. PICK x : x = (j - 1) * a
  OBVIOUS
<1>2. x \in Nat /\ x = a * (j - 1)
  BY <1>1
<1>3. x + a <= a * b
  <2>1. x + a = a * j
    BY <1>2
  <2>2. a * j <= a * b
    OBVIOUS
  <2> QED  BY <2>1, <2>2
<1>4. a * b \in Nat
  OBVIOUS
<1>5. i - 1 \in 0 .. a - 1 /\ j - 1 \in Nat
  OBVIOUS
<1>6. (a * (j - 1) + (i - 1)) \div a = j - 1 /\ (a * (j - 1) + (i - 1)) % a = i - 1
  BY <1>5, Quotient, Remainder
<1>7. x + i - 1 = a * (j - 1) + (i - 1)
  BY <1>2
<1>8. x + i \in 1 .. a * b /\ x + i - 1 \in Nat
  BY <1>2, <1>3, <1>4
<1> QED  BY <1>1, <1>6, <1>7, <1>8

-----------------------------------------------------------------------------
(* The elements of a set of numbers in increasing order.                   *)

Below(S, x) == {y \in S : y < x}

LEMMA RankFacts ==
  ASSUME NEW S \in SUBSET Nat, IsFiniteSet(S), NEW x \in S
  PROVE  /\ Cardinality(Below(S, x)) \in 0 .. Cardinality(S) - 1
         /\ \A z \in S : x < z => Cardinality(Below(S, x)) < Cardinality(Below(S, z))
<1>1. /\ \A T \in SUBSET S : IsFiniteSet(T) /\ Cardinality(T) \in Nat
      /\ Cardinality(S) \in Nat
  BY FS_Subset, FS_CardinalityType
<1>2. ASSUME NEW T \in SUBSET S, Below(S, x) \subseteq T, x \in T
      PROVE  Cardinality(Below(S, x)) < Cardinality(T)
  <2>1. Below(S, x) \cup {x} \in SUBSET T /\ x \notin Below(S, x) /\ Below(S, x) \in SUBSET S
    BY <1>2 DEF Below
  <2>2. IsFiniteSet(Below(S, x)) /\ IsFiniteSet(T)
    BY <1>1, <2>1
  <2>3. Cardinality(Below(S, x) \cup {x}) = Cardinality(Below(S, x)) + 1
    BY <2>1, <2>2, FS_AddElement
  <2>4. Cardinality(Below(S, x) \cup {x}) <= Cardinality(T)
    BY <2>1, <2>2, FS_Subset
  <2>5. Cardinality(Below(S, x)) \in Nat /\ Cardinality(T) \in Nat
    BY <1>1, <2>1
  <2> QED  BY <2>3, <2>4, <2>5
<1>3. Below(S, x) \in SUBSET S
  BY DEF Below
<1>4. Cardinality(Below(S, x)) < Cardinality(S)
  BY <1>2, <1>3
<1>5. ASSUME NEW z \in S, x < z
      PROVE  Cardinality(Below(S, x)) < Cardinality(Below(S, z))
  <2>1. Below(S, z) \in SUBSET S /\ Below(S, x) \subseteq Below(S, z) /\ x \in Below(S, z)
    <3>1. \A y \in S : y < x => y < z
      BY <1>5
    <3> QED  BY <1>5, <3>1 DEF Below
  <2> QED  BY <1>2, <2>1
<1> QED  BY <1>1, <1>3, <1>4, <1>5

IsInOrder(q, S) ==
  /\ IsSeq(q) /\ Len(q) = Cardinality(S)
  /\ \A i \in 1 .. Len(q) : q[i] \in S
  /\ \A i, j \in 1 .. Len(q) : i < j => q[i] < q[j]
  /\ \A x \in S : \E i \in 1 .. Len(q) : q[i] = x
  /\ \A i \in 1 .. Len(q) : Cardinality(Below(S, q[i])) = i - 1

LEMMA InOrderFacts ==
  ASSUME NEW S \in SUBSET Nat, IsFiniteSet(S)
  PROVE  IsInOrder(InOrder(S), S)
<1> DEFINE m == Cardinality(S)
           rank == [x \in S |-> Cardinality(Below(S, x))]
           q == InOrder(S)
<1>1. m \in Nat
  BY FS_CardinalityType
<1>2. \A x \in S : rank[x] = Cardinality(Below(S, x)) /\ rank[x] \in 0 .. m - 1
  BY RankFacts
<1>3. \A x, z \in S : x < z => rank[x] < rank[z]
  BY RankFacts
<1>4. rank \in [S -> 0 .. m - 1]
  BY <1>2
<1> HIDE DEF rank, m
<1>5. \A x, z \in S : rank[x] = rank[z] => x = z
  <2>1. TAKE x, z \in S
  <2>2. rank[x] \in Nat /\ rank[z] \in Nat
    BY <1>1, <1>2
  <2>3. x < z \/ z < x \/ x = z
    OBVIOUS
  <2> QED  BY <1>3, <2>2, <2>3
<1>6. rank \in Surjection(S, 0 .. m - 1)
  <2>1. rank \in Injection(S, 0 .. m - 1)
    BY <1>4, <1>5 DEF Injection, IsInjective
  <2>2. IsFiniteSet(0 .. m - 1) /\ Cardinality(0 .. m - 1) = m
    <3>1. 0 \in Int /\ m - 1 \in Int
      BY <1>1
    <3>2. /\ IsFiniteSet(0 .. m - 1)
          /\ Cardinality(0 .. m - 1) = IF 0 > m - 1 THEN 0 ELSE (m - 1) - 0 + 1
      BY <3>1, FS_Interval
    <3> QED  BY <1>1, <3>2
  <2> QED  BY <2>1, <2>2, FS_Injection DEF m
<1>7. \A k \in 0 .. m - 1 : \E x \in S : rank[x] = k
  BY <1>6 DEF Surjection
<1>8. q = [i \in 1 .. m |-> CHOOSE x \in S : Cardinality(Below(S, x)) = i - 1]
  BY DEF InOrder, Below, m
<1>9. ASSUME NEW i \in 1 .. m
      PROVE  q[i] \in S /\ rank[q[i]] = i - 1
  <2>1. q[i] = CHOOSE x \in S : Cardinality(Below(S, x)) = i - 1
    BY <1>8
  <2>2. i - 1 \in 0 .. m - 1
    BY <1>1
  <2>3. PICK x \in S : rank[x] = i - 1
    BY <1>7, <2>2
  <2>4. Cardinality(Below(S, x)) = i - 1
    BY <1>2, <2>3
  <2>5. q[i] \in S /\ Cardinality(Below(S, q[i])) = i - 1
    BY <2>1, <2>4
  <2> QED  BY <1>2, <2>5
<1>10. DOMAIN q = 1 .. m /\ q = [i \in 1 .. m |-> q[i]]
  BY <1>8
<1> HIDE DEF q
<1>11. IsSeq(q) /\ Len(q) = m
  BY <1>1, <1>10, ListedIsSeq
<1>12. \A i, j \in 1 .. m : i < j => q[i] < q[j]
  <2>1. TAKE i, j \in 1 .. m
  <2>2. HAVE i < j
  <2>3. PICK a, b : a = q[i] /\ b = q[j]
    OBVIOUS
  <2>4. a \in S /\ b \in S /\ rank[a] = i - 1 /\ rank[b] = j - 1
    BY <1>9, <2>3
  <2>5. a \in Nat /\ b \in Nat
    BY <2>4
  <2>6. b < a => rank[b] < rank[a]
    BY <1>3, <2>4
  <2>7. a # b /\ ~(rank[b] < rank[a])
    BY <1>1, <2>2, <2>4
  <2> QED  BY <2>3, <2>5, <2>6, <2>7
<1>13. \A x \in S : \E i \in 1 .. m : q[i] = x
  <2>1. TAKE x \in S
  <2>2. rank[x] + 1 \in 1 .. m /\ (rank[x] + 1) - 1 = rank[x]
    BY <1>1, <1>2
  <2>3. q[rank[x] + 1] \in S /\ rank[q[rank[x] + 1]] = rank[x]
    BY <1>9, <2>2
  <2>4. q[rank[x] + 1] = x
    BY <1>5, <2>3
  <2> QED  BY <2>2, <2>4
<1>14. \A i \in 1 .. m : Cardinality(Below(S, q[i])) = i - 1
  BY <1>2, <1>9
<1>15. IsInOrder(q, S)
  BY <1>9, <1>11, <1>12, <1>13, <1>14 DEF IsInOrder, m
<1> QED  BY <1>15 DEF q

\* An element is at the place that counts the elements up to it.
LEMMA RankedAt ==
  ASSUME NEW S \in SUBSET Nat, IsFiniteSet(S), NEW q, IsInOrder(q, S), NEW x \in S
  PROVE  /\ Cardinality({y \in S : y <= x}) \in 1 .. Len(q)
         /\ q[Cardinality({y \in S : y <= x})] = x
<1>1. PICK i \in 1 .. Len(q) : q[i] = x
  BY DEF IsInOrder
<1>2. Cardinality(Below(S, x)) = i - 1 /\ i \in Nat
  BY <1>1 DEF IsInOrder, IsSeq
<1>3. /\ Below(S, x) \in SUBSET S /\ x \notin Below(S, x)
      /\ {y \in S : y <= x} = Below(S, x) \cup {x}
  <2>1. \A y \in S : y \in Nat
    OBVIOUS
  <2>2. \A y \in S : y <= x <=> y < x \/ y = x
    BY <2>1
  <2>3. ~(x < x)
    BY <2>1
  <2> QED  BY <2>2, <2>3 DEF Below
<1>4. IsFiniteSet(Below(S, x))
  BY <1>3, FS_Subset
<1>5. Cardinality(Below(S, x) \cup {x}) = Cardinality(Below(S, x)) + 1
  BY <1>3, <1>4, FS_AddElement
<1> DEFINE T == {y \in S : y <= x}
<1>6. T = Below(S, x) \cup {x}
  BY <1>3
<1> HIDE DEF T
<1>7. Cardinality(T) = i
  <2>1. Cardinality(T) = Cardinality(Below(S, x)) + 1
    BY <1>5, <1>6
  <2> QED  BY <1>2, <2>1
<1> QED  BY <1>1, <1>7 DEF T

\* The listing is the only one.
Lists(q, S) ==
  /\ IsSeq(q)
  /\ \A i \in 1 .. Len(q) : q[i] \in S
  /\ \A i, j \in 1 .. Len(q) : i < j => q[i] < q[j]
  /\ \A x \in S : \E i \in 1 .. Len(q) : q[i] = x

LEMMA ListedAlike ==
  ASSUME NEW S \in SUBSET Nat, NEW q, Lists(q, S), NEW r, Lists(r, S)
  PROVE  \A i \in 1 .. Len(q) : i <= Len(r) => q[i] = r[i]
<1> DEFINE D == {i \in 1 .. Len(q) : i <= Len(r) /\ q[i] # r[i]}
<1>1. SUFFICES ASSUME D # {}  PROVE FALSE
  OBVIOUS
<1>2. Len(q) \in Nat /\ Len(r) \in Nat
  BY DEF Lists, IsSeq
<1>3. PICK i \in D : \A k \in D : i <= k
  <2>1. D \in SUBSET Nat
    BY <1>2
  <2> HIDE DEF D
  <2> QED  BY <1>1, <2>1, LeastOf
<1>4. i \in 1 .. Len(q) /\ i \in 1 .. Len(r) /\ q[i] # r[i]
  BY <1>2, <1>3
<1>5. \A k \in 1 .. i - 1 : k \in 1 .. Len(q) /\ k \in 1 .. Len(r) /\ q[k] = r[k]
  BY <1>2, <1>3
<1>6. PICK j \in 1 .. Len(r) : r[j] = q[i]
  BY <1>4 DEF Lists
<1>7. PICK k \in 1 .. Len(q) : q[k] = r[i]
  BY <1>4 DEF Lists
<1>8. \A a \in 1 .. Len(q) : q[a] \in Nat
  BY DEF Lists
<1>9. \A a \in 1 .. Len(r) : r[a] \in Nat
  BY DEF Lists
<1>10. j # i /\ k # i
  BY <1>4, <1>6, <1>7
<1>11. ~(j < i)
  <2>1. SUFFICES ASSUME j < i  PROVE FALSE
    OBVIOUS
  <2>2. q[j] = r[j] /\ q[j] < q[i]
    BY <1>2, <1>4, <1>5, <2>1 DEF Lists
  <2> QED  BY <1>4, <1>6, <1>8, <2>2
<1>12. ~(k < i)
  <2>1. SUFFICES ASSUME k < i  PROVE FALSE
    OBVIOUS
  <2>2. q[k] = r[k] /\ r[k] < r[i]
    BY <1>2, <1>4, <1>5, <2>1 DEF Lists
  <2> QED  BY <1>4, <1>7, <1>8, <1>9, <2>2
<1>13. i < j /\ i < k
  BY <1>2, <1>4, <1>10, <1>11, <1>12
<1>14. r[i] < r[j] /\ q[i] < q[k]
  BY <1>4, <1>13 DEF Lists
<1> QED  BY <1>4, <1>6, <1>7, <1>8, <1>9, <1>14

LEMMA ListedOnce ==
  ASSUME NEW S \in SUBSET Nat, NEW q, Lists(q, S), NEW r, Lists(r, S)
  PROVE  q = r
<1>1. Len(q) \in Nat /\ Len(r) \in Nat
  BY DEF Lists, IsSeq
<1>2. ASSUME NEW u, Lists(u, S), NEW v, Lists(v, S)
      PROVE  ~(Len(u) < Len(v))
  <2>1. SUFFICES ASSUME Len(u) < Len(v)  PROVE FALSE
    OBVIOUS
  <2>2. Len(u) \in Nat /\ Len(v) \in Nat
    BY <1>2 DEF Lists, IsSeq
  <2>3. PICK n : n = Len(u) + 1
    OBVIOUS
  <2>4. n \in 1 .. Len(v)
    BY <2>1, <2>2, <2>3
  <2>5. v[n] \in S
    BY <1>2, <2>4 DEF Lists
  <2>6. PICK i \in 1 .. Len(u) : u[i] = v[n]
    BY <1>2, <2>5 DEF Lists
  <2>7. i \in 1 .. Len(v) /\ i < n
    BY <2>1, <2>2, <2>3
  <2>8. u[i] = v[i]
    BY <1>2, <2>2, <2>7, ListedAlike
  <2>9. v[i] < v[n] /\ v[i] \in Nat
    BY <1>2, <2>4, <2>7 DEF Lists
  <2> QED  BY <2>5, <2>6, <2>8, <2>9
<1>3. Len(q) = Len(r)
  <2>1. ~(Len(q) < Len(r)) /\ ~(Len(r) < Len(q))
    BY <1>2
  <2> QED  BY <1>1, <2>1
<1>4. \A i \in 1 .. Len(q) : q[i] = r[i]
  BY <1>1, <1>3, ListedAlike
<1> QED  BY <1>3, <1>4, SameSeq DEF Lists

LEMMA InOrderLists ==
  ASSUME NEW S \in SUBSET Nat, IsFiniteSet(S)
  PROVE  Lists(InOrder(S), S)
BY InOrderFacts DEF IsInOrder, Lists

-----------------------------------------------------------------------------
(* Sums of the first elements of a sequence, and bits taken from a number one at a time: *)
(* what their recursive definitions compute.                                             *)

\* f adds up the first elements of s, as a recursive definition says, and up to k.
SumsUp(f, s) == f = [k \in 0 .. Len(s) |-> IF k = 0 THEN 0 ELSE f[k - 1] + s[k]]

SumsUpTo(f, s, k) ==
  \A h \in 0 .. Len(s) : h <= k => f[h] = IF h = 0 THEN 0 ELSE f[h - 1] + s[h]

LEMMA OneMoreSum ==
  ASSUME NEW s \in Seq(Nat), NEW k \in Nat, NEW f, SumsUpTo(f, s, k)
  PROVE  \E g : SumsUpTo(g, s, k + 1)
<1> DEFINE g == [h \in 0 .. Len(s) |-> IF h = k + 1 THEN f[h - 1] + s[h] ELSE f[h]]
<1>0. Len(s) \in Nat
  OBVIOUS
<1>1. ASSUME NEW h \in 0 .. Len(s), h <= k + 1
      PROVE  g[h] = IF h = 0 THEN 0 ELSE g[h - 1] + s[h]
  <2>1. CASE h = k + 1
    <3>1. h # 0 /\ h - 1 \in 0 .. Len(s) /\ h - 1 # k + 1
      BY <1>0, <2>1
    <3>2. g[h] = f[h - 1] + s[h] /\ g[h - 1] = f[h - 1]
      BY <2>1, <3>1
    <3> HIDE DEF g
    <3> QED  BY <3>1, <3>2
  <2>2. CASE h # k + 1
    <3>1. g[h] = f[h] /\ h <= k
      BY <1>0, <1>1, <2>2
    <3>2. h # 0 => h - 1 \in 0 .. Len(s) /\ h - 1 # k + 1
      BY <1>0, <3>1
    <3>3. h # 0 => g[h - 1] = f[h - 1]
      BY <3>2
    <3>4. f[h] = IF h = 0 THEN 0 ELSE f[h - 1] + s[h]
      BY <3>1 DEF SumsUpTo
    <3> HIDE DEF g
    <3> QED  BY <3>1, <3>3, <3>4
  <2> QED  BY <2>1, <2>2
<1> HIDE DEF g
<1>2. SumsUpTo(g, s, k + 1)
  BY <1>1 DEF SumsUpTo
<1> QED  BY <1>2

LEMMA SumsExist ==
  ASSUME NEW s \in Seq(Nat)
  PROVE  \E f : SumsUp(f, s)
<1> DEFINE S == {k \in Nat : ~\E f : SumsUpTo(f, s, k)}
<1>1. S = {}
  <2>1. SUFFICES ASSUME S # {}  PROVE FALSE
    OBVIOUS
  <2>2. PICK m \in S : \A k \in S : m <= k
    BY <2>1, LeastOf
  <2>3. m # 0
    <3> DEFINE f == [h \in 0 .. Len(s) |-> 0]
    <3>1. SumsUpTo(f, s, 0)
      BY DEF SumsUpTo
    <3> QED  BY <3>1, <2>2
  <2>4. m - 1 \in Nat /\ m - 1 \notin S /\ (m - 1) + 1 = m
    BY <2>2, <2>3
  <2>5. PICK f : SumsUpTo(f, s, m - 1)
    BY <2>4
  <2>6. \E g : SumsUpTo(g, s, (m - 1) + 1)
    BY <2>4, <2>5, OneMoreSum
  <2> QED  BY <2>2, <2>4, <2>6
<1>2. PICK f : SumsUpTo(f, s, Len(s))
  <2>1. Len(s) \in Nat
    OBVIOUS
  <2>2. Len(s) \notin S
    BY <1>1
  <2> QED  BY <2>1, <2>2
<1> DEFINE g == [h \in 0 .. Len(s) |-> f[h]]
<1>3. \A h \in 0 .. Len(s) : g[h] = IF h = 0 THEN 0 ELSE g[h - 1] + s[h]
  BY <1>2 DEF SumsUpTo
<1>4. g = [h \in 0 .. Len(s) |-> g[h]]
  OBVIOUS
<1> HIDE DEF g
<1>5. SumsUp(g, s)
  BY <1>3, <1>4 DEF SumsUp
<1> QED  BY <1>5

NoBits(n) == [reversed |-> 0, rest |-> n]

NextBit(cur) ==
  [reversed |-> 2 * cur.reversed + (cur.rest % 2), rest |-> cur.rest \div 2]

BitsDefined(f, n, bits) ==
  f = [k \in 0 .. bits |-> IF k = 0 THEN NoBits(n) ELSE NextBit(f[k - 1])]

AreBits(f, n, bits, j) ==
  \A k \in 0 .. bits : k <= j => f[k] = IF k = 0 THEN NoBits(n) ELSE NextBit(f[k - 1])

LEMMA OneMoreBit ==
  ASSUME NEW n, NEW bits \in Nat, NEW j \in Nat, NEW f, AreBits(f, n, bits, j)
  PROVE  \E g : AreBits(g, n, bits, j + 1)
<1> DEFINE g == [k \in 0 .. bits |-> IF k = j + 1 THEN NextBit(f[k - 1]) ELSE f[k]]
<1>1. ASSUME NEW k \in 0 .. bits, k <= j + 1
      PROVE  g[k] = IF k = 0 THEN NoBits(n) ELSE NextBit(g[k - 1])
  <2>1. CASE k = j + 1
    <3>1. k # 0 /\ k - 1 \in 0 .. bits /\ k - 1 # j + 1
      BY <2>1
    <3>2. g[k] = NextBit(f[k - 1]) /\ g[k - 1] = f[k - 1]
      BY <2>1, <3>1
    <3> HIDE DEF g
    <3> QED  BY <3>1, <3>2
  <2>2. CASE k # j + 1
    <3>1. g[k] = f[k] /\ k <= j
      BY <1>1, <2>2
    <3>2. k # 0 => k - 1 \in 0 .. bits /\ k - 1 # j + 1
      BY <3>1
    <3>3. k # 0 => g[k - 1] = f[k - 1]
      BY <3>2
    <3>4. f[k] = IF k = 0 THEN NoBits(n) ELSE NextBit(f[k - 1])
      BY <3>1 DEF AreBits
    <3> HIDE DEF g
    <3> QED  BY <3>1, <3>3, <3>4
  <2> QED  BY <2>1, <2>2
<1> HIDE DEF g
<1>2. AreBits(g, n, bits, j + 1)
  BY <1>1 DEF AreBits
<1> QED  BY <1>2

LEMMA BitsExist ==
  ASSUME NEW n, NEW bits \in Nat
  PROVE  \E f : BitsDefined(f, n, bits)
<1> DEFINE S == {j \in Nat : ~\E f : AreBits(f, n, bits, j)}
<1>1. S = {}
  <2>1. SUFFICES ASSUME S # {}  PROVE FALSE
    OBVIOUS
  <2>2. PICK m \in S : \A k \in S : m <= k
    BY <2>1, LeastOf
  <2>3. m # 0
    <3> DEFINE f == [k \in 0 .. bits |-> NoBits(n)]
    <3>1. \A k \in 0 .. bits : k <= 0 => k = 0 /\ f[k] = NoBits(n)
      OBVIOUS
    <3> HIDE DEF f
    <3>2. AreBits(f, n, bits, 0)
      BY <3>1 DEF AreBits
    <3> QED  BY <3>2, <2>2
  <2>4. m - 1 \in Nat /\ m - 1 \notin S /\ (m - 1) + 1 = m
    BY <2>2, <2>3
  <2>5. PICK f : AreBits(f, n, bits, m - 1)
    BY <2>4
  <2>6. \E g : AreBits(g, n, bits, (m - 1) + 1)
    BY <2>4, <2>5, OneMoreBit
  <2> QED  BY <2>2, <2>4, <2>6
<1>2. PICK f : AreBits(f, n, bits, bits)
  BY <1>1
<1> DEFINE g == [k \in 0 .. bits |-> f[k]]
<1>3. \A k \in 0 .. bits : g[k] = IF k = 0 THEN NoBits(n) ELSE NextBit(g[k - 1])
  <2>1. \A k \in 0 .. bits : k # 0 => k - 1 \in 0 .. bits
    OBVIOUS
  <2>2. \A k \in 0 .. bits : k <= bits /\ g[k] = f[k]
    OBVIOUS
  <2> HIDE DEF g
  <2> QED  BY <1>2, <2>1, <2>2 DEF AreBits
<1>4. g = [k \in 0 .. bits |-> g[k]]
  OBVIOUS
<1> HIDE DEF g
<1>5. BitsDefined(g, n, bits)
  BY <1>3, <1>4 DEF BitsDefined
<1> QED  BY <1>5

Bits(f, n, bits) == f[0] = NoBits(n) /\ \A k \in 1 .. bits : f[k] = NextBit(f[k - 1])
=============================================================================
