------------------------------ MODULE FriProofs ------------------------------
(***************************************************************************)
(* Proofs about FRI, for all parameters and queries.                       *)
(***************************************************************************)
EXTENDS Fri, Elementary

-----------------------------------------------------------------------------
(* Numbers of layers and of cosets.                                        *)

LEMMA Pow2Powers == Powers(Pow2, MaxHeight)
<1> DEFINE P(f) == f = [h \in 0 .. MaxHeight |-> IF h = 0 THEN 1 ELSE 2 * f[h - 1]]
<1>1. MaxHeight \in Nat
  BY FriAssumption
<1>2. PICK f : P(f)
  BY <1>1, PowersExist DEF Powers
<1>3. Pow2 = CHOOSE p : P(p)
  BY DEF Pow2
<1>4. P(Pow2)
  BY <1>2, <1>3
<1> HIDE DEF Pow2
<1> QED  BY <1>1, <1>4 DEF Powers

\* What a sum of steps is.
LEMMA SumFacts ==
  ASSUME NEW s \in Seq(Nat)
  PROVE  /\ SumOfFirst(s, 0) = 0
         /\ \A k \in 1 .. Len(s) : SumOfFirst(s, k) = SumOfFirst(s, k - 1) + s[k]
<1> DEFINE P(f) == f = [k \in 0 .. Len(s) |-> IF k = 0 THEN 0 ELSE f[k - 1] + s[k]]
           sum == CHOOSE f : P(f)
<1>1. P(sum)
  <2>1. \E f : P(f)
    BY SumsExist DEF SumsUp
  <2> HIDE DEF P
  <2> QED  BY <2>1
<1>2. \A n : SumOfFirst(s, n) = sum[n]
  BY DEF SumOfFirst
<1> HIDE DEF sum
<1>3. \A k \in 0 .. Len(s) : sum[k] = IF k = 0 THEN 0 ELSE sum[k - 1] + s[k]
  BY <1>1
<1>4. 0 \in 0 .. Len(s) /\ \A k \in 1 .. Len(s) : k \in 0 .. Len(s) /\ k # 0
  OBVIOUS
<1>5. sum[0] = 0 /\ \A k \in 1 .. Len(s) : sum[k] = sum[k - 1] + s[k]
  BY <1>3, <1>4
<1> QED  BY <1>2, <1>5

RightParams == params \in Requests /\ FromJson(params)

Numbers ==
  /\ n_layers \in Nat \ {0}
  /\ LogDomainSize \in 0 .. MaxHeight
  /\ \A i \in 0 .. n_layers - 1 : FriStep(i) \in Nat
  /\ StepsBefore(0) = 0
  /\ \A i \in 0 .. n_layers - 1 : StepsBefore(i + 1) = StepsBefore(i) + FriStep(i)
  /\ \A i \in 0 .. n_layers : StepsBefore(i) \in 0 .. LogDomainSize
  /\ \A i \in 1 .. n_layers : FriStep(0) <= StepsBefore(i)
  /\ params.n_queries \in Nat \ {0}
  /\ params.proof_of_work_bits \in Nat

LEMMA RightNumbers ==
  ASSUME RightParams
  PROVE  Numbers
<1> DEFINE s == fri_step_list
           n == n_layers
           before == [i \in 0 .. n |-> StepsBefore(i)]
<1>1. /\ s \in Seq(Nat) /\ s # <<>>
      /\ params.log_last_layer_degree_bound + SumOf(s) = params.log_trace_length
      /\ params.log_last_layer_degree_bound \in Nat /\ params.log_trace_length \in Nat
      /\ params.log_n_cosets \in Nat
      /\ params.n_queries \in 1 .. 256 /\ params.proof_of_work_bits \in 0 .. 50
  <2>1. params \in RequestType
    BY FriAssumption DEF RightParams
  <2> QED  BY <2>1 DEF RightParams, FromJson, RequestType, fri_step_list
<1>2. /\ SumOfFirst(s, 0) = 0
      /\ \A k \in 1 .. Len(s) : SumOfFirst(s, k) = SumOfFirst(s, k - 1) + s[k]
  BY <1>1, SumFacts
<1>3. n \in Nat \ {0} /\ n = Len(s)
  BY <1>1 DEF n_layers
<1>4. \A i \in 0 .. n - 1 : FriStep(i) \in Nat
  <2>1. \A i \in 1 .. n : s[i] \in Nat
    BY <1>1, <1>3
  <2>2. \A i \in 0 .. n - 1 : i + 1 \in 1 .. n
    BY <1>3
  <2> QED  BY <2>1, <2>2 DEF FriStep
<1>5. before[0] = 0 /\ \A i \in 0 .. n - 1 : before[i + 1] = before[i] + FriStep(i)
  <2>1. \A i \in 0 .. n - 1 : i + 1 \in 1 .. n /\ (i + 1) - 1 = i
                              /\ i \in 0 .. n /\ i + 1 \in 0 .. n
    BY <1>3
  <2>2. 0 \in 0 .. n
    BY <1>3
  <2> QED  BY <1>2, <1>3, <2>1, <2>2 DEF StepsBefore, FriStep
<1>6. \A i \in 0 .. n : before[i] = StepsBefore(i)
  OBVIOUS
<1> HIDE DEF before
<1>7. \A i \in 0 .. n : before[i] \in Nat
  <2> DEFINE B == {i \in 0 .. n : before[i] \notin Nat}
  <2>1. SUFFICES ASSUME B # {}  PROVE FALSE
    OBVIOUS
  <2>2. PICK m \in B : \A k \in B : m <= k
    <3>1. B \in SUBSET Nat
      BY <1>3
    <3> HIDE DEF B
    <3> QED  BY <2>1, <3>1, LeastOf
  <2>3. m # 0 /\ m \in 0 .. n
    BY <1>5, <2>2
  <2>4. m - 1 \in 0 .. n - 1 /\ m - 1 \in 0 .. n /\ (m - 1) + 1 = m /\ ~(m <= m - 1)
    BY <1>3, <2>3
  <2>5. before[m - 1] \in Nat
    BY <2>2, <2>4
  <2>6. before[m] = before[m - 1] + FriStep(m - 1)
    BY <1>5, <2>4
  <2> QED  BY <1>4, <2>2, <2>4, <2>5, <2>6
<1>8. \A i, k \in 0 .. n : i <= k => before[i] <= before[k]
  <2> TAKE i \in 0 .. n
  <2> DEFINE B == {k \in 0 .. n : i <= k /\ ~(before[i] <= before[k])}
  <2>1. SUFFICES ASSUME B # {}  PROVE FALSE
    OBVIOUS
  <2>2. PICK m \in B : \A k \in B : m <= k
    <3>1. B \in SUBSET Nat
      BY <1>3
    <3> HIDE DEF B
    <3> QED  BY <2>1, <3>1, LeastOf
  <2>3. m # i /\ m \in 0 .. n
    BY <1>7, <2>2
  <2>4. m - 1 \in 0 .. n - 1 /\ m - 1 \in 0 .. n /\ (m - 1) + 1 = m /\ ~(m <= m - 1) /\ i <= m - 1
    BY <1>3, <2>2, <2>3
  <2>5. before[i] <= before[m - 1]
    BY <2>2, <2>4
  <2>6. before[m] = before[m - 1] + FriStep(m - 1) /\ FriStep(m - 1) \in Nat
    BY <1>4, <1>5, <2>4
  <2>7. before[m - 1] \in Nat /\ before[i] \in Nat
    BY <1>7, <2>4
  <2> QED  BY <2>2, <2>5, <2>6, <2>7
<1>9. before[n] = SumOf(s)
  <2>1. n \in 0 .. n
    BY <1>3
  <2> QED  BY <1>3, <1>6, <2>1 DEF SumOf, StepsBefore
<1>10. LogDomainSize \in 0 .. MaxHeight /\ before[n] <= LogDomainSize
  <2>1. before[n] \in Nat
    BY <1>3, <1>7
  <2>2. params.log_trace_length + params.log_n_cosets <= MaxHeight /\ MaxHeight \in Nat
    BY FriAssumption DEF RightParams
  <2>3. before[n] <= params.log_trace_length
    BY <1>1, <1>9, <2>1
  <2> QED  BY <1>1, <2>1, <2>2, <2>3 DEF LogDomainSize
<1>11. \A i \in 0 .. n : before[i] \in 0 .. LogDomainSize
  <2>1. TAKE i \in 0 .. n
  <2>2. n \in 0 .. n /\ i <= n
    BY <1>3
  <2>3. before[i] <= before[n]
    BY <1>8, <2>2
  <2>4. before[i] \in Nat /\ before[n] \in Nat /\ LogDomainSize \in Int
    BY <1>7, <1>10, <2>2
  <2> QED  BY <1>10, <2>3, <2>4
<1>12. \A i \in 1 .. n : FriStep(0) <= before[i]
  <2>1. TAKE i \in 1 .. n
  <2>2. 1 \in 0 .. n /\ i \in 0 .. n /\ 1 <= i /\ 0 \in 0 .. n - 1 /\ 0 + 1 = 1
    BY <1>3
  <2>3. before[1] = before[0] + FriStep(0)
    BY <1>5, <2>2
  <2>4. before[1] <= before[i]
    BY <1>8, <2>2
  <2> QED  BY <1>4, <1>5, <2>2, <2>3, <2>4
<1>13. \A i \in 0 .. n - 1 : i \in 0 .. n /\ i + 1 \in 0 .. n
  BY <1>3
<1>14. \A i \in 1 .. n : i \in 0 .. n
  BY <1>3
<1>15. 0 \in 0 .. n
  BY <1>3
<1>16. /\ StepsBefore(0) = 0
       /\ \A i \in 0 .. n - 1 : StepsBefore(i + 1) = StepsBefore(i) + FriStep(i)
       /\ \A i \in 0 .. n : StepsBefore(i) \in 0 .. LogDomainSize
       /\ \A i \in 1 .. n : FriStep(0) <= StepsBefore(i)
  BY <1>5, <1>6, <1>11, <1>12, <1>13, <1>14, <1>15
<1>17. params.n_queries \in Nat \ {0} /\ params.proof_of_work_bits \in Nat
  <2>1. params.n_queries \in 1 .. 256 /\ params.proof_of_work_bits \in 0 .. 50
    BY <1>1
  <2>2. \A x \in 1 .. 256 : x \in Nat \ {0}
    OBVIOUS
  <2>3. \A x \in 0 .. 50 : x \in Nat
    OBVIOUS
  <2> QED  BY <2>1, <2>2, <2>3
<1> QED  BY <1>3, <1>4, <1>10, <1>16, <1>17 DEF Numbers

LEMMA QuotientTwice ==
  ASSUME NEW q \in Nat, NEW x \in Nat \ {0}, NEW y \in Nat \ {0}
  PROVE  (q \div x) \div y = q \div (x * y)
<1>1. PICK a, r : a = q \div x /\ r = q % x
  OBVIOUS
<1>2. a \in Nat /\ r \in 0 .. x - 1 /\ q = x * a + r
  BY <1>1
<1>3. PICK b, s : b = a \div y /\ s = a % y
  OBVIOUS
<1>4. b \in Nat /\ s \in 0 .. y - 1 /\ a = y * b + s
  BY <1>2, <1>3
<1>5. PICK xy, xs : xy = x * y /\ xs = x * s
  OBVIOUS
<1>6. xy \in Nat \ {0} /\ xs \in Nat
  <2>1. \A u, v \in Nat \ {0} : u * v \in Nat \ {0}
    OBVIOUS
  <2>2. \A u, v \in Nat : u * v \in Nat
    OBVIOUS
  <2> QED  BY <1>4, <1>5, <2>1, <2>2
<1>7. q = xy * b + (xs + r)
  <2>1. PICK yb : yb = y * b
    OBVIOUS
  <2>2. yb \in Nat /\ a = yb + s
    BY <1>4, <2>1
  <2>3. x * (yb + s) = x * yb + x * s
    BY <1>4, <2>2
  <2>4. x * (y * b) = (x * y) * b
    BY <1>4
  <2>5. x * a = xy * b + xs
    BY <1>5, <2>1, <2>2, <2>3, <2>4
  <2>6. xy * b \in Nat
    BY <1>4, <1>6
  <2> QED  BY <1>2, <1>6, <2>5, <2>6
<1>8. xs + r \in 0 .. xy - 1
  <2>1. x * s <= x * (y - 1)
    BY <1>4
  <2>2. x * (y - 1) = x * y - x /\ x * y \in Nat
    OBVIOUS
  <2>3. xs <= xy - x
    BY <1>5, <2>1, <2>2
  <2> QED  BY <1>2, <1>6, <2>3
<1>9. (xy * b + (xs + r)) \div xy = b
  BY <1>4, <1>6, <1>8, Quotient
<1> QED  BY <1>1, <1>3, <1>5, <1>7, <1>9

LEMMA QuotientBound ==
  ASSUME NEW a \in Nat \ {0}, NEW b \in Nat, NEW q \in 0 .. a * b - 1
  PROVE  q \div a \in 0 .. b - 1
<1>1. a * b \in Nat
  OBVIOUS
<1>2. q + 1 \in 1 .. a * b /\ (q + 1) - 1 = q
  BY <1>1
<1>3. ((q + 1) - 1) \div a \in 0 .. b - 1
  BY <1>2, Grouped
<1> QED  BY <1>2, <1>3

LEMMA SizeFacts ==
  ASSUME Numbers
  PROVE  /\ \A i \in 0 .. n_layers : LayerSize(i) \in Nat \ {0}
         /\ \A i \in 0 .. n_layers - 1 : /\ CosetSize(i) \in Nat \ {0}
                                         /\ CosetSize(i) * LayerSize(i + 1) = LayerSize(i)
         /\ LayerSize(0) = Pow2[LogDomainSize]
         /\ LayerSize(1) = GetLayerDomainSize(FriStep(0))
         /\ \A i \in 1 .. n_layers : /\ Pow2[StepsBefore(i) - FriStep(0)] \in Nat \ {0}
                                     /\ Pow2[StepsBefore(i) - FriStep(0)] * LayerSize(i)
                                          = LayerSize(1)
         /\ Pow2[StepsBefore(1) - FriStep(0)] = 1
         /\ \A i \in 1 .. n_layers - 1 :
              Pow2[StepsBefore(i + 1) - FriStep(0)]
                = Pow2[StepsBefore(i) - FriStep(0)] * CosetSize(i)
<1>1. /\ MaxHeight \in Nat /\ \A h \in 0 .. MaxHeight : Pow2[h] \in Nat \ {0}
      /\ Pow2[0] = 1
  BY Pow2Powers, PowersFacts
<1>2. \A d, h \in 0 .. MaxHeight : d <= h => Pow2[d] * Pow2[h - d] = Pow2[h]
  BY Pow2Powers, PowersProduct
<1>3. \A i : LayerSize(i) = Pow2[LogDomainSize - StepsBefore(i)] /\ CosetSize(i) = Pow2[FriStep(i)]
  BY DEF LayerSize, GetLayerDomainSize, CosetSize
<1>4. PICK n, log : n = n_layers /\ log = LogDomainSize
  OBVIOUS
<1>5. PICK step, before : /\ step = [i \in 0 .. n - 1 |-> FriStep(i)]
                          /\ before = [i \in 0 .. n |-> StepsBefore(i)]
  OBVIOUS
<1>6. /\ n \in Nat \ {0} /\ log \in 0 .. MaxHeight
      /\ \A i \in 0 .. n - 1 : step[i] \in Nat /\ step[i] = FriStep(i)
      /\ \A i \in 0 .. n : before[i] \in 0 .. log /\ before[i] = StepsBefore(i)
  BY <1>4, <1>5 DEF Numbers
<1>7. \A i \in 0 .. n - 1 : i \in 0 .. n /\ i + 1 \in 0 .. n /\ before[i + 1] = before[i] + step[i]
  <2>1. \A i \in 0 .. n - 1 : i \in 0 .. n /\ i + 1 \in 0 .. n
    BY <1>6
  <2> QED  BY <1>4, <1>5, <2>1 DEF Numbers
<1>8. \A i \in 1 .. n : i \in 0 .. n /\ step[0] <= before[i]
  <2>1. 0 \in 0 .. n - 1 /\ \A i \in 1 .. n : i \in 0 .. n
    BY <1>6
  <2> QED  BY <1>4, <1>5, <2>1 DEF Numbers
<1>9. before[0] = 0 /\ before[1] = step[0] /\ 0 \in 0 .. n - 1 /\ 0 \in 0 .. n /\ 1 \in 0 .. n
  <2>1. 0 \in 0 .. n - 1 /\ 0 \in 0 .. n /\ 1 \in 0 .. n /\ 0 + 1 = 1
    BY <1>6
  <2>2. before[0] = 0
    BY <1>5, <2>1 DEF Numbers
  <2> QED  BY <1>6, <1>7, <2>1, <2>2
<1>10. \A i \in 0 .. n : LayerSize(i) \in Nat \ {0}
  <2>1. \A i \in 0 .. n : log - before[i] \in 0 .. MaxHeight
    BY <1>1, <1>6
  <2> QED  BY <1>1, <1>3, <1>4, <1>6, <2>1
<1>11. ASSUME NEW i \in 0 .. n - 1
       PROVE  CosetSize(i) \in Nat \ {0} /\ CosetSize(i) * LayerSize(i + 1) = LayerSize(i)
  <2>1. PICK d, h : d = step[i] /\ h = log - before[i]
    OBVIOUS
  <2>2. d \in 0 .. MaxHeight /\ h \in 0 .. MaxHeight /\ d <= h /\ h - d = log - before[i + 1]
    BY <1>1, <1>6, <1>7, <2>1
  <2>3. Pow2[d] * Pow2[h - d] = Pow2[h] /\ Pow2[d] \in Nat \ {0}
    BY <1>1, <1>2, <2>2
  <2>4. CosetSize(i) = Pow2[d] /\ LayerSize(i) = Pow2[h] /\ LayerSize(i + 1) = Pow2[h - d]
    BY <1>3, <1>4, <1>6, <1>7, <2>1, <2>2
  <2> QED  BY <2>3, <2>4
<1>12. LayerSize(0) = Pow2[log] /\ LayerSize(1) = GetLayerDomainSize(FriStep(0))
  <2>1. log - before[0] = log
    BY <1>6, <1>9
  <2>2. LayerSize(0) = Pow2[log]
    BY <1>3, <1>4, <1>6, <1>9, <2>1
  <2>3. StepsBefore(1) = FriStep(0)
    BY <1>6, <1>9
  <2> QED  BY <2>2, <2>3 DEF LayerSize
<1>13. ASSUME NEW i \in 1 .. n
       PROVE  /\ Pow2[StepsBefore(i) - FriStep(0)] \in Nat \ {0}
              /\ Pow2[StepsBefore(i) - FriStep(0)] * LayerSize(i) = LayerSize(1)
  <2>1. PICK d, h : d = before[i] - step[0] /\ h = log - step[0]
    OBVIOUS
  <2>2. /\ before[i] \in 0 .. log /\ step[0] \in Nat /\ step[0] <= before[i]
        /\ log \in 0 .. MaxHeight
    BY <1>6, <1>8, <1>9
  <2>3. d \in 0 .. MaxHeight /\ h \in 0 .. MaxHeight /\ d <= h /\ h - d = log - before[i]
    BY <1>1, <2>1, <2>2
  <2>4. Pow2[d] * Pow2[h - d] = Pow2[h] /\ Pow2[d] \in Nat \ {0}
    BY <1>1, <1>2, <2>3
  <2>5. d = StepsBefore(i) - FriStep(0) /\ LayerSize(i) = Pow2[h - d] /\ LayerSize(1) = Pow2[h]
    BY <1>3, <1>4, <1>6, <1>8, <1>9, <2>1, <2>3
  <2> QED  BY <2>4, <2>5
<1>14. Pow2[StepsBefore(1) - FriStep(0)] = 1
  <2>1. StepsBefore(1) - FriStep(0) = 0
    BY <1>6, <1>9
  <2> QED  BY <1>1, <2>1
<1>15. ASSUME NEW i \in 1 .. n - 1
       PROVE  Pow2[StepsBefore(i + 1) - FriStep(0)]
                = Pow2[StepsBefore(i) - FriStep(0)] * CosetSize(i)
  <2>1. PICK d, h : d = before[i] - step[0] /\ h = before[i + 1] - step[0]
    OBVIOUS
  <2>2. i \in 0 .. n - 1 /\ i \in 1 .. n /\ i + 1 \in 1 .. n
    BY <1>6
  <2>3. /\ before[i] \in 0 .. log /\ before[i + 1] \in 0 .. log
        /\ step[0] \in Nat /\ step[i] \in Nat /\ step[0] <= before[i]
        /\ log \in 0 .. MaxHeight /\ before[i + 1] = before[i] + step[i]
    BY <1>6, <1>7, <1>8, <1>9, <2>2
  <2>4. d \in 0 .. MaxHeight /\ h \in 0 .. MaxHeight /\ d <= h /\ h - d = step[i]
    BY <1>1, <2>1, <2>3
  <2>5. Pow2[d] * Pow2[h - d] = Pow2[h]
    BY <1>2, <2>4
  <2>6. /\ h = StepsBefore(i + 1) - FriStep(0) /\ d = StepsBefore(i) - FriStep(0)
        /\ CosetSize(i) = Pow2[h - d]
    BY <1>3, <1>6, <1>7, <1>8, <1>9, <2>1, <2>2, <2>4
  <2> QED  BY <2>5, <2>6
<1> QED  BY <1>4, <1>10, <1>11, <1>12, <1>13, <1>14, <1>15

\* The places in the layers of a place in the second one.
LEMMA IndexFacts ==
  ASSUME Numbers, NEW q \in 0 .. LayerSize(1) - 1
  PROVE  /\ IndexInLayer(q, 1) = q
         /\ \A i \in 1 .. n_layers : IndexInLayer(q, i) \in 0 .. LayerSize(i) - 1
         /\ \A i \in 1 .. n_layers - 1 :
              IndexInLayer(q, i + 1) = IndexInLayer(q, i) \div CosetSize(i)
<1>1. /\ \A i \in 1 .. n_layers : /\ LayerSize(i) \in Nat \ {0}
                                  /\ Pow2[StepsBefore(i) - FriStep(0)] \in Nat \ {0}
                                  /\ Pow2[StepsBefore(i) - FriStep(0)] * LayerSize(i)
                                       = LayerSize(1)
      /\ Pow2[StepsBefore(1) - FriStep(0)] = 1
      /\ \A i \in 1 .. n_layers - 1 :
           /\ CosetSize(i) \in Nat \ {0}
           /\ Pow2[StepsBefore(i + 1) - FriStep(0)]
                = Pow2[StepsBefore(i) - FriStep(0)] * CosetSize(i)
  <2>1. /\ \A i \in 1 .. n_layers : i \in 0 .. n_layers
        /\ \A i \in 1 .. n_layers - 1 : i \in 0 .. n_layers - 1
    BY DEF Numbers
  <2> QED  BY <2>1, SizeFacts
<1>2. n_layers \in Nat \ {0} /\ LayerSize(1) \in Nat
  <2>1. n_layers \in Nat \ {0}
    BY DEF Numbers
  <2>2. 1 \in 1 .. n_layers
    BY <2>1
  <2> QED  BY <1>1, <2>1, <2>2
<1>3. q \in Nat
  BY <1>2
<1>4. IndexInLayer(q, 1) = q
  <2>1. q \div 1 = q
    BY <1>3
  <2> QED  BY <1>1, <2>1 DEF IndexInLayer
<1>5. ASSUME NEW i \in 1 .. n_layers
      PROVE  IndexInLayer(q, i) \in 0 .. LayerSize(i) - 1
  <2>1. PICK a, b : a = Pow2[StepsBefore(i) - FriStep(0)] /\ b = LayerSize(i)
    OBVIOUS
  <2>2. a \in Nat \ {0} /\ b \in Nat /\ q \in 0 .. a * b - 1
    BY <1>1, <2>1
  <2>3. q \div a \in 0 .. b - 1
    BY <2>2, QuotientBound
  <2> QED  BY <2>1, <2>3 DEF IndexInLayer
<1>6. ASSUME NEW i \in 1 .. n_layers - 1
      PROVE  IndexInLayer(q, i + 1) = IndexInLayer(q, i) \div CosetSize(i)
  <2>1. PICK x, y : x = Pow2[StepsBefore(i) - FriStep(0)] /\ y = CosetSize(i)
    OBVIOUS
  <2>2. i \in 1 .. n_layers
    BY <1>2
  <2>3. /\ x \in Nat \ {0} /\ y \in Nat \ {0}
        /\ Pow2[StepsBefore(i + 1) - FriStep(0)] = x * y
    BY <1>1, <2>1, <2>2
  <2>4. (q \div x) \div y = q \div (x * y)
    BY <1>3, <2>3, QuotientTwice
  <2> QED  BY <2>1, <2>3, <2>4 DEF IndexInLayer
<1> QED  BY <1>4, <1>5, <1>6

-----------------------------------------------------------------------------
(* Cells.                                                                  *)

InnerLayers == 1 .. n_layers - 1

LayerCells(i) == (0 .. LayerSize(i + 1) - 1) \X (0 .. CosetSize(i) - 1)

LEMMA InnerNumbers ==
  ASSUME Numbers, NEW i \in InnerLayers
  PROVE  /\ n_layers \in Nat \ {0} /\ i \in Nat \ {0}
         /\ i \in 0 .. n_layers /\ i \in 1 .. n_layers /\ i \in 0 .. n_layers - 1
         /\ i + 1 \in 1 .. n_layers /\ i + 1 \in 0 .. n_layers
         /\ CosetSize(i) \in Nat \ {0}
         /\ LayerSize(i) \in Nat \ {0} /\ LayerSize(i + 1) \in Nat \ {0}
         /\ CosetSize(i) * LayerSize(i + 1) = LayerSize(i)
<1>1. n_layers \in Nat \ {0}
  BY DEF Numbers
<1>2. /\ i \in Nat \ {0} /\ i \in 0 .. n_layers /\ i \in 1 .. n_layers /\ i \in 0 .. n_layers - 1
      /\ i + 1 \in 1 .. n_layers /\ i + 1 \in 0 .. n_layers
  BY <1>1 DEF InnerLayers
<1> QED  BY <1>1, <1>2, SizeFacts

LEMMA CellFacts ==
  ASSUME Numbers, NEW i \in InnerLayers, NEW cell \in LayerCells(i)
  PROVE  /\ PlaceInLayer(cell, i) \in 0 .. LayerSize(i) - 1
         /\ GetTableProverRowCol(PlaceInLayer(cell, i), FriStep(i)) = cell
<1>1. PICK a, b, n : a = CosetSize(i) /\ b = LayerSize(i + 1) /\ n = LayerSize(i)
  OBVIOUS
<1>2. a \in Nat \ {0} /\ b \in Nat \ {0} /\ a * b = n
  BY <1>1, InnerNumbers
<1>3. PICK row \in 0 .. b - 1, col \in 0 .. a - 1 : cell = <<row, col>>
  BY <1>1 DEF LayerCells
<1>4. cell[1] = row /\ cell[2] = col
  BY <1>3
<1>5. PICK x : x = row * a
  OBVIOUS
<1>6. x \in Nat /\ x = a * row
  BY <1>2, <1>3, <1>5
<1>7. PlaceInLayer(cell, i) = x + col
  BY <1>1, <1>4, <1>5 DEF PlaceInLayer
<1>8. (a * row + col) \div a = row /\ (a * row + col) % a = col
  <2>1. row \in Nat
    BY <1>2, <1>3
  <2> QED  BY <1>2, <1>3, <2>1, Quotient, Remainder
<1>9. x + a <= n
  <2>1. x + a = a * (row + 1)
    BY <1>2, <1>3, <1>6
  <2>2. row + 1 <= b /\ row + 1 \in Nat
    BY <1>2, <1>3
  <2>3. \A u, v \in Nat : u <= v => a * u <= a * v
    BY <1>2
  <2> QED  BY <1>2, <2>1, <2>2, <2>3
<1>10. n \in Nat
  BY <1>1, InnerNumbers
<1>11. x + col \in 0 .. n - 1
  BY <1>2, <1>3, <1>6, <1>9, <1>10
<1>12. (x + col) \div a = row /\ (x + col) % a = col
  BY <1>6, <1>8
<1> QED  BY <1>1, <1>3, <1>7, <1>11, <1>12 DEF GetTableProverRowCol, GetTableProverRow, CosetSize

LEMMA PlaceCell ==
  ASSUME Numbers, NEW i \in InnerLayers, NEW x \in 0 .. LayerSize(i) - 1
  PROVE  /\ GetTableProverRowCol(x, FriStep(i)) \in LayerCells(i)
         /\ GetTableProverRowCol(x, FriStep(i)) = <<x \div CosetSize(i), x % CosetSize(i)>>
         /\ PlaceInLayer(GetTableProverRowCol(x, FriStep(i)), i) = x
<1>1. PICK a, b, n : a = CosetSize(i) /\ b = LayerSize(i + 1) /\ n = LayerSize(i)
  OBVIOUS
<1>2. a \in Nat \ {0} /\ b \in Nat \ {0} /\ a * b = n
  BY <1>1, InnerNumbers
<1>3. PICK row, col : row = x \div a /\ col = x % a
  OBVIOUS
<1>4. x \in Nat
  BY <1>1, InnerNumbers
<1>5. row \in 0 .. b - 1 /\ col \in 0 .. a - 1
  <2>1. row \in 0 .. b - 1
    BY <1>1, <1>2, <1>3, QuotientBound
  <2> QED  BY <1>2, <1>3, <1>4, <2>1
<1>6. row * a + col = x
  BY <1>2, <1>3, <1>4
<1>7. GetTableProverRowCol(x, FriStep(i)) = <<row, col>>
  BY <1>1, <1>3 DEF GetTableProverRowCol, GetTableProverRow, CosetSize
<1>8. PlaceInLayer(<<row, col>>, i) = x
  BY <1>1, <1>6 DEF PlaceInLayer
<1> QED  BY <1>1, <1>3, <1>5, <1>7, <1>8 DEF LayerCells

\* Indices of the second layer, as they are drawn.
LEMMA ChoiceFacts ==
  ASSUME Numbers, NEW indices \in IndexChoices
  PROVE  /\ IsSeq(indices) /\ Len(indices) = params.n_queries /\ DOMAIN indices = 1 .. Len(indices)
         /\ \A k \in 1 .. Len(indices) : indices[k] \in 0 .. LayerSize(1) - 1
         /\ Range(indices) = {indices[k] : k \in 1 .. Len(indices)}
         /\ \A q \in Range(indices) : q \in 0 .. LayerSize(1) - 1
         /\ indices # <<>>
<1>1. PICK n : n = params.n_queries
  OBVIOUS
<1>2. n \in Nat \ {0}
  BY <1>1 DEF Numbers
<1>3. indices \in [1 .. n -> 0 .. LayerSize(1) - 1]
  BY <1>1, SizeFacts DEF IndexChoices
<1>4. DOMAIN indices = 1 .. n /\ indices = [k \in 1 .. n |-> indices[k]]
  BY <1>3
<1>5. IsSeq(indices) /\ Len(indices) = n
  BY <1>2, <1>4, ListedIsSeq
<1>6. \A k \in 1 .. n : indices[k] \in 0 .. LayerSize(1) - 1
  BY <1>3
<1>7. Range(indices) = {indices[k] : k \in 1 .. n}
  BY <1>4 DEF Range
<1>8. indices # <<>>
  BY <1>2, <1>5, EmptySeq
<1> QED  BY <1>1, <1>4, <1>5, <1>6, <1>7, <1>8

\* The cell of an index, and the coset it is in.
IndexCell(q, i) == GetTableProverRowCol(IndexInLayer(q, i), FriStep(i))

LEMMA IndexCellFacts ==
  ASSUME Numbers, NEW i \in InnerLayers, NEW q \in 0 .. LayerSize(1) - 1
  PROVE  /\ IndexCell(q, i) \in LayerCells(i)
         /\ IndexCell(q, i)[1] = IndexInLayer(q, i + 1)
         /\ IndexInLayer(q, i + 1) = GetTableProverRow(IndexInLayer(q, i), FriStep(i))
         /\ IndexInLayer(q, i + 1) \in 0 .. LayerSize(i + 1) - 1
         /\ IndexInLayer(q, i) \in 0 .. LayerSize(i) - 1
         /\ PlaceInLayer(IndexCell(q, i), i) = IndexInLayer(q, i)
<1>1. /\ IndexInLayer(q, i) \in 0 .. LayerSize(i) - 1
      /\ IndexInLayer(q, i + 1) \in 0 .. LayerSize(i + 1) - 1
      /\ IndexInLayer(q, i + 1) = IndexInLayer(q, i) \div CosetSize(i)
  BY IndexFacts, InnerNumbers DEF InnerLayers
<1>2. PICK x : x = IndexInLayer(q, i)
  OBVIOUS
<1>3. /\ GetTableProverRowCol(x, FriStep(i)) \in LayerCells(i)
      /\ GetTableProverRowCol(x, FriStep(i)) = <<x \div CosetSize(i), x % CosetSize(i)>>
      /\ PlaceInLayer(GetTableProverRowCol(x, FriStep(i)), i) = x
  BY <1>1, <1>2, PlaceCell
<1>4. IndexInLayer(q, i + 1) = GetTableProverRow(IndexInLayer(q, i), FriStep(i))
  BY <1>1 DEF GetTableProverRow, CosetSize
<1> QED  BY <1>1, <1>2, <1>3, <1>4 DEF IndexCell

\* q lists the cells T of layer i, row by row.
ListsCells(q, T, i) ==
  /\ IsSeq(q) /\ DOMAIN q = 1 .. Len(q)
  /\ \A k \in 1 .. Len(q) : q[k] \in T
  /\ \A j, k \in 1 .. Len(q) : j < k => PlaceInLayer(q[j], i) < PlaceInLayer(q[k], i)
  /\ \A cell \in T : \E k \in 1 .. Len(q) : q[k] = cell

LEMMA DataQueriesFacts ==
  ASSUME Numbers, NEW i \in InnerLayers, NEW indices \in IndexChoices
  PROVE  /\ DataQueries(indices, i) \in SUBSET LayerCells(i)
         /\ \A q \in Range(indices) : IndexCell(q, i) \notin DataQueries(indices, i)
         /\ \A q \in Range(indices), col \in 0 .. CosetSize(i) - 1 :
              \/ <<IndexInLayer(q, i + 1), col>> \in DataQueries(indices, i)
              \/ \E p \in Range(indices) : <<IndexInLayer(q, i + 1), col>> = IndexCell(p, i)
         /\ IntegrityQueries(indices, i) = {IndexCell(q, i) : q \in Range(indices)}
<1>1. \A q \in Range(indices) : q \in 0 .. LayerSize(1) - 1
  BY ChoiceFacts
<1>2. \A q \in Range(indices) :
        /\ IndexInLayer(q, i + 1) = GetTableProverRow(IndexInLayer(q, i), FriStep(i))
        /\ IndexInLayer(q, i + 1) \in 0 .. LayerSize(i + 1) - 1
  BY <1>1, IndexCellFacts
<1>3. IntegrityQueries(indices, i) = {IndexCell(q, i) : q \in Range(indices)}
  BY DEF IntegrityQueries, IndexCell
<1>4. DataQueries(indices, i) =
        {<<IndexInLayer(q, i + 1), col>> : q \in Range(indices), col \in 0 .. CosetSize(i) - 1}
        \ {IndexCell(q, i) : q \in Range(indices)}
  BY <1>2, <1>3 DEF DataQueries
<1>5. DataQueries(indices, i) \in SUBSET LayerCells(i)
  BY <1>2, <1>4 DEF LayerCells
<1>6. \A q \in Range(indices) : IndexCell(q, i) \notin DataQueries(indices, i)
  BY <1>4
<1>7. \A q \in Range(indices), col \in 0 .. CosetSize(i) - 1 :
        \/ <<IndexInLayer(q, i + 1), col>> \in DataQueries(indices, i)
        \/ \E p \in Range(indices) : <<IndexInLayer(q, i + 1), col>> = IndexCell(p, i)
  BY <1>4
<1> QED  BY <1>3, <1>5, <1>6, <1>7

LEMMA DataListed ==
  ASSUME Numbers, NEW i \in InnerLayers, NEW indices \in IndexChoices
  PROVE  ListsCells(DataInOrder(indices, i), DataQueries(indices, i), i)
<1> DEFINE T == DataQueries(indices, i)
           S == {PlaceInLayer(cell, i) : cell \in T}
           q == InOrder(S)
           C == DataInOrder(indices, i)
<1>1. \A cell \in T : /\ PlaceInLayer(cell, i) \in 0 .. LayerSize(i) - 1
                      /\ GetTableProverRowCol(PlaceInLayer(cell, i), FriStep(i)) = cell
  BY DataQueriesFacts, CellFacts
<1>2. C = [k \in DOMAIN q |-> GetTableProverRowCol(q[k], FriStep(i))]
  BY DEF DataInOrder
<1> HIDE DEF T, C
<1>3. S \in SUBSET Nat /\ IsFiniteSet(S)
  <2>1. PICK b : b = LayerSize(i)
    OBVIOUS
  <2>2. b \in Nat
    BY <2>1, InnerNumbers
  <2>3. S \in SUBSET (0 .. b - 1)
    BY <1>1, <2>1
  <2>4. \A x \in 0 .. b - 1 : x \in Nat /\ x <= b
    BY <2>2
  <2> HIDE DEF S
  <2>5. S \in SUBSET Nat /\ \A x \in S : x <= b
    BY <2>3, <2>4
  <2> QED  BY <2>2, <2>5, FS_BoundedSetOfNaturals
<1>4. Lists(q, S)
  BY <1>3, InOrderLists
<1> HIDE DEF q
<1>5. DOMAIN q = 1 .. Len(q) /\ Len(q) \in Nat
  BY <1>4 DEF Lists, IsSeq
<1>6. IsSeq(C) /\ Len(C) = Len(q) /\ DOMAIN C = 1 .. Len(C)
  <2>1. DOMAIN C = 1 .. Len(q) /\ C = [k \in 1 .. Len(q) |-> C[k]]
    BY <1>2, <1>5
  <2>2. IsSeq(C) /\ Len(C) = Len(q)
    BY <1>5, <2>1, ListedIsSeq
  <2> QED  BY <2>1, <2>2
<1>7. ASSUME NEW k \in 1 .. Len(q)
      PROVE  C[k] \in T /\ PlaceInLayer(C[k], i) = q[k]
  <2>1. q[k] \in S
    BY <1>4 DEF Lists
  <2>2. PICK cell \in T : q[k] = PlaceInLayer(cell, i)
    BY <2>1
  <2>3. C[k] = GetTableProverRowCol(q[k], FriStep(i))
    BY <1>2, <1>5
  <2> QED  BY <1>1, <2>2, <2>3
<1>8. \A cell \in T : \E k \in 1 .. Len(q) : C[k] = cell
  <2>1. TAKE cell \in T
  <2>2. PICK k \in 1 .. Len(q) : q[k] = PlaceInLayer(cell, i)
    BY <1>4 DEF Lists
  <2>3. C[k] = GetTableProverRowCol(q[k], FriStep(i))
    BY <1>2, <1>5
  <2> QED  BY <1>1, <2>2, <2>3
<1>9. \A j, k \in 1 .. Len(q) : j < k => PlaceInLayer(C[j], i) < PlaceInLayer(C[k], i)
  BY <1>4, <1>7 DEF Lists
<1>10. ListsCells(C, T, i)
  BY <1>6, <1>7, <1>8, <1>9 DEF ListsCells
<1> QED  BY <1>10 DEF C, T

\* Each of the n queries s of the second layer asks for a coset, of size a, of the first,
\* which has N elements; f lists them.
AsksCosets(f, s, n, a, N) ==
  /\ a \in Nat \ {0}
  /\ DOMAIN f = 1 .. Len(f)
  /\ Len(f) = n * a
  /\ Len(f) \div a = n
  /\ \A j \in 1 .. n, k \in 0 .. a - 1 :
       /\ (((j - 1) * a) + 1) + k \in 1 .. n * a
       /\ f[(((j - 1) * a) + 1) + k] = s[j] * a + k
       /\ s[j] * a + k \in 0 .. N - 1
       /\ (s[j] * a + k) \div a = s[j]
  /\ \A p \in 1 .. n * a : \E j \in 1 .. n, k \in 0 .. a - 1 : f[p] = s[j] * a + k

LEMMA FirstLayerFacts ==
  ASSUME Numbers, NEW indices \in IndexChoices
  PROVE  AsksCosets(FirstLayerQueries(indices), indices, params.n_queries,
                    CosetSize(0), LayerSize(0))
<1> DEFINE f == FirstLayerQueries(indices)
<1>1. PICK a, n, s : a = CosetSize(0) /\ n = params.n_queries /\ s = indices
  OBVIOUS
<1>2. 0 \in 0 .. n_layers - 1 /\ 0 + 1 = 1
  BY DEF Numbers
<1>3. a \in Nat \ {0} /\ a * LayerSize(1) = LayerSize(0)
  BY <1>1, <1>2, SizeFacts
<1>4. n \in Nat \ {0} /\ Len(s) = n /\ \A k \in 1 .. n : s[k] \in 0 .. LayerSize(1) - 1
  BY <1>1, ChoiceFacts DEF Numbers
<1>5. f = [k \in 1 .. n * a |-> s[(k - 1) \div a + 1] * a + ((k - 1) % a)]
  BY <1>1, <1>4 DEF FirstLayerQueries, SecondLayerQueriesToFirstLayerQueries, CosetSize
<1>6. PICK m : m = n * a
  OBVIOUS
<1>7. m \in Nat /\ m = a * n
  BY <1>3, <1>4, <1>6
<1>8. DOMAIN f = 1 .. m /\ f = [k \in 1 .. m |-> f[k]]
  BY <1>5, <1>6
<1>9. Len(f) = m
  <2> HIDE DEF f
  <2> QED  BY <1>7, <1>8, ListedIsSeq
<1>10. m \div a = n
  <2>1. 0 \in 0 .. a - 1 /\ a * n + 0 = m
    BY <1>3, <1>4, <1>7
  <2>2. (a * n + 0) \div a = n
    BY <1>3, <1>4, <2>1, Quotient
  <2> QED  BY <2>1, <2>2
<1>11. ASSUME NEW j \in 1 .. n, NEW k \in 0 .. a - 1
       PROVE  /\ (((j - 1) * a) + 1) + k \in 1 .. m
              /\ f[(((j - 1) * a) + 1) + k] = s[j] * a + k
              /\ s[j] * a + k \in 0 .. LayerSize(0) - 1
              /\ (s[j] * a + k) \div a = s[j]
  <2>1. PICK x, y : x = (j - 1) * a /\ y = s[j] * a
    OBVIOUS
  <2>2. k + 1 \in 1 .. a
    BY <1>3
  <2>3. /\ x + (k + 1) \in 1 .. m
        /\ (x + (k + 1) - 1) \div a = j - 1
        /\ (x + (k + 1) - 1) % a = (k + 1) - 1
    <3>1. PICK i : i = k + 1
      OBVIOUS
    <3>2. i \in 1 .. a /\ a \in Nat \ {0} /\ n \in Nat /\ j \in 1 .. n
      BY <1>3, <1>4, <2>2, <3>1
    <3>3. /\ (j - 1) * a + i \in 1 .. a * n
          /\ ((j - 1) * a + i - 1) \div a = j - 1
          /\ ((j - 1) * a + i - 1) % a = i - 1
      BY <3>2, GroupPlace
    <3> QED  BY <1>7, <2>1, <3>1, <3>3
  <2>4. x \in Nat /\ s[j] \in Nat /\ y \in Nat /\ y = a * s[j]
    <3>1. LayerSize(1) \in Nat
      <4>1. 1 \in 0 .. n_layers
        BY DEF Numbers
      <4> QED  BY <4>1, SizeFacts
    <3> QED  BY <1>3, <1>4, <2>1, <3>1
  <2>5. PICK at : at = (x + 1) + k
    OBVIOUS
  <2>6. at = x + (k + 1) /\ at - 1 = x + (k + 1) - 1
    BY <2>4, <2>5
  <2>7. at \in 1 .. m /\ (at - 1) \div a = j - 1 /\ (at - 1) % a = k
    BY <2>3, <2>6
  <2>8. f[at] = s[(at - 1) \div a + 1] * a + ((at - 1) % a)
    BY <1>5, <1>6, <2>7
  <2>9. (at - 1) \div a + 1 = j
    BY <2>7
  <2>10. f[at] = y + k
    BY <2>1, <2>7, <2>8, <2>9
  <2>11. (a * s[j] + k) \div a = s[j]
    BY <1>3, <2>4, Quotient
  <2>12. y + k \in 0 .. LayerSize(0) - 1
    <3>1. PICK b, N : b = LayerSize(1) /\ N = LayerSize(0)
      OBVIOUS
    <3>2. b \in Nat /\ N \in Nat
      <4>1. 1 \in 0 .. n_layers /\ 0 \in 0 .. n_layers
        BY DEF Numbers
      <4> QED  BY <3>1, <4>1, SizeFacts
    <3>3. s[j] + 1 <= b
      BY <1>4, <3>1, <3>2
    <3>4. a * (s[j] + 1) <= a * b
      <4>1. \A u, v \in Nat : u <= v => a * u <= a * v
        BY <1>3
      <4> QED  BY <2>4, <3>2, <3>3, <4>1
    <3>5. a * (s[j] + 1) = y + a
      BY <1>3, <2>4
    <3>6. y + a <= N
      BY <1>3, <3>1, <3>4, <3>5
    <3> QED  BY <1>3, <2>4, <3>1, <3>2, <3>6
  <2> QED  BY <2>1, <2>4, <2>5, <2>7, <2>10, <2>11, <2>12
<1>12. ASSUME NEW p \in 1 .. m
       PROVE  \E j \in 1 .. n, k \in 0 .. a - 1 : f[p] = s[j] * a + k
  <2>1. PICK j, k : j = (p - 1) \div a + 1 /\ k = (p - 1) % a
    OBVIOUS
  <2>2. (p - 1) \div a \in 0 .. n - 1 /\ k \in 0 .. a - 1
    BY <1>3, <1>4, <1>7, <2>1, Grouped
  <2>3. j \in 1 .. n
    BY <1>4, <2>1, <2>2
  <2>4. f[p] = s[j] * a + k
    BY <1>5, <1>6, <2>1
  <2> QED  BY <2>2, <2>3, <2>4
<1> HIDE DEF f
<1>13. AsksCosets(f, s, n, a, LayerSize(0))
  BY <1>3, <1>6, <1>8, <1>9, <1>10, <1>11, <1>12 DEF AsksCosets
<1> QED  BY <1>1, <1>13 DEF f

-----------------------------------------------------------------------------
(* The loops of the folds, which are recursive functions.                  *)

\* The proxies that CreateNextFriLayer makes of layer i.
FirstProxy(values, pt) == [values |-> values, eval_point |-> pt]

NextProxy(cur, i, h) ==
  [values |-> ComputeNextFriLayer(cur.values, LogDomainSize - StepsBefore(i) - (h - 1),
                                  cur.eval_point),
   eval_point |-> Squared(cur.eval_point)]

ProxiesDefined(f, values, pt, i) ==
  f = [h \in 0 .. FriStep(i) |->
         IF h = 0 THEN FirstProxy(values, pt) ELSE NextProxy(f[h - 1], i, h)]

AreProxies(f, values, pt, i, k) ==
  \A h \in 0 .. FriStep(i) : h <= k =>
    f[h] = IF h = 0 THEN FirstProxy(values, pt) ELSE NextProxy(f[h - 1], i, h)

LEMMA OneMoreProxies ==
  ASSUME NEW i, FriStep(i) \in Nat, NEW values, NEW pt, NEW k \in Nat,
         NEW f, AreProxies(f, values, pt, i, k)
  PROVE  \E g : AreProxies(g, values, pt, i, k + 1)
<1> DEFINE g == [h \in 0 .. FriStep(i) |-> IF h = k + 1 THEN NextProxy(f[h - 1], i, h) ELSE f[h]]
<1>1. ASSUME NEW h \in 0 .. FriStep(i), h <= k + 1
      PROVE  g[h] = IF h = 0 THEN FirstProxy(values, pt) ELSE NextProxy(g[h - 1], i, h)
  <2>1. CASE h = k + 1
    <3>1. h # 0 /\ h - 1 \in 0 .. FriStep(i) /\ h - 1 # k + 1
      BY <2>1
    <3>2. g[h] = NextProxy(f[h - 1], i, h) /\ g[h - 1] = f[h - 1]
      BY <2>1, <3>1
    <3> HIDE DEF g
    <3> QED  BY <3>1, <3>2
  <2>2. CASE h # k + 1
    <3>1. g[h] = f[h] /\ h <= k
      BY <1>1, <2>2
    <3>2. h # 0 => h - 1 \in 0 .. FriStep(i) /\ h - 1 # k + 1
      BY <3>1
    <3>3. h # 0 => g[h - 1] = f[h - 1]
      BY <3>2
    <3>4. f[h] = IF h = 0 THEN FirstProxy(values, pt) ELSE NextProxy(f[h - 1], i, h)
      BY <3>1 DEF AreProxies
    <3> HIDE DEF g
    <3> QED  BY <3>1, <3>3, <3>4
  <2> QED  BY <2>1, <2>2
<1> HIDE DEF g
<1>2. AreProxies(g, values, pt, i, k + 1)
  BY <1>1 DEF AreProxies
<1> QED  BY <1>2

LEMMA ProxiesExist ==
  ASSUME NEW i, FriStep(i) \in Nat, NEW values, NEW pt
  PROVE  \E f : ProxiesDefined(f, values, pt, i)
<1> DEFINE S == {k \in Nat : ~\E f : AreProxies(f, values, pt, i, k)}
<1>1. S = {}
  <2>1. SUFFICES ASSUME S # {}  PROVE FALSE
    OBVIOUS
  <2>2. PICK m \in S : \A k \in S : m <= k
    BY <2>1, LeastOf
  <2>3. m # 0
    <3> DEFINE f == [h \in 0 .. FriStep(i) |-> FirstProxy(values, pt)]
    <3>1. \A h \in 0 .. FriStep(i) : h <= 0 => h = 0 /\ f[h] = FirstProxy(values, pt)
      OBVIOUS
    <3> HIDE DEF f
    <3>2. AreProxies(f, values, pt, i, 0)
      BY <3>1 DEF AreProxies
    <3> QED  BY <3>2, <2>2
  <2>4. m - 1 \in Nat /\ m - 1 \notin S /\ (m - 1) + 1 = m
    BY <2>2, <2>3
  <2>5. PICK f : AreProxies(f, values, pt, i, m - 1)
    BY <2>4
  <2>6. \E g : AreProxies(g, values, pt, i, (m - 1) + 1)
    BY <2>4, <2>5, OneMoreProxies
  <2> QED  BY <2>2, <2>4, <2>6
<1>2. PICK f : AreProxies(f, values, pt, i, FriStep(i))
  <2>1. FriStep(i) \notin S
    BY <1>1
  <2> QED  BY <2>1
<1> DEFINE g == [h \in 0 .. FriStep(i) |-> f[h]]
<1>3. \A h \in 0 .. FriStep(i) : g[h] =
        IF h = 0 THEN FirstProxy(values, pt) ELSE NextProxy(g[h - 1], i, h)
  <2>1. \A h \in 0 .. FriStep(i) : h # 0 => h - 1 \in 0 .. FriStep(i)
    OBVIOUS
  <2>2. \A h \in 0 .. FriStep(i) : h <= FriStep(i) /\ g[h] = f[h]
    OBVIOUS
  <2> HIDE DEF g
  <2> QED  BY <1>2, <2>1, <2>2 DEF AreProxies
<1>4. g = [h \in 0 .. FriStep(i) |-> g[h]]
  OBVIOUS
<1> HIDE DEF g
<1>5. ProxiesDefined(g, values, pt, i)
  BY <1>3, <1>4 DEF ProxiesDefined
<1> QED  BY <1>5

Proxies(f, values, pt, i) ==
  /\ f[0] = FirstProxy(values, pt)
  /\ \A h \in 1 .. FriStep(i) : f[h] = NextProxy(f[h - 1], i, h)

LEMMA ProxiesFacts ==
  ASSUME NEW i, FriStep(i) \in Nat, NEW values, NEW pt
  PROVE  \E f : /\ Proxies(f, values, pt, i)
               /\ CreateNextFriLayer(values, i, pt) = f[FriStep(i)].values
<1> DEFINE P(f) == ProxiesDefined(f, values, pt, i)
           g == CHOOSE f : P(f)
<1>1. P(g)
  <2>1. \E f : P(f)
    BY ProxiesExist
  <2> HIDE DEF P
  <2> QED  BY <2>1
<1>2. CreateNextFriLayer(values, i, pt) = g[FriStep(i)].values
  BY DEF CreateNextFriLayer, NextProxy, FirstProxy, ProxiesDefined
<1> HIDE DEF g
<1>3. \A h \in 0 .. FriStep(i) : g[h] =
        IF h = 0 THEN FirstProxy(values, pt) ELSE NextProxy(g[h - 1], i, h)
  BY <1>1 DEF ProxiesDefined
<1>4. 0 \in 0 .. FriStep(i) /\ \A h \in 1 .. FriStep(i) : h \in 0 .. FriStep(i) /\ h # 0
  OBVIOUS
<1>5. Proxies(g, values, pt, i)
  BY <1>3, <1>4 DEF Proxies
<1> QED  BY <1>2, <1>5

\* The values that ApplyFriLayers halves a coset of layer i to.
FirstHalving(elements, pt, first) ==
  [values |-> elements, eval_point |-> pt, index |-> first]

NextHalving(cur, i, h) ==
  [values |-> [k \in 0 .. Pow2[FriStep(i) - h] - 1 |->
                Fold(cur.values[2 * k], cur.values[2 * k + 1], cur.eval_point,
                     AtBitReversed(LogDomainSize - StepsBefore(i) - (h - 1), cur.index + 2 * k))],
   eval_point |-> Squared(cur.eval_point),
   index |-> NextIndex(cur.index)]

HalvingsDefined(f, elements, pt, first, i) ==
  f = [h \in 0 .. FriStep(i) |->
         IF h = 0 THEN FirstHalving(elements, pt, first) ELSE NextHalving(f[h - 1], i, h)]

AreHalvings(f, elements, pt, first, i, k) ==
  \A h \in 0 .. FriStep(i) : h <= k =>
    f[h] = IF h = 0 THEN FirstHalving(elements, pt, first) ELSE NextHalving(f[h - 1], i, h)

LEMMA OneMoreHalvings ==
  ASSUME NEW i, FriStep(i) \in Nat, NEW elements, NEW pt, NEW first, NEW k \in Nat,
         NEW f, AreHalvings(f, elements, pt, first, i, k)
  PROVE  \E g : AreHalvings(g, elements, pt, first, i, k + 1)
<1> DEFINE g == [h \in 0 .. FriStep(i) |-> IF h = k + 1 THEN NextHalving(f[h - 1], i, h) ELSE f[h]]
<1>1. ASSUME NEW h \in 0 .. FriStep(i), h <= k + 1
      PROVE  g[h] = IF h = 0 THEN FirstHalving(elements, pt, first) ELSE NextHalving(g[h - 1], i, h)
  <2>1. CASE h = k + 1
    <3>1. h # 0 /\ h - 1 \in 0 .. FriStep(i) /\ h - 1 # k + 1
      BY <2>1
    <3>2. g[h] = NextHalving(f[h - 1], i, h) /\ g[h - 1] = f[h - 1]
      BY <2>1, <3>1
    <3> HIDE DEF g
    <3> QED  BY <3>1, <3>2
  <2>2. CASE h # k + 1
    <3>1. g[h] = f[h] /\ h <= k
      BY <1>1, <2>2
    <3>2. h # 0 => h - 1 \in 0 .. FriStep(i) /\ h - 1 # k + 1
      BY <3>1
    <3>3. h # 0 => g[h - 1] = f[h - 1]
      BY <3>2
    <3>4. f[h] = IF h = 0 THEN FirstHalving(elements, pt, first) ELSE NextHalving(f[h - 1], i, h)
      BY <3>1 DEF AreHalvings
    <3> HIDE DEF g
    <3> QED  BY <3>1, <3>3, <3>4
  <2> QED  BY <2>1, <2>2
<1> HIDE DEF g
<1>2. AreHalvings(g, elements, pt, first, i, k + 1)
  BY <1>1 DEF AreHalvings
<1> QED  BY <1>2

LEMMA HalvingsExist ==
  ASSUME NEW i, FriStep(i) \in Nat, NEW elements, NEW pt, NEW first
  PROVE  \E f : HalvingsDefined(f, elements, pt, first, i)
<1> DEFINE S == {k \in Nat : ~\E f : AreHalvings(f, elements, pt, first, i, k)}
<1>1. S = {}
  <2>1. SUFFICES ASSUME S # {}  PROVE FALSE
    OBVIOUS
  <2>2. PICK m \in S : \A k \in S : m <= k
    BY <2>1, LeastOf
  <2>3. m # 0
    <3> DEFINE f == [h \in 0 .. FriStep(i) |-> FirstHalving(elements, pt, first)]
    <3>1. \A h \in 0 .. FriStep(i) : h <= 0 => h = 0 /\ f[h] = FirstHalving(elements, pt, first)
      OBVIOUS
    <3> HIDE DEF f
    <3>2. AreHalvings(f, elements, pt, first, i, 0)
      BY <3>1 DEF AreHalvings
    <3> QED  BY <3>2, <2>2
  <2>4. m - 1 \in Nat /\ m - 1 \notin S /\ (m - 1) + 1 = m
    BY <2>2, <2>3
  <2>5. PICK f : AreHalvings(f, elements, pt, first, i, m - 1)
    BY <2>4
  <2>6. \E g : AreHalvings(g, elements, pt, first, i, (m - 1) + 1)
    BY <2>4, <2>5, OneMoreHalvings
  <2> QED  BY <2>2, <2>4, <2>6
<1>2. PICK f : AreHalvings(f, elements, pt, first, i, FriStep(i))
  <2>1. FriStep(i) \notin S
    BY <1>1
  <2> QED  BY <2>1
<1> DEFINE g == [h \in 0 .. FriStep(i) |-> f[h]]
<1>3. \A h \in 0 .. FriStep(i) : g[h] =
        IF h = 0 THEN FirstHalving(elements, pt, first) ELSE NextHalving(g[h - 1], i, h)
  <2>1. \A h \in 0 .. FriStep(i) : h # 0 => h - 1 \in 0 .. FriStep(i)
    OBVIOUS
  <2>2. \A h \in 0 .. FriStep(i) : h <= FriStep(i) /\ g[h] = f[h]
    OBVIOUS
  <2> HIDE DEF g
  <2> QED  BY <1>2, <2>1, <2>2 DEF AreHalvings
<1>4. g = [h \in 0 .. FriStep(i) |-> g[h]]
  OBVIOUS
<1> HIDE DEF g
<1>5. HalvingsDefined(g, elements, pt, first, i)
  BY <1>3, <1>4 DEF HalvingsDefined
<1> QED  BY <1>5

Halvings(f, elements, pt, first, i) ==
  /\ f[0] = FirstHalving(elements, pt, first)
  /\ \A h \in 1 .. FriStep(i) : f[h] = NextHalving(f[h - 1], i, h)

LEMMA HalvingsFacts ==
  ASSUME NEW i, FriStep(i) \in Nat, NEW elements, NEW pt, NEW first
  PROVE  \E f : /\ Halvings(f, elements, pt, first, i)
               /\ ApplyFriLayers(elements, pt, i, first) = f[FriStep(i)].values[0]
<1> DEFINE P(f) == HalvingsDefined(f, elements, pt, first, i)
           g == CHOOSE f : P(f)
<1>1. P(g)
  <2>1. \E f : P(f)
    BY HalvingsExist
  <2> HIDE DEF P
  <2> QED  BY <2>1
<1>2. ApplyFriLayers(elements, pt, i, first) = g[FriStep(i)].values[0]
  BY DEF ApplyFriLayers, NextHalving, FirstHalving, HalvingsDefined
<1> HIDE DEF g
<1>3. \A h \in 0 .. FriStep(i) : g[h] =
        IF h = 0 THEN FirstHalving(elements, pt, first) ELSE NextHalving(g[h - 1], i, h)
  BY <1>1 DEF HalvingsDefined
<1>4. 0 \in 0 .. FriStep(i) /\ \A h \in 1 .. FriStep(i) : h \in 0 .. FriStep(i) /\ h # 0
  OBVIOUS
<1>5. Halvings(g, elements, pt, first, i)
  BY <1>3, <1>4 DEF Halvings
<1> QED  BY <1>2, <1>5

LEMMA NextLayerDomain ==
  ASSUME Numbers, NEW i \in 0 .. n_layers - 1, NEW values, NEW pt,
         DOMAIN values = 0 .. LayerSize(i) - 1
  PROVE  DOMAIN CreateNextFriLayer(values, i, pt) = 0 .. LayerSize(i + 1) - 1
<1>1. /\ FriStep(i) \in Nat /\ StepsBefore(i + 1) = StepsBefore(i) + FriStep(i)
      /\ StepsBefore(i) \in Nat /\ LogDomainSize \in Nat
  <2>1. i \in 0 .. n_layers
    BY DEF Numbers
  <2> QED  BY <2>1, Pow2Powers, PowersFacts DEF Numbers
<1>2. PICK f : /\ Proxies(f, values, pt, i)
               /\ CreateNextFriLayer(values, i, pt) = f[FriStep(i)].values
  BY <1>1, ProxiesFacts
<1>3. PICK h : h = FriStep(i)
  OBVIOUS
<1>4. CASE h = 0
  <2>1. f[h].values = values
    BY <1>2, <1>4 DEF Proxies, FirstProxy
  <2>2. StepsBefore(i + 1) = StepsBefore(i)
    BY <1>1, <1>3, <1>4
  <2> QED  BY <1>2, <1>3, <2>1, <2>2 DEF LayerSize
<1>5. CASE h # 0
  <2>1. h \in 1 .. FriStep(i)
    BY <1>1, <1>3, <1>5
  <2>2. f[h] = NextProxy(f[h - 1], i, h)
    BY <1>2, <2>1 DEF Proxies
  <2>3. PICK v, log, e : /\ f[h].values = ComputeNextFriLayer(v, log, e)
                         /\ log = LogDomainSize - StepsBefore(i) - (h - 1)
    BY <2>2 DEF NextProxy
  <2>4. log - 1 = LogDomainSize - StepsBefore(i + 1)
    BY <1>1, <1>3, <2>1, <2>3
  <2>5. DOMAIN ComputeNextFriLayer(v, log, e) = 0 .. Pow2[log - 1] - 1
    BY DEF ComputeNextFriLayer
  <2> QED  BY <1>2, <1>3, <2>3, <2>4, <2>5 DEF LayerSize, GetLayerDomainSize
<1> QED  BY <1>4, <1>5

-----------------------------------------------------------------------------
(* The order of the stages, and how much of the proof there is.            *)

\* Messages before the decommitments: commitments, coefficients and, unless there is no
\* proof of work, a nonce.
HeaderMessages == n_layers + (IF params.proof_of_work_bits = 0 THEN 0 ELSE 1)

\* Turns of the commitment loops that made a commitment, of turns turns.
Commitments(turns) == IF turns < n_layers THEN turns ELSE n_layers - 1

Proving == {"commitment", "query", "last layer's degree too high"}

Reading == {"verifying", "choosing"}

Folding == {"inner layers", "last layer", "accepted"}

AllStages ==
  Proving \cup {"decommitment", "proved"} \cup Reading \cup {"first layer"} \cup Folding
  \cup Rejections

NotDecommitted(log) == Len(log) # 0 => log[Len(log)][1] # "authentication"

LayersShaped ==
  /\ IsSeq(layers) /\ DOMAIN layers = 1 .. Len(layers)
  /\ Len(layers) \in 1 .. n_layers + 1
  /\ \A i \in 1 .. Len(layers) : DOMAIN layers[i] = 0 .. LayerSize(i - 1) - 1

ProofGrows ==
  /\ IsSeq(proof)
  /\ stage = "commitment" => Len(proof) = Commitments(Len(layers) - 1)
  /\ stage = "query" => Len(proof) = n_layers /\ proof[n_layers].what = "coefficients"
  /\ stage = "decommitment" => LayerAfter(Header(Last(proof))) \in 1 .. n_layers
  /\ stage \notin Proving => Len(proof) >= HeaderMessages /\ queries \in IndexChoices
  /\ stage \in Proving => queries = <<>>

VerifierReads ==
  /\ IsSeq(reads) /\ IsSeq(eval_points) /\ IsSeq(query_results)
  /\ stage \in Proving \cup {"decommitment", "proved"} => reads = <<>> /\ eval_points = <<>>
  /\ Len(eval_points) <= n_layers
  /\ stage = "verifying" => Len(reads) = Commitments(Len(eval_points)) /\ NotDecommitted(reads)
  /\ stage = "choosing" => Len(reads) = n_layers /\ NotDecommitted(reads)
  /\ stage = "first layer" => Len(reads) = HeaderMessages /\ NotDecommitted(reads)
  /\ stage = "inner layers" => CurrentLayer \in InnerLayers
  /\ Len(reads) <= Len(proof)

QueriesChosen ==
  /\ stage \notin {"first layer"} \cup Folding \cup Rejections =>
       query_indices = <<>> /\ query_results = <<>>
  /\ stage \in {"first layer"} \cup Folding => query_indices \in IndexChoices
  /\ query_indices # <<>> => query_indices \in IndexChoices
  /\ stage \in Folding => Len(query_results) = params.n_queries
  /\ Len(query_results) \in {0, params.n_queries}

Structure ==
  /\ RightParams /\ stage \in AllStages
  /\ LayersShaped /\ ProofGrows /\ VerifierReads /\ QueriesChosen

-----------------------------------------------------------------------------
(* Steps keep the structure.                                               *)

LEMMA NoElements ==
  ASSUME NEW s, s = <<>>
  PROVE  IsSeq(s) /\ Len(s) = 0
BY DEF IsSeq

LEMMA SameNumbers ==
  ASSUME params' = params
  PROVE  /\ n_layers' = n_layers /\ HeaderMessages' = HeaderMessages
         /\ InnerLayers' = InnerLayers /\ IndexChoices' = IndexChoices
         /\ LogDomainSize' = LogDomainSize
         /\ \A i : LayerSize(i)' = LayerSize(i) /\ Commitments(i)' = Commitments(i)
         /\ \A i : FriStep(i)' = FriStep(i) /\ CosetSize(i)' = CosetSize(i)
         /\ (RightParams => RightParams')
<1>1. n_layers' = n_layers /\ fri_step_list' = fri_step_list /\ LogDomainSize' = LogDomainSize
  BY DEF n_layers, fri_step_list, LogDomainSize
<1>2. \A i : FriStep(i)' = FriStep(i) /\ CosetSize(i)' = CosetSize(i)
  BY <1>1 DEF FriStep, CosetSize
<1>3. \A i : StepsBefore(i)' = StepsBefore(i)
  BY <1>1 DEF StepsBefore
<1>4. \A i : LayerSize(i)' = LayerSize(i) /\ Commitments(i)' = Commitments(i)
  BY <1>1, <1>3 DEF LayerSize, GetLayerDomainSize, Commitments
<1>5. HeaderMessages' = HeaderMessages /\ InnerLayers' = InnerLayers
  BY <1>1 DEF HeaderMessages, InnerLayers
<1>6. IndexChoices' = IndexChoices
  BY <1>1, <1>2 DEF IndexChoices, GetLayerDomainSize
<1>7. RightParams => RightParams'
  BY DEF RightParams
<1> QED  BY <1>1, <1>2, <1>4, <1>5, <1>6, <1>7

LEMMA LayersSame ==
  ASSUME LayersShaped, params' = params, layers' = layers
  PROVE  LayersShaped'
BY SameNumbers DEF LayersShaped

LEMMA StagesApart ==
  /\ "commitment" \in Proving /\ "query" \in Proving
  /\ "last layer's degree too high" \in Proving
  /\ "decommitment" \notin Proving /\ "proved" \notin Proving
  /\ "verifying" \notin Proving /\ "choosing" \notin Proving /\ "first layer" \notin Proving
  /\ \A s \in Folding \cup Rejections : s \notin Proving
  /\ \A s \in Folding \cup Rejections :
       s \notin {"decommitment", "proved", "verifying", "choosing", "first layer"}
  /\ \A s \in Rejections : s \notin Folding
BY DEF Proving, Folding, Rejections

LEMMA OneElementIsSeq ==
  ASSUME NEW e, NEW one, one = <<e>>
  PROVE  IsSeq(one) /\ Len(one) = 1 /\ one[1] = e /\ 1 \in 1 .. Len(one)
<1>1. Len(one) = 1 /\ one[1] = e
  OBVIOUS
<1>2. IsSeq(one)
  BY DEF IsSeq
<1> QED  BY <1>1, <1>2

LEMMA OneElement ==
  ASSUME NEW e
  PROVE  \E one : one = <<e>> /\ IsSeq(one) /\ Len(one) = 1 /\ one[1] = e /\ 1 \in 1 .. Len(one)
<1>1. PICK one : one = <<e>>
  OBVIOUS
<1> QED  BY <1>1, OneElementIsSeq

LEMMA SumRegrouped == \A a, b, c \in Nat : a + (b + 1) <= c => (a + b) + 1 <= c
OBVIOUS

LEMMA NextInRange ==
  ASSUME NEW n \in Nat
  PROVE  \A k \in 1 .. n - 1 : k # n - 1 => k + 1 \in 1 .. n - 1
OBVIOUS

LEMMA InitStructure == Init => Structure
<1> SUFFICES ASSUME Init  PROVE Structure
  OBVIOUS
<1>1. /\ params \in Requests /\ FromJson(params)
      /\ layers = <<[k \in 0 .. Pow2[LogDomainSize] - 1 |-> <<k>>]>>
      /\ queries = <<>> /\ proof = <<>> /\ reads = <<>> /\ eval_points = <<>>
      /\ query_indices = <<>> /\ query_results = <<>> /\ stage = "commitment"
  BY DEF Init
<1>2. RightParams
  BY <1>1 DEF RightParams
<1>3. Numbers
  BY <1>2, RightNumbers
<1>4. n_layers \in Nat \ {0} /\ LayerSize(0) = Pow2[LogDomainSize]
  BY <1>3, SizeFacts DEF Numbers
<1>5. LayersShaped /\ Len(layers) = 1
  <2>1. PICK l : l = [k \in 0 .. LayerSize(0) - 1 |-> <<k>>]
    OBVIOUS
  <2>2. layers = <<l>> /\ DOMAIN l = 0 .. LayerSize(0) - 1
    BY <1>1, <1>4, <2>1
  <2>3. layers = Append(<<>>, l)
    BY <2>2
  <2>4. IsExtended(layers, <<>>, l)
    <3>1. PICK none : none = <<>>
      OBVIOUS
    <3>2. IsSeq(none) /\ Len(none) = 0
      BY <3>1, NoElements
    <3>3. IsExtended(Append(none, l), none, l)
      BY <3>2, AppendFacts
    <3> QED  BY <2>3, <3>1, <3>3
  <2>5. IsSeq(layers) /\ Len(layers) = 1 /\ layers[1] = l
    <3>1. PICK none : none = <<>>
      OBVIOUS
    <3>2. Len(none) = 0 /\ IsExtended(layers, none, l)
      BY <2>4, <3>1, NoElements
    <3> QED  BY <3>2 DEF IsExtended
  <2>6. DOMAIN layers = 1 .. 1 /\ 1 \in 1 .. n_layers + 1 /\ 1 - 1 = 0
    BY <1>4, <2>2
  <2>7. \A i \in 1 .. 1 : DOMAIN layers[i] = 0 .. LayerSize(i - 1) - 1
    <3>1. \A i \in 1 .. 1 : i = 1
      OBVIOUS
    <3> QED  BY <2>2, <2>5, <2>6, <3>1
  <2> QED  BY <2>5, <2>6, <2>7 DEF LayersShaped
<1>6. ProofGrows
  <2>1. Commitments(0) = 0
    BY <1>4 DEF Commitments
  <2>2. Len(layers) - 1 = 0 /\ Len(proof) = 0 /\ IsSeq(proof)
    BY <1>1, <1>5, NoElements
  <2>3. Len(proof) = Commitments(Len(layers) - 1)
    BY <2>1, <2>2
  <2> QED  BY <1>1, <2>2, <2>3, StagesApart DEF ProofGrows
<1>7. VerifierReads
  <2>1. /\ Len(reads) = 0 /\ IsSeq(reads) /\ IsSeq(query_results)
        /\ Len(eval_points) = 0 /\ IsSeq(eval_points) /\ Len(proof) = 0
    BY <1>1, NoElements
  <2>2. Len(eval_points) <= n_layers /\ Len(reads) <= Len(proof)
    BY <1>4, <2>1
  <2> QED  BY <1>1, <2>1, <2>2 DEF VerifierReads
<1>8. QueriesChosen
  BY <1>1, NoElements, StagesApart DEF QueriesChosen, Folding, Rejections
<1>9. stage \in AllStages
  BY <1>1 DEF AllStages, Proving
<1> QED  BY <1>2, <1>5, <1>6, <1>7, <1>8, <1>9 DEF Structure

\* What the prover does, the verifier has not begun.
LEMMA ProverSteps ==
  ASSUME Structure, params' = params, verifierVars' = verifierVars,
         stage \in {"commitment", "query", "decommitment"},
         stage' \in Proving \cup {"decommitment", "proved"},
         Len(proof)' \in Nat
  PROVE  VerifierReads' /\ QueriesChosen' /\ stage' \in AllStages
<1>1. /\ reads = <<>> /\ eval_points = <<>>
      /\ query_indices = <<>> /\ query_results = <<>>
  BY DEF Structure, VerifierReads, QueriesChosen, Proving, Folding, Rejections
<1>2. /\ reads' = <<>> /\ eval_points' = <<>>
      /\ query_indices' = <<>> /\ query_results' = <<>>
  BY <1>1 DEF verifierVars
<1>3. n_layers' \in Nat
  BY SameNumbers, RightNumbers DEF Structure, Numbers
<1>4. stage' \notin {"verifying", "choosing", "first layer"} \cup Folding \cup Rejections
  BY DEF Proving, Folding, Rejections
<1>5. VerifierReads'
  <2>1. /\ Len(reads') = 0 /\ IsSeq(reads') /\ IsSeq(query_results')
        /\ Len(eval_points') = 0 /\ IsSeq(eval_points')
    BY <1>2, NoElements
  <2>2. Len(eval_points') <= n_layers' /\ Len(reads') <= Len(proof')
    BY <1>3, <2>1
  <2>3. stage' \notin {"verifying", "choosing", "first layer", "inner layers"}
    BY <1>4 DEF Folding
  <2> QED  BY <1>2, <2>1, <2>2, <2>3 DEF VerifierReads
<1>6. QueriesChosen'
  BY <1>2, <1>4, NoElements DEF QueriesChosen
<1> QED  BY <1>5, <1>6 DEF AllStages

LEMMA CommitStructure ==
  ASSUME Structure, CommitLayer
  PROVE  Structure'
<1>0. PICK l : l = Len(layers)
  OBVIOUS
<1>1. PICK log : /\ layers' = Append(layers, CreateNextFriLayer(layers[l], l - 1, Drawn(log)))
                 /\ stage = "commitment" /\ l <= n_layers
                 /\ proof' = IF l = n_layers THEN proof
                             ELSE Append(proof, Message("commitment", l, <<>>, Bytes))
                 /\ ProverOnly /\ queries' = queries /\ stage' = stage
  BY <1>0 DEF CommitLayer
<1>2. params' = params /\ verifierVars' = verifierVars
  BY <1>1 DEF ProverOnly
<1>3. RightParams /\ Numbers /\ LayersShaped /\ ProofGrows
  BY RightNumbers DEF Structure
<1>4. /\ l \in Nat \ {0} /\ l \in 1 .. n_layers /\ l - 1 \in 0 .. n_layers - 1 /\ (l - 1) + 1 = l
      /\ n_layers \in Nat \ {0}
  <2>1. n_layers \in Nat \ {0}
    BY <1>3 DEF Numbers
  <2>2. l \in 1 .. n_layers + 1
    BY <1>0, <1>3 DEF LayersShaped
  <2> QED  BY <1>1, <2>1, <2>2
<1>5. PICK new : new = CreateNextFriLayer(layers[l], l - 1, Drawn(log))
  OBVIOUS
<1>6. DOMAIN new = 0 .. LayerSize(l) - 1
  <2>1. DOMAIN layers[l] = 0 .. LayerSize(l - 1) - 1
    BY <1>0, <1>3, <1>4 DEF LayersShaped
  <2> QED  BY <1>3, <1>4, <1>5, <2>1, NextLayerDomain
<1>7. IsExtended(layers', layers, new)
  BY <1>1, <1>3, <1>5, AppendFacts DEF LayersShaped
<1>8. LayersShaped'
  <2>1. /\ IsSeq(layers') /\ Len(layers') = l + 1 /\ layers'[l + 1] = new
        /\ \A i \in 1 .. l : layers'[i] = layers[i]
    BY <1>0, <1>7 DEF IsExtended
  <2>2. DOMAIN layers' = 1 .. Len(layers')
    BY <2>1, SeqOfElements
  <2>3. ASSUME NEW i \in 1 .. l + 1
        PROVE  DOMAIN layers'[i] = 0 .. LayerSize(i - 1) - 1
    <3>1. CASE i = l + 1
      <4>1. i - 1 = l
        BY <1>4, <3>1
      <4> QED  BY <1>6, <2>1, <3>1, <4>1
    <3>2. CASE i # l + 1
      <4>1. i \in 1 .. l
        BY <1>4, <3>2
      <4> QED  BY <1>0, <1>3, <2>1, <4>1 DEF LayersShaped
    <3> QED  BY <3>1, <3>2
  <2>4. l + 1 \in 1 .. n_layers + 1
    BY <1>4
  <2> QED  BY <1>2, <2>1, <2>2, <2>3, <2>4, SameNumbers DEF LayersShaped
<1>9. IsSeq(proof') /\ Len(proof') = Commitments(l)
  <2>1. IsSeq(proof) /\ Len(proof) = Commitments(l - 1)
    BY <1>0, <1>1, <1>3 DEF ProofGrows
  <2>2. CASE l = n_layers
    <3>1. proof' = proof
      BY <1>1, <2>2
    <3>2. Commitments(l - 1) = n_layers - 1 /\ Commitments(l) = n_layers - 1
      BY <1>4, <2>2 DEF Commitments
    <3> QED  BY <2>1, <3>1, <3>2
  <2>3. CASE l # n_layers
    <3>1. IsExtended(proof', proof, Message("commitment", l, <<>>, Bytes))
      BY <1>1, <2>1, <2>3, AppendFacts
    <3>2. Commitments(l - 1) = l - 1 /\ Commitments(l) = l
      BY <1>4, <2>3 DEF Commitments
    <3> QED  BY <1>4, <2>1, <3>1, <3>2 DEF IsExtended
  <2> QED  BY <2>2, <2>3
<1>10. ProofGrows'
  <2>1. Len(layers') - 1 = l
    BY <1>0, <1>4, <1>7 DEF IsExtended
  <2>2. queries' = <<>> /\ stage' = "commitment"
    BY <1>1, <1>3, StagesApart DEF ProofGrows
  <2>3. Len(proof') = Commitments(Len(layers') - 1)
    BY <1>9, <2>1
  <2>4. \A i : Commitments(i)' = Commitments(i)
    BY <1>2, SameNumbers
  <2> QED  BY <1>9, <2>2, <2>3, <2>4, StagesApart DEF ProofGrows
<1>11. VerifierReads' /\ QueriesChosen' /\ stage' \in AllStages
  <2>1. Len(proof') \in Nat
    BY <1>9 DEF IsSeq
  <2>2. stage' \in Proving
    BY <1>1, StagesApart
  <2> QED  BY <1>1, <1>2, <2>1, <2>2, ProverSteps
<1>12. RightParams'
  BY <1>2, <1>3, SameNumbers
<1> QED  BY <1>8, <1>10, <1>11, <1>12 DEF Structure

LEMMA SendLastStructure ==
  ASSUME Structure, SendLastLayer
  PROVE  Structure'
<1>1. /\ stage = "commitment" /\ Len(layers) = n_layers + 1
      /\ \/ /\ proof' = Append(proof, Message("coefficients", n_layers, <<>>, Last(layers)))
            /\ stage' = "query"
         \/ proof' = proof /\ stage' = "last layer's degree too high"
      /\ ProverOnly /\ layers' = layers /\ queries' = queries
  BY DEF SendLastLayer
<1>2. params' = params /\ verifierVars' = verifierVars
  BY <1>1 DEF ProverOnly
<1>3. RightParams /\ Numbers /\ LayersShaped /\ ProofGrows
  BY RightNumbers DEF Structure
<1>4. n_layers \in Nat \ {0}
  BY <1>3 DEF Numbers
<1>5. IsSeq(proof) /\ Len(proof) = n_layers - 1
  <2>1. Commitments(n_layers) = n_layers - 1
    BY <1>4 DEF Commitments
  <2>2. Len(layers) = n_layers + 1
    BY <1>1
  <2>3. Len(layers) - 1 = n_layers
    BY <1>4, <2>2
  <2> QED  BY <1>1, <1>3, <2>1, <2>3 DEF ProofGrows
<1>6. /\ IsSeq(proof') /\ Len(proof') \in Nat
      /\ stage' = "query" => Len(proof') = n_layers /\ proof'[n_layers].what = "coefficients"
  <2>1. CASE stage' = "query"
    <3>1. PICK m : proof' = Append(proof, m) /\ m.what = "coefficients"
      BY <1>1, <2>1 DEF Message
    <3>2. IsExtended(proof', proof, m)
      BY <1>5, <3>1, AppendFacts
    <3>3. IsSeq(proof') /\ Len(proof') = n_layers /\ proof'[n_layers] = m
      BY <1>4, <1>5, <3>2 DEF IsExtended
    <3> QED  BY <1>4, <3>1, <3>3
  <2>2. CASE proof' = proof /\ stage' = "last layer's degree too high"
    <3>1. IsSeq(proof') /\ Len(proof') = n_layers - 1
      BY <1>5, <2>2
    <3>2. stage' # "query"
      BY <2>2
    <3> QED  BY <1>4, <3>1, <3>2
  <2> QED  BY <1>1, <2>1, <2>2
<1>7. ProofGrows'
  <2>1. /\ queries' = <<>> /\ stage' \in Proving /\ n_layers' = n_layers
        /\ stage' # "commitment" /\ stage' # "decommitment"
    BY <1>1, <1>2, <1>3, StagesApart, SameNumbers DEF ProofGrows
  <2> QED  BY <1>6, <2>1 DEF ProofGrows
<1>8. VerifierReads' /\ QueriesChosen' /\ stage' \in AllStages
  <2>1. stage' \in Proving
    BY <1>1, StagesApart
  <2> QED  BY <1>1, <1>2, <1>6, <2>1, ProverSteps
<1>9. LayersShaped' /\ RightParams'
  BY <1>1, <1>2, <1>3, LayersSame, SameNumbers
<1> QED  BY <1>7, <1>8, <1>9 DEF Structure

LEMMA HeaderNumber ==
  ASSUME Numbers
  PROVE  /\ HeaderMessages \in Nat \ {0}
         /\ params.proof_of_work_bits = 0 => HeaderMessages = n_layers
         /\ params.proof_of_work_bits # 0 => HeaderMessages = n_layers + 1
<1>1. n_layers \in Nat \ {0}
  BY DEF Numbers
<1> QED  BY <1>1 DEF HeaderMessages

LEMMA ProverQueriesStructure ==
  ASSUME Structure, ProverChooseQueryIndices
  PROVE  Structure'
<1>1. /\ stage = "query" /\ stage' = "decommitment"
      /\ proof' = IF params.proof_of_work_bits = 0 THEN proof
                  ELSE Append(proof, Message("nonce", 0, <<>>, Bytes))
      /\ queries' \in IndexChoices /\ ProverOnly /\ layers' = layers
  BY DEF ProverChooseQueryIndices
<1>2. params' = params /\ verifierVars' = verifierVars
  BY <1>1 DEF ProverOnly
<1>3. RightParams /\ Numbers /\ LayersShaped /\ ProofGrows
  BY RightNumbers DEF Structure
<1>4. /\ IsSeq(proof) /\ Len(proof) = n_layers /\ proof[n_layers].what = "coefficients"
      /\ n_layers \in Nat \ {0}
  BY <1>1, <1>3 DEF ProofGrows, Numbers
<1>5. /\ IsSeq(proof') /\ Len(proof') = HeaderMessages
      /\ LayerAfter(Header(Last(proof'))) = 1
  <2>1. CASE params.proof_of_work_bits = 0
    <3>1. proof' = proof /\ Len(proof) = HeaderMessages
      BY <1>1, <1>3, <1>4, <2>1, HeaderNumber
    <3>2. Last(proof') = proof[n_layers]
      BY <1>4, <3>1 DEF Last
    <3> QED  BY <1>4, <3>1, <3>2 DEF LayerAfter, Header
  <2>2. CASE params.proof_of_work_bits # 0
    <3>1. PICK m : proof' = Append(proof, m) /\ m.what = "nonce"
      BY <1>1, <2>2 DEF Message
    <3>2. IsExtended(proof', proof, m)
      BY <1>4, <3>1, AppendFacts
    <3>3. IsSeq(proof') /\ Len(proof') = HeaderMessages /\ Last(proof') = m
      BY <1>3, <1>4, <2>2, <3>2, HeaderNumber DEF IsExtended, Last
    <3> QED  BY <3>1, <3>3 DEF LayerAfter, Header
  <2> QED  BY <2>1, <2>2
<1>6. ProofGrows'
  <2>1. /\ HeaderMessages' = HeaderMessages /\ IndexChoices' = IndexChoices
        /\ HeaderMessages \in Nat
    BY <1>2, <1>3, SameNumbers, HeaderNumber
  <2>2. stage' \notin Proving /\ stage' # "commitment" /\ stage' # "query"
    BY <1>1, StagesApart
  <2>3. LayerAfter(Header(Last(proof'))) = 1 /\ 1 \in 1 .. n_layers /\ n_layers' = n_layers
    BY <1>2, <1>4, <1>5, SameNumbers
  <2> QED  BY <1>1, <1>5, <2>1, <2>2, <2>3 DEF ProofGrows
<1>7. VerifierReads' /\ QueriesChosen' /\ stage' \in AllStages
  <2>1. Len(proof') \in Nat
    BY <1>5 DEF IsSeq
  <2> QED  BY <1>1, <1>2, <2>1, ProverSteps
<1>8. LayersShaped' /\ RightParams'
  BY <1>1, <1>2, <1>3, LayersSame, SameNumbers
<1> QED  BY <1>6, <1>7, <1>8 DEF Structure

LEMMA OpenedFacts ==
  ASSUME Numbers, NEW i \in InnerLayers, queries \in IndexChoices
  PROVE  LET cells == DataInOrder(queries, i)
         IN  /\ ListsCells(cells, DataQueries(queries, i), i)
             /\ IsSeq(OpenedLayer(i)) /\ Len(OpenedLayer(i)) = Len(cells) + 1
             /\ \A k \in 1 .. Len(cells) : OpenedLayer(i)[k] =
                  Message("cell", i, cells[k], Committed(i)[PlaceInLayer(cells[k], i)])
             /\ OpenedLayer(i)[Len(cells) + 1] = Message("authentication", i, <<>>, Bytes)
<1>1. PICK cells : cells = DataInOrder(queries, i)
  OBVIOUS
<1>2. ListsCells(cells, DataQueries(queries, i), i)
  BY <1>1, DataListed
<1>3. IsSeq(cells) /\ DOMAIN cells = 1 .. Len(cells) /\ Len(cells) \in Nat
  BY <1>2 DEF ListsCells, IsSeq
<1> DEFINE s == [k \in DOMAIN cells |->
                   Message("cell", i, cells[k], Committed(i)[PlaceInLayer(cells[k], i)])]
           last == Message("authentication", i, <<>>, Bytes)
<1>4. DOMAIN s = 1 .. Len(cells) /\ s = [k \in 1 .. Len(cells) |-> s[k]]
  BY <1>3
<1>5. \A k \in 1 .. Len(cells) : s[k] =
        Message("cell", i, cells[k], Committed(i)[PlaceInLayer(cells[k], i)])
  BY <1>3
<1>6. OpenedLayer(i) = s \o <<last>>
  BY <1>1 DEF OpenedLayer
<1> HIDE DEF s, last
<1>7. IsSeq(s) /\ Len(s) = Len(cells)
  BY <1>3, <1>4, ListedIsSeq
<1>8. IsSeq(<<last>>) /\ Len(<<last>>) = 1 /\ <<last>>[1] = last
  BY DEF IsSeq
<1>9. IsConcat(OpenedLayer(i), s, <<last>>)
  BY <1>6, <1>7, <1>8, ConcatFacts
<1>10. /\ IsSeq(OpenedLayer(i)) /\ Len(OpenedLayer(i)) = Len(cells) + 1
       /\ \A k \in 1 .. Len(cells) : OpenedLayer(i)[k] = s[k]
       /\ OpenedLayer(i)[Len(cells) + 1] = last
  <2>1. 1 \in 1 .. Len(<<last>>)
    BY <1>8
  <2>2. OpenedLayer(i)[Len(s) + 1] = <<last>>[1]
    BY <1>9, <2>1 DEF IsConcat
  <2> QED  BY <1>7, <1>8, <1>9, <2>2 DEF IsConcat
<1> QED  BY <1>1, <1>2, <1>5, <1>10 DEF last

LEMMA DecommitStructure ==
  ASSUME Structure, DecommitLayer
  PROVE  Structure'
<1>1. PICK i : /\ i = LayerAfter(Header(Last(proof)))
               /\ stage = "decommitment"
               /\ IF i = n_layers THEN stage' = "proved" /\ proof' = proof
                  ELSE proof' = proof \o OpenedLayer(i) /\ stage' = stage
               /\ ProverOnly /\ layers' = layers /\ queries' = queries
  BY DEF DecommitLayer
<1>2. params' = params /\ verifierVars' = verifierVars
  BY <1>1 DEF ProverOnly
<1>3. RightParams /\ Numbers /\ LayersShaped /\ ProofGrows
  BY RightNumbers DEF Structure
<1>4. /\ IsSeq(proof) /\ Len(proof) \in Nat /\ Len(proof) >= HeaderMessages
      /\ HeaderMessages \in Nat /\ queries \in IndexChoices /\ i \in 1 .. n_layers
  <2>1. stage \notin Proving
    BY <1>1, StagesApart
  <2> QED  BY <1>1, <1>3, <2>1, HeaderNumber DEF ProofGrows, IsSeq
<1>5. /\ IsSeq(proof') /\ Len(proof') \in Nat /\ Len(proof') >= HeaderMessages
      /\ stage' = "decommitment" => LayerAfter(Header(Last(proof'))) \in 1 .. n_layers
  <2>1. CASE i = n_layers
    <3>1. proof' = proof /\ stage' = "proved"
      BY <1>1, <2>1
    <3> QED  BY <1>4, <3>1
  <2>2. CASE i # n_layers
    <3>1. n_layers \in Nat /\ i \in InnerLayers /\ i + 1 \in 1 .. n_layers
      BY <1>3, <1>4, <2>2 DEF Numbers, InnerLayers
    <3>2. PICK u, m : /\ u = OpenedLayer(i) /\ m = Message("authentication", i, <<>>, Bytes)
                      /\ IsSeq(u) /\ Len(u) \in Nat \ {0} /\ u[Len(u)] = m
      <4>1. PICK cells : cells = DataInOrder(queries, i)
        OBVIOUS
      <4>2. /\ ListsCells(cells, DataQueries(queries, i), i)
            /\ IsSeq(OpenedLayer(i)) /\ Len(OpenedLayer(i)) = Len(cells) + 1
            /\ OpenedLayer(i)[Len(cells) + 1] = Message("authentication", i, <<>>, Bytes)
        BY <1>3, <1>4, <3>1, <4>1, OpenedFacts
      <4>3. Len(cells) \in Nat
        BY <4>2 DEF ListsCells, IsSeq
      <4> QED  BY <4>2, <4>3
    <3>3. proof' = proof \o u
      BY <1>1, <2>2, <3>2
    <3>4. IsConcat(proof', proof, u)
      BY <1>4, <3>2, <3>3, ConcatFacts
    <3>5. IsSeq(proof') /\ Len(proof') = Len(proof) + Len(u) /\ proof'[Len(proof')] = m
      <4>1. Len(u) \in 1 .. Len(u)
        BY <3>2
      <4> QED  BY <3>2, <3>4, <4>1 DEF IsConcat
    <3>6. LayerAfter(Header(Last(proof'))) = i + 1
      <4>1. Last(proof') = m
        BY <3>5 DEF Last
      <4> QED  BY <3>2, <4>1 DEF LayerAfter, Header, Message
    <3>7. Len(proof') \in Nat /\ Len(proof') >= HeaderMessages
      <4>1. PICK a, b, c : a = Len(proof) /\ b = Len(u) /\ c = Len(proof')
        OBVIOUS
      <4> QED  BY <1>4, <3>2, <3>5, <4>1
    <3> QED  BY <3>1, <3>5, <3>6, <3>7
  <2> QED  BY <2>1, <2>2
<1>6. ProofGrows'
  <2>1. /\ HeaderMessages' = HeaderMessages /\ IndexChoices' = IndexChoices
        /\ n_layers' = n_layers
    BY <1>2, SameNumbers
  <2>2. stage' \notin Proving /\ stage' # "commitment" /\ stage' # "query"
    BY <1>1, StagesApart
  <2> QED  BY <1>1, <1>4, <1>5, <2>1, <2>2 DEF ProofGrows
<1>7. VerifierReads' /\ QueriesChosen' /\ stage' \in AllStages
  BY <1>1, <1>2, <1>5, ProverSteps
<1>8. LayersShaped' /\ RightParams'
  BY <1>1, <1>2, <1>3, LayersSame, SameNumbers
<1> QED  BY <1>6, <1>7, <1>8 DEF Structure

\* After the proof is complete the prover's side is as it was.
LEMMA ProverSideSame ==
  ASSUME Structure, proverVars' = proverVars,
         stage \notin Proving, stage' \notin Proving \cup {"decommitment"}
  PROVE  /\ RightParams' /\ LayersShaped' /\ ProofGrows'
         /\ params' = params /\ Len(proof)' = Len(proof)
<1>1. /\ params' = params /\ layers' = layers /\ proof' = proof /\ queries' = queries
  BY DEF proverVars
<1>2. RightParams' /\ LayersShaped'
  BY <1>1, LayersSame, SameNumbers DEF Structure
<1>3. stage' # "commitment" /\ stage' # "query" /\ stage' # "decommitment"
  BY StagesApart
<1>4. HeaderMessages' = HeaderMessages /\ IndexChoices' = IndexChoices
  BY <1>1, SameNumbers
<1>5. ProofGrows'
  BY <1>1, <1>3, <1>4 DEF ProofGrows, Structure
<1> QED  BY <1>1, <1>2, <1>5

LEMMA DeliverStructure ==
  ASSUME Structure, Deliver
  PROVE  Structure'
<1>1. /\ stage = "proved" /\ stage' = "verifying"
      /\ proverVars' = proverVars /\ verifierVars' = verifierVars
  BY DEF Deliver
<1>2. /\ RightParams' /\ LayersShaped' /\ ProofGrows'
      /\ params' = params /\ Len(proof)' = Len(proof)
  BY <1>1, ProverSideSame, StagesApart DEF Proving
<1>3. /\ reads = <<>> /\ eval_points = <<>> /\ query_indices = <<>> /\ query_results = <<>>
      /\ IsSeq(proof) /\ Numbers
  BY <1>1, RightNumbers
     DEF Structure, VerifierReads, QueriesChosen, ProofGrows, Folding, Rejections
<1>4. /\ reads' = <<>> /\ eval_points' = <<>> /\ query_indices' = <<>> /\ query_results' = <<>>
  BY <1>1, <1>3 DEF verifierVars
<1>5. /\ IsSeq(reads') /\ Len(reads') = 0 /\ IsSeq(eval_points') /\ Len(eval_points') = 0
      /\ IsSeq(query_results') /\ Len(query_results') = 0
  BY <1>4, NoElements
<1>6. n_layers' = n_layers /\ n_layers \in Nat \ {0} /\ Len(proof') \in Nat
  BY <1>2, <1>3, SameNumbers DEF Numbers, IsSeq
<1>7. VerifierReads'
  <2>1. Len(reads') <= Len(proof') /\ Len(eval_points') <= n_layers'
    BY <1>5, <1>6
  <2>2. Len(reads') = IF Len(eval_points') < n_layers' THEN Len(eval_points')
                      ELSE n_layers' - 1
    BY <1>5, <1>6
  <2>3. NotDecommitted(reads')
    BY <1>5 DEF NotDecommitted
  <2> QED  BY <1>1, <1>5, <2>1, <2>2, <2>3, StagesApart DEF VerifierReads, Commitments
<1>8. QueriesChosen'
  BY <1>1, <1>4, <1>5 DEF QueriesChosen, Folding
<1> QED  BY <1>1, <1>2, <1>7, <1>8 DEF Structure, AllStages, Reading

LEMMA ReadNext ==
  ASSUME IsSeq(reads), NEW what, NEW i, what # "authentication",
         reads' = Append(reads, <<what, i, <<>>>>)
  PROVE  IsSeq(reads') /\ Len(reads') = Len(reads) + 1 /\ NotDecommitted(reads')
<1>0. PICK none : none = <<>>
  OBVIOUS
<1>1. PICK m : m = <<what, i, none>>
  OBVIOUS
<1>2. m[1] = what /\ reads' = Append(reads, m)
  BY <1>0, <1>1
<1>3. IsExtended(reads', reads, m)
  BY <1>2, AppendFacts
<1>4. IsSeq(reads') /\ Len(reads') = Len(reads) + 1 /\ reads'[Len(reads')] = m
  BY <1>3 DEF IsExtended
<1> QED  BY <1>2, <1>4 DEF NotDecommitted

LEMMA VerifierOnlyMeans ==
  ASSUME VerifierOnly
  PROVE  proverVars' = proverVars /\ damage' = damage
BY DEF VerifierOnly

LEMMA ReadLayerStructure ==
  ASSUME Structure, ReadLayerCommitment
  PROVE  Structure'
<1>1. PICK i : i = Len(eval_points)
  OBVIOUS
<1>2. /\ stage = "verifying" /\ stage' = stage /\ i < n_layers
      /\ \E pt : eval_points' = Append(eval_points, pt)
      /\ IF i = n_layers - 1 THEN reads' = reads ELSE Reads("commitment", i + 1)
      /\ VerifierOnly /\ query_indices' = query_indices /\ query_results' = query_results
  BY <1>1 DEF ReadLayerCommitment
<1>3. /\ RightParams' /\ LayersShaped' /\ ProofGrows'
      /\ params' = params /\ Len(proof)' = Len(proof)
  BY <1>2, ProverSideSame, VerifierOnlyMeans, StagesApart
<1>4. /\ IsSeq(reads) /\ IsSeq(eval_points) /\ Len(reads) = Commitments(i)
      /\ NotDecommitted(reads) /\ Numbers /\ IsSeq(proof) /\ Len(proof) >= HeaderMessages
      /\ IsSeq(query_results)
  BY <1>1, <1>2, RightNumbers, StagesApart DEF Structure, VerifierReads, ProofGrows
<1>5. /\ n_layers' = n_layers /\ n_layers \in Nat \ {0} /\ i \in Nat /\ Len(proof) \in Nat
      /\ HeaderMessages \in Nat /\ HeaderMessages >= n_layers
  <2>1. n_layers \in Nat \ {0}
    BY <1>4 DEF Numbers
  <2>2. HeaderMessages \in Nat /\ HeaderMessages >= n_layers
    BY <1>4, <2>1, HeaderNumber
  <2> QED  BY <1>1, <1>3, <1>4, <2>1, <2>2, SameNumbers DEF IsSeq
<1>6. IsSeq(eval_points') /\ Len(eval_points') = i + 1
  <2>1. PICK pt : eval_points' = Append(eval_points, pt)
    BY <1>2
  <2> QED  BY <1>1, <1>4, <2>1, AppendFacts DEF IsExtended
<1>7. /\ IsSeq(reads') /\ NotDecommitted(reads')
      /\ Len(reads') = IF i + 1 < n_layers THEN i + 1 ELSE n_layers - 1
  <2>1. CASE i = n_layers - 1
    <3>1. reads' = reads /\ Len(reads) = n_layers - 1
      BY <1>2, <1>4, <1>5, <2>1 DEF Commitments
    <3> QED  BY <1>4, <1>5, <2>1, <3>1
  <2>2. CASE i # n_layers - 1
    <3>1. reads' = Append(reads, <<"commitment", i + 1, <<>>>>) /\ Len(reads) = i
      BY <1>2, <1>4, <1>5, <2>2 DEF Commitments, Reads
    <3>2. IsSeq(reads') /\ Len(reads') = Len(reads) + 1 /\ NotDecommitted(reads')
      BY <1>4, <3>1, ReadNext
    <3> QED  BY <1>2, <1>5, <2>2, <3>1, <3>2
  <2> QED  BY <2>1, <2>2
<1>8. VerifierReads'
  <2>1. Len(eval_points') <= n_layers'
    BY <1>2, <1>5, <1>6
  <2>2. Len(reads') <= Len(proof')
    BY <1>2, <1>3, <1>4, <1>5, <1>7
  <2>3. Len(reads') = IF Len(eval_points') < n_layers' THEN Len(eval_points')
                      ELSE n_layers' - 1
    BY <1>5, <1>6, <1>7
  <2>4. IsSeq(query_results')
    BY <1>2, <1>4
  <2> QED  BY <1>2, <1>6, <1>7, <2>1, <2>2, <2>3, <2>4, StagesApart
           DEF VerifierReads, Commitments
<1>9. QueriesChosen'
  <2>1. query_indices = <<>> /\ query_results = <<>>
    BY <1>2, StagesApart DEF Structure, QueriesChosen, Folding, Rejections
  <2> QED  BY <1>2, <2>1, NoElements DEF QueriesChosen, Folding, Rejections
<1> QED  BY <1>2, <1>3, <1>8, <1>9 DEF Structure

LEMMA ReadLastStructure ==
  ASSUME Structure, ReadLastLayerCoefficients
  PROVE  Structure'
<1>1. /\ stage = "verifying" /\ stage' = "choosing" /\ Len(eval_points) = n_layers
      /\ reads' = Append(reads, <<"coefficients", n_layers, <<>>>>)
      /\ VerifierOnly /\ eval_points' = eval_points
      /\ query_indices' = query_indices /\ query_results' = query_results
  BY DEF ReadLastLayerCoefficients, Reads
<1>2. /\ RightParams' /\ LayersShaped' /\ ProofGrows'
      /\ params' = params /\ Len(proof)' = Len(proof)
  BY <1>1, ProverSideSame, VerifierOnlyMeans, StagesApart
<1>3. /\ IsSeq(reads) /\ IsSeq(eval_points) /\ Len(reads) = Commitments(n_layers)
      /\ Numbers /\ IsSeq(proof) /\ Len(proof) >= HeaderMessages /\ IsSeq(query_results)
  BY <1>1, RightNumbers, StagesApart DEF Structure, VerifierReads, ProofGrows
<1>4. /\ n_layers' = n_layers /\ n_layers \in Nat \ {0} /\ Len(proof) \in Nat
      /\ HeaderMessages \in Nat /\ HeaderMessages >= n_layers
  <2>1. n_layers \in Nat \ {0}
    BY <1>3 DEF Numbers
  <2>2. HeaderMessages \in Nat /\ HeaderMessages >= n_layers
    BY <1>3, <2>1, HeaderNumber
  <2> QED  BY <1>2, <1>3, <2>1, <2>2, SameNumbers DEF IsSeq
<1>5. IsSeq(reads') /\ Len(reads') = n_layers /\ NotDecommitted(reads')
  <2>1. Len(reads) = n_layers - 1
    BY <1>3, <1>4 DEF Commitments
  <2>2. IsSeq(reads') /\ Len(reads') = Len(reads) + 1 /\ NotDecommitted(reads')
    BY <1>1, <1>3, ReadNext
  <2> QED  BY <1>4, <2>1, <2>2
<1>6. VerifierReads'
  <2>1. Len(reads') <= Len(proof') /\ Len(eval_points') <= n_layers' /\ Len(reads') = n_layers'
    BY <1>1, <1>2, <1>3, <1>4, <1>5
  <2>2. IsSeq(query_results') /\ IsSeq(eval_points')
    BY <1>1, <1>3
  <2> QED  BY <1>1, <1>5, <2>1, <2>2, StagesApart DEF VerifierReads
<1>7. QueriesChosen'
  <2>1. query_indices = <<>> /\ query_results = <<>>
    BY <1>1, StagesApart DEF Structure, QueriesChosen, Folding, Rejections
  <2> QED  BY <1>1, <2>1, NoElements DEF QueriesChosen, Folding, Rejections
<1> QED  BY <1>1, <1>2, <1>6, <1>7 DEF Structure, AllStages, Reading

LEMMA VerifierQueriesStructure ==
  ASSUME Structure, VerifierChooseQueryIndices
  PROVE  Structure'
<1>1. /\ stage = "choosing"
      /\ IF params.proof_of_work_bits = 0 THEN reads' = reads
         ELSE reads' = Append(reads, <<"nonce", 0, <<>>>>)
      /\ VerifierOnly /\ eval_points' = eval_points /\ query_results' = query_results
  BY DEF VerifierChooseQueryIndices, Reads
<1>2. \/ /\ query_indices' \in IndexChoices \cup {queries} /\ stage' = "first layer"
      \/ query_indices' = query_indices /\ stage' = "wrong proof of work"
  BY DEF VerifierChooseQueryIndices
<1>3. stage' \notin Proving \cup {"decommitment"}
  BY <1>2, StagesApart DEF Rejections
<1>4. /\ RightParams' /\ LayersShaped' /\ ProofGrows'
      /\ params' = params /\ Len(proof)' = Len(proof)
  BY <1>1, <1>3, ProverSideSame, VerifierOnlyMeans, StagesApart
<1>5. /\ IsSeq(reads) /\ Len(reads) = n_layers /\ NotDecommitted(reads)
      /\ IsSeq(eval_points) /\ Len(eval_points) <= n_layers
      /\ Numbers /\ IsSeq(proof) /\ Len(proof) >= HeaderMessages /\ IsSeq(query_results)
      /\ queries \in IndexChoices
  BY <1>1, RightNumbers, StagesApart DEF Structure, VerifierReads, ProofGrows
<1>6. /\ n_layers' = n_layers /\ HeaderMessages' = HeaderMessages /\ IndexChoices' = IndexChoices
  BY <1>4, SameNumbers
<1>7. IsSeq(reads') /\ Len(reads') = HeaderMessages /\ NotDecommitted(reads')
  <2>1. CASE params.proof_of_work_bits = 0
    BY <1>1, <1>5, <2>1, HeaderNumber
  <2>2. CASE params.proof_of_work_bits # 0
    <3>1. IsSeq(reads') /\ Len(reads') = Len(reads) + 1 /\ NotDecommitted(reads')
      <4>1. reads' = Append(reads, <<"nonce", 0, <<>>>>)
        BY <1>1, <2>2
      <4> QED  BY <1>5, <4>1, ReadNext
    <3> QED  BY <1>5, <2>2, <3>1, HeaderNumber
  <2> QED  BY <2>1, <2>2
<1>8. VerifierReads'
  <2>1. stage' \in {"first layer"} \cup Rejections
    BY <1>2 DEF Rejections
  <2>2. Len(reads') <= Len(proof')
    BY <1>4, <1>5, <1>7
  <2>3. /\ IsSeq(query_results') /\ IsSeq(eval_points') /\ Len(eval_points') <= n_layers'
        /\ Len(reads') = HeaderMessages'
    BY <1>1, <1>5, <1>6, <1>7
  <2>4. stage' \notin {"decommitment", "proved", "verifying", "choosing", "inner layers"}
    BY <1>2
  <2> QED  BY <1>3, <1>7, <2>2, <2>3, <2>4 DEF VerifierReads
<1>9. QueriesChosen'
  <2>1. query_indices = <<>> /\ query_results = <<>>
    BY <1>1, StagesApart DEF Structure, QueriesChosen, Folding, Rejections
  <2>2. query_results' = <<>> /\ Len(query_results') = 0
    BY <1>1, <2>1, NoElements
  <2>3. \/ query_indices' \in IndexChoices' /\ stage' = "first layer"
        \/ query_indices' = <<>> /\ stage' = "wrong proof of work"
    BY <1>2, <1>5, <1>6, <2>1
  <2> QED  BY <2>2, <2>3 DEF QueriesChosen, Folding, Rejections
<1>10. stage' \in AllStages
  BY <1>2 DEF AllStages, Rejections
<1> QED  BY <1>4, <1>8, <1>9, <1>10 DEF Structure

LEMMA FirstLayerStructure ==
  ASSUME Structure, VerifyFirstLayer
  PROVE  Structure'
<1> DEFINE f == FirstLayerQueries(query_indices)
<1>1. /\ stage = "first layer"
      /\ stage' = IF n_layers = 1 THEN "last layer" ELSE "inner layers"
      /\ \E e : query_results' = [j \in 1 .. Len(f) \div CosetSize(0) |-> e[j]]
      /\ VerifierOnly /\ reads' = reads /\ eval_points' = eval_points
      /\ query_indices' = query_indices
  <2> DEFINE e == [j \in 1 .. Len(f) \div CosetSize(0) |->
                     ApplyFriLayers([k \in 0 .. CosetSize(0) - 1 |->
                                       FirstLayerValue(f[(j - 1) * CosetSize(0) + 1 + k])],
                                    eval_points[1], 0, f[(j - 1) * CosetSize(0) + 1])]
  <2>1. query_results' = e
    BY DEF VerifyFirstLayer
  <2>2. query_results' = [j \in 1 .. Len(f) \div CosetSize(0) |-> e[j]]
    BY <2>1
  <2> QED  BY <2>2 DEF VerifyFirstLayer
<1>2. stage' \in Folding /\ stage' # "accepted"
  BY <1>1 DEF Folding
<1>3. stage' \notin Proving \cup {"decommitment"}
  BY <1>2, StagesApart
<1>4. /\ RightParams' /\ LayersShaped' /\ ProofGrows'
      /\ params' = params /\ Len(proof)' = Len(proof)
  BY <1>1, <1>3, ProverSideSame, VerifierOnlyMeans, StagesApart
<1>5. /\ IsSeq(reads) /\ Len(reads) = HeaderMessages /\ NotDecommitted(reads)
      /\ IsSeq(eval_points) /\ Len(eval_points) <= n_layers /\ Len(reads) <= Len(proof)
      /\ Numbers /\ query_indices \in IndexChoices
  BY <1>1, RightNumbers, StagesApart DEF Structure, VerifierReads, QueriesChosen
<1>6. IsSeq(query_results') /\ Len(query_results') = params.n_queries
  <2>1. Len(f) \div CosetSize(0) = params.n_queries
    BY <1>5, FirstLayerFacts DEF AsksCosets
  <2>2. PICK e : query_results' = [j \in 1 .. params.n_queries |-> e[j]]
    BY <1>1, <2>1
  <2>3. params.n_queries \in Nat
    BY <1>5 DEF Numbers
  <2>4. DOMAIN query_results' = 1 .. params.n_queries
    BY <2>2
  <2>5. query_results' = [j \in 1 .. params.n_queries |-> query_results'[j]]
    BY <2>2
  <2> QED  BY <2>3, <2>4, <2>5, ListedIsSeq
<1>7. n_layers' = n_layers /\ InnerLayers' = InnerLayers /\ IndexChoices' = IndexChoices
  BY <1>4, SameNumbers
<1>8. CurrentLayer' = 1
  <2>1. Len(reads) # 0
    BY <1>5, HeaderNumber
  <2>2. Last(reads)[1] # "authentication"
    BY <1>5, <2>1 DEF NotDecommitted, Last
  <2> QED  BY <1>1, <2>2 DEF CurrentLayer, LayerAfter
<1>9. VerifierReads'
  <2>1. stage' = "inner layers" => CurrentLayer' \in InnerLayers'
    <3>1. n_layers \in Nat \ {0} /\ (stage' = "inner layers" => n_layers # 1)
      BY <1>1, <1>5 DEF Numbers
    <3>2. \A n \in Nat \ {0} : n # 1 => 1 \in 1 .. n - 1
      OBVIOUS
    <3> QED  BY <1>7, <1>8, <3>1, <3>2 DEF InnerLayers
  <2>2. stage' \notin {"verifying", "choosing", "first layer", "decommitment", "proved"}
    BY <1>2, StagesApart
  <2>3. /\ Len(reads') <= Len(proof') /\ IsSeq(reads') /\ IsSeq(eval_points')
        /\ Len(eval_points') <= n_layers'
    BY <1>1, <1>4, <1>5, <1>7
  <2> QED  BY <1>3, <1>6, <2>1, <2>2, <2>3 DEF VerifierReads
<1>10. QueriesChosen'
  BY <1>1, <1>2, <1>4, <1>5, <1>6, <1>7 DEF QueriesChosen
<1> QED  BY <1>2, <1>4, <1>9, <1>10 DEF Structure, AllStages

\* What the verifier reads of a layer, at once.
LEMMA LayerRead ==
  ASSUME Structure, VerifyInnerLayer, stage' # "proof too short"
  PROVE  LET cells == DataInOrder(query_indices, CurrentLayer)
         IN  /\ stage = "inner layers" /\ Numbers /\ CurrentLayer \in InnerLayers
             /\ query_indices \in IndexChoices
             /\ ListsCells(cells, DataQueries(query_indices, CurrentLayer), CurrentLayer)
             /\ IsSeq(reads') /\ Len(reads') = (Len(reads) + Len(cells)) + 1
             /\ Len(reads') <= Len(proof)
             /\ CurrentLayer' = CurrentLayer + 1
             /\ Len(query_results) = params.n_queries
             /\ DOMAIN query_results = DOMAIN query_indices
             /\ DOMAIN query_results = 1 .. params.n_queries
<1>1. PICK i, cells : i = CurrentLayer /\ cells = DataInOrder(query_indices, i)
  OBVIOUS
<1>2. /\ stage = "inner layers" /\ InProof(Len(cells) + 1)
      /\ reads' = reads \o [k \in DOMAIN cells |-> <<"cell", i, cells[k]>>]
                        \o <<<<"authentication", i, <<>>>>>>
  BY <1>1 DEF VerifyInnerLayer
<1>3. /\ Numbers /\ i \in InnerLayers /\ query_indices \in IndexChoices /\ IsSeq(reads)
      /\ IsSeq(query_results) /\ Len(query_results) = params.n_queries /\ IsSeq(proof)
  BY <1>1, <1>2, RightNumbers
     DEF Structure, VerifierReads, QueriesChosen, ProofGrows, Folding
<1>4. ListsCells(cells, DataQueries(query_indices, i), i)
  BY <1>1, <1>3, DataListed
<1>5. IsSeq(cells) /\ DOMAIN cells = 1 .. Len(cells) /\ Len(cells) \in Nat
  BY <1>4 DEF ListsCells, IsSeq
<1>6. PICK s, m : /\ s = [k \in DOMAIN cells |-> <<"cell", i, cells[k]>>]
                  /\ m = <<"authentication", i, <<>>>>
  OBVIOUS
<1>7. IsSeq(s) /\ Len(s) = Len(cells)
  <2>1. DOMAIN s = 1 .. Len(cells) /\ s = [k \in 1 .. Len(cells) |-> s[k]]
    BY <1>5, <1>6
  <2> QED  BY <1>5, <2>1, ListedIsSeq
<1>8. PICK one : /\ one = <<m>> /\ IsSeq(one) /\ Len(one) = 1 /\ one[1] = m
                 /\ 1 \in 1 .. Len(one)
  BY OneElement
<1>9. IsConcat(reads \o s, reads, s)
  BY <1>3, <1>7, ConcatFacts
<1>10. PICK t : t = reads \o s
  OBVIOUS
<1>11. IsSeq(t) /\ Len(t) = Len(reads) + Len(cells)
  BY <1>7, <1>9, <1>10 DEF IsConcat
<1>12. IsConcat(reads', t, one)
  <2>1. reads' = t \o one
    BY <1>2, <1>6, <1>8, <1>10
  <2> QED  BY <1>8, <1>11, <2>1, ConcatFacts
<1>13. /\ IsSeq(reads') /\ Len(reads') = (Len(reads) + Len(cells)) + 1
       /\ reads'[Len(reads')] = m
  <2>1. 1 \in 1 .. Len(one)
    BY <1>8
  <2> QED  BY <1>8, <1>11, <1>12, <2>1 DEF IsConcat
<1>14. CurrentLayer' = i + 1
  <2>1. Last(reads') = m
    BY <1>13 DEF Last
  <2>2. m[1] = "authentication" /\ m[2] = i
    <3>1. PICK none : none = <<>>
      OBVIOUS
    <3>2. m = <<"authentication", i, none>>
      BY <1>6, <3>1
    <3> QED  BY <3>2
  <2> QED  BY <2>1, <2>2 DEF CurrentLayer, LayerAfter
<1>15. Len(reads') <= Len(proof)
  <2>1. Len(reads) \in Nat /\ Len(proof) \in Nat
    BY <1>3 DEF IsSeq
  <2>2. Len(reads) + (Len(cells) + 1) <= Len(proof)
    BY <1>2 DEF InProof
  <2> QED  BY <1>5, <1>13, <2>1, <2>2, SumRegrouped
<1>16. DOMAIN query_results = DOMAIN query_indices /\ DOMAIN query_results = 1 .. params.n_queries
  BY <1>3, ChoiceFacts, SeqOfElements
<1> QED  BY <1>1, <1>2, <1>3, <1>4, <1>13, <1>14, <1>15, <1>16

LEMMA InnerLayerStructure ==
  ASSUME Structure, VerifyInnerLayer
  PROVE  Structure'
<1>1. /\ stage = "inner layers" /\ VerifierOnly /\ eval_points' = eval_points
      /\ query_indices' = query_indices
  BY DEF VerifyInnerLayer
<1>2. /\ IsSeq(reads) /\ IsSeq(eval_points) /\ Len(eval_points) <= n_layers
      /\ Len(reads) <= Len(proof) /\ Numbers /\ query_indices \in IndexChoices
      /\ IsSeq(query_results) /\ Len(query_results) = params.n_queries
      /\ CurrentLayer \in InnerLayers
  BY <1>1, RightNumbers, StagesApart DEF Structure, VerifierReads, QueriesChosen, Folding
<1>3. \/ stage' = "proof too short" /\ reads' = reads /\ query_results' = query_results
      \/ /\ stage' \in {"failed decommitment", "last layer", "inner layers"}
         /\ stage' = "inner layers" => CurrentLayer # n_layers - 1
         /\ \E e : query_results' = [j \in DOMAIN query_results |-> e[j]]
  <2> DEFINE i == CurrentLayer
             e == [j \in DOMAIN query_results |->
                     NextResult(j, i, ToVerify(DataInOrder(query_indices, i), i))]
  <2>1. \/ stage' = "proof too short" /\ reads' = reads /\ query_results' = query_results
        \/ /\ query_results' = e
           /\ \E answer : stage' = CASE ~answer -> "failed decommitment"
                                     [] answer /\ i = n_layers - 1 -> "last layer"
                                     [] OTHER -> stage
    BY DEF VerifyInnerLayer
  <2>2. ASSUME NEW answer, stage' = CASE ~answer -> "failed decommitment"
                                      [] answer /\ i = n_layers - 1 -> "last layer"
                                      [] OTHER -> stage
        PROVE  /\ stage' \in {"failed decommitment", "last layer", "inner layers"}
               /\ stage' = "inner layers" => i # n_layers - 1
    BY <1>1, <2>2
  <2>3. query_results' = e => query_results' = [j \in DOMAIN query_results |-> e[j]]
    OBVIOUS
  <2> QED  BY <2>1, <2>2, <2>3
<1>4. stage' \in {"proof too short", "failed decommitment", "last layer", "inner layers"}
  BY <1>3
<1>5. stage' \notin Proving \cup {"decommitment"} /\ stage' \in AllStages
  BY <1>4 DEF Proving, AllStages, Folding, Rejections
<1>6. /\ RightParams' /\ LayersShaped' /\ ProofGrows'
      /\ params' = params /\ Len(proof)' = Len(proof)
  BY <1>1, <1>5, ProverSideSame, VerifierOnlyMeans, StagesApart DEF Folding
<1>7. n_layers' = n_layers /\ InnerLayers' = InnerLayers /\ IndexChoices' = IndexChoices
  BY <1>6, SameNumbers
<1>8. IsSeq(query_results') /\ Len(query_results') = params.n_queries
  <2>1. CASE query_results' = query_results
    BY <1>2, <2>1
  <2>2. CASE \E e : query_results' = [j \in DOMAIN query_results |-> e[j]]
    <3>1. PICK e : query_results' = [j \in DOMAIN query_results |-> e[j]]
      BY <2>2
    <3>2. DOMAIN query_results = 1 .. params.n_queries /\ params.n_queries \in Nat
      BY <1>2, SeqOfElements DEF Numbers
    <3>3. /\ DOMAIN query_results' = 1 .. params.n_queries
          /\ query_results' = [j \in 1 .. params.n_queries |-> query_results'[j]]
      BY <3>1, <3>2
    <3> QED  BY <3>2, <3>3, ListedIsSeq
  <2> QED  BY <1>3, <2>1, <2>2
<1>9. /\ IsSeq(reads') /\ Len(reads') <= Len(proof)
      /\ stage' = "inner layers" => CurrentLayer' \in InnerLayers
  <2>1. CASE stage' = "proof too short"
    BY <1>2, <1>3, <2>1
  <2>2. CASE stage' # "proof too short"
    <3>1. /\ IsSeq(reads') /\ Len(reads') <= Len(proof)
          /\ CurrentLayer' = CurrentLayer + 1
      BY <2>2, LayerRead
    <3>2. PICK i, n : i = CurrentLayer /\ n = n_layers
      OBVIOUS
    <3>3. i \in 1 .. n - 1 /\ n \in Nat /\ (stage' = "inner layers" => i # n - 1)
      BY <1>2, <1>3, <2>2, <3>2 DEF InnerLayers, Numbers
    <3>4. \A k \in 1 .. n - 1 : k # n - 1 => k + 1 \in 1 .. n - 1
      BY <3>3, NextInRange
    <3>5. stage' = "inner layers" => i + 1 \in 1 .. n - 1
      BY <3>3, <3>4
    <3> QED  BY <3>1, <3>2, <3>5 DEF InnerLayers
  <2> QED  BY <2>1, <2>2
<1>10. VerifierReads'
  <2>1. stage' \notin {"decommitment", "proved", "verifying", "choosing", "first layer"}
    BY <1>4
  <2> QED  BY <1>1, <1>2, <1>5, <1>6, <1>7, <1>8, <1>9, <2>1 DEF VerifierReads
<1>11. QueriesChosen'
  <2>1. query_indices' \in IndexChoices' /\ Len(query_results') = params'.n_queries
    BY <1>1, <1>2, <1>6, <1>7, <1>8
  <2>2. stage' \in {"first layer"} \cup Folding \cup Rejections
    BY <1>4 DEF Folding, Rejections
  <2> QED  BY <2>1, <2>2 DEF QueriesChosen
<1> QED  BY <1>5, <1>6, <1>10, <1>11 DEF Structure

\* Steps that change nothing but the stage, from one where the queries are chosen.
LEMMA StageStructure ==
  ASSUME Structure, proverVars' = proverVars, verifierVars' = verifierVars,
         stage = "last layer",
         stage' \in {"accepted", "inconsistent with the last layer"}
  PROVE  Structure'
<1>1. stage' \notin Proving \cup {"decommitment"} /\ stage' \in AllStages
  BY DEF Proving, AllStages, Folding, Rejections
<1>2. stage \notin Proving
  BY StagesApart DEF Folding
<1>3. /\ RightParams' /\ LayersShaped' /\ ProofGrows'
      /\ params' = params /\ Len(proof)' = Len(proof)
  BY <1>1, <1>2, ProverSideSame
<1>4. /\ reads' = reads /\ eval_points' = eval_points
      /\ query_indices' = query_indices /\ query_results' = query_results
  BY DEF verifierVars
<1>5. n_layers' = n_layers /\ IndexChoices' = IndexChoices
  BY <1>3, SameNumbers
<1>6. VerifierReads'
  <2>1. stage' \notin {"decommitment", "proved", "verifying", "choosing", "first layer",
                       "inner layers"}
    OBVIOUS
  <2> QED  BY <1>1, <1>3, <1>4, <1>5, <2>1 DEF VerifierReads, Structure
<1>7. QueriesChosen'
  <2>1. /\ query_indices \in IndexChoices /\ Len(query_results) = params.n_queries
    BY DEF Structure, QueriesChosen, Folding
  <2>2. stage' \in Folding \cup Rejections
    BY DEF Folding, Rejections
  <2> QED  BY <1>3, <1>4, <1>5, <2>1, <2>2 DEF QueriesChosen
<1> QED  BY <1>1, <1>3, <1>6, <1>7 DEF Structure

LEMMA NothingStructure ==
  ASSUME Structure, vars' = vars
  PROVE  Structure'
<1>1. /\ params' = params /\ layers' = layers /\ proof' = proof /\ queries' = queries
      /\ reads' = reads /\ eval_points' = eval_points /\ stage' = stage
      /\ query_indices' = query_indices /\ query_results' = query_results
  BY DEF vars, proverVars, verifierVars
<1>2. /\ n_layers' = n_layers /\ IndexChoices' = IndexChoices /\ InnerLayers' = InnerLayers
      /\ HeaderMessages' = HeaderMessages
      /\ (RightParams => RightParams')
  BY <1>1, SameNumbers
<1>3. LayersShaped'
  BY <1>1, LayersSame DEF Structure
<1>4. ProofGrows'
  BY <1>1, <1>2 DEF Structure, ProofGrows, Commitments
<1>5. VerifierReads'
  BY <1>1, <1>2 DEF Structure, VerifierReads, Commitments, CurrentLayer
<1>6. QueriesChosen'
  BY <1>1, <1>2 DEF Structure, QueriesChosen
<1> QED  BY <1>1, <1>2, <1>3, <1>4, <1>5, <1>6 DEF Structure

LEMMA NextStructure ==
  ASSUME Structure, [Next]_vars
  PROVE  Structure'
<1>1. CASE CommitLayer
  BY <1>1, CommitStructure
<1>2. CASE SendLastLayer
  BY <1>2, SendLastStructure
<1>3. CASE ProverChooseQueryIndices
  BY <1>3, ProverQueriesStructure
<1>4. CASE DecommitLayer
  BY <1>4, DecommitStructure
<1>5. CASE Deliver
  BY <1>5, DeliverStructure
<1>6. CASE ReadLayerCommitment
  BY <1>6, ReadLayerStructure
<1>7. CASE ReadLastLayerCoefficients
  BY <1>7, ReadLastStructure
<1>8. CASE VerifierChooseQueryIndices
  BY <1>8, VerifierQueriesStructure
<1>9. CASE VerifyFirstLayer
  BY <1>9, FirstLayerStructure
<1>10. CASE VerifyInnerLayer
  BY <1>10, InnerLayerStructure
<1>11. CASE VerifyLastLayer
  <2>1. /\ stage = "last layer" /\ proverVars' = proverVars /\ verifierVars' = verifierVars
        /\ stage' \in {"accepted", "inconsistent with the last layer"}
    BY <1>11 DEF VerifyLastLayer, VerifierOnly
  <2> QED  BY <2>1, StageStructure
<1>12. CASE vars' = vars
  BY <1>12, NothingStructure
<1> QED  BY <1>1, <1>2, <1>3, <1>4, <1>5, <1>6, <1>7, <1>8, <1>9, <1>10, <1>11, <1>12 DEF Next

\* The stages of both sides follow each other as the code's calls do, with as many layers,
\* messages and queries as the parameters say, for all parameters FromJson accepts, all
\* queries and all alterations.
THEOREM FriStructure == Spec => []Structure
<1>1. Init => Structure
  BY InitStructure
<1>2. Structure /\ [Next]_vars => Structure'
  BY NextStructure
<1> QED  BY <1>1, <1>2, PTL DEF Spec

\* TypeOK for all parameters: the layers have the sizes of their domains (CreateNextFriLayer
\* halves as often as the step says), the queries are in the domain of the second layer, there
\* is a result for each, and the verifier reads no message that is not in the proof.
THEOREM TypeCorrect == Spec => []TypeOK
<1>1. Structure => TypeOK
  <2> SUFFICES ASSUME Structure  PROVE TypeOK
    OBVIOUS
  <2>1. params \in Requests /\ FromJson(params)
    BY DEF Structure, RightParams
  <2>2. Len(layers) \in 1 .. n_layers + 1
    BY DEF Structure, LayersShaped
  <2>3. \A i \in DOMAIN layers : DOMAIN layers[i] = 0 .. LayerSize(i - 1) - 1
    BY DEF Structure, LayersShaped
  <2>4. Len(eval_points) <= n_layers /\ Len(query_results) \in {0, params.n_queries}
    BY DEF Structure, VerifierReads, QueriesChosen
  <2>5. /\ queries # <<>> => queries \in IndexChoices
        /\ query_indices # <<>> => query_indices \in IndexChoices
    BY DEF Structure, ProofGrows, QueriesChosen
  <2>6. InProof(0)
    <3>1. Len(reads) <= Len(proof) /\ Len(reads) \in Nat
      BY DEF Structure, VerifierReads, IsSeq
    <3> QED  BY <3>1 DEF InProof
  <2> QED  BY <2>1, <2>2, <2>3, <2>4, <2>5, <2>6 DEF TypeOK
<1> QED  BY <1>1, FriStructure, PTL

-----------------------------------------------------------------------------
(* What the verifier has when it accepts is the folds of what is committed.*)

\* What the folds are taken of: nothing of it changes from the first fold on.
Witnessed == <<params, flaw, layers, damage, eval_points, query_indices, expected_last_layer>>

\* Along every query, layer i folds to the next one where the query passes it.
FoldsFrom(i) ==
  \A j \in 1 .. params.n_queries :
    LET at == IndexInLayer(query_indices[j], i + 1)
    IN  Vector(i + 1)[at] = FoldedAt(i, at)

\* The verifier is at layer i: it has the folds of the layer before, and has compared
\* those of the earlier ones.
FoldsUpTo(i) ==
  /\ \A j \in 1 .. params.n_queries :
       query_results[j] = FoldedAt(i - 1, IndexInLayer(query_indices[j], i))
  /\ \A h \in 0 .. i - 2 : FoldsFrom(h)

FoldsSoFar ==
  /\ stage = "inner layers" => FoldsUpTo(CurrentLayer)
  /\ stage = "last layer" => FoldsUpTo(n_layers)
  /\ stage = "accepted" => \A i \in 0 .. n_layers - 1 : FoldsFrom(i)

LEMMA VectorOf ==
  ASSUME Numbers
  PROVE  /\ Vector(0) = [q \in Support |-> FirstLayerValue(q)]
         /\ \A i \in InnerLayers : Vector(i) = Committed(i)
         /\ Vector(n_layers) = expected_last_layer
<1>1. \A n \in Nat \ {0} : /\ 0 \notin 1 .. n - 1 /\ 0 # n /\ n \notin 1 .. n - 1
                           /\ \A i \in 1 .. n - 1 : i # 0 /\ i # n
  OBVIOUS
<1>2. /\ 0 \notin 1 .. n_layers - 1 /\ 0 # n_layers /\ n_layers \notin 1 .. n_layers - 1
      /\ \A i \in 1 .. n_layers - 1 : i # 0 /\ i # n_layers
  BY <1>1 DEF Numbers
<1>3. Vector(0) = [q \in Support |-> FirstLayerValue(q)]
  BY <1>2, Zenon DEF Vector
<1>4. ASSUME NEW i \in InnerLayers  PROVE Vector(i) = Committed(i)
  BY <1>2, Zenon DEF Vector, InnerLayers
<1>5. Vector(n_layers) = expected_last_layer
  BY <1>2, Zenon DEF Vector
<1> QED  BY <1>3, <1>4, <1>5

LEMMA VectorSame ==
  ASSUME Witnessed' = Witnessed
  PROVE  /\ \A i : Vector(i)' = Vector(i)
         /\ params' = params /\ query_indices' = query_indices
<1>1. /\ params' = params /\ damage' = damage /\ layers' = layers /\ flaw' = flaw
      /\ query_indices' = query_indices /\ expected_last_layer' = expected_last_layer
  BY DEF Witnessed
<1>2. CosetSize(0)' = CosetSize(0) /\ n_layers' = n_layers
  BY <1>1, SameNumbers
<1>3. \A i : Committed(i)' = Committed(i)
  BY <1>1 DEF Committed
<1>4. Support' = Support
  BY <1>1, <1>2 DEF Support
<1>5. [q \in Support |-> FirstLayerValue(q)]' = [q \in Support |-> FirstLayerValue(q)]
  <2>1. \A q : FirstLayerValue(q)' = FirstLayerValue(q)
    BY <1>1 DEF FirstLayerValue
  <2> QED  BY <1>4, <2>1
<1>6. ASSUME NEW i  PROVE Vector(i)' = Vector(i)
  BY <1>1, <1>2, <1>3, <1>5 DEF Vector
<1> QED  BY <1>1, <1>6

LEMMA FoldSame ==
  ASSUME Witnessed' = Witnessed, NEW elements, NEW pt, NEW i, NEW first
  PROVE  ApplyFriLayers(elements, pt, i, first)' = ApplyFriLayers(elements, pt, i, first)
BY SMT DEF ApplyFriLayers, LogDomainSize, StepsBefore, FriStep, fri_step_list, Witnessed

LEMMA FoldedSame ==
  ASSUME Witnessed' = Witnessed, NEW i, NEW at
  PROVE  FoldedAt(i, at)' = FoldedAt(i, at)
<1>1. CosetSize(i)' = CosetSize(i) /\ Vector(i)' = Vector(i) /\ eval_points' = eval_points
  BY VectorSame, SameNumbers DEF Witnessed
<1>2. PICK es, pt, first, folded, folded_next :
        /\ es = [k \in 0 .. CosetSize(i) - 1 |-> Vector(i)[at * CosetSize(i) + k]]
        /\ pt = eval_points[i + 1] /\ first = at * CosetSize(i)
        /\ folded = FoldedAt(i, at) /\ folded_next = FoldedAt(i, at)'
  OBVIOUS
<1>3. /\ es = [k \in 0 .. CosetSize(i) - 1 |-> Vector(i)[at * CosetSize(i) + k]]'
      /\ pt = eval_points[i + 1]' /\ first = (at * CosetSize(i))'
  BY <1>1, <1>2
<1>4. folded = ApplyFriLayers(es, pt, i, first)
  BY <1>2 DEF FoldedAt
<1>5. folded_next = ApplyFriLayers(es, pt, i, first)'
  BY <1>2, <1>3 DEF FoldedAt
<1> QED  BY <1>2, <1>4, <1>5, FoldSame

LEMMA FoldsSame ==
  ASSUME Witnessed' = Witnessed
  PROVE  \A i : FoldsFrom(i)' = FoldsFrom(i)
<1> SUFFICES ASSUME NEW i  PROVE FoldsFrom(i)' = FoldsFrom(i)
  OBVIOUS
<1>1. params' = params /\ query_indices' = query_indices /\ Vector(i + 1)' = Vector(i + 1)
  BY VectorSame
<1>2. \A q : IndexInLayer(q, i + 1)' = IndexInLayer(q, i + 1)
  BY <1>1, SameNumbers DEF IndexInLayer, StepsBefore, fri_step_list, FriStep
<1>3. \A at : FoldedAt(i, at)' = FoldedAt(i, at)
  BY FoldedSame
<1> QED  BY <1>1, <1>2, <1>3 DEF FoldsFrom

LEMMA FoldsUpToSame ==
  ASSUME Witnessed' = Witnessed, query_results' = query_results
  PROVE  \A i : FoldsUpTo(i)' = FoldsUpTo(i)
<1> SUFFICES ASSUME NEW i  PROVE FoldsUpTo(i)' = FoldsUpTo(i)
  OBVIOUS
<1>1. params' = params /\ query_indices' = query_indices
  BY VectorSame
<1>2. \A q : IndexInLayer(q, i)' = IndexInLayer(q, i)
  BY <1>1, SameNumbers DEF IndexInLayer, StepsBefore, fri_step_list, FriStep
<1>3. \A at : FoldedAt(i - 1, at)' = FoldedAt(i - 1, at)
  BY FoldedSame
<1> QED  BY <1>1, <1>2, <1>3, FoldsSame DEF FoldsUpTo

\* The callback gives the coset of each query, whose fold is the query's result.

LEMMA FirstResult ==
  ASSUME Structure, VerifyFirstLayer, NEW j \in 1 .. params.n_queries
  PROVE  query_results'[j] = FoldedAt(0, IndexInLayer(query_indices[j], 1))
<1>1. Numbers /\ query_indices \in IndexChoices /\ LayersShaped
  BY RightNumbers, StagesApart DEF VerifyFirstLayer, Structure, QueriesChosen
<1>2. PICK f, a, n, N : f = FirstLayerQueries(query_indices) /\ a = CosetSize(0)
                     /\ n = params.n_queries /\ N = LayerSize(0)
  OBVIOUS
<1>3. AsksCosets(f, query_indices, n, a, N)
  BY <1>1, <1>2, FirstLayerFacts
<1>4. PICK q : q = query_indices[j]
  OBVIOUS
<1>5. q \in Range(query_indices) /\ IndexInLayer(q, 1) = q /\ q \in Nat
  <2>1. j \in 1 .. Len(query_indices)
    BY <1>1, ChoiceFacts
  <2>2. q \in 0 .. LayerSize(1) - 1 /\ q \in Range(query_indices)
    BY <1>1, <1>4, <2>1, ChoiceFacts
  <2> QED  BY <1>1, <2>2, IndexFacts
<1>6. \A k \in 0 .. a - 1 : /\ f[(((j - 1) * a) + 1) + k] = q * a + k
                            /\ q * a + k \in 0 .. N - 1 /\ (q * a + k) \div a = q
  BY <1>2, <1>3, <1>4 DEF AsksCosets
<1>7. f[(j - 1) * a + 1] = q * a
  <2>1. a \in Nat \ {0} /\ 0 \in 0 .. a - 1
    BY <1>3 DEF AsksCosets
  <2>2. f[(((j - 1) * a) + 1) + 0] = q * a + 0
    BY <1>6, <2>1
  <2>3. (j - 1) * a + 1 = (((j - 1) * a) + 1) + 0 /\ q * a + 0 = q * a
    <3>1. j - 1 \in Int /\ (j - 1) * a \in Int /\ q * a \in Int
      BY <1>5, <2>1
    <3> QED  BY <3>1
  <2> QED  BY <2>2, <2>3
<1>8. DOMAIN layers[1] = 0 .. N - 1
  <2>1. 1 \in 1 .. Len(layers) /\ 1 - 1 = 0
    BY <1>1 DEF LayersShaped
  <2> QED  BY <1>1, <1>2, <2>1 DEF LayersShaped
<1>9. \A k \in 0 .. a - 1 : q * a + k \in Support
  BY <1>2, <1>5, <1>6, <1>8 DEF Support
<1>10. PICK v : v = Vector(0)
  OBVIOUS
<1>11. v = [p \in Support |-> FirstLayerValue(p)]
  BY <1>1, <1>10, VectorOf
<1>12. [k \in 0 .. a - 1 |-> FirstLayerValue(f[(((j - 1) * a) + 1) + k])]
         = [k \in 0 .. a - 1 |-> v[q * a + k]]
  BY <1>6, <1>9, <1>11
<1>13. query_results' = [h \in 1 .. n |->
          ApplyFriLayers([k \in 0 .. a - 1 |-> FirstLayerValue(f[(((h - 1) * a) + 1) + k])],
                         eval_points[1], 0, f[(h - 1) * a + 1])]
  <2>1. Len(f) \div a = n
    BY <1>3 DEF AsksCosets
  <2> QED  BY <1>2, <2>1 DEF VerifyFirstLayer
<1>14. query_results'[j] = ApplyFriLayers([k \in 0 .. a - 1 |-> v[q * a + k]],
                                          eval_points[1], 0, q * a)
  BY <1>2, <1>7, <1>12, <1>13
<1>15. FoldedAt(0, q) = ApplyFriLayers([k \in 0 .. a - 1 |-> v[q * a + k]],
                                       eval_points[1], 0, q * a)
  <2>1. 0 + 1 = 1
    OBVIOUS
  <2> QED  BY <1>2, <1>10, <2>1 DEF FoldedAt
<1> QED  BY <1>4, <1>5, <1>14, <1>15

\* The queries p and j meet in a cell of layer i, and the result of p is what is verified.
GivesValue(p, j, i, tv) ==
  /\ IndexInLayer(query_indices[p], i) = IndexInLayer(query_indices[j], i)
  /\ tv[IndexCell(query_indices[j], i)] = query_results[p]

\* Every cell of a query's coset is verified; of the queries that meet in one, one gives
\* its value.

LEMMA VerifiedCells ==
  ASSUME Numbers, NEW i \in InnerLayers, query_indices \in IndexChoices,
         NEW cells, ListsCells(cells, DataQueries(query_indices, i), i),
         DOMAIN query_results = 1 .. params.n_queries,
         NEW tv, tv = ToVerify(cells, i), NEW j \in 1 .. params.n_queries
  PROVE  /\ IndexCell(query_indices[j], i) \in DOMAIN tv
         /\ \E p \in 1 .. params.n_queries : GivesValue(p, j, i, tv)
         /\ \A col \in 0 .. CosetSize(i) - 1 :
              <<IndexInLayer(query_indices[j], i + 1), col>> \in DOMAIN tv
<1> DEFINE n == params.n_queries
           C(p) == IndexCell(query_indices[p], i)
           at(cell) == {p \in DOMAIN query_results : CellOfQuery(p, i) = cell}
<1>1. /\ n \in Nat
      /\ \A p \in 1 .. n : /\ query_indices[p] \in Range(query_indices)
                           /\ query_indices[p] \in 0 .. LayerSize(1) - 1
      /\ \A q \in Range(query_indices) : \E p \in 1 .. n : q = query_indices[p]
  <2>1. /\ Len(query_indices) = n
        /\ Range(query_indices) = {query_indices[k] : k \in 1 .. Len(query_indices)}
        /\ \A k \in 1 .. Len(query_indices) : query_indices[k] \in 0 .. LayerSize(1) - 1
    BY ChoiceFacts
  <2>2. n \in Nat
    BY DEF Numbers
  <2> HIDE DEF n
  <2> QED  BY <2>1, <2>2
<1>2. \A p : CellOfQuery(p, i) = C(p)
  BY DEF CellOfQuery, IndexCell
<1>3. Range(cells) = DataQueries(query_indices, i)
  <2>1. Range(cells) = {cells[k] : k \in 1 .. Len(cells)}
    BY DEF Range, ListsCells
  <2> QED  BY <2>1 DEF ListsCells
<1>4. /\ DOMAIN tv = Range(cells) \cup {C(p) : p \in 1 .. n}
      /\ \A cell \in {C(p) : p \in 1 .. n} : cell \notin Range(cells) =>
           tv[cell] = query_results[CHOOSE p \in at(cell) : \A h \in at(cell) : p <= h]
  BY <1>2 DEF ToVerify
<1>5. C(j) \in DOMAIN tv /\ C(j) \notin Range(cells)
  BY <1>1, <1>3, <1>4, DataQueriesFacts
<1>6. at(C(j)) \in SUBSET Nat /\ at(C(j)) # {} /\ at(C(j)) \in SUBSET (1 .. n)
  <2>1. j \in at(C(j))
    BY <1>2
  <2> QED  BY <1>1, <2>1
<1>7. PICK p : p = CHOOSE first \in at(C(j)) : \A h \in at(C(j)) : first <= h
  OBVIOUS
<1>8. p \in at(C(j))
  <2>1. \E m \in at(C(j)) : \A h \in at(C(j)) : m <= h
    BY <1>6, LeastOf
  <2> QED  BY <1>7, <2>1
<1>9. p \in 1 .. n /\ C(p) = C(j)
  BY <1>2, <1>6, <1>8
<1>10. tv[C(j)] = query_results[p]
  BY <1>4, <1>5, <1>7
<1>11. IndexInLayer(query_indices[p], i) = IndexInLayer(query_indices[j], i)
  <2>1. /\ PlaceInLayer(C(p), i) = IndexInLayer(query_indices[p], i)
        /\ PlaceInLayer(C(j), i) = IndexInLayer(query_indices[j], i)
    BY <1>1, <1>9, IndexCellFacts
  <2> QED  BY <1>9, <2>1
<1>12. ASSUME NEW col \in 0 .. CosetSize(i) - 1
       PROVE  <<IndexInLayer(query_indices[j], i + 1), col>> \in DOMAIN tv
  <2>1. PICK cell : cell = <<IndexInLayer(query_indices[j], i + 1), col>>
    OBVIOUS
  <2>2. \/ cell \in DataQueries(query_indices, i)
        \/ \E q \in Range(query_indices) : cell = IndexCell(q, i)
    BY <1>1, <2>1, DataQueriesFacts
  <2>3. \/ cell \in Range(cells)
        \/ \E h \in 1 .. n : cell = C(h)
    BY <1>1, <1>3, <2>2
  <2> QED  BY <1>4, <2>1, <2>3
<1>13. GivesValue(p, j, i, tv)
  BY <1>10, <1>11 DEF GivesValue
<1> QED  BY <1>5, <1>9, <1>12, <1>13

\* A layer whose decommitment the table accepts: the results so far are the values
\* committed where the queries are, and the next results are the folds of those.

LEMMA LayerCompared ==
  ASSUME Structure, VerifyInnerLayer, stage' \in Folding, NEW i, i = CurrentLayer
  PROVE  /\ i \in InnerLayers /\ Numbers /\ CurrentLayer' = i + 1
         /\ stage' \in {"last layer", "inner layers"}
         /\ stage' = "last layer" => i + 1 = n_layers
         /\ \A j \in 1 .. params.n_queries :
              /\ query_results'[j] = FoldedAt(i, IndexInLayer(query_indices[j], i + 1))
              /\ \E p \in 1 .. params.n_queries :
                   /\ IndexInLayer(query_indices[p], i) = IndexInLayer(query_indices[j], i)
                   /\ Vector(i)[IndexInLayer(query_indices[j], i)] = query_results[p]
<1>1. stage' # "proof too short" /\ stage' # "failed decommitment"
  BY DEF Folding
<1>2. PICK cells : cells = DataInOrder(query_indices, i)
  OBVIOUS
<1>3. /\ stage = "inner layers" /\ Numbers /\ i \in InnerLayers /\ query_indices \in IndexChoices
      /\ ListsCells(cells, DataQueries(query_indices, i), i) /\ CurrentLayer' = i + 1
      /\ DOMAIN query_results = 1 .. params.n_queries
  BY <1>1, <1>2, LayerRead
<1>4. PICK tv : tv = ToVerify(cells, i)
  OBVIOUS
<1>5. /\ query_results' = [j \in DOMAIN query_results |-> NextResult(j, i, tv)]
      /\ \E answer \in Answers(i, tv, Len(reads')) :
           stage' = CASE ~answer -> "failed decommitment"
                      [] answer /\ i = n_layers - 1 -> "last layer"
                      [] OTHER -> stage
  BY <1>1, <1>2, <1>4 DEF VerifyInnerLayer
<1>6. PICK answer \in Answers(i, tv, Len(reads')) :
        stage' = CASE ~answer -> "failed decommitment"
                   [] answer /\ i = n_layers - 1 -> "last layer"
                   [] OTHER -> stage
  BY <1>5
<1>7. answer
  BY <1>1, <1>6
<1>8. \A cell \in DOMAIN tv : tv[cell] = Committed(i)[PlaceInLayer(cell, i)]
  BY <1>6, <1>7 DEF Answers
<1>9. /\ stage' \in {"last layer", "inner layers"}
      /\ stage' = "last layer" => i + 1 = n_layers
  <2>1. \/ stage' = "last layer" /\ i = n_layers - 1
        \/ stage' = "inner layers"
    BY <1>3, <1>6, <1>7
  <2>2. i = n_layers - 1 => i + 1 = n_layers
    <3>1. \A n \in Nat : \A k : k = n - 1 => k + 1 = n
      OBVIOUS
    <3> QED  BY <1>3, <3>1 DEF Numbers
  <2> QED  BY <2>1, <2>2
<1>10. PICK v : v = Vector(i)
  OBVIOUS
<1>11. v = Committed(i)
  BY <1>3, <1>10, VectorOf
<1>12. ASSUME NEW j \in 1 .. params.n_queries
       PROVE  /\ query_results'[j] = FoldedAt(i, IndexInLayer(query_indices[j], i + 1))
              /\ \E p \in 1 .. params.n_queries :
                   /\ IndexInLayer(query_indices[p], i) = IndexInLayer(query_indices[j], i)
                   /\ v[IndexInLayer(query_indices[j], i)] = query_results[p]
  <2>1. PICK q, c, row : /\ q = query_indices[j] /\ c = CosetSize(i)
                         /\ row = IndexInLayer(q, i + 1)
    OBVIOUS
  <2>2. /\ q \in 0 .. LayerSize(1) - 1
        /\ IndexCell(q, i)[1] = row
        /\ PlaceInLayer(IndexCell(q, i), i) = IndexInLayer(q, i)
    <3>1. q \in 0 .. LayerSize(1) - 1
      BY <1>3, <2>1, ChoiceFacts
    <3> QED  BY <1>3, <2>1, <3>1, IndexCellFacts
  <2>3. PICK p \in 1 .. params.n_queries : GivesValue(p, j, i, tv)
    BY <1>3, <1>4, VerifiedCells
  <2>4. IndexCell(q, i) \in DOMAIN tv /\ \A col \in 0 .. c - 1 : <<row, col>> \in DOMAIN tv
    BY <1>3, <1>4, <2>1, VerifiedCells
  <2>5. v[IndexInLayer(q, i)] = query_results[p]
    BY <1>8, <1>11, <2>1, <2>2, <2>3, <2>4 DEF GivesValue
  <2>6. query_results'[j] = ApplyFriLayers([col \in 0 .. c - 1 |-> tv[<<row, col>>]],
                                           eval_points[i + 1], i, row * c)
    <3>1. CellOfQuery(j, i)[1] = row
      BY <2>1, <2>2 DEF CellOfQuery, IndexCell
    <3> QED  BY <1>3, <1>5, <2>1, <3>1 DEF NextResult
  <2>7. [col \in 0 .. c - 1 |-> tv[<<row, col>>]] = [col \in 0 .. c - 1 |-> v[row * c + col]]
    <3>1. ASSUME NEW col \in 0 .. c - 1  PROVE tv[<<row, col>>] = v[row * c + col]
      <4>1. PICK cell : cell = <<row, col>>
        OBVIOUS
      <4>2. cell \in DOMAIN tv
        BY <2>4, <4>1
      <4>3. PlaceInLayer(cell, i) = row * c + col
        BY <2>1, <4>1 DEF PlaceInLayer
      <4> QED  BY <1>8, <1>11, <4>1, <4>2, <4>3
    <3> QED  BY <3>1
  <2>8. FoldedAt(i, row) = ApplyFriLayers([col \in 0 .. c - 1 |-> v[row * c + col]],
                                          eval_points[i + 1], i, row * c)
    BY <1>10, <2>1 DEF FoldedAt
  <2> QED  BY <2>1, <2>3, <2>5, <2>6, <2>7, <2>8 DEF GivesValue
<1> QED  BY <1>3, <1>9, <1>10, <1>12

LEMMA OneBefore ==
  ASSUME NEW i \in Nat \ {0}
  PROVE  /\ i = (i - 1) + 1 /\ (i + 1) - 1 = i
         /\ \A k \in 0 .. (i + 1) - 2 : k = i - 1 \/ k \in 0 .. i - 2
OBVIOUS

LEMMA FirstFolds ==
  ASSUME Structure, FoldsSoFar, VerifyFirstLayer
  PROVE  FoldsSoFar'
<1>1. /\ stage = "first layer"
      /\ stage' = IF n_layers = 1 THEN "last layer" ELSE "inner layers"
      /\ Witnessed' = Witnessed /\ reads' = reads
  BY DEF VerifyFirstLayer, VerifierOnly, proverVars, Witnessed
<1>2. Numbers /\ IsSeq(reads) /\ Len(reads) = HeaderMessages /\ NotDecommitted(reads)
  BY <1>1, RightNumbers DEF Structure, VerifierReads
<1>3. CurrentLayer' = 1
  <2>1. Len(reads) # 0
    BY <1>2, HeaderNumber
  <2>2. Last(reads)[1] # "authentication"
    BY <1>2, <2>1 DEF NotDecommitted, Last
  <2> QED  BY <1>1, <2>2 DEF CurrentLayer, LayerAfter
<1>4. n_layers' = n_layers /\ params' = params /\ query_indices' = query_indices
  BY <1>1, VectorSame, SameNumbers
<1>5. FoldsUpTo(1)'
  <2>1. \A q : IndexInLayer(q, 1)' = IndexInLayer(q, 1)
    BY <1>4, SameNumbers DEF IndexInLayer, StepsBefore, fri_step_list, FriStep
  <2>2. \A at : FoldedAt(0, at)' = FoldedAt(0, at)
    BY <1>1, FoldedSame
  <2>3. \A j \in 1 .. params.n_queries :
          query_results'[j] = FoldedAt(0, IndexInLayer(query_indices[j], 1))
    BY FirstResult
  <2>4. 1 - 1 = 0 /\ 0 .. 1 - 2 = {}
    OBVIOUS
  <2>5. \A j \in 1 .. params'.n_queries :
          query_results'[j] = FoldedAt(1 - 1, IndexInLayer(query_indices[j], 1))'
    BY <1>4, <2>1, <2>2, <2>3, <2>4
  <2> QED  BY <2>4, <2>5 DEF FoldsUpTo
<1> QED  BY <1>1, <1>3, <1>4, <1>5 DEF FoldsSoFar

LEMMA InnerFolds ==
  ASSUME Structure, FoldsSoFar, VerifyInnerLayer
  PROVE  FoldsSoFar'
<1>1. stage = "inner layers" /\ Witnessed' = Witnessed
  BY DEF VerifyInnerLayer, VerifierOnly, proverVars, Witnessed
<1>2. CASE stage' \notin Folding
  BY <1>2 DEF FoldsSoFar, Folding
<1>3. CASE stage' \in Folding
  <2>1. PICK i : i = CurrentLayer
    OBVIOUS
  <2>2. /\ i \in InnerLayers /\ Numbers /\ CurrentLayer' = i + 1
        /\ stage' \in {"last layer", "inner layers"}
        /\ stage' = "last layer" => i + 1 = n_layers
        /\ \A j \in 1 .. params.n_queries :
             /\ query_results'[j] = FoldedAt(i, IndexInLayer(query_indices[j], i + 1))
             /\ \E p \in 1 .. params.n_queries :
                  /\ IndexInLayer(query_indices[p], i) = IndexInLayer(query_indices[j], i)
                  /\ Vector(i)[IndexInLayer(query_indices[j], i)] = query_results[p]
    BY <1>3, <2>1, LayerCompared
  <2>3. FoldsUpTo(i)
    BY <1>1, <2>1 DEF FoldsSoFar
  <2>4. PICK h : h = i - 1
    OBVIOUS
  <2>5. i = h + 1 /\ (i + 1) - 1 = i /\ \A k \in 0 .. (i + 1) - 2 : k = h \/ k \in 0 .. i - 2
    <3>1. i \in Nat \ {0}
      BY <2>2, InnerNumbers
    <3> QED  BY <2>4, <3>1, OneBefore
  <2>6. FoldsFrom(h)
    <3>1. ASSUME NEW j \in 1 .. params.n_queries
          PROVE  Vector(i)[IndexInLayer(query_indices[j], i)]
                   = FoldedAt(h, IndexInLayer(query_indices[j], i))
      <4>1. PICK p \in 1 .. params.n_queries :
              /\ IndexInLayer(query_indices[p], i) = IndexInLayer(query_indices[j], i)
              /\ Vector(i)[IndexInLayer(query_indices[j], i)] = query_results[p]
        BY <2>2
      <4>2. query_results[p] = FoldedAt(h, IndexInLayer(query_indices[p], i))
        BY <2>3, <2>4 DEF FoldsUpTo
      <4> QED  BY <4>1, <4>2
    <3> QED  BY <2>5, <3>1 DEF FoldsFrom
  <2>7. FoldsUpTo(i + 1)'
    <3>1. \A q : IndexInLayer(q, i + 1)' = IndexInLayer(q, i + 1)
      BY <1>1, VectorSame, SameNumbers DEF IndexInLayer, StepsBefore, fri_step_list, FriStep
    <3>2. \A at : FoldedAt(i, at)' = FoldedAt(i, at)
      BY <1>1, FoldedSame
    <3>3. params' = params /\ query_indices' = query_indices
      BY <1>1, VectorSame
    <3>4. \A j \in 1 .. params'.n_queries :
            query_results'[j] = FoldedAt(i, IndexInLayer(query_indices[j], i + 1))'
      BY <2>2, <3>1, <3>2, <3>3
    <3>5. (i + 1) - 1 = i
      BY <2>5
    <3>6. \A j \in 1 .. params'.n_queries :
            query_results'[j] = FoldedAt((i + 1) - 1, IndexInLayer(query_indices[j], i + 1))'
      BY <3>4, <3>5
    <3>7. \A k \in 0 .. (i + 1) - 2 : FoldsFrom(k)'
      BY <1>1, <2>3, <2>5, <2>6, FoldsSame DEF FoldsUpTo
    <3> QED  BY <3>6, <3>7 DEF FoldsUpTo
  <2>8. n_layers' = n_layers
    BY <1>1, VectorSame, SameNumbers
  <2> QED  BY <2>2, <2>7, <2>8 DEF FoldsSoFar
<1> QED  BY <1>2, <1>3

LEMMA LastFolds ==
  ASSUME Structure, FoldsSoFar, VerifyLastLayer
  PROVE  FoldsSoFar'
<1>1. /\ stage = "last layer" /\ Witnessed' = Witnessed
      /\ stage' \in {"accepted", "inconsistent with the last layer"}
      /\ stage' = "accepted" =>
           \A j \in DOMAIN query_results :
             query_results[j] = expected_last_layer[IndexInLayer(query_indices[j], n_layers)]
  BY DEF VerifyLastLayer, VerifierOnly, proverVars, verifierVars, Witnessed, Compared
<1>2. CASE stage' # "accepted"
  BY <1>1, <1>2 DEF FoldsSoFar
<1>3. CASE stage' = "accepted"
  <2>1. Numbers /\ DOMAIN query_results = 1 .. params.n_queries
    <3>1. IsSeq(query_results) /\ Len(query_results) = params.n_queries
      BY <1>1 DEF Structure, VerifierReads, QueriesChosen, Folding
    <3> QED  BY <3>1, RightNumbers, SeqOfElements DEF Structure
  <2>2. PICK n, h : n = n_layers /\ h = n - 1
    OBVIOUS
  <2>3. n \in Nat /\ n = h + 1 /\ \A k \in 0 .. n - 1 : k = h \/ k \in 0 .. n - 2
    BY <2>1, <2>2 DEF Numbers
  <2>4. FoldsUpTo(n)
    BY <1>1, <2>2 DEF FoldsSoFar
  <2>5. Vector(n) = expected_last_layer
    BY <2>1, <2>2, VectorOf
  <2>6. FoldsFrom(h)
    <3>1. ASSUME NEW j \in 1 .. params.n_queries
          PROVE  Vector(n)[IndexInLayer(query_indices[j], n)]
                   = FoldedAt(h, IndexInLayer(query_indices[j], n))
      <4>1. query_results[j] = expected_last_layer[IndexInLayer(query_indices[j], n)]
        BY <1>1, <1>3, <2>1, <2>2
      <4>2. query_results[j] = FoldedAt(h, IndexInLayer(query_indices[j], n))
        BY <2>2, <2>4 DEF FoldsUpTo
      <4> QED  BY <2>5, <4>1, <4>2
    <3> QED  BY <2>3, <3>1 DEF FoldsFrom
  <2>7. \A k \in 0 .. n - 1 : FoldsFrom(k)'
    BY <1>1, <2>3, <2>4, <2>6, FoldsSame DEF FoldsUpTo
  <2>8. n_layers' = n
    BY <1>1, <2>2, VectorSame, SameNumbers
  <2> QED  BY <1>3, <2>7, <2>8 DEF FoldsSoFar
<1> QED  BY <1>2, <1>3

LEMMA NextFolds ==
  ASSUME Structure, FoldsSoFar, [Next]_vars
  PROVE  FoldsSoFar'
<1>1. CASE VerifyFirstLayer
  BY <1>1, FirstFolds
<1>2. CASE VerifyInnerLayer
  BY <1>2, InnerFolds
<1>3. CASE VerifyLastLayer
  BY <1>3, LastFolds
<1>4. CASE vars' = vars
  <2>1. /\ Witnessed' = Witnessed /\ query_results' = query_results
        /\ stage' = stage /\ reads' = reads
    BY <1>4 DEF vars, proverVars, verifierVars, Witnessed
  <2>2. n_layers' = n_layers /\ CurrentLayer' = CurrentLayer
    BY <2>1, VectorSame, SameNumbers DEF CurrentLayer
  <2> QED  BY <2>1, <2>2, FoldsSame, FoldsUpToSame DEF FoldsSoFar
<1>5. CASE CommitLayer \/ SendLastLayer \/ ProverChooseQueryIndices \/ DecommitLayer
           \/ Deliver \/ ReadLayerCommitment \/ ReadLastLayerCoefficients
           \/ VerifierChooseQueryIndices
  <2>1. stage' \notin {"inner layers", "last layer", "accepted"}
    BY <1>5 DEF CommitLayer, SendLastLayer, ProverChooseQueryIndices, DecommitLayer, Deliver,
                ReadLayerCommitment, ReadLastLayerCoefficients, VerifierChooseQueryIndices
  <2> QED  BY <2>1 DEF FoldsSoFar
<1> QED  BY <1>1, <1>2, <1>3, <1>4, <1>5 DEF Next

\* AcceptedFoldsRight for all parameters, witnesses, queries and damage: by induction over
\* the verifier's turns its results are the folds of the layer before, each turn that is not
\* rejected compares one result with what is committed wherever queries meet, and the queries
\* that meet have been folded from the same values.
THEOREM FoldsRight == Spec => []AcceptedFoldsRight
<1>1. Init => FoldsSoFar
  BY DEF Init, FoldsSoFar
<1>2. Structure /\ FoldsSoFar /\ [Next]_vars => FoldsSoFar'
  BY NextFolds
<1>3. Structure /\ FoldsSoFar => AcceptedFoldsRight
  <2> SUFFICES ASSUME Structure, FoldsSoFar, stage = "accepted",
                      NEW q \in Range(query_indices), NEW i \in 0 .. n_layers - 1
               PROVE  Vector(i + 1)[IndexInLayer(q, i + 1)] = FoldedAt(i, IndexInLayer(q, i + 1))
    BY DEF AcceptedFoldsRight
  <2>1. Numbers /\ query_indices \in IndexChoices
    BY RightNumbers DEF Structure, QueriesChosen, Folding
  <2>2. PICK j \in 1 .. params.n_queries : q = query_indices[j]
    BY <2>1, ChoiceFacts
  <2>3. FoldsFrom(i)
    BY DEF FoldsSoFar
  <2> QED  BY <2>2, <2>3 DEF FoldsFrom
<1> QED  BY <1>1, <1>2, <1>3, FriStructure, PTL DEF Spec

-----------------------------------------------------------------------------
(* Each cell that the verifier needs is sent once.                         *)

SentCells(i) == {k \in DOMAIN proof : proof[k].what = "cell" /\ proof[k].layer_num = i}

\* The cells sent of layer i are its data queries, each once.
OpenedExactly(i) ==
  /\ \A k \in SentCells(i) : proof[k].cell \in DataQueries(queries, i)
  /\ \A cell \in DataQueries(queries, i) : \E k \in SentCells(i) : proof[k].cell = cell
  /\ \A j, k \in SentCells(i) : proof[j].cell = proof[k].cell => j = k

NoCells == \A k \in DOMAIN proof : proof[k].what # "cell"

OpenedSoFar ==
  /\ stage \in Proving => NoCells
  /\ stage = "decommitment" =>
       LET next == LayerAfter(Header(Last(proof)))
       IN  \A i \in InnerLayers :
             IF i < next THEN OpenedExactly(i) ELSE SentCells(i) = {}
  /\ stage \notin Proving \cup {"decommitment"} => \A i \in InnerLayers : OpenedExactly(i)
  /\ stage # "commitment" => Len(layers) = n_layers + 1

LEMMA MessageFields ==
  ASSUME NEW what, NEW i, NEW cell, NEW value
  PROVE  /\ Message(what, i, cell, value).what = what
         /\ Message(what, i, cell, value).layer_num = i
         /\ Message(what, i, cell, value).cell = cell
         /\ Message(what, i, cell, value).value = value
BY DEF Message

LEMMA DataSame ==
  ASSUME params' = params, queries' = queries
  PROVE  \A i : DataQueries(queries, i)' = DataQueries(queries, i)
<1>1. PICK indices : indices = queries
  OBVIOUS
<1>2. ASSUME NEW i  PROVE DataQueries(indices, i)' = DataQueries(indices, i)
  <2>1. /\ \A k : FriStep(k)' = FriStep(k) /\ CosetSize(k)' = CosetSize(k)
        /\ StepsBefore(i)' = StepsBefore(i)
    BY SameNumbers DEF StepsBefore, fri_step_list
  <2>2. \A q : IndexInLayer(q, i)' = IndexInLayer(q, i)
    BY <2>1 DEF IndexInLayer
  <2>3. IntegrityQueries(indices, i)' = IntegrityQueries(indices, i)
    BY <2>1, <2>2 DEF IntegrityQueries
  <2> QED  BY <2>1, <2>2, <2>3 DEF DataQueries
<1> QED  BY <1>1, <1>2

LEMMA OpenedSame ==
  ASSUME params' = params, queries' = queries, proof' = proof
  PROVE  \A i : /\ OpenedExactly(i)' = OpenedExactly(i)
                /\ SentCells(i)' = SentCells(i)
<1>1. \A i : SentCells(i)' = SentCells(i)
  BY DEF SentCells
<1> QED  BY <1>1, DataSame DEF OpenedExactly

\* No message of the first phases is a cell.
LEMMA NoCellSent ==
  ASSUME IsSeq(proof), NoCells, NEW m, m.what # "cell", proof' = Append(proof, m)
  PROVE  NoCells'
<1>1. IsExtended(proof', proof, m)
  BY AppendFacts
<1>2. \A k \in 1 .. Len(proof) : proof'[k].what # "cell"
  BY <1>1, SeqOfElements DEF NoCells, IsExtended
<1>3. \A k \in 1 .. Len(proof) + 1 : k \in 1 .. Len(proof) \/ k = Len(proof) + 1
  BY DEF IsSeq
<1>4. DOMAIN proof' = 1 .. Len(proof) + 1
  BY <1>1, SeqOfElements DEF IsExtended
<1>5. proof'[Len(proof) + 1].what # "cell"
  BY <1>1 DEF IsExtended
<1> QED  BY <1>2, <1>3, <1>4, <1>5 DEF NoCells

LEMMA NoneSent ==
  ASSUME NoCells
  PROVE  \A i : SentCells(i) = {}
BY DEF NoCells, SentCells

\* What the decommitment of layer i adds.
LEMMA LayerSent ==
  ASSUME Numbers, NEW i \in InnerLayers, queries \in IndexChoices, IsSeq(proof),
         params' = params, queries' = queries, proof' = proof \o OpenedLayer(i),
         SentCells(i) = {}
  PROVE  /\ OpenedExactly(i)'
         /\ \A h : h # i => /\ SentCells(h)' = SentCells(h)
                            /\ OpenedExactly(h) => OpenedExactly(h)'
<1>1. PICK cells, u, n, m : /\ cells = DataInOrder(queries, i) /\ u = OpenedLayer(i)
                            /\ n = Len(proof) /\ m = Len(cells)
  OBVIOUS
<1>2. /\ ListsCells(cells, DataQueries(queries, i), i)
      /\ IsSeq(u) /\ Len(u) = m + 1
      /\ \A k \in 1 .. m : u[k] =
           Message("cell", i, cells[k], Committed(i)[PlaceInLayer(cells[k], i)])
      /\ u[m + 1] = Message("authentication", i, <<>>, Bytes)
  BY <1>1, OpenedFacts
<1>3. /\ \A k \in 1 .. m : u[k].what = "cell" /\ u[k].layer_num = i /\ u[k].cell = cells[k]
      /\ u[m + 1].what # "cell"
  <2>1. PICK none : none = <<>>
    OBVIOUS
  <2>2. u[m + 1] = Message("authentication", i, none, Bytes)
    BY <1>2, <2>1
  <2>3. u[m + 1].what # "cell"
    BY <2>2, MessageFields
  <2> QED  BY <1>2, <2>3, MessageFields
<1>4. IsConcat(proof', proof, u)
  BY <1>1, <1>2, ConcatFacts
<1>5. n \in Nat /\ m \in Nat /\ DOMAIN proof = 1 .. n
  BY <1>1, <1>2, SeqOfElements DEF IsSeq, ListsCells
<1>6. /\ DOMAIN proof' = 1 .. n + (m + 1)
      /\ \A k \in 1 .. n : proof'[k] = proof[k]
      /\ \A k \in 1 .. m + 1 : proof'[n + k] = u[k]
  BY <1>1, <1>2, <1>4, SeqOfElements DEF IsConcat
<1>7. \A k \in 1 .. n + (m + 1) : \/ k \in 1 .. n
                                  \/ k - n \in 1 .. m /\ k = n + (k - n)
                                  \/ k = n + (m + 1)
  BY <1>5
<1>8. /\ \A k \in 1 .. n : k \in 1 .. n + (m + 1)
      /\ \A k \in 1 .. m : n + k \in 1 .. n + (m + 1) /\ k \in 1 .. m + 1
      /\ m + 1 \in 1 .. m + 1
  BY <1>5
<1>9. \A k \in DOMAIN proof' : \/ k \in 1 .. n /\ proof'[k] = proof[k]
                              \/ (\E j \in 1 .. m : k = n + j /\ proof'[k] = u[j])
                              \/ proof'[k].what # "cell"
  <2> SUFFICES ASSUME NEW k \in 1 .. n + (m + 1)
               PROVE  \/ k \in 1 .. n /\ proof'[k] = proof[k]
                      \/ (\E j \in 1 .. m : k = n + j /\ proof'[k] = u[j])
                      \/ proof'[k].what # "cell"
    BY <1>6
  <2>1. CASE k \in 1 .. n
    BY <1>6, <2>1
  <2>2. CASE k - n \in 1 .. m /\ k = n + (k - n)
    <3>1. PICK j : j = k - n
      OBVIOUS
    <3>2. j \in 1 .. m /\ k = n + j
      BY <2>2, <3>1
    <3> QED  BY <1>6, <1>8, <3>2
  <2>3. CASE k = n + (m + 1)
    BY <1>3, <1>6, <1>8, <2>3
  <2> QED  BY <1>7, <2>1, <2>2, <2>3
<1>10. \A k \in 1 .. n : k \in DOMAIN proof'
  BY <1>6, <1>8
<1>11. \A h : h # i => SentCells(h)' = SentCells(h)
  <2> SUFFICES ASSUME NEW h, h # i  PROVE SentCells(h)' = SentCells(h)
    OBVIOUS
  <2>1. ASSUME NEW k \in SentCells(h)'  PROVE k \in SentCells(h)
    <3>1. k \in DOMAIN proof' /\ proof'[k].what = "cell" /\ proof'[k].layer_num = h
      BY <2>1 DEF SentCells
    <3>2. k \in 1 .. n /\ proof'[k] = proof[k]
      BY <1>3, <1>9, <3>1
    <3> QED  BY <1>5, <3>1, <3>2 DEF SentCells
  <2>2. ASSUME NEW k \in SentCells(h)  PROVE k \in SentCells(h)'
    BY <1>5, <1>6, <1>10, <2>2 DEF SentCells
  <2> QED  BY <2>1, <2>2
<1>12. \A h : h # i => (OpenedExactly(h) => OpenedExactly(h)')
  <2> SUFFICES ASSUME NEW h, h # i, OpenedExactly(h)  PROVE OpenedExactly(h)'
    OBVIOUS
  <2>1. SentCells(h)' = SentCells(h) /\ \A k \in SentCells(h) : proof'[k] = proof[k]
    BY <1>5, <1>6, <1>11 DEF SentCells
  <2>2. PICK S, D : S = SentCells(h) /\ D = DataQueries(queries, h)
    OBVIOUS
  <2>3. SentCells(h)' = S /\ DataQueries(queries, h)' = D /\ \A k \in S : proof'[k] = proof[k]
    BY <2>1, <2>2, DataSame
  <2>4. /\ \A k \in S : proof[k].cell \in D
        /\ \A cell \in D : \E k \in S : proof[k].cell = cell
        /\ \A j, k \in S : proof[j].cell = proof[k].cell => j = k
    BY <2>2 DEF OpenedExactly
  <2>5. \A k \in S : proof'[k].cell \in D
    BY <2>3, <2>4
  <2>7. ASSUME NEW j \in S, NEW k \in S, proof'[j].cell = proof'[k].cell  PROVE j = k
    <3>1. proof'[j] = proof[j] /\ proof'[k] = proof[k]
      BY <2>3
    <3> QED  BY <2>4, <2>7, <3>1
  <2>6. ASSUME NEW cell \in D  PROVE \E k \in S : proof'[k].cell = cell
    <3>1. PICK k \in S : proof[k].cell = cell
      BY <2>4
    <3> QED  BY <2>3, <3>1
  <2> QED  BY <2>3, <2>5, <2>6, <2>7 DEF OpenedExactly
<1>13. SentCells(i)' = {n + j : j \in 1 .. m}
  <2>1. ASSUME NEW k \in SentCells(i)'  PROVE k \in {n + j : j \in 1 .. m}
    <3>1. k \in DOMAIN proof' /\ proof'[k].what = "cell" /\ proof'[k].layer_num = i
      BY <2>1 DEF SentCells
    <3>2. ~(k \in 1 .. n /\ proof'[k] = proof[k])
      BY <1>5, <3>1 DEF SentCells
    <3> QED  BY <1>9, <3>1, <3>2
  <2>2. ASSUME NEW j \in 1 .. m  PROVE n + j \in SentCells(i)'
    <3>1. n + j \in DOMAIN proof' /\ proof'[n + j] = u[j]
      BY <1>6, <1>8
    <3>2. proof'[n + j].what = "cell" /\ proof'[n + j].layer_num = i
      BY <1>3, <3>1
    <3> QED  BY <3>1, <3>2 DEF SentCells
  <2> QED  BY <2>1, <2>2
<1>14. \A j \in 1 .. m : proof'[n + j].cell = cells[j]
  BY <1>3, <1>6, <1>8
<1>15. OpenedExactly(i)'
  <2>1. DataQueries(queries, i)' = DataQueries(queries, i)
    BY DataSame
  <2>2. /\ \A k \in 1 .. m : cells[k] \in DataQueries(queries, i)
        /\ \A cell \in DataQueries(queries, i) : \E k \in 1 .. m : cells[k] = cell
    BY <1>1, <1>2 DEF ListsCells
  <2>3. ASSUME NEW j \in 1 .. m, NEW k \in 1 .. m, cells[j] = cells[k]  PROVE j = k
    <3>1. /\ cells[j] \in LayerCells(i) /\ cells[k] \in LayerCells(i)
          /\ j < k => PlaceInLayer(cells[j], i) < PlaceInLayer(cells[k], i)
          /\ k < j => PlaceInLayer(cells[k], i) < PlaceInLayer(cells[j], i)
      BY <1>1, <1>2, <2>2, DataQueriesFacts DEF ListsCells
    <3>2. PICK x : x = PlaceInLayer(cells[j], i)
      OBVIOUS
    <3>3. x = PlaceInLayer(cells[k], i) /\ x \in 0 .. LayerSize(i) - 1
      BY <2>3, <3>1, <3>2, CellFacts
    <3>4. ~(j < k) /\ ~(k < j)
      <4>1. ~(x < x)
        BY <3>3
      <4> QED  BY <3>1, <3>2, <3>3, <4>1
    <3> QED  BY <1>5, <3>4
  <2>4. ASSUME NEW k \in SentCells(i)'  PROVE proof'[k].cell \in DataQueries(queries, i)
    <3>1. PICK j \in 1 .. m : k = n + j
      BY <1>13
    <3>2. proof'[k].cell = cells[j]
      BY <1>14, <3>1
    <3> QED  BY <2>2, <3>2
  <2>5. ASSUME NEW cell \in DataQueries(queries, i)
        PROVE  \E k \in SentCells(i)' : proof'[k].cell = cell
    <3>1. PICK j \in 1 .. m : cells[j] = cell
      BY <2>2
    <3>2. n + j \in SentCells(i)' /\ proof'[n + j].cell = cell
      BY <1>13, <1>14, <3>1
    <3> QED  BY <3>2
  <2>6. ASSUME NEW a \in SentCells(i)', NEW b \in SentCells(i)', proof'[a].cell = proof'[b].cell
        PROVE  a = b
    <3>1. PICK j, k : j \in 1 .. m /\ k \in 1 .. m /\ a = n + j /\ b = n + k
      BY <1>13, <2>6
    <3> QED  BY <1>14, <2>3, <2>6, <3>1
  <2> QED  BY <2>1, <2>4, <2>5, <2>6 DEF OpenedExactly
<1> QED  BY <1>11, <1>12, <1>15

\* The last message of a layer's decommitment says which layer comes next.
LEMMA OpenedLast ==
  ASSUME Numbers, NEW i \in InnerLayers, queries \in IndexChoices, IsSeq(proof),
         proof' = proof \o OpenedLayer(i)
  PROVE  LayerAfter(Header(Last(proof'))) = i + 1
<1>1. PICK u, m, none : /\ u = OpenedLayer(i) /\ none = <<>>
                        /\ m = Message("authentication", i, none, Bytes)
  OBVIOUS
<1>2. IsSeq(u) /\ Len(u) \in Nat \ {0} /\ u[Len(u)] = m
  <2>1. PICK cells : cells = DataInOrder(queries, i)
    OBVIOUS
  <2>2. /\ ListsCells(cells, DataQueries(queries, i), i)
        /\ IsSeq(u) /\ Len(u) = Len(cells) + 1 /\ u[Len(cells) + 1] = m
    BY <1>1, <2>1, OpenedFacts
  <2>3. Len(cells) \in Nat
    BY <2>2 DEF ListsCells, IsSeq
  <2> QED  BY <2>2, <2>3
<1>3. IsConcat(proof', proof, u)
  BY <1>1, <1>2, ConcatFacts
<1>4. Last(proof') = m
  <2>1. Len(u) \in 1 .. Len(u)
    BY <1>2
  <2> QED  BY <1>2, <1>3, <2>1 DEF IsConcat, Last
<1> QED  BY <1>1, <1>4, MessageFields DEF LayerAfter, Header

LEMMA NextOpened ==
  ASSUME Structure, OpenedSoFar, [Next]_vars
  PROVE  OpenedSoFar'
<1>1. CASE CommitLayer
  <2>1. /\ stage = "commitment" /\ stage' = "commitment" /\ IsSeq(proof) /\ NoCells
        /\ \/ proof' = proof
           \/ proof' = Append(proof, Message("commitment", Len(layers), <<>>, Bytes))
    BY <1>1, StagesApart DEF CommitLayer, Structure, ProofGrows, OpenedSoFar
  <2>2. NoCells'
    <3>1. CASE proof' = proof
      BY <2>1, <3>1 DEF NoCells
    <3>2. CASE proof' # proof
      <4>1. PICK m : m.what = "commitment" /\ proof' = Append(proof, m)
        BY <2>1, <3>2, MessageFields
      <4> QED  BY <2>1, <4>1, NoCellSent
    <3> QED  BY <3>1, <3>2
  <2> QED  BY <2>1, <2>2, StagesApart DEF OpenedSoFar
<1>2. CASE SendLastLayer
  <2>1. /\ stage = "commitment" /\ Len(layers) = n_layers + 1 /\ layers' = layers
        /\ IsSeq(proof) /\ NoCells /\ params' = params
        /\ stage' \in {"query", "last layer's degree too high"}
        /\ \/ proof' = proof
           \/ proof' = Append(proof, Message("coefficients", n_layers, <<>>, Last(layers)))
    BY <1>2, StagesApart DEF SendLastLayer, ProverOnly, Structure, ProofGrows, OpenedSoFar
  <2>2. NoCells'
    <3>1. CASE proof' = proof
      BY <2>1, <3>1 DEF NoCells
    <3>2. CASE proof' # proof
      <4>1. PICK m : m = Message("coefficients", n_layers, <<>>, Last(layers))
        OBVIOUS
      <4>2. m.what = "coefficients"
        BY <4>1, MessageFields
      <4>3. proof' = Append(proof, m)
        BY <2>1, <3>2, <4>1
      <4> QED  BY <2>1, <4>2, <4>3, NoCellSent
    <3> QED  BY <3>1, <3>2
  <2>3. Len(layers') = n_layers' + 1
    BY <2>1, SameNumbers
  <2>4. stage' \in Proving /\ stage' # "decommitment"
    BY <2>1, StagesApart
  <2> QED  BY <2>2, <2>3, <2>4 DEF OpenedSoFar
<1>3. CASE ProverChooseQueryIndices
  <2>1. /\ stage = "query" /\ stage' = "decommitment" /\ layers' = layers /\ params' = params
        /\ IsSeq(proof) /\ Len(proof) = n_layers /\ proof[n_layers].what = "coefficients"
        /\ Len(layers) = n_layers + 1 /\ NoCells /\ Numbers
        /\ proof' = IF params.proof_of_work_bits = 0 THEN proof
                    ELSE Append(proof, Message("nonce", 0, <<>>, Bytes))
    BY <1>3, StagesApart, RightNumbers
       DEF ProverChooseQueryIndices, ProverOnly, Structure, ProofGrows, OpenedSoFar
  <2>2. NoCells' /\ LayerAfter(Header(Last(proof'))) = 1
    <3>1. CASE params.proof_of_work_bits = 0
      <4>1. proof' = proof /\ Last(proof') = proof[n_layers]
        BY <2>1, <3>1 DEF Last
      <4> QED  BY <2>1, <4>1 DEF LayerAfter, Header, NoCells
    <3>2. CASE params.proof_of_work_bits # 0
      <4>1. PICK m : m.what = "nonce" /\ proof' = Append(proof, m)
        BY <2>1, <3>2, MessageFields
      <4>2. IsExtended(proof', proof, m)
        BY <2>1, <4>1, AppendFacts
      <4>3. Last(proof') = m
        BY <4>2 DEF IsExtended, Last
      <4>4. LayerAfter(Header(Last(proof'))) = 1
        BY <4>1, <4>3 DEF LayerAfter, Header
      <4> QED  BY <2>1, <4>1, <4>4, NoCellSent
    <3> QED  BY <3>1, <3>2
  <2>3. \A i \in InnerLayers' : ~(i < 1) /\ SentCells(i)' = {}
    <3>1. \A i \in InnerLayers' : ~(i < 1)
      <4>1. InnerLayers' = 1 .. n_layers - 1
        BY <2>1, SameNumbers DEF InnerLayers
      <4> QED  BY <4>1
    <3>2. \A i : SentCells(i)' = {}
      BY <2>2 DEF NoCells, SentCells
    <3> QED  BY <3>1, <3>2
  <2>4. Len(layers') = n_layers' + 1
    BY <2>1, SameNumbers
  <2> QED  BY <2>1, <2>2, <2>3, <2>4, StagesApart DEF OpenedSoFar
<1>4. CASE DecommitLayer
  <2>1. PICK i : /\ i = LayerAfter(Header(Last(proof)))
                 /\ stage = "decommitment"
                 /\ IF i = n_layers THEN stage' = "proved" /\ proof' = proof
                    ELSE proof' = proof \o OpenedLayer(i) /\ stage' = stage
                 /\ params' = params /\ layers' = layers /\ queries' = queries
    BY <1>4 DEF DecommitLayer, ProverOnly
  <2>2. /\ Numbers /\ IsSeq(proof) /\ queries \in IndexChoices /\ i \in 1 .. n_layers
        /\ Len(layers) = n_layers + 1
    BY <2>1, RightNumbers, StagesApart DEF Structure, ProofGrows, OpenedSoFar
  <2>3. /\ InnerLayers' = InnerLayers /\ Len(layers') = n_layers' + 1
        /\ \A h \in InnerLayers : IF h < i THEN OpenedExactly(h) ELSE SentCells(h) = {}
    BY <2>1, <2>2, SameNumbers DEF OpenedSoFar
  <2>4. CASE i = n_layers
    <3>1. \A h \in InnerLayers : h < i
      <4>1. \A n \in Nat : \A h \in 1 .. n - 1 : h < n
        OBVIOUS
      <4> QED  BY <2>2, <2>4, <4>1 DEF InnerLayers, Numbers
    <3>2. \A h \in InnerLayers' : OpenedExactly(h)'
      BY <2>1, <2>3, <2>4, <3>1, OpenedSame
    <3> QED  BY <2>1, <2>3, <2>4, <3>2, StagesApart DEF OpenedSoFar
  <2>5. CASE i # n_layers
    <3>1. i \in InnerLayers /\ ~(i < i) /\ n_layers \in Nat
      <4>1. \A n \in Nat \ {0} : \A k \in 1 .. n : k # n => k \in 1 .. n - 1 /\ ~(k < k)
        OBVIOUS
      <4> QED  BY <2>2, <2>5, <4>1 DEF InnerLayers, Numbers
    <3>2. /\ OpenedExactly(i)'
          /\ \A h : h # i => /\ SentCells(h)' = SentCells(h)
                             /\ OpenedExactly(h) => OpenedExactly(h)'
      <4>1. SentCells(i) = {}
        BY <2>3, <3>1
      <4> QED  BY <2>1, <2>2, <2>5, <3>1, <4>1, LayerSent
    <3>3. LayerAfter(Header(Last(proof'))) = i + 1
      BY <2>1, <2>2, <2>5, <3>1, OpenedLast
    <3>4. ASSUME NEW h \in InnerLayers
          PROVE  IF h < i + 1 THEN OpenedExactly(h)' ELSE SentCells(h)' = {}
      <4>1. \A k \in 1 .. n_layers - 1 : /\ k < i + 1 <=> k < i \/ k = i
                                         /\ ~(k < i + 1) => k # i
        BY <3>1 DEF InnerLayers
      <4>2. (h < i + 1 <=> h < i \/ h = i) /\ (~(h < i + 1) => h # i)
        BY <4>1 DEF InnerLayers
      <4> QED  BY <2>3, <3>2, <4>2
    <3> QED  BY <2>1, <2>3, <2>5, <3>3, <3>4, StagesApart DEF OpenedSoFar
  <2> QED  BY <2>4, <2>5
<1>5. CASE \/ Deliver \/ ReadLayerCommitment \/ ReadLastLayerCoefficients
           \/ VerifierChooseQueryIndices \/ VerifyFirstLayer \/ VerifyInnerLayer
           \/ VerifyLastLayer
  <2>1. /\ proverVars' = proverVars
        /\ stage \in {"proved", "verifying", "choosing", "first layer", "inner layers",
                      "last layer"}
        /\ stage' \in {"verifying", "choosing", "first layer", "inner layers", "last layer",
                       "accepted"} \cup Rejections
    BY <1>5 DEF Deliver, ReadLayerCommitment, ReadLastLayerCoefficients,
                VerifierChooseQueryIndices, VerifyFirstLayer, VerifyInnerLayer,
                VerifyLastLayer, VerifierOnly, Rejections
  <2>2. /\ stage \notin Proving \cup {"decommitment"} /\ stage # "commitment"
        /\ stage' \notin Proving \cup {"decommitment"} /\ stage' # "commitment"
    BY <2>1 DEF Proving, Rejections
  <2>3. params' = params /\ layers' = layers /\ queries' = queries /\ proof' = proof
    BY <2>1 DEF proverVars
  <2>4. InnerLayers' = InnerLayers /\ n_layers' = n_layers
    BY <2>3, SameNumbers
  <2> QED  BY <2>2, <2>3, <2>4, OpenedSame DEF OpenedSoFar
<1>6. CASE vars' = vars
  <2>1. /\ params' = params /\ layers' = layers /\ queries' = queries /\ proof' = proof
        /\ stage' = stage
    BY <1>6 DEF vars, proverVars
  <2>2. InnerLayers' = InnerLayers /\ n_layers' = n_layers
    BY <2>1, SameNumbers
  <2>3. NoCells' = NoCells /\ LayerAfter(Header(Last(proof')))= LayerAfter(Header(Last(proof)))
    BY <2>1 DEF NoCells
  <2> QED  BY <2>1, <2>2, <2>3, OpenedSame DEF OpenedSoFar
<1> QED  BY <1>1, <1>2, <1>3, <1>4, <1>5, <1>6 DEF Next

\* The places of the queries in a layer, and of all the cosets that given places are in.
QueryPlaces(indices, i) == {IndexInLayer(q, i) : q \in Range(indices)}

CosetsOf(places, i) ==
  {k \in 0 .. LayerSize(i) - 1 : k \div CosetSize(i) \in {c \div CosetSize(i) : c \in places}}

\* The places of the cells to send: of the cosets that the queries pass, those that are not
\* on a query.
LEMMA DataPlaces ==
  ASSUME Numbers, NEW i \in InnerLayers, NEW indices \in IndexChoices
  PROVE  {PlaceInLayer(cell, i) : cell \in DataQueries(indices, i)}
           = CosetsOf(QueryPlaces(indices, i), i) \ QueryPlaces(indices, i)
<1>0. PICK computed, cosets : /\ computed = {IndexInLayer(q, i) : q \in Range(indices)}
                              /\ cosets = {k \in 0 .. LayerSize(i) - 1 :
                                   k \div CosetSize(i) \in {c \div CosetSize(i) : c \in computed}}
  OBVIOUS
<1>1. PICK c : c = CosetSize(i)
  OBVIOUS
<1>2. ASSUME NEW cell \in DataQueries(indices, i)
      PROVE  PlaceInLayer(cell, i) \in cosets \ computed
  <2>1. cell \in LayerCells(i)
    BY DataQueriesFacts
  <2>2. PICK x : x = PlaceInLayer(cell, i)
    OBVIOUS
  <2>3. x \in 0 .. LayerSize(i) - 1 /\ GetTableProverRowCol(x, FriStep(i)) = cell
    BY <2>1, <2>2, CellFacts
  <2>4. cell[1] = x \div c
    BY <1>1, <2>3, PlaceCell
  <2>5. PICK q \in Range(indices) :
          cell[1] = GetTableProverRow(IndexInLayer(q, i), FriStep(i))
    BY DEF DataQueries
  <2>6. q \in 0 .. LayerSize(1) - 1
    BY ChoiceFacts
  <2>7. IndexInLayer(q, i) \div c = x \div c
    BY <1>1, <2>4, <2>5 DEF GetTableProverRow, CosetSize
  <2>8. x \notin computed
    <3>1. ASSUME NEW p \in Range(indices), x = IndexInLayer(p, i)  PROVE FALSE
      <4>1. cell = IndexCell(p, i)
        BY <2>3, <3>1 DEF IndexCell
      <4> QED  BY <4>1, DataQueriesFacts
    <3> QED  BY <1>0, <3>1
  <2> QED  BY <1>0, <1>1, <2>2, <2>3, <2>7, <2>8
<1>3. ASSUME NEW k \in cosets \ computed
      PROVE  \E cell \in DataQueries(indices, i) : k = PlaceInLayer(cell, i)
  <2>1. PICK q \in Range(indices) : k \div c = IndexInLayer(q, i) \div c
    BY <1>0, <1>1
  <2>2. q \in 0 .. LayerSize(1) - 1
    BY ChoiceFacts
  <2>3. k \in 0 .. LayerSize(i) - 1
    BY <1>0
  <2>4. PICK cell : cell = GetTableProverRowCol(k, FriStep(i))
    OBVIOUS
  <2>5. cell \in LayerCells(i) /\ cell = <<k \div c, k % c>> /\ PlaceInLayer(cell, i) = k
    BY <1>1, <2>3, <2>4, PlaceCell
  <2>6. k \div c = IndexInLayer(q, i + 1)
    BY <1>1, <2>1, <2>2, IndexCellFacts DEF GetTableProverRow, CosetSize
  <2>7. k % c \in 0 .. c - 1
    <3>1. cell[2] \in 0 .. c - 1
      BY <1>1, <2>5 DEF LayerCells
    <3> QED  BY <2>5, <3>1
  <2>8. \/ cell \in DataQueries(indices, i)
        \/ \E p \in Range(indices) : cell = IndexCell(p, i)
    BY <1>1, <2>5, <2>6, <2>7, DataQueriesFacts
  <2>9. ASSUME NEW p \in Range(indices), cell = IndexCell(p, i)  PROVE FALSE
    <3>1. p \in 0 .. LayerSize(1) - 1
      BY ChoiceFacts
    <3>2. k = IndexInLayer(p, i)
      BY <2>5, <2>9, <3>1, IndexCellFacts
    <3> QED  BY <1>0, <3>2
  <2> QED  BY <2>5, <2>8, <2>9
<1> QED  BY <1>0, <1>2, <1>3 DEF QueryPlaces, CosetsOf

\* The first layer's queries are the cosets of the second layer's: in every later layer
\* they have the same indices.
LEMMA ComputedIndices ==
  ASSUME Numbers, NEW i \in InnerLayers, NEW indices \in IndexChoices
  PROVE  {q \div Pow2[StepsBefore(i)] : q \in Range(FirstLayerQueries(indices))}
           = QueryPlaces(indices, i)
<1>1. PICK f, a, n, N : f = FirstLayerQueries(indices) /\ a = CosetSize(0)
                     /\ n = params.n_queries /\ N = LayerSize(0)
  OBVIOUS
<1>2. AsksCosets(f, indices, n, a, N)
  BY <1>1, FirstLayerFacts
<1>3. PICK b, d : b = Pow2[StepsBefore(i) - FriStep(0)] /\ d = Pow2[StepsBefore(i)]
  OBVIOUS
<1>4. a \in Nat \ {0} /\ b \in Nat \ {0} /\ d = a * b
  <2>1. /\ StepsBefore(i) \in 0 .. LogDomainSize /\ FriStep(0) \in Nat
        /\ FriStep(0) <= StepsBefore(i) /\ LogDomainSize \in 0 .. MaxHeight
    BY InnerNumbers DEF Numbers
  <2>2. PICK s, t, h : s = StepsBefore(i) /\ t = FriStep(0) /\ h = s - t
    OBVIOUS
  <2>3. MaxHeight \in Nat
    BY FriAssumption
  <2>4. h \in Nat /\ t \in Nat /\ s = t + h /\ t \in 0 .. MaxHeight /\ h \in 0 .. MaxHeight
        /\ t + h <= MaxHeight
    BY <2>1, <2>2, <2>3
  <2>5. a = Pow2[t] /\ b = Pow2[h] /\ d = Pow2[t + h]
    BY <1>1, <1>3, <2>2, <2>4 DEF CosetSize
  <2>6. a \in Nat \ {0} /\ b \in Nat \ {0}
    BY <1>1, <1>3, SizeFacts, InnerNumbers
  <2> QED  BY <2>3, <2>4, <2>5, <2>6, Pow2Powers, PowersProduct
<1>5. \A q \in Range(indices) : q \in Nat /\ IndexInLayer(q, i) = q \div b
  <2>1. \A q \in Range(indices) : q \in 0 .. LayerSize(1) - 1
    BY ChoiceFacts
  <2> QED  BY <1>3, <2>1 DEF IndexInLayer
<1>6. \A q \in Nat, k \in 0 .. a - 1 :
        (q * a + k) \div a = q => (q * a + k) \div d = q \div b
  <2> SUFFICES ASSUME NEW q \in Nat, NEW k \in 0 .. a - 1, (q * a + k) \div a = q
               PROVE  (q * a + k) \div d = q \div b
    OBVIOUS
  <2>1. PICK x : x = q * a + k
    OBVIOUS
  <2>2. x \in Nat
    <3>1. q * a \in Nat
      BY <1>4
    <3> QED  BY <1>4, <2>1, <3>1
  <2>3. (x \div a) \div b = x \div d
    BY <1>4, <2>2, QuotientTwice
  <2> QED  BY <2>1, <2>3
<1>7. /\ IsSeq(indices) /\ DOMAIN indices = 1 .. n
      /\ \A j \in 1 .. n : indices[j] \in Range(indices)
      /\ \A q \in Range(indices) : \E j \in 1 .. n : q = indices[j]
  BY <1>1, ChoiceFacts
<1>8. ASSUME NEW p \in Range(f)  PROVE \E q \in Range(indices) : p \div d = IndexInLayer(q, i)
  <2>1. PICK h \in 1 .. n * a : p = f[h]
    BY <1>2 DEF Range, AsksCosets
  <2>2. PICK j \in 1 .. n, k \in 0 .. a - 1 : p = indices[j] * a + k
    BY <1>2, <2>1 DEF AsksCosets
  <2>3. (indices[j] * a + k) \div a = indices[j]
    BY <1>2, <2>2 DEF AsksCosets
  <2> QED  BY <1>5, <1>6, <1>7, <2>2, <2>3
<1>9. ASSUME NEW q \in Range(indices)  PROVE \E p \in Range(f) : p \div d = IndexInLayer(q, i)
  <2>1. PICK j \in 1 .. n : q = indices[j]
    BY <1>7
  <2>2. 0 \in 0 .. a - 1
    BY <1>4
  <2>3. PICK h : h = (((j - 1) * a) + 1) + 0
    OBVIOUS
  <2>4. h \in 1 .. n * a /\ f[h] = q * a + 0 /\ (q * a + 0) \div a = q
    BY <1>2, <2>1, <2>2, <2>3 DEF AsksCosets
  <2>5. f[h] \in Range(f)
    BY <1>2, <2>4 DEF Range, AsksCosets
  <2> QED  BY <1>5, <1>6, <2>2, <2>4, <2>5
<1> QED  BY <1>1, <1>3, <1>8, <1>9 DEF QueryPlaces

LEMMA OpenedInvariant == Spec => []OpenedSoFar
<1>1. Init => OpenedSoFar
  <2> SUFFICES ASSUME Init  PROVE OpenedSoFar
    OBVIOUS
  <2>1. PICK none : none = <<>>
    OBVIOUS
  <2>2. stage = "commitment" /\ proof = none
    BY <2>1 DEF Init
  <2>3. DOMAIN none = {}
    BY <2>1
  <2> QED  BY <2>2, <2>3, StagesApart DEF OpenedSoFar, NoCells
<1>2. Structure /\ OpenedSoFar /\ [Next]_vars => OpenedSoFar'
  BY NextOpened
<1> QED  BY <1>1, <1>2, FriStructure, PTL DEF Spec

\* OpenedOnce for all parameters and queries: a turn of the decommitment sends the data
\* queries of its layer, in increasing places and so once, and of no other.
THEOREM SentOnce == Spec => []OpenedOnce
<1>1. Structure /\ OpenedSoFar => OpenedOnce
  <2> SUFFICES ASSUME Structure, OpenedSoFar, stage \in {"proved", "verifying", "accepted"},
                      NEW i \in 1 .. n_layers - 1
               PROVE  LET sent == {k \in DOMAIN proof : /\ proof[k].what = "cell"
                                                        /\ proof[k].layer_num = i}
                          place(k) == PlaceInLayer(proof[k].cell, i)
                          computed == {q \div Pow2[StepsBefore(i)] :
                                         q \in Range(FirstLayerQueries(queries))}
                          cosets == {k \in DOMAIN layers[i + 1] :
                            k \div CosetSize(i) \in {c \div CosetSize(i) : c \in computed}}
                      IN  /\ {place(k) : k \in sent} = cosets \ computed
                          /\ Cardinality(sent) = Cardinality(cosets \ computed)
    BY DEF OpenedOnce
  <2> DEFINE sent == {k \in DOMAIN proof : proof[k].what = "cell" /\ proof[k].layer_num = i}
             computed == {q \div Pow2[StepsBefore(i)] : q \in Range(FirstLayerQueries(queries))}
             cosets == {k \in DOMAIN layers[i + 1] :
                          k \div CosetSize(i) \in {c \div CosetSize(i) : c \in computed}}
  <2>1. /\ Numbers /\ IsSeq(proof) /\ queries \in IndexChoices /\ i \in InnerLayers
        /\ LayersShaped /\ Len(layers) = n_layers + 1 /\ OpenedExactly(i)
    <3>1. stage \notin Proving \cup {"decommitment"} /\ stage # "commitment"
      BY DEF Proving
    <3> QED  BY <3>1, RightNumbers DEF Structure, ProofGrows, OpenedSoFar, InnerLayers
  <2>2. DOMAIN layers[i + 1] = 0 .. LayerSize(i) - 1
    <3>1. i + 1 \in 1 .. n_layers + 1 /\ (i + 1) - 1 = i
      BY <2>1, InnerNumbers
    <3> QED  BY <2>1, <3>1 DEF LayersShaped
  <2>3. computed = QueryPlaces(queries, i)
    BY <2>1, ComputedIndices
  <2> HIDE DEF computed
  <2>4. cosets = CosetsOf(computed, i)
    BY <2>2 DEF CosetsOf
  <2> HIDE DEF cosets
  <2>5. {PlaceInLayer(cell, i) : cell \in DataQueries(queries, i)} = cosets \ computed
    BY <2>1, <2>3, <2>4, DataPlaces
  <2>6. PICK D : D = DataQueries(queries, i)
    OBVIOUS
  <2>7. /\ \A k \in sent : proof[k].cell \in D
        /\ \A cell \in D : \E k \in sent : proof[k].cell = cell
        /\ \A j, k \in sent : proof[j].cell = proof[k].cell => j = k
    BY <2>1, <2>6 DEF OpenedExactly, SentCells
  <2>8. PICK open : open = cosets \ computed
    OBVIOUS
  <2>9. /\ \A k \in sent : PlaceInLayer(proof[k].cell, i) \in open
        /\ \A x \in open : \E k \in sent : PlaceInLayer(proof[k].cell, i) = x
    <3>1. ASSUME NEW x \in open  PROVE \E k \in sent : PlaceInLayer(proof[k].cell, i) = x
      <4>1. PICK cell \in D : PlaceInLayer(cell, i) = x
        BY <2>5, <2>6, <2>8
      <4>2. PICK k \in sent : proof[k].cell = cell
        BY <2>7
      <4> QED  BY <4>1, <4>2
    <3> QED  BY <2>5, <2>6, <2>7, <2>8, <3>1
  <2>10. \A j, k \in sent :
          PlaceInLayer(proof[j].cell, i) = PlaceInLayer(proof[k].cell, i) => j = k
    <3> SUFFICES ASSUME NEW j \in sent, NEW k \in sent,
                        PlaceInLayer(proof[j].cell, i) = PlaceInLayer(proof[k].cell, i)
                 PROVE  j = k
      OBVIOUS
    <3>1. proof[j].cell \in LayerCells(i) /\ proof[k].cell \in LayerCells(i)
      BY <2>1, <2>6, <2>7, DataQueriesFacts
    <3>2. proof[j].cell = proof[k].cell
      <4>1. /\ GetTableProverRowCol(PlaceInLayer(proof[j].cell, i), FriStep(i)) = proof[j].cell
            /\ GetTableProverRowCol(PlaceInLayer(proof[k].cell, i), FriStep(i)) = proof[k].cell
        BY <2>1, <3>1, CellFacts
      <4> QED  BY <4>1
    <3> QED  BY <2>7, <3>2
  <2>11. PICK place : place = [k \in sent |-> PlaceInLayer(proof[k].cell, i)]
    OBVIOUS
  <2>12. place \in Bijection(sent, open)
    <3>1. place \in [sent -> open]
      BY <2>9, <2>11
    <3>2. \A j, k \in sent : place[j] = place[k] => j = k
      BY <2>10, <2>11
    <3>3. \A x \in open : \E k \in sent : place[k] = x
      BY <2>9, <2>11
    <3> QED  BY <3>1, <3>2, <3>3 DEF Bijection, Injection, Surjection, IsInjective
  <2>13. IsFiniteSet(sent)
    <3>1. DOMAIN proof = 1 .. Len(proof) /\ Len(proof) \in Int
      BY <2>1, SeqOfElements DEF IsSeq
    <3>2. IsFiniteSet(1 .. Len(proof))
      BY <3>1, FS_Interval
    <3> QED  BY <3>1, <3>2, FS_Subset
  <2>14. Cardinality(open) = Cardinality(sent)
    BY <2>12, <2>13, FS_Bijection DEF ExistsBijection
  <2>15. {PlaceInLayer(proof[k].cell, i) : k \in sent} = open
    BY <2>9
  <2> QED  BY <2>8, <2>14, <2>15 DEF computed, cosets
<1> QED  BY <1>1, FriStructure, OpenedInvariant, PTL

-----------------------------------------------------------------------------
(* Reversing the bits of an even index: its lowest bit becomes the highest,*)
(* which is nought.                                                        *)

\* How BitReverse is computed.
LEMMA BitsFacts ==
  ASSUME NEW n, NEW bits \in Nat
  PROVE  \E f : Bits(f, n, bits) /\ BitReverse(n, bits) = f[bits].reversed
<1> DEFINE P(f) == BitsDefined(f, n, bits)
           g == CHOOSE f : P(f)
<1>1. P(g)
  <2>1. \E f : P(f)
    BY BitsExist
  <2> HIDE DEF P
  <2> QED  BY <2>1
<1>2. BitReverse(n, bits) = g[bits].reversed
  BY DEF BitReverse, NextBit, NoBits, BitsDefined
<1> HIDE DEF g
<1>3. \A k \in 0 .. bits : g[k] = IF k = 0 THEN NoBits(n) ELSE NextBit(g[k - 1])
  BY <1>1 DEF BitsDefined
<1>4. 0 \in 0 .. bits /\ \A k \in 1 .. bits : k \in 0 .. bits /\ k # 0
  OBVIOUS
<1>5. Bits(g, n, bits)
  BY <1>3, <1>4 DEF Bits
<1> QED  BY <1>2, <1>5

LEMMA ReverseEven ==
  ASSUME NEW m \in Nat, NEW bits \in Nat
  PROVE  BitReverse(2 * m, bits + 1) = BitReverse(m, bits)
<1>1. PICK f : Bits(f, 2 * m, bits + 1) /\ BitReverse(2 * m, bits + 1) = f[bits + 1].reversed
  BY BitsFacts
<1>2. PICK g : Bits(g, m, bits) /\ BitReverse(m, bits) = g[bits].reversed
  BY BitsFacts
<1>3. f[1] = g[0]
  <2>1. f[1] = NextBit(NoBits(2 * m))
    <3>1. 1 \in 1 .. bits + 1 /\ 1 - 1 = 0
      OBVIOUS
    <3> QED  BY <1>1, <3>1 DEF Bits
  <2>2. NextBit(NoBits(2 * m)) = NoBits(m)
    <3>1. 2 * 0 + ((2 * m) % 2) = 0 /\ (2 * m) \div 2 = m
      OBVIOUS
    <3> QED  BY <3>1 DEF NextBit, NoBits
  <2> QED  BY <1>2, <2>1, <2>2 DEF Bits
<1> DEFINE S == {k \in 0 .. bits : f[k + 1] # g[k]}
<1>4. S = {}
  <2>1. SUFFICES ASSUME S # {}  PROVE FALSE
    OBVIOUS
  <2>2. PICK k \in S : \A h \in S : k <= h
    <3>1. S \in SUBSET Nat
      OBVIOUS
    <3> HIDE DEF S
    <3> QED  BY <2>1, <3>1, LeastOf
  <2>3. k \in 1 .. bits /\ k + 1 \in 1 .. bits + 1 /\ (k + 1) - 1 = k /\ (k - 1) + 1 = k
        /\ k - 1 \in 0 .. bits /\ k - 1 \notin S
    BY <1>3, <2>2
  <2>4. f[k] = g[k - 1]
    BY <2>3
  <2>5. f[k + 1] = NextBit(f[k]) /\ g[k] = NextBit(g[k - 1])
    BY <1>1, <1>2, <2>3 DEF Bits
  <2> QED  BY <2>2, <2>4, <2>5
<1> QED  BY <1>1, <1>2, <1>4

-----------------------------------------------------------------------------
(* The verifier's folds of a coset are the prover's of the layer.          *)

\* After h folds: the coset's values are the layer's from place x 2^(step - h) on.
SameFolds(h, f, g, x, i) ==
  /\ g[h].index = x * Pow2[FriStep(i) - h]
  /\ \A k \in 0 .. Pow2[FriStep(i) - h] - 1 :
       g[h].values[k] = f[h].values[x * Pow2[FriStep(i) - h] + k]
  /\ FriStep(i) # 0 => g[h].eval_point = f[h].eval_point

LEMMA SameFoldsNext ==
  ASSUME Numbers, NEW i \in 0 .. n_layers - 1, NEW x \in 0 .. LayerSize(i + 1) - 1,
         NEW values, NEW elements, NEW pt, NEW v_pt, NEW f, NEW g,
         Proxies(f, values, pt, i), Halvings(g, elements, v_pt, x * CosetSize(i), i),
         NEW h \in 1 .. FriStep(i), SameFolds(h - 1, f, g, x, i)
  PROVE  SameFolds(h, f, g, x, i)
<1>1. PICK s, log, d, before : /\ s = FriStep(i) /\ log = LogDomainSize - StepsBefore(i)
                               /\ d = Pow2[s - h] /\ before = StepsBefore(i)
  OBVIOUS
<1>2. /\ s \in Nat /\ before \in 0 .. LogDomainSize /\ before + s \in 0 .. LogDomainSize
      /\ LogDomainSize \in 0 .. MaxHeight /\ MaxHeight \in Nat /\ StepsBefore(i + 1) = before + s
  <2>1. n_layers \in Nat \ {0} /\ MaxHeight \in Nat
    BY FriAssumption DEF Numbers
  <2>2. i \in 0 .. n_layers /\ i + 1 \in 0 .. n_layers
    BY <2>1
  <2>3. StepsBefore(i + 1) \in 0 .. LogDomainSize /\ StepsBefore(i + 1) = before + s
    BY <1>1, <2>2 DEF Numbers
  <2> QED  BY <1>1, <2>1, <2>2, <2>3 DEF Numbers
<1>3. /\ h \in 1 .. s /\ log \in 0 .. MaxHeight /\ s <= log
      /\ LogDomainSize - StepsBefore(i + 1) = log - s
      /\ LogDomainSize - StepsBefore(i) - (h - 1) = log - (h - 1)
  BY <1>1, <1>2
<1>4. /\ s - h \in 0 .. MaxHeight /\ s - (h - 1) \in 1 .. MaxHeight
      /\ (s - (h - 1)) - 1 = s - h
      /\ log - s \in 0 .. MaxHeight /\ log - h \in 0 .. MaxHeight
      /\ (log - h) + 1 = log - (h - 1) /\ (log - (h - 1)) - 1 = log - h
      /\ s - h <= log - h /\ (log - h) - (s - h) = log - s
  BY <1>2, <1>3
<1>5. /\ d \in Nat \ {0} /\ Pow2[s - (h - 1)] = 2 * d
      /\ d * Pow2[log - s] = Pow2[log - h] /\ Pow2[log - s] \in Nat \ {0}
  <2>1. d \in Nat \ {0} /\ Pow2[log - s] \in Nat \ {0}
    BY <1>1, <1>4, Pow2Powers, PowersFacts
  <2>2. Pow2[s - (h - 1)] = 2 * d
    BY <1>1, <1>4, Pow2Powers, PowersFacts
  <2>3. d * Pow2[log - s] = Pow2[log - h]
    BY <1>1, <1>4, Pow2Powers, PowersProduct
  <2> QED  BY <2>1, <2>2, <2>3
<1>6. PICK rows : rows = Pow2[log - s]
  OBVIOUS
<1>7. x \in 0 .. rows - 1
  BY <1>3, <1>6 DEF LayerSize, GetLayerDomainSize
<1>8. PICK cur_f, cur_g : cur_f = f[h - 1] /\ cur_g = g[h - 1]
  OBVIOUS
<1>9. f[h] = NextProxy(cur_f, i, h) /\ g[h] = NextHalving(cur_g, i, h)
  BY <1>8 DEF Proxies, Halvings
<1>10. /\ cur_g.index = x * (2 * d)
       /\ \A k \in 0 .. 2 * d - 1 : cur_g.values[k] = cur_f.values[x * (2 * d) + k]
       /\ cur_g.eval_point = cur_f.eval_point
  <2>1. s # 0
    BY <1>3
  <2> QED  BY <1>1, <1>5, <1>8, <2>1 DEF SameFolds
<1>11. PICK point : point = cur_f.eval_point
  OBVIOUS
<1>12. /\ f[h].values = ComputeNextFriLayer(cur_f.values, log - (h - 1), point)
       /\ f[h].eval_point = Squared(point)
  BY <1>3, <1>9, <1>11 DEF NextProxy
<1>13. \A j \in 0 .. Pow2[log - h] - 1 : f[h].values[j] =
         Fold(cur_f.values[2 * j], cur_f.values[2 * j + 1], point,
              CosetElement(log - (h - 1), BitReverse(j, log - h)))
  BY <1>4, <1>12 DEF ComputeNextFriLayer
<1>14. \A k \in 0 .. d - 1 : g[h].values[k] =
         Fold(cur_g.values[2 * k], cur_g.values[2 * k + 1], point,
              AtBitReversed(log - (h - 1), x * (2 * d) + 2 * k))
  BY <1>1, <1>3, <1>9, <1>10, <1>11 DEF NextHalving
<1>15. g[h].eval_point = Squared(point) /\ g[h].index = NextIndex(x * (2 * d))
  BY <1>9, <1>10, <1>11 DEF NextHalving
<1>16. NextIndex(x * (2 * d)) = x * d
  <2>1. PICK y : y = x * d
    OBVIOUS
  <2>2. x * (2 * d) = 2 * y /\ y \in Nat
    BY <1>5, <1>7, <2>1
  <2>3. (2 * y) \div 2 = y
    BY <2>2
  <2> QED  BY <2>1, <2>2, <2>3 DEF NextIndex
<1>17. ASSUME NEW k \in 0 .. d - 1
       PROVE  g[h].values[k] = f[h].values[x * d + k]
  <2>1. PICK y, j : y = x * d /\ j = y + k
    OBVIOUS
  <2>2. /\ y \in Nat /\ j \in Nat /\ x * (2 * d) + 2 * k = 2 * j
        /\ x * (2 * d) + (2 * k + 1) = 2 * j + 1
        /\ 2 * k \in 0 .. 2 * d - 1 /\ 2 * k + 1 \in 0 .. 2 * d - 1
    <3>1. y \in Nat /\ x * (2 * d) = 2 * y
      BY <1>5, <1>7, <2>1
    <3> QED  BY <1>5, <2>1, <3>1
  <2>3. j \in 0 .. d * rows - 1
    <3>1. x * d + k \in 0 .. rows * d - 1
      BY <1>5, <1>6, <1>7, GroupPlace
    <3>2. rows * d = d * rows
      BY <1>5, <1>6
    <3> QED  BY <2>1, <3>1, <3>2
  <2>4. f[h].values[j] = Fold(cur_f.values[2 * j], cur_f.values[2 * j + 1], point,
                              CosetElement(log - (h - 1), BitReverse(j, log - h)))
    BY <1>5, <1>6, <1>13, <2>3
  <2>5. AtBitReversed(log - (h - 1), 2 * j) = CosetElement(log - (h - 1), BitReverse(j, log - h))
    <3>1. BitReverse(2 * j, (log - h) + 1) = BitReverse(j, log - h)
      BY <1>4, <2>2, ReverseEven
    <3> QED  BY <1>4, <3>1 DEF AtBitReversed
  <2>6. /\ cur_g.values[2 * k] = cur_f.values[2 * j]
        /\ cur_g.values[2 * k + 1] = cur_f.values[2 * j + 1]
    BY <1>10, <2>2
  <2>7. g[h].values[k] = Fold(cur_g.values[2 * k], cur_g.values[2 * k + 1], point,
                              AtBitReversed(log - (h - 1), 2 * j))
    BY <1>14, <2>2
  <2> QED  BY <2>1, <2>4, <2>5, <2>6, <2>7
<1> QED  BY <1>1, <1>12, <1>15, <1>16, <1>17 DEF SameFolds

\* ApplyFriLayers of a coset is the element of CreateNextFriLayer that it folds to.
LEMMA FoldOfCoset ==
  ASSUME Numbers, NEW i \in 0 .. n_layers - 1, NEW x \in 0 .. LayerSize(i + 1) - 1,
         NEW values, NEW pt, NEW v_pt, FriStep(i) # 0 => v_pt = pt,
         NEW elements, elements = [k \in 0 .. CosetSize(i) - 1 |-> values[x * CosetSize(i) + k]]
  PROVE  ApplyFriLayers(elements, v_pt, i, x * CosetSize(i)) = CreateNextFriLayer(values, i, pt)[x]
<1>1. PICK s, c : s = FriStep(i) /\ c = CosetSize(i)
  OBVIOUS
<1>2. s \in Nat /\ c = Pow2[s]
  BY <1>1 DEF Numbers, CosetSize
<1>3. PICK f : Proxies(f, values, pt, i) /\ CreateNextFriLayer(values, i, pt) = f[s].values
  BY <1>1, <1>2, ProxiesFacts
<1>4. PICK g : /\ Halvings(g, elements, v_pt, x * c, i)
               /\ ApplyFriLayers(elements, v_pt, i, x * c) = g[s].values[0]
  <2>1. FriStep(i) \in Nat
    BY <1>1, <1>2
  <2>2. PICK first : first = x * c
    OBVIOUS
  <2>3. PICK g : /\ Halvings(g, elements, v_pt, first, i)
                 /\ ApplyFriLayers(elements, v_pt, i, first) = g[FriStep(i)].values[0]
    BY <2>1, HalvingsFacts
  <2> QED  BY <1>1, <2>2, <2>3
<1>5. SameFolds(0, f, g, x, i)
  <2>1. s - 0 = s
    BY <1>2
  <2>2. f[0] = FirstProxy(values, pt) /\ g[0] = FirstHalving(elements, v_pt, x * c)
    BY <1>3, <1>4 DEF Proxies, Halvings
  <2>3. /\ f[0].values = values /\ f[0].eval_point = pt
        /\ g[0].values = elements /\ g[0].eval_point = v_pt /\ g[0].index = x * c
    BY <2>2 DEF FirstProxy, FirstHalving
  <2>4. \A k \in 0 .. c - 1 : elements[k] = values[x * c + k]
    BY <1>1
  <2>5. Pow2[FriStep(i) - 0] = c
    BY <1>1, <1>2, <2>1
  <2>6. \A k \in 0 .. c - 1 : g[0].values[k] = f[0].values[x * c + k]
    BY <2>3, <2>4
  <2>7. FriStep(i) # 0 => g[0].eval_point = f[0].eval_point
    BY <2>3
  <2> QED  BY <2>3, <2>5, <2>6, <2>7 DEF SameFolds
<1> DEFINE S == {h \in 0 .. s : ~SameFolds(h, f, g, x, i)}
<1>6. S = {}
  <2>1. SUFFICES ASSUME S # {}  PROVE FALSE
    OBVIOUS
  <2>2. PICK h \in S : \A k \in S : h <= k
    <3>1. S \in SUBSET Nat
      BY <1>2
    <3> HIDE DEF S
    <3> QED  BY <2>1, <3>1, LeastOf
  <2>3. h # 0
    BY <1>5, <2>2
  <2>4. h \in 1 .. s /\ h - 1 \in 0 .. s /\ h - 1 \notin S
    BY <1>2, <2>2, <2>3
  <2>5. SameFolds(h - 1, f, g, x, i)
    BY <2>4
  <2>6. SameFolds(h, f, g, x, i)
    BY <1>1, <1>3, <1>4, <2>4, <2>5, SameFoldsNext
  <2> QED  BY <2>2, <2>6
<1>7. SameFolds(s, f, g, x, i)
  BY <1>2, <1>6
<1>8. Pow2[0] = 1 /\ s - s = 0 /\ 0 \in 0 .. 1 - 1
  BY <1>2, Pow2Powers, PowersFacts
<1>9. x \in Nat /\ x * 1 + 0 = x
  <2>1. LayerSize(i + 1) \in Nat
    <3>1. i + 1 \in 0 .. n_layers
      BY DEF Numbers
    <3> QED  BY <3>1, SizeFacts
  <2> QED  BY <2>1
<1>10. g[s].values[0] = f[s].values[x]
  <2>1. g[s].values[0] = f[s].values[x * 1 + 0]
    BY <1>1, <1>7, <1>8 DEF SameFolds
  <2> QED  BY <1>9, <2>1
<1> QED  BY <1>1, <1>3, <1>4, <1>10

\* The verifier computes what the prover committed to, whatever the values are: for every
\* list of steps, layer and coset, ApplyFriLayers of a coset, with the index of its first
\* element, is the element of CreateNextFriLayer that the coset folds to.
THEOREM FoldsAgree ==
  ASSUME params \in Requests, FromJson(params), NEW i \in 0 .. n_layers - 1,
         NEW x \in 0 .. LayerSize(i + 1) - 1, NEW values, NEW pt
  PROVE  ApplyFriLayers([k \in 0 .. CosetSize(i) - 1 |-> values[x * CosetSize(i) + k]], pt,
                        i, x * CosetSize(i))
           = CreateNextFriLayer(values, i, pt)[x]
<1>1. Numbers
  BY RightNumbers DEF RightParams
<1> QED  BY <1>1, FoldOfCoset

-----------------------------------------------------------------------------
(* A proof that is neither altered nor flawed is accepted.                 *)

\* The first layer's point is drawn if the first step folds at all.
FirstDraws == IF FriStep(0) = 0 THEN 0 ELSE 1

\* Length of a transcript when layer i's point has been drawn, and after so many turns of
\* the commitment phase.
DrawPlace(i) == 2 * i + FirstDraws

LogLength(turns) ==
  IF turns = 0 THEN 0
  ELSE IF turns < n_layers THEN DrawPlace(turns - 1) + 1 ELSE DrawPlace(n_layers - 1)

\* The beginning of the prover's transcript.
Until(l) == [p \in 1 .. l |-> transcript[p]]

PointDrawn(i) == i # 0 \/ FriStep(0) # 0

LastPlace == DrawPlace(n_layers - 1)

\* What turn i of the commitment phase left.
TurnTaken(i) ==
  /\ PointDrawn(i) => transcript[DrawPlace(i)] = <<"point", 0>>
  /\ i < n_layers - 1 => transcript[DrawPlace(i) + 1] = <<"commitment", i + 1>>
  /\ layers[i + 2] = CreateNextFriLayer(layers[i + 1], i, Drawn(Until(DrawPlace(i))))

TranscriptGrows ==
  /\ IsSeq(transcript)
  /\ stage = "commitment" => Len(transcript) = LogLength(Len(layers) - 1)
  /\ stage = "query" => Len(transcript) = LastPlace + 1
  /\ stage \notin Proving =>
       Len(transcript) = IF params.proof_of_work_bits = 0 THEN LastPlace + 1 ELSE LastPlace + 2
  /\ \A i \in 0 .. Len(layers) - 2 : TurnTaken(i)
  /\ stage \notin Proving \/ stage = "query" =>
       transcript[LastPlace + 1] = <<"coefficients", n_layers>>
  /\ stage \notin Proving /\ params.proof_of_work_bits # 0 =>
       transcript[LastPlace + 2] = <<"nonce", 0>>

\* Message p ends the header or the decommitment of a layer.
EndsPart(p) == p = HeaderMessages \/ proof[p].what = "authentication"

NextPart(p) == LayerAfter(Header(proof[p]))

\* After message p comes what was opened of layer i.
Follows(p, i) ==
  /\ i \in InnerLayers
  /\ p + Len(OpenedLayer(i)) <= Len(proof)
  /\ \A k \in 1 .. Len(OpenedLayer(i)) : proof[p + k] = OpenedLayer(i)[k]

Continues(p) == Follows(p, NextPart(p))

ProofComplete ==
  /\ stage \notin Proving \/ stage = "query" => proof[n_layers].value = layers[n_layers + 1]
  /\ stage \notin Proving => proof[HeaderMessages].what # "authentication"
  /\ stage \notin Proving =>
       \A p \in HeaderMessages .. Len(proof) : EndsPart(p) =>
         IF p = Len(proof) THEN stage # "decommitment" => NextPart(p) = n_layers
                           ELSE Continues(p)

Undamaged == Intact /\ damage.first_layer = {} /\ flaw = <<0, 0>>

ResultsRight(i) ==
  \A j \in 1 .. params.n_queries :
    query_results[j] = layers[i + 1][IndexInLayer(query_indices[j], i)]

SamePoints ==
  \A i \in 0 .. Len(eval_points) - 1 :
    PointDrawn(i) => eval_points[i + 1] = Drawn(Until(DrawPlace(i)))

SameLast ==
  /\ Len(eval_points) = n_layers
  /\ \A k \in 0 .. LayerSize(n_layers) - 1 : expected_last_layer[k] = layers[n_layers + 1][k]

VerifierRight ==
  /\ stage \notin Rejections
  /\ IsSeq(v_transcript) /\ SamePoints
  /\ stage \in {"verifying", "choosing"} =>
       /\ Len(v_transcript) <= Len(transcript)
       /\ \A p \in 1 .. Len(v_transcript) : v_transcript[p] = transcript[p]
  /\ stage = "verifying" => Len(v_transcript) = LogLength(Len(eval_points))
  /\ stage = "choosing" => Len(v_transcript) = LastPlace + 1 /\ SameLast
  /\ stage \in {"first layer"} \cup Folding => query_indices = queries /\ SameLast
  /\ stage = "inner layers" =>
       /\ ResultsRight(CurrentLayer)
       /\ Len(reads) \in HeaderMessages .. Len(proof)
       /\ EndsPart(Len(reads)) /\ NextPart(Len(reads)) = CurrentLayer
  /\ stage = "last layer" => ResultsRight(n_layers)
  /\ stage \in {"last layer", "accepted"} => Len(reads) = Len(proof)

RightSoFar ==
  /\ TranscriptGrows /\ ProofComplete
  /\ stage \in Proving \cup {"decommitment", "proved"} => v_transcript = <<>>
  /\ Undamaged => VerifierRight

\* Only the first step may be nought.
LEMMA StepsFold ==
  ASSUME RightParams
  PROVE  \A i \in 0 .. n_layers - 1 : PointDrawn(i) <=> FriStep(i) # 0
<1>1. /\ \A i \in DOMAIN params.fri_step_list :
           params.fri_step_list[i] > 0 \/ i = 1
      /\ params.fri_step_list \in Seq(Nat)
  BY FriAssumption DEF RightParams, FromJson, RequestType
<1>2. PICK s, n : s = params.fri_step_list /\ n = n_layers
  OBVIOUS
<1>3. DOMAIN s = 1 .. n /\ n \in Nat
  BY <1>1, <1>2 DEF n_layers, fri_step_list
<1>4. ASSUME NEW i \in 0 .. n - 1, i # 0  PROVE FriStep(i) # 0
  <2>1. i + 1 \in 1 .. n /\ i + 1 # 1
    BY <1>3, <1>4
  <2>2. s[i + 1] > 0 /\ s[i + 1] \in Nat
    BY <1>1, <1>2, <1>3, <2>1
  <2>3. s[i + 1] # 0
    BY <2>2
  <2> QED  BY <1>2, <2>3 DEF FriStep, fri_step_list
<1> QED  BY <1>2, <1>4 DEF PointDrawn

\* Where the draws are in a transcript.
Places ==
  /\ n_layers \in Nat \ {0} /\ FirstDraws \in Nat
  /\ LogLength(0) = 0
  /\ \A i \in 0 .. n_layers - 1 :
       /\ DrawPlace(i) \in Nat /\ LogLength(i) \in Nat /\ DrawPlace(i) <= LastPlace
       /\ PointDrawn(i) => LogLength(i) + 1 = DrawPlace(i) /\ DrawPlace(i) # 0
       /\ ~PointDrawn(i) => LogLength(i) = DrawPlace(i)
  /\ \A i \in 0 .. n_layers - 1 : i # n_layers - 1 =>
       LogLength(i + 1) = DrawPlace(i) + 1 /\ DrawPlace(i) + 1 <= LastPlace
  /\ LogLength(n_layers) = LastPlace /\ LastPlace \in Nat
  /\ \A i \in 0 .. n_layers - 1, j \in 0 .. n_layers - 1 : j < i => DrawPlace(j) + 1 <= LogLength(i)

LEMMA PlaceFacts ==
  ASSUME Numbers
  PROVE  Places
<1>1. PICK n, b : n = n_layers /\ b = FirstDraws
  OBVIOUS
<1>2. n \in Nat \ {0} /\ b \in 0 .. 1 /\ (b = 0 <=> FriStep(0) = 0)
  BY <1>1 DEF Numbers, FirstDraws
<1>3. \A i : DrawPlace(i) = 2 * i + b /\ LastPlace = 2 * (n - 1) + b
  BY <1>1 DEF DrawPlace, LastPlace
<1>4. /\ LogLength(0) = 0
      /\ \A i \in 1 .. n - 1 : LogLength(i) = DrawPlace(i - 1) + 1
      /\ LogLength(n) = LastPlace
  <2>1. \A i \in 1 .. n - 1 : i # 0 /\ i < n
    BY <1>2
  <2>2. n # 0 /\ ~(n < n)
    BY <1>2
  <2> QED  BY <1>1, <2>1, <2>2 DEF LogLength, LastPlace
<1>5. \A i \in 1 .. n - 1 : LogLength(i) = (2 * (i - 1) + b) + 1
  BY <1>3, <1>4
<1>6. \A i \in 0 .. n - 1 : i = 0 \/ i \in 1 .. n - 1
  BY <1>2
<1>7. ASSUME NEW i \in 0 .. n - 1
      PROVE  /\ DrawPlace(i) \in Nat /\ LogLength(i) \in Nat /\ DrawPlace(i) <= LastPlace
             /\ PointDrawn(i) => LogLength(i) + 1 = DrawPlace(i) /\ DrawPlace(i) # 0
             /\ ~PointDrawn(i) => LogLength(i) = DrawPlace(i)
  <2>1. DrawPlace(i) \in Nat /\ DrawPlace(i) <= LastPlace
    BY <1>2, <1>3
  <2>2. CASE i = 0
    <3>1. DrawPlace(i) = b /\ LogLength(i) = 0
      BY <1>2, <1>3, <1>4, <2>2
    <3> QED  BY <1>2, <2>1, <2>2, <3>1 DEF PointDrawn
  <2>3. CASE i \in 1 .. n - 1
    <3>1. PointDrawn(i)
      BY <2>3 DEF PointDrawn
    <3>2. LogLength(i) = (2 * (i - 1) + b) + 1 /\ DrawPlace(i) = 2 * i + b
      BY <1>3, <1>5, <2>3
    <3>3. LogLength(i) + 1 = DrawPlace(i) /\ DrawPlace(i) # 0 /\ LogLength(i) \in Nat
      BY <1>2, <2>3, <3>2
    <3> QED  BY <2>1, <3>1, <3>3
  <2> QED  BY <1>6, <2>2, <2>3
<1>8. ASSUME NEW i \in 0 .. n - 1, i # n - 1
      PROVE  LogLength(i + 1) = DrawPlace(i) + 1 /\ DrawPlace(i) + 1 <= LastPlace
  <2>1. i + 1 \in 1 .. n - 1 /\ (i + 1) - 1 = i
    BY <1>2, <1>8
  <2>2. LogLength(i + 1) = DrawPlace(i) + 1
    BY <1>4, <2>1
  <2>3. (2 * i + b) + 1 <= 2 * (n - 1) + b
    BY <1>2, <2>1
  <2> QED  BY <1>3, <2>2, <2>3
<1>9. ASSUME NEW i \in 0 .. n - 1, NEW j \in 0 .. n - 1, j < i
      PROVE  DrawPlace(j) + 1 <= LogLength(i)
  <2>1. i \in 1 .. n - 1 /\ j <= i - 1
    BY <1>2, <1>9
  <2>2. LogLength(i) = (2 * (i - 1) + b) + 1 /\ DrawPlace(j) = 2 * j + b
    BY <1>3, <1>5, <2>1
  <2> QED  BY <1>2, <2>1, <2>2
<1>10. LastPlace \in Nat
  BY <1>2, <1>3
<1> QED  BY <1>1, <1>2, <1>4, <1>7, <1>8, <1>9, <1>10 DEF Places

LEMMA PlacesSame ==
  ASSUME params' = params
  PROVE  /\ LastPlace' = LastPlace /\ FirstDraws' = FirstDraws
         /\ \A i : /\ DrawPlace(i)' = DrawPlace(i) /\ LogLength(i)' = LogLength(i)
                   /\ PointDrawn(i)' = PointDrawn(i)
<1>1. n_layers' = n_layers /\ \A i : FriStep(i)' = FriStep(i)
  BY SameNumbers
<1>2. FirstDraws' = FirstDraws
  BY <1>1 DEF FirstDraws
<1>3. \A i : DrawPlace(i)' = DrawPlace(i)
  BY <1>2 DEF DrawPlace
<1>4. LastPlace' = LastPlace
  BY <1>1, <1>2 DEF LastPlace, DrawPlace
<1>5. \A i : LogLength(i)' = LogLength(i)
  BY <1>1, <1>2 DEF LogLength, DrawPlace
<1>6. \A i : PointDrawn(i)' = PointDrawn(i)
  BY <1>1 DEF PointDrawn
<1> QED  BY <1>2, <1>3, <1>4, <1>5, <1>6

LEMMA NextLayerSame ==
  ASSUME params' = params, NEW values, NEW i, NEW pt
  PROVE  CreateNextFriLayer(values, i, pt)' = CreateNextFriLayer(values, i, pt)
BY SMT DEF CreateNextFriLayer, LogDomainSize, StepsBefore, FriStep, fri_step_list

\* A turn that was taken stays so: transcripts and layers only grow.
LEMMA TurnStays ==
  ASSUME params' = params, NEW i, TurnTaken(i),
         NEW n, n = Len(transcript), n \in Nat,
         \A p \in 1 .. n : transcript'[p] = transcript[p],
         DrawPlace(i) \in Nat, PointDrawn(i) => DrawPlace(i) # 0, DrawPlace(i) <= n,
         i < n_layers - 1 => DrawPlace(i) + 1 <= n,
         layers'[i + 1] = layers[i + 1], layers'[i + 2] = layers[i + 2]
  PROVE  TurnTaken(i)'
<1>1. PICK place, pt, cur, nxt : /\ place = DrawPlace(i) /\ pt = Drawn(Until(place))
                                 /\ cur = layers[i + 1] /\ nxt = layers[i + 2]
  OBVIOUS
<1>2. /\ DrawPlace(i)' = place /\ PointDrawn(i)' = PointDrawn(i) /\ n_layers' = n_layers
      /\ cur = layers'[i + 1] /\ nxt = layers'[i + 2]
  BY <1>1, PlacesSame, SameNumbers
<1>3. PointDrawn(i) => transcript'[place] = <<"point", 0>>
  <2>1. PointDrawn(i) => place \in 1 .. n
    BY <1>1
  <2> QED  BY <1>1, <2>1 DEF TurnTaken
<1>4. i < n_layers - 1 => transcript'[place + 1] = <<"commitment", i + 1>>
  <2>1. i < n_layers - 1 => place + 1 \in 1 .. n
    BY <1>1
  <2> QED  BY <1>1, <2>1 DEF TurnTaken
<1>5. pt = Drawn([p \in 1 .. place |-> transcript'[p]])
  <2>1. \A p \in 1 .. place : p \in 1 .. n
    BY <1>1
  <2>2. [p \in 1 .. place |-> transcript'[p]] = [p \in 1 .. place |-> transcript[p]]
    BY <2>1
  <2> QED  BY <1>1, <2>2 DEF Until
<1>6. nxt = CreateNextFriLayer(cur, i, pt)
  BY <1>1 DEF TurnTaken
<1>7. nxt = CreateNextFriLayer(cur, i, pt)'
  BY <1>6, NextLayerSame
<1> QED  BY <1>2, <1>3, <1>4, <1>5, <1>7 DEF TurnTaken, Until

\* Before the verifier begins there is nothing to be right.
LEMMA NothingRead ==
  ASSUME v_transcript' = <<>>, eval_points' = <<>>,
         stage' \in Proving \cup {"decommitment", "proved"}
  PROVE  VerifierRight'
<1>1. IsSeq(v_transcript') /\ Len(eval_points') = 0
  BY NoElements
<1>2. SamePoints'
  BY <1>1 DEF SamePoints
<1>3. stage' \notin Rejections \cup {"verifying", "choosing", "first layer"} \cup Folding
  BY DEF Proving, Rejections, Folding
<1> QED  BY <1>1, <1>2, <1>3 DEF VerifierRight, Folding

DrawnAfter(drawn, log, i) ==
  /\ IsSeq(drawn) /\ Len(drawn) = DrawPlace(i)
  /\ \A p \in 1 .. Len(log) : drawn[p] = log[p]
  /\ PointDrawn(i) => drawn[DrawPlace(i)] = <<"point", 0>>
  /\ \A p \in 1 .. DrawPlace(i) :
       p \in 1 .. Len(log) \/ (p = DrawPlace(i) /\ PointDrawn(i))

\* A transcript after the draw of layer i's point, if there is one.
LEMMA PointAdded ==
  ASSUME Places, NEW i \in 0 .. n_layers - 1, NEW log, IsSeq(log), Len(log) = LogLength(i),
         NEW drawn, drawn = IF PointDrawn(i) THEN AfterDraw(log) ELSE log
  PROVE  DrawnAfter(drawn, log, i)
<1>1. CASE ~PointDrawn(i)
  <2>1. drawn = log /\ Len(log) = DrawPlace(i)
    BY <1>1 DEF Places
  <2> QED  BY <1>1, <2>1 DEF DrawnAfter
<1>2. CASE PointDrawn(i)
  <2>1. PICK e : e = <<"point", 0>>
    OBVIOUS
  <2>2. drawn = Append(log, e)
    BY <1>2, <2>1 DEF AfterDraw, Absorbed
  <2>3. IsExtended(drawn, log, e)
    BY <2>2, AppendFacts
  <2>4. PICK n : n = Len(log)
    OBVIOUS
  <2>5. n \in Nat /\ n + 1 = DrawPlace(i)
    BY <1>2, <2>4 DEF Places, IsSeq
  <2>6. \A p \in 1 .. n + 1 : p \in 1 .. n \/ p = n + 1
    BY <2>5
  <2> QED  BY <1>2, <2>1, <2>3, <2>4, <2>5, <2>6 DEF IsExtended, DrawnAfter
<1> QED  BY <1>1, <1>2

LEMMA CommitRight ==
  ASSUME Structure, OpenedSoFar, RightSoFar, CommitLayer
  PROVE  RightSoFar'
<1>1. PICK l, i : l = Len(layers) /\ i = l - 1
  OBVIOUS
<1>2. PICK log : log = IF FriStep(l - 1) = 0 THEN transcript ELSE AfterDraw(transcript)
  OBVIOUS
<1>3. /\ stage = "commitment" /\ stage' = "commitment" /\ l <= n_layers
      /\ layers' = Append(layers, CreateNextFriLayer(layers[l], i, Drawn(log)))
      /\ transcript' = IF l = n_layers THEN log ELSE Absorbed(log, "commitment", l)
      /\ params' = params /\ flaw' = flaw /\ damage' = damage /\ verifierVars' = verifierVars
  BY <1>1, <1>2 DEF CommitLayer, ProverOnly
<1>4. RightParams /\ Numbers /\ Places /\ LayersShaped
  BY RightNumbers, PlaceFacts DEF Structure
<1>5. /\ n_layers \in Nat \ {0} /\ l \in 1 .. n_layers /\ i \in 0 .. n_layers - 1
      /\ l = i + 1 /\ l - 2 = i - 1 /\ (i + 2) - 1 = l /\ l + 1 = i + 2
      /\ l = n_layers <=> i = n_layers - 1
  <2>1. n_layers \in Nat \ {0} /\ l \in 1 .. n_layers + 1
    BY <1>1, <1>4 DEF LayersShaped, Places
  <2> QED  BY <1>1, <1>3, <2>1
<1>6. /\ IsSeq(transcript) /\ Len(transcript) = LogLength(i)
      /\ \A j \in 0 .. i - 1 : TurnTaken(j)
  BY <1>1, <1>3, <1>5 DEF RightSoFar, TranscriptGrows
<1>7. log = IF PointDrawn(i) THEN AfterDraw(transcript) ELSE transcript
  BY <1>1, <1>2, <1>4, <1>5, StepsFold
<1>8. /\ IsSeq(log) /\ Len(log) = DrawPlace(i)
      /\ \A p \in 1 .. Len(transcript) : log[p] = transcript[p]
      /\ PointDrawn(i) => log[DrawPlace(i)] = <<"point", 0>>
      /\ \A p \in 1 .. DrawPlace(i) :
           p \in 1 .. Len(transcript) \/ (p = DrawPlace(i) /\ PointDrawn(i))
  <2>1. DrawnAfter(log, transcript, i)
    BY <1>4, <1>5, <1>6, <1>7, PointAdded
  <2> QED  BY <2>1 DEF DrawnAfter
<1>9. /\ IsSeq(transcript') /\ \A p \in 1 .. DrawPlace(i) : transcript'[p] = log[p]
      /\ Len(transcript') = LogLength(l)
      /\ i # n_layers - 1 => transcript'[DrawPlace(i) + 1] = <<"commitment", l>>
  <2>1. CASE i = n_layers - 1
    <3>1. LogLength(l) = LastPlace /\ DrawPlace(i) = LastPlace
      BY <1>4, <1>5, <2>1 DEF Places, LastPlace
    <3> QED  BY <1>3, <1>5, <1>8, <2>1, <3>1
  <2>2. CASE i # n_layers - 1
    <3>1. PICK e : e = <<"commitment", l>>
      OBVIOUS
    <3>2. transcript' = Append(log, e)
      BY <1>3, <1>5, <2>2, <3>1 DEF Absorbed
    <3>3. IsExtended(transcript', log, e)
      BY <1>8, <3>2, AppendFacts
    <3>4. LogLength(l) = DrawPlace(i) + 1
      BY <1>4, <1>5, <2>2 DEF Places
    <3> QED  BY <1>8, <3>1, <3>3, <3>4 DEF IsExtended
  <2> QED  BY <2>1, <2>2
<1>10. /\ Len(layers') = l + 1 /\ layers'[l + 1] = CreateNextFriLayer(layers[l], i, Drawn(log))
       /\ \A k \in 1 .. l : layers'[k] = layers[k]
  <2>1. PICK new : new = CreateNextFriLayer(layers[l], i, Drawn(log))
    OBVIOUS
  <2>2. IsExtended(layers', layers, new)
    BY <1>3, <1>4, <2>1, AppendFacts DEF LayersShaped
  <2> QED  BY <1>1, <2>1, <2>2 DEF IsExtended
<1>11. TurnTaken(i)'
  <2>1. PICK place, cur, nxt, pt : /\ place = DrawPlace(i) /\ cur = layers[l] /\ pt = Drawn(log)
                                   /\ nxt = layers'[l + 1]
    OBVIOUS
  <2>2. /\ DrawPlace(i)' = place /\ PointDrawn(i)' = PointDrawn(i) /\ n_layers' = n_layers
    BY <1>3, <2>1, PlacesSame, SameNumbers
  <2>3. cur = layers'[i + 1] /\ nxt = layers'[i + 2]
    <3>1. l \in 1 .. l
      BY <1>5
    <3> QED  BY <1>5, <1>10, <2>1, <3>1
  <2>4. pt = Drawn([p \in 1 .. place |-> transcript'[p]])
    <3>1. log = [p \in 1 .. place |-> log[p]]
      BY <1>8, <2>1 DEF IsSeq
    <3>2. log = [p \in 1 .. place |-> transcript'[p]]
      BY <1>9, <2>1, <3>1
    <3> QED  BY <2>1, <3>2
  <2>5. nxt = CreateNextFriLayer(cur, i, pt)'
    BY <1>3, <1>10, <2>1, NextLayerSame
  <2>6. PointDrawn(i) => transcript'[place] = <<"point", 0>>
    <3>1. PointDrawn(i) => place \in 1 .. place
      BY <1>4, <1>5, <2>1 DEF Places
    <3> QED  BY <1>8, <1>9, <2>1, <3>1
  <2>7. i < n_layers - 1 => transcript'[place + 1] = <<"commitment", i + 1>>
    <3>1. i < n_layers - 1 => i # n_layers - 1
      BY <1>5
    <3> QED  BY <1>5, <1>9, <2>1, <3>1
  <2> QED  BY <2>2, <2>3, <2>4, <2>5, <2>6, <2>7 DEF TurnTaken, Until
<1>12. ASSUME NEW j \in 0 .. i - 1  PROVE TurnTaken(j)'
  <2>1. /\ j \in 0 .. n_layers - 1 /\ j < i /\ j + 1 \in 1 .. l /\ j + 2 \in 1 .. l
        /\ LogLength(i) \in Nat
    BY <1>4, <1>5 DEF Places
  <2>2. DrawPlace(j) \in Nat /\ DrawPlace(j) + 1 <= LogLength(i)
        /\ (PointDrawn(j) => DrawPlace(j) # 0)
    BY <1>4, <1>5, <2>1 DEF Places
  <2>3. DrawPlace(j) <= LogLength(i)
    BY <2>1, <2>2
  <2>4. \A p \in 1 .. LogLength(i) : transcript'[p] = transcript[p]
    <3>1. LogLength(i) <= DrawPlace(i) /\ DrawPlace(i) \in Nat
      BY <1>4, <1>5 DEF Places
    <3>2. \A p \in 1 .. LogLength(i) : p \in 1 .. DrawPlace(i)
      BY <2>1, <3>1
    <3> QED  BY <1>6, <1>8, <1>9, <3>2
  <2> QED  BY <1>3, <1>6, <1>10, <1>12, <2>1, <2>2, <2>3, <2>4, TurnStays
<1>13. TranscriptGrows'
  <2>1. \A j \in 0 .. i : j \in 0 .. i - 1 \/ j = i
    BY <1>5
  <2>2. Len(layers') - 2 = i /\ Len(layers') - 1 = l
    BY <1>5, <1>10
  <2>3. \A j \in 0 .. Len(layers') - 2 : TurnTaken(j)'
    BY <1>11, <1>12, <2>1, <2>2
  <2>4. PICK turns : turns = Len(layers') - 1
    OBVIOUS
  <2>5. LogLength(turns)' = LogLength(turns)
    BY <1>3, PlacesSame
  <2>6. Len(transcript') = LogLength(turns)' /\ IsSeq(transcript')
    BY <1>9, <2>2, <2>4, <2>5
  <2>7. stage' \in Proving /\ stage' # "query"
    BY <1>3 DEF Proving
  <2> QED  BY <2>3, <2>4, <2>6, <2>7 DEF TranscriptGrows
<1>14. ProofComplete'
  <2>1. stage' \in Proving /\ stage' # "query"
    BY <1>3 DEF Proving
  <2> QED  BY <2>1 DEF ProofComplete
<1>15. v_transcript' = <<>> /\ eval_points' = <<>> /\ stage' \in Proving
  <2>1. stage \in Proving /\ stage' \in Proving /\ stage # "verifying"
    BY <1>3 DEF Proving
  <2>2. v_transcript = <<>> /\ eval_points = <<>>
    BY <1>3, <2>1, StagesApart DEF RightSoFar, Structure, VerifierReads
  <2> QED  BY <1>3, <2>1, <2>2 DEF verifierVars
<1>16. VerifierRight'
  BY <1>15, NothingRead
<1> QED  BY <1>13, <1>14, <1>15, <1>16 DEF RightSoFar

LEMMA AllLayers ==
  ASSUME OpenedSoFar, stage # "commitment", Numbers
  PROVE  Len(layers) = n_layers + 1 /\ Len(layers) - 2 = n_layers - 1
<1>1. \A n \in Nat : (n + 1) - 2 = n - 1
  OBVIOUS
<1>2. n_layers \in Nat /\ Len(layers) = n_layers + 1
  BY DEF Numbers, OpenedSoFar
<1> QED  BY <1>1, <1>2

LEMMA TurnsStay ==
  ASSUME Places, params' = params, layers' = layers, \A i \in 0 .. n_layers - 1 : TurnTaken(i),
         NEW n, n = Len(transcript), n \in Nat, LastPlace <= n,
         \A p \in 1 .. n : transcript'[p] = transcript[p]
  PROVE  \A i \in 0 .. n_layers - 1 : TurnTaken(i)'
<1> SUFFICES ASSUME NEW i \in 0 .. n_layers - 1  PROVE TurnTaken(i)'
  OBVIOUS
<1>1. /\ DrawPlace(i) \in Nat /\ (PointDrawn(i) => DrawPlace(i) # 0) /\ DrawPlace(i) <= LastPlace
      /\ i # n_layers - 1 => DrawPlace(i) + 1 <= LastPlace
      /\ LastPlace \in Nat
  BY DEF Places
<1>2. i < n_layers - 1 => i # n_layers - 1
  OBVIOUS
<1>3. DrawPlace(i) <= n /\ (i < n_layers - 1 => DrawPlace(i) + 1 <= n)
  BY <1>1, <1>2
<1> QED  BY <1>1, <1>3, TurnStays

\* The transcript and the proof when the last layer is sent.
LEMMA SendLastRight ==
  ASSUME Structure, OpenedSoFar, RightSoFar, SendLastLayer
  PROVE  RightSoFar'
<1>1. /\ stage = "commitment" /\ Len(layers) = n_layers + 1 /\ layers' = layers
      /\ \/ /\ stage' = "query"
            /\ transcript' = Append(transcript, <<"coefficients", n_layers>>)
            /\ proof' = Append(proof, Message("coefficients", n_layers, <<>>, Last(layers)))
         \/ /\ stage' = "last layer's degree too high"
            /\ transcript' = transcript /\ proof' = proof
      /\ params' = params /\ verifierVars' = verifierVars
  BY DEF SendLastLayer, ProverOnly, Absorbed
<1>2. Numbers /\ Places /\ n_layers \in Nat \ {0} /\ LastPlace \in Nat
  BY RightNumbers, PlaceFacts DEF Structure, Places
<1>3. Len(layers) - 1 = n_layers /\ Len(layers) - 2 = n_layers - 1
  <2>1. \A n \in Nat : (n + 1) - 1 = n /\ (n + 1) - 2 = n - 1
    OBVIOUS
  <2>2. n_layers \in Nat
    BY <1>2
  <2> QED  BY <1>1, <2>1, <2>2
<1>4. /\ IsSeq(transcript) /\ Len(transcript) = LastPlace
      /\ \A i \in 0 .. n_layers - 1 : TurnTaken(i)
  <2>1. Len(transcript) = LogLength(n_layers)
    BY <1>1, <1>3 DEF RightSoFar, TranscriptGrows
  <2> QED  BY <1>1, <1>2, <1>3, <2>1 DEF RightSoFar, TranscriptGrows, Places
<1>5. IsSeq(proof) /\ Len(proof) = n_layers - 1
  <2>1. Commitments(n_layers) = n_layers - 1
    BY <1>2 DEF Commitments
  <2> QED  BY <1>1, <1>3, <2>1 DEF Structure, ProofGrows
<1>6. /\ LastPlace' = LastPlace /\ n_layers' = n_layers /\ Len(layers') - 2 = n_layers - 1
  BY <1>1, <1>3, PlacesSame, SameNumbers
<1>7. /\ IsSeq(transcript') /\ \A p \in 1 .. LastPlace : transcript'[p] = transcript[p]
      /\ stage' = "query" => /\ Len(transcript') = LastPlace + 1
                             /\ transcript'[LastPlace + 1] = <<"coefficients", n_layers>>
  <2>1. CASE transcript' = transcript /\ stage' = "last layer's degree too high"
    BY <1>4, <2>1
  <2>2. CASE transcript' = Append(transcript, <<"coefficients", n_layers>>)
    <3>1. PICK e : e = <<"coefficients", n_layers>>
      OBVIOUS
    <3>2. IsExtended(transcript', transcript, e)
      BY <1>4, <2>2, <3>1, AppendFacts
    <3> QED  BY <1>4, <3>1, <3>2 DEF IsExtended
  <2> QED  BY <1>1, <2>1, <2>2
<1>8. \A i \in 0 .. n_layers - 1 : TurnTaken(i)'
  <2>1. LastPlace <= LastPlace
    BY <1>2
  <2> QED  BY <1>1, <1>2, <1>4, <1>7, <2>1, TurnsStay
<1>9. stage' \in Proving /\ stage' # "commitment"
  BY <1>1 DEF Proving
<1>10. TranscriptGrows'
  BY <1>6, <1>7, <1>8, <1>9 DEF TranscriptGrows
<1>11. stage' = "query" => proof'[n_layers].value = layers[n_layers + 1]
  <2>1. CASE stage' = "query"
    <3>1. PICK none, last, m : /\ none = <<>> /\ last = Last(layers)
                               /\ m = Message("coefficients", n_layers, none, last)
      OBVIOUS
    <3>2. m.value = last /\ last = layers[n_layers + 1]
      <4>1. m.value = last
        BY <3>1, MessageFields
      <4>2. last = layers[n_layers + 1]
        BY <1>1, <3>1 DEF Last
      <4> QED  BY <4>1, <4>2
    <3>3. IsExtended(proof', proof, m)
      <4>1. proof' = Append(proof, m)
        BY <1>1, <2>1, <3>1
      <4> QED  BY <1>5, <4>1, AppendFacts
    <3>4. Len(proof) + 1 = n_layers
      BY <1>2, <1>5
    <3> QED  BY <3>2, <3>3, <3>4 DEF IsExtended
  <2> QED  BY <2>1
<1>12. ProofComplete'
  BY <1>1, <1>6, <1>9, <1>11 DEF ProofComplete
<1>13. v_transcript' = <<>> /\ eval_points' = <<>>
  <2>1. stage \in Proving
    BY <1>1 DEF Proving
  <2>2. v_transcript = <<>> /\ eval_points = <<>>
    BY <2>1 DEF RightSoFar, Structure, VerifierReads
  <2> QED  BY <1>1, <2>2 DEF verifierVars
<1>14. VerifierRight'
  BY <1>9, <1>13, NothingRead
<1> QED  BY <1>10, <1>12, <1>13, <1>14 DEF RightSoFar

LEMMA ChooseRight ==
  ASSUME Structure, OpenedSoFar, RightSoFar, ProverChooseQueryIndices
  PROVE  RightSoFar'
<1>1. /\ stage = "query" /\ stage' = "decommitment" /\ layers' = layers
      /\ IF params.proof_of_work_bits = 0 THEN transcript' = transcript /\ proof' = proof
         ELSE /\ transcript' = Append(transcript, <<"nonce", 0>>)
              /\ proof' = Append(proof, Message("nonce", 0, <<>>, Bytes))
      /\ params' = params /\ verifierVars' = verifierVars
  BY DEF ProverChooseQueryIndices, ProverOnly, Absorbed
<1>2. Numbers /\ Places /\ n_layers \in Nat \ {0} /\ LastPlace \in Nat
  BY RightNumbers, PlaceFacts DEF Structure, Places
<1>3. Len(layers) = n_layers + 1 /\ Len(layers) - 2 = n_layers - 1
  BY <1>1, <1>2 DEF OpenedSoFar
<1>4. /\ IsSeq(transcript) /\ Len(transcript) = LastPlace + 1
      /\ transcript[LastPlace + 1] = <<"coefficients", n_layers>>
      /\ \A i \in 0 .. n_layers - 1 : TurnTaken(i)
  BY <1>1, <1>3 DEF RightSoFar, TranscriptGrows
<1>5. /\ IsSeq(proof) /\ Len(proof) = n_layers /\ proof[n_layers].what = "coefficients"
      /\ proof[n_layers].value = layers[n_layers + 1]
  BY <1>1 DEF Structure, ProofGrows, RightSoFar, ProofComplete
<1>6. /\ LastPlace' = LastPlace /\ n_layers' = n_layers /\ Len(layers') - 2 = n_layers - 1
      /\ HeaderMessages' = HeaderMessages
  BY <1>1, <1>3, PlacesSame, SameNumbers
<1>7. stage' \notin Proving
  BY <1>1, StagesApart
<1>8. PICK n : n = LastPlace + 1 /\ n \in Nat /\ LastPlace <= n /\ n \in 1 .. n
               /\ n + 1 = LastPlace + 2
  BY <1>2
<1>9. /\ IsSeq(transcript') /\ \A p \in 1 .. n : transcript'[p] = transcript[p]
      /\ params.proof_of_work_bits = 0 => Len(transcript') = n
      /\ params.proof_of_work_bits # 0 => /\ Len(transcript') = n + 1
                                          /\ transcript'[n + 1] = <<"nonce", 0>>
  <2>1. CASE params.proof_of_work_bits = 0
    BY <1>1, <1>4, <1>8, <2>1
  <2>2. CASE params.proof_of_work_bits # 0
    <3>1. PICK e : e = <<"nonce", 0>>
      OBVIOUS
    <3>2. IsExtended(transcript', transcript, e)
      BY <1>1, <1>4, <2>2, <3>1, AppendFacts
    <3> QED  BY <1>4, <1>8, <2>2, <3>1, <3>2 DEF IsExtended
  <2> QED  BY <2>1, <2>2
<1>10. \A i \in 0 .. n_layers - 1 : TurnTaken(i)'
  BY <1>1, <1>2, <1>4, <1>8, <1>9, TurnsStay
<1>11. TranscriptGrows'
  <2>1. transcript'[LastPlace + 1] = <<"coefficients", n_layers>>
    BY <1>4, <1>8, <1>9
  <2>2. Len(transcript') = IF params'.proof_of_work_bits = 0 THEN LastPlace' + 1
                           ELSE LastPlace' + 2
    BY <1>1, <1>6, <1>8, <1>9
  <2>3. params'.proof_of_work_bits # 0 => transcript'[LastPlace' + 2] = <<"nonce", 0>>
    BY <1>1, <1>6, <1>8, <1>9
  <2>4. stage' # "commitment" /\ stage' # "query"
    BY <1>1
  <2> QED  BY <1>6, <1>7, <1>9, <1>10, <2>1, <2>2, <2>3, <2>4 DEF TranscriptGrows
<1>12. /\ Len(proof') = HeaderMessages /\ proof'[n_layers].value = layers[n_layers + 1]
       /\ proof'[HeaderMessages].what # "authentication"
  <2>1. CASE params.proof_of_work_bits = 0
    <3>1. HeaderMessages = n_layers /\ proof' = proof
      BY <1>1, <1>2, <2>1, HeaderNumber
    <3> QED  BY <1>5, <3>1
  <2>2. CASE params.proof_of_work_bits # 0
    <3>1. PICK none, m : none = <<>> /\ m = Message("nonce", 0, none, Bytes)
      OBVIOUS
    <3>2. IsExtended(proof', proof, m) /\ m.what = "nonce"
      <4>1. proof' = Append(proof, m)
        BY <1>1, <2>2, <3>1
      <4>2. m.what = "nonce"
        BY <3>1, MessageFields
      <4> QED  BY <1>5, <4>1, <4>2, AppendFacts
    <3>3. HeaderMessages = n_layers + 1 /\ n_layers \in 1 .. n_layers
      BY <1>2, <2>2, HeaderNumber
    <3> QED  BY <1>5, <3>2, <3>3 DEF IsExtended
  <2> QED  BY <2>1, <2>2
<1>13. ProofComplete'
  <2>1. \A p \in HeaderMessages .. HeaderMessages : p = HeaderMessages
    BY <1>2, HeaderNumber
  <2>2. \A p \in HeaderMessages' .. Len(proof') : p = Len(proof')
    BY <1>6, <1>12, <2>1
  <2>3. proof'[n_layers'].value = layers'[n_layers' + 1]
    BY <1>1, <1>6, <1>12
  <2> QED  BY <1>1, <1>6, <1>12, <2>2, <2>3 DEF ProofComplete
<1>14. v_transcript' = <<>> /\ eval_points' = <<>>
  <2>1. stage \in Proving
    BY <1>1 DEF Proving
  <2>2. v_transcript = <<>> /\ eval_points = <<>>
    BY <2>1 DEF RightSoFar, Structure, VerifierReads
  <2> QED  BY <1>1, <2>2 DEF verifierVars
<1>15. VerifierRight'
  BY <1>1, <1>14, NothingRead
<1> QED  BY <1>11, <1>13, <1>14, <1>15 DEF RightSoFar

LEMMA OpenedLayerSame ==
  ASSUME params' = params, queries' = queries, layers' = layers, flaw' = flaw, NEW i
  PROVE  OpenedLayer(i)' = OpenedLayer(i)
<1>1. /\ FriStep(i)' = FriStep(i) /\ CosetSize(i)' = CosetSize(i)
      /\ DataQueries(queries, i)' = DataQueries(queries, i)
  BY SameNumbers, DataSame
<1>2. PICK D : D = DataQueries(queries, i)
  OBVIOUS
<1>3. \A cell : PlaceInLayer(cell, i)' = PlaceInLayer(cell, i)
  BY <1>1 DEF PlaceInLayer
<1>4. {PlaceInLayer(cell, i) : cell \in DataQueries(queries, i)}'
        = {PlaceInLayer(cell, i) : cell \in DataQueries(queries, i)}
  BY <1>1, <1>3
<1>5. DataInOrder(queries, i)' = DataInOrder(queries, i)
  BY <1>1, <1>4 DEF DataInOrder
<1>6. Committed(i)' = Committed(i)
  BY DEF Committed
<1> QED  BY <1>3, <1>5, <1>6 DEF OpenedLayer

\* What follows a message stays, as messages are only added.
LEMMA FollowsStays ==
  ASSUME params' = params, queries' = queries, layers' = layers, flaw' = flaw,
         NEW p \in Nat, NEW i, NEW n, n = Len(proof), n \in Nat, Len(proof') >= n,
         Len(proof') \in Nat, IsSeq(OpenedLayer(i)),
         \A k \in 1 .. n : proof'[k] = proof[k], Follows(p, i)
  PROVE  Follows(p, i)'
<1>1. PICK u, m : u = OpenedLayer(i) /\ m = Len(u)
  OBVIOUS
<1>2. u = OpenedLayer(i)' /\ m \in Nat /\ i \in InnerLayers'
  BY <1>1, OpenedLayerSame, SameNumbers DEF IsSeq, Follows
<1>3. p + m <= n /\ \A k \in 1 .. m : proof[p + k] = u[k]
  BY <1>1 DEF Follows
<1>4. \A k \in 1 .. m : p + k \in 1 .. n
  BY <1>2, <1>3
<1>5. p + m <= Len(proof')
  BY <1>2, <1>3
<1> QED  BY <1>1, <1>2, <1>3, <1>4, <1>5 DEF Follows

LEMMA ContinuesStays ==
  ASSUME Numbers, queries \in IndexChoices, params' = params, queries' = queries,
         layers' = layers, flaw' = flaw,
         NEW p \in Nat, NEW n, n = Len(proof), n \in Nat, Len(proof') >= n,
         Len(proof') \in Nat, p \in 1 .. n, \A k \in 1 .. n : proof'[k] = proof[k], Continues(p)
  PROVE  Continues(p)'
<1>1. PICK h : h = NextPart(p)
  OBVIOUS
<1>2. Follows(p, h)
  BY <1>1 DEF Continues
<1>3. IsSeq(OpenedLayer(h))
  BY <1>2, OpenedFacts DEF Follows
<1>4. Follows(p, h)'
  BY <1>2, <1>3, FollowsStays
<1>5. h = NextPart(p)'
  BY <1>1 DEF NextPart
<1> QED  BY <1>4, <1>5 DEF Continues, Follows

LEMMA DecommitRight ==
  ASSUME Structure, OpenedSoFar, RightSoFar, DecommitLayer
  PROVE  RightSoFar'
<1>1. PICK i : /\ i = LayerAfter(Header(Last(proof)))
               /\ stage = "decommitment"
               /\ IF i = n_layers THEN stage' = "proved" /\ proof' = proof
                  ELSE proof' = proof \o OpenedLayer(i) /\ stage' = stage
               /\ params' = params /\ layers' = layers /\ queries' = queries /\ flaw' = flaw
               /\ transcript' = transcript /\ verifierVars' = verifierVars
  BY DEF DecommitLayer, ProverOnly
<1>2. Numbers /\ Places /\ n_layers \in Nat \ {0} /\ LastPlace \in Nat
  BY RightNumbers, PlaceFacts DEF Structure, Places
<1>3. Len(layers) = n_layers + 1 /\ Len(layers) - 2 = n_layers - 1
  BY <1>1, <1>2 DEF OpenedSoFar
<1>4. /\ stage \notin Proving /\ stage' \notin Proving
      /\ stage' # "commitment" /\ stage' # "query"
  BY <1>1, StagesApart
<1>5. /\ n_layers' = n_layers /\ LastPlace' = LastPlace /\ HeaderMessages' = HeaderMessages
      /\ InnerLayers' = InnerLayers
  BY <1>1, PlacesSame, SameNumbers
<1>6. /\ IsSeq(transcript)
      /\ Len(transcript) = IF params.proof_of_work_bits = 0 THEN LastPlace + 1
                           ELSE LastPlace + 2
      /\ transcript[LastPlace + 1] = <<"coefficients", n_layers>>
      /\ params.proof_of_work_bits # 0 => transcript[LastPlace + 2] = <<"nonce", 0>>
      /\ \A j \in 0 .. n_layers - 1 : TurnTaken(j)
  BY <1>3, <1>4 DEF RightSoFar, TranscriptGrows
<1>7. TranscriptGrows'
  <2>1. Len(transcript) \in Nat /\ LastPlace <= Len(transcript)
    BY <1>2, <1>6
  <2>2. \A j \in 0 .. n_layers - 1 : TurnTaken(j)'
    BY <1>1, <1>2, <1>6, <2>1, TurnsStay
  <2> QED  BY <1>1, <1>3, <1>4, <1>5, <1>6, <2>2 DEF TranscriptGrows
<1>8. /\ IsSeq(proof) /\ Len(proof) \in Nat /\ HeaderMessages \in Nat \ {0}
      /\ Len(proof) >= HeaderMessages /\ queries \in IndexChoices /\ i \in 1 .. n_layers
      /\ HeaderMessages >= n_layers
  <2>1. /\ IsSeq(proof) /\ Len(proof) >= HeaderMessages /\ queries \in IndexChoices
        /\ i \in 1 .. n_layers
    BY <1>1, <1>4 DEF Structure, ProofGrows
  <2> QED  BY <1>2, <2>1, HeaderNumber DEF IsSeq
<1>9. /\ proof[n_layers].value = layers[n_layers + 1]
      /\ proof[HeaderMessages].what # "authentication"
      /\ \A p \in HeaderMessages .. Len(proof) :
           EndsPart(p) => p = Len(proof) \/ Continues(p)
  BY <1>4 DEF RightSoFar, ProofComplete
<1>10. NextPart(Len(proof)) = i
  BY <1>1 DEF NextPart, Last
<1>11. ASSUME i = n_layers  PROVE ProofComplete'
  <2>1. proof' = proof /\ stage' = "proved"
    BY <1>1, <1>11
  <2>2. ASSUME NEW p \in HeaderMessages .. Len(proof), EndsPart(p)
        PROVE  IF p = Len(proof) THEN NextPart(p)' = n_layers ELSE Continues(p)'
    <3>1. CASE p = Len(proof)
      <4>1. NextPart(p)' = NextPart(p)
        BY <2>1 DEF NextPart
      <4> QED  BY <1>10, <1>11, <3>1, <4>1
    <3>2. CASE p # Len(proof)
      <4>1. Continues(p) /\ p \in Nat /\ p \in 1 .. Len(proof)
        BY <1>8, <1>9, <2>2, <3>2
      <4>2. Continues(p)'
        BY <1>1, <1>2, <1>8, <2>1, <4>1, ContinuesStays
      <4> QED  BY <3>2, <4>2
    <3> QED  BY <3>1, <3>2
  <2>3. \A p : EndsPart(p)' = EndsPart(p)
    BY <1>5, <2>1 DEF EndsPart
  <2>4. \A p \in HeaderMessages' .. Len(proof') : EndsPart(p)' =>
          IF p = Len(proof') THEN NextPart(p)' = n_layers' ELSE Continues(p)'
    BY <1>5, <2>1, <2>2, <2>3
  <2>5. proof'[n_layers'].value = layers'[n_layers' + 1]
        /\ proof'[HeaderMessages'].what # "authentication"
    BY <1>1, <1>5, <1>9, <2>1
  <2> QED  BY <2>4, <2>5 DEF ProofComplete
<1>12. ASSUME i # n_layers  PROVE ProofComplete'
  <2>1. PICK u, n, m : u = OpenedLayer(i) /\ n = Len(proof) /\ m = Len(u)
    OBVIOUS
  <2>2. i \in InnerLayers /\ n \in Nat /\ HeaderMessages <= n
    <3>1. i \in 1 .. n_layers - 1
      BY <1>2, <1>8, <1>12
    <3> QED  BY <1>8, <2>1, <3>1 DEF InnerLayers
  <2>3. /\ IsSeq(u) /\ m \in Nat \ {0} /\ \A k \in 1 .. m : k # m => u[k].what = "cell"
    <3>1. PICK cells : cells = DataInOrder(queries, i)
      OBVIOUS
    <3>2. /\ ListsCells(cells, DataQueries(queries, i), i)
          /\ IsSeq(u) /\ m = Len(cells) + 1
          /\ \A k \in 1 .. Len(cells) :
               u[k] = Message("cell", i, cells[k], Committed(i)[PlaceInLayer(cells[k], i)])
      BY <1>2, <1>8, <2>1, <2>2, <3>1, OpenedFacts
    <3>3. Len(cells) \in Nat
      BY <3>2 DEF ListsCells, IsSeq
    <3>4. \A k \in 1 .. m : k # m => k \in 1 .. Len(cells)
      BY <3>2, <3>3
    <3> QED  BY <3>2, <3>3, <3>4, MessageFields
  <2>4. proof' = proof \o u /\ stage' = "decommitment"
    BY <1>1, <1>12, <2>1
  <2>5. /\ Len(proof') = n + m /\ \A k \in 1 .. n : proof'[k] = proof[k]
        /\ \A k \in 1 .. m : proof'[n + k] = u[k]
    <3>1. IsConcat(proof', proof, u)
      BY <1>8, <2>3, <2>4, ConcatFacts
    <3> QED  BY <2>1, <3>1 DEF IsConcat
  <2>6. /\ \A p \in HeaderMessages .. n + m :
             p \in 1 .. n - 1 \/ p = n \/ p = n + m \/ (\E k \in 1 .. m : k # m /\ p = n + k)
        /\ Len(proof') >= n /\ Len(proof') \in Nat /\ n + m # n
        /\ HeaderMessages \in 1 .. n /\ n_layers \in 1 .. n
    <3>1. ASSUME NEW p \in HeaderMessages .. n + m, ~(p \in 1 .. n - 1), p # n, p # n + m
          PROVE  \E k \in 1 .. m : k # m /\ p = n + k
      <4>1. p - n \in 1 .. m /\ p - n # m /\ p = n + (p - n)
        BY <1>8, <2>2, <2>3, <3>1
      <4> QED  BY <4>1
    <3>2. /\ Len(proof') >= n /\ Len(proof') \in Nat /\ n + m # n
          /\ HeaderMessages \in 1 .. n /\ n_layers \in 1 .. n
      BY <1>2, <1>8, <2>2, <2>3, <2>5
    <3> QED  BY <3>1, <3>2
  <2>7. ASSUME NEW p \in HeaderMessages .. n + m, EndsPart(p)', p # n + m
        PROVE  Continues(p)'
    <3>1. CASE p \in 1 .. n - 1
      <4>1. p \in 1 .. n /\ p # n /\ p \in HeaderMessages .. n
        BY <2>2, <2>7, <3>1
      <4>2. EndsPart(p)
        <5>1. proof'[p] = proof[p]
          BY <2>5, <4>1
        <5> QED  BY <1>5, <2>7, <5>1 DEF EndsPart
      <4>3. Continues(p)
        BY <1>9, <2>1, <4>1, <4>2
      <4> QED  BY <1>1, <1>2, <1>8, <2>1, <2>5, <2>6, <4>1, <4>3, ContinuesStays
    <3>2. CASE p = n
      <4>1. NextPart(n)' = i
        <5>1. n \in 1 .. n
          BY <1>8, <2>2, <2>6
        <5>2. proof'[n] = proof[n]
          BY <2>5, <5>1
        <5> QED  BY <1>10, <2>1, <5>2 DEF NextPart
      <4>2. u = OpenedLayer(i)' /\ i \in InnerLayers'
        BY <1>1, <1>5, <2>1, <2>2, OpenedLayerSame
      <4>3. n + m <= Len(proof')
        BY <2>3, <2>5, <2>6
      <4>4. Follows(n, i)'
        BY <2>1, <2>5, <4>2, <4>3 DEF Follows
      <4> QED  BY <3>2, <4>1, <4>4 DEF Continues, Follows
    <3>3. CASE \E k \in 1 .. m : k # m /\ p = n + k
      <4>1. PICK k \in 1 .. m : k # m /\ p = n + k
        BY <3>3
      <4>2. proof'[p].what = "cell"
        BY <2>3, <2>5, <4>1
      <4>3. p # HeaderMessages
        <5>1. HeaderMessages <= n /\ HeaderMessages \in Nat
          BY <1>8, <2>2
        <5> QED  BY <2>2, <4>1, <5>1
      <4> QED  BY <1>5, <2>7, <4>2, <4>3 DEF EndsPart
    <3> QED  BY <2>6, <2>7, <3>1, <3>2, <3>3
  <2>8. \A p \in HeaderMessages' .. Len(proof') : EndsPart(p)' => p = Len(proof') \/ Continues(p)'
    BY <1>5, <2>5, <2>7
  <2>9. proof'[n_layers'].value = layers'[n_layers' + 1]
        /\ proof'[HeaderMessages'].what # "authentication"
    BY <1>1, <1>5, <1>9, <2>5, <2>6
  <2> QED  BY <2>4, <2>8, <2>9 DEF ProofComplete
<1>13. v_transcript' = <<>> /\ eval_points' = <<>> /\ stage' \in {"decommitment", "proved"}
  <2>1. v_transcript = <<>> /\ eval_points = <<>>
    BY <1>1 DEF RightSoFar, Structure, VerifierReads
  <2> QED  BY <1>1, <2>1 DEF verifierVars
<1>14. VerifierRight'
  BY <1>13, NothingRead
<1>15. ProofComplete'
  BY <1>11, <1>12
<1> QED  BY <1>7, <1>13, <1>14, <1>15 DEF RightSoFar

\* What the prover left does not change while the proof is delivered and verified.
LEMMA ProverRightSame ==
  ASSUME Structure, OpenedSoFar, RightSoFar, proverVars' = proverVars,
         stage \notin Proving \cup {"decommitment"},
         stage' \notin Proving \cup {"decommitment", "proved"},
         Undamaged' => VerifierRight'
  PROVE  RightSoFar'
<1>1. /\ params' = params /\ layers' = layers /\ proof' = proof /\ queries' = queries
      /\ flaw' = flaw /\ transcript' = transcript
  BY DEF proverVars
<1>2. Numbers /\ Places /\ n_layers \in Nat \ {0} /\ LastPlace \in Nat
  BY RightNumbers, PlaceFacts DEF Structure, Places
<1>3. Len(layers) = n_layers + 1 /\ Len(layers) - 2 = n_layers - 1
  BY <1>2, AllLayers, StagesApart
<1>4. /\ n_layers' = n_layers /\ LastPlace' = LastPlace /\ HeaderMessages' = HeaderMessages
  BY <1>1, PlacesSame, SameNumbers
<1>5. stage' # "commitment" /\ stage' # "query" /\ stage' # "proved" /\ stage' # "decommitment"
  BY StagesApart
<1>6. TranscriptGrows'
  <2>1. /\ IsSeq(transcript)
        /\ Len(transcript) = IF params.proof_of_work_bits = 0 THEN LastPlace + 1
                             ELSE LastPlace + 2
        /\ transcript[LastPlace + 1] = <<"coefficients", n_layers>>
        /\ params.proof_of_work_bits # 0 => transcript[LastPlace + 2] = <<"nonce", 0>>
        /\ \A j \in 0 .. n_layers - 1 : TurnTaken(j)
    BY <1>3 DEF RightSoFar, TranscriptGrows
  <2>2. Len(transcript) \in Nat /\ LastPlace <= Len(transcript)
    BY <1>2, <2>1
  <2>3. \A j \in 0 .. n_layers - 1 : TurnTaken(j)'
    BY <1>1, <1>2, <2>1, <2>2, TurnsStay
  <2> QED  BY <1>1, <1>3, <1>4, <1>5, <2>1, <2>3 DEF TranscriptGrows
<1>7. ProofComplete'
  <2>1. /\ IsSeq(proof) /\ Len(proof) \in Nat /\ HeaderMessages \in Nat \ {0}
        /\ queries \in IndexChoices
    BY <1>2, HeaderNumber DEF Structure, ProofGrows, IsSeq
  <2>2. ASSUME NEW p \in HeaderMessages .. Len(proof), EndsPart(p)
        PROVE  IF p = Len(proof) THEN NextPart(p)' = n_layers ELSE Continues(p)'
    <3>1. CASE p = Len(proof)
      <4>1. NextPart(p)' = NextPart(p)
        BY <1>1 DEF NextPart
      <4> QED  BY <2>2, <3>1, <4>1 DEF RightSoFar, ProofComplete
    <3>2. CASE p # Len(proof)
      <4>1. Continues(p) /\ p \in Nat /\ p \in 1 .. Len(proof)
        BY <2>1, <2>2, <3>2 DEF RightSoFar, ProofComplete
      <4>2. Continues(p)'
        BY <1>1, <1>2, <2>1, <4>1, ContinuesStays
      <4> QED  BY <3>2, <4>2
    <3> QED  BY <3>1, <3>2
  <2>3. \A p : EndsPart(p)' = EndsPart(p)
    BY <1>1, <1>4 DEF EndsPart
  <2>4. \A p \in HeaderMessages' .. Len(proof') : EndsPart(p)' =>
          IF p = Len(proof') THEN NextPart(p)' = n_layers' ELSE Continues(p)'
    BY <1>1, <1>4, <2>2, <2>3
  <2>5. /\ proof'[n_layers'].value = layers'[n_layers' + 1]
        /\ proof'[HeaderMessages'].what # "authentication"
    BY <1>1, <1>4 DEF RightSoFar, ProofComplete
  <2> QED  BY <2>4, <2>5 DEF ProofComplete
<1> QED  BY <1>5, <1>6, <1>7 DEF RightSoFar

LEMMA DeliverRight ==
  ASSUME Structure, OpenedSoFar, RightSoFar, Deliver
  PROVE  RightSoFar'
<1>1. /\ stage = "proved" /\ stage' = "verifying"
      /\ proverVars' = proverVars /\ verifierVars' = verifierVars
  BY DEF Deliver
<1>2. v_transcript' = <<>> /\ eval_points' = <<>>
  <2>1. v_transcript = <<>> /\ eval_points = <<>>
    BY <1>1 DEF RightSoFar, Structure, VerifierReads
  <2> QED  BY <1>1, <2>1 DEF verifierVars
<1>3. IsSeq(v_transcript') /\ Len(v_transcript') = 0 /\ Len(eval_points') = 0
  BY <1>2, NoElements
<1>4. stage \notin Proving \cup {"decommitment"} /\ stage \notin Proving
  BY <1>1, StagesApart
<1>5. IsSeq(transcript) /\ transcript' = transcript /\ params' = params
  BY <1>1 DEF RightSoFar, TranscriptGrows, proverVars
<1>6. VerifierRight'
  <2>1. LogLength(0)' = 0
    BY <1>5, PlacesSame DEF LogLength
  <2>2. Len(v_transcript') <= Len(transcript') /\ 1 .. Len(v_transcript') = {}
    BY <1>3, <1>5 DEF IsSeq
  <2>3. SamePoints'
    BY <1>3 DEF SamePoints
  <2>4. stage' \notin Rejections \cup {"choosing", "first layer"} \cup Folding
    BY <1>1 DEF Rejections, Folding
  <2>5. PICK l : l = Len(eval_points')
    OBVIOUS
  <2>6. Len(v_transcript') = LogLength(l)'
    BY <1>3, <2>1, <2>5
  <2> QED  BY <1>1, <1>3, <2>2, <2>3, <2>4, <2>5, <2>6 DEF VerifierRight, Folding
<1> QED  BY <1>1, <1>4, <1>6, ProverRightSame, StagesApart

\* The prover's transcript when the proof is written.
WholeTranscript ==
  /\ Numbers /\ Places /\ RightParams
  /\ n_layers \in Nat \ {0} /\ LastPlace \in Nat
  /\ Len(layers) = n_layers + 1 /\ LayersShaped
  /\ IsSeq(transcript)
  /\ Len(transcript) = IF params.proof_of_work_bits = 0 THEN LastPlace + 1 ELSE LastPlace + 2
  /\ transcript[LastPlace + 1] = <<"coefficients", n_layers>>
  /\ params.proof_of_work_bits # 0 => transcript[LastPlace + 2] = <<"nonce", 0>>
  /\ \A i \in 0 .. n_layers - 1 : TurnTaken(i)
  /\ proof[n_layers].value = layers[n_layers + 1]

LEMMA TranscriptIsWhole ==
  ASSUME Structure, OpenedSoFar, RightSoFar, stage \notin Proving
  PROVE  WholeTranscript
<1>1. /\ Numbers /\ Places /\ RightParams /\ LayersShaped
      /\ n_layers \in Nat \ {0} /\ LastPlace \in Nat
  BY RightNumbers, PlaceFacts DEF Structure, Places
<1>2. Len(layers) = n_layers + 1 /\ Len(layers) - 2 = n_layers - 1
  BY <1>1, AllLayers, StagesApart
<1> QED  BY <1>1, <1>2 DEF WholeTranscript, RightSoFar, TranscriptGrows, ProofComplete

\* The verifier's transcript is the beginning of the prover's.
Repeats(log) ==
  /\ IsSeq(log)
  /\ Len(log) <= Len(transcript)
  /\ \A p \in 1 .. Len(log) : log[p] = transcript[p]

LEMMA OneRepeated ==
  ASSUME Repeats(transcript), NEW log, Repeats(log), NEW e, NEW n \in Nat, Len(log) = n,
         n + 1 <= Len(transcript), transcript[n + 1] = e
  PROVE  Repeats(Append(log, e)) /\ Len(Append(log, e)) = n + 1
<1>1. PICK s : s = Append(log, e)
  OBVIOUS
<1>2. IsExtended(s, log, e)
  BY <1>1, AppendFacts DEF Repeats
<1>3. \A p \in 1 .. n + 1 : p \in 1 .. n \/ p = n + 1
  OBVIOUS
<1>4. \A p \in 1 .. n : s[p] = transcript[p]
  BY <1>2 DEF IsExtended, Repeats
<1>5. IsSeq(s) /\ Len(s) = n + 1 /\ s[n + 1] = transcript[n + 1]
  BY <1>2 DEF IsExtended
<1>6. Repeats(s)
  BY <1>3, <1>4, <1>5 DEF Repeats
<1> QED  BY <1>1, <1>5, <1>6

\* The draw of a point from a repeated transcript is the prover's.
LEMMA PointRepeated ==
  ASSUME WholeTranscript, NEW i \in 0 .. n_layers - 1, NEW log, Repeats(log),
         Len(log) = LogLength(i), NEW drawn, drawn = IF PointDrawn(i) THEN AfterDraw(log) ELSE log
  PROVE  /\ Repeats(drawn) /\ Len(drawn) = DrawPlace(i)
         /\ drawn = Until(DrawPlace(i))
<1>1. DrawnAfter(drawn, log, i)
  BY PointAdded DEF WholeTranscript, Repeats
<1>2. DrawPlace(i) \in Nat /\ DrawPlace(i) <= LastPlace
  BY DEF WholeTranscript, Places
<1>3. Len(drawn) = DrawPlace(i) /\ IsSeq(drawn)
  BY <1>1 DEF DrawnAfter
<1>4. ASSUME NEW p \in 1 .. DrawPlace(i)  PROVE drawn[p] = transcript[p]
  <2>1. CASE p \in 1 .. Len(log)
    BY <1>1, <2>1 DEF DrawnAfter, Repeats
  <2>2. CASE p = DrawPlace(i) /\ PointDrawn(i)
    BY <1>1, <2>2 DEF DrawnAfter, WholeTranscript, TurnTaken
  <2> QED  BY <1>1, <1>4, <2>1, <2>2 DEF DrawnAfter
<1>5. Len(drawn) <= Len(transcript)
  BY <1>2, <1>3 DEF WholeTranscript
<1>6. drawn = Until(DrawPlace(i))
  <2>1. drawn = [p \in 1 .. DrawPlace(i) |-> drawn[p]]
    BY <1>3 DEF IsSeq
  <2>2. drawn = [p \in 1 .. DrawPlace(i) |-> transcript[p]]
    BY <1>4, <2>1
  <2> QED  BY <2>2 DEF Until
<1> QED  BY <1>3, <1>4, <1>5, <1>6 DEF Repeats

LEMMA ReadLayerRight ==
  ASSUME Structure, OpenedSoFar, RightSoFar, ReadLayerCommitment
  PROVE  RightSoFar'
<1>1. PICK i : i = Len(eval_points)
  OBVIOUS
<1>2. PICK draws, log : /\ draws = (i > 0 \/ FriStep(0) # 0)
                        /\ log = IF draws THEN AfterDraw(v_transcript) ELSE v_transcript
  OBVIOUS
<1>3. /\ stage = "verifying" /\ stage' = stage /\ i < n_layers
      /\ eval_points' = Append(eval_points, IF draws THEN Drawn(log) ELSE Uninitialized)
      /\ IF i = n_layers - 1 THEN v_transcript' = log
         ELSE v_transcript' = Absorbed(log, "commitment", Content(i + 1))
      /\ proverVars' = proverVars /\ damage' = damage
  BY <1>1, <1>2 DEF ReadLayerCommitment, VerifierOnly
<1>4. stage \notin Proving \cup {"decommitment"} /\ stage \notin Proving
  BY <1>3, StagesApart
<1>5. WholeTranscript /\ params' = params /\ transcript' = transcript
  BY <1>3, <1>4, TranscriptIsWhole DEF proverVars
<1>6. /\ i \in 0 .. n_layers - 1 /\ IsSeq(eval_points) /\ n_layers \in Nat
      /\ IsSeq(reads) /\ Len(reads) \in Nat
  <2>1. IsSeq(eval_points) /\ n_layers \in Nat /\ IsSeq(reads)
    BY <1>5 DEF Structure, VerifierReads, WholeTranscript
  <2>2. i \in Nat /\ Len(reads) \in Nat
    BY <1>1, <2>1 DEF IsSeq
  <2> QED  BY <1>3, <2>1, <2>2
<1>7. ASSUME Undamaged'  PROVE VerifierRight'
  <2>1. Undamaged /\ damage.message = 0
    BY <1>3, <1>7 DEF Undamaged, Intact, proverVars
  <2>2. Repeats(v_transcript) /\ Len(v_transcript) = LogLength(i) /\ SamePoints
    BY <1>1, <1>3, <2>1 DEF RightSoFar, VerifierRight, Repeats
  <2>3. draws <=> PointDrawn(i)
    <3>1. i > 0 <=> i # 0
      BY <1>6
    <3> QED  BY <1>2, <3>1, Zenon DEF PointDrawn
  <2>4. log = IF PointDrawn(i) THEN AfterDraw(v_transcript) ELSE v_transcript
    BY <1>2, <2>3
  <2>5. Repeats(log) /\ Len(log) = DrawPlace(i) /\ log = Until(DrawPlace(i))
    BY <1>5, <1>6, <2>2, <2>4, PointRepeated
  <2>6. Repeats(v_transcript') /\ Len(v_transcript') = LogLength(i + 1)
    <3>1. CASE i = n_layers - 1
      <4>1. i + 1 = n_layers
        BY <1>6, <3>1
      <4>2. LogLength(i + 1) = DrawPlace(i)
        BY <1>5, <3>1, <4>1 DEF WholeTranscript, Places, LastPlace
      <4> QED  BY <1>3, <2>5, <3>1, <4>2
    <3>2. CASE i # n_layers - 1
      <4>1. PICK d : d = DrawPlace(i)
        OBVIOUS
      <4>2. d \in Nat /\ d + 1 <= LastPlace /\ LogLength(i + 1) = d + 1
        BY <1>5, <1>6, <3>2, <4>1 DEF WholeTranscript, Places
      <4>3. d + 1 <= Len(transcript) /\ Repeats(transcript)
        <5>1. LastPlace \in Nat /\ IsSeq(transcript) /\ LastPlace <= Len(transcript)
              /\ Len(transcript) \in Nat
          BY <1>5 DEF WholeTranscript
        <5> QED  BY <4>2, <5>1 DEF Repeats
      <4>4. transcript[d + 1] = <<"commitment", i + 1>>
        <5>1. i < n_layers - 1
          BY <1>6, <3>2
        <5> QED  BY <1>5, <1>6, <4>1, <5>1 DEF WholeTranscript, TurnTaken
      <4>5. Content(i + 1) = i + 1
        BY <1>6, <2>1 DEF Content, Altered, NextMessage
      <4>6. PICK e : e = <<"commitment", i + 1>>
        OBVIOUS
      <4>7. v_transcript' = Append(log, e)
        BY <1>3, <3>2, <4>5, <4>6 DEF Absorbed
      <4>8. Repeats(Append(log, e)) /\ Len(Append(log, e)) = d + 1
        BY <2>5, <4>1, <4>2, <4>3, <4>4, <4>6, OneRepeated
      <4> QED  BY <4>2, <4>7, <4>8
    <3> QED  BY <3>1, <3>2
  <2>7. PICK pt : pt = IF draws THEN Drawn(log) ELSE Uninitialized
    OBVIOUS
  <2>8. IsExtended(eval_points', eval_points, pt)
    BY <1>3, <1>6, <2>7, AppendFacts
  <2>9. Len(eval_points') = i + 1 /\ Len(eval_points') - 1 = i
    BY <1>1, <1>6, <2>8 DEF IsExtended
  <2>10. SamePoints'
    <3>1. ASSUME NEW j \in 0 .. i, PointDrawn(j)
          PROVE  eval_points'[j + 1] = Drawn(Until(DrawPlace(j)))
      <4>1. CASE j = i
        BY <1>1, <2>3, <2>5, <2>7, <2>8, <3>1, <4>1 DEF IsExtended
      <4>2. CASE j # i
        <5>1. j \in 0 .. i - 1 /\ j + 1 \in 1 .. i
          BY <1>6, <4>2
        <5> QED  BY <1>1, <2>2, <2>8, <3>1, <5>1 DEF IsExtended, SamePoints
      <4> QED  BY <4>1, <4>2
    <3>2. ASSUME NEW j \in 0 .. i, PointDrawn(j)'
          PROVE  eval_points'[j + 1] = Drawn(Until(DrawPlace(j)))'
      <4>1. PICK place : place = DrawPlace(j)
        OBVIOUS
      <4>2. PointDrawn(j) /\ place = DrawPlace(j)'
        BY <1>5, <3>2, <4>1, PlacesSame
      <4>3. eval_points'[j + 1] = Drawn([p \in 1 .. place |-> transcript[p]])
        BY <3>1, <4>1, <4>2 DEF Until
      <4> QED  BY <1>5, <4>2, <4>3 DEF Until
    <3> QED  BY <2>9, <3>2 DEF SamePoints
  <2>11. PICK l : l = Len(eval_points')
    OBVIOUS
  <2>12. Len(v_transcript') = LogLength(l)'
    BY <1>5, <2>6, <2>9, <2>11, PlacesSame
  <2>13. stage' \notin Rejections \cup {"choosing", "first layer"} \cup Folding
    BY <1>3 DEF Rejections, Folding
  <2>14. /\ IsSeq(v_transcript') /\ Len(v_transcript') <= Len(transcript')
         /\ \A p \in 1 .. Len(v_transcript') : v_transcript'[p] = transcript'[p]
    BY <1>5, <2>6 DEF Repeats
  <2> QED  BY <2>10, <2>11, <2>12, <2>13, <2>14 DEF VerifierRight, Folding
<1> QED  BY <1>3, <1>4, <1>7, ProverRightSame

LEMMA PointsStay ==
  ASSUME params' = params, transcript' = transcript, eval_points' = eval_points, SamePoints
  PROVE  SamePoints'
<1>1. ASSUME NEW j \in 0 .. Len(eval_points) - 1, PointDrawn(j)'
      PROVE  eval_points'[j + 1] = Drawn(Until(DrawPlace(j)))'
  <2>1. PICK place : place = DrawPlace(j)
    OBVIOUS
  <2>2. PointDrawn(j) /\ place = DrawPlace(j)'
    BY <1>1, <2>1, PlacesSame
  <2>3. eval_points'[j + 1] = Drawn([p \in 1 .. place |-> transcript[p]])
    BY <1>1, <2>1, <2>2 DEF Until, SamePoints
  <2> QED  BY <2>2, <2>3 DEF Until
<1> QED  BY <1>1 DEF SamePoints

LEMMA ReadLastRight ==
  ASSUME Structure, OpenedSoFar, RightSoFar, ReadLastLayerCoefficients
  PROVE  RightSoFar'
<1>1. /\ stage = "verifying" /\ stage' = "choosing" /\ Len(eval_points) = n_layers
      /\ expected_last_layer' = [k \in 0 .. LayerSize(n_layers) - 1 |->
           IF Altered(NextMessage) THEN Garbage ELSE Received(NextMessage)[k]]
      /\ v_transcript' = Append(v_transcript, <<"coefficients", Content(n_layers)>>)
      /\ proverVars' = proverVars /\ damage' = damage /\ eval_points' = eval_points
  BY DEF ReadLastLayerCoefficients, VerifierOnly, Absorbed
<1>2. stage \notin Proving \cup {"decommitment"} /\ stage \notin Proving
  BY <1>1, StagesApart
<1>3. WholeTranscript /\ params' = params /\ transcript' = transcript /\ layers' = layers
  BY <1>1, <1>2, TranscriptIsWhole DEF proverVars
<1>4. NextMessage = n_layers /\ n_layers \in Nat \ {0}
  <2>1. Len(reads) = Commitments(n_layers) /\ n_layers \in Nat \ {0}
    BY <1>1, <1>3 DEF Structure, VerifierReads, WholeTranscript
  <2>2. Len(reads) = n_layers - 1
    BY <2>1 DEF Commitments
  <2> QED  BY <2>1, <2>2 DEF NextMessage
<1>5. ASSUME Undamaged'  PROVE VerifierRight'
  <2>1. Undamaged /\ damage.message = 0 /\ ~Altered(NextMessage)
    BY <1>1, <1>4, <1>5 DEF Undamaged, Intact, proverVars, Altered
  <2>2. Repeats(v_transcript) /\ Len(v_transcript) = LogLength(n_layers) /\ SamePoints
    BY <1>1, <2>1 DEF RightSoFar, VerifierRight, Repeats
  <2>3. PICK l, e : l = LastPlace /\ e = <<"coefficients", n_layers>>
    OBVIOUS
  <2>4. /\ l \in Nat /\ Len(v_transcript) = l /\ l + 1 <= Len(transcript) /\ Repeats(transcript)
        /\ transcript[l + 1] = e
    <3>1. l \in Nat /\ Len(v_transcript) = l /\ transcript[l + 1] = e /\ IsSeq(transcript)
      BY <1>3, <2>2, <2>3 DEF WholeTranscript, Places
    <3>2. l + 1 <= Len(transcript) /\ Len(transcript) \in Nat
      BY <1>3, <2>3, <3>1 DEF WholeTranscript
    <3> QED  BY <3>1, <3>2 DEF Repeats
  <2>5. v_transcript' = Append(v_transcript, e)
    BY <1>1, <2>1, <2>3 DEF Content
  <2>6. Repeats(v_transcript') /\ Len(v_transcript') = l + 1
    BY <2>2, <2>4, <2>5, OneRepeated
  <2>7. \A k \in 0 .. LayerSize(n_layers) - 1 :
          expected_last_layer'[k] = layers[n_layers + 1][k]
    BY <1>1, <1>3, <1>4, <2>1 DEF Received, WholeTranscript
  <2>8. /\ n_layers' = n_layers /\ LastPlace' = LastPlace
        /\ LayerSize(n_layers)' = LayerSize(n_layers)
    <3>1. PICK n : n = n_layers
      OBVIOUS
    <3>2. n_layers' = n /\ LayerSize(n)' = LayerSize(n) /\ LastPlace' = LastPlace
      BY <1>3, <3>1, SameNumbers, PlacesSame
    <3>3. LayerSize(n_layers)' = LayerSize(n)'
      BY <3>1, <3>2 DEF LayerSize
    <3> QED  BY <3>1, <3>2, <3>3
  <2>9. SameLast'
    BY <1>1, <1>3, <2>7, <2>8 DEF SameLast
  <2>10. SamePoints'
    BY <1>1, <1>3, <2>2, PointsStay
  <2>11. stage' \notin Rejections \cup {"verifying", "first layer"} \cup Folding
    BY <1>1 DEF Rejections, Folding
  <2>12. /\ IsSeq(v_transcript') /\ Len(v_transcript') <= Len(transcript')
         /\ \A p \in 1 .. Len(v_transcript') : v_transcript'[p] = transcript'[p]
         /\ Len(v_transcript') = LastPlace' + 1
    BY <1>3, <2>3, <2>6, <2>8 DEF Repeats
  <2> QED  BY <2>9, <2>10, <2>11, <2>12 DEF VerifierRight, Folding
<1>6. stage' \notin Proving \cup {"decommitment", "proved"}
  BY <1>1, StagesApart
<1> QED  BY <1>1, <1>2, <1>5, <1>6, ProverRightSame

LEMMA VerifierChoosesRight ==
  ASSUME Structure, OpenedSoFar, RightSoFar, VerifierChooseQueryIndices
  PROVE  RightSoFar'
<1>1. /\ stage = "choosing"
      /\ IF params.proof_of_work_bits = 0 THEN v_transcript' = v_transcript
         ELSE v_transcript' = Append(v_transcript, <<"nonce", Content(0)>>)
      /\ \/ /\ query_indices' \in IF v_transcript' = transcript THEN {queries} ELSE IndexChoices
            /\ stage' = "first layer"
         \/ Altered(NextMessage) /\ stage' = "wrong proof of work"
      /\ proverVars' = proverVars /\ damage' = damage /\ eval_points' = eval_points
      /\ expected_last_layer' = expected_last_layer
  BY DEF VerifierChooseQueryIndices, VerifierOnly, Absorbed
<1>2. stage \notin Proving \cup {"decommitment"} /\ stage \notin Proving
  BY <1>1, StagesApart
<1>3. WholeTranscript /\ params' = params /\ transcript' = transcript /\ layers' = layers
      /\ queries' = queries
  BY <1>1, <1>2, TranscriptIsWhole DEF proverVars
<1>4. NextMessage # 0
  <2>1. NextMessage = n_layers + 1 /\ n_layers \in Nat
    BY <1>1, <1>3 DEF Structure, VerifierReads, WholeTranscript, NextMessage
  <2>2. \A n \in Nat : n + 1 # 0
    OBVIOUS
  <2> QED  BY <2>1, <2>2
<1>5. ASSUME Undamaged'  PROVE VerifierRight'
  <2>1. Undamaged /\ ~Altered(NextMessage)
    BY <1>1, <1>4, <1>5 DEF Undamaged, Intact, proverVars, Altered
  <2>2. Repeats(v_transcript) /\ Len(v_transcript) = LastPlace + 1 /\ SamePoints /\ SameLast
    BY <1>1, <2>1 DEF RightSoFar, VerifierRight, Repeats
  <2>3. PICK l : l = LastPlace + 1 /\ l \in Nat /\ l + 1 = LastPlace + 2
    BY <1>3 DEF WholeTranscript
  <2>4. Repeats(v_transcript') /\ Len(v_transcript') = Len(transcript)
    <3>1. CASE params.proof_of_work_bits = 0
      BY <1>1, <1>3, <2>2, <3>1 DEF WholeTranscript
    <3>2. CASE params.proof_of_work_bits # 0
      <4>1. PICK e : e = <<"nonce", 0>>
        OBVIOUS
      <4>2. v_transcript' = Append(v_transcript, e)
        BY <1>1, <2>1, <3>2, <4>1 DEF Content
      <4>3. /\ Len(transcript) = l + 1 /\ transcript[l + 1] = e /\ IsSeq(transcript)
        BY <1>3, <2>3, <3>2, <4>1 DEF WholeTranscript
      <4>4. Repeats(transcript) /\ l + 1 <= Len(transcript)
        BY <2>3, <4>3 DEF Repeats
      <4>5. Repeats(Append(v_transcript, e)) /\ Len(Append(v_transcript, e)) = l + 1
        BY <2>2, <2>3, <4>3, <4>4, OneRepeated
      <4> QED  BY <4>2, <4>3, <4>5
    <3> QED  BY <3>1, <3>2
  <2>5. v_transcript' = transcript
    BY <1>3, <2>4, SameSeq DEF Repeats, WholeTranscript
  <2>6. stage' = "first layer" /\ query_indices' = queries'
    BY <1>1, <1>3, <2>1, <2>5
  <2>7. n_layers' = n_layers /\ LayerSize(n_layers)' = LayerSize(n_layers)
    <3>1. PICK n : n = n_layers
      OBVIOUS
    <3>2. n_layers' = n /\ LayerSize(n)' = LayerSize(n)
      BY <1>3, <3>1, SameNumbers
    <3>3. LayerSize(n_layers)' = LayerSize(n)'
      BY <3>1, <3>2 DEF LayerSize
    <3> QED  BY <3>1, <3>2, <3>3
  <2>8. SameLast'
    BY <1>1, <1>3, <2>2, <2>7 DEF SameLast
  <2>9. SamePoints'
    BY <1>1, <1>3, <2>2, PointsStay
  <2>10. stage' \notin Rejections \cup {"verifying", "choosing"} \cup Folding
    BY <2>6 DEF Rejections, Folding
  <2>11. IsSeq(v_transcript')
    BY <2>4 DEF Repeats
  <2> QED  BY <2>6, <2>8, <2>9, <2>10, <2>11 DEF VerifierRight, Folding
<1>6. stage' \notin Proving \cup {"decommitment", "proved"}
  BY <1>1, StagesApart DEF Rejections
<1> QED  BY <1>1, <1>2, <1>5, <1>6, ProverRightSame

\* The fold of a coset of a layer, with the verifier's point, is in the next layer.
LEMMA RightFold ==
  ASSUME WholeTranscript, NEW i \in 0 .. n_layers - 1, NEW x \in 0 .. LayerSize(i + 1) - 1,
         PointDrawn(i) => eval_points[i + 1] = Drawn(Until(DrawPlace(i))),
         NEW elements,
         elements = [k \in 0 .. CosetSize(i) - 1 |-> layers[i + 1][x * CosetSize(i) + k]]
  PROVE  ApplyFriLayers(elements, eval_points[i + 1], i, x * CosetSize(i)) = layers[i + 2][x]
<1>1. PICK pt, v_pt : pt = Drawn(Until(DrawPlace(i))) /\ v_pt = eval_points[i + 1]
  OBVIOUS
<1>2. FriStep(i) # 0 => v_pt = pt
  BY <1>1, StepsFold DEF WholeTranscript
<1>3. ApplyFriLayers(elements, v_pt, i, x * CosetSize(i))
        = CreateNextFriLayer(layers[i + 1], i, pt)[x]
  BY <1>2, FoldOfCoset DEF WholeTranscript
<1>4. layers[i + 2] = CreateNextFriLayer(layers[i + 1], i, pt)
  BY <1>1 DEF WholeTranscript, TurnTaken
<1> QED  BY <1>1, <1>3, <1>4

LEMMA CommittedRight ==
  ASSUME WholeTranscript, flaw = <<0, 0>>, NEW i \in InnerLayers, NEW k \in 0 .. LayerSize(i) - 1
  PROVE  Committed(i)[k] = layers[i + 1][k]
<1>1. i \in 1 .. n_layers - 1 /\ n_layers \in Nat
  BY DEF InnerLayers, WholeTranscript
<1>2. i # 0 /\ i + 1 \in 1 .. n_layers + 1 /\ (i + 1) - 1 = i
  BY <1>1
<1>3. DOMAIN layers[i + 1] = 0 .. LayerSize(i) - 1
  BY <1>2 DEF WholeTranscript, LayersShaped
<1>4. flaw # <<i, k>>
  BY <1>2
<1> QED  BY <1>3, <1>4 DEF Committed

LEMMA FoldedRight ==
  ASSUME WholeTranscript, NEW i \in 0 .. n_layers - 1, NEW x \in 0 .. LayerSize(i + 1) - 1,
         SamePoints, Len(eval_points) = n_layers,
         \A k \in 0 .. CosetSize(i) - 1 :
           Vector(i)[x * CosetSize(i) + k] = layers[i + 1][x * CosetSize(i) + k]
  PROVE  FoldedAt(i, x) = layers[i + 2][x]
<1>1. PICK c, es : /\ c = CosetSize(i)
                   /\ es = [k \in 0 .. c - 1 |-> layers[i + 1][x * c + k]]
  OBVIOUS
<1>2. [k \in 0 .. c - 1 |-> Vector(i)[x * c + k]] = es
  BY <1>1
<1>3. FoldedAt(i, x) = ApplyFriLayers(es, eval_points[i + 1], i, x * c)
  BY <1>1, <1>2 DEF FoldedAt
<1>4. PointDrawn(i) => eval_points[i + 1] = Drawn(Until(DrawPlace(i)))
  BY DEF SamePoints
<1> QED  BY <1>1, <1>3, <1>4, RightFold

LEMMA ResultsKept ==
  ASSUME params' = params, layers' = layers, query_indices' = query_indices, NEW i,
         \A j \in 1 .. params.n_queries :
           query_results'[j] = layers[i + 1][IndexInLayer(query_indices[j], i)]
  PROVE  ResultsRight(i)'
<1>1. \A q : IndexInLayer(q, i)' = IndexInLayer(q, i)
  BY SameNumbers DEF IndexInLayer, StepsBefore, fri_step_list, FriStep
<1> QED  BY <1>1 DEF ResultsRight

LEMMA LastStays ==
  ASSUME params' = params, layers' = layers, eval_points' = eval_points,
         expected_last_layer' = expected_last_layer, SameLast
  PROVE  SameLast'
<1>1. n_layers' = n_layers /\ LayerSize(n_layers)' = LayerSize(n_layers)
  <2>1. PICK n : n = n_layers
    OBVIOUS
  <2>2. n_layers' = n /\ LayerSize(n)' = LayerSize(n)
    BY <2>1, SameNumbers
  <2>3. LayerSize(n_layers)' = LayerSize(n)'
    BY <2>1, <2>2 DEF LayerSize
  <2> QED  BY <2>1, <2>2, <2>3
<1> QED  BY <1>1 DEF SameLast

\* After the last part of the proof comes nothing, after another the next layer.
LEMMA PartsEnd ==
  ASSUME Structure, RightSoFar, stage \notin Proving \cup {"decommitment"}, Numbers,
         NEW p \in HeaderMessages .. Len(proof), EndsPart(p)
  PROVE  /\ NextPart(p) \in InnerLayers => Follows(p, NextPart(p))
         /\ NextPart(p) = n_layers => p = Len(proof)
<1>1. /\ p = Len(proof) => NextPart(p) = n_layers
      /\ p # Len(proof) => Follows(p, NextPart(p))
  BY DEF RightSoFar, ProofComplete, Continues
<1>2. n_layers \notin InnerLayers
  <2>1. \A n \in Nat : n \notin 1 .. n - 1
    OBVIOUS
  <2> QED  BY <2>1 DEF InnerLayers, Numbers
<1>3. NextPart(p) \in InnerLayers => Follows(p, NextPart(p))
  BY <1>1, <1>2
<1>4. NextPart(p) = n_layers => p = Len(proof)
  BY <1>1, <1>2 DEF Follows
<1> QED  BY <1>3, <1>4

LEMMA FirstRight ==
  ASSUME Structure, OpenedSoFar, RightSoFar, VerifyFirstLayer
  PROVE  RightSoFar'
<1>1. /\ stage = "first layer"
      /\ stage' = IF n_layers = 1 THEN "last layer" ELSE "inner layers"
      /\ proverVars' = proverVars /\ damage' = damage /\ v_transcript' = v_transcript
      /\ reads' = reads /\ eval_points' = eval_points /\ query_indices' = query_indices
      /\ expected_last_layer' = expected_last_layer
  BY DEF VerifyFirstLayer, VerifierOnly
<1>2. stage \notin Proving \cup {"decommitment"} /\ stage \notin Proving
  BY <1>1, StagesApart
<1>3. /\ WholeTranscript /\ params' = params /\ transcript' = transcript /\ layers' = layers
      /\ queries' = queries /\ proof' = proof
  BY <1>1, <1>2, TranscriptIsWhole DEF proverVars
<1>4. /\ Numbers /\ query_indices \in IndexChoices /\ n_layers \in Nat \ {0}
      /\ IsSeq(reads) /\ Len(reads) = HeaderMessages /\ NotDecommitted(reads)
      /\ Len(proof) >= HeaderMessages /\ IsSeq(proof)
  BY <1>1, <1>2, <1>3 DEF WholeTranscript, Structure, VerifierReads, QueriesChosen, ProofGrows
<1>5. stage' \in {"inner layers", "last layer"} /\ (stage' = "last layer" => n_layers = 1)
  BY <1>1
<1>6. CurrentLayer' = 1
  <2>1. Len(reads) # 0
    BY <1>4, HeaderNumber
  <2>2. Last(reads)[1] # "authentication"
    BY <1>4, <2>1 DEF NotDecommitted, Last
  <2> QED  BY <1>1, <2>2 DEF CurrentLayer, LayerAfter
<1>7. /\ HeaderMessages \in HeaderMessages .. Len(proof) /\ EndsPart(HeaderMessages)
      /\ NextPart(HeaderMessages) = 1
  <2>1. HeaderMessages \in Nat /\ Len(proof) \in Nat
    BY <1>4, HeaderNumber DEF IsSeq
  <2>2. proof[HeaderMessages].what # "authentication"
    BY <1>2 DEF RightSoFar, ProofComplete
  <2>3. NextPart(HeaderMessages) = 1
    BY <2>2 DEF NextPart, LayerAfter, Header
  <2> QED  BY <1>4, <2>1, <2>3 DEF EndsPart
<1>8. ASSUME Undamaged'  PROVE VerifierRight'
  <2>1. Undamaged /\ damage.first_layer = {}
    BY <1>1, <1>8 DEF Undamaged, Intact, proverVars
  <2>2. IsSeq(v_transcript) /\ SamePoints /\ SameLast /\ query_indices = queries
    BY <1>1, <2>1 DEF RightSoFar, VerifierRight
  <2>3. Len(eval_points) = n_layers
    BY <2>2 DEF SameLast
  <2>4. \A j \in 1 .. params.n_queries :
          query_results'[j] = layers[1 + 1][IndexInLayer(query_indices[j], 1)]
    <3> SUFFICES ASSUME NEW j \in 1 .. params.n_queries
                 PROVE  query_results'[j] = layers[1 + 1][IndexInLayer(query_indices[j], 1)]
      OBVIOUS
    <3>1. PICK q, c, v : /\ q = query_indices[j] /\ c = CosetSize(0) /\ v = Vector(0)
      OBVIOUS
    <3>2. /\ q \in 0 .. LayerSize(1) - 1 /\ q \in Range(query_indices)
          /\ IndexInLayer(q, 1) = q
      <4>1. j \in 1 .. Len(query_indices)
        BY <1>4, ChoiceFacts
      <4>2. q \in 0 .. LayerSize(1) - 1 /\ q \in Range(query_indices)
        BY <1>4, <3>1, <4>1, ChoiceFacts
      <4> QED  BY <1>4, <4>2, IndexFacts
    <3>3. \A k \in 0 .. c - 1 : q * c + k \in 0 .. LayerSize(0) - 1 /\ (q * c + k) \div c = q
      <4>1. AsksCosets(FirstLayerQueries(query_indices), query_indices, params.n_queries,
                       c, LayerSize(0))
        BY <1>4, <3>1, FirstLayerFacts
      <4> QED  BY <3>1, <4>1 DEF AsksCosets
    <3>4. DOMAIN layers[1] = 0 .. LayerSize(0) - 1
      <4>1. 1 \in 1 .. Len(layers) /\ 1 - 1 = 0
        BY <1>3, <1>4 DEF WholeTranscript
      <4> QED  BY <1>3, <4>1 DEF WholeTranscript, LayersShaped
    <3>5. \A k \in 0 .. c - 1 : q * c + k \in Support
      BY <3>1, <3>2, <3>3, <3>4 DEF Support
    <3>6. v = [p \in Support |-> FirstLayerValue(p)]
      BY <1>4, <3>1, VectorOf
    <3>7. \A k \in 0 .. c - 1 : v[q * c + k] = layers[1][q * c + k]
      BY <2>1, <3>5, <3>6 DEF FirstLayerValue
    <3>8. 0 \in 0 .. n_layers - 1 /\ 0 + 1 = 1 /\ 0 + 2 = 1 + 1
      BY <1>4
    <3>9. FoldedAt(0, q) = layers[0 + 2][q]
      BY <1>3, <2>2, <2>3, <3>1, <3>2, <3>7, <3>8, FoldedRight
    <3>10. query_results'[j] = FoldedAt(0, IndexInLayer(q, 1))
      BY <3>1, FirstResult
    <3> QED  BY <3>1, <3>2, <3>8, <3>9, <3>10
  <2>5. ResultsRight(1)'
    BY <1>1, <1>3, <2>4, ResultsKept
  <2>6. SamePoints' /\ SameLast' /\ IsSeq(v_transcript') /\ query_indices' = queries'
    BY <1>1, <1>3, <2>2, PointsStay, LastStays
  <2>7. n_layers' = n_layers /\ HeaderMessages' = HeaderMessages
    BY <1>3, SameNumbers
  <2>8. stage' = "last layer" => Len(reads') = Len(proof') /\ ResultsRight(n_layers)'
    <3>1. CASE stage' = "last layer"
      <4>1. n_layers = 1
        BY <1>5, <3>1
      <4>2. HeaderMessages = Len(proof)
        BY <1>2, <1>4, <1>7, <4>1, PartsEnd
      <4> QED  BY <1>1, <1>3, <1>4, <2>5, <2>7, <4>1, <4>2
    <3> QED  BY <3>1
  <2>9. /\ Len(reads') \in HeaderMessages' .. Len(proof')
        /\ EndsPart(Len(reads))' /\ NextPart(Len(reads))' = 1
    <3>1. PICK n : n = Len(reads)
      OBVIOUS
    <3>2. n = Len(reads') /\ n = HeaderMessages
      BY <1>1, <1>4, <3>1
    <3>3. EndsPart(n)' /\ NextPart(n)' = 1
      BY <1>3, <1>7, <2>7, <3>2 DEF EndsPart, NextPart
    <3>4. EndsPart(Len(reads))'
      BY <3>2, <3>3 DEF EndsPart
    <3>5. NextPart(Len(reads))' = 1
      BY <3>2, <3>3 DEF NextPart
    <3> QED  BY <1>3, <1>7, <2>7, <3>2, <3>4, <3>5
  <2>10. stage' \notin Rejections \cup {"verifying", "choosing", "accepted", "first layer"}
    BY <1>5 DEF Rejections
  <2>11. stage' = "inner layers" => ResultsRight(CurrentLayer)'
    BY <1>6, <2>5
  <2> QED  BY <1>5, <1>6, <2>6, <2>8, <2>9, <2>10, <2>11 DEF VerifierRight
<1>9. stage' \notin Proving \cup {"decommitment", "proved"}
  BY <1>5, StagesApart DEF Folding
<1> QED  BY <1>1, <1>2, <1>8, <1>9, ProverRightSame

\* Of a right proof every cell of the verified ones is the committed value.
LEMMA RightCells ==
  ASSUME WholeTranscript, Undamaged, NEW i \in InnerLayers, query_indices \in IndexChoices,
         query_indices = queries, ResultsRight(i),
         NEW cells, cells = DataInOrder(queries, i),
         DOMAIN query_results = 1 .. params.n_queries,
         NEW n, n = Len(reads), n \in Nat, Follows(n, i), NEW tv, tv = ToVerify(cells, i)
  PROVE  \A cell \in DOMAIN tv : tv[cell] = Committed(i)[PlaceInLayer(cell, i)]
<1>1. Numbers /\ flaw = <<0, 0>> /\ damage.message = 0
  BY DEF WholeTranscript, Undamaged, Intact
<1>2. PICK u : u = OpenedLayer(i)
  OBVIOUS
<1>3. /\ ListsCells(cells, DataQueries(queries, i), i)
      /\ Len(u) = Len(cells) + 1 /\ Len(cells) \in Nat
      /\ \A k \in 1 .. Len(cells) : u[k] =
           Message("cell", i, cells[k], Committed(i)[PlaceInLayer(cells[k], i)])
  <2>1. /\ ListsCells(cells, DataQueries(queries, i), i)
        /\ Len(u) = Len(cells) + 1
        /\ \A k \in 1 .. Len(cells) : u[k] =
             Message("cell", i, cells[k], Committed(i)[PlaceInLayer(cells[k], i)])
    BY <1>1, <1>2, OpenedFacts
  <2> QED  BY <2>1 DEF ListsCells, IsSeq
<1>4. DOMAIN tv = Range(cells) \cup {CellOfQuery(j, i) : j \in DOMAIN query_results}
  BY DEF ToVerify
<1>5. ASSUME NEW cell \in Range(cells)
      PROVE  tv[cell] = Committed(i)[PlaceInLayer(cell, i)]
  <2>1. PICK k : k = CHOOSE h \in DOMAIN cells : cells[h] = cell
    OBVIOUS
  <2>2. k \in DOMAIN cells /\ cells[k] = cell
    BY <2>1 DEF Range
  <2>3. k \in 1 .. Len(cells) /\ k \in 1 .. Len(u)
    BY <1>3, <2>2 DEF ListsCells
  <2>4. tv[cell] = Received(n + k)
    BY <2>1, <1>4 DEF ToVerify
  <2>5. damage.message # n + k
    BY <1>1, <2>3
  <2>6. Received(n + k) = proof[n + k].value
    BY <2>5 DEF Received, Altered
  <2>7. proof[n + k] = u[k]
    BY <1>2, <2>3 DEF Follows
  <2>8. u[k].value = Committed(i)[PlaceInLayer(cells[k], i)]
    BY <1>3, <2>3, MessageFields
  <2> QED  BY <2>2, <2>4, <2>6, <2>7, <2>8
<1>6. ASSUME NEW j \in 1 .. params.n_queries
      PROVE  tv[CellOfQuery(j, i)] = Committed(i)[PlaceInLayer(CellOfQuery(j, i), i)]
  <2>1. PICK q, x : q = query_indices[j] /\ x = IndexInLayer(q, i)
    OBVIOUS
  <2>2. /\ q \in 0 .. LayerSize(1) - 1 /\ x \in 0 .. LayerSize(i) - 1
        /\ PlaceInLayer(IndexCell(q, i), i) = x
    <3>1. q \in 0 .. LayerSize(1) - 1
      BY <1>1, <2>1, ChoiceFacts
    <3> QED  BY <1>1, <2>1, <3>1, IndexCellFacts
  <2>3. PICK p \in 1 .. params.n_queries : GivesValue(p, j, i, tv)
    BY <1>1, <1>3, VerifiedCells
  <2>4. tv[IndexCell(q, i)] = query_results[p] /\ IndexInLayer(query_indices[p], i) = x
    BY <2>1, <2>3 DEF GivesValue
  <2>5. query_results[p] = layers[i + 1][x]
    BY <2>4 DEF ResultsRight
  <2>6. Committed(i)[x] = layers[i + 1][x]
    BY <1>1, <2>2, CommittedRight
  <2>7. CellOfQuery(j, i) = IndexCell(q, i)
    BY <2>1 DEF CellOfQuery, IndexCell
  <2> QED  BY <2>2, <2>4, <2>5, <2>6, <2>7
<1> QED  BY <1>4, <1>5, <1>6

LEMMA InnerRight ==
  ASSUME Structure, OpenedSoFar, RightSoFar, VerifyInnerLayer
  PROVE  RightSoFar'
<1>1. PICK i, cells, tv, n, l : /\ i = CurrentLayer /\ cells = DataInOrder(query_indices, i)
                                /\ tv = ToVerify(cells, i) /\ n = Len(reads)
                                /\ l = Len(reads')
  OBVIOUS
<1>2. /\ stage = "inner layers"
      /\ proverVars' = proverVars /\ damage' = damage /\ v_transcript' = v_transcript
      /\ eval_points' = eval_points /\ query_indices' = query_indices
      /\ expected_last_layer' = expected_last_layer
      /\ ~InProof(Len(cells) + 1) => stage' = "proof too short"
      /\ InProof(Len(cells) + 1) =>
           \E answer \in Answers(i, tv, l) :
             stage' = CASE ~answer -> "failed decommitment"
                        [] answer /\ i = n_layers - 1 -> "last layer"
                        [] OTHER -> stage
  BY <1>1 DEF VerifyInnerLayer, VerifierOnly
<1>3. stage \notin Proving \cup {"decommitment"} /\ stage \notin Proving
  BY <1>2, StagesApart DEF Folding
<1>4. /\ WholeTranscript /\ params' = params /\ transcript' = transcript /\ layers' = layers
      /\ queries' = queries /\ proof' = proof
  BY <1>2, <1>3, TranscriptIsWhole DEF proverVars
<1>5. /\ Numbers /\ query_indices \in IndexChoices /\ n_layers \in Nat \ {0}
      /\ i \in InnerLayers /\ IsSeq(proof) /\ n \in Nat /\ Len(proof) \in Nat
  BY <1>1, <1>2, <1>4
     DEF WholeTranscript, Structure, VerifierReads, QueriesChosen, ProofGrows, Folding, IsSeq
<1>6. ASSUME stage' = "proof too short" \/ stage' = "failed decommitment" \/ stage' \in Folding
      PROVE  stage' \notin Proving \cup {"decommitment", "proved"}
  BY <1>6, StagesApart DEF Rejections
<1>7. stage' = "proof too short" \/ stage' = "failed decommitment" \/ stage' \in Folding
  <2>1. CASE ~InProof(Len(cells) + 1)
    BY <1>2, <2>1
  <2>2. CASE InProof(Len(cells) + 1)
    <3>1. PICK answer : stage' = CASE ~answer -> "failed decommitment"
                        [] answer /\ i = n_layers - 1 -> "last layer"
                        [] OTHER -> stage
      BY <1>2, <2>2
    <3> QED  BY <1>2, <3>1 DEF Folding
  <2> QED  BY <2>1, <2>2
<1>8. ASSUME Undamaged'  PROVE VerifierRight'
  <2>1. Undamaged /\ damage.message = 0 /\ flaw = <<0, 0>>
    BY <1>2, <1>8 DEF Undamaged, Intact, proverVars
  <2>2. /\ IsSeq(v_transcript) /\ SamePoints /\ SameLast /\ query_indices = queries
        /\ ResultsRight(i) /\ n \in HeaderMessages .. Len(proof)
        /\ EndsPart(n) /\ NextPart(n) = i
    BY <1>1, <1>2, <2>1 DEF RightSoFar, VerifierRight, Folding
  <2>3. Follows(n, i)
    BY <1>3, <1>5, <2>2, PartsEnd
  <2>4. PICK u, m : u = OpenedLayer(i) /\ m = Len(cells)
    OBVIOUS
  <2>5. /\ ListsCells(cells, DataQueries(queries, i), i) /\ m \in Nat /\ Len(u) = m + 1
        /\ u[m + 1].what = "authentication" /\ u[m + 1].layer_num = i
        /\ u[m + 1].cell = <<>>
    <3>1. PICK none : none = <<>>
      OBVIOUS
    <3>2. /\ ListsCells(cells, DataQueries(queries, i), i) /\ Len(u) = m + 1
          /\ u[m + 1] = Message("authentication", i, none, Bytes)
      BY <1>1, <1>5, <2>2, <2>4, <3>1, OpenedFacts
    <3>3. m \in Nat
      BY <2>4, <3>2 DEF ListsCells, IsSeq
    <3> QED  BY <3>1, <3>2, <3>3, MessageFields
  <2>6. n + (m + 1) <= Len(proof) /\ \A k \in 1 .. m + 1 : proof[n + k] = u[k]
    BY <2>3, <2>4, <2>5 DEF Follows
  <2>7. InProof(Len(cells) + 1)
    BY <1>1, <2>4, <2>6 DEF InProof
  <2>8. stage' # "proof too short"
    <3>1. \A answer : stage' = (CASE ~answer -> "failed decommitment"
                        [] answer /\ i = n_layers - 1 -> "last layer"
                        [] OTHER -> stage) => stage' # "proof too short"
      BY <1>2
    <3> QED  BY <1>2, <2>7, <3>1
  <2>9. /\ l = (n + m) + 1 /\ l <= Len(proof) /\ CurrentLayer' = i + 1
        /\ DOMAIN query_results = 1 .. params.n_queries
    BY <1>1, <2>4, <2>8, LayerRead
  <2>10. proof[l] = u[m + 1] /\ l \in Nat
    <3>1. m + 1 \in 1 .. m + 1 /\ l = n + (m + 1) /\ l \in Nat
      BY <1>5, <2>5, <2>9
    <3> QED  BY <2>6, <3>1
  <2>11. Header(proof[l]) = <<"authentication", i, <<>>>>
    BY <2>5, <2>10 DEF Header
  <2>12. \A cell \in DOMAIN tv : tv[cell] = Committed(i)[PlaceInLayer(cell, i)]
    BY <1>1, <1>4, <1>5, <2>1, <2>2, <2>3, <2>9, RightCells
  <2>13. Answers(i, tv, l) = {TRUE}
    <3>1. ~Altered(i) /\ ~Altered(l)
      <4>1. i # 0 /\ l # 0
        BY <1>5, <2>5, <2>9, InnerNumbers
      <4> QED  BY <2>1, <4>1 DEF Altered
    <3> QED  BY <2>11, <2>12, <3>1 DEF Answers
  <2>14. PICK answer \in Answers(i, tv, l) :
           stage' = CASE ~answer -> "failed decommitment"
                      [] answer /\ i = n_layers - 1 -> "last layer"
                      [] OTHER -> stage
    BY <1>2, <2>7
  <2>15. /\ stage' \in {"inner layers", "last layer"} /\ stage' \in Folding
         /\ stage' = "last layer" => i = n_layers - 1
    BY <1>2, <2>13, <2>14 DEF Folding
  <2>16. stage' = "last layer" => i + 1 = n_layers
    <3>1. \A n1 \in Nat : \A k : k = n1 - 1 => k + 1 = n1
      OBVIOUS
    <3> QED  BY <1>5, <2>15, <3>1
  <2>17. ASSUME NEW j \in 1 .. params.n_queries
         PROVE  query_results'[j] = layers[(i + 1) + 1][IndexInLayer(query_indices[j], i + 1)]
    <3>1. PICK q, x, c, v : /\ q = query_indices[j] /\ x = IndexInLayer(q, i + 1)
                            /\ c = CosetSize(i) /\ v = Vector(i)
      OBVIOUS
    <3>2. x \in 0 .. LayerSize(i + 1) - 1
      <4>1. q \in 0 .. LayerSize(1) - 1
        BY <1>5, <3>1, ChoiceFacts
      <4> QED  BY <1>5, <3>1, <4>1, IndexCellFacts
    <3>3. query_results'[j] = FoldedAt(i, x)
      BY <1>1, <2>15, <3>1, LayerCompared
    <3>4. \A k \in 0 .. c - 1 : v[x * c + k] = layers[i + 1][x * c + k]
      <4>1. v = Committed(i)
        BY <1>5, <3>1, VectorOf
      <4>2. \A k \in 0 .. c - 1 : x * c + k \in 0 .. LayerSize(i) - 1
        <5> SUFFICES ASSUME NEW k \in 0 .. c - 1  PROVE x * c + k \in 0 .. LayerSize(i) - 1
          OBVIOUS
        <5>1. PICK cell : cell = <<x, k>>
          OBVIOUS
        <5>2. cell \in LayerCells(i)
          BY <3>1, <3>2, <5>1 DEF LayerCells
        <5>3. PlaceInLayer(cell, i) \in 0 .. LayerSize(i) - 1
          BY <1>5, <5>2, CellFacts
        <5>4. PlaceInLayer(cell, i) = x * c + k
          BY <3>1, <5>1 DEF PlaceInLayer
        <5> QED  BY <5>3, <5>4
      <4> QED  BY <1>4, <1>5, <2>1, <4>1, <4>2, CommittedRight
    <3>5. FoldedAt(i, x) = layers[i + 2][x]
      <4>1. i \in 0 .. n_layers - 1
        BY <1>5, InnerNumbers
      <4>2. Len(eval_points) = n_layers
        BY <2>2 DEF SameLast
      <4> QED  BY <1>4, <2>2, <3>1, <3>2, <3>4, <4>1, <4>2, FoldedRight
    <3>6. i + 2 = (i + 1) + 1
      BY <1>5, InnerNumbers
    <3> QED  BY <3>1, <3>3, <3>5, <3>6
  <2>18. ResultsRight(i + 1)'
    BY <1>2, <1>4, <2>17, ResultsKept
  <2>19. SamePoints' /\ SameLast' /\ IsSeq(v_transcript') /\ query_indices' = queries'
    BY <1>2, <1>4, <2>2, PointsStay, LastStays
  <2>20. n_layers' = n_layers /\ HeaderMessages' = HeaderMessages
    BY <1>4, SameNumbers
  <2>21. l \in HeaderMessages .. Len(proof) /\ EndsPart(l) /\ NextPart(l) = i + 1
    <3>1. HeaderMessages \in Nat
      BY <1>5, HeaderNumber
    <3>2. l >= HeaderMessages
      BY <1>5, <2>2, <2>5, <2>9, <3>1
    <3>3. NextPart(l) = i + 1
      BY <2>11 DEF NextPart, LayerAfter
    <3> QED  BY <1>5, <2>5, <2>9, <2>10, <3>1, <3>2, <3>3 DEF EndsPart
  <2>22. stage' = "last layer" => Len(reads') = Len(proof') /\ ResultsRight(n_layers)'
    <3>1. CASE stage' = "last layer"
      <4>1. l = Len(proof)
        BY <1>3, <1>5, <2>16, <2>21, <3>1, PartsEnd
      <4> QED  BY <1>1, <1>4, <2>16, <2>18, <2>20, <3>1, <4>1
    <3> QED  BY <3>1
  <2>23. /\ Len(reads') \in HeaderMessages' .. Len(proof')
         /\ EndsPart(Len(reads))' /\ NextPart(Len(reads))' = i + 1
    <3>1. EndsPart(l)' /\ NextPart(l)' = i + 1
      BY <1>4, <2>20, <2>21 DEF EndsPart, NextPart
    <3>2. EndsPart(Len(reads))'
      BY <1>1, <3>1 DEF EndsPart
    <3>3. NextPart(Len(reads))' = i + 1
      BY <1>1, <3>1 DEF NextPart
    <3> QED  BY <1>1, <1>4, <2>20, <2>21, <3>2, <3>3
  <2>24. stage' \notin Rejections \cup {"verifying", "choosing", "accepted", "first layer"}
    BY <2>15 DEF Rejections
  <2>25. ResultsRight(CurrentLayer)'
    BY <2>9, <2>18
  <2> QED  BY <2>9, <2>15, <2>19, <2>22, <2>23, <2>24, <2>25 DEF VerifierRight
<1> QED  BY <1>2, <1>3, <1>6, <1>7, <1>8, ProverRightSame

LEMMA LastRight ==
  ASSUME Structure, OpenedSoFar, RightSoFar, VerifyLastLayer
  PROVE  RightSoFar'
<1>1. /\ stage = "last layer"
      /\ proverVars' = proverVars /\ damage' = damage /\ verifierVars' = verifierVars
      /\ stage' = IF \A j \in DOMAIN query_results : query_results[j] =
                       expected_last_layer[IndexInLayer(query_indices[j], n_layers)]
                  THEN "accepted" ELSE "inconsistent with the last layer"
  BY DEF VerifyLastLayer, VerifierOnly, Compared
<1>2. stage \notin Proving \cup {"decommitment"} /\ stage \notin Proving
  BY <1>1, StagesApart DEF Folding
<1>3. /\ WholeTranscript /\ params' = params /\ transcript' = transcript /\ proof' = proof
      /\ reads' = reads /\ eval_points' = eval_points /\ v_transcript' = v_transcript
  BY <1>1, <1>2, TranscriptIsWhole DEF proverVars, verifierVars
<1>4. /\ Numbers /\ query_indices \in IndexChoices /\ n_layers \in Nat \ {0}
      /\ DOMAIN query_results = 1 .. params.n_queries
  <2>1. IsSeq(query_results) /\ Len(query_results) = params.n_queries
    BY <1>1 DEF Structure, VerifierReads, QueriesChosen, Folding
  <2>2. query_indices \in IndexChoices
    BY <1>1 DEF Structure, QueriesChosen, Folding
  <2> QED  BY <1>3, <2>1, <2>2, SeqOfElements DEF WholeTranscript
<1>5. stage' \in {"accepted", "inconsistent with the last layer"}
  BY <1>1
<1>6. stage' \notin Proving \cup {"decommitment", "proved"}
  BY <1>5 DEF Proving
<1>7. ASSUME Undamaged'  PROVE VerifierRight'
  <2>1. Undamaged
    BY <1>1, <1>7 DEF Undamaged, Intact, proverVars
  <2>2. /\ IsSeq(v_transcript) /\ SamePoints /\ SameLast /\ ResultsRight(n_layers)
        /\ Len(reads) = Len(proof)
    BY <1>1, <2>1 DEF RightSoFar, VerifierRight, Folding
  <2>3. ASSUME NEW j \in DOMAIN query_results
        PROVE  query_results[j] = expected_last_layer[IndexInLayer(query_indices[j], n_layers)]
    <3>1. PICK q, x : q = query_indices[j] /\ x = IndexInLayer(q, n_layers)
      OBVIOUS
    <3>2. q \in 0 .. LayerSize(1) - 1
      <4>1. j \in 1 .. Len(query_indices)
        BY <1>4, ChoiceFacts
      <4> QED  BY <1>4, <3>1, <4>1, ChoiceFacts
    <3>3. x \in 0 .. LayerSize(n_layers) - 1
      <4>1. n_layers \in 1 .. n_layers
        BY <1>4
      <4> QED  BY <1>4, <3>1, <3>2, <4>1, IndexFacts
    <3>4. query_results[j] = layers[n_layers + 1][x]
      BY <1>4, <2>2, <3>1 DEF ResultsRight
    <3>5. expected_last_layer[x] = layers[n_layers + 1][x]
      BY <2>2, <3>3 DEF SameLast
    <3> QED  BY <3>1, <3>4, <3>5
  <2>4. stage' = "accepted"
    BY <1>1, <2>3
  <2>5. SamePoints'
    BY <1>3, <2>2, PointsStay
  <2>6. stage' \notin Rejections \cup {"verifying", "choosing", "first layer"}
    BY <2>4 DEF Rejections
  <2>7. stage' # "inner layers" /\ stage' # "last layer"
    BY <2>4
  <2>8. query_indices' = queries' /\ SameLast'
    <3>1. query_indices = queries
      BY <1>1, <2>1 DEF RightSoFar, VerifierRight, Folding
    <3>2. query_indices' = queries'
      BY <1>1, <3>1 DEF verifierVars, proverVars
    <3>3. layers' = layers /\ expected_last_layer' = expected_last_layer
      BY <1>1 DEF verifierVars, proverVars
    <3> QED  BY <1>3, <2>2, <3>2, <3>3, LastStays
  <2> QED  BY <1>3, <2>2, <2>5, <2>6, <2>7, <2>8 DEF VerifierRight
<1> QED  BY <1>1, <1>2, <1>6, <1>7, ProverRightSame

LEMMA VerifierRightSame ==
  ASSUME vars' = vars, VerifierRight
  PROVE  VerifierRight'
<1>1. /\ params' = params /\ layers' = layers /\ transcript' = transcript /\ proof' = proof
      /\ queries' = queries /\ v_transcript' = v_transcript /\ reads' = reads
      /\ eval_points' = eval_points /\ expected_last_layer' = expected_last_layer
      /\ query_indices' = query_indices /\ query_results' = query_results /\ stage' = stage
  BY DEF vars, proverVars, verifierVars
<1>2. /\ SamePoints'
      /\ SameLast => SameLast'
  BY <1>1, PointsStay, LastStays DEF VerifierRight
<1>3. \A i : ResultsRight(i) => ResultsRight(i)'
  <2> SUFFICES ASSUME NEW i, ResultsRight(i)  PROVE ResultsRight(i)'
    OBVIOUS
  <2>1. \A j \in 1 .. params.n_queries :
          query_results'[j] = layers[i + 1][IndexInLayer(query_indices[j], i)]
    BY <1>1 DEF ResultsRight
  <2> QED  BY <1>1, <2>1, ResultsKept
<1>4. PICK n, c, l : n = n_layers /\ c = CurrentLayer /\ l = Len(eval_points)
  OBVIOUS
<1>5. /\ n = n_layers' /\ c = CurrentLayer' /\ HeaderMessages' = HeaderMessages
      /\ l = Len(eval_points') /\ LastPlace' = LastPlace /\ LogLength(l)' = LogLength(l)
  BY <1>1, <1>4, SameNumbers, PlacesSame DEF CurrentLayer
<1>6. stage = "verifying" => Len(v_transcript') = LogLength(Len(eval_points))'
  BY <1>1, <1>4, <1>5 DEF VerifierRight
<1>7. ResultsRight(CurrentLayer) => ResultsRight(CurrentLayer)'
  <2>1. ResultsRight(c) => ResultsRight(c)'
    BY <1>3
  <2> QED  BY <1>4, <1>5, <2>1 DEF ResultsRight
<1>8. ResultsRight(n_layers) => ResultsRight(n_layers)'
  <2>1. ResultsRight(n) => ResultsRight(n)'
    BY <1>3
  <2> QED  BY <1>4, <1>5, <2>1 DEF ResultsRight
<1>9. /\ EndsPart(Len(reads)) => EndsPart(Len(reads))'
      /\ NextPart(Len(reads))' = NextPart(Len(reads))
  BY <1>1, <1>5 DEF EndsPart, NextPart
<1>10. stage = "inner layers" =>
        /\ ResultsRight(CurrentLayer)'
        /\ Len(reads') \in HeaderMessages' .. Len(proof')
        /\ EndsPart(Len(reads))' /\ NextPart(Len(reads))' = CurrentLayer'
  <2> SUFFICES ASSUME stage = "inner layers"
               PROVE  /\ ResultsRight(CurrentLayer)'
                      /\ Len(reads') \in HeaderMessages' .. Len(proof')
                      /\ EndsPart(Len(reads))' /\ NextPart(Len(reads))' = CurrentLayer'
    OBVIOUS
  <2>1. /\ ResultsRight(CurrentLayer) /\ Len(reads) \in HeaderMessages .. Len(proof)
        /\ EndsPart(Len(reads)) /\ NextPart(Len(reads)) = CurrentLayer
    BY DEF VerifierRight
  <2>2. CurrentLayer' = CurrentLayer
    BY <1>4, <1>5
  <2> QED  BY <1>1, <1>5, <1>7, <1>9, <2>1, <2>2
<1> QED  BY <1>1, <1>2, <1>5, <1>6, <1>8, <1>10 DEF VerifierRight

LEMMA TurnSame ==
  ASSUME params' = params, transcript' = transcript, layers' = layers, NEW i, TurnTaken(i)
  PROVE  TurnTaken(i)'
<1>1. PICK place, pt, cur, nxt : /\ place = DrawPlace(i) /\ pt = Drawn(Until(place))
                                 /\ cur = layers[i + 1] /\ nxt = layers[i + 2]
  OBVIOUS
<1>2. /\ DrawPlace(i)' = place /\ PointDrawn(i)' = PointDrawn(i) /\ n_layers' = n_layers
      /\ cur = layers'[i + 1] /\ nxt = layers'[i + 2]
  BY <1>1, PlacesSame, SameNumbers
<1>3. pt = Drawn([p \in 1 .. place |-> transcript'[p]])
  BY <1>1 DEF Until
<1>4. nxt = CreateNextFriLayer(cur, i, pt)'
  <2>1. nxt = CreateNextFriLayer(cur, i, pt)
    BY <1>1 DEF TurnTaken
  <2> QED  BY <2>1, NextLayerSame
<1> QED  BY <1>1, <1>2, <1>3, <1>4 DEF TurnTaken, Until

LEMMA StutterRight ==
  ASSUME Structure, RightSoFar, vars' = vars
  PROVE  RightSoFar'
<1>1. /\ params' = params /\ layers' = layers /\ transcript' = transcript /\ proof' = proof
      /\ queries' = queries /\ v_transcript' = v_transcript /\ stage' = stage
      /\ flaw' = flaw /\ damage' = damage
  BY DEF vars, proverVars, verifierVars
<1>2. PICK n, l, t : n = n_layers /\ l = Len(layers) /\ t = Len(layers) - 1
  OBVIOUS
<1>3. /\ n = n_layers' /\ l = Len(layers') /\ t = Len(layers') - 1
      /\ LastPlace' = LastPlace /\ LogLength(t)' = LogLength(t)
      /\ HeaderMessages' = HeaderMessages /\ Numbers
  BY <1>1, <1>2, SameNumbers, PlacesSame, RightNumbers DEF Structure
<1>4. TranscriptGrows'
  <2>1. \A i \in 0 .. l - 2 : TurnTaken(i)'
    <3>1. \A i \in 0 .. l - 2 : TurnTaken(i)
      BY <1>2 DEF RightSoFar, TranscriptGrows
    <3> QED  BY <1>1, <3>1, TurnSame
  <2>2. stage' = "commitment" => Len(transcript') = LogLength(Len(layers) - 1)'
    <3>1. stage = "commitment" => Len(transcript) = LogLength(t)
      BY <1>2 DEF RightSoFar, TranscriptGrows
    <3>2. LogLength(Len(layers) - 1)' = LogLength(t)'
      BY <1>3 DEF LogLength
    <3> QED  BY <1>1, <1>3, <3>1, <3>2
  <2>3. /\ IsSeq(transcript)
        /\ stage = "query" => Len(transcript) = LastPlace + 1
        /\ stage \notin Proving =>
             Len(transcript) = IF params.proof_of_work_bits = 0 THEN LastPlace + 1
                               ELSE LastPlace + 2
        /\ stage \notin Proving \/ stage = "query" =>
             transcript[LastPlace + 1] = <<"coefficients", n>>
        /\ stage \notin Proving /\ params.proof_of_work_bits # 0 =>
             transcript[LastPlace + 2] = <<"nonce", 0>>
    BY <1>2 DEF RightSoFar, TranscriptGrows
  <2> QED  BY <1>1, <1>3, <2>1, <2>2, <2>3 DEF TranscriptGrows
<1>5. ProofComplete'
  <2>1. \A p : EndsPart(p)' = EndsPart(p) /\ NextPart(p)' = NextPart(p)
    BY <1>1, <1>3 DEF EndsPart, NextPart
  <2>2. ASSUME stage \notin Proving, NEW p \in HeaderMessages .. Len(proof), EndsPart(p)
        PROVE  IF p = Len(proof) THEN stage # "decommitment" => NextPart(p) = n
                                 ELSE Continues(p)'
    <3>1. /\ p = Len(proof) => (stage # "decommitment" => NextPart(p) = n)
          /\ p # Len(proof) => Continues(p)
      BY <1>2, <2>2 DEF RightSoFar, ProofComplete
    <3>2. CASE p # Len(proof)
      <4>1. /\ IsSeq(proof) /\ Len(proof) \in Nat /\ HeaderMessages \in Nat \ {0}
            /\ queries \in IndexChoices
        BY <1>3, <2>2, HeaderNumber DEF Structure, ProofGrows, IsSeq
      <4>2. p \in Nat /\ p \in 1 .. Len(proof)
        BY <2>2, <4>1
      <4>3. Continues(p)'
        BY <1>1, <1>3, <3>1, <3>2, <4>1, <4>2, ContinuesStays
      <4> QED  BY <3>2, <4>3
    <3> QED  BY <3>1, <3>2
  <2>3. stage' \notin Proving =>
          \A p \in HeaderMessages' .. Len(proof') : EndsPart(p)' =>
            IF p = Len(proof') THEN stage' # "decommitment" => NextPart(p)' = n_layers'
                               ELSE Continues(p)'
    BY <1>1, <1>3, <2>1, <2>2
  <2>4. /\ stage' \notin Proving \/ stage' = "query" =>
             proof'[n_layers'].value = layers'[n_layers' + 1]
        /\ stage' \notin Proving => proof'[HeaderMessages'].what # "authentication"
    BY <1>1, <1>2, <1>3 DEF RightSoFar, ProofComplete
  <2> QED  BY <2>3, <2>4 DEF ProofComplete
<1>6. Undamaged' => VerifierRight'
  <2>1. Undamaged' => Undamaged
    BY <1>1 DEF Undamaged, Intact
  <2> QED  BY <2>1, VerifierRightSame DEF RightSoFar
<1> QED  BY <1>1, <1>4, <1>5, <1>6 DEF RightSoFar

LEMMA InitRight == Init => RightSoFar
<1> SUFFICES ASSUME Init  PROVE RightSoFar
  OBVIOUS
<1>1. PICK l, none : l = [k \in 0 .. Pow2[LogDomainSize] - 1 |-> <<k>>] /\ none = <<>>
  OBVIOUS
<1>2. /\ layers = <<l>> /\ transcript = none /\ v_transcript = none /\ eval_points = none
      /\ stage = "commitment"
  BY <1>1 DEF Init
<1>3. Len(layers) = 1 /\ IsSeq(none) /\ Len(none) = 0
  BY <1>1, <1>2, NoElements
<1>4. Len(layers) - 1 = 0 /\ 0 .. Len(layers) - 2 = {} /\ 0 .. Len(none) - 1 = {}
  BY <1>3
<1>5. TranscriptGrows
  BY <1>2, <1>3, <1>4, StagesApart DEF TranscriptGrows, LogLength
<1>6. ProofComplete
  BY <1>2, StagesApart DEF ProofComplete
<1>7. VerifierRight
  <2>1. stage \notin Rejections \cup {"verifying", "choosing", "first layer"} \cup Folding
    BY <1>2 DEF Rejections, Folding
  <2>2. SamePoints
    BY <1>2, <1>4 DEF SamePoints
  <2> QED  BY <1>2, <1>3, <2>1, <2>2 DEF VerifierRight, Folding
<1> QED  BY <1>1, <1>2, <1>5, <1>6, <1>7 DEF RightSoFar

LEMMA NextRight ==
  ASSUME Structure, OpenedSoFar, RightSoFar, [Next]_vars
  PROVE  RightSoFar'
<1>1. CASE CommitLayer
  BY <1>1, CommitRight
<1>2. CASE SendLastLayer
  BY <1>2, SendLastRight
<1>3. CASE ProverChooseQueryIndices
  BY <1>3, ChooseRight
<1>4. CASE DecommitLayer
  BY <1>4, DecommitRight
<1>5. CASE Deliver
  BY <1>5, DeliverRight
<1>6. CASE ReadLayerCommitment
  BY <1>6, ReadLayerRight
<1>7. CASE ReadLastLayerCoefficients
  BY <1>7, ReadLastRight
<1>8. CASE VerifierChooseQueryIndices
  BY <1>8, VerifierChoosesRight
<1>9. CASE VerifyFirstLayer
  BY <1>9, FirstRight
<1>10. CASE VerifyInnerLayer
  BY <1>10, InnerRight
<1>11. CASE VerifyLastLayer
  BY <1>11, LastRight
<1>12. CASE vars' = vars
  BY <1>12, StutterRight
<1> QED
  BY <1>1, <1>2, <1>3, <1>4, <1>5, <1>6, <1>7, <1>8, <1>9, <1>10, <1>11, <1>12 DEF Next

\* Completeness, for all parameters, queries and transcripts: a proof of a low-degree
\* witness that was neither altered nor flawed passes every check of VerifyFri, and the
\* verifier has read the whole of it when it accepts.
THEOREM RightAccepted == Spec => []RightProofAccepted
<1>1. Init => RightSoFar
  BY InitRight
<1>2. Structure /\ OpenedSoFar /\ RightSoFar /\ [Next]_vars => RightSoFar'
  BY NextRight
<1>3. RightSoFar => RightProofAccepted
  <2> SUFFICES ASSUME RightSoFar, Undamaged
               PROVE  /\ stage \notin Rejections
                      /\ stage = "accepted" => Len(reads) = Len(proof)
    BY DEF RightProofAccepted, Undamaged
  <2> QED  BY DEF RightSoFar, VerifierRight
<1> QED  BY <1>1, <1>2, <1>3, FriStructure, OpenedInvariant, PTL DEF Spec
=============================================================================
