----------------------- MODULE CompositionOracleProofs -----------------------
(***************************************************************************)
(* Proofs about the trace commitment and the composition oracle, for all   *)
(* sizes, masks, task sizes, numbers of threads and queries: rows are      *)
(* committed to in the order of FRI's domain, the tasks write the          *)
(* composition polynomial's values there, and the verifier computes the    *)
(* same from what the prover opens.                                        *)
(***************************************************************************)
EXTENDS CompositionOracle, Elementary

\* Point j of coset c, in natural order.
Point(c, j) == CosetOffset(c) + NumCosets * j

\* What the tasks of Commit have made of coset c of trace t, and the table's rows.
Entry(t, c) == Evaluated(t, CosetOffset(c))

Rows(t, c) == IF IsEvalNaturallyOrdered(t) THEN Reordered(Entry(t, c)) ELSE Entry(t, c)

\* What Commit has done on trace t with coset c, by where its task is.
CommitAt(t, c) ==
  \/ pc[c] = "start" /\ cache[t][c] = Nothing /\ segments[t][c] = Nothing
  \/ pc[c] = "allocated" /\ cache[t][c] = AllocatedEntry(t) /\ segments[t][c] = Nothing
  \/ pc[c] = "evaluated" /\ cache[t][c] = Entry(t, c) /\ segments[t][c] = Nothing
  \/ pc[c] = "added" /\ cache[t][c] = Entry(t, c) /\ segments[t][c] = Rows(t, c)

Committed(t, c) == cache[t][c] = Entry(t, c) /\ segments[t][c] = Rows(t, c)

NotYet(t, c) == cache[t][c] = Nothing /\ segments[t][c] = Nothing

CommitRight ==
  /\ stage = "commit" =>
       /\ current \in Traces
       /\ \A t \in Traces, c \in Cosets :
            /\ t < current => Committed(t, c)
            /\ t = current => CommitAt(t, c)
            /\ t > current => NotYet(t, c)
  /\ stage # "commit" => \A t \in Traces, c \in Cosets : Committed(t, c)

Threads == 1 .. setup.n_threads

\* A thread's memory holds what belongs to the point it evaluates next.
MemoryAt(idx) == [powers |-> PointPowers(Point(current, idx)), periodic |-> idx % Period]

TaskRight(thread) ==
  /\ stage = "evaluating"
  /\ running[thread] \in [next : Nat, end : Nat]
  /\ running[thread].next < running[thread].end
  /\ running[thread].end <= TraceSize
  /\ worker_mem[thread] = MemoryAt(running[thread].next)

TasksRight ==
  /\ stage = "evaluating" => current \in 0 .. setup.n_cosets - 1
  /\ \A thread \in Threads : running[thread] # Nothing => TaskRight(thread)

\* Where point idx of coset c is written.
Slot(c, idx) == c * TraceSize + OutputIndex(idx)

Written(c, idx) == evaluation[Slot(c, idx)] = CompositionAt(Point(c, idx))

EvaluationRight ==
  \A c \in 0 .. setup.n_cosets - 1, idx \in Offsets :
    Written(c, idx) \/ evaluation[Slot(c, idx)] = Uninitialized

\* A point of the current coset is written, or in a task that is to start or runs.
Pending(idx) ==
  \/ idx \div setup.task_size \in todo
  \/ \E thread \in Threads :
       /\ running[thread] # Nothing
       /\ running[thread].next <= idx
       /\ idx < running[thread].end

AllWritten ==
  /\ stage = "evaluating" =>
       \A idx \in Offsets :
         /\ \A c \in 0 .. setup.n_cosets - 1 : c < current => Written(c, idx)
         /\ Written(current, idx) \/ Pending(idx)
  /\ stage \in {"evaluated", "opened", "verified"} =>
       \A c \in 0 .. setup.n_cosets - 1, idx \in Offsets : Written(c, idx)

\* The prover opens all the cells of the queries, as committed.
OpenedRight ==
  \A t \in Traces :
    /\ DOMAIN opened[t] = DataQueries(t, queries)
    /\ \A cell \in DataQueries(t, queries) :
         opened[t][cell] = Rows(t, cell[1] \div TraceSize)[cell[2]][cell[1] % TraceSize]

QueriesRight ==
  /\ queries \in Seq(Cosets \X Offsets)
  /\ stage \in {"opened", "verified"} => setup.n_cosets = NumCosets
  /\ stage = "opened" => OpenedRight
  /\ stage = "verified" =>
       \A i \in DOMAIN queries :
         oracle_evaluations[i] =
           CompositionAt(Point(queries[i][1], OutputIndex(queries[i][2])))

Shapes ==
  /\ setup \in Setups
  /\ lde_manager \in [Traces -> BOOLEAN]
  /\ DOMAIN cache = Traces /\ DOMAIN segments = Traces
  /\ \A t \in Traces : DOMAIN cache[t] = Cosets /\ DOMAIN segments[t] = Cosets
  /\ pc \in [Cosets -> {"start", "allocated", "evaluated", "added"}]
  /\ current \in Nat
  /\ todo \subseteq Tasks
  /\ DOMAIN running = Threads /\ DOMAIN worker_mem = Threads
  /\ \A thread \in Threads : worker_mem[thread] # Uninitialized =>
       /\ worker_mem[thread].powers[1] \in Points
       /\ worker_mem[thread].periodic \in 0 .. Period - 1
  /\ DOMAIN evaluation = 0 .. setup.n_cosets * TraceSize - 1
  /\ stage \in {"commit", "committed", "evaluating", "evaluated", "opened", "verified"}

IInv ==
  /\ Shapes
  /\ CommitRight
  /\ TasksRight
  /\ EvaluationRight
  /\ AllWritten
  /\ QueriesRight

-----------------------------------------------------------------------------
(* Powers of two and reversed bits. *)

LEMMA Pow2Powers == Powers(Pow2, MaxLogSize)
<1> DEFINE P(f) == f = [n \in 0 .. MaxLogSize |-> IF n = 0 THEN 1 ELSE 2 * f[n - 1]]
<1>1. MaxLogSize \in Nat
  BY SetupAssumption
<1>2. PICK f : P(f)
  BY <1>1, PowersExist DEF Powers
<1>3. Pow2 = CHOOSE p : P(p)
  BY DEF Pow2
<1>4. P(Pow2)
  BY <1>2, <1>3
<1> HIDE DEF Pow2
<1> QED  BY <1>1, <1>4 DEF Powers

LEMMA Pow2Facts ==
  /\ MaxLogSize \in Nat
  /\ Pow2[0] = 1
  /\ \A h \in 1 .. MaxLogSize : h - 1 \in 0 .. MaxLogSize /\ Pow2[h] = 2 * Pow2[h - 1]
  /\ \A h \in 0 .. MaxLogSize : Pow2[h] \in Nat \ {0}
BY Pow2Powers, PowersFacts

LEMMA Pow2Product ==
  ASSUME NEW g \in Nat, NEW h \in Nat, g + h <= MaxLogSize
  PROVE  Pow2[g + h] = Pow2[g] * Pow2[h]
<1>1. MaxLogSize \in Nat
  BY Pow2Facts
<1>2. g \in 0 .. MaxLogSize /\ g + h \in 0 .. MaxLogSize /\ g <= g + h /\ (g + h) - g = h
  BY <1>1
<1>3. \A d, e \in 0 .. MaxLogSize : d <= e => Pow2[d] * Pow2[e - d] = Pow2[e]
  BY Pow2Powers, PowersProduct
<1>4. Pow2[g] * Pow2[(g + h) - g] = Pow2[g + h]
  BY <1>2, <1>3
<1> QED  BY <1>2, <1>4

\* How BitReverse is computed.
LEMMA BitsFacts ==
  ASSUME NEW n, NEW bits \in Nat
  PROVE  \E f : Bits(f, n, bits) /\ BitReverse(n, bits) = f[bits].reversed
<1> DEFINE P(f) == BitsDefined(f, n, bits)
           g == CHOOSE f : P(f)
<1>1. P(g)
  <2>1. \E f : P(f)
    BY BitsExist
  <2> HIDE DEF P
  <2> QED  BY <2>1
<1>2. BitReverse(n, bits) = g[bits].reversed
  BY DEF BitReverse, NextBit, NoBits, BitsDefined
<1> HIDE DEF g
<1>3. \A k \in 0 .. bits : g[k] = IF k = 0 THEN NoBits(n) ELSE NextBit(g[k - 1])
  BY <1>1 DEF BitsDefined
<1>4. 0 \in 0 .. bits /\ \A k \in 1 .. bits : k \in 0 .. bits /\ k # 0
  OBVIOUS
<1>5. Bits(g, n, bits)
  BY <1>3, <1>4 DEF Bits
<1> QED  BY <1>2, <1>5

\* After j steps.
BitsSoFar(f, j) == f[j].reversed \in 0 .. Pow2[j] - 1 /\ f[j].rest \in Nat

LEMMA BitsBounded ==
  ASSUME NEW n \in Nat, NEW bits \in 0 .. MaxLogSize, NEW f, Bits(f, n, bits)
  PROVE  \A j \in 0 .. bits : BitsSoFar(f, j)
<1> DEFINE S == {j \in 0 .. bits : ~BitsSoFar(f, j)}
<1>0. MaxLogSize \in Nat /\ bits \in Nat
  BY Pow2Facts
<1>1. S = {}
  <2>1. SUFFICES ASSUME S # {}  PROVE FALSE
    OBVIOUS
  <2>2. PICK j \in S : \A h \in S : j <= h
    <3>1. S \in SUBSET Nat
      BY <1>0
    <3> HIDE DEF S
    <3> QED  BY <2>1, <3>1, LeastOf
  <2>3. j # 0
    <3>1. f[0].reversed = 0 /\ f[0].rest = n
      BY DEF Bits, NoBits
    <3>2. BitsSoFar(f, 0)
      BY <3>1, Pow2Facts DEF BitsSoFar
    <3> QED  BY <2>2, <3>2
  <2>4. j \in 1 .. bits /\ j - 1 \in 0 .. bits /\ j - 1 \notin S /\ j \in 1 .. MaxLogSize
    BY <1>0, <2>2, <2>3
  <2>5. f[j] = NextBit(f[j - 1])
    BY <2>4 DEF Bits
  <2>6. PICK r, s : r = f[j - 1].reversed /\ s = f[j - 1].rest
    OBVIOUS
  <2>7. f[j].reversed = 2 * r + (s % 2) /\ f[j].rest = s \div 2
    BY <2>5, <2>6 DEF NextBit
  <2>8. r \in 0 .. Pow2[j - 1] - 1 /\ s \in Nat
    BY <2>4, <2>6 DEF BitsSoFar
  <2>9. PICK p \in Nat : p = Pow2[j - 1] /\ Pow2[j] = 2 * p
    BY <2>4, Pow2Facts
  <2>10. s % 2 \in 0 .. 1 /\ s \div 2 \in Nat
    BY <2>8
  <2>11. 2 * r + (s % 2) \in 0 .. 2 * p - 1
    BY <2>8, <2>9, <2>10
  <2>12. BitsSoFar(f, j)
    BY <2>7, <2>9, <2>10, <2>11 DEF BitsSoFar
  <2> QED  BY <2>2, <2>12
<1> QED  BY <1>1

LEMMA ReverseBounded ==
  ASSUME NEW n \in Nat, NEW bits \in 0 .. MaxLogSize
  PROVE  BitReverse(n, bits) \in 0 .. Pow2[bits] - 1
<1>1. bits \in Nat
  BY Pow2Facts
<1>2. PICK f : Bits(f, n, bits) /\ BitReverse(n, bits) = f[bits].reversed
  BY <1>1, BitsFacts
<1>3. BitsSoFar(f, bits)
  BY <1>1, <1>2, BitsBounded
<1> QED  BY <1>2, <1>3 DEF BitsSoFar

LEMMA HalfOfSum ==
  ASSUME NEW w \in Nat, NEW p \in Nat, NEW s \in 0 .. 2 * p - 1
  PROVE  /\ (2 * w + s) % 2 = s % 2 /\ (2 * w + s) \div 2 = w + (s \div 2)
         /\ s \div 2 \in 0 .. p - 1
OBVIOUS

\* The lower bits come out first, whatever the bits above them.
LowSteps(f, g, a, c, j) ==
  /\ f[j].reversed = g[j].reversed
  /\ g[j].rest \in 0 .. Pow2[a - j] - 1
  /\ f[j].rest = c * Pow2[a - j] + g[j].rest

LEMMA LowBitsFirst ==
  ASSUME NEW a \in 0 .. MaxLogSize, NEW bits \in Nat, a <= bits,
         NEW c \in Nat, NEW o \in 0 .. Pow2[a] - 1,
         NEW f, Bits(f, c * Pow2[a] + o, bits), NEW g, Bits(g, o, a)
  PROVE  \A j \in 0 .. a : LowSteps(f, g, a, c, j)
<1> DEFINE S == {j \in 0 .. a : ~LowSteps(f, g, a, c, j)}
<1>0. MaxLogSize \in Nat /\ a \in Nat
  BY Pow2Facts
<1>1. S = {}
  <2>1. SUFFICES ASSUME S # {}  PROVE FALSE
    OBVIOUS
  <2>2. PICK j \in S : \A h \in S : j <= h
    <3>1. S \in SUBSET Nat
      BY <1>0
    <3> HIDE DEF S
    <3> QED  BY <2>1, <3>1, LeastOf
  <2>3. j # 0
    <3>1. f[0].reversed = 0 /\ f[0].rest = c * Pow2[a] + o
      BY DEF Bits, NoBits
    <3>2. g[0].reversed = 0 /\ g[0].rest = o
      BY DEF Bits, NoBits
    <3>3. a - 0 = a
      BY <1>0
    <3>4. LowSteps(f, g, a, c, 0)
      BY <3>1, <3>2, <3>3 DEF LowSteps
    <3> QED  BY <2>2, <3>4
  <2>4. /\ j \in 1 .. a /\ j \in 1 .. bits /\ j - 1 \in 0 .. a /\ j - 1 \notin S
        /\ a - (j - 1) \in 1 .. MaxLogSize /\ (a - (j - 1)) - 1 = a - j
        /\ a - j \in 0 .. MaxLogSize
    BY <1>0, <2>2, <2>3
  <2>5. f[j] = NextBit(f[j - 1]) /\ g[j] = NextBit(g[j - 1])
    BY <2>4 DEF Bits
  <2>6. PICK r, s, u : r = g[j - 1].reversed /\ s = g[j - 1].rest /\ u = f[j - 1].rest
    OBVIOUS
  <2>7. f[j - 1].reversed = r
    BY <2>4, <2>6 DEF LowSteps
  <2>8. /\ f[j].reversed = 2 * r + (u % 2) /\ f[j].rest = u \div 2
        /\ g[j].reversed = 2 * r + (s % 2) /\ g[j].rest = s \div 2
    BY <2>5, <2>6, <2>7 DEF NextBit
  <2>9. PICK p \in Nat : p = Pow2[a - j] /\ Pow2[a - (j - 1)] = 2 * p
    BY <2>4, Pow2Facts
  <2>10. s \in 0 .. 2 * p - 1 /\ u = c * (2 * p) + s
    BY <2>4, <2>6, <2>9 DEF LowSteps
  <2>11. PICK w \in Nat : w = c * p
    OBVIOUS
  <2>12. u = 2 * w + s
    BY <2>9, <2>10, <2>11
  <2>13. u % 2 = s % 2 /\ u \div 2 = w + (s \div 2) /\ s \div 2 \in 0 .. p - 1
    <3>1. w \in Nat /\ p \in Nat /\ s \in 0 .. 2 * p - 1
      BY <2>9, <2>10, <2>11
    <3>2. /\ (2 * w + s) % 2 = s % 2 /\ (2 * w + s) \div 2 = w + (s \div 2)
          /\ s \div 2 \in 0 .. p - 1
      BY <3>1, HalfOfSum
    <3> QED  BY <2>12, <3>2
  <2>14. LowSteps(f, g, a, c, j)
    BY <2>8, <2>9, <2>11, <2>13 DEF LowSteps
  <2> QED  BY <2>2, <2>14
<1> QED  BY <1>1

\* The higher bits come out after them as they would alone.
HighSteps(f, h, a, j) ==
  /\ f[a + j].reversed = f[a].reversed * Pow2[j] + h[j].reversed
  /\ f[a + j].rest = h[j].rest

LEMMA HighBitsLast ==
  ASSUME NEW a \in Nat, NEW b \in Nat, a + b <= MaxLogSize, NEW n \in Nat, NEW c \in Nat,
         NEW f, Bits(f, n, a + b), NEW h, Bits(h, c, b), f[a].rest = c
  PROVE  \A j \in 0 .. b : HighSteps(f, h, a, j)
<1> DEFINE S == {j \in 0 .. b : ~HighSteps(f, h, a, j)}
<1>0. MaxLogSize \in Nat /\ a + b \in 0 .. MaxLogSize /\ b \in 0 .. MaxLogSize /\ a \in 0 .. a + b
  BY Pow2Facts
<1>1. (\A j \in 0 .. a + b : BitsSoFar(f, j)) /\ (\A j \in 0 .. b : BitsSoFar(h, j))
  BY <1>0, BitsBounded
<1>2. PICK q \in Nat : q = f[a].reversed
  BY <1>0, <1>1, Pow2Facts DEF BitsSoFar
<1>3. S = {}
  <2>1. SUFFICES ASSUME S # {}  PROVE FALSE
    OBVIOUS
  <2>2. PICK j \in S : \A k \in S : j <= k
    <3>1. S \in SUBSET Nat
      OBVIOUS
    <3> HIDE DEF S
    <3> QED  BY <2>1, <3>1, LeastOf
  <2>3. j # 0
    <3>1. h[0].reversed = 0 /\ h[0].rest = c
      BY DEF Bits, NoBits
    <3>2. a + 0 = a /\ Pow2[0] = 1
      BY Pow2Facts
    <3>3. HighSteps(f, h, a, 0)
      BY <1>2, <3>1, <3>2 DEF HighSteps
    <3> QED  BY <2>2, <3>3
  <2>4. /\ j \in 1 .. b /\ j - 1 \in 0 .. b /\ j - 1 \notin S /\ j \in 1 .. MaxLogSize
        /\ a + j \in 1 .. a + b /\ (a + j) - 1 = a + (j - 1) /\ a + (j - 1) \in 0 .. a + b
    BY <1>0, <2>2, <2>3
  <2>5. f[a + j] = NextBit(f[(a + j) - 1]) /\ h[j] = NextBit(h[j - 1])
    BY <2>4 DEF Bits
  <2>6. PICK u, r, s : u = f[a + (j - 1)].reversed /\ r = h[j - 1].reversed /\ s = h[j - 1].rest
    OBVIOUS
  <2>7. f[a + (j - 1)].rest = s
    BY <2>4, <2>6 DEF HighSteps
  <2>8. /\ f[a + j].reversed = 2 * u + (s % 2) /\ f[a + j].rest = s \div 2
        /\ h[j].reversed = 2 * r + (s % 2) /\ h[j].rest = s \div 2
    BY <2>4, <2>5, <2>6, <2>7 DEF NextBit
  <2>9. PICK p \in Nat : p = Pow2[j - 1] /\ Pow2[j] = 2 * p
    BY <2>4, Pow2Facts
  <2>10. r \in Nat /\ s \in Nat
    BY <1>1, <2>4, <2>6, Pow2Facts DEF BitsSoFar
  <2>11. u = q * p + r
    BY <1>2, <2>4, <2>6, <2>9 DEF HighSteps
  <2>12. PICK w \in Nat : w = q * p
    BY <1>2, <2>9
  <2>13. q * (2 * p) = 2 * w
    BY <1>2, <2>9, <2>12
  <2>14. 2 * u + (s % 2) = q * (2 * p) + (2 * r + (s % 2))
    BY <2>10, <2>11, <2>12, <2>13
  <2>15. HighSteps(f, h, a, j)
    BY <1>2, <2>8, <2>9, <2>14 DEF HighSteps
  <2> QED  BY <2>2, <2>15
<1> QED  BY <1>3

\* A coset's bits and those of an offset in it are reversed on their own, and swapped.
LEMMA ReverseSplit ==
  ASSUME NEW a \in Nat, NEW b \in Nat, a + b <= MaxLogSize,
         NEW c \in 0 .. Pow2[b] - 1, NEW o \in 0 .. Pow2[a] - 1
  PROVE  BitReverse(c * Pow2[a] + o, a + b) = BitReverse(o, a) * Pow2[b] + BitReverse(c, b)
<1>0. /\ MaxLogSize \in Nat /\ a \in 0 .. MaxLogSize /\ b \in 0 .. MaxLogSize
      /\ a + b \in Nat /\ a <= a + b
  BY Pow2Facts
<1>1. Pow2[a] \in Nat /\ Pow2[b] \in Nat
  BY <1>0, Pow2Facts
<1>2. c \in Nat /\ o \in Nat
  BY <1>1
<1>3. PICK n \in Nat : n = c * Pow2[a] + o
  BY <1>1, <1>2
<1>4. PICK f : Bits(f, n, a + b) /\ BitReverse(n, a + b) = f[a + b].reversed
  BY <1>0, BitsFacts
<1>5. PICK g : Bits(g, o, a) /\ BitReverse(o, a) = g[a].reversed
  BY BitsFacts
<1>6. PICK h : Bits(h, c, b) /\ BitReverse(c, b) = h[b].reversed
  BY BitsFacts
<1>7. LowSteps(f, g, a, c, a)
  <2>1. a \in 0 .. a
    OBVIOUS
  <2> QED  BY <1>0, <1>2, <1>3, <1>4, <1>5, <2>1, LowBitsFirst
<1>8. f[a].reversed = g[a].reversed /\ f[a].rest = c
  <2>1. a - a = 0 /\ Pow2[0] = 1
    BY Pow2Facts
  <2>2. g[a].rest = 0 /\ f[a].rest = c * 1 + g[a].rest
    BY <1>7, <2>1 DEF LowSteps
  <2> QED  BY <1>2, <1>7, <2>2 DEF LowSteps
<1>9. HighSteps(f, h, a, b)
  <2>1. b \in 0 .. b
    OBVIOUS
  <2> QED  BY <1>2, <1>3, <1>4, <1>6, <1>8, <2>1, HighBitsLast
<1> QED  BY <1>3, <1>4, <1>5, <1>6, <1>8, <1>9 DEF HighSteps

LEMMA ReverseOneBit ==
  ASSUME NEW o \in 0 .. 1
  PROVE  BitReverse(o, 1) = o
<1>1. PICK f : Bits(f, o, 1) /\ BitReverse(o, 1) = f[1].reversed
  BY BitsFacts
<1>2. f[0] = NoBits(o) /\ f[1] = NextBit(f[0])
  <2>1. 1 \in 1 .. 1 /\ 1 - 1 = 0
    OBVIOUS
  <2> QED  BY <1>1, <2>1 DEF Bits
<1>3. f[1].reversed = 2 * 0 + (o % 2)
  BY <1>2 DEF NextBit, NoBits
<1> QED  BY <1>1, <1>3

LEMMA ReverseNone ==
  ASSUME NEW n
  PROVE  BitReverse(n, 0) = 0
<1>1. PICK f : Bits(f, n, 0) /\ BitReverse(n, 0) = f[0].reversed
  BY BitsFacts
<1> QED  BY <1>1 DEF Bits, NoBits

Reverses(bits) == \A n \in 0 .. Pow2[bits] - 1 : BitReverse(BitReverse(n, bits), bits) = n

\* Reversing twice changes nothing.
LEMMA ReverseTwice == \A bits \in 0 .. MaxLogSize : Reverses(bits)
<1> DEFINE S == {bits \in 0 .. MaxLogSize : ~Reverses(bits)}
<1>0. MaxLogSize \in Nat
  BY Pow2Facts
<1>1. S = {}
  <2>1. SUFFICES ASSUME S # {}  PROVE FALSE
    OBVIOUS
  <2>2. PICK k \in S : \A h \in S : k <= h
    <3>1. S \in SUBSET Nat
      BY <1>0
    <3> HIDE DEF S
    <3> QED  BY <2>1, <3>1, LeastOf
  <2>3. k # 0
    <3>1. \A n \in 0 .. Pow2[0] - 1 : n = 0
      BY Pow2Facts
    <3>2. Reverses(0)
      BY <3>1, ReverseNone DEF Reverses
    <3> QED  BY <2>2, <3>2
  <2>4. PICK m \in 0 .. MaxLogSize : k = m + 1 /\ m \notin S
    <3>1. k \in 1 .. MaxLogSize /\ k - 1 \in 0 .. MaxLogSize /\ k - 1 \notin S
      BY <1>0, <2>2, <2>3
    <3> QED  BY <3>1
  <2>5. /\ m \in Nat /\ 1 + m <= MaxLogSize /\ m + 1 <= MaxLogSize /\ 1 + m = k
        /\ 1 \in 1 .. MaxLogSize /\ k \in 1 .. MaxLogSize /\ k - 1 = m
    BY <1>0, <2>2, <2>4
  <2>6. PICK p \in Nat : p = Pow2[m] /\ Pow2[k] = 2 * p
    BY <2>4, <2>5, Pow2Facts
  <2>7. Pow2[1] = 2
    <3>1. 1 - 1 = 0
      OBVIOUS
    <3> QED  BY <2>5, <3>1, Pow2Facts
  <2>8. ASSUME NEW n \in 0 .. Pow2[k] - 1  PROVE  BitReverse(BitReverse(n, k), k) = n
    <3>1. PICK o \in 0 .. 1, c \in 0 .. p - 1 : n = c * 2 + o
      <4>1. n % 2 \in 0 .. 1 /\ n \div 2 \in 0 .. p - 1 /\ n = (n \div 2) * 2 + (n % 2)
        BY <2>6
      <4> QED  BY <4>1
    <3>2. PICK r \in Nat : r = BitReverse(c, m)
      <4>1. c \in Nat
        BY <2>6
      <4>2. BitReverse(c, m) \in 0 .. Pow2[m] - 1
        BY <2>4, <4>1, ReverseBounded
      <4> QED  BY <2>6, <4>2
    <3>3. r \in 0 .. p - 1
      <4>1. c \in Nat
        BY <2>6
      <4>2. BitReverse(c, m) \in 0 .. Pow2[m] - 1
        BY <2>4, <4>1, ReverseBounded
      <4> QED  BY <2>6, <3>2, <4>2
    <3>4. BitReverse(n, k) = o * p + r
      <4>1. BitReverse(c * Pow2[1] + o, 1 + m) = BitReverse(o, 1) * Pow2[m] + BitReverse(c, m)
        <5>1. c \in 0 .. Pow2[m] - 1 /\ o \in 0 .. Pow2[1] - 1 /\ 1 \in Nat
          BY <2>6, <2>7
        <5> QED  BY <2>5, <5>1, ReverseSplit
      <4> QED  BY <2>5, <2>6, <2>7, <3>1, <3>2, <4>1, ReverseOneBit
    <3>5. BitReverse(o * p + r, k) = BitReverse(r, m) * 2 + o
      <4>1. BitReverse(o * Pow2[m] + r, m + 1) = BitReverse(r, m) * Pow2[1] + BitReverse(o, 1)
        <5>1. r \in 0 .. Pow2[m] - 1 /\ o \in 0 .. Pow2[1] - 1 /\ 1 \in Nat
          BY <2>6, <2>7, <3>3
        <5> QED  BY <2>5, <5>1, ReverseSplit
      <4> QED  BY <2>4, <2>6, <2>7, <4>1, ReverseOneBit
    <3>6. BitReverse(r, m) = c
      BY <2>4, <2>6, <3>2 DEF Reverses
    <3> QED  BY <3>1, <3>4, <3>5, <3>6
  <2> QED  BY <2>2, <2>8 DEF Reverses
<1> QED  BY <1>1

-----------------------------------------------------------------------------
(* Sizes. *)

LEMMA SetupTyped ==
  ASSUME setup \in Setups
  PROVE  /\ setup.log_trace_length \in Nat \ {0} /\ setup.log_n_cosets \in Nat
         /\ setup.log_trace_length + setup.log_n_cosets <= MaxLogSize
         /\ setup.n_cosets \in Nat \ {0} /\ setup.task_size \in Nat \ {0}
         /\ setup.n_threads \in Nat \ {0} /\ setup.point_exponent \in Nat
         /\ setup.log_period \in Nat /\ setup.log_period <= setup.log_trace_length
         /\ setup.trace_widths \in Seq(Nat \ {0}) /\ Len(setup.trace_widths) \in 1 .. 2
         /\ setup.mask \in Seq(Nat \X Nat)
         /\ \E h \in 0 .. setup.log_n_cosets : setup.n_cosets = Pow2[h]
         /\ \A i \in DOMAIN setup.mask :
              setup.mask[i][2] < Sums(setup.trace_widths)[Len(setup.trace_widths)]
<1>1. /\ setup \in SetupType
      /\ setup.log_trace_length + setup.log_n_cosets <= MaxLogSize
      /\ Len(setup.trace_widths) \in 1 .. 2
      /\ \A i \in DOMAIN setup.mask :
           setup.mask[i][2] < Sums(setup.trace_widths)[Len(setup.trace_widths)]
      /\ setup.log_period <= setup.log_trace_length
      /\ \E h \in 0 .. setup.log_n_cosets : setup.n_cosets = Pow2[h]
  BY SetupAssumption
<1>2. /\ setup.log_trace_length \in Nat \ {0} /\ setup.log_n_cosets \in Nat
      /\ setup.n_cosets \in Nat \ {0} /\ setup.task_size \in Nat \ {0}
      /\ setup.n_threads \in Nat \ {0} /\ setup.point_exponent \in Nat
      /\ setup.log_period \in Nat
      /\ setup.trace_widths \in Seq(Nat \ {0})
      /\ setup.mask \in Seq(Nat \X Nat)
  BY <1>1 DEF SetupType
<1> QED  BY <1>1, <1>2

Sizes ==
  /\ setup.log_trace_length \in 1 .. MaxLogSize /\ setup.log_n_cosets \in 0 .. MaxLogSize
  /\ TraceSize \in Nat \ {0} /\ NumCosets \in Nat \ {0} /\ DomainSize \in Nat \ {0}
  /\ Period \in Nat \ {0} /\ Copies \in Nat \ {0} /\ TraceSize = Period * Copies
  /\ setup.n_cosets \in 1 .. NumCosets

LEMMA SizeFacts ==
  ASSUME setup \in Setups
  PROVE  Sizes
<1>0. MaxLogSize \in Nat
  BY Pow2Facts
<1>1. /\ setup.log_trace_length \in 1 .. MaxLogSize /\ setup.log_n_cosets \in 0 .. MaxLogSize
      /\ setup.log_period \in 0 .. MaxLogSize
  <2>1. PICK a \in Nat \ {0}, b \in Nat, p \in Nat :
          /\ a = setup.log_trace_length /\ b = setup.log_n_cosets /\ p = setup.log_period
          /\ a + b <= MaxLogSize /\ p <= a
    BY SetupTyped
  <2>2. a \in 1 .. MaxLogSize /\ b \in 0 .. MaxLogSize /\ p \in 0 .. MaxLogSize
    BY <1>0, <2>1
  <2> QED  BY <2>1, <2>2
<1>2. TraceSize \in Nat \ {0} /\ NumCosets \in Nat \ {0} /\ Period \in Nat \ {0}
  <2>1. setup.log_trace_length \in 0 .. MaxLogSize
    BY <1>0, <1>1
  <2> QED  BY <1>1, <2>1, Pow2Facts DEF TraceSize, NumCosets, Period
<1>3. DomainSize \in Nat \ {0}
  <2>1. PICK n \in Nat \ {0}, m \in Nat \ {0} : n = TraceSize /\ m = NumCosets
    BY <1>2
  <2>2. n * m \in Nat \ {0}
    OBVIOUS
  <2> QED  BY <2>1, <2>2 DEF DomainSize
<1>4. Copies \in Nat \ {0} /\ TraceSize = Period * Copies
  <2>1. PICK e \in Nat : setup.log_trace_length = setup.log_period + e
    <3>1. setup.log_trace_length - setup.log_period \in Nat
      BY SetupTyped
    <3>2. setup.log_trace_length
            = setup.log_period + (setup.log_trace_length - setup.log_period)
      BY SetupTyped
    <3> QED  BY <3>1, <3>2
  <2>2. e \in 0 .. MaxLogSize /\ setup.log_period + e <= MaxLogSize
    BY <1>0, <1>1, <2>1
  <2>3. PICK p \in Nat \ {0}, q \in Nat \ {0} : p = Period /\ q = Pow2[e]
    BY <1>2, <2>2, Pow2Facts
  <2>4. TraceSize = p * q
    BY <1>1, <2>1, <2>2, <2>3, Pow2Product DEF TraceSize, Period
  <2>5. (p * q) \div p = q
    <3>1. 0 \in 0 .. p - 1 /\ p * q + 0 = p * q
      OBVIOUS
    <3> QED  BY <3>1, Quotient
  <2> QED  BY <2>3, <2>4, <2>5 DEF Copies
<1>5. setup.n_cosets \in 1 .. NumCosets
  <2>1. PICK h \in 0 .. setup.log_n_cosets : setup.n_cosets = Pow2[h]
    BY SetupTyped
  <2>2. h \in 0 .. MaxLogSize /\ Pow2[h] \in Nat \ {0}
    BY <1>0, <1>1, <2>1, Pow2Facts
  <2>3. CASE h = setup.log_n_cosets
    BY <2>1, <2>2, <2>3 DEF NumCosets
  <2>4. CASE h # setup.log_n_cosets
    <3>1. h < setup.log_n_cosets
      BY <1>1, <2>1, <2>4
    <3>2. 2 * Pow2[h] <= Pow2[setup.log_n_cosets]
      BY <1>1, <2>2, <3>1, Pow2Powers, PowersGap
    <3> QED  BY <1>2, <2>1, <2>2, <3>2 DEF NumCosets
  <2> QED  BY <2>3, <2>4
<1> QED  BY <1>1, <1>2, <1>3, <1>4, <1>5 DEF Sizes

LEMMA DomainFacts ==
  ASSUME setup \in Setups
  PROVE  DomainSize = TraceSize * NumCosets /\ TraceGenerator = NumCosets
BY DEF DomainSize, TraceGenerator

LEMMA OffsetReversed ==
  ASSUME setup \in Setups, NEW offset \in Offsets
  PROVE  /\ BitReverse(offset, setup.log_trace_length) \in Offsets
         /\ BitReverse(BitReverse(offset, setup.log_trace_length), setup.log_trace_length)
              = offset
<1>1. setup.log_trace_length \in 0 .. MaxLogSize /\ TraceSize \in Nat
  BY SizeFacts, Pow2Facts DEF Sizes
<1>2. offset \in Nat
  BY <1>1 DEF Offsets
<1> QED  BY <1>1, <1>2, ReverseBounded, ReverseTwice DEF Reverses, Offsets, TraceSize

LEMMA CosetReversed ==
  ASSUME setup \in Setups, NEW c \in Cosets
  PROVE  /\ BitReverse(c, setup.log_n_cosets) \in Cosets
         /\ CosetOffset(c) = BitReverse(c, setup.log_n_cosets)
         /\ CosetOffset(c) \in 0 .. NumCosets - 1
<1>1. setup.log_n_cosets \in 0 .. MaxLogSize /\ NumCosets \in Nat
  BY SizeFacts, Pow2Facts DEF Sizes
<1>2. c \in Nat
  BY <1>1 DEF Cosets
<1>3. BitReverse(c, setup.log_n_cosets) \in Cosets
  BY <1>1, <1>2, ReverseBounded DEF Cosets, NumCosets
<1>4. PICK r \in 0 .. NumCosets - 1 : r = BitReverse(c, setup.log_n_cosets)
  BY <1>3 DEF Cosets
<1>5. (0 + r) % DomainSize = r
  <2>1. PICK n \in Nat \ {0}, m \in Nat \ {0} : n = TraceSize /\ m = NumCosets
    BY SizeFacts DEF Sizes
  <2>2. m <= n * m
    OBVIOUS
  <2>3. PICK d \in Nat \ {0} : d = DomainSize /\ m <= d
    BY <2>1, <2>2, SizeFacts DEF Sizes, DomainSize
  <2>4. r \in 0 .. d - 1
    BY <2>1, <2>3
  <2>5. (0 + r) % d = r
    BY <2>4
  <2> QED  BY <2>3, <2>5
<1> QED  BY <1>3, <1>4, <1>5 DEF CosetOffset, CosetOffsets, Times

-----------------------------------------------------------------------------
(* Columns and masks. *)

LEMMA SumsFacts ==
  ASSUME NEW s \in Seq(Nat)
  PROVE  /\ Sums(s)[0] = 0
         /\ \A k \in 1 .. Len(s) : Sums(s)[k] = Sums(s)[k - 1] + s[k]
<1> DEFINE P(f) == f = [k \in 0 .. Len(s) |-> IF k = 0 THEN 0 ELSE f[k - 1] + s[k]]
           sum == CHOOSE f : P(f)
<1>1. P(sum)
  <2>1. \E f : P(f)
    BY SumsExist DEF SumsUp
  <2> HIDE DEF P
  <2> QED  BY <2>1
<1>2. Sums(s) = sum
  BY DEF Sums
<1> HIDE DEF sum
<1>3. \A k \in 0 .. Len(s) : sum[k] = IF k = 0 THEN 0 ELSE sum[k - 1] + s[k]
  BY <1>1
<1>4. Len(s) \in Nat /\ 0 \in 0 .. Len(s) /\ \A k \in 1 .. Len(s) : k \in 0 .. Len(s) /\ k # 0
  OBVIOUS
<1> QED  BY <1>2, <1>3, <1>4

\* There are one or two traces.
TwoWidths ==
  /\ Width(0) \in Nat \ {0} /\ WidthsBefore(0) = 0 /\ WidthsBefore(1) = Width(0)
  /\ Traces \in {{0}, {0, 1}}
  /\ Traces = {0, 1} =>
       Width(1) \in Nat \ {0} /\ WidthsBefore(2) = Width(0) + Width(1)

LEMMA WidthFacts ==
  ASSUME setup \in Setups
  PROVE  TwoWidths /\ WidthsBefore(Len(setup.trace_widths)) = IF Traces = {0} THEN Width(0)
                                                             ELSE Width(0) + Width(1)
<1>1. PICK w : w = setup.trace_widths
  OBVIOUS
<1>2. w \in Seq(Nat \ {0}) /\ Len(w) \in 1 .. 2
  BY <1>1, SetupTyped
<1>3. w \in Seq(Nat) /\ \A k \in 1 .. Len(w) : w[k] \in Nat \ {0}
  BY <1>2
<1>4. Sums(w)[0] = 0 /\ \A k \in 1 .. Len(w) : Sums(w)[k] = Sums(w)[k - 1] + w[k]
  BY <1>3, SumsFacts
<1>5. \A t : Width(t) = w[t + 1] /\ WidthsBefore(t) = Sums(w)[t]
  BY <1>1 DEF Width, WidthsBefore
<1>6. 0 + 1 = 1 /\ 1 + 1 = 2 /\ 1 - 1 = 0 /\ 2 - 1 = 1
  OBVIOUS
<1>7. 1 \in 1 .. Len(w) /\ Sums(w)[1] = 0 + w[1] /\ w[1] \in Nat \ {0}
  BY <1>2, <1>3, <1>4, <1>6
<1>8. Traces = 0 .. Len(w) - 1
  BY <1>1 DEF Traces
<1>9. Len(w) = 1 \/ Len(w) = 2
  BY <1>2
<1>10. Width(0) \in Nat \ {0} /\ WidthsBefore(0) = 0 /\ WidthsBefore(1) = Width(0)
  BY <1>4, <1>5, <1>6, <1>7
<1>11. CASE Len(w) = 1
  <2>1. Traces = {0} /\ 1 \notin Traces
    BY <1>8, <1>11
  <2> QED  BY <1>1, <1>10, <1>11, <2>1 DEF TwoWidths
<1>12. CASE Len(w) = 2
  <2>1. Traces = {0, 1}
    BY <1>8, <1>12
  <2>2. 2 \in 1 .. Len(w) /\ Sums(w)[2] = Sums(w)[1] + w[2] /\ w[2] \in Nat \ {0}
    BY <1>3, <1>4, <1>6, <1>12
  <2>3. Width(1) \in Nat \ {0} /\ WidthsBefore(2) = Width(0) + Width(1)
    BY <1>5, <1>6, <1>7, <2>2
  <2>4. Traces # {0}
    BY <2>1
  <2> QED  BY <1>1, <1>10, <1>12, <2>1, <2>3, <2>4 DEF TwoWidths
<1> QED  BY <1>9, <1>11, <1>12

\* The trace a column is in, and its number there.
TraceFor(column) == IF column < Width(0) THEN 0 ELSE 1

Local(column) == IF column < Width(0) THEN column ELSE column - Width(0)

ColumnRight(column) ==
  /\ ColumnToTraceColumn(column) = <<TraceFor(column), Local(column)>>
  /\ TraceFor(column) \in Traces
  /\ Local(column) \in Columns(TraceFor(column))
  /\ Local(column) = column - WidthsBefore(TraceFor(column))

LEMMA ColumnFacts ==
  ASSUME setup \in Setups, NEW column \in Nat,
         column < Sums(setup.trace_widths)[Len(setup.trace_widths)]
  PROVE  ColumnRight(column)
<1>1. TwoWidths /\ column < IF Traces = {0} THEN Width(0) ELSE Width(0) + Width(1)
  BY WidthFacts DEF WidthsBefore
<1>2. PICK w \in Nat \ {0} : w = Width(0)
  BY <1>1 DEF TwoWidths
<1>3. CASE column < w
  <2>1. 0 \in Traces /\ column \in WidthsBefore(0) .. WidthsBefore(0 + 1) - 1
    <3>1. 0 + 1 = 1
      OBVIOUS
    <3> QED  BY <1>1, <1>2, <1>3, <3>1 DEF TwoWidths
  <2>2. ASSUME NEW t \in Traces, column \in WidthsBefore(t) .. WidthsBefore(t + 1) - 1
        PROVE  t = 0
    <3>1. t \in {0, 1}
      BY <1>1 DEF TwoWidths
    <3>2. ~(column \in w .. WidthsBefore(1 + 1) - 1)
      BY <1>2, <1>3
    <3> QED  BY <1>1, <1>2, <2>2, <3>1, <3>2 DEF TwoWidths
  <2>3. TraceOfColumn(column) = 0
    BY <2>1, <2>2 DEF TraceOfColumn
  <2>4. TraceFor(column) = 0 /\ Local(column) = column
    BY <1>2, <1>3 DEF TraceFor, Local
  <2>5. column - WidthsBefore(0) = column
    BY <1>1 DEF TwoWidths
  <2>6. column \in Columns(0)
    BY <1>2, <1>3 DEF Columns
  <2> QED  BY <2>1, <2>3, <2>4, <2>5, <2>6 DEF ColumnRight, ColumnToTraceColumn
<1>4. CASE ~(column < w)
  <2>1. Traces = {0, 1}
    BY <1>1, <1>2, <1>4 DEF TwoWidths
  <2>2. PICK v \in Nat \ {0} : v = Width(1) /\ WidthsBefore(2) = w + v
    BY <1>1, <1>2, <2>1 DEF TwoWidths
  <2>3. column \in w .. (w + v) - 1
    <3>1. Traces # {0}
      BY <2>1
    <3>2. column < w + v
      BY <1>1, <1>2, <2>2, <3>1
    <3> QED  BY <1>4, <3>2
  <2>4. 1 \in Traces /\ column \in WidthsBefore(1) .. WidthsBefore(1 + 1) - 1
    <3>1. 1 + 1 = 2 /\ WidthsBefore(1) = w
      BY <1>1, <1>2 DEF TwoWidths
    <3> QED  BY <2>1, <2>2, <2>3, <3>1
  <2>5. ASSUME NEW t \in Traces, column \in WidthsBefore(t) .. WidthsBefore(t + 1) - 1
        PROVE  t = 1
    <3>1. t \in {0, 1}
      BY <1>1 DEF TwoWidths
    <3>2. ~(column \in 0 .. w - 1)
      BY <1>4
    <3>3. 0 + 1 = 1 /\ WidthsBefore(0) = 0 /\ WidthsBefore(1) = w
      BY <1>1, <1>2 DEF TwoWidths
    <3> QED  BY <2>5, <3>1, <3>2, <3>3
  <2>6. TraceOfColumn(column) = 1
    BY <2>4, <2>5 DEF TraceOfColumn
  <2>7. TraceFor(column) = 1 /\ Local(column) = column - w
    BY <1>2, <1>4 DEF TraceFor, Local
  <2>8. WidthsBefore(1) = w
    BY <1>1, <1>2 DEF TwoWidths
  <2>9. column - w \in Columns(1)
    BY <2>2, <2>3 DEF Columns
  <2> QED  BY <2>4, <2>6, <2>7, <2>8, <2>9 DEF ColumnRight, ColumnToTraceColumn
<1> QED  BY <1>3, <1>4

\* The items of the mask.
ItemRight(i) ==
  /\ setup.mask[i] = <<setup.mask[i][1], setup.mask[i][2]>>
  /\ setup.mask[i][1] \in Nat /\ setup.mask[i][2] \in Nat
  /\ ColumnRight(setup.mask[i][2])

LEMMA ItemFacts ==
  ASSUME setup \in Setups
  PROVE  /\ IsSeq(setup.mask) /\ DOMAIN setup.mask = 1 .. Len(setup.mask)
         /\ \A i \in DOMAIN setup.mask : ItemRight(i)
<1>1. setup.mask \in Seq(Nat \X Nat)
  BY SetupTyped
<1>2. IsSeq(setup.mask) /\ DOMAIN setup.mask = 1 .. Len(setup.mask)
  BY <1>1, SeqIsSeq
<1>3. ASSUME NEW i \in DOMAIN setup.mask
      PROVE  ItemRight(i)
  <2>1. setup.mask[i] \in Nat \X Nat
    BY <1>1, <1>3
  <2>2. /\ setup.mask[i] = <<setup.mask[i][1], setup.mask[i][2]>>
        /\ setup.mask[i][1] \in Nat /\ setup.mask[i][2] \in Nat
    BY <2>1
  <2>3. ColumnRight(setup.mask[i][2])
    BY <2>2, SetupTyped, ColumnFacts
  <2> QED  BY <2>2, <2>3 DEF ItemRight
<1> QED  BY <1>2, <1>3

LEMMA PlacesFacts ==
  ASSUME setup \in Setups, NEW t
  PROVE  /\ PlacesOf(t) \in SUBSET Nat /\ IsFiniteSet(PlacesOf(t))
         /\ PlacesOf(t) = {i \in DOMAIN setup.mask : TraceFor(setup.mask[i][2]) = t}
<1>1. DOMAIN setup.mask = 1 .. Len(setup.mask) /\ Len(setup.mask) \in Int
  BY ItemFacts DEF IsSeq
<1>2. IsFiniteSet(1 .. Len(setup.mask))
  BY <1>1, FS_Interval
<1>3. PlacesOf(t) \subseteq 1 .. Len(setup.mask)
  BY <1>1 DEF PlacesOf
<1>4. IsFiniteSet(PlacesOf(t))
  BY <1>2, <1>3, FS_Subset
<1>5. ASSUME NEW i \in DOMAIN setup.mask
      PROVE  ColumnToTraceColumn(setup.mask[i][2])[1] = TraceFor(setup.mask[i][2])
  BY <1>5, ItemFacts DEF ItemRight, ColumnRight
<1>6. PlacesOf(t) = {i \in DOMAIN setup.mask : TraceFor(setup.mask[i][2]) = t}
  BY <1>5 DEF PlacesOf
<1> QED  BY <1>1, <1>3, <1>4, <1>6

\* The places of a trace's mask items, in order.
Order(t) == InOrder(PlacesOf(t))

LEMMA OrderFacts ==
  ASSUME setup \in Setups, NEW t
  PROVE  /\ IsInOrder(Order(t), PlacesOf(t))
         /\ Len(Order(t)) \in Nat /\ DOMAIN Order(t) = 1 .. Len(Order(t))
<1>1. IsInOrder(Order(t), PlacesOf(t))
  BY PlacesFacts, InOrderFacts DEF Order
<1>2. IsSeq(Order(t))
  BY <1>1 DEF IsInOrder
<1>3. Order(t) \in Seq(SeqElements(Order(t))) /\ DOMAIN Order(t) = 1 .. Len(Order(t))
  BY <1>2, SeqOfElements
<1> QED  BY <1>1, <1>2, <1>3 DEF IsSeq

\* The item of the mask that item k of trace t's mask comes from.
SplitItem(t, k) ==
  /\ Order(t)[k] \in PlacesOf(t)
  /\ ItemRight(Order(t)[k])
  /\ MaskItems(PlacesOf(t))[k] = setup.mask[Order(t)[k]]
  /\ SplitMask(t)[k] = <<setup.mask[Order(t)[k]][1], Local(setup.mask[Order(t)[k]][2])>>
  /\ TraceFor(setup.mask[Order(t)[k]][2]) = t

LEMMA SplitFacts ==
  ASSUME setup \in Setups, NEW t
  PROVE  /\ IsSeq(SplitMask(t)) /\ Len(SplitMask(t)) = Len(Order(t))
         /\ DOMAIN SplitMask(t) = 1 .. Len(Order(t))
         /\ DOMAIN MaskItems(PlacesOf(t)) = 1 .. Len(Order(t))
         /\ \A k \in 1 .. Len(Order(t)) : SplitItem(t, k)
<1> DEFINE n == Len(Order(t))
           items == MaskItems(PlacesOf(t))
<1>1. n \in Nat /\ DOMAIN Order(t) = 1 .. n
  BY OrderFacts
<1>2. items = [k \in 1 .. n |-> setup.mask[Order(t)[k]]]
  BY <1>1 DEF MaskItems, Order
<1> HIDE DEF items
<1>3. SplitMask(t) =
        [k \in 1 .. n |-> <<items[k][1], ColumnToTraceColumn(items[k][2])[2]>>]
  BY <1>2 DEF SplitMask, items
<1> HIDE DEF n
<1>4. IsSeq(SplitMask(t)) /\ Len(SplitMask(t)) = n
  <2>1. DOMAIN SplitMask(t) = 1 .. n /\ SplitMask(t) = [k \in 1 .. n |-> SplitMask(t)[k]]
    BY <1>3
  <2> QED  BY <1>1, <2>1, ListedIsSeq
<1>5. ASSUME NEW k \in 1 .. n
      PROVE  SplitItem(t, k)
  <2>1. Order(t)[k] \in PlacesOf(t)
    BY <1>1, <1>5, OrderFacts DEF IsInOrder, n
  <2>2. PICK i \in DOMAIN setup.mask : i = Order(t)[k]
    BY <2>1, PlacesFacts
  <2>3. TraceFor(setup.mask[i][2]) = t
    BY <2>1, <2>2, PlacesFacts
  <2>4. ItemRight(i)
    BY ItemFacts
  <2>5. items[k] = setup.mask[i]
    BY <1>2, <1>5, <2>2
  <2>6. ColumnToTraceColumn(setup.mask[i][2])[2] = Local(setup.mask[i][2])
    BY <2>4 DEF ItemRight, ColumnRight
  <2>7. SplitMask(t)[k] = <<setup.mask[i][1], Local(setup.mask[i][2])>>
    BY <1>3, <1>5, <2>5, <2>6
  <2> QED  BY <2>1, <2>2, <2>3, <2>4, <2>5, <2>7 DEF SplitItem, items
<1>6. DOMAIN SplitMask(t) = 1 .. n /\ DOMAIN items = 1 .. n
  BY <1>2, <1>3
<1> QED  BY <1>4, <1>5, <1>6 DEF n, items

\* The count of the items of a trace up to one of them is its number in the trace's mask.
LEMMA OffsetRight ==
  ASSUME setup \in Setups, NEW i \in DOMAIN setup.mask
  PROVE  \E t \in Traces, k \in 1 .. Len(Order(TraceFor(setup.mask[i][2]))) :
           /\ t = TraceFor(setup.mask[i][2]) /\ ColumnToTraceColumn(setup.mask[i][2])[1] = t
           /\ k = OffsetInTrace(i) /\ Order(t)[k] = i
<1>1. PICK t \in Traces : /\ t = TraceFor(setup.mask[i][2])
                          /\ ColumnToTraceColumn(setup.mask[i][2])[1] = t
  BY ItemFacts DEF ItemRight, ColumnRight
<1>2. i \in PlacesOf(t)
  BY <1>1 DEF PlacesOf
<1>3. OffsetInTrace(i) = Cardinality({j \in PlacesOf(t) : j <= i})
  BY <1>1 DEF OffsetInTrace
<1>4. OffsetInTrace(i) \in 1 .. Len(Order(t)) /\ Order(t)[OffsetInTrace(i)] = i
  BY <1>2, <1>3, PlacesFacts, OrderFacts, RankedAt
<1> QED  BY <1>1, <1>4

\* A trace's values out of domain come in the order of its mask.
LEMMA TraceMaskValues ==
  ASSUME setup \in Setups, NEW t, NEW k \in 1 .. Len(Order(t))
  PROVE  EvalMaskOfTrace(t)[k] =
           ColumnAt(t, SplitMask(t)[k][2], OodsPoint(SplitMask(t)[k][1]))
<1> DEFINE mask == SplitMask(t)
           chosen(column) == {i \in DOMAIN mask : mask[i][2] = column}
           items(column) == InOrder(chosen(column))
           outputs(column) ==
             [j \in DOMAIN items(column) |->
                ColumnAt(t, column, OodsPoint(mask[items(column)[j]][1]))]
           place(i) == CHOOSE j \in DOMAIN items(mask[i][2]) : items(mask[i][2])[j] = i
<1>1. DOMAIN mask = 1 .. Len(Order(t)) /\ Len(Order(t)) \in Nat
  BY SplitFacts, OrderFacts
<1>2. EvalMaskOfTrace(t) = [i \in DOMAIN mask |-> outputs(mask[i][2])[place(i)]]
  BY DEF EvalMaskOfTrace
<1> HIDE DEF mask
<1>3. PICK column : column = mask[k][2]
  OBVIOUS
<1>4. chosen(column) \in SUBSET Nat /\ IsFiniteSet(chosen(column)) /\ k \in chosen(column)
  <2>1. chosen(column) \subseteq 1 .. Len(Order(t)) /\ k \in chosen(column)
    BY <1>1, <1>3
  <2>2. IsFiniteSet(1 .. Len(Order(t)))
    BY <1>1, FS_Interval
  <2> HIDE DEF chosen
  <2>3. IsFiniteSet(chosen(column))
    BY <2>1, <2>2, FS_Subset
  <2> QED  BY <1>1, <2>1, <2>3
<1>5. IsInOrder(items(column), chosen(column))
  <2> HIDE DEF chosen
  <2> QED  BY <1>4, InOrderFacts
<1>6. PICK j \in 1 .. Len(items(column)) : items(column)[j] = k
  <2> HIDE DEF chosen, items
  <2> QED  BY <1>4, <1>5 DEF IsInOrder
<1>7. DOMAIN items(column) = 1 .. Len(items(column))
  <2> HIDE DEF chosen, items
  <2> QED  BY <1>5, SeqOfElements DEF IsInOrder
<1>8. place(k) \in DOMAIN items(column) /\ items(column)[place(k)] = k
  <2> HIDE DEF items
  <2> QED  BY <1>3, <1>6, <1>7
<1>9. EvalMaskOfTrace(t)[k] = outputs(column)[place(k)]
  <2> HIDE DEF outputs, place
  <2> QED  BY <1>1, <1>2, <1>3
<1>10. outputs(column)[place(k)] = ColumnAt(t, column, OodsPoint(mask[k][1]))
  <2> HIDE DEF place, items
  <2> QED  BY <1>8
<1> HIDE DEF outputs, place, items
<1> QED  BY <1>3, <1>9, <1>10 DEF mask

\* Out of domain, the mask's values come in the order of the mask.
LEMMA MaskValues ==
  ASSUME setup \in Setups
  PROVE  MaskValuesInOrder
<1>1. ASSUME NEW i \in DOMAIN setup.mask
      PROVE  EvalMaskAtPoint[i] =
               ColumnAt(TraceFor(setup.mask[i][2]), Local(setup.mask[i][2]),
                        OodsPoint(setup.mask[i][1]))
  <2>1. PICK t \in Traces, k \in 1 .. Len(Order(TraceFor(setup.mask[i][2]))) :
          /\ t = TraceFor(setup.mask[i][2]) /\ ColumnToTraceColumn(setup.mask[i][2])[1] = t
          /\ k = OffsetInTrace(i) /\ Order(t)[k] = i
    BY OffsetRight
  <2>2. EvalMaskAtPoint[i] = EvalMaskOfTrace(t)[k]
    BY <2>1 DEF EvalMaskAtPoint
  <2>3. k \in 1 .. Len(Order(t)) /\ SplitItem(t, k)
    BY <2>1, SplitFacts
  <2>4. SplitMask(t)[k] = <<setup.mask[i][1], Local(setup.mask[i][2])>>
    BY <2>1, <2>3 DEF SplitItem
  <2>5. EvalMaskOfTrace(t)[k] = ColumnAt(t, SplitMask(t)[k][2], OodsPoint(SplitMask(t)[k][1]))
    BY <2>3, TraceMaskValues
  <2> QED  BY <2>1, <2>2, <2>4, <2>5
<1>2. ASSUME NEW i \in DOMAIN setup.mask, NEW column, column = setup.mask[i][2]
      PROVE  ColumnAt(TraceFor(column), Local(column), OodsPoint(setup.mask[i][1]))
               = LET t == IF column < Width(0) THEN 0 ELSE 1
                 IN  ColumnAt(t, IF t = 0 THEN column ELSE column - Width(0),
                       <<"point", (setup.mask[i][1] * TraceGenerator) % DomainSize>>)
  BY <1>2 DEF TraceFor, Local, OodsPoint
<1> QED  BY <1>1, <1>2 DEF MaskValuesInOrder

-----------------------------------------------------------------------------
(* Points of the domain, and the values of columns there. *)

LEMMA PointArithmetic ==
  ASSUME NEW n \in Nat \ {0}, NEW m \in Nat \ {0}, NEW co \in 0 .. m - 1, NEW y \in Nat
  PROVE  /\ (co + m * y) % (n * m) = co + m * (y % n)
         /\ co + m * (y % n) \in 0 .. (n * m) - 1
<1>1. PICK q \in Nat, r \in 0 .. n - 1 : y = n * q + r /\ r = y % n
  <2>1. y \div n \in Nat /\ y % n \in 0 .. n - 1 /\ y = n * (y \div n) + (y % n)
    OBVIOUS
  <2> QED  BY <2>1
<1>2. PICK d \in Nat \ {0} : d = n * m
  <2>1. n * m \in Nat \ {0}
    OBVIOUS
  <2> QED  BY <2>1
<1>3. co + m * r \in 0 .. d - 1
  <2>1. PICK s \in Nat : n = r + 1 + s
    <3>1. n - r - 1 \in Nat /\ n = r + 1 + (n - r - 1)
      BY <1>1
    <3> QED  BY <3>1
  <2>2. d = m * r + m + m * s
    BY <1>2, <2>1
  <2>3. m * r \in Nat /\ m * s \in Nat
    OBVIOUS
  <2> QED  BY <2>2, <2>3
<1>4. co + m * y = d * q + (co + m * r)
  <2>1. m * y = m * (n * q) + m * r
    BY <1>1
  <2>2. m * (n * q) = d * q
    BY <1>2
  <2>3. m * r \in Nat /\ d * q \in Nat
    OBVIOUS
  <2> QED  BY <2>1, <2>2, <2>3
<1>5. (d * q + (co + m * r)) % d = co + m * r
  BY <1>3, Remainder
<1> QED  BY <1>1, <1>2, <1>3, <1>4, <1>5

\* Times(Point(c, j), TraceGenerator * x), and with j = 0 the points of a coset.
LEMMA PointTimes ==
  ASSUME setup \in Setups, NEW c \in Cosets, NEW j \in Nat, NEW x \in Nat
  PROVE  /\ Times(Point(c, j), TraceGenerator * x) = Point(c, (j + x) % TraceSize)
         /\ Times(CosetOffset(c), TraceGenerator * x) = Point(c, x % TraceSize)
         /\ Point(c, x % TraceSize) \in Points
<1>1. PICK n \in Nat \ {0}, m \in Nat \ {0} : n = TraceSize /\ m = NumCosets
  BY SizeFacts DEF Sizes
<1>2. PICK co \in 0 .. m - 1 : co = CosetOffset(c)
  BY <1>1, CosetReversed
<1>3. DomainSize = n * m /\ TraceGenerator = m
  BY <1>1, DomainFacts
<1>4. j + x \in Nat
  OBVIOUS
<1>5. (co + m * (j + x)) % (n * m) = co + m * ((j + x) % n)
  BY <1>4, PointArithmetic
<1>6. /\ (co + m * x) % (n * m) = co + m * (x % n)
      /\ co + m * (x % n) \in 0 .. (n * m) - 1
  BY PointArithmetic
<1>7. (co + m * j) + m * x = co + m * (j + x)
  OBVIOUS
<1>8. Times(Point(c, j), TraceGenerator * x) = ((co + m * j) + m * x) % (n * m)
  BY <1>1, <1>2, <1>3 DEF Times, Point
<1>9. Times(CosetOffset(c), TraceGenerator * x) = (co + m * x) % (n * m)
  BY <1>2, <1>3 DEF Times
<1>10. /\ Point(c, (j + x) % TraceSize) = co + m * ((j + x) % n)
       /\ Point(c, x % TraceSize) = co + m * (x % n)
  BY <1>1, <1>2 DEF Point
<1>11. Points = 0 .. (n * m) - 1
  BY <1>3 DEF Points
<1> QED  BY <1>5, <1>6, <1>7, <1>8, <1>9, <1>10, <1>11

LEMMA OffsetFacts ==
  ASSUME setup \in Setups, NEW j \in Offsets
  PROVE  j \in Nat /\ j % TraceSize = j
<1>1. PICK n \in Nat \ {0} : n = TraceSize
  BY SizeFacts DEF Sizes
<1>2. j \in 0 .. n - 1
  BY <1>1 DEF Offsets
<1>3. j % n = j
  BY <1>2
<1> QED  BY <1>1, <1>2, <1>3

Reversed(j) == BitReverse(j, setup.log_trace_length)

\* The values of a cache entry and of a table's rows.
EntryRight(t, c) ==
  /\ DOMAIN Entry(t, c) = Columns(t)
  /\ \A column \in Columns(t) :
       /\ DOMAIN Entry(t, c)[column] = Offsets
       /\ \A j \in Offsets :
            Entry(t, c)[column][j] =
              ColumnAt(t, column, Point(c, IF t = 0 THEN j ELSE Reversed(j)))

LEMMA EntryFacts ==
  ASSUME setup \in Setups, NEW t, NEW c \in Cosets
  PROVE  EntryRight(t, c)
<1> DEFINE natural == [column \in Columns(t) |->
                         [j \in Offsets |->
                            ColumnAt(t, column, Times(CosetOffset(c), TraceGenerator * j))]]
<1>1. ASSUME NEW column \in Columns(t), NEW j \in Offsets
      PROVE  natural[column][j] = ColumnAt(t, column, Point(c, j))
  <2>1. Times(CosetOffset(c), TraceGenerator * j) = Point(c, j)
    BY OffsetFacts, PointTimes
  <2> QED  BY <2>1
<1>2. DOMAIN natural = Columns(t) /\ \A column \in Columns(t) : DOMAIN natural[column] = Offsets
  OBVIOUS
<1>3. CASE t = 0
  <2>1. Entry(t, c) = natural
    BY <1>3 DEF Entry, Evaluated, IsEvalNaturallyOrdered
  <2> HIDE DEF natural
  <2> QED  BY <1>1, <1>2, <1>3, <2>1 DEF EntryRight
<1>4. CASE t # 0
  <2>1. Entry(t, c) = [column \in Columns(t) |->
                         BitReverseVector(natural[column], setup.log_trace_length)]
    BY <1>4 DEF Entry, Evaluated, IsEvalNaturallyOrdered
  <2> HIDE DEF natural
  <2>2. ASSUME NEW column \in Columns(t)
        PROVE  /\ DOMAIN Entry(t, c)[column] = Offsets
               /\ \A j \in Offsets : Entry(t, c)[column][j] = natural[column][Reversed(j)]
    BY <1>2, <2>1 DEF BitReverseVector, Reversed
  <2>3. ASSUME NEW column \in Columns(t), NEW j \in Offsets
        PROVE  Entry(t, c)[column][j] = ColumnAt(t, column, Point(c, Reversed(j)))
    <3>1. Reversed(j) \in Offsets
      BY OffsetReversed DEF Reversed
    <3> QED  BY <1>1, <2>2, <3>1
  <2>4. DOMAIN Entry(t, c) = Columns(t)
    BY <2>1
  <2> QED  BY <1>4, <2>2, <2>3, <2>4 DEF EntryRight
<1> QED  BY <1>3, <1>4

\* The other order.
LEMMA ReorderedFacts ==
  ASSUME setup \in Setups, NEW t, NEW c \in Cosets
  PROVE  /\ DOMAIN Reordered(Entry(t, c)) = Columns(t)
         /\ \A column \in Columns(t) :
              /\ DOMAIN Reordered(Entry(t, c))[column] = Offsets
              /\ \A j \in Offsets :
                   Reordered(Entry(t, c))[column][j] =
                     ColumnAt(t, column, Point(c, IF t = 0 THEN Reversed(j) ELSE j))
<1>1. EntryRight(t, c)
  BY EntryFacts
<1>2. PICK entry : entry = Entry(t, c)
  OBVIOUS
<1>3. DOMAIN entry = Columns(t) /\ \A column \in Columns(t) : DOMAIN entry[column] = Offsets
  BY <1>1, <1>2 DEF EntryRight
<1>4. DOMAIN Reordered(entry) = Columns(t)
  BY <1>3 DEF Reordered
<1>5. ASSUME NEW column \in Columns(t)
      PROVE  /\ DOMAIN Reordered(entry)[column] = Offsets
             /\ \A j \in Offsets : Reordered(entry)[column][j] = entry[column][Reversed(j)]
  BY <1>3 DEF Reordered, BitReverseVector, Reversed
<1>6. ASSUME NEW column \in Columns(t), NEW j \in Offsets
      PROVE  Reordered(entry)[column][j] =
               ColumnAt(t, column, Point(c, IF t = 0 THEN Reversed(j) ELSE j))
  <2>1. Reversed(j) \in Offsets /\ Reversed(Reversed(j)) = j
    BY OffsetReversed DEF Reversed
  <2>2. Reordered(entry)[column][j] =
          ColumnAt(t, column, Point(c, IF t = 0 THEN Reversed(j) ELSE Reversed(Reversed(j))))
    BY <1>1, <1>2, <1>5, <2>1 DEF EntryRight
  <2> QED  BY <2>1, <2>2
<1> QED  BY <1>2, <1>4, <1>5, <1>6

LEMMA RowsFacts ==
  ASSUME setup \in Setups, NEW t, NEW c \in Cosets
  PROVE  /\ DOMAIN Rows(t, c) = Columns(t)
         /\ \A column \in Columns(t) :
              /\ DOMAIN Rows(t, c)[column] = Offsets
              /\ \A j \in Offsets :
                   Rows(t, c)[column][j] = ColumnAt(t, column, Point(c, Reversed(j)))
<1>1. CASE t = 0
  <2>1. Rows(t, c) = Reordered(Entry(t, c))
    BY <1>1 DEF Rows, IsEvalNaturallyOrdered
  <2> QED  BY <1>1, <2>1, ReorderedFacts
<1>2. CASE t # 0
  <2>1. Rows(t, c) = Entry(t, c)
    BY <1>2 DEF Rows, IsEvalNaturallyOrdered
  <2> QED  BY <1>2, <2>1, EntryFacts DEF EntryRight
<1> QED  BY <1>1, <1>2

LEMMA ReverseZero ==
  ASSUME NEW bits \in Nat
  PROVE  BitReverse(0, bits) = 0
<1>1. PICK f : Bits(f, 0, bits) /\ BitReverse(0, bits) = f[bits].reversed
  BY BitsFacts
<1> DEFINE S == {j \in 0 .. bits : f[j] # NoBits(0)}
<1>2. S = {}
  <2>1. SUFFICES ASSUME S # {}  PROVE FALSE
    OBVIOUS
  <2>2. PICK j \in S : \A h \in S : j <= h
    <3>1. S \in SUBSET Nat
      OBVIOUS
    <3> HIDE DEF S
    <3> QED  BY <2>1, <3>1, LeastOf
  <2>3. j \in 1 .. bits /\ j - 1 \in 0 .. bits /\ j - 1 \notin S
    BY <1>1, <2>2 DEF Bits
  <2>4. f[j] = NextBit(NoBits(0))
    BY <1>1, <2>3 DEF Bits
  <2>5. 2 * 0 + (0 % 2) = 0 /\ 0 \div 2 = 0
    OBVIOUS
  <2> QED  BY <2>2, <2>4, <2>5 DEF NextBit, NoBits
<1>3. f[bits] = NoBits(0)
  BY <1>2
<1> QED  BY <1>1, <1>3 DEF NoBits

\* The bit-reversed order of the domain, of the whole or of its first cosets.
LEMMA DomainOrder ==
  ASSUME setup \in Setups, NEW h \in 0 .. setup.log_n_cosets,
         NEW c \in 0 .. Pow2[h] - 1, NEW j \in Offsets
  PROVE  c \in Cosets /\ BitReversedPoint(c * TraceSize + j, h) = Point(c, Reversed(j))
<1>1. PICK a, b, e \in Nat : /\ a = setup.log_trace_length /\ b = setup.log_n_cosets
                             /\ a \in 0 .. MaxLogSize /\ b \in 0 .. MaxLogSize /\ h \in Nat
                             /\ a + h <= MaxLogSize /\ b = h + e /\ h + e <= MaxLogSize
                             /\ e = b - h /\ e \in 0 .. MaxLogSize /\ h \in 0 .. MaxLogSize
  <2>1. PICK a \in Nat, b \in Nat : /\ a = setup.log_trace_length /\ b = setup.log_n_cosets
                                    /\ a + b <= MaxLogSize
    BY SetupTyped
  <2>2. MaxLogSize \in Nat /\ h \in 0 .. b
    BY <2>1, Pow2Facts
  <2>3. b - h \in Nat /\ b = h + (b - h)
    BY <2>2
  <2>4. /\ a \in 0 .. MaxLogSize /\ b \in 0 .. MaxLogSize /\ h \in Nat /\ a + h <= MaxLogSize
        /\ h + (b - h) <= MaxLogSize /\ b - h \in 0 .. MaxLogSize /\ h \in 0 .. MaxLogSize
    BY <2>1, <2>2
  <2> QED  BY <2>1, <2>3, <2>4
<1>2. PICK n \in Nat \ {0}, m \in Nat \ {0}, p \in Nat \ {0}, q \in Nat \ {0} :
        /\ n = TraceSize /\ n = Pow2[a] /\ m = NumCosets /\ m = Pow2[b]
        /\ p = Pow2[h] /\ q = Pow2[e]
  BY <1>1, Pow2Facts DEF TraceSize, NumCosets
<1>3. m = p * q
  BY <1>1, <1>2, Pow2Product
<1>4. c \in 0 .. p - 1 /\ j \in 0 .. n - 1
  BY <1>2 DEF Offsets
<1>5. c \in Cosets
  <2>1. PICK s \in Nat : q = 1 + s
    <3>1. q - 1 \in Nat /\ q = 1 + (q - 1)
      OBVIOUS
    <3> QED  BY <3>1
  <2>2. m = p + p * s /\ p * s \in Nat
    BY <1>3, <2>1
  <2>3. c \in 0 .. m - 1
    BY <1>4, <2>2
  <2> QED  BY <1>2, <2>3 DEF Cosets
<1>6. PICK r \in Nat, k \in Nat : r = BitReverse(c, h) /\ k = Reversed(j)
  <2>1. Pow2[h] \in Nat /\ c \in Nat /\ j \in Nat
    BY <1>2, <1>4
  <2>2. BitReverse(c, h) \in 0 .. p - 1
    BY <1>1, <1>2, <2>1, ReverseBounded
  <2>3. BitReverse(j, a) \in 0 .. n - 1
    BY <1>1, <1>2, <2>1, ReverseBounded
  <2>4. BitReverse(c, h) \in Nat /\ BitReverse(j, a) \in Nat
    BY <2>2, <2>3
  <2> QED  BY <1>1, <2>4 DEF Reversed
<1>7. BitReverse(c * n + j, a + h) = k * p + r
  <2>1. BitReverse(c * Pow2[a] + j, a + h) = BitReverse(j, a) * Pow2[h] + BitReverse(c, h)
    BY <1>1, <1>2, <1>4, ReverseSplit
  <2> QED  BY <1>1, <1>2, <1>6, <2>1 DEF Reversed
<1>8. BitReverse(c, b) = r * q
  <2>1. BitReverse(0 * Pow2[h] + c, h + e) = BitReverse(c, h) * Pow2[e] + BitReverse(0, e)
    <3>1. 0 \in 0 .. Pow2[e] - 1
      BY <1>2
    <3> QED  BY <1>1, <3>1, ReverseSplit
  <2>2. 0 * p + c = c
    BY <1>4
  <2>3. BitReverse(0, e) = 0
    BY ReverseZero
  <2>4. r * q + 0 = r * q
    OBVIOUS
  <2> QED  BY <1>1, <1>2, <1>6, <2>1, <2>2, <2>3, <2>4
<1>9. (k * p + r) * q = r * q + m * k
  <2>1. (k * p + r) * q = (k * p) * q + r * q
    OBVIOUS
  <2>2. (k * p) * q = m * k
    BY <1>3
  <2>3. m * k \in Nat /\ r * q \in Nat
    OBVIOUS
  <2> QED  BY <2>1, <2>2, <2>3
<1>10. BitReversedPoint(c * TraceSize + j, h) = (k * p + r) * q
  BY <1>1, <1>2, <1>7 DEF BitReversedPoint
<1>11. Point(c, Reversed(j)) = r * q + m * k
  BY <1>1, <1>2, <1>5, <1>6, <1>8, CosetReversed DEF Point
<1> QED  BY <1>5, <1>9, <1>10, <1>11

-----------------------------------------------------------------------------
(* The composition at a point. *)

NeighborsOf(t, point) ==
  [k \in 1 .. Len(Order(t)) |->
     ColumnAt(t, SplitMask(t)[k][2], Times(point, TraceGenerator * SplitMask(t)[k][1]))]

LEMMA CompositionForm ==
  ASSUME setup \in Setups, NEW point
  PROVE  CompositionAt(point) =
           ConstraintsEval(<<NeighborsOf(0, point), NeighborsOf(1, point)>>,
                           Power(point, Copies), PointPowers(point))
<1> DEFINE chosen(t) == {i \in DOMAIN setup.mask : (setup.mask[i][2] < Width(0)) = (t = 0)}
           neighbors(t) ==
             LET items == MaskItems(chosen(t)) IN
             [i \in DOMAIN items |->
                ColumnAt(t, items[i][2] - (IF t = 0 THEN 0 ELSE Width(0)),
                         Times(point, TraceGenerator * items[i][1]))]
<1>1. ASSUME NEW t \in {0, 1}
      PROVE  chosen(t) = PlacesOf(t)
  <2>1. ASSUME NEW i \in DOMAIN setup.mask
        PROVE  i \in chosen(t) <=> i \in PlacesOf(t)
    <3>1. i \in PlacesOf(t) <=> TraceFor(setup.mask[i][2]) = t
      BY PlacesFacts
    <3>2. setup.mask[i][2] \in Nat /\ Width(0) \in Nat
      BY ItemFacts, WidthFacts DEF ItemRight, TwoWidths
    <3>3. ((setup.mask[i][2] < Width(0)) = (t = 0)) <=> (setup.mask[i][2] < Width(0) <=> t = 0)
      BY <3>2, SMT
    <3>4. i \in chosen(t) <=> ((setup.mask[i][2] < Width(0)) = (t = 0))
      OBVIOUS
    <3>5. TraceFor(setup.mask[i][2]) = t <=> (setup.mask[i][2] < Width(0) <=> t = 0)
      BY DEF TraceFor
    <3> HIDE DEF chosen
    <3> QED  BY <3>1, <3>3, <3>4, <3>5
  <2>2. PlacesOf(t) \subseteq DOMAIN setup.mask /\ chosen(t) \subseteq DOMAIN setup.mask
    BY DEF PlacesOf
  <2> HIDE DEF chosen
  <2> QED  BY <2>1, <2>2
<1>2. ASSUME NEW t \in {0, 1}
      PROVE  neighbors(t) = NeighborsOf(t, point)
  <2>1. PICK items : items = MaskItems(PlacesOf(t))
    OBVIOUS
  <2>2. neighbors(t) = [i \in DOMAIN items |->
                          ColumnAt(t, items[i][2] - (IF t = 0 THEN 0 ELSE Width(0)),
                                   Times(point, TraceGenerator * items[i][1]))]
    <3> HIDE DEF chosen
    <3> QED  BY <1>1, <2>1
  <2>3. DOMAIN items = 1 .. Len(Order(t))
    BY <2>1, SplitFacts
  <2>4. ASSUME NEW i \in 1 .. Len(Order(t))
        PROVE  /\ items[i][2] - (IF t = 0 THEN 0 ELSE Width(0)) = SplitMask(t)[i][2]
               /\ items[i][1] = SplitMask(t)[i][1]
    <3>1. SplitItem(t, i)
      BY SplitFacts
    <3>2. PICK column : column = items[i][2]
      OBVIOUS
    <3>3. /\ column \in Nat /\ SplitMask(t)[i] = <<items[i][1], Local(column)>>
          /\ TraceFor(column) = t
      BY <2>1, <3>1, <3>2 DEF SplitItem, ItemRight
    <3>4. Local(column) = column - (IF t = 0 THEN 0 ELSE Width(0))
      <4>1. PICK w \in Nat : w = Width(0)
        BY WidthFacts DEF TwoWidths
      <4>2. CASE column < w
        <5>1. t = 0 /\ Local(column) = column
          BY <3>3, <4>1, <4>2 DEF TraceFor, Local
        <5> QED  BY <3>3, <5>1
      <4>3. CASE ~(column < w)
        <5>1. t = 1 /\ Local(column) = column - w
          BY <3>3, <4>1, <4>3 DEF TraceFor, Local
        <5> QED  BY <4>1, <5>1
      <4> QED  BY <4>2, <4>3
    <3> QED  BY <3>2, <3>3, <3>4
  <2> HIDE DEF neighbors
  <2> QED  BY <2>2, <2>3, <2>4 DEF NeighborsOf
<1>3. CompositionAt(point) =
        [neighbors |-> <<neighbors(0), neighbors(1)>>, periodic |-> Power(point, Copies),
         powers |-> PointPowers(point)]
  BY DEF CompositionAt, PointPowers
<1> HIDE DEF neighbors
<1> QED  BY <1>2, <1>3 DEF ConstraintsEval

\* What the tasks read from the cache are the neighbors of their point.
LEMMA LdeColumnsFacts ==
  ASSUME setup \in Setups, NEW t, current \in Cosets, cache[t][current] = Entry(t, current),
         NEW column \in Columns(t), NEW j \in Offsets
  PROVE  LdeColumns(t)[column][j] = ColumnAt(t, column, Point(current, j))
<1>1. CASE t = 0
  <2>1. LdeColumns(t) = Entry(t, current)
    BY <1>1 DEF LdeColumns, IsEvalNaturallyOrdered
  <2> QED  BY <1>1, <2>1, EntryFacts DEF EntryRight
<1>2. CASE t # 0
  <2>1. LdeColumns(t) = Reordered(Entry(t, current))
    BY <1>2 DEF LdeColumns, IsEvalNaturallyOrdered
  <2> QED  BY <1>2, <2>1, ReorderedFacts
<1> QED  BY <1>1, <1>2

LEMMA ValueRead ==
  ASSUME setup \in Setups, NEW idx \in Offsets, current \in Cosets,
         \A t \in Traces : cache[t][current] = Entry(t, current),
         NEW t, NEW k \in 1 .. Len(Order(t)), NEW item, item = MaskItems(PlacesOf(t))[k]
  PROVE  LdeColumns(t)[item[2] - WidthsBefore(t)][(idx + item[1]) % TraceSize]
           = ColumnAt(t, SplitMask(t)[k][2],
                      Times(Point(current, idx), TraceGenerator * SplitMask(t)[k][1]))
<1>1. SplitItem(t, k)
  BY SplitFacts
<1>2. PICK column, row : column = item[2] /\ row = item[1]
  OBVIOUS
<1>3. /\ row \in Nat /\ SplitMask(t)[k] = <<row, Local(column)>> /\ TraceFor(column) = t
      /\ ColumnRight(column)
  BY <1>1, <1>2 DEF SplitItem, ItemRight
<1>4. /\ t \in Traces /\ Local(column) \in Columns(t)
      /\ column - WidthsBefore(t) = Local(column)
  BY <1>3 DEF ColumnRight
<1>5. PICK j : j = (idx + row) % TraceSize
  OBVIOUS
<1>6. j \in Offsets
  <2>1. PICK n \in Nat \ {0} : n = TraceSize
    BY SizeFacts DEF Sizes
  <2>2. idx + row \in Nat
    BY <1>3, OffsetFacts
  <2>3. (idx + row) % n \in 0 .. n - 1
    BY <2>2
  <2> QED  BY <1>5, <2>1, <2>3 DEF Offsets
<1>7. LdeColumns(t)[Local(column)][j] = ColumnAt(t, Local(column), Point(current, j))
  BY <1>4, <1>6, LdeColumnsFacts
<1>8. Times(Point(current, idx), TraceGenerator * row) = Point(current, j)
  BY <1>3, <1>5, OffsetFacts, PointTimes
<1> QED  BY <1>2, <1>3, <1>4, <1>5, <1>7, <1>8

LEMMA NeighborsRead ==
  ASSUME setup \in Setups, NEW idx \in Offsets, current \in Cosets,
         \A t \in Traces : cache[t][current] = Entry(t, current)
  PROVE  NeighborsAt(idx)
           = <<NeighborsOf(0, Point(current, idx)), NeighborsOf(1, Point(current, idx))>>
<1> DEFINE value(t, item) ==
             LdeColumns(t)[item[2] - WidthsBefore(t)][(idx + item[1]) % TraceSize]
           listed(t, items) == [i \in DOMAIN items |-> value(t, items[i])]
<1>1. ASSUME NEW i \in DOMAIN setup.mask
      PROVE  /\ setup.mask[i][2] < Width(0) <=> TraceFor(setup.mask[i][2]) = 0
             /\ setup.mask[i][2] >= Width(0) <=> TraceFor(setup.mask[i][2]) = 1
  <2>1. PICK column \in Nat, w \in Nat : column = setup.mask[i][2] /\ w = Width(0)
    BY ItemFacts, WidthFacts DEF ItemRight, TwoWidths
  <2>2. column >= w <=> ~(column < w)
    OBVIOUS
  <2> QED  BY <2>1, <2>2 DEF TraceFor
<1>2. /\ {i \in DOMAIN setup.mask : setup.mask[i][2] < Width(0)} = PlacesOf(0)
      /\ {i \in DOMAIN setup.mask : setup.mask[i][2] >= Width(0)} = PlacesOf(1)
  BY <1>1, PlacesFacts
<1>3. NeighborsAt(idx) = <<listed(0, MaskItems(PlacesOf(0))), listed(1, MaskItems(PlacesOf(1)))>>
  BY <1>2 DEF NeighborsAt
<1>4. ASSUME NEW t
      PROVE  listed(t, MaskItems(PlacesOf(t))) = NeighborsOf(t, Point(current, idx))
  <2>1. PICK items : items = MaskItems(PlacesOf(t))
    OBVIOUS
  <2>2. DOMAIN items = 1 .. Len(Order(t))
    BY <2>1, SplitFacts
  <2>3. ASSUME NEW k \in 1 .. Len(Order(t))
        PROVE  value(t, items[k]) =
                 ColumnAt(t, SplitMask(t)[k][2],
                          Times(Point(current, idx), TraceGenerator * SplitMask(t)[k][1]))
    BY <2>1, ValueRead
  <2> HIDE DEF value
  <2> QED  BY <2>1, <2>2, <2>3 DEF NeighborsOf
<1> HIDE DEF listed
<1> QED  BY <1>3, <1>4

Congruent(a, b, d) == \E k \in Int : b = a + k * d

LEMMA SameModulo ==
  ASSUME NEW a \in Int, NEW b \in Int, NEW d \in Nat \ {0}, Congruent(a, b, d)
  PROVE  b % d = a % d
<1>1. PICK k \in Int : b = a + k * d
  BY DEF Congruent
<1> QED  BY <1>1, SameRemainder

\* The periodic columns' value at a point, by its place in the period.
Factors(d, p, n, m) == d = (p * n) * m

SameInPeriod(p, n, m, co, x, d) ==
  /\ x % p \in 0 .. p - 1
  /\ (co * n + (x % p) * (d \div p)) % d = ((co + m * x) * n) % d

LEMMA PeriodicArithmetic ==
  ASSUME NEW p \in Nat \ {0}, NEW n \in Nat \ {0}, NEW m \in Nat \ {0}, NEW co \in Nat,
         NEW x \in Nat, NEW d \in Nat \ {0}, Factors(d, p, n, m)
  PROVE  SameInPeriod(p, n, m, co, x, d)
<1>0. d = (p * n) * m
  BY DEF Factors
<1>1. PICK q \in Nat, r \in 0 .. p - 1 : x = p * q + r /\ r = x % p
  <2>1. x \div p \in Nat /\ x % p \in 0 .. p - 1 /\ x = p * (x \div p) + (x % p)
    OBVIOUS
  <2> QED  BY <2>1
<1>2. d \div p = n * m
  <2>1. d = p * (n * m) + 0
    BY <1>0
  <2>2. n * m \in Nat /\ 0 \in 0 .. p - 1
    OBVIOUS
  <2> QED  BY <2>1, <2>2, Quotient
<1>3. PICK u \in Nat, v \in Nat : u = co * n + r * (n * m) /\ v = (co + m * x) * n
  <2>1. co * n \in Nat /\ r * (n * m) \in Nat /\ (co + m * x) * n \in Nat
    OBVIOUS
  <2> QED  BY <2>1
<1>4. v = u + q * d
  <2>1. (co + m * x) * n = co * n + (m * (p * q) + m * r) * n
    <3>1. PICK y \in Nat : y = m * x /\ y = m * (p * q) + m * r
      <4>1. m * x \in Nat /\ m * x = m * (p * q) + m * r
        BY <1>1
      <4> QED  BY <4>1
    <3>2. (co + y) * n = co * n + y * n
      OBVIOUS
    <3> QED  BY <3>1, <3>2
  <2>2. (m * (p * q) + m * r) * n = q * ((p * n) * m) + r * (n * m)
    OBVIOUS
  <2>3. co * n \in Nat /\ q * d \in Nat /\ r * (n * m) \in Nat
    OBVIOUS
  <2> QED  BY <1>0, <1>3, <2>1, <2>2, <2>3
<1>5. v % d = u % d
  <2>1. u \in Int /\ v \in Int /\ q \in Int
    OBVIOUS
  <2> QED  BY <1>4, <2>1, SameModulo DEF Congruent
<1> QED  BY <1>1, <1>2, <1>3, <1>5 DEF SameInPeriod

LEMMA PeriodicRead ==
  ASSUME setup \in Setups, NEW c \in Cosets, NEW idx \in Offsets
  PROVE  /\ idx % Period \in 0 .. Period - 1
         /\ PeriodicCoset(CosetOffset(c))[idx % Period] = Power(Point(c, idx), Copies)
<1>1. PICK p \in Nat \ {0}, n \in Nat \ {0}, m \in Nat \ {0}, d \in Nat \ {0} :
        /\ p = Period /\ n = Copies /\ m = NumCosets /\ d = DomainSize /\ d = (p * n) * m
  BY SizeFacts, DomainFacts DEF Sizes
<1>2. PICK co \in Nat : co = CosetOffset(c)
  <2>1. PICK m2 \in Nat : m2 = NumCosets
    BY <1>1
  <2>2. CosetOffset(c) \in 0 .. m2 - 1
    BY <2>1, CosetReversed
  <2> QED  BY <2>2
<1>3. idx \in Nat
  BY OffsetFacts
<1>4. /\ idx % p \in 0 .. p - 1
      /\ (co * n + (idx % p) * (d \div p)) % d = ((co + m * idx) * n) % d
  <2>1. Factors(d, p, n, m)
    BY <1>1 DEF Factors
  <2>2. PICK x \in Nat : x = idx
    BY <1>3
  <2>3. SameInPeriod(p, n, m, co, x, d)
    BY <2>1, PeriodicArithmetic
  <2> QED  BY <2>2, <2>3 DEF SameInPeriod
<1>5. PICK j : j = idx % p
  OBVIOUS
<1>6. PeriodicCoset(co)[j] = <<n, (co * n + j * (d \div p)) % d>>
  BY <1>1, <1>4, <1>5 DEF PeriodicCoset
<1>7. Power(Point(c, idx), Copies) = <<n, ((co + m * idx) * n) % d>>
  BY <1>1, <1>2 DEF Power, Point
<1> QED  BY <1>1, <1>2, <1>4, <1>5, <1>6, <1>7

\* From point to point.
LEMMA PowersArithmetic ==
  ASSUME NEW p \in Nat, NEW k \in Nat, NEW g \in Nat, NEW d \in Nat \ {0}
  PROVE  (((p * k) % d) + k * g) % d = (((p + g) % d) * k) % d
<1>1. PICK u \in Nat, a \in Int, r \in Nat : u = p * k /\ u = a * d + r /\ r = u % d
  <2>1. p * k \in Nat
    OBVIOUS
  <2>2. PICK u \in Nat : u = p * k
    BY <2>1
  <2>3. u \div d \in Int /\ u = (u \div d) * d + (u % d) /\ u % d \in Nat
    BY Divided
  <2> QED  BY <2>2, <2>3
<1>2. PICK b \in Int, s \in Nat : p + g = b * d + s /\ s = (p + g) % d
  <2>1. PICK x \in Int : x = p + g
    OBVIOUS
  <2>2. x \div d \in Int /\ x = (x \div d) * d + (x % d) /\ x % d \in Nat
    BY Divided
  <2> QED  BY <2>1, <2>2
<1>3. PICK v \in Int, w \in Int : v = r + k * g /\ w = s * k
  <2>1. r + k * g \in Int /\ s * k \in Int
    OBVIOUS
  <2> QED  BY <2>1
<1>4. w = v + (a - b * k) * d
  <2>1. (p + g) * k = (b * d + s) * k
    BY <1>2
  <2>2. (p + g) * k = p * k + k * g /\ (b * d + s) * k = (b * k) * d + s * k
    OBVIOUS
  <2>3. (a - b * k) * d = a * d - (b * k) * d
    OBVIOUS
  <2>4. PICK x \in Int, y \in Int, z \in Int : x = (b * k) * d /\ y = a * d /\ z = k * g
    <3>1. (b * k) * d \in Int /\ a * d \in Int /\ k * g \in Int
      OBVIOUS
    <3> QED  BY <3>1
  <2>5. (y + r) + z = x + w
    BY <1>1, <1>3, <2>1, <2>2, <2>4
  <2> QED  BY <1>3, <2>3, <2>4, <2>5
<1>5. PICK z \in Int : z = a - b * k
  OBVIOUS
<1>6. w % d = v % d
  <2>1. Congruent(v, w, d)
    BY <1>4, <1>5 DEF Congruent
  <2> QED  BY <2>1, SameModulo
<1> QED  BY <1>1, <1>2, <1>3, <1>6

LEMMA PowersStep ==
  ASSUME setup \in Setups, NEW p \in Nat
  PROVE  ShiftedPowers(PointPowers(p)) = PointPowers(Times(p, TraceGenerator))
<1>1. PICK k \in Nat, g \in Nat, d \in Nat \ {0} :
        k = setup.point_exponent /\ g = TraceGenerator /\ d = DomainSize
  BY SetupTyped, SizeFacts, DomainFacts DEF Sizes
<1>2. (((p * k) % d) + k * g) % d = (((p + g) % d) * k) % d
  BY PowersArithmetic
<1>3. PointPowers(p) = <<p, <<k, (p * k) % d>>>>
  BY <1>1 DEF PointPowers, Power
<1>4. ShiftedPowers(PointPowers(p)) = <<(p + g) % d, <<k, (((p * k) % d) + k * g) % d>>>>
  BY <1>1, <1>3 DEF ShiftedPowers, Times
<1>5. PointPowers(Times(p, TraceGenerator)) = <<(p + g) % d, <<k, (((p + g) % d) * k) % d>>>>
  BY <1>1 DEF PointPowers, Power, Times
<1> QED  BY <1>2, <1>4, <1>5

\* The memory of a thread that goes on to the next point.
NextMemory(c, idx) ==
  /\ Times(Point(c, idx), TraceGenerator) = Point(c, idx + 1)
  /\ ShiftedPowers(PointPowers(Point(c, idx))) = PointPowers(Point(c, idx + 1))

LEMMA NextPoint ==
  ASSUME setup \in Setups, NEW c \in Cosets, NEW idx \in Offsets, idx + 1 \in Offsets
  PROVE  NextMemory(c, idx)
<1>1. PICK x \in Nat : x = 1
  OBVIOUS
<1>2. idx \in Nat /\ (idx + x) % TraceSize = idx + 1
  BY <1>1, OffsetFacts
<1>3. Times(Point(c, idx), TraceGenerator * x) = Point(c, (idx + x) % TraceSize)
  BY <1>2, PointTimes
<1>4. TraceGenerator * x = TraceGenerator
  <2>1. TraceGenerator \in Nat
    BY SizeFacts, DomainFacts DEF Sizes
  <2> QED  BY <1>1, <2>1
<1>5. Times(Point(c, idx), TraceGenerator) = Point(c, idx + 1)
  BY <1>2, <1>3, <1>4
<1>6. Point(c, idx) \in Nat
  <2>1. PICK d \in Nat \ {0} : d = DomainSize
    BY SizeFacts DEF Sizes
  <2>2. Point(c, idx % TraceSize) \in Points /\ idx % TraceSize = idx
    BY <1>2, OffsetFacts, PointTimes
  <2>3. Points \subseteq Nat
    BY <2>1 DEF Points
  <2> QED  BY <2>2, <2>3
<1>7. ShiftedPowers(PointPowers(Point(c, idx))) = PointPowers(Times(Point(c, idx), TraceGenerator))
  BY <1>6, PowersStep
<1> QED  BY <1>5, <1>7 DEF NextMemory

LEMMA NextInPeriod ==
  ASSUME setup \in Setups, NEW x \in Nat
  PROVE  /\ NextPeriodic(x % Period) = (x + 1) % Period
         /\ NextPeriodic(x) \in 0 .. Period - 1
<1>1. PICK p \in Nat \ {0} : p = Period
  BY SizeFacts DEF Sizes
<1>2. PICK a \in Int, b \in Int : a = (x % p) + 1 /\ b = x + 1
  <2>1. x % p \in Int
    OBVIOUS
  <2> QED  BY <2>1
<1>3. Congruent(a, b, p)
  <2>1. x \div p \in Int /\ x = (x \div p) * p + (x % p)
    BY Divided
  <2>2. b = a + (x \div p) * p
    BY <1>2, <2>1
  <2> QED  BY <2>1, <2>2 DEF Congruent
<1>4. b % p = a % p
  BY <1>3, SameModulo
<1>5. b % p \in 0 .. p - 1
  OBVIOUS
<1> QED  BY <1>1, <1>2, <1>4, <1>5 DEF NextPeriodic

\* The tasks' points.
TaskOf(idx) == idx \div setup.task_size

LEMMA TaskArithmetic ==
  ASSUME NEW n \in Nat \ {0}, NEW s \in Nat \ {0}, NEW task \in Nat, NEW idx \in Nat
  PROVE  /\ task <= (n + s - 1) \div s - 1 => s * task < n
         /\ idx < n => idx \div s <= (n + s - 1) \div s - 1
         /\ idx \div s \in Nat /\ s * (idx \div s) <= idx /\ idx < s * (idx \div s) + s
<1>1. PICK q \in Nat, r \in 0 .. s - 1 : n + s - 1 = s * q + r /\ q = (n + s - 1) \div s
  <2>1. PICK x \in Nat : x = n + s - 1
    OBVIOUS
  <2>2. x \div s \in Nat /\ x % s \in 0 .. s - 1 /\ x = s * (x \div s) + (x % s)
    OBVIOUS
  <2> QED  BY <2>1, <2>2
<1>2. PICK t \in Nat, u \in 0 .. s - 1 : idx = s * t + u /\ t = idx \div s
  <2>1. idx \div s \in Nat /\ idx % s \in 0 .. s - 1 /\ idx = s * (idx \div s) + (idx % s)
    OBVIOUS
  <2> QED  BY <2>1
<1>3. ASSUME task <= q - 1
      PROVE  s * task < n
  <2>1. PICK e \in Nat : q = task + 1 + e
    <3>1. q - task - 1 \in Nat /\ q = task + 1 + (q - task - 1)
      BY <1>3
    <3> QED  BY <3>1
  <2>2. s * q = s * task + s + s * e
    BY <2>1
  <2>3. s * task \in Nat /\ s * e \in Nat
    OBVIOUS
  <2> QED  BY <1>1, <2>2, <2>3
<1>4. ASSUME idx < n
      PROVE  t <= q - 1
  <2>1. SUFFICES ASSUME q <= t  PROVE FALSE
    OBVIOUS
  <2>2. PICK e \in Nat : t = q + e
    <3>1. t - q \in Nat /\ t = q + (t - q)
      BY <2>1
    <3> QED  BY <3>1
  <2>3. s * t = s * q + s * e
    BY <2>2
  <2>4. s * q \in Nat /\ s * e \in Nat
    OBVIOUS
  <2> QED  BY <1>1, <1>2, <1>4, <2>3, <2>4
<1> QED  BY <1>1, <1>2, <1>3, <1>4

LEMMA TaskFacts ==
  ASSUME setup \in Setups
  PROVE  /\ \A task \in Tasks : task \in Nat /\ setup.task_size * task \in Offsets
         /\ \A idx \in Offsets : TaskOf(idx) \in Tasks
         /\ \A idx \in Offsets :
              /\ setup.task_size * TaskOf(idx) <= idx
              /\ idx < setup.task_size * TaskOf(idx) + setup.task_size
<1>1. PICK n \in Nat \ {0}, s \in Nat \ {0} : n = TraceSize /\ s = setup.task_size
  BY SetupTyped, SizeFacts DEF Sizes
<1>2. PICK q : q = (n + s - 1) \div s
  OBVIOUS
<1>3. Tasks = 0 .. q - 1 /\ Offsets = 0 .. n - 1 /\ q \in Int
  BY <1>1, <1>2 DEF Tasks, Offsets
<1>4. ASSUME NEW task \in 0 .. q - 1
      PROVE  task \in Nat /\ s * task \in 0 .. n - 1
  <2>1. task \in Nat /\ task <= q - 1
    BY <1>3
  <2>2. s * task < n
    BY <1>2, <2>1, TaskArithmetic
  <2>3. s * task \in Nat
    BY <2>1
  <2> QED  BY <2>1, <2>2, <2>3
<1>5. ASSUME NEW idx \in 0 .. n - 1
      PROVE  /\ idx \div s \in 0 .. q - 1 /\ s * (idx \div s) <= idx
             /\ idx < s * (idx \div s) + s
  <2>1. idx \in Nat /\ idx < n
    OBVIOUS
  <2>2. /\ idx \div s <= q - 1 /\ idx \div s \in Nat /\ s * (idx \div s) <= idx
        /\ idx < s * (idx \div s) + s
    BY <1>2, <2>1, TaskArithmetic
  <2> QED  BY <1>3, <2>2
<1> QED  BY <1>1, <1>3, <1>4, <1>5 DEF TaskOf

LEMMA AlgebraicOffsetFacts ==
  ASSUME setup \in Setups, current \in Cosets, NEW task \in Tasks
  PROVE  AlgebraicOffset(task) = Point(current, setup.task_size * task)
<1>1. PICK s \in Nat, x \in Nat : s = setup.task_size /\ x = s * task /\ x \in Offsets
  BY SetupTyped, TaskFacts, OffsetFacts
<1>2. task \in Nat
  BY TaskFacts
<1>3. PICK g \in Nat : g = TraceGenerator
  BY SizeFacts, DomainFacts DEF Sizes
<1>4. g * s * task = g * x
  BY <1>1, <1>2
<1>5. AlgebraicOffset(task) = Times(CosetOffset(current), g * x)
  BY <1>1, <1>3, <1>4 DEF AlgebraicOffset
<1>6. Times(CosetOffset(current), TraceGenerator * x) = Point(current, x % TraceSize)
  BY PointTimes
<1> QED  BY <1>1, <1>3, <1>5, <1>6, OffsetFacts

-----------------------------------------------------------------------------
(* Cache entries and rows are something, and have their type. *)

EntryType(t) ==
  [Columns(t) -> [Offsets -> ({t} \X Columns(t) \X Points) \cup {Uninitialized}]]

LEMMA PointInDomain ==
  ASSUME setup \in Setups, NEW c \in Cosets, NEW j \in Offsets
  PROVE  Point(c, j) \in Points /\ Points \subseteq Nat
<1>1. Point(c, j % TraceSize) \in Points /\ j % TraceSize = j
  BY OffsetFacts, PointTimes
<1>2. PICK d \in Nat \ {0} : d = DomainSize
  BY SizeFacts DEF Sizes
<1>3. Points \subseteq Nat
  BY <1>2 DEF Points
<1> QED  BY <1>1, <1>3

LEMMA EntryTyped ==
  ASSUME setup \in Setups, NEW t \in Traces, NEW c \in Cosets
  PROVE  Entry(t, c) \in EntryType(t) /\ Rows(t, c) \in EntryType(t)
         /\ AllocatedEntry(t) \in EntryType(t)
<1> DEFINE values == [Offsets -> ({t} \X Columns(t) \X Points) \cup {Uninitialized}]
           natural == [column \in Columns(t) |->
                         [j \in Offsets |->
                            ColumnAt(t, column, Times(CosetOffset(c), TraceGenerator * j))]]
           reversed(e) == [column \in Columns(t) |->
                             BitReverseVector(e[column], setup.log_trace_length)]
<1>1. ASSUME NEW column \in Columns(t), NEW j \in Offsets
      PROVE  ColumnAt(t, column, Times(CosetOffset(c), TraceGenerator * j))
               \in {t} \X Columns(t) \X Points
  <2>1. Times(CosetOffset(c), TraceGenerator * j) \in Points
    BY OffsetFacts, PointTimes
  <2> QED  BY <2>1 DEF ColumnAt
<1>2. natural \in [Columns(t) -> values]
  BY <1>1
<1>3. ASSUME NEW e \in [Columns(t) -> values]
      PROVE  reversed(e) \in [Columns(t) -> values] /\ Reordered(e) = reversed(e)
  <2>1. ASSUME NEW column \in Columns(t)
        PROVE  BitReverseVector(e[column], setup.log_trace_length) \in values
    <3>1. PICK v \in values : v = e[column]
      BY <1>3
    <3>2. DOMAIN v = Offsets /\ \A j \in Offsets :
            v[j] \in ({t} \X Columns(t) \X Points) \cup {Uninitialized}
      OBVIOUS
    <3>3. \A j \in Offsets : BitReverse(j, setup.log_trace_length) \in Offsets
      BY OffsetReversed
    <3> QED  BY <3>1, <3>2, <3>3 DEF BitReverseVector
  <2> HIDE DEF values
  <2>2. DOMAIN e = Columns(t)
    BY <1>3
  <2> QED  BY <2>1, <2>2 DEF Reordered
<1>4. Entry(t, c) = IF t = 0 THEN natural ELSE reversed(natural)
  BY DEF Entry, Evaluated, IsEvalNaturallyOrdered
<1>5. Entry(t, c) \in [Columns(t) -> values]
  <2> HIDE DEF natural, values, reversed
  <2> QED  BY <1>2, <1>3, <1>4
<1>6. Rows(t, c) \in [Columns(t) -> values]
  <2> HIDE DEF natural, values, reversed
  <2> QED  BY <1>3, <1>5 DEF Rows
<1>7. AllocatedEntry(t) \in [Columns(t) -> values]
  BY DEF AllocatedEntry
<1> QED  BY <1>5, <1>6, <1>7 DEF EntryType

LEMMA EntrySomething ==
  ASSUME setup \in Setups, NEW t \in Traces, NEW e \in EntryType(t)
  PROVE  e # Nothing
<1> DEFINE L == Pow2[setup.log_trace_length]
<1>1. PICK w : w = setup.trace_widths
  OBVIOUS
<1>2. t + 1 \in DOMAIN w /\ (t + 1) - 1 = t /\ t \in Nat
  <2>1. w \in Seq(Nat \ {0}) /\ Len(w) \in 1 .. 2
    BY <1>1, SetupTyped
  <2>2. t \in 0 .. Len(w) - 1
    BY <1>1 DEF Traces
  <2> QED  BY <2>1, <2>2
<1>3. Nothing \notin [0 .. w[t + 1] - 1 ->
                        [0 .. L - 1 -> (Nat \X Nat \X Nat) \cup {Uninitialized}]]
  BY <1>1, <1>2, NothingAssumption
<1>4. Columns(t) = 0 .. w[t + 1] - 1 /\ Offsets = 0 .. L - 1
  BY <1>1 DEF Columns, Width, Offsets, TraceSize
<1>5. {t} \X Columns(t) \X Points \subseteq Nat \X Nat \X Nat
  <2>1. Columns(t) \subseteq Nat
    <3>1. Traces \in {{0}, {0, 1}} /\ Width(t) \in Nat \ {0}
      BY WidthFacts DEF TwoWidths
    <3>2. PICK m \in Nat : m = Width(t)
      BY <3>1
    <3> QED  BY <3>2 DEF Columns
  <2>2. Points \subseteq Nat
    <3>1. PICK d \in Nat \ {0} : d = DomainSize
      BY SizeFacts DEF Sizes
    <3> QED  BY <3>1 DEF Points
  <2> QED  BY <1>2, <2>1, <2>2
<1> HIDE DEF L
<1>6. PICK C, O, V, W : /\ C = Columns(t) /\ O = Offsets
                        /\ V = ({t} \X Columns(t) \X Points) \cup {Uninitialized}
                        /\ W = (Nat \X Nat \X Nat) \cup {Uninitialized}
  OBVIOUS
<1>7. V \subseteq W
  BY <1>5, <1>6
<1>8. e \in [C -> [O -> V]]
  BY <1>6 DEF EntryType
<1>9. e \in [C -> [O -> W]]
  BY <1>7, <1>8
<1>10. Nothing \notin [C -> [O -> W]]
  BY <1>3, <1>4, <1>6
<1> QED  BY <1>9, <1>10

-----------------------------------------------------------------------------
(* Queries, and the cells that are opened for them. *)

LEMMA FriQueriesFacts ==
  ASSUME setup \in Setups, NEW S \in SUBSET (0 .. DomainSize - 1), IsFiniteSet(S)
  PROVE  FriQueriesToEvaluationDomainQueries(InOrder(S)) \in Seq(Cosets \X Offsets)
<1>1. PICK n \in Nat \ {0}, m \in Nat \ {0} : n = TraceSize /\ m = NumCosets /\ DomainSize = n * m
  BY SizeFacts, DomainFacts DEF Sizes
<1>2. PICK s : s = InOrder(S)
  OBVIOUS
<1>3. S \in SUBSET Nat
  <2>1. PICK d \in Nat \ {0} : d = DomainSize
    BY SizeFacts DEF Sizes
  <2> QED  BY <2>1
<1>4. IsInOrder(s, S)
  BY <1>2, <1>3, InOrderFacts
<1>5. IsSeq(s) /\ \A i \in 1 .. Len(s) : s[i] \in S
  BY <1>4 DEF IsInOrder
<1>6. DOMAIN s = 1 .. Len(s) /\ Len(s) \in Nat
  BY <1>5, SeqOfElements DEF IsSeq
<1>7. ASSUME NEW i \in 1 .. Len(s)
      PROVE  <<s[i] \div TraceSize, s[i] % TraceSize>> \in Cosets \X Offsets
  <2>1. PICK v \in Nat : v = s[i] /\ v < n * m
    <3>1. PICK d \in Nat \ {0} : d = DomainSize
      BY SizeFacts DEF Sizes
    <3>2. s[i] \in 0 .. d - 1
      BY <1>5, <1>7, <3>1
    <3> QED  BY <1>1, <3>1, <3>2
  <2>2. v + 1 \in 1 .. n * m /\ (v + 1) - 1 = v
    <3>1. n * m \in Nat
      OBVIOUS
    <3> QED  BY <2>1, <3>1
  <2>3. ((v + 1) - 1) \div n \in 0 .. m - 1 /\ ((v + 1) - 1) % n \in 0 .. n - 1
    <3>1. PICK k \in 1 .. n * m : k = v + 1
      BY <2>2
    <3>2. (k - 1) \div n \in 0 .. m - 1 /\ (k - 1) % n \in 0 .. n - 1
      BY Grouped
    <3> QED  BY <3>1, <3>2
  <2> QED  BY <1>1, <2>1, <2>2, <2>3 DEF Cosets, Offsets
<1>8. PICK q : q = FriQueriesToEvaluationDomainQueries(s)
  OBVIOUS
<1>9. q = [i \in 1 .. Len(s) |-> <<s[i] \div TraceSize, s[i] % TraceSize>>]
  BY <1>6, <1>8 DEF FriQueriesToEvaluationDomainQueries
<1>10. q \in [1 .. Len(s) -> Cosets \X Offsets]
  BY <1>7, <1>9
<1> QED  BY <1>2, <1>6, <1>8, <1>10

LEMMA NeighborOffsetFacts ==
  ASSUME setup \in Setups, NEW offset \in Offsets, NEW row \in Nat
  PROVE  /\ NeighborOffset(offset, row) \in Offsets
         /\ Reversed(NeighborOffset(offset, row)) = (Reversed(offset) + row) % TraceSize
<1>1. PICK n \in Nat \ {0} : n = TraceSize
  BY SizeFacts DEF Sizes
<1>2. PICK r \in Nat : r = Reversed(offset)
  <2>1. Reversed(offset) \in Offsets
    BY OffsetReversed DEF Reversed
  <2> QED  BY <1>1, <2>1 DEF Offsets
<1>3. (r + row) % n \in 0 .. n - 1
  OBVIOUS
<1>4. PICK j \in Offsets : j = (Reversed(offset) + row) % TraceSize
  BY <1>1, <1>2, <1>3 DEF Offsets
<1>5. NeighborOffset(offset, row) = Reversed(j)
  BY <1>4 DEF NeighborOffset, Reversed
<1>6. Reversed(j) \in Offsets /\ Reversed(Reversed(j)) = j
  BY OffsetReversed DEF Reversed
<1> QED  BY <1>4, <1>5, <1>6

\* The cell that trace query k is about.
CellOf(t, qs, k) == RowColOf(QueriesToTraceQueries(t, qs)[k])

\* It is that of item i of the trace's mask for query j.
CellRight(t, qs, k, j, i) ==
  /\ CellOf(t, qs, k)[1] \div TraceSize = qs[j][1]
  /\ CellOf(t, qs, k)[1] % TraceSize = NeighborOffset(qs[j][2], SplitMask(t)[i][1])
  /\ CellOf(t, qs, k)[2] = SplitMask(t)[i][2]
  /\ qs[j] = <<qs[j][1], qs[j][2]>> /\ qs[j][1] \in Cosets /\ qs[j][2] \in Offsets
  /\ SplitMask(t)[i][1] \in Nat /\ SplitMask(t)[i][2] \in Columns(t) /\ t \in Traces
  /\ NeighborOffset(qs[j][2], SplitMask(t)[i][1]) \in Offsets

LEMMA ItemTyped ==
  ASSUME setup \in Setups, NEW t, NEW i \in 1 .. Len(Order(t))
  PROVE  SplitMask(t)[i][1] \in Nat /\ SplitMask(t)[i][2] \in Columns(t) /\ t \in Traces
<1>1. SplitItem(t, i)
  BY SplitFacts
<1>2. PICK x : x = Order(t)[i]
  OBVIOUS
<1>3. /\ setup.mask[x][1] \in Nat /\ ColumnRight(setup.mask[x][2])
      /\ SplitMask(t)[i] = <<setup.mask[x][1], Local(setup.mask[x][2])>>
      /\ TraceFor(setup.mask[x][2]) = t
  BY <1>1, <1>2 DEF SplitItem, ItemRight
<1> QED  BY <1>3 DEF ColumnRight

LEMMA CellFacts ==
  ASSUME setup \in Setups, NEW t, NEW qs \in Seq(Cosets \X Offsets),
         NEW j \in 1 .. Len(qs), NEW i \in 1 .. Len(Order(t)), NEW k,
         k \in DOMAIN QueriesToTraceQueries(t, qs),
         (k - 1) \div Len(Order(t)) = j - 1, (k - 1) % Len(Order(t)) = i - 1
  PROVE  CellRight(t, qs, k, j, i)
<1>1. PICK n \in Nat : n = TraceSize /\ n # 0
  BY SizeFacts DEF Sizes
<1>2. PICK c \in Cosets, o \in Offsets : qs[j] = <<c, o>>
  OBVIOUS
<1>3. PICK row \in Nat, column \in Columns(t) :
        SplitMask(t)[i][1] = row /\ SplitMask(t)[i][2] = column /\ t \in Traces
  BY ItemTyped
<1>4. PICK x \in Offsets : x = NeighborOffset(o, row)
  BY <1>3, NeighborOffsetFacts
<1>5. j - 1 + 1 = j /\ i - 1 + 1 = i
  OBVIOUS
<1>6. QueriesToTraceQueries(t, qs)[k] = <<c, x, column>>
  <2>1. Len(SplitMask(t)) = Len(Order(t))
    BY SplitFacts
  <2>2. QueriesToTraceQueries(t, qs)[k] =
          LET query == qs[(j - 1) + 1]
              item == SplitMask(t)[(i - 1) + 1]
          IN  <<query[1], NeighborOffset(query[2], item[1]), item[2]>>
    BY <2>1 DEF QueriesToTraceQueries
  <2> QED  BY <1>2, <1>3, <1>4, <1>5, <2>2
<1>7. CellOf(t, qs, k) = <<c * n + x, column>>
  BY <1>1, <1>6 DEF CellOf, RowColOf
<1>8. (c * n + x) \div n = c /\ (c * n + x) % n = x
  <2>1. c \in Nat
    <3>1. PICK m \in Nat : m = NumCosets
      BY SizeFacts DEF Sizes
    <3> QED  BY <3>1 DEF Cosets
  <2>2. x \in 0 .. n - 1
    BY <1>1 DEF Offsets
  <2>3. (n * c + x) \div n = c /\ (n * c + x) % n = x
    BY <1>1, <2>1, <2>2, Quotient, Remainder
  <2>4. n * c = c * n
    BY <2>1
  <2> QED  BY <2>3, <2>4
<1> QED  BY <1>1, <1>2, <1>3, <1>4, <1>7, <1>8 DEF CellRight

\* The trace queries and the cells they are about.
LEMMA TraceQueriesListed ==
  ASSUME setup \in Setups, NEW t, NEW qs \in Seq(Cosets \X Offsets)
  PROVE  /\ DOMAIN QueriesToTraceQueries(t, qs) = 1 .. Len(Order(t)) * Len(qs)
         /\ DataQueries(t, qs) = {CellOf(t, qs, k) : k \in 1 .. Len(Order(t)) * Len(qs)}
<1>1. Len(SplitMask(t)) = Len(Order(t))
  BY SplitFacts
<1>2. PICK s : s = QueriesToTraceQueries(t, qs)
  OBVIOUS
<1>3. DOMAIN s = 1 .. Len(Order(t)) * Len(qs)
  BY <1>1, <1>2 DEF QueriesToTraceQueries
<1>4. DataQueries(t, qs) = {RowColOf(s[k]) : k \in DOMAIN s}
  BY <1>2 DEF DataQueries, ToSet
<1> QED  BY <1>2, <1>3, <1>4 DEF CellOf

LEMMA CellPlace ==
  ASSUME setup \in Setups, NEW t, NEW qs \in Seq(Cosets \X Offsets),
         NEW k \in 1 .. Len(Order(t)) * Len(qs)
  PROVE  \E j \in 1 .. Len(qs), i \in 1 .. Len(Order(t)) : CellRight(t, qs, k, j, i)
<1>1. PICK n \in Nat, m \in Nat : n = Len(Order(t)) /\ m = Len(qs)
  BY OrderFacts
<1>2. k \in 1 .. n * m /\ n # 0
  <2>1. k \in 1 .. n * m
    BY <1>1
  <2>2. CASE n = 0
    <3>1. n * m = 0
      BY <2>2
    <3> QED  BY <2>1, <3>1
  <2> QED  BY <2>1, <2>2
<1>3. (k - 1) \div n \in 0 .. m - 1 /\ (k - 1) % n \in 0 .. n - 1
  BY <1>2, Grouped
<1>4. PICK j \in 1 .. m, i \in 1 .. n : (k - 1) \div n = j - 1 /\ (k - 1) % n = i - 1
  <2>1. ((k - 1) \div n) + 1 \in 1 .. m /\ (((k - 1) \div n) + 1) - 1 = (k - 1) \div n
    BY <1>3
  <2>2. ((k - 1) % n) + 1 \in 1 .. n /\ (((k - 1) % n) + 1) - 1 = (k - 1) % n
    BY <1>3
  <2> QED  BY <2>1, <2>2
<1>5. k \in DOMAIN QueriesToTraceQueries(t, qs)
  BY TraceQueriesListed
<1>6. CellRight(t, qs, k, j, i)
  BY <1>1, <1>4, <1>5, CellFacts
<1> QED  BY <1>1, <1>6

CellIn(t, cell) ==
  /\ t \in Traces /\ cell[1] \div TraceSize \in Cosets /\ cell[1] % TraceSize \in Offsets
  /\ cell[2] \in Columns(t)

LEMMA CellsIn ==
  ASSUME setup \in Setups, NEW t, NEW qs \in Seq(Cosets \X Offsets),
         NEW cell \in DataQueries(t, qs)
  PROVE  CellIn(t, cell)
<1>1. PICK k \in 1 .. Len(Order(t)) * Len(qs) : cell = CellOf(t, qs, k)
  BY TraceQueriesListed
<1>2. PICK j, i : CellRight(t, qs, k, j, i)
  BY CellPlace
<1> QED  BY <1>1, <1>2 DEF CellRight, CellIn

\* What the prover opens is what it has committed to.
LEMMA OpenedValue ==
  ASSUME setup \in Setups, NEW t, NEW cell, CellIn(t, cell),
         \A c \in Cosets : cache[t][c] = Entry(t, c)
  PROVE  EvalAtPoint(t, cell[1], cell[2])
           = Rows(t, cell[1] \div TraceSize)[cell[2]][cell[1] % TraceSize]
<1>1. PICK c \in Cosets, o \in Offsets, column \in Columns(t) :
        c = cell[1] \div TraceSize /\ o = cell[1] % TraceSize /\ column = cell[2]
  BY DEF CellIn
<1>2. EvalAtPoint(t, cell[1], cell[2]) = Entry(t, c)[column][FixedPointIndex(t, o)]
  BY <1>1 DEF EvalAtPoint
<1>3. Rows(t, c)[column][o] = ColumnAt(t, column, Point(c, Reversed(o)))
  BY RowsFacts
<1>4. EntryRight(t, c)
  BY EntryFacts
<1>5. CASE t = 0
  <2>1. FixedPointIndex(t, o) = Reversed(o) /\ Reversed(o) \in Offsets
    BY <1>5, OffsetReversed DEF FixedPointIndex, IsEvalNaturallyOrdered, Reversed
  <2>2. Entry(t, c)[column][Reversed(o)] = ColumnAt(t, column, Point(c, Reversed(o)))
    BY <1>4, <1>5, <2>1 DEF EntryRight
  <2> QED  BY <1>1, <1>2, <1>3, <2>1, <2>2
<1>6. CASE t # 0
  <2>1. FixedPointIndex(t, o) = o
    BY <1>6 DEF FixedPointIndex, IsEvalNaturallyOrdered
  <2>2. Entry(t, c)[column][o] = ColumnAt(t, column, Point(c, Reversed(o)))
    BY <1>4, <1>6 DEF EntryRight
  <2> QED  BY <1>1, <1>2, <1>3, <2>1, <2>2
<1> QED  BY <1>5, <1>6

\* The part of the responses about query j holds the neighbors of the query's point.
QueryPoint(j) == Point(queries[j][1], Reversed(queries[j][2]))

LEMMA ResponseRight ==
  ASSUME setup \in Setups, queries \in Seq(Cosets \X Offsets), OpenedRight,
         NEW t \in Traces, NEW j \in 1 .. Len(queries), NEW i \in 1 .. Len(Order(t)), NEW k,
         k \in DOMAIN QueriesToTraceQueries(t, queries),
         (k - 1) \div Len(Order(t)) = j - 1, (k - 1) % Len(Order(t)) = i - 1
  PROVE  QueryResponses(t)[k] =
           ColumnAt(t, SplitMask(t)[i][2],
                    Times(QueryPoint(j), TraceGenerator * SplitMask(t)[i][1]))
<1>1. CellRight(t, queries, k, j, i)
  BY CellFacts
<1>2. PICK cell : cell = CellOf(t, queries, k)
  OBVIOUS
<1>3. QueryResponses(t)[k] = opened[t][cell]
  BY <1>2 DEF QueryResponses, CellOf
<1>4. cell \in DataQueries(t, queries)
  <2>1. k \in 1 .. Len(Order(t)) * Len(queries)
    BY TraceQueriesListed
  <2>2. DataQueries(t, queries) =
          {CellOf(t, queries, h) : h \in 1 .. Len(Order(t)) * Len(queries)}
    BY TraceQueriesListed
  <2> QED  BY <1>2, <2>1, <2>2
<1>5. opened[t][cell] = Rows(t, cell[1] \div TraceSize)[cell[2]][cell[1] % TraceSize]
  BY <1>4 DEF OpenedRight
<1>6. PICK c \in Cosets, o \in Offsets, row \in Nat, column \in Columns(t) :
        /\ c = queries[j][1] /\ o = queries[j][2]
        /\ row = SplitMask(t)[i][1] /\ column = SplitMask(t)[i][2]
  BY <1>1 DEF CellRight
<1>7. PICK x \in Offsets : x = NeighborOffset(o, row)
  BY NeighborOffsetFacts
<1>8. opened[t][cell] = Rows(t, c)[column][x]
  BY <1>1, <1>2, <1>5, <1>6, <1>7 DEF CellRight
<1>9. Rows(t, c)[column][x] = ColumnAt(t, column, Point(c, Reversed(x)))
  BY RowsFacts
<1>10. Reversed(x) = (Reversed(o) + row) % TraceSize
  BY <1>7, NeighborOffsetFacts
<1>11. Reversed(o) \in Nat
  BY OffsetReversed, OffsetFacts DEF Reversed
<1>12. Times(Point(c, Reversed(o)), TraceGenerator * row)
         = Point(c, (Reversed(o) + row) % TraceSize)
  BY <1>11, PointTimes
<1> QED  BY <1>3, <1>6, <1>8, <1>9, <1>10, <1>12 DEF QueryPoint

PlacedInGroup(a, b, j, i) ==
  /\ (j - 1) * a + i \in 1 .. a * b
  /\ ((j - 1) * a + i - 1) \div a = j - 1
  /\ ((j - 1) * a + i - 1) % a = i - 1

LEMMA GroupPlaces ==
  ASSUME NEW a \in Nat \ {0}, NEW b \in Nat, NEW j \in 1 .. b, NEW i \in 1 .. a
  PROVE  PlacedInGroup(a, b, j, i)
BY GroupPlace DEF PlacedInGroup

LEMMA ResponsesRight ==
  ASSUME setup \in Setups, queries \in Seq(Cosets \X Offsets), OpenedRight,
         NEW t \in Traces, NEW j \in 1 .. Len(queries)
  PROVE  ResponsesOfQuery(t, j) = NeighborsOf(t, QueryPoint(j))
<1>1. PICK n \in Nat, m \in Nat : n = Len(Order(t)) /\ m = Len(queries) /\ n = Len(SplitMask(t))
  BY OrderFacts, SplitFacts
<1>2. PICK s : s = QueryResponses(t)
  OBVIOUS
<1>3. DOMAIN s = 1 .. n * m /\ DOMAIN QueriesToTraceQueries(t, queries) = 1 .. n * m
  BY <1>1, <1>2, TraceQueriesListed DEF QueryResponses
<1>4. IsSeq(s) /\ Len(s) = n * m
  <2>1. PICK l \in Nat : l = n * m
    <3>1. n * m \in Nat
      OBVIOUS
    <3> QED  BY <3>1
  <2>2. s = [i \in 1 .. l |-> s[i]]
    BY <1>1, <1>2, <1>3, <2>1 DEF QueryResponses
  <2> QED  BY <1>3, <2>1, <2>2, ListedIsSeq
<1>5. PICK b \in Nat, l \in Nat : b = n * (j - 1) /\ b + n = n * j /\ l = n * m /\ n * j <= l
  <2>1. n * (j - 1) \in Nat /\ n * (j - 1) + n = n * j /\ n * m \in Nat
    OBVIOUS
  <2>2. PICK e \in Nat : m = j + e
    <3>1. m - j \in Nat /\ m = j + (m - j)
      BY <1>1
    <3> QED  BY <3>1
  <2>3. n * m = n * j + n * e /\ n * e \in Nat /\ n * j \in Nat
    BY <2>2
  <2> QED  BY <2>1, <2>3
<1>6. PICK u : u = SubSeq(s, b + 1, b + n)
  OBVIOUS
<1>7. IsPart(u, s, b + 1, b + n)
  <2>1. b + 1 \in 1 .. Len(s) + 1 /\ b + n \in 0 .. Len(s) /\ b + 1 <= (b + n) + 1
    BY <1>4, <1>5
  <2> QED  BY <1>4, <1>6, <2>1, SubSeqFacts
<1>8. IsSeq(u) /\ Len(u) = n /\ \A i \in 1 .. n : u[i] = s[b + i]
  <2>1. (b + n) - (b + 1) + 1 = n /\ \A i \in 1 .. n : (b + 1) + i - 1 = b + i
    OBVIOUS
  <2> QED  BY <1>7, <2>1 DEF IsPart
<1>9. ResponsesOfQuery(t, j) = u
  BY <1>1, <1>2, <1>5, <1>6 DEF ResponsesOfQuery
<1>10. ASSUME NEW i \in 1 .. n
       PROVE  u[i] = ColumnAt(t, SplitMask(t)[i][2],
                              Times(QueryPoint(j), TraceGenerator * SplitMask(t)[i][1]))
  <2>1. PICK k : k = b + i
    OBVIOUS
  <2>2. PICK a \in Nat \ {0}, h \in 1 .. m : a = n /\ h = j
    BY <1>1
  <2>3. PlacedInGroup(a, m, h, i)
    <3>1. i \in 1 .. a
      BY <2>2
    <3> QED  BY <3>1, GroupPlaces
  <2>4. k \in 1 .. n * m /\ (k - 1) \div n = j - 1 /\ (k - 1) % n = i - 1
    <3>1. k = (h - 1) * a + i
      BY <1>5, <2>1, <2>2
    <3> QED  BY <2>2, <2>3, <3>1 DEF PlacedInGroup
  <2>5. s[k] = ColumnAt(t, SplitMask(t)[i][2],
                        Times(QueryPoint(j), TraceGenerator * SplitMask(t)[i][1]))
    <3>1. k \in DOMAIN QueriesToTraceQueries(t, queries) /\ i \in 1 .. Len(Order(t))
      BY <1>1, <1>3, <2>4
    <3>2. (k - 1) \div Len(Order(t)) = j - 1 /\ (k - 1) % Len(Order(t)) = i - 1
      BY <1>1, <2>4
    <3> QED  BY <1>2, <3>1, <3>2, ResponseRight
  <2> QED  BY <1>8, <2>1, <2>5
<1>11. u = [i \in 1 .. n |-> u[i]]
  BY <1>8 DEF IsSeq
<1> QED  BY <1>1, <1>9, <1>10, <1>11 DEF NeighborsOf

\* The verifier computes the composition at the query's point.
LEMMA QueryEvaluated ==
  ASSUME setup \in Setups, queries \in Seq(Cosets \X Offsets), OpenedRight,
         NEW j \in 1 .. Len(queries)
  PROVE  EvalAtQuery(j) = CompositionAt(QueryPoint(j))
<1>1. PICK c \in Cosets, o \in Offsets : queries[j] = <<c, o>>
  OBVIOUS
<1>2. PICK p : p = QueryPoint(j)
  OBVIOUS
<1>3. Reversed(o) \in Offsets /\ Reversed(o) \in Nat /\ Reversed(o) % TraceSize = Reversed(o)
  BY OffsetReversed, OffsetFacts DEF Reversed
<1>4. ElementByIndex(BitReverse(queries[j][1], setup.log_n_cosets), queries[j][2]) = p
  <2>1. ElementByIndex(BitReverse(c, setup.log_n_cosets), o)
          = Times(CosetOffset(c), TraceGenerator * Reversed(o))
    BY DEF ElementByIndex, CosetOffset, Reversed
  <2> QED  BY <1>1, <1>2, <1>3, <2>1, PointTimes DEF QueryPoint
<1>5. 0 \in Traces /\ (1 \in Traces \/ Traces = {0})
  BY WidthFacts DEF TwoWidths
<1>6. ResponsesOfQuery(0, j) = NeighborsOf(0, p)
  BY <1>2, <1>5, ResponsesRight
<1>7. (IF 1 \in Traces THEN ResponsesOfQuery(1, j) ELSE <<>>) = NeighborsOf(1, p)
  <2>1. CASE 1 \in Traces
    BY <1>2, <2>1, ResponsesRight
  <2>2. CASE 1 \notin Traces
    <3>1. Len(Order(1)) = 0
      <4>1. ASSUME Len(Order(1)) # 0  PROVE FALSE
        <5>1. 1 \in 1 .. Len(Order(1))
          BY <4>1, OrderFacts
        <5> QED  BY <2>2, <5>1, ItemTyped
      <4> QED  BY <4>1
    <3>2. PICK none : none = NeighborsOf(1, p)
      OBVIOUS
    <3>3. DOMAIN none = 1 .. 0 /\ none = [k \in 1 .. 0 |-> none[k]]
      BY <3>1, <3>2 DEF NeighborsOf
    <3>4. IsSeq(none) /\ Len(none) = 0
      BY <3>3, ListedIsSeq
    <3>5. none = <<>>
      BY <3>4, EmptySeq, SameSeq
    <3> QED  BY <2>2, <3>2, <3>5
  <2> QED  BY <2>1, <2>2
<1>8. EvalAtQuery(j) = ConstraintsEval(<<NeighborsOf(0, p), NeighborsOf(1, p)>>,
                                       Power(p, Copies), PointPowers(p))
  BY <1>4, <1>6, <1>7 DEF EvalAtQuery
<1> QED  BY <1>2, <1>8, CompositionForm

-----------------------------------------------------------------------------
(* Nothing changes the setup, so that what is computed from it stays. *)

LEMMA SizesSame ==
  ASSUME setup' = setup
  PROVE  /\ TraceSize' = TraceSize /\ NumCosets' = NumCosets /\ DomainSize' = DomainSize
         /\ Offsets' = Offsets /\ Cosets' = Cosets /\ Traces' = Traces /\ Points' = Points
         /\ TraceGenerator' = TraceGenerator /\ Period' = Period /\ Copies' = Copies
         /\ Tasks' = Tasks /\ Threads' = Threads
<1>1. TraceSize' = TraceSize /\ NumCosets' = NumCosets /\ Period' = Period
  BY DEF TraceSize, NumCosets, Period
<1>2. /\ DomainSize' = DomainSize /\ Offsets' = Offsets /\ Cosets' = Cosets
      /\ TraceGenerator' = TraceGenerator /\ Copies' = Copies
  BY <1>1 DEF DomainSize, Offsets, Cosets, TraceGenerator, Copies
<1>3. Points' = Points
  BY <1>2 DEF Points
<1>4. Traces' = Traces /\ Tasks' = Tasks /\ Threads' = Threads
  BY <1>1 DEF Traces, Tasks, Threads
<1> QED  BY <1>1, <1>2, <1>3, <1>4

LEMMA TimesSame ==
  ASSUME setup' = setup
  PROVE  /\ \A p, x : Times(p, x)' = Times(p, x)
         /\ \A c : CosetOffset(c)' = CosetOffset(c)
         /\ \A c, j : Point(c, j)' = Point(c, j)
<1>1. \A p, x : Times(p, x)' = Times(p, x)
  BY SizesSame DEF Times
<1>2. ASSUME NEW c
      PROVE  CosetOffset(c)' = CosetOffset(c)
  <2>1. PICK r : r = BitReverse(c, setup.log_n_cosets)
    OBVIOUS
  <2>2. CosetOffset(c)' = Times(0, r)' /\ CosetOffset(c) = Times(0, r)
    BY <2>1 DEF CosetOffset, CosetOffsets, Times
  <2> QED  BY <1>1, <2>2
<1>3. \A c, j : Point(c, j)' = Point(c, j)
  BY <1>2, SizesSame DEF Point
<1> QED  BY <1>1, <1>2, <1>3

LEMMA PowersSame ==
  ASSUME setup' = setup
  PROVE  /\ \A p, n : Power(p, n)' = Power(p, n)
         /\ \A p : PointPowers(p)' = PointPowers(p)
<1>1. \A p, n : Power(p, n)' = Power(p, n)
  BY SizesSame DEF Power
<1>2. ASSUME NEW p
      PROVE  PointPowers(p)' = PointPowers(p)
  <2>1. PICK n : n = setup.point_exponent
    OBVIOUS
  <2>2. PointPowers(p)' = <<p, Power(p, n)'>> /\ PointPowers(p) = <<p, Power(p, n)>>
    BY <2>1 DEF PointPowers, Power
  <2> QED  BY <1>1, <2>2
<1> QED  BY <1>1, <1>2

LEMMA EntriesSame ==
  ASSUME setup' = setup, NEW t
  PROVE  /\ Columns(t)' = Columns(t) /\ AllocatedEntry(t)' = AllocatedEntry(t)
         /\ EntryType(t)' = EntryType(t)
         /\ \A c : Entry(t, c)' = Entry(t, c) /\ Rows(t, c)' = Rows(t, c)
<1>1. Columns(t)' = Columns(t)
  BY DEF Columns, Width
<1>2. AllocatedEntry(t)' = AllocatedEntry(t) /\ EntryType(t)' = EntryType(t)
  BY <1>1, SizesSame DEF AllocatedEntry, EntryType
<1>3. ASSUME NEW c
      PROVE  Entry(t, c)' = Entry(t, c) /\ Rows(t, c)' = Rows(t, c)
  <2>1. PICK x : x = CosetOffset(c) /\ x = CosetOffset(c)'
    BY TimesSame
  <2>2. Entry(t, c) = Evaluated(t, x)
    BY <2>1 DEF Entry
  <2>3. PICK g : g = TraceGenerator /\ g = TraceGenerator'
    BY SizesSame
  <2>4. \A j : Times(x, g * j)' = Times(x, g * j)
    BY TimesSame
  <2>5. PICK natural : natural = [column \in Columns(t) |->
                                    [j \in Offsets |-> ColumnAt(t, column, Times(x, g * j))]]
    OBVIOUS
  <2>6. natural = [column \in Columns(t) |->
                     [j \in Offsets |-> ColumnAt(t, column, Times(x, g * j)')]]
    BY <2>4, <2>5
  <2>7. Entry(t, c) = IF t = 0 THEN natural
                      ELSE [column \in Columns(t) |->
                              BitReverseVector(natural[column], setup.log_trace_length)]
    BY <2>2, <2>3, <2>5 DEF Evaluated, IsEvalNaturallyOrdered
  <2>8. Entry(t, c)' = IF t = 0 THEN natural
                       ELSE [column \in Columns(t) |->
                               BitReverseVector(natural[column], setup.log_trace_length)]
    <3>1. Offsets' = Offsets
      BY SizesSame
    <3> QED  BY <1>1, <2>1, <2>3, <2>6, <3>1
             DEF Entry, Evaluated, IsEvalNaturallyOrdered, Times
  <2>9. Entry(t, c)' = Entry(t, c)
    BY <2>7, <2>8
  <2>10. PICK e : e = Entry(t, c) /\ e = Entry(t, c)'
    BY <2>9
  <2>11. Reordered(e)' = Reordered(e)
    BY DEF Reordered
  <2>12. Rows(t, c)' = Rows(t, c)
    BY <2>10, <2>11 DEF Rows, Reordered, IsEvalNaturallyOrdered
  <2> QED  BY <2>9, <2>12
<1> QED  BY <1>1, <1>2, <1>3

LEMMA SlotsSame ==
  ASSUME setup' = setup
  PROVE  /\ \A j : Reversed(j)' = Reversed(j) /\ OutputIndex(j)' = OutputIndex(j)
         /\ \A c, idx : Slot(c, idx)' = Slot(c, idx)
         /\ \A idx : TaskOf(idx)' = TaskOf(idx)
<1>1. \A j : Reversed(j)' = Reversed(j) /\ OutputIndex(j)' = OutputIndex(j)
  BY DEF Reversed, OutputIndex
<1>2. \A c, idx : Slot(c, idx)' = Slot(c, idx)
  BY <1>1, SizesSame DEF Slot
<1>3. \A idx : TaskOf(idx)' = TaskOf(idx)
  BY DEF TaskOf
<1> QED  BY <1>1, <1>2, <1>3

LEMMA MasksSame ==
  ASSUME setup' = setup
  PROVE  /\ \A t : PlacesOf(t)' = PlacesOf(t) /\ SplitMask(t)' = SplitMask(t)
         /\ \A places : MaskItems(places)' = MaskItems(places)
<1>1. \A t : WidthsBefore(t)' = WidthsBefore(t)
  BY DEF WidthsBefore
<1>2. \A column : TraceOfColumn(column)' = TraceOfColumn(column)
  BY <1>1, SizesSame DEF TraceOfColumn
<1>3. ASSUME NEW column
      PROVE  ColumnToTraceColumn(column)' = ColumnToTraceColumn(column)
  <2>1. PICK t : t = TraceOfColumn(column) /\ t = TraceOfColumn(column)'
    BY <1>2
  <2>2. WidthsBefore(t)' = WidthsBefore(t)
    BY <1>1
  <2> QED  BY <2>1, <2>2 DEF ColumnToTraceColumn, WidthsBefore
<1>4. PICK mask : mask = setup.mask
  OBVIOUS
<1>5. ASSUME NEW t
      PROVE  PlacesOf(t)' = PlacesOf(t)
  <2>1. \A i : ColumnToTraceColumn(mask[i][2])' = ColumnToTraceColumn(mask[i][2])
    BY <1>3
  <2>2. PlacesOf(t) = {i \in DOMAIN mask : ColumnToTraceColumn(mask[i][2])[1] = t}
    BY <1>4 DEF PlacesOf
  <2>3. PlacesOf(t)' = {i \in DOMAIN mask : ColumnToTraceColumn(mask[i][2])'[1] = t}
    BY <1>4 DEF PlacesOf, ColumnToTraceColumn, TraceOfColumn, WidthsBefore, Traces
  <2> QED  BY <2>1, <2>2, <2>3
<1>6. \A places : MaskItems(places)' = MaskItems(places)
  BY DEF MaskItems
<1>7. ASSUME NEW t
      PROVE  SplitMask(t)' = SplitMask(t)
  <2>1. PICK places : places = PlacesOf(t) /\ places = PlacesOf(t)'
    BY <1>5
  <2>2. PICK items : items = MaskItems(places) /\ items = MaskItems(places)'
    BY <1>6
  <2>3. \A i : ColumnToTraceColumn(items[i][2])' = ColumnToTraceColumn(items[i][2])
    BY <1>3
  <2>4. SplitMask(t) =
          [i \in DOMAIN items |-> <<items[i][1], ColumnToTraceColumn(items[i][2])[2]>>]
    BY <2>1, <2>2 DEF SplitMask
  <2>5. MaskItems(PlacesOf(t))' = items
    BY <1>4, <2>1, <2>2 DEF MaskItems
  <2>6. SplitMask(t)' =
          [i \in DOMAIN items |-> <<items[i][1], ColumnToTraceColumn(items[i][2])'[2]>>]
    BY <2>5 DEF SplitMask, ColumnToTraceColumn, TraceOfColumn, WidthsBefore, Traces
  <2> QED  BY <2>3, <2>4, <2>6
<1> QED  BY <1>5, <1>6, <1>7

LEMMA CompositionSame ==
  ASSUME setup' = setup, NEW point
  PROVE  CompositionAt(point)' = CompositionAt(point)
<1> DEFINE chosen(t) == {i \in DOMAIN setup.mask : (setup.mask[i][2] < Width(0)) = (t = 0)}
           neighbors(t) ==
             LET items == MaskItems(chosen(t)) IN
             [i \in DOMAIN items |->
                ColumnAt(t, items[i][2] - (IF t = 0 THEN 0 ELSE Width(0)),
                         Times(point, TraceGenerator * items[i][1]))]
<1>1. Width(0)' = Width(0)
  BY DEF Width
<1>2. ASSUME NEW t
      PROVE  neighbors(t)' = neighbors(t)
  <2>1. PICK places : places = chosen(t) /\ places = chosen(t)'
    <3>1. chosen(t)' = chosen(t)
      BY <1>1
    <3> QED  BY <3>1
  <2>2. PICK items : items = MaskItems(places) /\ items = MaskItems(places)'
    BY MasksSame
  <2>3. MaskItems(chosen(t))' = items
    <3> HIDE DEF chosen
    <3> QED  BY <2>1, <2>2 DEF MaskItems
  <2>4. MaskItems(chosen(t)) = items
    <3> HIDE DEF chosen
    <3> QED  BY <2>1, <2>2
  <2>5. PICK g : g = TraceGenerator /\ g = TraceGenerator'
    BY SizesSame
  <2>6. PICK w : w = IF t = 0 THEN 0 ELSE Width(0)
    OBVIOUS
  <2>7. w = IF t = 0 THEN 0 ELSE Width(0)'
    BY <1>1, <2>6
  <2>8. \A i : Times(point, g * items[i][1])' = Times(point, g * items[i][1])
    BY TimesSame
  <2> HIDE DEF chosen
  <2>9. neighbors(t) = [i \in DOMAIN items |->
                          ColumnAt(t, items[i][2] - w, Times(point, g * items[i][1]))]
    BY <2>4, <2>5, <2>6
  <2>10. neighbors(t)' = [i \in DOMAIN items |->
                            ColumnAt(t, items[i][2] - w, Times(point, g * items[i][1])')]
    BY <2>3, <2>5, <2>7 DEF Times
  <2> QED  BY <2>8, <2>9, <2>10
<1>3. PICK n : n = Copies /\ n = Copies'
  BY SizesSame
<1>4. PICK e : e = setup.point_exponent
  OBVIOUS
<1>5. Power(point, n)' = Power(point, n) /\ Power(point, e)' = Power(point, e)
  BY PowersSame
<1>6. CompositionAt(point) =
        [neighbors |-> <<neighbors(0), neighbors(1)>>, periodic |-> Power(point, n),
         powers |-> <<point, Power(point, e)>>]
  BY <1>3, <1>4 DEF CompositionAt
<1>7. CompositionAt(point)' =
        [neighbors |-> <<neighbors(0)', neighbors(1)'>>, periodic |-> Power(point, n)',
         powers |-> <<point, Power(point, e)'>>]
  BY <1>3, <1>4 DEF CompositionAt, Power
<1> HIDE DEF neighbors
<1> QED  BY <1>2, <1>5, <1>6, <1>7

LEMMA DataQueriesNext ==
  ASSUME setup' = setup, NEW t
  PROVE  DataQueries(t, queries)' = DataQueries(t, queries')
<1>1. PICK mask : mask = SplitMask(t) /\ mask = SplitMask(t)'
  BY MasksSame
<1>2. PICK qs : qs = queries'
  OBVIOUS
<1>3. ASSUME NEW offset, NEW row
      PROVE  NeighborOffset(offset, row)' = NeighborOffset(offset, row)
  BY SizesSame DEF NeighborOffset
<1>4. PICK s : s = QueriesToTraceQueries(t, qs)
  OBVIOUS
<1>5. QueriesToTraceQueries(t, queries)' = s
  <2>1. s = [k \in 1 .. Len(mask) * Len(qs) |->
               LET query == qs[((k - 1) \div Len(mask)) + 1]
                   item == mask[((k - 1) % Len(mask)) + 1]
               IN  <<query[1], NeighborOffset(query[2], item[1]), item[2]>>]
    BY <1>1, <1>4 DEF QueriesToTraceQueries
  <2>2. QueriesToTraceQueries(t, queries)' =
          [k \in 1 .. Len(mask) * Len(qs) |->
               LET query == qs[((k - 1) \div Len(mask)) + 1]
                   item == mask[((k - 1) % Len(mask)) + 1]
               IN  <<query[1], NeighborOffset(query[2], item[1])', item[2]>>]
    BY <1>1, <1>2 DEF QueriesToTraceQueries, NeighborOffset
  <2> QED  BY <1>3, <2>1, <2>2
<1>6. \A query : RowColOf(query)' = RowColOf(query)
  BY SizesSame DEF RowColOf
<1>7. DataQueries(t, qs) = {RowColOf(query) : query \in ToSet(s)}
  BY <1>4 DEF DataQueries
<1>8. DataQueries(t, queries)' = {RowColOf(query)' : query \in ToSet(s)}
  BY <1>5 DEF DataQueries, RowColOf, ToSet
<1> QED  BY <1>2, <1>6, <1>7, <1>8

-----------------------------------------------------------------------------
(* The parts of the invariant that a step leaves alone. *)

LEMMA ShapesStep ==
  ASSUME setup \in Setups, setup' = setup, lde_manager' \in [Traces -> BOOLEAN],
         DOMAIN cache' = Traces, DOMAIN segments' = Traces,
         \A t \in Traces : DOMAIN cache'[t] = Cosets /\ DOMAIN segments'[t] = Cosets,
         pc' \in [Cosets -> {"start", "allocated", "evaluated", "added"}],
         current' \in Nat, todo' \subseteq Tasks,
         DOMAIN running' = Threads, DOMAIN worker_mem' = Threads,
         \A thread \in Threads : worker_mem'[thread] # Uninitialized =>
           /\ worker_mem'[thread].powers[1] \in Points
           /\ worker_mem'[thread].periodic \in 0 .. Period - 1,
         DOMAIN evaluation' = 0 .. setup.n_cosets * TraceSize - 1,
         stage' \in {"commit", "committed", "evaluating", "evaluated", "opened", "verified"}
  PROVE  Shapes'
BY SizesSame DEF Shapes

LEMMA CommittedSame ==
  ASSUME setup' = setup, NEW t, NEW c, cache'[t][c] = cache[t][c],
         segments'[t][c] = segments[t][c]
  PROVE  Committed(t, c)' <=> Committed(t, c)
BY EntriesSame DEF Committed

LEMMA CommitStays ==
  ASSUME setup' = setup, \A t \in Traces, c \in Cosets : cache'[t][c] = cache[t][c],
         segments' = segments, stage # "commit", stage' # "commit", CommitRight
  PROVE  CommitRight'
<1>1. \A t \in Traces, c \in Cosets : Committed(t, c)
  BY DEF CommitRight
<1>2. \A t \in Traces, c \in Cosets : Committed(t, c)'
  BY <1>1, CommittedSame
<1>3. Traces' = Traces /\ Cosets' = Cosets
  BY SizesSame
<1> QED  BY <1>2, <1>3 DEF CommitRight

LEMMA MemorySame ==
  ASSUME setup' = setup, current' = current, NEW idx
  PROVE  MemoryAt(idx)' = MemoryAt(idx)
<1>1. PICK c : c = current /\ c = current'
  OBVIOUS
<1>2. PICK p : p = Point(c, idx) /\ p = Point(c, idx)'
  BY TimesSame
<1>3. Point(current, idx) = p /\ Point(current, idx)' = p
  BY <1>1, <1>2 DEF Point, CosetOffset, CosetOffsets, Times
<1>4. PointPowers(p)' = PointPowers(p)
  BY PowersSame
<1>5. PointPowers(Point(current, idx))' = PointPowers(p)'
  BY <1>3 DEF PointPowers, Power
<1> QED  BY <1>3, <1>4, <1>5, SizesSame DEF MemoryAt

LEMMA TasksStay ==
  ASSUME setup' = setup, current' = current, running' = running, worker_mem' = worker_mem,
         stage' = stage, TasksRight
  PROVE  TasksRight'
<1>1. ASSUME NEW thread \in Threads, running[thread] # Nothing
      PROVE  TaskRight(thread)'
  <2>1. TaskRight(thread)
    BY <1>1 DEF TasksRight
  <2>2. PICK idx : idx = running[thread].next /\ idx = running'[thread].next
    OBVIOUS
  <2>3. MemoryAt(idx)' = MemoryAt(idx)
    BY MemorySame
  <2>4. MemoryAt(running[thread].next)' = MemoryAt(idx)'
    BY <2>2 DEF MemoryAt, Point, CosetOffset, CosetOffsets, Times, PointPowers, Power
  <2> QED  BY <2>1, <2>2, <2>3, <2>4, SizesSame DEF TaskRight
<1>2. Threads' = Threads
  BY SizesSame
<1> QED  BY <1>1, <1>2 DEF TasksRight

LEMMA NoTasks ==
  ASSUME setup' = setup, \A thread \in Threads : running'[thread] = Nothing,
         stage' # "evaluating"
  PROVE  TasksRight'
BY SizesSame DEF TasksRight

LEMMA WrittenSame ==
  ASSUME setup' = setup, NEW c, NEW idx, evaluation'[Slot(c, idx)] = evaluation[Slot(c, idx)]
  PROVE  Written(c, idx)' <=> Written(c, idx)
<1>1. PICK k : k = Slot(c, idx) /\ k = Slot(c, idx)'
  BY SlotsSame
<1>2. PICK p : p = Point(c, idx) /\ p = Point(c, idx)'
  BY TimesSame
<1>3. PICK v : v = CompositionAt(p) /\ v = CompositionAt(p)'
  BY CompositionSame
<1>4. Written(c, idx) <=> evaluation[k] = v
  BY <1>1, <1>2, <1>3 DEF Written
<1>5. CompositionAt(Point(c, idx))' = CompositionAt(p)'
  BY <1>2 DEF CompositionAt, Power, Times
<1>6. Written(c, idx)' <=> evaluation'[k] = v
  BY <1>1, <1>3, <1>5 DEF Written
<1> QED  BY <1>1, <1>4, <1>6

LEMMA EvaluationStays ==
  ASSUME setup' = setup, evaluation' = evaluation, EvaluationRight
  PROVE  EvaluationRight'
<1>1. ASSUME NEW c \in 0 .. setup.n_cosets - 1, NEW idx \in Offsets
      PROVE  Written(c, idx)' \/ evaluation'[Slot(c, idx)'] = Uninitialized
  BY WrittenSame, SlotsSame DEF EvaluationRight
<1> QED  BY <1>1, SizesSame DEF EvaluationRight

LEMMA QueriesStay ==
  ASSUME setup' = setup, queries' = queries, opened' = opened,
         oracle_evaluations' = oracle_evaluations,
         stage' \notin {"opened", "verified"}, QueriesRight
  PROVE  QueriesRight'
BY SizesSame DEF QueriesRight

LEMMA PendingSame ==
  ASSUME setup' = setup, todo' = todo, running' = running, NEW idx
  PROVE  Pending(idx)' <=> Pending(idx)
BY SizesSame DEF Pending

LEMMA Early ==
  ASSUME stage' \in {"commit", "committed"}
  PROVE  AllWritten'
BY DEF AllWritten

-----------------------------------------------------------------------------
(* Where the points of the cosets are written. *)

LEMMA SlotFacts ==
  ASSUME setup \in Setups, NEW c \in 0 .. setup.n_cosets - 1, NEW idx \in Offsets
  PROVE  /\ Slot(c, idx) \in 0 .. setup.n_cosets * TraceSize - 1 /\ c \in Cosets
         /\ Slot(c, idx) \div TraceSize = c /\ Slot(c, idx) % TraceSize = Reversed(idx)
<1>1. PICK n \in Nat \ {0}, m \in Nat \ {0}, k \in Nat \ {0} :
        n = TraceSize /\ m = NumCosets /\ k = setup.n_cosets /\ k <= m
  <2>1. PICK n \in Nat \ {0}, m \in Nat \ {0} : n = TraceSize /\ m = NumCosets
    BY SizeFacts DEF Sizes
  <2>2. setup.n_cosets \in 1 .. m
    BY <2>1, SizeFacts DEF Sizes
  <2> QED  BY <2>1, <2>2
<1>2. PICK r \in 0 .. n - 1 : r = Reversed(idx) /\ r = OutputIndex(idx)
  <2>1. Reversed(idx) \in Offsets
    BY OffsetReversed DEF Reversed
  <2> QED  BY <1>1, <2>1 DEF Offsets, OutputIndex, Reversed
<1>3. c \in 0 .. k - 1 /\ c \in Nat /\ c \in Cosets
  BY <1>1 DEF Cosets
<1>4. Slot(c, idx) = n * c + r
  BY <1>1, <1>2, <1>3 DEF Slot
<1>5. (n * c + r) \div n = c /\ (n * c + r) % n = r
  BY <1>3, Quotient, Remainder
<1>6. n * c + r \in 0 .. (k * n) - 1
  <2>1. PICK e \in Nat : k = c + 1 + e
    <3>1. k - c - 1 \in Nat /\ k = c + 1 + (k - c - 1)
      BY <1>3
    <3> QED  BY <3>1
  <2>2. k * n = n * c + n + n * e
    BY <2>1
  <2>3. n * c \in Nat /\ n * e \in Nat
    BY <1>3
  <2> QED  BY <2>2, <2>3
<1> QED  BY <1>1, <1>2, <1>3, <1>4, <1>5, <1>6

\* Different points of different cosets have different places, and every place has one.
LEMMA SlotOnce ==
  ASSUME setup \in Setups, NEW c \in 0 .. setup.n_cosets - 1, NEW idx \in Offsets,
         NEW d \in 0 .. setup.n_cosets - 1, NEW jdx \in Offsets, Slot(c, idx) = Slot(d, jdx)
  PROVE  c = d /\ idx = jdx
<1>1. c = d /\ Reversed(idx) = Reversed(jdx)
  BY SlotFacts
<1>2. Reversed(Reversed(idx)) = idx /\ Reversed(Reversed(jdx)) = jdx
  BY OffsetReversed DEF Reversed
<1> QED  BY <1>1, <1>2

LEMMA SlotAt ==
  ASSUME setup \in Setups, NEW k \in 0 .. setup.n_cosets * TraceSize - 1
  PROVE  \E c \in 0 .. setup.n_cosets - 1, idx \in Offsets :
           Slot(c, idx) = k /\ k = c * TraceSize + Reversed(idx)
<1>1. PICK n \in Nat \ {0}, m \in Nat \ {0} : n = TraceSize /\ m = setup.n_cosets
  BY SizeFacts, SetupTyped DEF Sizes
<1>2. k \in 0 .. (m * n) - 1 /\ m * n = n * m /\ n * m \in Nat
  BY <1>1
<1>3. PICK h \in 1 .. n * m : h = k + 1 /\ h - 1 = k
  BY <1>2
<1>4. /\ (h - 1) \div n \in 0 .. m - 1 /\ (h - 1) % n \in 0 .. n - 1
      /\ h - 1 = n * ((h - 1) \div n) + ((h - 1) % n)
  BY Grouped
<1>5. PICK c \in 0 .. m - 1, r \in 0 .. n - 1 : k = n * c + r
  BY <1>3, <1>4
<1>6. r \in Offsets
  BY <1>1 DEF Offsets
<1>7. PICK idx \in Offsets : Reversed(idx) = r
  <2>1. Reversed(r) \in Offsets /\ Reversed(Reversed(r)) = r
    BY <1>6, OffsetReversed DEF Reversed
  <2> QED  BY <2>1
<1>8. n * c = c * n
  BY <1>5
<1>9. Slot(c, idx) = c * n + r
  BY <1>1, <1>7 DEF Slot, OutputIndex, Reversed
<1> QED  BY <1>1, <1>5, <1>7, <1>8, <1>9

-----------------------------------------------------------------------------
(* The invariant holds at the start, and through Commit. *)

LEMMA InitRight == Init => IInv
<1> SUFFICES ASSUME Init  PROVE IInv
  OBVIOUS
<1>1. setup \in Setups /\ stage = "commit" /\ current = 0 /\ todo = {} /\ queries = <<>>
  BY DEF Init
<1>2. 0 \in Traces
  BY <1>1, WidthFacts DEF TwoWidths
<1>3. Shapes
  <2>1. /\ lde_manager \in [Traces -> BOOLEAN]
        /\ DOMAIN cache = Traces /\ DOMAIN segments = Traces
        /\ \A t \in Traces : DOMAIN cache[t] = Cosets /\ DOMAIN segments[t] = Cosets
    BY DEF Init
  <2>2. pc \in [Cosets -> {"start", "allocated", "evaluated", "added"}]
    BY DEF Init
  <2>3. /\ DOMAIN running = Threads /\ DOMAIN worker_mem = Threads
        /\ \A thread \in Threads : worker_mem[thread] = Uninitialized
        /\ DOMAIN evaluation = 0 .. setup.n_cosets * TraceSize - 1
    BY DEF Init, Threads
  <2> QED  BY <1>1, <2>1, <2>2, <2>3 DEF Shapes
<1>4. CommitRight
  <2>1. ASSUME NEW t \in Traces, NEW c \in Cosets
        PROVE  CommitAt(t, c) /\ NotYet(t, c) /\ ~(t < 0)
    <3>1. cache[t][c] = Nothing /\ segments[t][c] = Nothing /\ pc[c] = "start"
      BY DEF Init
    <3>2. t \in {0, 1}
      BY <1>1, WidthFacts DEF TwoWidths
    <3>3. ~(t < 0)
      BY <3>2
    <3> QED  BY <3>1, <3>3 DEF CommitAt, NotYet
  <2> QED  BY <1>1, <1>2, <2>1 DEF CommitRight
<1>5. TasksRight
  BY <1>1 DEF TasksRight, Init, Threads
<1>6. EvaluationRight
  <2>1. ASSUME NEW c \in 0 .. setup.n_cosets - 1, NEW idx \in Offsets
        PROVE  Slot(c, idx) \in 0 .. setup.n_cosets * TraceSize - 1
    BY <1>1, SlotFacts
  <2> QED  BY <2>1 DEF EvaluationRight, Init
<1>7. AllWritten
  BY <1>1 DEF AllWritten
<1>8. QueriesRight
  BY <1>1 DEF QueriesRight
<1> QED  BY <1>3, <1>4, <1>5, <1>6, <1>7, <1>8 DEF IInv

\* A step of one task of Commit on coset c.
LEMMA CommitStep ==
  ASSUME IInv, setup' = setup, stage = "commit", stage' = stage, current' = current,
         NEW task \in Cosets,
         \A t \in Traces, c \in Cosets :
           t # current \/ c # task =>
             cache'[t][c] = cache[t][c] /\ segments'[t][c] = segments[t][c],
         \A c \in Cosets : c # task => pc'[c] = pc[c],
         CommitAt(current, task)'
  PROVE  CommitRight'
<1>1. setup \in Setups /\ current \in Traces
  BY DEF IInv, Shapes, CommitRight
<1>2. ASSUME NEW t \in Traces, NEW c \in Cosets
      PROVE  /\ t < current' => Committed(t, c)'
             /\ t = current' => CommitAt(t, c)'
             /\ t > current' => NotYet(t, c)'
  <2>1. /\ t < current => Committed(t, c)
        /\ t = current => CommitAt(t, c)
        /\ t > current => NotYet(t, c)
    BY DEF IInv, CommitRight
  <2>2. t \in Int /\ current \in Int
    BY <1>1, WidthFacts DEF TwoWidths
  <2>3. CASE t = current /\ c = task
    <3>1. CommitAt(t, c)'
      BY <2>3 DEF CommitAt, AllocatedEntry, Entry, Rows
    <3> QED  BY <2>2, <2>3, <3>1
  <2>4. CASE t = current /\ c # task
    <3>1. CommitAt(t, c)'
      BY <2>1, <2>4, EntriesSame DEF CommitAt
    <3> QED  BY <2>2, <2>4, <3>1
  <2>5. CASE t # current
    <3>1. cache'[t][c] = cache[t][c] /\ segments'[t][c] = segments[t][c]
      BY <2>5
    <3>2. Committed(t, c)' <=> Committed(t, c)
      BY <3>1, CommittedSame
    <3>3. NotYet(t, c)' <=> NotYet(t, c)
      BY <3>1 DEF NotYet
    <3> QED  BY <2>1, <2>5, <3>2, <3>3
  <2> QED  BY <2>3, <2>4, <2>5
<1>3. Traces' = Traces /\ Cosets' = Cosets
  BY SizesSame
<1> QED  BY <1>1, <1>2, <1>3 DEF CommitRight

\* What a step of Commit leaves alone.
LEMMA CommitLeaves ==
  ASSUME IInv, stage = "commit", stage' \in {"commit", "committed"},
         UNCHANGED <<setup, running, evaluation, queries, opened, oracle_evaluations>>
  PROVE  TasksRight' /\ EvaluationRight' /\ AllWritten' /\ QueriesRight'
<1>1. ASSUME NEW thread \in Threads
      PROVE  running'[thread] = Nothing
  BY DEF IInv, TasksRight, TaskRight
<1>2. TasksRight'
  BY <1>1, NoTasks
<1>3. EvaluationRight'
  BY EvaluationStays DEF IInv
<1>4. AllWritten'
  BY Early
<1>5. QueriesRight'
  BY QueriesStay DEF IInv
<1> QED  BY <1>2, <1>3, <1>4, <1>5

LEMMA LookUpRight ==
  ASSUME IInv, NEW task \in Cosets, LookUp(task)
  PROVE  IInv'
<1>1. setup \in Setups /\ current \in Traces /\ stage = "commit" /\ pc[task] = "start"
  BY DEF IInv, Shapes, CommitRight, LookUp, Goes
<1>2. CommitAt(current, task)
  BY <1>1 DEF IInv, CommitRight
<1>3. cache[current][task] = Nothing /\ segments[current][task] = Nothing
  BY <1>1, <1>2 DEF CommitAt
<1>4. /\ pc' = [pc EXCEPT ![task] = "allocated"]
      /\ cache' = [cache EXCEPT ![current][task] = AllocatedEntry(current)]
      /\ UNCHANGED <<setup, lde_manager, segments, current, todo, running, worker_mem,
                     evaluation, queries, opened, oracle_evaluations, stage>>
  BY <1>3 DEF LookUp, Goes, HasEntry, CosetOfTask
<1>5. /\ DOMAIN cache = Traces /\ DOMAIN cache[current] = Cosets
      /\ pc \in [Cosets -> {"start", "allocated", "evaluated", "added"}]
  BY <1>1 DEF IInv, Shapes
<1>6. CommitAt(current, task)'
  <2>1. PICK t : t = current /\ t = current'
    BY <1>4
  <2>2. /\ pc'[task] = "allocated" /\ cache'[t][task] = AllocatedEntry(t)
        /\ segments'[t][task] = Nothing
    BY <1>1, <1>3, <1>4, <1>5, <2>1
  <2>3. AllocatedEntry(t)' = AllocatedEntry(t)
    BY <1>4, EntriesSame
  <2> QED  BY <2>1, <2>2, <2>3 DEF CommitAt, AllocatedEntry, Columns, Width
<1>7. CommitRight'
  <2>1. \A t \in Traces, c \in Cosets :
          t # current \/ c # task =>
            cache'[t][c] = cache[t][c] /\ segments'[t][c] = segments[t][c]
    BY <1>4, <1>5
  <2>2. \A c \in Cosets : c # task => pc'[c] = pc[c]
    BY <1>4, <1>5
  <2> QED  BY <1>1, <1>4, <1>6, <2>1, <2>2, CommitStep
<1>8. Shapes'
  <2>1. DOMAIN cache' = Traces /\ \A t \in Traces : DOMAIN cache'[t] = Cosets
    BY <1>1, <1>4, <1>5 DEF IInv, Shapes
  <2>2. pc' \in [Cosets -> {"start", "allocated", "evaluated", "added"}]
    BY <1>4, <1>5
  <2> QED  BY <1>4, <2>1, <2>2, ShapesStep DEF IInv, Shapes
<1>9. TasksRight' /\ EvaluationRight' /\ AllWritten' /\ QueriesRight'
  BY <1>1, <1>4, CommitLeaves
<1> QED  BY <1>7, <1>8, <1>9 DEF IInv

LEMMA EvaluateRight ==
  ASSUME IInv, NEW task \in Cosets, Evaluate(task)
  PROVE  IInv'
<1>1. setup \in Setups /\ current \in Traces /\ stage = "commit" /\ pc[task] = "allocated"
  BY DEF IInv, Shapes, CommitRight, Evaluate, Goes, CosetOfTask
<1>2. CommitAt(current, task)
  BY <1>1 DEF IInv, CommitRight
<1>3. segments[current][task] = Nothing
  BY <1>1, <1>2 DEF CommitAt
<1>4. /\ pc' = [pc EXCEPT ![task] = "evaluated"]
      /\ cache' = [cache EXCEPT ![current][task] = Entry(current, task)]
      /\ UNCHANGED <<setup, lde_manager, segments, current, todo, running, worker_mem,
                     evaluation, queries, opened, oracle_evaluations, stage>>
  BY DEF Evaluate, Goes, CosetOfTask, Entry
<1>5. /\ DOMAIN cache = Traces /\ DOMAIN cache[current] = Cosets
      /\ pc \in [Cosets -> {"start", "allocated", "evaluated", "added"}]
  BY <1>1 DEF IInv, Shapes
<1>6. CommitAt(current, task)'
  <2>1. PICK t : t = current /\ t = current'
    BY <1>4
  <2>2. /\ pc'[task] = "evaluated" /\ cache'[t][task] = Entry(t, task)
        /\ segments'[t][task] = Nothing
    BY <1>1, <1>3, <1>4, <1>5, <2>1
  <2>3. CommitAt(t, task)'
    BY <1>4, <2>2, EntriesSame DEF CommitAt
  <2> QED  BY <2>1, <2>3 DEF CommitAt, AllocatedEntry, Entry, Rows
<1>7. CommitRight'
  <2>1. \A t \in Traces, c \in Cosets :
          t # current \/ c # task =>
            cache'[t][c] = cache[t][c] /\ segments'[t][c] = segments[t][c]
    BY <1>4, <1>5
  <2>2. \A c \in Cosets : c # task => pc'[c] = pc[c]
    BY <1>4, <1>5
  <2> QED  BY <1>1, <1>4, <1>6, <2>1, <2>2, CommitStep
<1>8. Shapes'
  <2>1. DOMAIN cache' = Traces /\ \A t \in Traces : DOMAIN cache'[t] = Cosets
    BY <1>1, <1>4, <1>5 DEF IInv, Shapes
  <2>2. pc' \in [Cosets -> {"start", "allocated", "evaluated", "added"}]
    BY <1>4, <1>5
  <2> QED  BY <1>4, <2>1, <2>2, ShapesStep DEF IInv, Shapes
<1>9. TasksRight' /\ EvaluationRight' /\ AllWritten' /\ QueriesRight'
  BY <1>1, <1>4, CommitLeaves
<1> QED  BY <1>7, <1>8, <1>9 DEF IInv

LEMMA AddSegmentRight ==
  ASSUME IInv, NEW task \in Cosets, AddSegment(task)
  PROVE  IInv'
<1>1. setup \in Setups /\ current \in Traces /\ stage = "commit" /\ pc[task] = "evaluated"
  BY DEF IInv, Shapes, CommitRight, AddSegment, Goes, CosetOfTask
<1>2. CommitAt(current, task)
  BY <1>1 DEF IInv, CommitRight
<1>3. cache[current][task] = Entry(current, task)
  BY <1>1, <1>2 DEF CommitAt
<1>4. /\ pc' = [pc EXCEPT ![task] = "added"]
      /\ segments' = [segments EXCEPT ![current][task] = Rows(current, task)]
      /\ UNCHANGED <<setup, lde_manager, cache, current, todo, running, worker_mem,
                     evaluation, queries, opened, oracle_evaluations, stage>>
  BY <1>3 DEF AddSegment, Goes, CosetOfTask, Rows
<1>5. /\ DOMAIN segments = Traces /\ DOMAIN segments[current] = Cosets
      /\ pc \in [Cosets -> {"start", "allocated", "evaluated", "added"}]
  BY <1>1 DEF IInv, Shapes
<1>6. CommitAt(current, task)'
  <2>1. PICK t : t = current /\ t = current'
    BY <1>4
  <2>2. /\ pc'[task] = "added" /\ cache'[t][task] = Entry(t, task)
        /\ segments'[t][task] = Rows(t, task)
    BY <1>1, <1>3, <1>4, <1>5, <2>1
  <2>3. CommitAt(t, task)'
    BY <1>4, <2>2, EntriesSame DEF CommitAt
  <2> QED  BY <2>1, <2>3 DEF CommitAt, AllocatedEntry, Entry, Rows
<1>7. CommitRight'
  <2>1. \A t \in Traces, c \in Cosets :
          t # current \/ c # task =>
            cache'[t][c] = cache[t][c] /\ segments'[t][c] = segments[t][c]
    BY <1>4, <1>5
  <2>2. \A c \in Cosets : c # task => pc'[c] = pc[c]
    BY <1>4, <1>5
  <2> QED  BY <1>1, <1>4, <1>6, <2>1, <2>2, CommitStep
<1>8. Shapes'
  <2>1. DOMAIN segments' = Traces /\ \A t \in Traces : DOMAIN segments'[t] = Cosets
    BY <1>1, <1>4, <1>5 DEF IInv, Shapes
  <2>2. pc' \in [Cosets -> {"start", "allocated", "evaluated", "added"}]
    BY <1>4, <1>5
  <2> QED  BY <1>4, <2>1, <2>2, ShapesStep DEF IInv, Shapes
<1>9. TasksRight' /\ EvaluationRight' /\ AllWritten' /\ QueriesRight'
  BY <1>1, <1>4, CommitLeaves
<1> QED  BY <1>7, <1>8, <1>9 DEF IInv

LEMMA CommitEndRight ==
  ASSUME IInv, Commit
  PROVE  IInv'
<1>1. /\ setup \in Setups /\ current \in Traces /\ stage = "commit"
      /\ \A task \in Cosets : pc[task] = "added"
  BY DEF IInv, Shapes, CommitRight, Commit
<1>2. UNCHANGED <<setup, lde_manager, cache, segments, todo, running, worker_mem,
                  evaluation, queries, opened, oracle_evaluations>>
  BY DEF Commit
<1>3. Traces' = Traces /\ Cosets' = Cosets
  BY <1>2, SizesSame
<1>4. Traces \in {{0}, {0, 1}}
  BY <1>1, WidthFacts DEF TwoWidths
<1>5. ASSUME NEW t \in Traces, NEW c \in Cosets
      PROVE  /\ t <= current => Committed(t, c)
             /\ t > current => NotYet(t, c)
             /\ Committed(t, c)' <=> Committed(t, c)
             /\ NotYet(t, c)' <=> NotYet(t, c)
  <2>1. /\ t < current => Committed(t, c)
        /\ t = current => CommitAt(t, c)
        /\ t > current => NotYet(t, c)
    BY <1>1 DEF IInv, CommitRight
  <2>2. CommitAt(t, c) => Committed(t, c)
    BY <1>1 DEF CommitAt, Committed
  <2>3. t \in Int /\ current \in Int
    BY <1>1, <1>4
  <2>4. Committed(t, c)' <=> Committed(t, c)
    BY <1>2, CommittedSame
  <2>5. NotYet(t, c)' <=> NotYet(t, c)
    BY <1>2 DEF NotYet
  <2> QED  BY <2>1, <2>2, <2>3, <2>4, <2>5
<1>6. CASE current + 1 \in Traces
  <2>1. /\ current' = current + 1 /\ pc' = [c \in Cosets |-> "start"] /\ stage' = stage
    BY <1>6 DEF Commit
  <2>2. ASSUME NEW t \in Traces, NEW c \in Cosets
        PROVE  /\ t < current' => Committed(t, c)'
               /\ t = current' => CommitAt(t, c)'
               /\ t > current' => NotYet(t, c)'
    <3>1. t \in Int /\ current \in Int
      BY <1>1, <1>4
    <3>2. /\ t < current + 1 => t <= current
          /\ t = current + 1 => t > current
          /\ t > current + 1 => t > current
      BY <3>1
    <3>3. NotYet(t, c)' => CommitAt(t, c)'
      BY <2>1 DEF NotYet, CommitAt
    <3> QED  BY <1>5, <2>1, <3>2, <3>3
  <2>3. CommitRight'
    BY <1>1, <1>3, <1>6, <2>1, <2>2 DEF CommitRight
  <2>4. current' \in Nat /\ pc' \in [Cosets -> {"start", "allocated", "evaluated", "added"}]
    BY <1>1, <1>4, <2>1
  <2>5. Shapes'
    BY <1>2, <2>1, <2>4, ShapesStep DEF IInv, Shapes
  <2>6. TasksRight' /\ EvaluationRight' /\ AllWritten' /\ QueriesRight'
    BY <1>1, <1>2, <2>1, CommitLeaves
  <2> QED  BY <2>3, <2>5, <2>6 DEF IInv
<1>7. CASE current + 1 \notin Traces
  <2>1. stage' = "committed" /\ current' = current /\ pc' = pc
    BY <1>7 DEF Commit
  <2>2. \A t \in Traces : t <= current
    BY <1>1, <1>4, <1>7
  <2>3. CommitRight'
    BY <1>3, <1>5, <2>1, <2>2 DEF CommitRight
  <2>4. Shapes'
    BY <1>2, <2>1, ShapesStep DEF IInv, Shapes
  <2>5. TasksRight' /\ EvaluationRight' /\ AllWritten' /\ QueriesRight'
    BY <1>1, <1>2, <2>1, CommitLeaves
  <2> QED  BY <2>3, <2>4, <2>5 DEF IInv
<1> QED  BY <1>6, <1>7

LEMMA FinalizeRight ==
  ASSUME IInv, FinalizeEval
  PROVE  IInv'
<1>1. /\ setup \in Setups /\ stage = "committed" /\ lde_manager' = [t \in Traces |-> FALSE]
      /\ UNCHANGED <<setup, cache, segments, pc, current, todo, running, worker_mem,
                     evaluation, queries, opened, oracle_evaluations, stage>>
  BY DEF IInv, Shapes, FinalizeEval
<1>2. CommitRight'
  BY <1>1, CommitStays DEF IInv
<1>3. TasksRight' /\ EvaluationRight' /\ AllWritten' /\ QueriesRight'
  BY <1>1, TasksStay, EvaluationStays, Early, QueriesStay DEF IInv
<1>4. Shapes'
  <2>1. lde_manager' \in [Traces -> BOOLEAN]
    BY <1>1
  <2> QED  BY <1>1, <2>1, ShapesStep DEF IInv, Shapes
<1> QED  BY <1>2, <1>3, <1>4 DEF IInv

-----------------------------------------------------------------------------
(* The invariant holds through EvalComposition. *)

\* Every coset is in the cache, so that none is evaluated again.
LEMMA AllCached ==
  ASSUME IInv, stage # "commit", NEW t \in Traces, NEW c \in Cosets
  PROVE  HasEntry(t, c) /\ cache[t][c] = Entry(t, c)
<1>1. setup \in Setups /\ cache[t][c] = Entry(t, c)
  BY DEF IInv, Shapes, CommitRight, Committed
<1>2. Entry(t, c) # Nothing
  BY <1>1, EntryTyped, EntrySomething
<1> QED  BY <1>1, <1>2 DEF HasEntry

LEMMA StartCosetRight ==
  ASSUME IInv, NEW coset \in 0 .. setup.n_cosets - 1, StartCoset(coset), stage # "commit",
         \A thread \in Threads : running[thread] = Nothing,
         UNCHANGED <<setup, lde_manager, segments, pc, running, evaluation, queries, opened,
                     oracle_evaluations>>,
         \A c \in 0 .. setup.n_cosets - 1, idx \in Offsets : c < coset => Written(c, idx)
  PROVE  IInv'
<1>1. setup \in Setups
  BY DEF IInv, Shapes
<1>2. PICK n \in Nat \ {0} : n = setup.n_cosets
  BY <1>1, SetupTyped
<1>3. coset \in Nat /\ coset \in Cosets
  <2>1. PICK m \in Nat \ {0} : m = NumCosets
    BY <1>1, SizeFacts DEF Sizes
  <2>2. n \in 1 .. m
    BY <1>1, <1>2, <2>1, SizeFacts DEF Sizes
  <2>3. coset \in 0 .. m - 1
    BY <1>2, <2>2
  <2> QED  BY <2>1, <2>3 DEF Cosets
<1>4. \A t \in Traces, c \in Cosets : HasEntry(t, c)
  BY AllCached
<1>5. /\ current' = coset /\ todo' = Tasks /\ stage' = "evaluating"
      /\ worker_mem' = [thread \in DOMAIN worker_mem |-> Uninitialized]
      /\ cache' = [t \in Traces |-> cache[t]]
  BY <1>3, <1>4 DEF StartCoset
<1>6. Shapes'
  <2>1. /\ DOMAIN cache' = Traces /\ \A t \in Traces : DOMAIN cache'[t] = Cosets
    BY <1>5 DEF IInv, Shapes
  <2>2. /\ DOMAIN worker_mem' = Threads
        /\ \A thread \in Threads : worker_mem'[thread] = Uninitialized
    BY <1>5 DEF IInv, Shapes
  <2> QED  BY <1>3, <1>5, <2>1, <2>2, ShapesStep DEF IInv, Shapes
<1>7. CommitRight'
  <2>1. \A t \in Traces, c \in Cosets : cache'[t][c] = cache[t][c]
    BY <1>5
  <2>2. stage' # "commit" /\ segments' = segments
    BY <1>5
  <2> QED  BY <2>1, <2>2, CommitStays DEF IInv
<1>8. TasksRight'
  BY <1>5, SizesSame DEF TasksRight
<1>9. EvaluationRight'
  BY EvaluationStays DEF IInv
<1>10. AllWritten'
  <2>1. ASSUME NEW idx \in Offsets
        PROVE  /\ \A c \in 0 .. setup.n_cosets - 1 : c < current' => Written(c, idx)'
               /\ Pending(idx)'
    <3>1. \A c \in 0 .. setup.n_cosets - 1 : c < current' => Written(c, idx)'
      BY <1>5, WrittenSame
    <3>2. idx \div setup.task_size \in Tasks
      BY <1>1, TaskFacts DEF TaskOf
    <3>3. Pending(idx)'
      BY <1>5, <3>2 DEF Pending
    <3> QED  BY <3>1, <3>3
  <2>2. Offsets' = Offsets
    BY SizesSame
  <2> QED  BY <1>5, <2>1, <2>2 DEF AllWritten
<1>11. QueriesRight'
  BY <1>5, QueriesStay DEF IInv
<1> QED  BY <1>6, <1>7, <1>8, <1>9, <1>10, <1>11 DEF IInv

LEMMA EvalCompositionRight ==
  ASSUME IInv, EvalComposition
  PROVE  IInv'
<1>1. setup \in Setups /\ stage = "committed" /\ StartCoset(0)
      /\ UNCHANGED <<setup, lde_manager, segments, pc, running, evaluation, queries, opened,
                     oracle_evaluations>>
  BY DEF IInv, Shapes, EvalComposition
<1>2. PICK n \in Nat \ {0} : n = setup.n_cosets
  BY <1>1, SetupTyped
<1>3. 0 \in 0 .. setup.n_cosets - 1 /\ \A c \in 0 .. setup.n_cosets - 1 : ~(c < 0)
  BY <1>2
<1>4. \A thread \in Threads : running[thread] = Nothing
  BY <1>1 DEF IInv, TasksRight, TaskRight
<1> QED  BY <1>1, <1>3, <1>4, StartCosetRight

\* Every point of the coset is written when no task is left.
LEMMA CosetWritten ==
  ASSUME IInv, stage = "evaluating", todo = {}, \A thread \in Threads : running[thread] = Nothing,
         NEW c \in 0 .. setup.n_cosets - 1, c < current + 1, NEW idx \in Offsets
  PROVE  Written(c, idx)
<1>1. /\ \A d \in 0 .. setup.n_cosets - 1 : d < current => Written(d, idx)
      /\ Written(current, idx) \/ Pending(idx)
  BY DEF IInv, AllWritten
<1>2. ~Pending(idx)
  BY DEF Pending
<1>3. c \in Int /\ current \in Nat
  BY DEF IInv, Shapes
<1>4. c < current \/ c = current
  BY <1>3
<1> QED  BY <1>1, <1>2, <1>4

LEMMA EndCosetRight ==
  ASSUME IInv, EndCoset
  PROVE  IInv'
<1>1. /\ setup \in Setups /\ stage = "evaluating" /\ todo = {}
      /\ current \in Nat /\ current \in 0 .. setup.n_cosets - 1
      /\ \A thread \in Threads : running[thread] = Nothing
  BY DEF IInv, Shapes, TasksRight, EndCoset
<1>2. UNCHANGED <<setup, lde_manager, segments, pc, running, evaluation, queries, opened,
                  oracle_evaluations>>
  BY DEF EndCoset
<1>3. PICK n \in Nat \ {0} : n = setup.n_cosets
  BY <1>1, SetupTyped
<1>4. CASE current + 1 < setup.n_cosets
  <2>1. PICK coset \in 0 .. setup.n_cosets - 1 : coset = current + 1
    BY <1>1, <1>3, <1>4
  <2>2. StartCoset(coset)
    BY <1>4, <2>1 DEF EndCoset
  <2>3. \A c \in 0 .. setup.n_cosets - 1, idx \in Offsets : c < coset => Written(c, idx)
    BY <1>1, <2>1, CosetWritten
  <2> QED  BY <1>1, <1>2, <2>2, <2>3, StartCosetRight
<1>5. CASE ~(current + 1 < setup.n_cosets)
  <2>1. stage' = "evaluated" /\ UNCHANGED <<cache, current, todo, worker_mem>>
    BY <1>5 DEF EndCoset
  <2>2. \A c \in 0 .. setup.n_cosets - 1 : c < current + 1
    BY <1>1, <1>3, <1>5
  <2>3. \A c \in 0 .. setup.n_cosets - 1, idx \in Offsets : Written(c, idx)'
    BY <1>1, <1>2, <2>2, CosetWritten, WrittenSame
  <2>4. AllWritten'
    BY <1>2, <2>1, <2>3, SizesSame DEF AllWritten
  <2>5. Shapes'
    BY <1>2, <2>1, ShapesStep DEF IInv, Shapes
  <2>6. CommitRight' /\ EvaluationRight' /\ QueriesRight'
    BY <1>1, <1>2, <2>1, CommitStays, EvaluationStays, QueriesStay DEF IInv
  <2>7. TasksRight'
    BY <1>1, <1>2, <2>1, NoTasks
  <2> QED  BY <2>4, <2>5, <2>6, <2>7 DEF IInv
<1> QED  BY <1>4, <1>5

\* A step of one thread, which works on or ends.
LEMMA ThreadStep ==
  ASSUME IInv, setup' = setup, current' = current, stage' = stage, NEW thread \in Threads,
         \A other \in Threads : other # thread =>
           running'[other] = running[other] /\ worker_mem'[other] = worker_mem[other],
         running'[thread] # Nothing =>
           /\ stage = "evaluating"
           /\ running'[thread] \in [next : Nat, end : Nat]
           /\ running'[thread].next < running'[thread].end
           /\ running'[thread].end <= TraceSize
           /\ worker_mem'[thread] = MemoryAt(running'[thread].next)
  PROVE  TasksRight'
<1>1. ASSUME NEW other \in Threads, running'[other] # Nothing
      PROVE  /\ stage' = "evaluating"
             /\ running'[other] \in [next : Nat, end : Nat]
             /\ running'[other].next < running'[other].end
             /\ running'[other].end <= TraceSize
             /\ worker_mem'[other] = MemoryAt(running'[other].next)
  <2>1. CASE other = thread
    BY <1>1, <2>1
  <2>2. CASE other # thread
    <3>1. TaskRight(other)
      BY <1>1, <2>2 DEF IInv, TasksRight
    <3> QED  BY <1>1, <2>2, <3>1 DEF TaskRight
  <2> QED  BY <2>1, <2>2
<1>2. ASSUME NEW other \in Threads, running'[other] # Nothing
      PROVE  TaskRight(other)'
  <2>1. PICK idx : idx = running'[other].next
    OBVIOUS
  <2>2. MemoryAt(idx)' = MemoryAt(idx)
    BY MemorySame
  <2>3. MemoryAt(running[other].next)' = MemoryAt(idx)'
    BY <2>1 DEF MemoryAt, Point, CosetOffset, CosetOffsets, Times, PointPowers, Power
  <2>4. MemoryAt(running'[other].next) = MemoryAt(idx)
    BY <2>1
  <2> QED  BY <1>1, <1>2, <2>2, <2>3, <2>4, SizesSame DEF TaskRight
<1>3. Threads' = Threads
  BY SizesSame
<1>4. stage' = "evaluating" => current' \in 0 .. setup'.n_cosets - 1
  BY DEF IInv, TasksRight
<1> QED  BY <1>2, <1>3, <1>4 DEF TasksRight

LEMMA StartTaskRight ==
  ASSUME IInv, NEW thread \in Threads, StartTask(thread)
  PROVE  IInv'
<1>1. /\ setup \in Setups /\ stage = "evaluating" /\ running[thread] = Nothing
      /\ todo \subseteq Tasks /\ DOMAIN running = Threads /\ DOMAIN worker_mem = Threads
  BY DEF IInv, Shapes, StartTask
<1>2. current \in Cosets
  <2>1. current \in 0 .. setup.n_cosets - 1
    BY <1>1 DEF IInv, TasksRight
  <2>2. PICK m \in Nat \ {0} : m = NumCosets
    BY <1>1, SizeFacts DEF Sizes
  <2>3. PICK n \in 1 .. m : n = setup.n_cosets
    BY <1>1, <2>2, SizeFacts DEF Sizes
  <2>4. current \in 0 .. m - 1
    BY <2>1, <2>2, <2>3
  <2> QED  BY <2>2, <2>4 DEF Cosets
<1>3. UNCHANGED <<setup, lde_manager, cache, segments, pc, current, evaluation, queries,
                  opened, oracle_evaluations, stage>>
  BY DEF StartTask
<1>4. PICK s \in Nat \ {0}, n \in Nat \ {0} : s = setup.task_size /\ n = TraceSize
  BY <1>1, SetupTyped, SizeFacts DEF Sizes
<1>5. PICK task, initial, end :
        /\ task \in todo
        /\ initial = s * task
        /\ end = IF initial + s < n THEN initial + s ELSE n
        /\ todo' = todo \ {task}
        /\ running' = [running EXCEPT ![thread] = [next |-> initial, end |-> end]]
        /\ worker_mem' = [worker_mem EXCEPT ![thread] =
             [powers |-> PointPowers(AlgebraicOffset(task)), periodic |-> initial % Period]]
  BY <1>4 DEF StartTask, WorkerId
<1>6. task \in Tasks /\ initial \in Offsets /\ initial \in Nat
  BY <1>1, <1>4, <1>5, TaskFacts, OffsetFacts
<1>7. initial < n /\ end \in Nat /\ initial < end /\ end <= n
  <2>1. initial \in 0 .. n - 1
    BY <1>4, <1>6 DEF Offsets
  <2> QED  BY <1>5, <2>1
<1>8. PICK r : r = [next |-> initial, end |-> end]
  OBVIOUS
<1>9. /\ running'[thread] = r /\ r \in [next : Nat, end : Nat] /\ r # Nothing
      /\ r.next = initial /\ r.end = end
  BY <1>1, <1>5, <1>6, <1>7, <1>8, NothingAssumption
<1>10. AlgebraicOffset(task) = Point(current, initial)
  BY <1>1, <1>2, <1>4, <1>5, <1>6, AlgebraicOffsetFacts
<1>11. worker_mem'[thread] = MemoryAt(initial)
  BY <1>1, <1>5, <1>10 DEF MemoryAt
<1>12. \A other \in Threads : other # thread =>
         running'[other] = running[other] /\ worker_mem'[other] = worker_mem[other]
  BY <1>1, <1>5
<1>13. TasksRight'
  <2>1. running'[thread].next = initial /\ worker_mem'[thread] = MemoryAt(running'[thread].next)
    BY <1>9, <1>11
  <2>2. running'[thread].end = end
    BY <1>9
  <2> QED  BY <1>1, <1>3, <1>4, <1>7, <1>9, <1>12, <2>1, <2>2, ThreadStep
<1>14. Shapes'
  <2>1. todo' \subseteq Tasks /\ DOMAIN running' = Threads /\ DOMAIN worker_mem' = Threads
    BY <1>1, <1>5
  <2>2. /\ MemoryAt(initial).powers[1] \in Points
        /\ MemoryAt(initial).periodic \in 0 .. Period - 1
    <3>1. Point(current, initial) \in Points
      BY <1>1, <1>2, <1>6, PointInDomain
    <3>2. initial % Period \in 0 .. Period - 1
      BY <1>1, <1>2, <1>6, PeriodicRead
    <3> QED  BY <3>1, <3>2 DEF MemoryAt, PointPowers
  <2>3. \A other \in Threads : worker_mem'[other] # Uninitialized =>
          /\ worker_mem'[other].powers[1] \in Points
          /\ worker_mem'[other].periodic \in 0 .. Period - 1
    BY <1>11, <1>12, <2>2 DEF IInv, Shapes
  <2> QED  BY <1>3, <2>1, <2>3, ShapesStep DEF IInv, Shapes
<1>15. AllWritten'
  <2>1. ASSUME NEW idx \in Offsets
        PROVE  /\ \A c \in 0 .. setup.n_cosets - 1 : c < current => Written(c, idx)'
               /\ Written(current, idx)' \/ Pending(idx)'
    <3>1. /\ \A c \in 0 .. setup.n_cosets - 1 : c < current => Written(c, idx)
          /\ Written(current, idx) \/ Pending(idx)
      BY <1>1 DEF IInv, AllWritten
    <3>2. /\ \A c \in 0 .. setup.n_cosets - 1 : Written(c, idx)' <=> Written(c, idx)
          /\ \A c : c = current => (Written(c, idx)' <=> Written(c, idx))
      BY <1>3, WrittenSame
    <3>3. Written(current, idx)' <=> Written(current, idx)
      <4>1. PICK c : c = current /\ c = current'
        BY <1>3
      <4>2. Written(c, idx)' <=> Written(c, idx)
        BY <3>2, <4>1
      <4>3. Written(current, idx)' <=> Written(c, idx)'
        BY <4>1 DEF Written, Slot, OutputIndex, Point, CosetOffset, CosetOffsets, Times,
                    CompositionAt, Power
      <4> QED  BY <4>1, <4>2, <4>3
    <3>4. Pending(idx) => Pending(idx)'
      <4>1. CASE idx \div s \in todo
        <5>1. CASE idx \div s = task
          <6>1. initial <= idx /\ idx < initial + s /\ idx < n
            <7>1. s * TaskOf(idx) <= idx /\ idx < s * TaskOf(idx) + s
              BY <1>1, <1>4, TaskFacts
            <7>2. TaskOf(idx) = task
              BY <1>4, <5>1 DEF TaskOf
            <7>3. idx \in 0 .. n - 1
              BY <1>4 DEF Offsets
            <7>4. idx < n
              BY <7>3
            <7> QED  BY <1>5, <7>1, <7>2, <7>4
          <6>2. initial <= idx /\ idx < end
            BY <1>5, <6>1
          <6>3. /\ running'[thread] # Nothing /\ running'[thread].next <= idx
                /\ idx < running'[thread].end
            BY <1>9, <6>2
          <6> QED  BY <1>3, <6>3, SizesSame DEF Pending
        <5>2. CASE idx \div s # task
          <6>1. idx \div setup'.task_size \in todo'
            BY <1>3, <1>4, <1>5, <4>1, <5>2
          <6> QED  BY <6>1 DEF Pending
        <5> QED  BY <5>1, <5>2
      <4>2. CASE \E other \in Threads : /\ running[other] # Nothing /\ running[other].next <= idx
                                        /\ idx < running[other].end
        BY <1>1, <1>3, <1>12, <4>2, SizesSame DEF Pending
      <4> QED  BY <1>4, <4>1, <4>2 DEF Pending
    <3> QED  BY <3>1, <3>2, <3>3, <3>4
  <2>2. Offsets' = Offsets
    BY <1>3, SizesSame
  <2> QED  BY <1>1, <1>3, <2>1, <2>2 DEF AllWritten
<1>16. CommitRight' /\ EvaluationRight' /\ QueriesRight'
  BY <1>1, <1>3, CommitStays, EvaluationStays, QueriesStay DEF IInv
<1> QED  BY <1>13, <1>14, <1>15, <1>16 DEF IInv

\* What a thread writes is the composition at its point, and it goes on to the next one.
LEMMA PointEvaluated ==
  ASSUME IInv, NEW thread \in Threads, running[thread] # Nothing, NEW idx,
         idx = running[thread].next
  PROVE  /\ idx \in Offsets /\ current \in 0 .. setup.n_cosets - 1 /\ current \in Cosets
         /\ ConstraintsEval(NeighborsAt(idx),
                            PeriodicCoset(CosetOffset(current))[worker_mem[thread].periodic],
                            worker_mem[thread].powers)
              = CompositionAt(Point(current, idx))
<1>1. setup \in Setups /\ stage = "evaluating" /\ current \in 0 .. setup.n_cosets - 1
  BY DEF IInv, Shapes, TasksRight, TaskRight
<1>2. current \in Cosets
  <2>1. PICK m \in Nat \ {0} : m = NumCosets
    BY <1>1, SizeFacts DEF Sizes
  <2>2. PICK n \in 1 .. m : n = setup.n_cosets
    BY <1>1, <2>1, SizeFacts DEF Sizes
  <2>3. current \in 0 .. m - 1
    BY <1>1, <2>1, <2>2
  <2> QED  BY <2>1, <2>3 DEF Cosets
<1>3. idx \in Offsets /\ worker_mem[thread] = MemoryAt(idx)
  <2>1. TaskRight(thread)
    BY DEF IInv, TasksRight
  <2>2. PICK n \in Nat \ {0}, end \in Nat : n = TraceSize /\ end = running[thread].end
    BY <1>1, <2>1, SizeFacts DEF Sizes, TaskRight
  <2>3. idx \in Nat /\ idx < end /\ end <= n /\ worker_mem[thread] = MemoryAt(idx)
    BY <2>1, <2>2 DEF TaskRight
  <2>4. idx \in 0 .. n - 1
    BY <2>2, <2>3
  <2> QED  BY <2>2, <2>3, <2>4 DEF Offsets
<1>4. worker_mem[thread].powers = PointPowers(Point(current, idx))
      /\ worker_mem[thread].periodic = idx % Period
  BY <1>3 DEF MemoryAt
<1>5. \A t \in Traces : cache[t][current] = Entry(t, current)
  BY <1>1, <1>2, AllCached
<1>6. NeighborsAt(idx)
        = <<NeighborsOf(0, Point(current, idx)), NeighborsOf(1, Point(current, idx))>>
  BY <1>1, <1>2, <1>3, <1>5, NeighborsRead
<1>7. PeriodicCoset(CosetOffset(current))[idx % Period] = Power(Point(current, idx), Copies)
  BY <1>1, <1>2, <1>3, PeriodicRead
<1> QED  BY <1>1, <1>2, <1>3, <1>4, <1>6, <1>7, CompositionForm

\* What has been written stays so.
LEMMA WrittenStays ==
  ASSUME IInv, setup' = setup, current' = current, NEW idx \in Offsets,
         current \in 0 .. setup.n_cosets - 1,
         evaluation' = [evaluation EXCEPT ![Slot(current, idx)] =
                          CompositionAt(Point(current, idx))]
  PROVE  /\ Written(current, idx)'
         /\ \A c \in 0 .. setup.n_cosets - 1, jdx \in Offsets :
              /\ Written(c, jdx) => Written(c, jdx)'
              /\ \/ Written(c, jdx)'
                 \/ evaluation'[Slot(c, jdx)'] = evaluation[Slot(c, jdx)]
<1>1. setup \in Setups /\ DOMAIN evaluation = 0 .. setup.n_cosets * TraceSize - 1
  BY DEF IInv, Shapes
<1>2. PICK d \in 0 .. setup.n_cosets - 1 : d = current /\ d = current'
  OBVIOUS
<1>3. PICK k : k = Slot(d, idx) /\ k = Slot(d, idx)'
  BY SlotsSame
<1>4. PICK p : p = Point(d, idx) /\ p = Point(d, idx)'
  BY TimesSame
<1>5. PICK v : v = CompositionAt(p) /\ v = CompositionAt(p)'
  BY CompositionSame
<1>6. evaluation' = [evaluation EXCEPT ![k] = v]
  BY <1>2, <1>3, <1>4, <1>5
<1>7. k \in DOMAIN evaluation
  BY <1>1, <1>3, SlotFacts
<1>8. CompositionAt(Point(d, idx))' = CompositionAt(p)'
  BY <1>4 DEF CompositionAt, Power, Times
<1>9. Written(d, idx)'
  BY <1>3, <1>5, <1>6, <1>7, <1>8 DEF Written
<1>10. Written(current, idx)'
  <2>1. Written(current, idx)' <=> Written(d, idx)'
    BY <1>2 DEF Written, Slot, OutputIndex, Point, CosetOffset, CosetOffsets, Times,
                CompositionAt, Power
  <2> QED  BY <1>9, <2>1
<1>11. ASSUME NEW c \in 0 .. setup.n_cosets - 1, NEW jdx \in Offsets
       PROVE  \/ c = d /\ jdx = idx
              \/ /\ evaluation'[Slot(c, jdx)] = evaluation[Slot(c, jdx)]
                 /\ Written(c, jdx)' <=> Written(c, jdx)
  <2>1. CASE Slot(c, jdx) = k
    <3>1. Slot(c, jdx) = Slot(d, idx)
      BY <1>3, <2>1
    <3>2. c = d /\ jdx = idx
      BY <1>1, <3>1, SlotOnce
    <3> QED  BY <3>2
  <2>2. CASE Slot(c, jdx) # k
    <3>1. evaluation'[Slot(c, jdx)] = evaluation[Slot(c, jdx)]
      <4>1. Slot(c, jdx) \in DOMAIN evaluation
        BY <1>1, SlotFacts
      <4> QED  BY <1>6, <2>2, <4>1
    <3> QED  BY <3>1, WrittenSame
  <2> QED  BY <2>1, <2>2
<1>12. \A c, jdx : Slot(c, jdx)' = Slot(c, jdx)
  BY SlotsSame
<1> QED  BY <1>9, <1>10, <1>11, <1>12

LEMMA EvalPointRight ==
  ASSUME IInv, NEW thread \in Threads, EvalPoint(thread)
  PROVE  IInv'
<1>1. /\ setup \in Setups /\ running[thread] # Nothing /\ stage = "evaluating"
      /\ DOMAIN running = Threads /\ DOMAIN worker_mem = Threads
      /\ DOMAIN evaluation = 0 .. setup.n_cosets * TraceSize - 1
  BY DEF IInv, Shapes, EvalPoint, TasksRight, TaskRight
<1>2. UNCHANGED <<setup, lde_manager, cache, segments, pc, current, todo, queries,
                  opened, oracle_evaluations, stage>>
  BY DEF EvalPoint
<1>3. PICK n \in Nat \ {0} : n = TraceSize
  BY <1>1, SizeFacts DEF Sizes
<1>4. PICK idx \in Nat, end \in Nat :
        /\ idx = running[thread].next /\ end = running[thread].end
        /\ running[thread] = [next |-> idx, end |-> end] /\ idx < end /\ end <= n
  <2>1. TaskRight(thread)
    BY <1>1 DEF IInv, TasksRight
  <2> QED  BY <1>3, <2>1 DEF TaskRight
<1>5. PICK last \in BOOLEAN : last <=> idx + 1 = end
  <2>1. CASE idx + 1 = end
    BY <2>1
  <2>2. CASE idx + 1 # end
    BY <2>2
  <2> QED  BY <2>1, <2>2
<1>6. /\ idx \in Offsets /\ current \in 0 .. setup.n_cosets - 1 /\ current \in Cosets
      /\ ConstraintsEval(NeighborsAt(idx),
                         PeriodicCoset(CosetOffset(current))[worker_mem[thread].periodic],
                         worker_mem[thread].powers)
           = CompositionAt(Point(current, idx))
  BY <1>1, <1>4, PointEvaluated
<1>7. evaluation' = [evaluation EXCEPT ![Slot(current, idx)] = CompositionAt(Point(current, idx))]
  BY <1>4, <1>6 DEF EvalPoint, WorkerId, Slot
<1>8. worker_mem[thread] = MemoryAt(idx)
  BY <1>1, <1>4 DEF IInv, TasksRight, TaskRight
<1>9. worker_mem' = [worker_mem EXCEPT ![thread] =
        [powers |-> IF last THEN worker_mem[thread].powers
                    ELSE ShiftedPowers(worker_mem[thread].powers),
         periodic |-> NextPeriodic(worker_mem[thread].periodic)]]
  BY <1>4, <1>5 DEF EvalPoint, WorkerId
<1>10. running' = [running EXCEPT ![thread] =
         IF last THEN Nothing ELSE [next |-> idx + 1, end |-> end]]
  <2>1. [running[thread] EXCEPT !.next = @ + 1] = [next |-> idx + 1, end |-> end]
    BY <1>4
  <2> QED  BY <1>4, <1>5, <2>1 DEF EvalPoint
<1>11. \A other \in Threads : other # thread =>
         running'[other] = running[other] /\ worker_mem'[other] = worker_mem[other]
  BY <1>1, <1>9, <1>10
<1>12. ASSUME ~last
       PROVE  /\ idx + 1 \in Offsets /\ idx + 1 < end
              /\ worker_mem'[thread] = MemoryAt(idx + 1)
              /\ running'[thread] = [next |-> idx + 1, end |-> end]
  <2>1. idx + 1 < end /\ idx + 1 \in 0 .. n - 1
    BY <1>4, <1>5, <1>12
  <2>2. idx + 1 \in Offsets
    BY <1>3, <2>1 DEF Offsets
  <2>3. NextMemory(current, idx)
    BY <1>1, <1>6, <2>2, NextPoint
  <2>4. NextPeriodic(idx % Period) = (idx + 1) % Period
    BY <1>1, NextInPeriod
  <2>5. worker_mem'[thread] = [powers |-> ShiftedPowers(PointPowers(Point(current, idx))),
                               periodic |-> NextPeriodic(idx % Period)]
    BY <1>1, <1>8, <1>9, <1>12 DEF MemoryAt
  <2>6. worker_mem'[thread] = MemoryAt(idx + 1)
    BY <2>3, <2>4, <2>5 DEF NextMemory, MemoryAt
  <2> QED  BY <1>1, <1>10, <1>12, <2>1, <2>2, <2>6
<1>13. TasksRight'
  <2>1. ASSUME running'[thread] # Nothing
        PROVE  /\ running'[thread] \in [next : Nat, end : Nat]
               /\ running'[thread].next < running'[thread].end
               /\ running'[thread].end <= TraceSize
               /\ worker_mem'[thread] = MemoryAt(running'[thread].next)
    <3>1. ~last
      BY <1>1, <1>10, <2>1
    <3>2. PICK next \in Nat : next = idx + 1
      OBVIOUS
    <3>3. /\ running'[thread] = [next |-> next, end |-> end] /\ next < end
          /\ worker_mem'[thread] = MemoryAt(next)
      BY <1>12, <3>1, <3>2
    <3>4. running'[thread].next = next /\ running'[thread].end = end
      BY <3>3
    <3> QED  BY <1>3, <1>4, <3>3, <3>4
  <2> QED  BY <1>1, <1>2, <1>11, <2>1, ThreadStep
<1>14. \A c \in 0 .. setup.n_cosets - 1, jdx \in Offsets :
         /\ Written(c, jdx) => Written(c, jdx)'
         /\ Written(c, jdx)' \/ evaluation'[Slot(c, jdx)'] = evaluation[Slot(c, jdx)]
  BY <1>2, <1>6, <1>7, WrittenStays
<1>15. Written(current, idx)'
  BY <1>2, <1>6, <1>7, WrittenStays
<1>16. EvaluationRight'
  <2>1. ASSUME NEW c \in 0 .. setup.n_cosets - 1, NEW jdx \in Offsets
        PROVE  Written(c, jdx)' \/ evaluation'[Slot(c, jdx)'] = Uninitialized
    BY <1>14 DEF IInv, EvaluationRight
  <2> QED  BY <1>2, <2>1, SizesSame DEF EvaluationRight
<1>17. AllWritten'
  <2>1. ASSUME NEW jdx \in Offsets
        PROVE  /\ \A c \in 0 .. setup.n_cosets - 1 : c < current => Written(c, jdx)'
               /\ Written(current, jdx)' \/ Pending(jdx)'
    <3>1. /\ \A c \in 0 .. setup.n_cosets - 1 : c < current => Written(c, jdx)
          /\ Written(current, jdx) \/ Pending(jdx)
      BY <1>1 DEF IInv, AllWritten
    <3>2. Written(current, jdx) => Written(current, jdx)'
      <4>1. PICK c \in 0 .. setup.n_cosets - 1 : c = current /\ c = current'
        BY <1>2, <1>6
      <4>2. Written(c, jdx) => Written(c, jdx)'
        BY <1>14
      <4>3. Written(current, jdx)' <=> Written(c, jdx)'
        BY <4>1 DEF Written, Slot, OutputIndex, Point, CosetOffset, CosetOffsets, Times,
                    CompositionAt, Power
      <4> QED  BY <4>1, <4>2, <4>3
    <3>3. Pending(jdx) => Written(current, jdx)' \/ Pending(jdx)'
      <4>1. CASE jdx = idx
        BY <1>15, <4>1
      <4>2. CASE jdx # idx
        <5>1. CASE jdx \div setup.task_size \in todo
          BY <1>2, <5>1 DEF Pending
        <5>2. CASE \E other \in Threads : /\ running[other] # Nothing
                                          /\ running[other].next <= jdx
                                          /\ jdx < running[other].end
          <6>1. PICK other \in Threads : /\ running[other] # Nothing
                                         /\ running[other].next <= jdx
                                         /\ jdx < running[other].end
            BY <5>2
          <6>2. CASE other # thread
            <7>1. /\ running'[other] # Nothing /\ running'[other].next <= jdx
                  /\ jdx < running'[other].end
              BY <1>11, <6>1, <6>2
            <7> QED  BY <1>2, <7>1, SizesSame DEF Pending
          <6>3. CASE other = thread
            <7>1. jdx \in Nat /\ idx <= jdx /\ jdx < end
              BY <1>1, <1>4, <6>1, <6>3, OffsetFacts
            <7>2. ~last /\ idx + 1 <= jdx
              BY <1>5, <4>2, <7>1
            <7>3. PICK r : r = [next |-> idx + 1, end |-> end]
              OBVIOUS
            <7>4. running'[thread] = r /\ r \in [next : Nat, end : Nat] /\ r # Nothing
              BY <1>12, <7>2, <7>3, NothingAssumption
            <7>5. r.next <= jdx /\ jdx < r.end
              BY <7>1, <7>2, <7>3
            <7> QED  BY <1>2, <7>4, <7>5, SizesSame DEF Pending
          <6> QED  BY <6>2, <6>3
        <5> QED  BY <5>1, <5>2 DEF Pending
      <4> QED  BY <4>1, <4>2
    <3> QED  BY <1>14, <3>1, <3>2, <3>3
  <2>2. Offsets' = Offsets
    BY <1>2, SizesSame
  <2> QED  BY <1>1, <1>2, <2>1, <2>2 DEF AllWritten
<1>18. Shapes'
  <2>1. /\ DOMAIN running' = Threads /\ DOMAIN worker_mem' = Threads
        /\ DOMAIN evaluation' = 0 .. setup.n_cosets * TraceSize - 1
    BY <1>1, <1>7, <1>9, <1>10
  <2>2. /\ worker_mem'[thread].powers[1] \in Points
        /\ worker_mem'[thread].periodic \in 0 .. Period - 1
    <3>1. worker_mem'[thread].periodic = NextPeriodic(idx % Period)
      BY <1>1, <1>8, <1>9 DEF MemoryAt
    <3>2. idx % Period \in Nat
      <4>1. PICK p \in Nat \ {0} : p = Period
        BY <1>1, SizeFacts DEF Sizes
      <4> QED  BY <4>1
    <3>3. worker_mem'[thread].powers[1] \in Points
      <4>1. CASE last
        <5>1. worker_mem'[thread].powers = PointPowers(Point(current, idx))
          BY <1>1, <1>8, <1>9, <4>1 DEF MemoryAt
        <5> QED  BY <1>1, <1>6, <5>1, PointInDomain DEF PointPowers
      <4>2. CASE ~last
        <5>1. worker_mem'[thread].powers = PointPowers(Point(current, idx + 1))
              /\ idx + 1 \in Offsets
          BY <1>12, <4>2 DEF MemoryAt
        <5> QED  BY <1>1, <1>6, <5>1, PointInDomain DEF PointPowers
      <4> QED  BY <4>1, <4>2
    <3> QED  BY <1>1, <3>1, <3>2, <3>3, NextInPeriod
  <2>3. \A other \in Threads : worker_mem'[other] # Uninitialized =>
          /\ worker_mem'[other].powers[1] \in Points
          /\ worker_mem'[other].periodic \in 0 .. Period - 1
    BY <1>11, <2>2 DEF IInv, Shapes
  <2> QED  BY <1>2, <2>1, <2>3, ShapesStep DEF IInv, Shapes
<1>19. CommitRight' /\ QueriesRight'
  BY <1>1, <1>2, CommitStays, QueriesStay DEF IInv
<1> QED  BY <1>13, <1>16, <1>17, <1>18, <1>19 DEF IInv

-----------------------------------------------------------------------------
(* The invariant holds through the queries. *)

LEMMA DecommitRight ==
  ASSUME IInv, DecommitQueries
  PROVE  IInv'
<1>1. setup \in Setups /\ stage = "evaluated" /\ setup.n_cosets = NumCosets
  BY DEF IInv, Shapes, DecommitQueries
<1>2. UNCHANGED <<setup, lde_manager, cache, segments, pc, current, todo, running,
                  worker_mem, evaluation, oracle_evaluations>>
  BY DEF DecommitQueries
<1>3. PICK indices \in IndexChoices :
        queries' = FriQueriesToEvaluationDomainQueries(InOrder(indices))
  BY DEF DecommitQueries
<1>4. indices \in SUBSET (0 .. DomainSize - 1) /\ IsFiniteSet(indices)
  <2>1. PICK n \in 1 .. MaxQueries : indices \in kSubset(n, 0 .. DomainSize - 1)
    BY DEF IndexChoices
  <2>2. indices \in SUBSET (0 .. DomainSize - 1)
    BY <2>1 DEF kSubset
  <2>3. IsFiniteSet(0 .. DomainSize - 1)
    <3>1. PICK d \in Int : d = DomainSize - 1
      <4>1. PICK e \in Nat \ {0} : e = DomainSize
        BY <1>1, SizeFacts DEF Sizes
      <4> QED  BY <4>1
    <3>2. IsFiniteSet(0 .. d)
      BY FS_Interval
    <3> QED  BY <3>1, <3>2
  <2> QED  BY <2>2, <2>3, FS_Subset
<1>5. PICK qs : qs = queries' /\ qs \in Seq(Cosets \X Offsets)
  BY <1>1, <1>3, <1>4, FriQueriesFacts
<1>6. \A t \in Traces, query \in ToSet(qs) : HasEntry(t, query[1])
  <2>1. ASSUME NEW query \in ToSet(qs)
        PROVE  query[1] \in Cosets
    <3>1. PICK i \in DOMAIN qs : query = qs[i]
      BY DEF ToSet
    <3>2. qs[i] \in Cosets \X Offsets
      BY <1>5
    <3> QED  BY <3>1, <3>2
  <2> QED  BY <1>1, <2>1, AllCached
<1>7. /\ stage' = "opened"
      /\ opened' = [t \in Traces |->
           [cell \in DataQueries(t, qs) |-> EvalAtPoint(t, cell[1], cell[2])]]
  BY <1>5, <1>6 DEF DecommitQueries
<1>8. OpenedRight'
  <2>1. ASSUME NEW t \in Traces
        PROVE  /\ DOMAIN opened'[t] = DataQueries(t, queries)'
               /\ \A cell \in DataQueries(t, queries)' :
                    opened'[t][cell] =
                      (Rows(t, cell[1] \div TraceSize)[cell[2]][cell[1] % TraceSize])'
    <3>1. DataQueries(t, queries)' = DataQueries(t, qs)
      BY <1>2, <1>5, DataQueriesNext
    <3>2. ASSUME NEW cell \in DataQueries(t, qs)
          PROVE  opened'[t][cell] =
                   (Rows(t, cell[1] \div TraceSize)[cell[2]][cell[1] % TraceSize])'
      <4>1. CellIn(t, cell)
        BY <1>1, <1>5, CellsIn
      <4>2. \A c \in Cosets : cache[t][c] = Entry(t, c)
        BY <1>1, AllCached
      <4>3. EvalAtPoint(t, cell[1], cell[2])
              = Rows(t, cell[1] \div TraceSize)[cell[2]][cell[1] % TraceSize]
        BY <1>1, <4>1, <4>2, OpenedValue
      <4>4. PICK c : c = cell[1] \div TraceSize /\ c = cell[1] \div TraceSize'
        BY <1>2, SizesSame
      <4>5. Rows(t, c)' = Rows(t, c)
        BY <1>2, EntriesSame
      <4>6. Rows(t, cell[1] \div TraceSize)' = Rows(t, c)'
        BY <4>4 DEF Rows, Entry, CosetOffset, CosetOffsets
      <4>7. cell[1] % TraceSize' = cell[1] % TraceSize
        BY <1>2, SizesSame
      <4> QED  BY <1>7, <4>3, <4>4, <4>5, <4>6, <4>7
    <3> QED  BY <1>7, <3>1, <3>2
  <2>2. Traces' = Traces
    BY <1>2, SizesSame
  <2> QED  BY <2>1, <2>2 DEF OpenedRight
<1>9. QueriesRight'
  <2>1. Cosets' = Cosets /\ Offsets' = Offsets /\ NumCosets' = NumCosets
    BY <1>2, SizesSame
  <2> QED  BY <1>1, <1>2, <1>5, <1>7, <1>8, <2>1 DEF QueriesRight
<1>10. AllWritten'
  <2>1. \A c \in 0 .. setup.n_cosets - 1, idx \in Offsets : Written(c, idx)'
    BY <1>1, <1>2, WrittenSame DEF IInv, AllWritten
  <2> QED  BY <1>2, <1>7, <2>1, SizesSame DEF AllWritten
<1>11. CommitRight' /\ EvaluationRight'
  BY <1>1, <1>2, <1>7, CommitStays, EvaluationStays DEF IInv
<1>12. TasksRight'
  <2>1. \A thread \in Threads : running'[thread] = Nothing
    BY <1>1, <1>2 DEF IInv, TasksRight, TaskRight
  <2> QED  BY <1>2, <1>7, <2>1, NoTasks
<1>13. Shapes'
  BY <1>2, <1>7, ShapesStep DEF IInv, Shapes
<1> QED  BY <1>9, <1>10, <1>11, <1>12, <1>13 DEF IInv

\* A query's point and the composition there.
LEMMA QueryPointSame ==
  ASSUME setup' = setup, queries' = queries, NEW i
  PROVE  CompositionAt(Point(queries[i][1], OutputIndex(queries[i][2])))'
           = CompositionAt(Point(queries[i][1], OutputIndex(queries[i][2])))
<1>1. PICK c, o : c = queries[i][1] /\ o = queries[i][2]
  OBVIOUS
<1>2. PICK r : r = OutputIndex(o) /\ r = OutputIndex(o)'
  BY SlotsSame
<1>3. PICK p : p = Point(c, r) /\ p = Point(c, r)'
  BY TimesSame
<1>4. CompositionAt(p)' = CompositionAt(p)
  BY CompositionSame
<1>5. Point(queries[i][1], OutputIndex(queries[i][2]))' = p
  BY <1>1, <1>2, <1>3 DEF Point, CosetOffset, CosetOffsets, Times, OutputIndex
<1>6. CompositionAt(Point(queries[i][1], OutputIndex(queries[i][2])))' = CompositionAt(p)'
  BY <1>5 DEF CompositionAt, Power, Times
<1>7. Point(queries[i][1], OutputIndex(queries[i][2])) = p
  BY <1>1, <1>2, <1>3
<1> QED  BY <1>4, <1>6, <1>7

LEMMA VerifyRight ==
  ASSUME IInv, VerifyDecommitment
  PROVE  IInv'
<1>1. /\ setup \in Setups /\ stage = "opened" /\ setup.n_cosets = NumCosets
      /\ queries \in Seq(Cosets \X Offsets) /\ OpenedRight
  BY DEF IInv, Shapes, QueriesRight, VerifyDecommitment
<1>2. UNCHANGED <<setup, lde_manager, cache, segments, pc, current, todo, running,
                  worker_mem, evaluation, queries, opened>>
  BY DEF VerifyDecommitment
<1>3. ASSUME NEW t \in Traces
      PROVE  Agrees(t)
  <2>1. ASSUME NEW cell \in DataQueries(t, queries)
        PROVE  opened[t][cell] = CommittedCell(t, cell)
    <3>1. CellIn(t, cell)
      BY <1>1, CellsIn
    <3>2. PICK c \in Cosets : c = cell[1] \div TraceSize
      BY <3>1 DEF CellIn
    <3>3. segments[t][c] = Rows(t, c)
      BY <1>1 DEF IInv, CommitRight, Committed
    <3>4. opened[t][cell] = Rows(t, c)[cell[2]][cell[1] % TraceSize]
      BY <1>1, <3>2 DEF OpenedRight
    <3> QED  BY <3>2, <3>3, <3>4 DEF CommittedCell
  <2>2. DOMAIN opened[t] = DataQueries(t, queries)
    BY <1>1 DEF OpenedRight
  <2> QED  BY <2>1, <2>2 DEF Agrees
<1>4. /\ stage' = "verified"
      /\ oracle_evaluations' = [i \in DOMAIN queries |-> EvalAtQuery(i)]
  BY <1>3 DEF VerifyDecommitment
<1>5. ASSUME NEW i \in DOMAIN queries
      PROVE  oracle_evaluations'[i] =
               CompositionAt(Point(queries[i][1], OutputIndex(queries[i][2])))'
  <2>1. i \in 1 .. Len(queries)
    BY <1>1
  <2>2. oracle_evaluations'[i] = CompositionAt(QueryPoint(i))
    BY <1>1, <1>4, <2>1, QueryEvaluated
  <2>3. QueryPoint(i) = Point(queries[i][1], OutputIndex(queries[i][2]))
    BY DEF QueryPoint, Reversed, OutputIndex
  <2> QED  BY <1>2, <2>2, <2>3, QueryPointSame
<1>6. QueriesRight'
  <2>1. Cosets' = Cosets /\ Offsets' = Offsets /\ NumCosets' = NumCosets
    BY <1>2, SizesSame
  <2>2. queries' = queries /\ setup' = setup
    BY <1>2
  <2> QED  BY <1>1, <1>4, <1>5, <2>1, <2>2 DEF QueriesRight
<1>7. AllWritten'
  <2>1. \A c \in 0 .. setup.n_cosets - 1, idx \in Offsets : Written(c, idx)'
    BY <1>1, <1>2, WrittenSame DEF IInv, AllWritten
  <2> QED  BY <1>2, <1>4, <2>1, SizesSame DEF AllWritten
<1>8. CommitRight' /\ EvaluationRight'
  BY <1>1, <1>2, <1>4, CommitStays, EvaluationStays DEF IInv
<1>9. TasksRight'
  <2>1. \A thread \in Threads : running'[thread] = Nothing
    BY <1>1, <1>2 DEF IInv, TasksRight, TaskRight
  <2> QED  BY <1>2, <1>4, <2>1, NoTasks
<1>10. Shapes'
  BY <1>2, <1>4, ShapesStep DEF IInv, Shapes
<1> QED  BY <1>6, <1>7, <1>8, <1>9, <1>10 DEF IInv

LEMMA UnchangedRight ==
  ASSUME IInv, UNCHANGED vars
  PROVE  IInv'
<1>1. UNCHANGED <<setup, lde_manager, cache, segments, pc, current, todo, running, worker_mem,
                  evaluation, queries, opened, oracle_evaluations, stage>>
  BY DEF vars
<1>2. setup \in Setups
  BY DEF IInv, Shapes
<1>3. Shapes' /\ TasksRight' /\ EvaluationRight'
  <2>1. Shapes'
    BY <1>1, ShapesStep DEF IInv, Shapes
  <2> QED  BY <1>1, <2>1, TasksStay, EvaluationStays DEF IInv
<1>4. CommitRight'
  <2>1. ASSUME NEW t \in Traces, NEW c \in Cosets
        PROVE  /\ Committed(t, c) => Committed(t, c)'
               /\ CommitAt(t, c) => CommitAt(t, c)'
               /\ NotYet(t, c) => NotYet(t, c)'
    <3>1. Committed(t, c) => Committed(t, c)'
      BY <1>1, CommittedSame
    <3>2. CommitAt(t, c) => CommitAt(t, c)'
      BY <1>1, EntriesSame DEF CommitAt
    <3>3. NotYet(t, c) => NotYet(t, c)'
      BY <1>1 DEF NotYet
    <3> QED  BY <3>1, <3>2, <3>3
  <2>2. Traces' = Traces /\ Cosets' = Cosets
    BY <1>1, SizesSame
  <2> QED  BY <1>1, <2>1, <2>2 DEF IInv, CommitRight
<1>5. AllWritten'
  <2>1. \A c, idx : Written(c, idx)' <=> Written(c, idx)
    BY <1>1, WrittenSame
  <2>2. \A idx : Pending(idx)' <=> Pending(idx)
    BY <1>1, PendingSame
  <2>3. ASSUME NEW idx
        PROVE  Written(current, idx)' <=> Written(current, idx)
    <3>1. PICK c : c = current /\ c = current'
      BY <1>1
    <3>2. Written(current, idx)' <=> Written(c, idx)'
      BY <3>1 DEF Written, Slot, OutputIndex, Point, CosetOffset, CosetOffsets, Times,
                  CompositionAt, Power
    <3> QED  BY <2>1, <3>1, <3>2
  <2>4. Offsets' = Offsets
    BY <1>1, SizesSame
  <2>5. stage = "evaluating" => \A idx \in Offsets :
          /\ \A c \in 0 .. setup.n_cosets - 1 : c < current => Written(c, idx)'
          /\ Written(current, idx)' \/ Pending(idx)'
    BY <2>1, <2>2, <2>3 DEF IInv, AllWritten
  <2>6. stage \in {"evaluated", "opened", "verified"} =>
          \A c \in 0 .. setup.n_cosets - 1, idx \in Offsets : Written(c, idx)'
    BY <2>1 DEF IInv, AllWritten
  <2> QED  BY <1>1, <2>4, <2>5, <2>6 DEF AllWritten
<1>6. QueriesRight'
  <2>1. OpenedRight => OpenedRight'
    <3>1. ASSUME NEW t
          PROVE  DataQueries(t, queries)' = DataQueries(t, queries)
      BY <1>1, DataQueriesNext
    <3>2. ASSUME NEW t, NEW cell
          PROVE  (Rows(t, cell[1] \div TraceSize)[cell[2]][cell[1] % TraceSize])'
                   = Rows(t, cell[1] \div TraceSize)[cell[2]][cell[1] % TraceSize]
      <4>1. PICK c : c = cell[1] \div TraceSize /\ c = cell[1] \div TraceSize'
        BY <1>1, SizesSame
      <4>2. Rows(t, c)' = Rows(t, c)
        BY <1>1, EntriesSame
      <4>3. Rows(t, cell[1] \div TraceSize)' = Rows(t, c)'
        BY <4>1 DEF Rows, Entry, CosetOffset, CosetOffsets
      <4>4. cell[1] % TraceSize' = cell[1] % TraceSize
        BY <1>1, SizesSame
      <4> QED  BY <4>1, <4>2, <4>3, <4>4
    <3>3. ASSUME OpenedRight, NEW t \in Traces
          PROVE  /\ DOMAIN opened'[t] = DataQueries(t, queries)'
                 /\ \A cell \in DataQueries(t, queries)' :
                      opened'[t][cell] =
                        (Rows(t, cell[1] \div TraceSize)[cell[2]][cell[1] % TraceSize])'
      <4>1. /\ DOMAIN opened[t] = DataQueries(t, queries)
            /\ \A cell \in DataQueries(t, queries) :
                 opened[t][cell] =
                   Rows(t, cell[1] \div TraceSize)[cell[2]][cell[1] % TraceSize]
        BY <3>3 DEF OpenedRight
      <4>2. DataQueries(t, queries)' = DataQueries(t, queries) /\ opened' = opened
        BY <1>1, <3>1
      <4> QED  BY <3>2, <4>1, <4>2
    <3>4. Traces' = Traces
      BY <1>1, SizesSame
    <3> QED  BY <3>3, <3>4 DEF OpenedRight
  <2>2. ASSUME NEW i
        PROVE  CompositionAt(Point(queries[i][1], OutputIndex(queries[i][2])))'
                 = CompositionAt(Point(queries[i][1], OutputIndex(queries[i][2])))
    BY <1>1, QueryPointSame
  <2>3. Cosets' = Cosets /\ Offsets' = Offsets /\ NumCosets' = NumCosets
    BY <1>1, SizesSame
  <2> QED  BY <1>1, <2>1, <2>2, <2>3 DEF IInv, QueriesRight
<1> QED  BY <1>3, <1>4, <1>5, <1>6 DEF IInv

-----------------------------------------------------------------------------
(* Every reachable state satisfies the invariant, and with it the properties. *)

LEMMA StepRight == IInv /\ [Next]_vars => IInv'
<1> SUFFICES ASSUME IInv, [Next]_vars  PROVE IInv'
  OBVIOUS
<1>0. DOMAIN running = Threads
  BY DEF IInv, Shapes
<1>1. ASSUME NEW task \in Cosets, LookUp(task)  PROVE IInv'
  BY <1>1, LookUpRight
<1>2. ASSUME NEW task \in Cosets, Evaluate(task)  PROVE IInv'
  BY <1>2, EvaluateRight
<1>3. ASSUME NEW task \in Cosets, AddSegment(task)  PROVE IInv'
  BY <1>3, AddSegmentRight
<1>4. CASE Commit
  BY <1>4, CommitEndRight
<1>5. CASE FinalizeEval
  BY <1>5, FinalizeRight
<1>6. CASE EvalComposition
  BY <1>6, EvalCompositionRight
<1>7. ASSUME NEW thread \in Threads, StartTask(thread)  PROVE IInv'
  BY <1>7, StartTaskRight
<1>8. ASSUME NEW thread \in Threads, EvalPoint(thread)  PROVE IInv'
  BY <1>8, EvalPointRight
<1>9. CASE EndCoset
  BY <1>9, EndCosetRight
<1>10. CASE DecommitQueries
  BY <1>10, DecommitRight
<1>11. CASE VerifyDecommitment
  BY <1>11, VerifyRight
<1>12. CASE UNCHANGED vars
  BY <1>12, UnchangedRight
<1> QED  BY <1>0, <1>1, <1>2, <1>3, <1>4, <1>5, <1>6, <1>7, <1>8, <1>9, <1>10, <1>11, <1>12
         DEF Next

\* The invariant that the properties follow from: where each task of Commit and of
\* EvalComposition is, what it has written, and what the memory of its thread holds.
THEOREM OracleInvariant == Spec => []IInv
<1>1. Init => IInv
  BY InitRight
<1>2. IInv /\ [Next]_vars => IInv'
  BY StepRight
<1> QED  BY <1>1, <1>2, PTL DEF Spec

LEMMA TypeFollows == IInv => TypeOK
<1> SUFFICES ASSUME IInv  PROVE TypeOK
  OBVIOUS
<1>1. /\ setup \in Setups /\ lde_manager \in [Traces -> BOOLEAN]
      /\ pc \in [Cosets -> {"start", "allocated", "evaluated", "added"}]
      /\ todo \subseteq Tasks /\ DOMAIN running = Threads /\ DOMAIN worker_mem = Threads
      /\ stage \in {"commit", "committed", "evaluating", "evaluated", "opened", "verified"}
  BY DEF IInv, Shapes
<1>2. ASSUME NEW t \in Traces, NEW c \in Cosets, NEW entry \in {cache[t][c], segments[t][c]},
             entry # Nothing
      PROVE  entry \in [Columns(t) ->
                          [Offsets -> ({t} \X Columns(t) \X Points) \cup {Uninitialized}]]
  <2>1. \/ entry = AllocatedEntry(t) \/ entry = Entry(t, c) \/ entry = Rows(t, c)
    <3>1. CASE stage = "commit"
      <4>1. t \in Int /\ current \in Int
        BY <1>1, <3>1, WidthFacts DEF TwoWidths, IInv, CommitRight
      <4>2. Committed(t, c) \/ CommitAt(t, c) \/ NotYet(t, c)
        BY <3>1, <4>1 DEF IInv, CommitRight
      <4> QED  BY <1>2, <4>2 DEF Committed, CommitAt, NotYet
    <3>2. CASE stage # "commit"
      BY <1>2, <3>2 DEF IInv, CommitRight, Committed
    <3> QED  BY <3>1, <3>2
  <2>2. entry \in EntryType(t)
    BY <1>1, <2>1, EntryTyped
  <2> QED  BY <2>2 DEF EntryType
<1>3. ASSUME NEW thread \in Threads, running[thread] # Nothing
      PROVE  /\ running[thread].next \in 0 .. running[thread].end - 1
             /\ running[thread].end <= TraceSize
  <2>1. TaskRight(thread)
    BY <1>3 DEF IInv, TasksRight
  <2>2. PICK next \in Nat, end \in Nat : next = running[thread].next /\ end = running[thread].end
    BY <2>1 DEF TaskRight
  <2>3. next < end /\ running[thread].end <= TraceSize
    BY <2>1, <2>2 DEF TaskRight
  <2>4. next \in 0 .. end - 1
    BY <2>3
  <2> QED  BY <2>2, <2>3, <2>4
<1>4. \A thread \in Threads : worker_mem[thread] # Uninitialized =>
        /\ worker_mem[thread].powers[1] \in Points
        /\ worker_mem[thread].periodic \in 0 .. Period - 1
  BY DEF IInv, Shapes
<1>5. queries \in Seq(Cosets \X Offsets)
  BY DEF IInv, QueriesRight
<1> QED  BY <1>1, <1>2, <1>3, <1>4, <1>5 DEF TypeOK

\* Cache entries and table rows hold columns' values or what is not yet initialized,
\* tasks stay in their range of points, and no failure is reached.
THEOREM TypeCorrect == Spec => []TypeOK
BY OracleInvariant, TypeFollows, PTL

LEMMA CommittedFollows == IInv => CommittedInDomainOrder
<1> SUFFICES ASSUME IInv, NEW t \in Traces, NEW c \in Cosets, segments[t][c] # Nothing,
                    NEW column \in Columns(t), NEW offset \in Offsets
             PROVE  segments[t][c][column][offset] =
                      ColumnAt(t, column,
                               BitReversedPoint(c * TraceSize + offset, setup.log_n_cosets))
  BY DEF CommittedInDomainOrder
<1>1. setup \in Setups
  BY DEF IInv, Shapes
<1>2. segments[t][c] = Rows(t, c)
  <2>1. CASE stage = "commit"
    <3>1. t \in Int /\ current \in Int
      BY <1>1, <2>1, WidthFacts DEF TwoWidths, IInv, CommitRight
    <3>2. Committed(t, c) \/ CommitAt(t, c) \/ NotYet(t, c)
      BY <2>1, <3>1 DEF IInv, CommitRight
    <3> QED  BY <3>2 DEF Committed, CommitAt, NotYet
  <2>2. CASE stage # "commit"
    BY <2>2 DEF IInv, CommitRight, Committed
  <2> QED  BY <2>1, <2>2
<1>3. Rows(t, c)[column][offset] = ColumnAt(t, column, Point(c, Reversed(offset)))
  BY <1>1, RowsFacts
<1>4. BitReversedPoint(c * TraceSize + offset, setup.log_n_cosets) = Point(c, Reversed(offset))
  <2>1. PICK h \in Nat : h = setup.log_n_cosets
    BY <1>1, SetupTyped
  <2>2. h \in 0 .. setup.log_n_cosets /\ c \in 0 .. Pow2[h] - 1
    BY <2>1 DEF Cosets, NumCosets
  <2>3. BitReversedPoint(c * TraceSize + offset, h) = Point(c, Reversed(offset))
    BY <1>1, <2>2, DomainOrder
  <2> QED  BY <2>1, <2>3
<1> QED  BY <1>2, <1>3, <1>4

\* Whatever the interleaving of Commit's tasks, row k of a trace's table holds the values
\* of all its columns at the k-th element of FRI's domain.
THEOREM CommittedInOrder == Spec => []CommittedInDomainOrder
BY OracleInvariant, CommittedFollows, PTL

LEMMA CompositionFollows == IInv => CompositionInDomainOrder
<1> SUFFICES ASSUME IInv  PROVE CompositionInDomainOrder
  OBVIOUS
<1>1. setup \in Setups /\ DOMAIN evaluation = 0 .. setup.n_cosets * TraceSize - 1
  BY DEF IInv, Shapes
<1>2. PICK h \in 0 .. setup.log_n_cosets :
        /\ setup.n_cosets = Pow2[h]
        /\ h = CHOOSE g \in 0 .. setup.log_n_cosets : setup.n_cosets = Pow2[g]
  <2>1. \E g \in 0 .. setup.log_n_cosets : setup.n_cosets = Pow2[g]
    BY <1>1, SetupTyped
  <2> QED  BY <2>1
<1>3. ASSUME NEW k \in DOMAIN evaluation, evaluation[k] # Uninitialized
      PROVE  evaluation[k] = CompositionAt(BitReversedPoint(k, h))
  <2>1. PICK c \in 0 .. setup.n_cosets - 1, idx \in Offsets :
          Slot(c, idx) = k /\ k = c * TraceSize + Reversed(idx)
    BY <1>1, SlotAt
  <2>2. Written(c, idx)
    BY <1>3, <2>1 DEF IInv, EvaluationRight
  <2>3. PICK j \in Offsets : j = Reversed(idx) /\ Reversed(j) = idx
    BY <1>1, OffsetReversed DEF Reversed
  <2>4. c \in 0 .. Pow2[h] - 1
    BY <1>2
  <2>5. BitReversedPoint(c * TraceSize + j, h) = Point(c, Reversed(j))
    BY <1>1, <2>4, DomainOrder
  <2>6. BitReversedPoint(k, h) = Point(c, idx)
    BY <2>1, <2>3, <2>5
  <2> QED  BY <2>1, <2>2, <2>6 DEF Written
<1> QED  BY <1>2, <1>3 DEF CompositionInDomainOrder

\* Every element that the threads' tasks have written is the composition polynomial at
\* its point of the domain, however the tasks interleave and whatever their size.
THEOREM CompositionInOrder == Spec => []CompositionInDomainOrder
BY OracleInvariant, CompositionFollows, PTL

LEMMA AgreementFollows == IInv => ProverAndVerifierAgree
<1> SUFFICES ASSUME IInv  PROVE ProverAndVerifierAgree
  OBVIOUS
<1>1. setup \in Setups
  BY DEF IInv, Shapes
<1>2. stage \notin {"failed", "rejected"}
  BY DEF IInv, Shapes
<1>3. ASSUME stage = "verified", NEW i \in DOMAIN queries
      PROVE  oracle_evaluations[i] = evaluation[queries[i][1] * TraceSize + queries[i][2]]
  <2>1. /\ setup.n_cosets = NumCosets /\ queries \in Seq(Cosets \X Offsets)
        /\ oracle_evaluations[i] =
             CompositionAt(Point(queries[i][1], OutputIndex(queries[i][2])))
    BY <1>3 DEF IInv, QueriesRight
  <2>2. PICK c \in Cosets, o \in Offsets : queries[i] = <<c, o>>
    <3>1. queries[i] \in Cosets \X Offsets
      BY <1>3, <2>1
    <3> QED  BY <3>1
  <2>3. PICK idx \in Offsets : idx = Reversed(o) /\ idx = OutputIndex(o) /\ Reversed(idx) = o
    BY <1>1, OffsetReversed DEF Reversed, OutputIndex
  <2>4. c \in 0 .. setup.n_cosets - 1
    BY <2>1 DEF Cosets
  <2>5. Written(c, idx)
    BY <1>3, <2>4 DEF IInv, AllWritten
  <2>6. Slot(c, idx) = c * TraceSize + o
    BY <2>3 DEF Slot, OutputIndex, Reversed
  <2> QED  BY <2>1, <2>2, <2>3, <2>5, <2>6 DEF Written
<1>4. MaskValuesInOrder
  BY <1>1, MaskValues
<1> QED  BY <1>2, <1>3, <1>4 DEF ProverAndVerifierAgree

\* The prover never needs what it can no longer evaluate, no honest opening is refused,
\* and at every query the verifier computes what the prover has folded there.
THEOREM Agreement == Spec => []ProverAndVerifierAgree
BY OracleInvariant, AgreementFollows, PTL
=============================================================================
