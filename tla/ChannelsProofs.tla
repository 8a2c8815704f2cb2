--------------------------- MODULE ChannelsProofs ---------------------------
(***************************************************************************)
(* Proofs about the two channels, for every digest size, every messages    *)
(* and sizes, any number of calls: the random values depend on everything  *)
(* sent before, and on a proof that arrives as it was written the verifier *)
(* repeats the prover call by call.  And about one generator, for every    *)
(* sequence of requests: no byte is handed out twice.                      *)
(***************************************************************************)
EXTENDS Channels, Prng, ProofOfWork, Elementary, FiniteSetTheorems

-----------------------------------------------------------------------------
(* The hash chain.                                                         *)

\* The bytes are of the stream of this hash.
Of(bytes, hash) == IsSeq(bytes) /\ \A b \in 1 .. Len(bytes) : bytes[b].hash = hash

GoodPrng(chain) ==
  /\ chain = [hash |-> chain.hash, counter |-> chain.counter, spare |-> chain.spare]
  /\ IsSeq(chain.hash)
  /\ chain.counter \in Nat
  /\ Of(chain.spare, chain.hash)
  /\ Len(chain.spare) < kDigestNumBytes

\* What a request of random bytes returns: bytes of the chain's hash.
Drawn(chain, drawn) ==
  /\ Of(drawn.bytes, chain.hash)
  /\ GoodPrng(drawn.chain)
  /\ drawn.chain.hash = chain.hash

LEMMA DigestBytesOf ==
  ASSUME NEW hash, NEW c \in Nat, NEW first \in Nat, NEW last \in Int, first <= last + 1,
         NEW s, s = DigestBytes(hash, c, first, last)
  PROVE  Of(s, hash) /\ Len(s) = last - first + 1
<1> DEFINE n == last - first + 1
           place(i) == c * kDigestNumBytes + first + i - 1
<1>1. n \in Nat
  OBVIOUS
<1>2. s = [i \in 1 .. n |-> StreamByte(hash, place(i))]
  BY DEF DigestBytes
<1> HIDE DEF n, place
<1>3. DOMAIN s = 1 .. n /\ s = [i \in 1 .. n |-> s[i]]
  BY <1>2
<1>4. IsSeq(s) /\ Len(s) = n
  BY <1>1, <1>3, ListedIsSeq
<1>5. \A i \in 1 .. n : s[i].hash = hash
  BY <1>2 DEF StreamByte
<1> QED  BY <1>4, <1>5 DEF Of, n

LEMMA ConcatOf ==
  ASSUME NEW s, NEW t, NEW hash, Of(s, hash), Of(t, hash)
  PROVE  Of(s \o t, hash) /\ Len(s \o t) = Len(s) + Len(t)
<1> DEFINE u == s \o t
<1>1. /\ IsSeq(u) /\ Len(u) = Len(s) + Len(t)
      /\ \A i \in 1 .. Len(s) : u[i] = s[i]
      /\ \A i \in 1 .. Len(t) : u[Len(s) + i] = t[i]
  <2>1. IsSeq(s) /\ IsSeq(t)
    BY DEF Of
  <2>2. IsConcat(u, s, t)
    BY <2>1, ConcatFacts
  <2> HIDE DEF u
  <2> QED  BY <2>2 DEF IsConcat
<1>2. Len(s) \in Nat /\ Len(t) \in Nat
  BY DEF Of, IsSeq
<1> HIDE DEF u
<1>3. ASSUME NEW b \in 1 .. Len(u)
      PROVE  u[b].hash = hash
  <2>1. CASE b <= Len(s)
    <3>1. b \in 1 .. Len(s)
      BY <2>1, <1>2
    <3> QED  BY <3>1, <1>1 DEF Of
  <2>2. CASE b > Len(s)
    <3>1. b - Len(s) \in 1 .. Len(t) /\ Len(s) + (b - Len(s)) = b
      BY <2>2, <1>1, <1>2
    <3>2. u[b] = t[b - Len(s)]
      BY <3>1, <1>1
    <3> QED  BY <3>1, <3>2 DEF Of
  <2> QED  BY <2>1, <2>2, <1>1, <1>2
<1> QED  BY <1>1, <1>3 DEF Of, u

LEMMA FewerThanDigest ==
  ASSUME NEW n \in Nat
  PROVE  n % kDigestNumBytes \in 0 .. kDigestNumBytes - 1 /\ n \div kDigestNumBytes \in Nat
BY DigestAssumption

LEMMA TailDrawn ==
  ASSUME NEW chain, GoodPrng(chain), NEW n \in 0 .. kDigestNumBytes - 1
  PROVE  /\ SpareSuffices(chain, n) => Drawn(chain, TailFromSpare(chain, n))
         /\ ~SpareSuffices(chain, n) => Drawn(chain, TailFromDigest(chain, n))
<1> DEFINE spare == chain.spare
           hash == chain.hash
           c == chain.counter
<1>0. kDigestNumBytes \in Nat \ {0}
  BY DigestAssumption
<1>1. /\ chain = [hash |-> hash, counter |-> c, spare |-> spare]
      /\ IsSeq(hash) /\ c \in Nat /\ Of(spare, hash) /\ IsSeq(spare)
      /\ Len(spare) \in Nat /\ Len(spare) < kDigestNumBytes
  BY DEF GoodPrng, Of, IsSeq
<1> HIDE DEF spare, hash, c
<1>2. ASSUME SpareSuffices(chain, n)
      PROVE  Drawn(chain, TailFromSpare(chain, n))
  <2> DEFINE front == SubSeq(spare, 1, n)
             back == SubSeq(spare, n + 1, Len(spare))
  <2>1. n <= Len(spare) /\ n \in Nat
    BY <1>2 DEF SpareSuffices, spare
  <2>2. TailFromSpare(chain, n) =
          [bytes |-> front, chain |-> [hash |-> hash, counter |-> c, spare |-> back]]
    <3>1. TailFromSpare(chain, n) = [bytes |-> front, chain |-> [chain EXCEPT !.spare = back]]
      BY DEF TailFromSpare, spare
    <3> HIDE DEF front, back
    <3>2. [chain EXCEPT !.spare = back] = [hash |-> hash, counter |-> c, spare |-> back]
      BY <1>1
    <3> QED  BY <3>1, <3>2
  <2>3. /\ IsSeq(front) /\ Len(front) = n
        /\ \A i \in 1 .. Len(front) : front[i] = spare[1 + i - 1]
    <3>1. 1 \in 1 .. Len(spare) + 1 /\ n \in 0 .. Len(spare) /\ 1 <= n + 1 /\ n - 1 + 1 = n
      BY <2>1, <1>1
    <3> HIDE DEF front
    <3>2. /\ IsSeq(front) /\ Len(front) = n - 1 + 1
          /\ \A i \in 1 .. Len(front) : front[i] = spare[1 + i - 1]
      <4>1. IsPart(SubSeq(spare, 1, n), spare, 1, n)
        BY <1>1, <3>1, SubSeqFacts
      <4> QED  BY <4>1 DEF IsPart, front
    <3> QED  BY <3>1, <3>2
  <2>4. /\ IsSeq(back) /\ Len(back) = Len(spare) - n
        /\ \A i \in 1 .. Len(back) : back[i] = spare[n + 1 + i - 1]
    <3>1. /\ n + 1 \in 1 .. Len(spare) + 1 /\ Len(spare) \in 0 .. Len(spare)
          /\ n + 1 <= Len(spare) + 1 /\ Len(spare) - (n + 1) + 1 = Len(spare) - n
      BY <2>1, <1>1
    <3> HIDE DEF back
    <3>2. /\ IsSeq(back) /\ Len(back) = Len(spare) - (n + 1) + 1
          /\ \A i \in 1 .. Len(back) : back[i] = spare[n + 1 + i - 1]
      <4>1. IsPart(SubSeq(spare, n + 1, Len(spare)), spare, n + 1, Len(spare))
        BY <1>1, <3>1, SubSeqFacts
      <4> QED  BY <4>1 DEF IsPart, back
    <3> QED  BY <3>1, <3>2
  <2> HIDE DEF front, back
  <2>5. Of(front, hash)
    <3>1. \A i \in 1 .. Len(front) : 1 + i - 1 \in 1 .. Len(spare)
      BY <2>1, <2>3, <1>1
    <3> QED  BY <3>1, <2>3, <1>1 DEF Of
  <2>6. Of(back, hash)
    <3>1. \A i \in 1 .. Len(back) : n + 1 + i - 1 \in 1 .. Len(spare)
      BY <2>1, <2>4, <1>1
    <3> QED  BY <3>1, <2>4, <1>1 DEF Of
  <2>7. Len(back) < kDigestNumBytes
    BY <2>1, <2>4, <1>1, <1>0
  <2> QED  BY <2>2, <2>5, <2>6, <2>7, <1>1 DEF Drawn, GoodPrng, hash
<1>3. ASSUME ~SpareSuffices(chain, n)
      PROVE  Drawn(chain, TailFromDigest(chain, n))
  <2> DEFINE taken == DigestBytes(hash, c, 0, n - 1)
             left == DigestBytes(hash, c, n, kDigestNumBytes - 1)
             joined == spare \o left
  <2>1. n > Len(spare) /\ n \in Nat
    BY <1>1, <1>3 DEF SpareSuffices, spare
  <2>2. TailFromDigest(chain, n) =
          [bytes |-> taken, chain |-> [hash |-> hash, counter |-> c + 1, spare |-> joined]]
    <3>1. TailFromDigest(chain, n) =
            [bytes |-> taken, chain |-> [chain EXCEPT !.counter = c + 1, !.spare = joined]]
      BY DEF TailFromDigest, spare, hash, c
    <3> HIDE DEF taken, joined
    <3>2. [chain EXCEPT !.counter = c + 1, !.spare = joined]
            = [hash |-> hash, counter |-> c + 1, spare |-> joined]
      <4> DEFINE moved == [chain EXCEPT !.counter = c + 1]
      <4>1. moved = [hash |-> hash, counter |-> c + 1, spare |-> spare]
        BY <1>1
      <4>2. [chain EXCEPT !.counter = c + 1, !.spare = joined] = [moved EXCEPT !.spare = joined]
        BY Zenon
      <4> HIDE DEF moved
      <4> QED  BY <4>1, <4>2
    <3> QED  BY <3>1, <3>2
  <2>3. Of(taken, hash)
    <3>1. 0 \in Nat /\ n - 1 \in Int /\ 0 <= (n - 1) + 1
      BY <2>1
    <3> QED  BY <3>1, <1>1, DigestBytesOf
  <2>4. Of(left, hash) /\ Len(left) = kDigestNumBytes - n
    <3>1. /\ n \in Nat /\ kDigestNumBytes - 1 \in Int /\ n <= (kDigestNumBytes - 1) + 1
          /\ (kDigestNumBytes - 1) - n + 1 = kDigestNumBytes - n
      BY <2>1, <1>0
    <3>2. Of(left, hash) /\ Len(left) = (kDigestNumBytes - 1) - n + 1
      BY <3>1, <1>1, DigestBytesOf
    <3> QED  BY <3>1, <3>2
  <2>5. Of(joined, hash) /\ Len(joined) = Len(spare) + Len(left)
    <3> HIDE DEF left
    <3> QED  BY <2>4, <1>1, ConcatOf
  <2> HIDE DEF taken, left, joined
  <2>6. Len(joined) < kDigestNumBytes
    BY <2>1, <2>4, <2>5, <1>1, <1>0
  <2>7. c + 1 \in Nat
    BY <1>1
  <2> QED  BY <2>2, <2>3, <2>5, <2>6, <2>7, <1>1 DEF Drawn, GoodPrng, hash
<1> QED  BY <1>2, <1>3

\* A request returns bytes of the chain's hash and leaves fewer than a digest spare.
LEMMA BytesDrawn ==
  ASSUME NEW chain, GoodPrng(chain), NEW n \in Nat
  PROVE  Drawn(chain, GetRandomBytes(chain, n))
<1> DEFINE blocks == n \div kDigestNumBytes
           tail_size == n % kDigestNumBytes
           rest == SkipBlocks(chain, blocks)
           full == FullBlocks(chain, blocks)
           tail == IF SpareSuffices(rest, tail_size)
                   THEN TailFromSpare(rest, tail_size) ELSE TailFromDigest(rest, tail_size)
           suffices == IF SpareSuffices(chain, tail_size)
                   THEN TailFromSpare(rest, tail_size) ELSE TailFromDigest(rest, tail_size)
<1>1. GetRandomBytes(chain, n) = [bytes |-> full \o suffices.bytes, chain |-> suffices.chain]
  BY DEF GetRandomBytes
<1>2. blocks \in Nat /\ tail_size \in 0 .. kDigestNumBytes - 1
  BY FewerThanDigest
<1> HIDE DEF blocks, tail_size
<1>3. GoodPrng(rest) /\ rest.hash = chain.hash /\ rest.spare = chain.spare
  <2>1. chain.counter + blocks \in Nat
    BY <1>2 DEF GoodPrng
  <2>2. rest = [hash |-> chain.hash, counter |-> chain.counter + blocks, spare |-> chain.spare]
    BY DEF SkipBlocks, GoodPrng
  <2> QED  BY <2>1, <2>2 DEF GoodPrng
<1>4. Of(full, chain.hash)
  <2> DEFINE last == blocks * kDigestNumBytes - 1
  <2>1. last \in Int /\ 0 <= last + 1
    BY <1>2, DigestAssumption
  <2>2. full = DigestBytes(chain.hash, chain.counter, 0, last)
    BY DEF FullBlocks
  <2>3. chain.counter \in Nat /\ 0 \in Nat
    BY DEF GoodPrng
  <2> HIDE DEF last, full
  <2> QED  BY <2>1, <2>2, <2>3, DigestBytesOf
<1>5. suffices = tail
  BY <1>3 DEF SpareSuffices
<1> HIDE DEF rest, full, suffices
<1>6. Drawn(rest, tail)
  BY <1>2, <1>3, TailDrawn
<1> HIDE DEF tail
<1>7. Of(full \o tail.bytes, chain.hash)
  BY <1>3, <1>4, <1>6, ConcatOf DEF Drawn
<1> QED  BY <1>1, <1>3, <1>5, <1>6, <1>7 DEF Drawn

LEMMA DrawnAgain ==
  ASSUME NEW chain, NEW first, NEW second, Drawn(chain, first), Drawn(first.chain, second)
  PROVE  Drawn(chain, second)
BY DEF Drawn

\* f holds the first n draws from prng.
AreDraws(f, n, prng) ==
  f = [k \in 1 .. n |->
         GetRandomBytes(IF k = 1 THEN prng ELSE f[k - 1].chain, NumberBytes)]

\* One more draw can be made after any number of them.
LEMMA OneMoreDraw ==
  ASSUME NEW prng, NEW n \in Nat, NEW f, AreDraws(f, n, prng)
  PROVE  \E g : AreDraws(g, n + 1, prng)
<1> DEFINE more == GetRandomBytes(IF n + 1 = 1 THEN prng ELSE f[n].chain, NumberBytes)
           g == [k \in 1 .. n + 1 |-> IF k <= n THEN f[k] ELSE more]
           step(k) == GetRandomBytes(IF k = 1 THEN prng ELSE g[k - 1].chain, NumberBytes)
<1>1. ASSUME NEW k \in 1 .. n + 1
      PROVE  g[k] = step(k)
  <2>1. CASE k <= n
    <3>1. k \in 1 .. n /\ g[k] = f[k]
      BY <2>1
    <3>2. f[k] = GetRandomBytes(IF k = 1 THEN prng ELSE f[k - 1].chain, NumberBytes)
      BY <3>1 DEF AreDraws
    <3>3. k # 1 => g[k - 1] = f[k - 1]
      BY <3>1
    <3> HIDE DEF g
    <3> QED  BY <3>1, <3>2, <3>3
  <2>2. CASE k = n + 1
    <3>1. g[k] = more
      BY <2>2
    <3>2. k # 1 => g[k - 1] = f[n]
      BY <2>2
    <3> HIDE DEF g
    <3> QED  BY <2>2, <3>1, <3>2
  <2> QED  BY <2>1, <2>2
<1>2. g = [k \in 1 .. n + 1 |-> g[k]]
  OBVIOUS
<1> HIDE DEF g
<1>3. [k \in 1 .. n + 1 |-> g[k]] = [k \in 1 .. n + 1 |-> step(k)]
  BY <1>1
<1>4. AreDraws(g, n + 1, prng)
  BY <1>2, <1>3 DEF AreDraws
<1> QED  BY <1>4

LEMMA DrawsExist ==
  ASSUME NEW prng, NEW n \in Nat
  PROVE  \E f : AreDraws(f, n, prng)
<1> DEFINE S == {k \in Nat : ~\E f : AreDraws(f, k, prng)}
<1>1. SUFFICES ASSUME S # {}  PROVE FALSE
  OBVIOUS
<1>2. PICK m \in S : \A k \in S : m <= k
  BY <1>1, LeastOf
<1>3. m # 0
  <2>1. AreDraws(<<>>, 0, prng)
    BY DEF AreDraws
  <2> QED  BY <2>1, <1>2
<1>4. m - 1 \in Nat /\ m - 1 \notin S /\ (m - 1) + 1 = m
  BY <1>2, <1>3
<1>5. PICK f : AreDraws(f, m - 1, prng)
  BY <1>4
<1>6. \E g : AreDraws(g, (m - 1) + 1, prng)
  BY <1>4, <1>5, OneMoreDraw
<1> QED  BY <1>2, <1>4, <1>6

LEMMA AllDrawn ==
  ASSUME NEW prng, GoodPrng(prng), NEW n \in Nat, NEW f, AreDraws(f, n, prng)
  PROVE  \A k \in 1 .. n : Drawn(prng, f[k])
<1> DEFINE S == {k \in 1 .. n : ~Drawn(prng, f[k])}
<1>0. NumberBytes \in Nat
  BY ChannelAssumption
<1>1. SUFFICES ASSUME S # {}  PROVE FALSE
  OBVIOUS
<1>2. PICK m \in S : \A k \in S : m <= k
  <2>1. S \in SUBSET Nat
    OBVIOUS
  <2> HIDE DEF S
  <2> QED  BY <1>1, <2>1, LeastOf
<1>3. f[m] = GetRandomBytes(IF m = 1 THEN prng ELSE f[m - 1].chain, NumberBytes)
  BY <1>2 DEF AreDraws
<1>4. CASE m = 1
  <2>1. Drawn(prng, f[m])
    BY <1>0, <1>3, <1>4, BytesDrawn
  <2> QED  BY <2>1, <1>2
<1>5. CASE m # 1
  <2>1. m - 1 \in 1 .. n /\ m - 1 \notin S
    BY <1>2, <1>5
  <2>2. Drawn(prng, f[m - 1])
    BY <2>1
  <2>3. Drawn(f[m - 1].chain, f[m])
    BY <2>2, <1>0, <1>3, <1>5, BytesDrawn DEF Drawn
  <2>4. Drawn(prng, f[m])
    BY <2>2, <2>3, DrawnAgain
  <2> QED  BY <2>4, <1>2
<1> QED  BY <1>4, <1>5

\* A field element draws one or more times.
LEMMA ElementDrawn ==
  ASSUME NEW prng, GoodPrng(prng)
  PROVE  Drawn(prng, RandomBaseElement(prng))
<1> DEFINE draw == CHOOSE f : f = [k \in 1 .. MaxDraws |->
                     GetRandomBytes(IF k = 1 THEN prng ELSE f[k - 1].chain, NumberBytes)]
           Ends(k) == k = MaxDraws \/ ~Rejected(draw[k].bytes)
           last == CHOOSE k \in 1 .. MaxDraws : Ends(k) /\ \A j \in 1 .. k - 1 : ~Ends(j)
           S == {k \in 1 .. MaxDraws : Ends(k)}
<1>1. RandomBaseElement(prng) = draw[last]
  BY DEF RandomBaseElement
<1>2. MaxDraws \in Nat \ {0}
  BY ChannelAssumption
<1>3. AreDraws(draw, MaxDraws, prng)
  <2>1. \E f : AreDraws(f, MaxDraws, prng)
    BY <1>2, DrawsExist
  <2> QED  BY <2>1 DEF AreDraws
<1> HIDE DEF draw
<1>4. last \in 1 .. MaxDraws
  <2>1. MaxDraws \in S
    BY <1>2
  <2>2. PICK m \in S : \A k \in S : m <= k
    <3>1. S \in SUBSET Nat /\ S # {}
      BY <1>2, <2>1
    <3> HIDE DEF S
    <3> QED  BY <3>1, LeastOf
  <2>3. m \in 1 .. MaxDraws /\ Ends(m)
    OBVIOUS
  <2>4. \A j \in 1 .. m - 1 : ~Ends(j)
    <3> SUFFICES ASSUME NEW j \in 1 .. m - 1, Ends(j)  PROVE FALSE
      OBVIOUS
    <3>1. j \in 1 .. MaxDraws /\ j < m
      BY <2>3, <1>2
    <3>2. j \in S
      BY <3>1
    <3> QED  BY <3>1, <3>2, <2>2, <2>3
  <2> HIDE DEF Ends, S
  <2> QED  BY <2>3, <2>4
<1> HIDE DEF last
<1>5. Drawn(prng, draw[last])
  BY <1>2, <1>3, <1>4, AllDrawn
<1> QED  BY <1>1, <1>5

LEMMA ExtensionElementDrawn ==
  ASSUME NEW prng, GoodPrng(prng)
  PROVE  Drawn(prng, RandomExtensionElement(prng))
<1> DEFINE first == RandomBaseElement(prng)
           second == RandomBaseElement(first.chain)
<1>1. RandomExtensionElement(prng) =
        [bytes |-> IF first_operand = 1 THEN first.bytes \o second.bytes
                                        ELSE second.bytes \o first.bytes,
         chain |-> second.chain]
  BY DEF RandomExtensionElement
<1>2. Drawn(prng, first)
  BY ElementDrawn
<1>3. Drawn(first.chain, second)
  BY <1>2, ElementDrawn DEF Drawn
<1> HIDE DEF first, second
<1>4. Drawn(prng, second)
  BY <1>2, <1>3, DrawnAgain
<1>5. Of(first.bytes \o second.bytes, prng.hash) /\ Of(second.bytes \o first.bytes, prng.hash)
  BY <1>2, <1>4, ConcatOf DEF Drawn
<1> QED  BY <1>1, <1>4, <1>5 DEF Drawn

-----------------------------------------------------------------------------
(* The inductive invariant.                                                *)

\* The generator before the i-th call, on the prover's side.
PrngBefore(i) == IF i = 1 THEN InitHashChain(PublicInput) ELSE calls[i - 1].prng

\* What a call returns and leaves behind, from the generator before it and whether
\* the query phase had not begun.
Absorbed(prng, raw_bytes, committed) ==
  IF committed THEN UpdateHashChain(prng, raw_bytes) ELSE prng

RightCall(c, prng, committed) ==
  \/ /\ c.call = "data"
     /\ c.arg = Len(c.returned)
     /\ c.prng = Absorbed(prng, c.returned, committed)
  \/ /\ c.call = "number" /\ committed
     /\ c.returned = RandomNumber(prng).bytes /\ c.prng = RandomNumber(prng).chain
  \/ /\ c.call = "element" /\ committed
     /\ c.returned = RandomExtensionElement(prng).bytes
     /\ c.prng = RandomExtensionElement(prng).chain
  \/ /\ c.call = "pow" /\ c.arg = 0
     /\ c.returned = NoBytes /\ c.prng = prng
  \/ /\ c.call = "pow" /\ c.arg \in 1 .. MaxWorkBits
     /\ c.returned = Nonce(prng.hash, c.arg)
     /\ c.prng = Absorbed(prng, c.returned, committed)
  \/ /\ c.call = "query phase"
     /\ c.returned = NoBytes /\ c.prng = prng

\* The record of the prover's calls determines what each of them returned.
CallsRight ==
  /\ IsSeq(calls)
  /\ \A i \in 1 .. Len(calls) : /\ IsSeq(calls[i].returned)
                                /\ RightCall(calls[i], PrngBefore(i), Committed(i))

ProverRight ==
  /\ prover = [prng |-> prover.prng, in_query_phase |-> prover.in_query_phase,
               proof |-> prover.proof]
  /\ GoodPrng(prover.prng)
  /\ prover.prng = PrngBefore(Len(calls) + 1)
  /\ prover.in_query_phase \in BOOLEAN
  /\ prover.in_query_phase <=> ~Committed(Len(calls) + 1)
  /\ IsSeq(prover.proof)

\* Until the query phase the prover's hash is that of all it sent.
HashRight ==
  ~prover.in_query_phase => HashOf(prover.prng.hash, MessagesBefore(Len(calls) + 1))

\* What a call adds to the proof.
Size(c) == IF IsMessage(c) THEN Len(c.returned) ELSE 0

\* After the i-th call the proof is off[i] long, and the call's message lies before.
Marks(off) ==
  /\ off[0] = 0
  /\ off[Len(calls)] = Len(prover.proof)
  /\ \A i \in 0 .. Len(calls) : off[i] \in 0 .. Len(prover.proof)
  /\ \A i \in 1 .. Len(calls) :
       /\ off[i] = off[i - 1] + Size(calls[i])
       /\ \A k \in 1 .. Size(calls[i]) :
            prover.proof[off[i - 1] + k] = calls[i].returned[k]

\* The verifier has read what the calls it repeated had written.
Offsets ==
  \E off \in [0 .. Len(calls) -> Nat] :
     Marks(off) /\ verifier.proof_read_index = off[Len(answers)]

VerifierRight ==
  /\ verifier = [prng |-> verifier.prng, in_query_phase |-> verifier.in_query_phase,
                 proof |-> verifier.proof, proof_read_index |-> verifier.proof_read_index]
  /\ GoodPrng(verifier.prng)
  /\ verifier.in_query_phase \in BOOLEAN
  /\ verifier.in_query_phase <=> ~Committed(Len(answers) + 1)
  /\ IsSeq(answers) /\ Len(answers) <= Len(calls)
  /\ IsSeq(verifier.proof)
  /\ verifier.proof_read_index \in 0 .. Len(verifier.proof)

Undelivered == {"proving", "prover drew in query phase", "too many bits of work"}

\* What reached the verifier, if anything did.
Arrival ==
  /\ damage.kind \in {"none", "cut", "altered"}
  /\ stage \in Undelivered =>
       /\ answers = <<>> /\ damage.kind = "none"
       /\ verifier.proof = NoBytes /\ verifier.proof_read_index = 0
  /\ stage \notin Undelivered =>
       /\ damage.kind = "none" => verifier.proof = prover.proof
       /\ damage.kind = "cut" => Len(verifier.proof) < Len(prover.proof)

\* On an undamaged proof the verifier has repeated the first calls of the prover.
Repeats ==
  /\ damage.kind = "none" =>
       /\ \A i \in 1 .. Len(answers) : answers[i] = calls[i].returned
       /\ verifier.prng = PrngBefore(Len(answers) + 1)
       /\ stage \notin VerifierAssertions
  /\ stage = "accepted" => Len(answers) = Len(calls)

IInv ==
  /\ CallsRight /\ ProverRight /\ HashRight /\ TranscriptBound
  /\ Offsets /\ VerifierRight /\ Arrival /\ Repeats

-----------------------------------------------------------------------------
(* One more call of the prover.                                            *)

LEMMA CallAppended ==
  ASSUME IsSeq(calls), NEW n, n = Len(calls), NEW c, calls' = Append(calls, c)
  PROVE  /\ n \in Nat /\ IsSeq(calls)' /\ Len(calls)' = n + 1
         /\ \A i \in 1 .. n : calls'[i] = calls[i]
         /\ calls'[n + 1] = c
<1>1. IsExtended(Append(calls, c), calls, c)
  BY AppendFacts
<1>2. IsExtended(calls', calls, c)
  BY <1>1
<1>3. n \in Nat
  BY DEF IsSeq
<1> QED  BY <1>2, <1>3 DEF IsExtended, IsSeq

\* What was before a call does not depend on what comes after it.
LEMMA EarlierCalls ==
  ASSUME IsSeq(calls), NEW n, n = Len(calls), NEW c, calls' = Append(calls, c)
  PROVE  \A i \in 1 .. n + 1 : /\ PrngBefore(i)' = PrngBefore(i)
                               /\ Committed(i)' <=> Committed(i)
                               /\ MessagesBefore(i)' = MessagesBefore(i)
<1>1. n \in Nat /\ \A i \in 1 .. n : calls'[i] = calls[i]
  BY CallAppended
<1> SUFFICES ASSUME NEW i \in 1 .. n + 1
             PROVE  /\ PrngBefore(i)' = PrngBefore(i)
                    /\ Committed(i)' <=> Committed(i)
                    /\ MessagesBefore(i)' = MessagesBefore(i)
  OBVIOUS
<1>2. \A j \in 1 .. i - 1 : calls'[j] = calls[j]
  BY <1>1
<1>3. PrngBefore(i)' = PrngBefore(i)
  <2>1. i # 1 => calls'[i - 1] = calls[i - 1]
    BY <1>1, <1>2
  <2> QED  BY <2>1 DEF PrngBefore
<1>4. Committed(i)' <=> Committed(i)
  BY <1>2 DEF Committed
<1>5. MessagesBefore(i)' = MessagesBefore(i)
  BY <1>2 DEF MessagesBefore, IsMessage
<1> QED  BY <1>3, <1>4, <1>5

LEMMA LatestCall ==
  ASSUME IsSeq(calls), NEW n, n = Len(calls), NEW c, calls' = Append(calls, c)
  PROVE  /\ PrngBefore(n + 2)' = c.prng
         /\ Committed(n + 2)' <=> Committed(n + 1) /\ c.call # "query phase"
         /\ MessagesBefore(n + 2)' = IF IsMessage(c) THEN MessagesBefore(n + 1) \cup {n + 1}
                                                     ELSE MessagesBefore(n + 1)
<1>1. /\ n \in Nat /\ calls'[n + 1] = c
      /\ \A i \in 1 .. n : calls'[i] = calls[i]
  BY CallAppended
<1>2. PrngBefore(n + 2)' = c.prng
  <2>1. n + 2 # 1 /\ n + 2 - 1 = n + 1
    BY <1>1
  <2> QED  BY <1>1, <2>1 DEF PrngBefore
<1>3. /\ 1 .. n + 2 - 1 = 1 .. n + 1 /\ 1 .. n + 1 - 1 = 1 .. n
      /\ 1 .. n + 1 = 1 .. n \cup {n + 1}
  BY <1>1
<1>4. Committed(n + 2)' <=> Committed(n + 1) /\ c.call # "query phase"
  <2>1. Committed(n + 2)' <=> \A j \in 1 .. n + 1 : calls'[j].call # "query phase"
    <3>1. PICK m : m = n + 2
      OBVIOUS
    <3>2. Committed(m)' <=> \A j \in 1 .. m - 1 : calls'[j].call # "query phase"
      BY DEF Committed
    <3>3. 1 .. m - 1 = 1 .. n + 1
      BY <1>1, <3>1
    <3> QED  BY <3>1, <3>2, <3>3
  <2>2. Committed(n + 1) <=> \A j \in 1 .. n : calls[j].call # "query phase"
    BY <1>3 DEF Committed
  <2> QED  BY <1>1, <1>3, <2>1, <2>2
<1>5. MessagesBefore(n + 2)' = IF IsMessage(c) THEN MessagesBefore(n + 1) \cup {n + 1}
                                               ELSE MessagesBefore(n + 1)
  <2>1. MessagesBefore(n + 2)' = {j \in 1 .. n + 1 : IsMessage(calls'[j])}
    BY <1>3 DEF MessagesBefore, IsMessage
  <2>2. MessagesBefore(n + 1) = {j \in 1 .. n : IsMessage(calls[j])}
    BY <1>3 DEF MessagesBefore
  <2>3. \A j \in 1 .. n : IsMessage(calls'[j]) <=> IsMessage(calls[j])
    BY <1>1
  <2>4. IsMessage(calls'[n + 1]) <=> IsMessage(c)
    BY <1>1
  <2> QED  BY <1>3, <2>1, <2>2, <2>3, <2>4
<1> QED  BY <1>2, <1>4, <1>5

LEMMA MessagesFinite ==
  ASSUME NEW i \in Nat
  PROVE  /\ IsFiniteSet(MessagesBefore(i)) /\ Cardinality(MessagesBefore(i)) \in Nat
         /\ MessagesBefore(i) \subseteq 1 .. i - 1
<1>1. MessagesBefore(i) \subseteq 1 .. i - 1
  BY DEF MessagesBefore
<1>2. IsFiniteSet(1 .. i - 1)
  BY FS_Interval
<1>3. IsFiniteSet(MessagesBefore(i))
  BY <1>1, <1>2, FS_Subset
<1> QED  BY <1>1, <1>3, FS_CardinalityType

\* Messages of the earlier calls are found in the hash as before.
LEMMA SameHash ==
  ASSUME IsSeq(calls), NEW n, n = Len(calls), NEW c, calls' = Append(calls, c),
         NEW hash, NEW i \in 1 .. n + 1
  PROVE  HashOf(hash, MessagesBefore(i)) => HashOf(hash, MessagesBefore(i))'
<1>1. n \in Nat /\ \A j \in 1 .. n : calls'[j] = calls[j]
  BY CallAppended
<1>2. MessagesBefore(i)' = MessagesBefore(i)
  BY EarlierCalls
<1>3. MessagesBefore(i) \subseteq 1 .. n
  <2>1. i \in Nat /\ 1 .. i - 1 \subseteq 1 .. n
    BY <1>1
  <2> QED  BY <2>1, MessagesFinite
<1>4. \A j \in MessagesBefore(i) : calls'[j] = calls[j]
  BY <1>1, <1>3
<1> QED  BY <1>2, <1>4 DEF HashOf

\* The message of the latest call is the last in the hash that absorbed it.
LEMMA LongerHash ==
  ASSUME IsSeq(calls), NEW n, n = Len(calls), NEW c, calls' = Append(calls, c), IsMessage(c),
         NEW hash, IsSeq(hash), HashOf(hash, MessagesBefore(n + 1))
  PROVE  HashOf(Append(hash, c.returned), MessagesBefore(n + 2))'
<1> DEFINE longer == Append(hash, c.returned)
           M == MessagesBefore(n + 1)
           UpTo(j) == {k \in M : k <= j}
           N == M \cup {n + 1}
           UpToN(j) == {k \in N : k <= j}
<1>1. /\ n \in Nat /\ calls'[n + 1] = c
      /\ \A i \in 1 .. n : calls'[i] = calls[i]
  BY CallAppended
<1>2. /\ IsFiniteSet(M) /\ Cardinality(M) \in Nat /\ M \subseteq 1 .. n
  <2>1. n + 1 \in Nat /\ n + 1 - 1 = n
    BY <1>1
  <2> QED  BY <2>1, MessagesFinite
<1>3. MessagesBefore(n + 2)' = N
  BY LatestCall
<1>4. /\ Len(hash) = 1 + Cardinality(M) /\ hash[1] = PublicInput
      /\ \A j \in M : hash[1 + Cardinality(UpTo(j))] = calls[j].returned
  BY DEF HashOf
<1>5. /\ Len(longer) = Len(hash) + 1
      /\ \A i \in 1 .. Len(hash) : longer[i] = hash[i]
      /\ longer[Len(hash) + 1] = c.returned
  <2>1. IsExtended(longer, hash, c.returned)
    BY AppendFacts
  <2> HIDE DEF longer
  <2> QED  BY <2>1 DEF IsExtended
<1> HIDE DEF longer, M
<1>6. Cardinality(N) = Cardinality(M) + 1
  <2>1. n + 1 \notin M
    BY <1>1, <1>2
  <2> QED  BY <1>2, <2>1, FS_AddElement
<1>7. ASSUME NEW j \in M
      PROVE  longer[1 + Cardinality(UpToN(j))] = calls'[j].returned
  <2>1. UpToN(j) = UpTo(j)
    BY <1>1, <1>2
  <2>2. IsFiniteSet(UpTo(j)) /\ Cardinality(UpTo(j)) \in Nat
        /\ Cardinality(UpTo(j)) <= Cardinality(M)
    <3>1. UpTo(j) \subseteq M
      OBVIOUS
    <3> QED  BY <3>1, <1>2, FS_Subset, FS_CardinalityType
  <2>3. 1 + Cardinality(UpTo(j)) \in 1 .. Len(hash)
    BY <2>2, <1>2, <1>4
  <2>4. longer[1 + Cardinality(UpTo(j))] = calls[j].returned
    BY <2>3, <1>4, <1>5
  <2>5. calls'[j] = calls[j]
    BY <1>1, <1>2
  <2> QED  BY <2>1, <2>4, <2>5
<1>8. longer[1 + Cardinality(UpToN(n + 1))] = calls'[n + 1].returned
  <2>1. \A k \in N : k <= n + 1
    BY <1>1, <1>2
  <2>2. UpToN(n + 1) = N
    <3> HIDE DEF N
    <3> QED  BY <2>1
  <2>3. 1 + Cardinality(N) = Len(hash) + 1
    BY <1>2, <1>4, <1>6
  <2>4. longer[1 + Cardinality(N)] = c.returned
    BY <2>3, <1>5
  <2> QED  BY <2>2, <2>4, <1>1
<1>9. longer[1] = PublicInput
  <2>1. 1 \in 1 .. Len(hash)
    BY <1>2, <1>4
  <2> QED  BY <2>1, <1>4, <1>5
<1>10. Len(longer) = 1 + Cardinality(N)
  BY <1>2, <1>4, <1>5, <1>6
<1>11. \A j \in N : longer[1 + Cardinality(UpToN(j))] = calls'[j].returned
  BY <1>7, <1>8
<1>12. /\ Len(longer) = 1 + Cardinality(N)
       /\ longer[1] = PublicInput
       /\ \A j \in N : longer[1 + Cardinality({k \in N : k <= j})] = calls'[j].returned
  BY <1>9, <1>10, <1>11
<1> HIDE DEF N, UpTo, UpToN
<1>13. HashOf(longer, MessagesBefore(n + 2))'
         <=> /\ Len(longer) = 1 + Cardinality(N)
             /\ longer[1] = PublicInput
             /\ \A j \in N : longer[1 + Cardinality({k \in N : k <= j})] = calls'[j].returned
  BY <1>3 DEF HashOf
<1> QED  BY <1>12, <1>13 DEF longer

-----------------------------------------------------------------------------
LEMMA InitRight == Init => IInv
<1> SUFFICES ASSUME Init  PROVE IInv
  OBVIOUS
<1> USE DEF Init
<1>1. IsSeq(<<>>) /\ Len(<<>>) = 0
  BY EmptySeq
<1>2. IsSeq(InitHashChain(PublicInput).hash) /\ GoodPrng(InitHashChain(PublicInput))
  <2> DEFINE chain == [hash |-> <<PublicInput>>, counter |-> 0, spare |-> <<>>]
  <2>1. IsSeq(<<PublicInput>>)
    BY DEF IsSeq
  <2>2. chain.hash = <<PublicInput>> /\ chain.counter = 0 /\ chain.spare = <<>>
    OBVIOUS
  <2>3. chain = [hash |-> chain.hash, counter |-> chain.counter, spare |-> chain.spare]
    BY <2>2
  <2>4. Len(chain.spare) < kDigestNumBytes
    BY <1>1, <2>2, DigestAssumption
  <2>5. Of(chain.spare, chain.hash)
    BY <1>1, <2>2 DEF Of
  <2> HIDE DEF chain
  <2>6. GoodPrng(chain) /\ IsSeq(chain.hash)
    BY <2>1, <2>2, <2>3, <2>4, <2>5 DEF GoodPrng
  <2> QED  BY <2>6 DEF InitHashChain, chain
<1>3. CallsRight /\ TranscriptBound
  BY <1>1 DEF CallsRight, TranscriptBound
<1>4. Committed(1) /\ MessagesBefore(1) = {} /\ PrngBefore(1) = InitHashChain(PublicInput)
  BY DEF Committed, MessagesBefore, PrngBefore
<1>5. Len(calls) + 1 = 1 /\ Len(answers) + 1 = 1
  BY <1>1
<1>6. ProverRight
  BY <1>1, <1>2, <1>4, <1>5 DEF ProverRight, NoBytes
<1>7. HashRight
  <2>1. InitHashChain(PublicInput).hash = <<PublicInput>>
    BY DEF InitHashChain
  <2>2. Len(<<PublicInput>>) = 1 /\ <<PublicInput>>[1] = PublicInput
    OBVIOUS
  <2>3. HashOf(<<PublicInput>>, {})
    BY <2>2, FS_EmptySet DEF HashOf
  <2> QED  BY <1>4, <1>5, <2>1, <2>3 DEF HashRight
<1>8. Offsets
  <2> DEFINE off == [i \in 0 .. 0 |-> 0]
  <2>1. off \in [0 .. Len(calls) -> Nat] /\ off[0] = 0
    BY <1>1
  <2>2. Marks(off)
    <3> HIDE DEF off
    <3> QED  BY <1>1, <2>1 DEF Marks, NoBytes
  <2> HIDE DEF off
  <2>3. verifier.proof_read_index = off[Len(answers)]
    BY <1>1, <2>1
  <2> QED  BY <2>1, <2>2, <2>3 DEF Offsets
<1>9. VerifierRight
  BY <1>1, <1>2, <1>4, <1>5 DEF VerifierRight, NoBytes
<1>10. Arrival
  BY DEF Arrival, Undelivered
<1>11. Repeats
  <2>1. verifier.prng = PrngBefore(Len(answers) + 1)
    BY <1>4, <1>5
  <2> QED  BY <1>1, <2>1 DEF Repeats, VerifierAssertions
<1> QED  BY <1>3, <1>6, <1>7, <1>8, <1>9, <1>10, <1>11 DEF IInv

LEMMA QuietCall ==
  ASSUME NEW c, c.call # "data", c.arg = 0
  PROVE  ~IsMessage(c)
BY DEF IsMessage

LEMMA MessageCall ==
  ASSUME NEW c, NEW prng, NEW committed, RightCall(c, prng, committed), IsMessage(c)
  PROVE  c.prng = Absorbed(prng, c.returned, committed)
<1>1. c.call = "data" \/ c.call = "pow"
  BY Zenon DEF IsMessage
<1>2. ~(c.call = "pow" /\ c.arg = 0)
  BY DEF IsMessage
<1> QED  BY <1>1, <1>2, Zenon DEF RightCall

LEMMA SilentCall ==
  ASSUME NEW c, NEW prng, NEW committed, RightCall(c, prng, committed), ~IsMessage(c)
  PROVE  \/ c.call = "number" /\ c.prng = RandomNumber(prng).chain
         \/ c.call = "element" /\ c.prng = RandomExtensionElement(prng).chain
         \/ c.prng = prng
<1>1. ~(c.call = "pow" /\ c.arg \in 1 .. MaxWorkBits) /\ c.call # "data"
  BY DEF IsMessage, MaxWorkBits
<1> QED  BY <1>1, Zenon DEF RightCall

\* The compiler's order of the two draws does not change.
LEMMA SameCall ==
  ASSUME first_operand' = first_operand, NEW c, NEW prng, NEW committed
  PROVE  RightCall(c, prng, committed)' <=> RightCall(c, prng, committed)
BY DEF RightCall, RandomExtensionElement

\* The prover makes call c, which sends what IsMessage says.
Makes(c) ==
  /\ calls' = Append(calls, c)
  /\ IsSeq(c.returned) /\ GoodPrng(c.prng)
  /\ RightCall(c, prover.prng, ~prover.in_query_phase)
  /\ prover' = [prng |-> c.prng,
                in_query_phase |-> prover.in_query_phase \/ c.call = "query phase",
                proof |-> IF IsMessage(c) THEN prover.proof \o c.returned ELSE prover.proof]
  /\ stage = "proving" /\ UNCHANGED <<verifier, answers, damage, first_operand, stage>>

LEMMA CallMade ==
  ASSUME IInv, NEW c, Makes(c)
  PROVE  IInv'
<1>0. PICK n, committed, prng, in_query, proof :
        /\ n = Len(calls) /\ prng = prover.prng /\ in_query = prover.in_query_phase
        /\ proof = prover.proof /\ committed = ~prover.in_query_phase
  OBVIOUS
<1>1. /\ n \in Nat /\ IsSeq(calls)' /\ Len(calls)' = n + 1
      /\ \A i \in 1 .. n : calls'[i] = calls[i]
      /\ calls'[n + 1] = c
  BY <1>0, CallAppended DEF IInv, CallsRight, Makes
<1>2. \A i \in 1 .. n + 1 : /\ PrngBefore(i)' = PrngBefore(i)
                            /\ Committed(i)' <=> Committed(i)
                            /\ MessagesBefore(i)' = MessagesBefore(i)
  BY <1>0, EarlierCalls DEF IInv, CallsRight, Makes
<1>3. /\ PrngBefore(n + 2)' = c.prng
      /\ Committed(n + 2)' <=> Committed(n + 1) /\ c.call # "query phase"
      /\ MessagesBefore(n + 2)' = IF IsMessage(c) THEN MessagesBefore(n + 1) \cup {n + 1}
                                                  ELSE MessagesBefore(n + 1)
  BY <1>0, LatestCall DEF IInv, CallsRight, Makes
<1>4. /\ prng = PrngBefore(n + 1) /\ in_query \in BOOLEAN /\ (in_query <=> ~Committed(n + 1))
      /\ GoodPrng(prng) /\ IsSeq(proof)
  BY <1>0 DEF IInv, ProverRight
<1>13. RightCall(c, prng, committed) /\ (committed <=> ~in_query)
  BY <1>0, <1>4 DEF Makes
<1>14. Len(calls)' + 1 = n + 2
  BY <1>1
<1>5. CallsRight'
  <2>1. ASSUME NEW i \in 1 .. n
        PROVE  IsSeq(calls[i].returned)' /\ RightCall(calls[i], PrngBefore(i), Committed(i))'
    <3>1. PICK d, before, b : d = calls[i] /\ before = PrngBefore(i) /\ b = Committed(i)
      OBVIOUS
    <3>2. d = calls'[i] /\ before = PrngBefore(i)' /\ b = Committed(i)'
      <4>1. i \in 1 .. n + 1
        BY <1>1
      <4>2. d = calls'[i] /\ before = PrngBefore(i)'
        BY <1>1, <1>2, <3>1, <4>1
      <4>3. b = Committed(i)'
        BY <1>2, <3>1, <4>1 DEF Committed
      <4> QED  BY <4>2, <4>3
    <3>3. IsSeq(d.returned) /\ RightCall(d, before, b)
      BY <1>0, <3>1 DEF IInv, CallsRight
    <3>4. RightCall(d, before, b)'
      BY <3>3, SameCall DEF Makes
    <3> QED  BY <3>2, <3>3, <3>4 DEF IsSeq
  <2>2. IsSeq(calls[n + 1].returned)'
        /\ RightCall(calls[n + 1], PrngBefore(n + 1), Committed(n + 1))'
    <3>1. RightCall(c, prng, committed) /\ IsSeq(c.returned)
      BY <1>0 DEF Makes
    <3>2. RightCall(c, prng, committed)'
      BY <3>1, SameCall DEF Makes
    <3>3. n + 1 \in 1 .. n + 1
      BY <1>1
    <3>4. c = calls'[n + 1] /\ prng = PrngBefore(n + 1)' /\ committed = Committed(n + 1)'
      BY <1>0, <1>1, <1>2, <1>4, <3>3 DEF Committed
    <3> QED  BY <3>1, <3>2, <3>4 DEF IsSeq
  <2>3. \A i \in 1 .. Len(calls)' : i \in 1 .. n \/ i = n + 1
    BY <1>1
  <2> QED  BY <1>1, <2>1, <2>2, <2>3 DEF CallsRight
<1>6. ProverRight'
  <2>1. Len(calls)' + 1 = n + 2
    BY <1>1
  <2>2. IsSeq(prover.proof)'
    <3>1. IsMessage(c) => IsConcat(proof \o c.returned, proof, c.returned)
      BY <1>4, ConcatFacts DEF Makes
    <3>2. IsMessage(c) => IsSeq(proof \o c.returned)
      BY <3>1 DEF IsConcat
    <3> QED  BY <1>0, <1>4, <3>2 DEF Makes, IsSeq
  <2>3. (prover.in_query_phase)' <=> ~Committed(n + 2)'
    BY <1>0, <1>3, <1>4 DEF Makes
  <2>4. (prover.in_query_phase)' \in BOOLEAN
    BY <1>0, <1>4 DEF Makes
  <2>5. (prover.prng)' = c.prng /\ GoodPrng(c.prng)
    BY DEF Makes
  <2> QED  BY <1>3, <2>1, <2>2, <2>3, <2>4, <2>5 DEF ProverRight, GoodPrng, Makes
<1>7. HashRight'
  <2>1. SUFFICES ASSUME ~in_query, c.call # "query phase"
                 PROVE  HashOf(c.prng.hash, MessagesBefore(n + 2))'
    <3>1. (prover.in_query_phase)' <=> in_query \/ c.call = "query phase"
      BY <1>0, <1>4 DEF Makes
    <3>2. (prover.prng)' = c.prng
      BY DEF Makes
    <3> QED  BY <3>1, <3>2, <1>14 DEF HashRight
  <2>2. HashOf(prng.hash, MessagesBefore(n + 1)) /\ IsSeq(prng.hash)
    BY <1>0, <1>4, <2>1 DEF IInv, HashRight, GoodPrng
  <2>3. CASE IsMessage(c)
    <3>1. c.prng.hash = Append(prng.hash, c.returned)
      <4>1. c.prng = UpdateHashChain(prng, c.returned)
        <5>1. c.prng = Absorbed(prng, c.returned, committed)
          BY <1>13, <2>3, MessageCall
        <5> QED  BY <5>1, <1>13, <2>1, Zenon DEF Absorbed
      <4> QED  BY <4>1 DEF UpdateHashChain
    <3>2. HashOf(Append(prng.hash, c.returned), MessagesBefore(n + 2))'
      BY <1>0, <2>2, <2>3, LongerHash DEF IInv, CallsRight, Makes
    <3> QED  BY <3>1, <3>2
  <2>4. CASE ~IsMessage(c)
    <3>1. c.prng.hash = prng.hash
      <4>1. c.call = "number" => Drawn(prng, RandomNumber(prng))
        BY <1>4, BytesDrawn, ChannelAssumption DEF RandomNumber
      <4>2. c.call = "element" => Drawn(prng, RandomExtensionElement(prng))
        BY <1>4, ExtensionElementDrawn
      <4>3. \/ c.call = "number" /\ c.prng = RandomNumber(prng).chain
            \/ c.call = "element" /\ c.prng = RandomExtensionElement(prng).chain
            \/ c.prng = prng
        BY <1>13, <2>4, SilentCall
      <4> QED  BY <4>1, <4>2, <4>3 DEF Drawn
    <3>2. HashOf(prng.hash, MessagesBefore(n + 1))'
      <4>1. n + 1 \in 1 .. n + 1
        BY <1>1
      <4> QED  BY <1>0, <2>2, <4>1, SameHash DEF IInv, CallsRight, Makes
    <3>3. MessagesBefore(n + 2)' = MessagesBefore(n + 1)'
      <4>1. n + 1 \in 1 .. n + 1
        BY <1>1
      <4> QED  BY <1>2, <1>3, <2>4, <4>1
    <3> QED  BY <3>1, <3>2, <3>3 DEF HashOf
  <2> QED  BY <2>3, <2>4
<1>8. TranscriptBound'
  <2>1. ASSUME NEW i \in 1 .. n, calls[i].call \in Randoms,
               NEW b \in 1 .. Len(calls[i].returned)
        PROVE  HashOf(calls[i].returned[b].hash, MessagesBefore(i))'
    <3>1. PICK hash : hash = calls[i].returned[b].hash
      OBVIOUS
    <3>2. HashOf(hash, MessagesBefore(i))
      <4>1. i \in DOMAIN calls /\ b \in DOMAIN calls[i].returned
        BY <1>0, SeqOfElements DEF IInv, CallsRight
      <4> QED  BY <2>1, <3>1, <4>1 DEF IInv, TranscriptBound
    <3>3. i \in 1 .. n + 1
      BY <1>1
    <3>4. HashOf(hash, MessagesBefore(i))'
      BY <1>0, <3>2, <3>3, SameHash DEF IInv, CallsRight, Makes
    <3>5. hash = calls'[i].returned[b].hash
      BY <1>1, <3>1
    <3> QED  BY <3>4, <3>5
  <2>2. ASSUME c.call \in Randoms, NEW b \in 1 .. Len(c.returned)
        PROVE  HashOf(c.returned[b].hash, MessagesBefore(n + 1))'
    <3>1. ~in_query /\ c.returned[b].hash = prng.hash
      <4>1. c.call = "number" => Drawn(prng, RandomNumber(prng))
        BY <1>4, BytesDrawn, ChannelAssumption DEF RandomNumber
      <4>2. c.call = "element" => Drawn(prng, RandomExtensionElement(prng))
        BY <1>4, ExtensionElementDrawn
      <4>3. /\ committed
            /\ \/ c.call = "number" /\ c.returned = RandomNumber(prng).bytes
               \/ c.call = "element" /\ c.returned = RandomExtensionElement(prng).bytes
        BY <1>0, <2>2 DEF Makes, RightCall, Randoms
      <4>4. Of(c.returned, prng.hash)
        BY <4>1, <4>2, <4>3 DEF Drawn
      <4> QED  BY <1>0, <2>2, <4>3, <4>4 DEF Of
    <3>2. HashOf(prng.hash, MessagesBefore(n + 1))
      BY <1>0, <3>1 DEF IInv, HashRight
    <3>3. n + 1 \in 1 .. n + 1
      BY <1>1
    <3>4. HashOf(prng.hash, MessagesBefore(n + 1))'
      BY <1>0, <3>2, <3>3, SameHash DEF IInv, CallsRight, Makes
    <3> QED  BY <3>1, <3>4
  <2>3. ASSUME NEW i \in (DOMAIN calls)', (calls[i].call \in Randoms)',
               NEW b \in (DOMAIN calls[i].returned)'
        PROVE  HashOf(calls[i].returned[b].hash, MessagesBefore(i))'
    <3>1. i \in 1 .. n + 1 /\ b \in 1 .. Len(calls'[i].returned)
      <4>1. DOMAIN calls' = 1 .. n + 1
        BY <1>1 DEF IsSeq
      <4>2. i \in 1 .. n + 1
        BY <4>1, <2>3
      <4>3. IsSeq(calls'[i].returned)
        BY <1>1, <1>5, <4>2 DEF CallsRight, IsSeq
      <4>4. DOMAIN calls'[i].returned = 1 .. Len(calls'[i].returned)
        BY <4>3, SeqOfElements
      <4> QED  BY <4>2, <4>4, <2>3
    <3>2. CASE i = n + 1
      BY <3>1, <3>2, <1>1, <2>2, <2>3
    <3>3. CASE i \in 1 .. n
      BY <3>1, <3>3, <1>1, <2>1, <2>3
    <3> QED  BY <3>1, <3>2, <3>3, <1>1
  <2> QED  BY <2>3 DEF TranscriptBound, Randoms
<1>15. /\ stage = "proving" /\ stage' = "proving" /\ verifier' = verifier
       /\ answers' = answers /\ answers = <<>> /\ damage' = damage /\ damage.kind = "none"
       /\ verifier.proof = NoBytes /\ verifier.proof_read_index = 0
  BY DEF IInv, Arrival, Makes, Undelivered
<1>16. IsSeq(answers) /\ Len(answers) = 0 /\ Len(answers)' = 0
  BY <1>15 DEF IsSeq
<1>17. 1 \in 1 .. n + 1 /\ Len(answers) + 1 = 1 /\ Len(answers)' + 1 = 1
  BY <1>1, <1>16
<1>9. Offsets'
  <2>1. PICK off \in [0 .. n -> Nat] : Marks(off)
    BY <1>0 DEF IInv, Offsets
  <2>2. /\ off[0] = 0 /\ off[n] = Len(proof)
        /\ \A i \in 0 .. n : off[i] \in 0 .. Len(proof)
        /\ \A i \in 1 .. n :
             /\ off[i] = off[i - 1] + Size(calls[i])
             /\ \A k \in 1 .. Size(calls[i]) : proof[off[i - 1] + k] = calls[i].returned[k]
    BY <1>0, <2>1 DEF Marks
  <2> DEFINE size == Size(c)
             off2 == [i \in 0 .. n + 1 |-> IF i <= n THEN off[i] ELSE off[n] + size]
  <2>3. PICK proof2 : proof2 = (prover.proof)'
    OBVIOUS
  <2>4. /\ size \in Nat /\ Len(proof) \in Nat /\ Len(proof2) = Len(proof) + size
        /\ \A i \in 1 .. Len(proof) : proof2[i] = proof[i]
        /\ \A k \in 1 .. size : proof2[Len(proof) + k] = c.returned[k]
    <3>1. proof2 = IF IsMessage(c) THEN proof \o c.returned ELSE proof
      BY <1>0, <2>3 DEF Makes
    <3>2. Len(proof) \in Nat /\ Len(c.returned) \in Nat /\ IsSeq(c.returned)
      BY <1>4 DEF Makes, IsSeq
    <3>3. CASE IsMessage(c)
      <4>1. IsConcat(proof \o c.returned, proof, c.returned)
        BY <1>4, <3>2, ConcatFacts
      <4>2. size = Len(c.returned) /\ proof2 = proof \o c.returned
        BY <3>1, <3>3 DEF Size
      <4> HIDE DEF size
      <4> QED  BY <3>2, <4>1, <4>2 DEF IsConcat
    <3>4. CASE ~IsMessage(c)
      <4>1. size = 0 /\ proof2 = proof
        BY <3>1, <3>4 DEF Size
      <4> HIDE DEF size
      <4> QED  BY <3>2, <4>1
    <3> QED  BY <3>3, <3>4
  <2>5. Size(calls'[n + 1]) = size /\ \A i \in 1 .. n : Size(calls'[i]) = Size(calls[i])
    BY <1>1
  <2> HIDE DEF size
  <2>6. /\ off2[0] = 0 /\ off2[n + 1] = Len(proof2)
        /\ off2 \in [0 .. n + 1 -> Nat]
    BY <1>1, <2>2, <2>4
  <2>7. \A i \in 0 .. n + 1 : off2[i] \in 0 .. Len(proof2)
    BY <1>1, <2>2, <2>4
  <2>8. ASSUME NEW i \in 1 .. n + 1
        PROVE  /\ off2[i] = off2[i - 1] + Size(calls'[i])
               /\ \A k \in 1 .. Size(calls'[i]) :
                    proof2[off2[i - 1] + k] = calls'[i].returned[k]
    <3>1. CASE i \in 1 .. n
      <4>1. off2[i] = off[i] /\ off2[i - 1] = off[i - 1]
        BY <1>1, <3>1
      <4>2. Size(calls'[i]) = Size(calls[i]) /\ calls'[i] = calls[i]
        BY <1>1, <2>5, <3>1
      <4>3. off[i] = off[i - 1] + Size(calls[i])
        BY <2>2, <3>1
      <4>4. ASSUME NEW k \in 1 .. Size(calls[i])
            PROVE  proof2[off[i - 1] + k] = calls[i].returned[k]
        <5>1. proof[off[i - 1] + k] = calls[i].returned[k]
          BY <2>2, <3>1
        <5>2. off[i] \in 0 .. Len(proof) /\ off[i - 1] \in 0 .. Len(proof)
          <6>1. i \in 0 .. n /\ i - 1 \in 0 .. n
            BY <1>1, <3>1
          <6> QED  BY <6>1, <2>2
        <5>3. Size(calls[i]) \in Int
          <6>1. IsSeq(calls[i].returned)
            BY <1>0, <3>1 DEF IInv, CallsRight
          <6> QED  BY <6>1 DEF Size, IsSeq
        <5>4. off[i - 1] + k \in 1 .. Len(proof)
          BY <4>3, <5>2, <5>3, <2>4
        <5> QED  BY <2>4, <5>1, <5>4
      <4> HIDE DEF off2
      <4> QED  BY <4>1, <4>2, <4>3, <4>4
    <3>2. CASE i = n + 1
      <4>1. off2[i] = off[n] + size /\ off2[i - 1] = off[n]
        BY <1>1, <3>2
      <4>2. calls'[i] = c /\ Size(calls'[i]) = size
        BY <1>1, <2>5, <3>2
      <4>3. \A k \in 1 .. size : proof2[off[n] + k] = c.returned[k]
        BY <2>2, <2>4
      <4> HIDE DEF off2
      <4> QED  BY <4>1, <4>2, <4>3
    <3>3. i \in 1 .. n \/ i = n + 1
      BY <1>1
    <3> HIDE DEF off2
    <3> QED  BY <3>1, <3>2, <3>3
  <2> HIDE DEF off2
  <2>9. Marks(off2)'
    BY <1>1, <2>3, <2>6, <2>7, <2>8 DEF Marks, Size, IsMessage
  <2>10. (verifier.proof_read_index)' = off2[Len(answers)']
    BY <1>15, <1>16, <2>6
  <2>11. off2 \in [0 .. Len(calls)' -> Nat]
    BY <1>1, <2>6
  <2> QED  BY <2>9, <2>10, <2>11 DEF Offsets
<1>10. VerifierRight'
  <2>1. Committed(1)' <=> Committed(1)
    BY <1>2, <1>17
  <2>2. Len(answers)' <= Len(calls)'
    BY <1>1, <1>16
  <2> QED
    BY <1>15, <1>16, <1>17, <2>1, <2>2 DEF IInv, VerifierRight, IsSeq, GoodPrng, Of
<1>11. Arrival'
  BY <1>15 DEF Arrival, Undelivered
<1>12. Repeats'
  <2>1. (verifier.prng)' = PrngBefore(1)
    BY <1>15, <1>17 DEF IInv, Repeats
  <2>2. PrngBefore(1)' = PrngBefore(1)
    BY <1>2, <1>17
  <2>3. \A i \in 1 .. 0 : FALSE
    OBVIOUS
  <2> QED
    BY <1>15, <1>16, <1>17, <2>1, <2>2, <2>3 DEF Repeats, VerifierAssertions
<1> QED  BY <1>5, <1>6, <1>7, <1>8, <1>9, <1>10, <1>11, <1>12 DEF IInv

\* Every step of the prover makes a call or fails an assertion.
LEMMA SentFacts ==
  ASSUME ProverRight, NEW raw_bytes
  PROVE  Sent(raw_bytes)
           = [prng |-> Absorbed(prover.prng, raw_bytes, ~prover.in_query_phase),
              in_query_phase |-> prover.in_query_phase,
              proof |-> prover.proof \o raw_bytes]
<1>0. PICK prng, in_query, proof :
        prng = prover.prng /\ in_query = prover.in_query_phase /\ proof = prover.proof
  OBVIOUS
<1> DEFINE longer == proof \o raw_bytes
           hashed == IF in_query THEN prng ELSE UpdateHashChain(prng, raw_bytes)
           sent == [prover EXCEPT !.proof = longer]
<1>1. prover = [prng |-> prng, in_query_phase |-> in_query, proof |-> proof]
  BY <1>0 DEF ProverRight
<1>2. Sent(raw_bytes) = [prover EXCEPT !.proof = longer, !.prng = hashed]
  BY <1>0, Zenon DEF Sent
<1>3. hashed = Absorbed(prng, raw_bytes, ~in_query)
  BY Zenon DEF Absorbed
<1> HIDE DEF longer, hashed
<1>4. sent = [prng |-> prng, in_query_phase |-> in_query, proof |-> longer]
  BY <1>1
<1>5. [prover EXCEPT !.proof = longer, !.prng = hashed] = [sent EXCEPT !.prng = hashed]
  BY Zenon
<1> HIDE DEF sent
<1>6. [sent EXCEPT !.prng = hashed]
        = [prng |-> hashed, in_query_phase |-> in_query, proof |-> longer]
  BY <1>4
<1> QED  BY <1>0, <1>2, <1>3, <1>5, <1>6 DEF longer

LEMMA AbsorbedGood ==
  ASSUME NEW prng, GoodPrng(prng), NEW raw_bytes, NEW committed
  PROVE  GoodPrng(Absorbed(prng, raw_bytes, committed))
<1> DEFINE hash == Append(prng.hash, raw_bytes)
           chain == [hash |-> hash, counter |-> 0, spare |-> <<>>]
<1>1. IsSeq(hash)
  BY AppendFacts DEF GoodPrng, IsExtended
<1> HIDE DEF hash
<1>2. chain.hash = hash /\ chain.counter = 0 /\ chain.spare = <<>>
      /\ chain = [hash |-> chain.hash, counter |-> chain.counter, spare |-> chain.spare]
  OBVIOUS
<1> HIDE DEF chain
<1>3. IsSeq(<<>>) /\ Len(<<>>) = 0
  BY EmptySeq
<1>4. GoodPrng(chain)
  BY <1>1, <1>2, <1>3, DigestAssumption DEF GoodPrng, Of
<1>5. UpdateHashChain(prng, raw_bytes) = chain
  BY DEF UpdateHashChain, chain, hash
<1> QED  BY <1>4, <1>5, Zenon DEF Absorbed

LEMMA NonceFacts ==
  ASSUME NEW state, NEW work_bits
  PROVE  IsSeq(Nonce(state, work_bits)) /\ Len(Nonce(state, work_bits)) = NumberBytes
<1> DEFINE sent_nonce == Nonce(state, work_bits)
<1>1. NumberBytes \in Nat
  BY ChannelAssumption
<1>2. /\ DOMAIN sent_nonce = 1 .. NumberBytes
      /\ sent_nonce = [i \in 1 .. NumberBytes |-> sent_nonce[i]]
  BY DEF Nonce
<1> HIDE DEF sent_nonce
<1>3. IsSeq(sent_nonce) /\ Len(sent_nonce) = NumberBytes
  BY <1>1, <1>2, ListedIsSeq
<1> QED  BY <1>3 DEF sent_nonce

LEMMA SendRight ==
  ASSUME IInv, NEW m \in Data, Send(m)
  PROVE  IInv'
<1> DEFINE next == Absorbed(prover.prng, m, ~prover.in_query_phase)
           c == [call |-> "data", arg |-> Len(m), returned |-> m, prng |-> next]
<1>1. c.call = "data" /\ c.arg = Len(m) /\ c.returned = m /\ c.prng = next
  OBVIOUS
<1>2. ProverRight /\ GoodPrng(prover.prng)
  BY DEF IInv, ProverRight
<1>3. prover' = [prng |-> next, in_query_phase |-> prover.in_query_phase,
                 proof |-> prover.proof \o m]
  BY <1>2, SentFacts DEF Send
<1>4. calls' = Append(calls, c)
  BY <1>3 DEF Send, Called
<1>5. IsSeq(m)
  BY ChannelAssumption, SeqIsSeq
<1>6. GoodPrng(next)
  BY <1>2, AbsorbedGood
<1> HIDE DEF next, c
<1>7. IsMessage(c) /\ c.call # "query phase"
  BY <1>1 DEF IsMessage
<1>8. RightCall(c, prover.prng, ~prover.in_query_phase)
  BY <1>1 DEF RightCall, next
<1>9. (prover.in_query_phase \/ c.call = "query phase") = prover.in_query_phase
  BY <1>2, <1>7 DEF ProverRight
<1>10. Makes(c)
  BY <1>1, <1>3, <1>4, <1>5, <1>6, <1>7, <1>8, <1>9 DEF Makes, Send, Proving
<1> QED  BY <1>10, CallMade

\* The record of the calls stays when the calls do.
LEMMA SameRecord ==
  ASSUME UNCHANGED calls
  PROVE  /\ \A i : /\ PrngBefore(i)' = PrngBefore(i)
                   /\ Committed(i)' <=> Committed(i)
                   /\ MessagesBefore(i)' = MessagesBefore(i)
         /\ \A hash, i : HashOf(hash, MessagesBefore(i))' <=> HashOf(hash, MessagesBefore(i))
<1>1. \A i : PrngBefore(i)' = PrngBefore(i)
  BY DEF PrngBefore
<1>2. \A i : Committed(i)' <=> Committed(i)
  BY DEF Committed
<1>3. \A i : MessagesBefore(i)' = MessagesBefore(i)
  BY DEF MessagesBefore, IsMessage
<1>4. ASSUME NEW hash, NEW i
      PROVE  HashOf(hash, MessagesBefore(i))' <=> HashOf(hash, MessagesBefore(i))
  BY <1>3 DEF HashOf
<1> QED  BY <1>1, <1>2, <1>3, <1>4

LEMMA ProverSideUnchanged ==
  ASSUME IInv, UNCHANGED <<calls, prover, first_operand>>
  PROVE  /\ CallsRight' /\ ProverRight' /\ HashRight' /\ TranscriptBound'
         /\ \A off : Marks(off)' <=> Marks(off)
<1>1. CallsRight'
  <2>1. ASSUME NEW i \in 1 .. Len(calls)
        PROVE  IsSeq(calls[i].returned)' /\ RightCall(calls[i], PrngBefore(i), Committed(i))'
    <3>1. PICK d, before, b : d = calls[i] /\ before = PrngBefore(i) /\ b = Committed(i)
      OBVIOUS
    <3>2. IsSeq(d.returned) /\ RightCall(d, before, b)
      BY <3>1 DEF IInv, CallsRight
    <3>3. RightCall(d, before, b)'
      BY <3>2, SameCall
    <3>4. d = calls'[i] /\ before = PrngBefore(i)'
      BY <3>1, SameRecord
    <3>5. b = Committed(i)'
      BY <3>1, SameRecord DEF Committed
    <3> QED  BY <3>2, <3>3, <3>4, <3>5 DEF IsSeq
  <2> QED  BY <2>1 DEF IInv, CallsRight, IsSeq
<1>2. ProverRight'
  <2>1. PICK n : n = Len(calls) + 1
    OBVIOUS
  <2>2. PrngBefore(n)' = PrngBefore(n) /\ (Committed(n)' <=> Committed(n))
    BY SameRecord
  <2> QED  BY <2>1, <2>2 DEF IInv, ProverRight, GoodPrng, Of, IsSeq
<1>3. HashRight'
  <2>1. PICK n, hash : n = Len(calls) + 1 /\ hash = prover.prng.hash
    OBVIOUS
  <2>2. HashOf(hash, MessagesBefore(n))' <=> HashOf(hash, MessagesBefore(n))
    BY SameRecord
  <2> QED  BY <2>1, <2>2 DEF IInv, HashRight
<1>4. TranscriptBound'
  <2>1. ASSUME NEW i, NEW b
        PROVE  HashOf(calls[i].returned[b].hash, MessagesBefore(i))'
                 <=> HashOf(calls[i].returned[b].hash, MessagesBefore(i))
    <3>1. PICK hash : hash = calls[i].returned[b].hash
      OBVIOUS
    <3>2. HashOf(hash, MessagesBefore(i))' <=> HashOf(hash, MessagesBefore(i))
      BY SameRecord
    <3> QED  BY <3>1, <3>2
  <2> QED  BY <2>1 DEF IInv, TranscriptBound, Randoms
<1>5. ASSUME NEW off
      PROVE  Marks(off)' <=> Marks(off)
  BY DEF Marks, Size, IsMessage
<1> QED  BY <1>1, <1>2, <1>3, <1>4, <1>5

\* So does what the verifier has read, when it reads nothing.
LEMMA VerifierSideUnchanged ==
  ASSUME IInv, UNCHANGED <<calls, prover, first_operand, verifier, answers>>
  PROVE  Offsets' /\ VerifierRight'
<1>1. Offsets'
  <2>1. PICK off \in [0 .. Len(calls) -> Nat] :
               Marks(off) /\ verifier.proof_read_index = off[Len(answers)]
    BY DEF IInv, Offsets
  <2>2. Marks(off)'
    BY <2>1, ProverSideUnchanged
  <2> QED  BY <2>1, <2>2 DEF Offsets
<1>2. VerifierRight'
  <2>1. PICK n : n = Len(answers) + 1
    OBVIOUS
  <2>2. Committed(n)' <=> Committed(n)
    BY SameRecord
  <2> QED  BY <2>1, <2>2 DEF IInv, VerifierRight, GoodPrng, Of, IsSeq
<1> QED  BY <1>1, <1>2

\* After a failed assertion nothing happens any more.
LEMMA ProverFailed ==
  ASSUME IInv, Proving, NEW assertion \in Undelivered, ProverFails(assertion)
  PROVE  IInv'
<1>1. UNCHANGED <<calls, prover, verifier, answers, damage, first_operand>>
      /\ stage = "proving" /\ stage' \in Undelivered
  BY DEF Proving, ProverFails
<1>2. CallsRight' /\ ProverRight' /\ HashRight' /\ TranscriptBound'
  BY <1>1, ProverSideUnchanged
<1>3. Offsets' /\ VerifierRight'
  BY <1>1, VerifierSideUnchanged
<1>4. Arrival'
  BY <1>1 DEF IInv, Arrival, Undelivered
<1>5. Repeats'
  <2>1. PICK n : n = Len(answers) + 1
    OBVIOUS
  <2>2. PrngBefore(n)' = PrngBefore(n)
    BY <1>1, SameRecord
  <2> QED  BY <1>1, <2>1, <2>2 DEF IInv, Repeats, VerifierAssertions, Undelivered
<1> QED  BY <1>2, <1>3, <1>4, <1>5 DEF IInv

LEMMA DrawRight ==
  ASSUME IInv, NEW call \in Randoms, NEW drawn, Drawn(prover.prng, drawn),
         ProverDraws(call, drawn),
         \/ call = "number" /\ drawn = RandomNumber(prover.prng)
         \/ call = "element" /\ drawn = RandomExtensionElement(prover.prng)
  PROVE  IInv'
<1> DEFINE c == [call |-> call, arg |-> 0, returned |-> drawn.bytes, prng |-> drawn.chain]
<1>1. c.call = call /\ c.arg = 0 /\ c.returned = drawn.bytes /\ c.prng = drawn.chain
  OBVIOUS
<1>2. CASE prover.in_query_phase
  <2>1. ProverFails("prover drew in query phase") /\ Proving
    BY <1>2 DEF ProverDraws
  <2>2. "prover drew in query phase" \in Undelivered
    BY DEF Undelivered
  <2> QED  BY <2>1, <2>2, ProverFailed
<1>3. CASE ~prover.in_query_phase
  <2>1. /\ Proving /\ stage' = stage
        /\ prover' = [prover EXCEPT !.prng = drawn.chain]
        /\ calls' = Append(calls, c)
    BY <1>3 DEF ProverDraws, Called
  <2> HIDE DEF c
  <2>2. prover' = [prng |-> drawn.chain, in_query_phase |-> prover.in_query_phase,
                   proof |-> prover.proof]
    BY <2>1 DEF IInv, ProverRight
  <2>3. c.call # "query phase" /\ ~IsMessage(c)
    BY <1>1 DEF Randoms, IsMessage
  <2>4. RightCall(c, prover.prng, ~prover.in_query_phase)
    BY <1>1, <1>3, Zenon DEF RightCall
  <2>5. IsSeq(c.returned) /\ GoodPrng(c.prng)
    BY <1>1 DEF Drawn, Of
  <2>6. (prover.in_query_phase \/ c.call = "query phase") = prover.in_query_phase
    BY <2>3 DEF IInv, ProverRight
  <2>7. Makes(c)
    BY <1>1, <2>1, <2>2, <2>3, <2>4, <2>5, <2>6 DEF Makes, Proving
  <2> QED  BY <2>7, CallMade
<1> QED  BY <1>2, <1>3

LEMMA ProverDrawsRight ==
  ASSUME IInv, ReceiveNumber \/ ReceiveFieldElement
  PROVE  IInv'
<1>1. GoodPrng(prover.prng)
  BY DEF IInv, ProverRight
<1>2. CASE ReceiveNumber
  <2>1. Drawn(prover.prng, RandomNumber(prover.prng))
    BY <1>1, BytesDrawn, ChannelAssumption DEF RandomNumber
  <2>2. "number" \in Randoms
    BY DEF Randoms
  <2> QED  BY <1>2, <2>1, <2>2, DrawRight DEF ReceiveNumber
<1>3. CASE ReceiveFieldElement
  <2>1. Drawn(prover.prng, RandomExtensionElement(prover.prng))
    BY <1>1, ExtensionElementDrawn
  <2>2. "element" \in Randoms
    BY DEF Randoms
  <2> QED  BY <1>3, <2>1, <2>2, DrawRight DEF ReceiveFieldElement
<1> QED  BY <1>2, <1>3

\* A call that sends nothing and leaves the generator alone.
LEMMA SilentRight ==
  ASSUME IInv, Proving, stage' = stage,
         NEW call, Called(call, 0, NoBytes, prover.prng),
         \/ call = "pow" /\ prover' = prover
         \/ call = "query phase" /\ prover' = [prover EXCEPT !.in_query_phase = TRUE]
  PROVE  IInv'
<1> DEFINE c == [call |-> call, arg |-> 0, returned |-> NoBytes, prng |-> prover.prng]
<1>1. c.call = call /\ c.arg = 0 /\ c.returned = NoBytes /\ c.prng = prover.prng
  OBVIOUS
<1>2. calls' = Append(calls, c)
  BY DEF Called
<1> HIDE DEF c
<1>3. ~IsMessage(c)
  <2>1. c.call # "data"
    BY <1>1, Zenon
  <2> QED  BY <1>1, <2>1, QuietCall
<1>4. RightCall(c, prover.prng, ~prover.in_query_phase)
  BY <1>1, Zenon DEF RightCall
<1>5. IsSeq(c.returned) /\ GoodPrng(c.prng)
  BY <1>1, EmptySeq, Zenon DEF NoBytes, IInv, ProverRight
<1>6. prover' = [prng |-> prover.prng,
                 in_query_phase |-> prover.in_query_phase \/ call = "query phase",
                 proof |-> prover.proof]
  <2>0. prover = [prng |-> prover.prng, in_query_phase |-> prover.in_query_phase,
                  proof |-> prover.proof] /\ prover.in_query_phase \in BOOLEAN
    BY DEF IInv, ProverRight
  <2>1. CASE call = "pow" /\ prover' = prover
    <3>1. (prover.in_query_phase \/ call = "query phase") = prover.in_query_phase
      BY <2>0, <2>1
    <3> QED  BY <2>0, <2>1, <3>1
  <2>2. CASE call = "query phase" /\ prover' = [prover EXCEPT !.in_query_phase = TRUE]
    <3>1. (prover.in_query_phase \/ call = "query phase") = TRUE
      BY <2>2
    <3> QED  BY <2>0, <2>2, <3>1
  <2> QED  BY <2>1, <2>2
<1>7. Makes(c)
  BY <1>1, <1>2, <1>3, <1>4, <1>5, <1>6 DEF Makes, Proving
<1> QED  BY <1>7, CallMade

LEMMA ProverWorksRight ==
  ASSUME IInv, NEW bits \in PowBits, ProverApplyProofOfWork(bits)
  PROVE  IInv'
<1>0. Proving /\ bits \in 0 .. 50
  BY ChannelAssumption DEF ProverApplyProofOfWork, ProofOfWorkBits
<1>1. CASE bits = 0
  <2>1. Called("pow", 0, NoBytes, prover.prng) /\ prover' = prover /\ stage' = stage
    BY <1>1 DEF ProverApplyProofOfWork
  <2> QED  BY <1>0, <2>1, SilentRight
<1>2. CASE bits > MaxWorkBits
  <2>1. ProverFails("too many bits of work")
    <3>1. ~(bits = 0)
      BY <1>2 DEF MaxWorkBits
    <3> QED  BY <3>1, <1>2, Zenon DEF ProverApplyProofOfWork
  <2>2. "too many bits of work" \in Undelivered
    BY DEF Undelivered
  <2> QED  BY <1>0, <2>1, <2>2, ProverFailed
<1>3. CASE bits # 0 /\ ~(bits > MaxWorkBits)
  <2> DEFINE sent_nonce == Nonce(prover.prng.hash, bits)
             next == Absorbed(prover.prng, sent_nonce, ~prover.in_query_phase)
             c == [call |-> "pow", arg |-> bits, returned |-> sent_nonce, prng |-> next]
  <2>1. c.call = "pow" /\ c.arg = bits /\ c.returned = sent_nonce /\ c.prng = next
    OBVIOUS
  <2>2. ProverRight /\ GoodPrng(prover.prng)
    BY DEF IInv, ProverRight
  <2>3. /\ prover' = Sent(sent_nonce)
        /\ Called("pow", bits, sent_nonce, (prover.prng)')
        /\ stage' = stage
    <3>1. ~(bits = 0) /\ ~(bits > MaxWorkBits)
      BY <1>3
    <3> HIDE DEF sent_nonce
    <3>2. prover' = Sent(sent_nonce)
      BY <3>1 DEF ProverApplyProofOfWork, sent_nonce
    <3>3. Called("pow", bits, sent_nonce, (prover.prng)')
      BY <3>1 DEF ProverApplyProofOfWork, sent_nonce
    <3>4. stage' = stage
      BY <3>1 DEF ProverApplyProofOfWork
    <3> QED  BY <3>2, <3>3, <3>4
  <2>4. IsSeq(sent_nonce)
    BY NonceFacts
  <2> HIDE DEF sent_nonce
  <2>5. prover' = [prng |-> next, in_query_phase |-> prover.in_query_phase,
                   proof |-> prover.proof \o sent_nonce]
    BY <2>2, <2>3, SentFacts
  <2>6. calls' = Append(calls, c)
    BY <2>3, <2>5 DEF Called
  <2>7. GoodPrng(next)
    BY <2>2, AbsorbedGood
  <2> HIDE DEF next, c
  <2>8. bits \in 1 .. MaxWorkBits /\ bits > 0
    BY <1>0, <1>3 DEF MaxWorkBits
  <2>9. IsMessage(c) /\ c.call # "query phase"
    BY <2>1, <2>8 DEF IsMessage
  <2>10. RightCall(c, prover.prng, ~prover.in_query_phase)
    BY <2>1, <2>8, Zenon DEF RightCall, next, sent_nonce
  <2>11. (prover.in_query_phase \/ c.call = "query phase") = prover.in_query_phase
    BY <2>2, <2>9 DEF ProverRight
  <2>12. Makes(c)
    BY <1>0, <2>1, <2>3, <2>4, <2>5, <2>6, <2>7, <2>9, <2>10, <2>11 DEF Makes, Proving
  <2> QED  BY <2>12, CallMade
<1> QED  BY <1>1, <1>2, <1>3

LEMMA ProverStepRight ==
  ASSUME IInv, ProverStep
  PROVE  IInv'
<1>1. CASE \E m \in Data : Send(m)
  BY <1>1, SendRight
<1>2. CASE ReceiveNumber \/ ReceiveFieldElement
  BY <1>2, ProverDrawsRight
<1>3. CASE \E bits \in PowBits : ProverApplyProofOfWork(bits)
  BY <1>3, ProverWorksRight
<1>4. CASE ProverBeginQueryPhase
  BY <1>4, SilentRight DEF ProverBeginQueryPhase
<1> QED  BY <1>1, <1>2, <1>3, <1>4 DEF ProverStep

-----------------------------------------------------------------------------
(* The proof reaches the verifier.                                         *)

LEMMA ArrivedFacts ==
  ASSUME IsSeq(prover.proof), NEW d \in Damages
  PROVE  /\ d.kind \in {"none", "cut", "altered"}
         /\ IsSeq(Arrived(d))
         /\ d.kind = "none" => Arrived(d) = prover.proof
         /\ d.kind = "cut" => Len(Arrived(d)) < Len(prover.proof)
<1>0. PICK proof : proof = prover.proof /\ IsSeq(proof)
  OBVIOUS
<1>1. Len(proof) \in Nat /\ DOMAIN proof = 1 .. Len(proof)
  BY <1>0, SeqOfElements DEF IsSeq
<1>2. \/ d.kind = "none"
      \/ d.kind \in {"cut", "altered"} /\ d.at \in 1 .. Len(proof)
  BY <1>0, <1>1 DEF Damages
<1>3. CASE d.kind = "none"
  BY <1>0, <1>3 DEF Arrived
<1>4. CASE d.kind = "cut"
  <2>1. d.at \in 1 .. Len(proof)
    BY <1>2, <1>4
  <2>2. 1 \in 1 .. Len(proof) + 1 /\ d.at - 1 \in 0 .. Len(proof) /\ 1 <= (d.at - 1) + 1
    BY <1>1, <2>1
  <2>3. IsPart(SubSeq(proof, 1, d.at - 1), proof, 1, d.at - 1)
    BY <1>0, <2>2, SubSeqFacts
  <2>4. Arrived(d) = SubSeq(proof, 1, d.at - 1)
    BY <1>0, <1>4 DEF Arrived
  <2>5. (d.at - 1) - 1 + 1 < Len(proof)
    BY <1>1, <2>1
  <2> QED  BY <1>0, <1>4, <2>3, <2>4, <2>5 DEF IsPart
<1>5. CASE d.kind = "altered"
  <2>1. Arrived(d) = [proof EXCEPT ![d.at] = Garbage]
    BY <1>0, <1>5 DEF Arrived
  <2> DEFINE other == [proof EXCEPT ![d.at] = Garbage]
  <2>2. DOMAIN other = 1 .. Len(proof) /\ other = [i \in 1 .. Len(proof) |-> other[i]]
    BY <1>1
  <2> HIDE DEF other
  <2>3. IsSeq(other)
    BY <1>1, <2>2, ListedIsSeq
  <2> QED  BY <1>5, <2>1, <2>3 DEF other
<1> QED  BY <1>2, <1>3, <1>4, <1>5

LEMMA DeliverRight ==
  ASSUME IInv, Deliver
  PROVE  IInv'
<1>1. /\ stage = "proving" /\ stage' = "verifying" /\ damage' \in Damages
      /\ UNCHANGED <<calls, prover, answers, first_operand>>
  BY DEF Deliver
<1>2. PICK proof : proof = Arrived(damage')
  OBVIOUS
<1>3. /\ (damage.kind)' \in {"none", "cut", "altered"} /\ IsSeq(proof)
      /\ (damage.kind)' = "none" => proof = prover.proof
      /\ (damage.kind)' = "cut" => Len(proof) < Len(prover.proof)
  BY <1>1, <1>2, ArrivedFacts DEF IInv, ProverRight
<1>4. /\ answers = <<>> /\ damage.kind = "none" /\ verifier.proof_read_index = 0
      /\ stage \notin VerifierAssertions
  BY <1>1 DEF IInv, Arrival, Undelivered, VerifierAssertions
<1>5. verifier' = [prng |-> verifier.prng, in_query_phase |-> verifier.in_query_phase,
                   proof |-> proof, proof_read_index |-> 0]
  <2>1. verifier' = [verifier EXCEPT !.proof = proof]
    BY <1>2 DEF Deliver
  <2>2. verifier = [prng |-> verifier.prng, in_query_phase |-> verifier.in_query_phase,
                    proof |-> verifier.proof, proof_read_index |-> 0]
    BY <1>4 DEF IInv, VerifierRight
  <2> QED  BY <2>1, <2>2
<1>6. CallsRight' /\ ProverRight' /\ HashRight' /\ TranscriptBound'
  BY <1>1, ProverSideUnchanged
<1>7. Offsets'
  <2>1. PICK off \in [0 .. Len(calls) -> Nat] :
               Marks(off) /\ verifier.proof_read_index = off[Len(answers)]
    BY DEF IInv, Offsets
  <2>2. Marks(off)'
    BY <1>1, <2>1, ProverSideUnchanged
  <2> QED  BY <1>1, <1>4, <1>5, <2>1, <2>2 DEF Offsets
<1>8. VerifierRight'
  <2>1. PICK n : n = Len(answers) + 1
    OBVIOUS
  <2>2. Committed(n)' <=> Committed(n)
    BY <1>1, SameRecord
  <2>3. 0 \in 0 .. Len(proof)
    BY <1>3 DEF IsSeq
  <2>4. /\ (verifier.prng)' = verifier.prng /\ (verifier.proof_read_index)' = 0
        /\ (verifier.in_query_phase)' = verifier.in_query_phase
        /\ (verifier.proof)' = proof
        /\ verifier' = [prng |-> (verifier.prng)',
                        in_query_phase |-> (verifier.in_query_phase)',
                        proof |-> (verifier.proof)',
                        proof_read_index |-> (verifier.proof_read_index)']
    BY <1>5
  <2> QED
    BY <1>1, <1>3, <2>1, <2>2, <2>3, <2>4 DEF IInv, VerifierRight, GoodPrng, Of, IsSeq
<1>9. Arrival'
  BY <1>1, <1>3, <1>5 DEF Arrival, Undelivered
<1>10. Repeats'
  <2>1. PICK n : n = Len(answers) + 1
    OBVIOUS
  <2>2. PrngBefore(n)' = PrngBefore(n)
    BY <1>1, SameRecord
  <2>3. Len(answers) = 0
    BY <1>4
  <2> QED  BY <1>1, <1>4, <1>5, <2>1, <2>2, <2>3 DEF IInv, Repeats, VerifierAssertions
<1> QED  BY <1>6, <1>7, <1>8, <1>9, <1>10 DEF IInv

-----------------------------------------------------------------------------
(* One more call of the verifier.                                          *)

\* The verifier answers its next call, with a message of the size it expects.
AnswersWith(returned, prng) ==
  /\ stage = "verifying" /\ Len(answers) < Len(calls)
  /\ GoodPrng(prng)
  /\ damage.kind = "none" => returned = NextCall.returned /\ prng = NextCall.prng
  /\ verifier.proof_read_index + Size(NextCall) <= Len(verifier.proof)
  /\ verifier' = [prng |-> prng,
                  in_query_phase |-> verifier.in_query_phase \/ NextCall.call = "query phase",
                  proof |-> verifier.proof,
                  proof_read_index |-> verifier.proof_read_index + Size(NextCall)]
  /\ answers' = Append(answers, returned)
  /\ UNCHANGED <<calls, prover, damage, first_operand, stage>>

LEMMA AnswerRight ==
  ASSUME IInv, NEW returned, NEW prng, AnswersWith(returned, prng)
  PROVE  IInv'
<1>0. PICK n, c, size, old_answers :
        n = Len(answers) /\ c = calls[n + 1] /\ size = Size(c) /\ old_answers = answers
  OBVIOUS
<1>1. /\ UNCHANGED <<calls, prover, damage, first_operand, stage>>
      /\ stage = "verifying" /\ n < Len(calls)
      /\ NextCall = c /\ GoodPrng(prng)
  BY <1>0 DEF AnswersWith, NextCall
<1>2. /\ n \in Nat /\ Len(calls) \in Nat /\ n + 1 \in 1 .. Len(calls)
  BY <1>0, <1>1 DEF IInv, VerifierRight, CallsRight, IsSeq
<1>3. size \in Nat
  BY <1>0, <1>2 DEF IInv, CallsRight, Size, IsSeq
<1>4. /\ IsSeq(answers)' /\ Len(answers)' = n + 1
      /\ \A i \in 1 .. n : answers'[i] = answers[i]
      /\ answers'[n + 1] = returned
  <2>1. IsExtended(Append(answers, returned), answers, returned)
    BY AppendFacts DEF IInv, VerifierRight
  <2>2. IsExtended(answers', answers, returned)
    BY <2>1 DEF AnswersWith
  <2> QED  BY <1>0, <2>2 DEF IsExtended, IsSeq
<1>5. PICK index, proof : index = verifier.proof_read_index /\ proof = verifier.proof
  OBVIOUS
<1>6. /\ verifier' = [prng |-> prng,
                      in_query_phase |-> verifier.in_query_phase \/ c.call = "query phase",
                      proof |-> proof, proof_read_index |-> index + size]
      /\ index + size <= Len(proof) /\ index \in Nat /\ IsSeq(proof)
  <2>1. index \in 0 .. Len(proof) /\ IsSeq(proof)
    BY <1>5 DEF IInv, VerifierRight
  <2>2. index \in Nat
    BY <2>1
  <2>3. Size(NextCall) = size /\ NextCall.call = c.call
    BY <1>0, <1>1
  <2>4. /\ index + size <= Len(proof)
        /\ verifier' = [prng |-> prng,
                        in_query_phase |-> verifier.in_query_phase \/ c.call = "query phase",
                        proof |-> proof, proof_read_index |-> index + size]
    BY <1>5, <2>3, Zenon DEF AnswersWith
  <2> QED  BY <2>1, <2>2, <2>4
<1>7. CallsRight' /\ ProverRight' /\ HashRight' /\ TranscriptBound'
  BY <1>1, ProverSideUnchanged
<1>8. Offsets'
  <2>1. PICK off \in [0 .. Len(calls) -> Nat] :
               Marks(off) /\ verifier.proof_read_index = off[Len(answers)]
    BY DEF IInv, Offsets
  <2>2. Marks(off)'
    BY <1>1, <2>1, ProverSideUnchanged
  <2>3. off[n + 1] = off[n] + size
    <3>1. off[n + 1] = off[n + 1 - 1] + Size(calls[n + 1])
      BY <1>2, <2>1 DEF Marks
    <3>2. n + 1 - 1 = n
      BY <1>2
    <3> QED  BY <3>1, <3>2, <1>0
  <2>4. (verifier.proof_read_index)' = off[n + 1]
    BY <1>0, <1>5, <1>6, <2>1, <2>3
  <2> QED  BY <1>1, <1>4, <2>2, <2>4 DEF Offsets
<1>9. PrngBefore(n + 2)' = c.prng
  <2>1. PrngBefore(n + 2)' = PrngBefore(n + 2)
    BY <1>1, SameRecord
  <2>2. n + 2 # 1 /\ n + 2 - 1 = n + 1
    BY <1>2
  <2> QED  BY <1>0, <2>1, <2>2 DEF PrngBefore
<1>10. Committed(n + 2)' <=> Committed(n + 1) /\ c.call # "query phase"
  <2>1. PICK m, k : m = n + 2 /\ k = n + 1
    OBVIOUS
  <2>2. Committed(m)' <=> Committed(m)
    BY <1>1, SameRecord
  <2>3. 1 .. m - 1 = 1 .. n \cup {n + 1} /\ 1 .. k - 1 = 1 .. n
    BY <1>2, <2>1
  <2>4. Committed(m) <=> Committed(k) /\ c.call # "query phase"
    BY <2>3, <1>0 DEF Committed
  <2> QED  BY <2>1, <2>2, <2>4
<1>11. Len(answers)' + 1 = n + 2 /\ Len(answers) + 1 = n + 1
  BY <1>0, <1>2, <1>4
<1>12. VerifierRight'
  <2>1. (verifier.in_query_phase)' = (verifier.in_query_phase \/ c.call = "query phase")
    BY <1>6
  <2>2. /\ verifier.in_query_phase \in BOOLEAN
        /\ (verifier.in_query_phase <=> ~Committed(n + 1))
    BY <1>11 DEF IInv, VerifierRight
  <2>3. /\ (verifier.in_query_phase)' \in BOOLEAN
        /\ (verifier.in_query_phase)' <=> ~Committed(n + 2)'
    BY <1>10, <2>1, <2>2
  <2>4. index + size \in 0 .. Len(proof)
    <3>1. Len(proof) \in Nat
      BY <1>6 DEF IsSeq
    <3>2. index + size <= Len(proof) /\ index \in Nat
      BY <1>6
    <3> QED  BY <3>1, <3>2, <1>3
  <2>5. /\ (verifier.prng)' = prng /\ (verifier.proof_read_index)' = index + size
        /\ (verifier.proof)' = proof
        /\ verifier' = [prng |-> (verifier.prng)',
                        in_query_phase |-> (verifier.in_query_phase)',
                        proof |-> (verifier.proof)',
                        proof_read_index |-> (verifier.proof_read_index)']
    BY <1>6
  <2>6. Len(answers)' <= Len(calls)'
    BY <1>1, <1>2, <1>4
  <2> QED
    BY <1>1, <1>4, <1>6, <1>11, <2>3, <2>4, <2>5, <2>6
    DEF VerifierRight, GoodPrng, Of, IsSeq
<1>13. Arrival'
  BY <1>1, <1>5, <1>6 DEF IInv, Arrival, Undelivered
<1>14. Repeats'
  <2>1. ASSUME damage.kind = "none"
        PROVE  /\ \A i \in 1 .. n + 1 : answers'[i] = calls[i].returned
               /\ (verifier.prng)' = PrngBefore(n + 2)'
    <3>1. returned = c.returned /\ prng = c.prng
      BY <1>1, <2>1 DEF AnswersWith
    <3>2. \A i \in 1 .. n : answers[i] = calls[i].returned
      BY <1>0, <2>1 DEF IInv, Repeats
    <3>3. \A i \in 1 .. n + 1 : i \in 1 .. n \/ i = n + 1
      BY <1>2
    <3>4. \A i \in 1 .. n + 1 : answers'[i] = calls[i].returned
      BY <1>0, <1>4, <3>1, <3>2, <3>3
    <3> QED  BY <1>6, <1>9, <3>1, <3>4
  <2> QED  BY <1>1, <1>4, <1>11, <2>1 DEF Repeats, VerifierAssertions
<1> QED  BY <1>7, <1>8, <1>12, <1>13, <1>14 DEF IInv

\* The verifier fails an assertion, on a proof that was damaged.
LEMMA RejectRight ==
  ASSUME IInv, stage = "verifying", UNCHANGED <<calls, prover, damage, first_operand>>,
         NEW assertion \in VerifierAssertions, Rejects(assertion), damage.kind # "none"
  PROVE  IInv'
<1>1. stage' \in VerifierAssertions /\ UNCHANGED <<verifier, answers>>
  BY DEF Rejects
<1>2. CallsRight' /\ ProverRight' /\ HashRight' /\ TranscriptBound'
  BY ProverSideUnchanged
<1>3. Offsets' /\ VerifierRight'
  BY <1>1, VerifierSideUnchanged
<1>4. Arrival'
  BY <1>1 DEF IInv, Arrival, Undelivered, VerifierAssertions
<1>5. Repeats'
  BY <1>1 DEF Repeats, VerifierAssertions
<1> QED  BY <1>2, <1>3, <1>4, <1>5 DEF IInv

LEMMA AcceptRight ==
  ASSUME IInv, Accept
  PROVE  IInv'
<1>1. /\ stage = "verifying" /\ stage' = "accepted" /\ Len(answers) = Len(calls)
      /\ UNCHANGED <<calls, prover, verifier, answers, damage, first_operand>>
  BY DEF Accept
<1>2. CallsRight' /\ ProverRight' /\ HashRight' /\ TranscriptBound'
  BY <1>1, ProverSideUnchanged
<1>3. Offsets' /\ VerifierRight'
  BY <1>1, VerifierSideUnchanged
<1>4. Arrival'
  BY <1>1 DEF IInv, Arrival, Undelivered
<1>5. Repeats'
  <2>1. PICK n : n = Len(answers) + 1
    OBVIOUS
  <2>2. PrngBefore(n)' = PrngBefore(n)
    BY <1>1, SameRecord
  <2> QED  BY <1>1, <2>1, <2>2 DEF IInv, Repeats, VerifierAssertions
<1> QED  BY <1>2, <1>3, <1>4, <1>5 DEF IInv

LEMMA EndedRight ==
  ASSUME IInv, UNCHANGED vars
  PROVE  IInv'
<1>1. UNCHANGED <<calls, prover, verifier, answers, damage, first_operand, stage>>
  BY DEF vars
<1>2. CallsRight' /\ ProverRight' /\ HashRight' /\ TranscriptBound'
  BY <1>1, ProverSideUnchanged
<1>3. Offsets' /\ VerifierRight'
  BY <1>1, VerifierSideUnchanged
<1>4. Arrival'
  BY <1>1 DEF IInv, Arrival, Undelivered
<1>5. Repeats'
  <2>1. PICK n : n = Len(answers) + 1
    OBVIOUS
  <2>2. PrngBefore(n)' = PrngBefore(n)
    BY <1>1, SameRecord
  <2> QED  BY <1>1, <2>1, <2>2 DEF IInv, Repeats, VerifierAssertions
<1> QED  BY <1>2, <1>3, <1>4, <1>5 DEF IInv

\* The verifier's next call on an undamaged proof: what the prover had returned from the
\* same generator, and its message lies next in the proof.
LEMMA NextCallFacts ==
  ASSUME IInv, stage = "verifying", Len(answers) < Len(calls)
  PROVE  /\ IsSeq(NextCall.returned) /\ Size(NextCall) \in Nat
         /\ \E prng, committed :
              /\ RightCall(NextCall, prng, committed)
              /\ committed = ~verifier.in_query_phase
              /\ damage.kind = "none" => prng = verifier.prng
         /\ damage.kind = "none" =>
              /\ InProof(Size(NextCall))
              /\ IsMessage(NextCall) => ProofBytes(Size(NextCall)) = NextCall.returned
<1>0. PICK n, c : n = Len(answers) /\ c = calls[n + 1]
  OBVIOUS
<1>1. n \in Nat /\ Len(calls) \in Nat /\ n + 1 \in 1 .. Len(calls) /\ NextCall = c
  BY <1>0 DEF IInv, VerifierRight, CallsRight, IsSeq, NextCall
<1>2. IsSeq(c.returned) /\ RightCall(c, PrngBefore(n + 1), Committed(n + 1))
  BY <1>0, <1>1 DEF IInv, CallsRight
<1>3. Size(c) \in Nat
  BY <1>2 DEF Size, IsSeq
<1>4. Committed(n + 1) = ~verifier.in_query_phase
  BY <1>0 DEF IInv, VerifierRight, Committed
<1>5. damage.kind = "none" => PrngBefore(n + 1) = verifier.prng
  BY <1>0 DEF IInv, Repeats
<1>6. ASSUME damage.kind = "none"
      PROVE  /\ InProof(Size(c))
             /\ IsMessage(c) => ProofBytes(Size(c)) = c.returned
  <2>1. PICK proof, index : proof = prover.proof /\ index = verifier.proof_read_index
    OBVIOUS
  <2>2. verifier.proof = proof
    BY <1>6, <2>1 DEF IInv, Arrival, Undelivered
  <2>3. IsSeq(proof)
    BY <2>1 DEF IInv, ProverRight
  <2>4. PICK off \in [0 .. Len(calls) -> Nat] : Marks(off) /\ index = off[n]
    BY <1>0, <2>1 DEF IInv, Offsets
  <2>5. n + 1 - 1 = n /\ n + 1 \in 0 .. Len(calls)
    BY <1>1
  <2>6. /\ off[n + 1] = index + Size(c) /\ off[n + 1] \in 0 .. Len(proof)
        /\ \A k \in 1 .. Size(c) : proof[index + k] = c.returned[k]
    BY <1>0, <1>1, <2>1, <2>4, <2>5 DEF Marks
  <2>7. index \in Nat /\ Len(proof) \in Nat /\ index + Size(c) <= Len(proof)
    BY <1>1, <2>3, <2>4, <2>6 DEF IsSeq
  <2>8. InProof(Size(c))
    BY <2>1, <2>2, <2>7 DEF InProof
  <2>9. IsMessage(c) => ProofBytes(Size(c)) = c.returned
    <3>1. SUFFICES ASSUME IsMessage(c)  PROVE ProofBytes(Size(c)) = c.returned
      OBVIOUS
    <3>2. PICK size : size = Size(c)
      OBVIOUS
    <3>3. size = Len(c.returned) /\ size \in Nat
      BY <1>3, <3>1, <3>2 DEF Size
    <3>4. DOMAIN proof = 1 .. Len(proof)
      BY <2>3, SeqOfElements
    <3>5. \A k \in 1 .. size : index + k \in DOMAIN proof /\ proof[index + k] = c.returned[k]
      BY <2>6, <2>7, <3>2, <3>3, <3>4
    <3>6. ProofBytes(size) = [k \in 1 .. size |-> IF index + k \in DOMAIN proof
                                                 THEN proof[index + k] ELSE Garbage]
      BY <2>1, <2>2 DEF ProofBytes
    <3>7. ProofBytes(size) = [k \in 1 .. size |-> c.returned[k]]
      BY <3>5, <3>6
    <3>8. c.returned = [k \in 1 .. size |-> c.returned[k]]
      BY <1>2, <3>3 DEF IsSeq
    <3> QED  BY <3>2, <3>7, <3>8
  <2> QED  BY <2>8, <2>9
<1> QED  BY <1>1, <1>2, <1>3, <1>4, <1>5, <1>6

\* Receiving a message of the size of the prover's.
LEMMA ReceiveRight ==
  ASSUME IInv, NEW call \in {"data", "pow"}, Verifying(call), NEW num_bytes, NEW approved,
         IsMessage(NextCall), num_bytes = Size(NextCall), Receive(num_bytes, approved),
         damage.kind = "none" => approved
  PROVE  IInv'
<1>1. /\ stage = "verifying" /\ Len(answers) < Len(calls)
      /\ NextCall.call = call /\ NextCall.call # "query phase"
      /\ UNCHANGED <<calls, prover, damage, first_operand>>
  BY DEF Verifying
<1>2. num_bytes \in Nat
  BY <1>1, NextCallFacts
<1>3. CASE ~InProof(num_bytes) \/ ~approved
  <2>1. damage.kind # "none"
    BY <1>1, <1>3, NextCallFacts
  <2>2. \E assertion \in VerifierAssertions : Rejects(assertion)
    BY <1>3, Zenon DEF Receive, VerifierAssertions
  <2> QED  BY <1>1, <2>1, <2>2, RejectRight
<1>4. CASE InProof(num_bytes) /\ approved
  <2> DEFINE prng == Mixed(ProofBytes(num_bytes))
  <2>1. /\ verifier' = [verifier EXCEPT !.proof_read_index = @ + num_bytes, !.prng = prng]
        /\ answers' = Append(answers, ProofBytes(num_bytes))
        /\ stage' = stage
    BY <1>4, Zenon DEF Receive, Answers
  <2> HIDE DEF prng
  <2>2. verifier' = [prng |-> prng, in_query_phase |-> verifier.in_query_phase,
                     proof |-> verifier.proof,
                     proof_read_index |-> verifier.proof_read_index + num_bytes]
    <3>1. PICK old, in_query, proof, index, next, prng2 :
            /\ old = verifier.prng /\ in_query = verifier.in_query_phase
            /\ proof = verifier.proof /\ index = verifier.proof_read_index
            /\ next = index + num_bytes /\ prng2 = prng
      OBVIOUS
    <3> DEFINE moved == [verifier EXCEPT !.proof_read_index = next]
    <3>2. moved = [prng |-> old, in_query_phase |-> in_query, proof |-> proof,
                   proof_read_index |-> next]
      <4>1. verifier = [prng |-> old, in_query_phase |-> in_query, proof |-> proof,
                        proof_read_index |-> index]
        BY <3>1 DEF IInv, VerifierRight
      <4> QED  BY <4>1
    <3>3. verifier' = [verifier EXCEPT !.proof_read_index = next, !.prng = prng2]
      BY <2>1, <3>1
    <3>4. verifier' = [moved EXCEPT !.prng = prng2]
      BY <3>3, Zenon
    <3> HIDE DEF moved
    <3>5. verifier' = [prng |-> prng2, in_query_phase |-> in_query, proof |-> proof,
                       proof_read_index |-> next]
      BY <3>2, <3>4
    <3> QED  BY <3>1, <3>5
  <2>3. PICK raw_bytes : raw_bytes = ProofBytes(num_bytes)
    OBVIOUS
  <2>4. prng = Absorbed(verifier.prng, raw_bytes, ~verifier.in_query_phase)
    BY <2>3, Zenon DEF prng, Mixed, Absorbed
  <2>5. GoodPrng(prng)
    BY <2>4, AbsorbedGood DEF IInv, VerifierRight
  <2>6. damage.kind = "none" => raw_bytes = NextCall.returned /\ prng = NextCall.prng
    <3>1. SUFFICES ASSUME damage.kind = "none"
                   PROVE  raw_bytes = NextCall.returned /\ prng = NextCall.prng
      OBVIOUS
    <3>2. raw_bytes = NextCall.returned
      BY <1>1, <2>3, <3>1, NextCallFacts
    <3>3. PICK before, committed : /\ RightCall(NextCall, before, committed)
                                   /\ committed = ~verifier.in_query_phase
                                   /\ before = verifier.prng
      BY <1>1, <3>1, NextCallFacts
    <3>4. NextCall.prng = Absorbed(before, NextCall.returned, committed)
      BY <3>3, MessageCall
    <3> QED  BY <2>4, <3>2, <3>3, <3>4
  <2>7. (verifier.in_query_phase \/ NextCall.call = "query phase") = verifier.in_query_phase
    BY <1>1 DEF IInv, VerifierRight
  <2>8. verifier.proof_read_index + num_bytes <= Len(verifier.proof)
    BY <1>4 DEF InProof
  <2>9. AnswersWith(raw_bytes, prng)
    BY <1>1, <2>1, <2>2, <2>3, <2>5, <2>6, <2>7, <2>8 DEF AnswersWith
  <2> QED  BY <2>9, AnswerRight
<1> QED  BY <1>3, <1>4

LEMMA ReceiveMessageRight ==
  ASSUME IInv, ReceiveMessage
  PROVE  IInv'
<1>1. Verifying("data") /\ Receive(NextCall.arg, TRUE)
  BY DEF ReceiveMessage
<1>2. NextCall.call = "data" /\ stage = "verifying" /\ Len(answers) < Len(calls)
  BY <1>1 DEF Verifying
<1>3. IsMessage(NextCall)
  BY <1>2 DEF IsMessage
<1>4. PICK prng, committed : RightCall(NextCall, prng, committed)
  BY <1>2, NextCallFacts
<1>5. NextCall.arg = Size(NextCall)
  BY <1>2, <1>3, <1>4, Zenon DEF RightCall, Size
<1> QED  BY <1>1, <1>3, <1>5, ReceiveRight

LEMMA ReadIndex ==
  ASSUME IInv
  PROVE  /\ verifier.proof_read_index + 0 = verifier.proof_read_index
         /\ verifier.proof_read_index <= Len(verifier.proof)
<1>1. PICK length : length = Len(verifier.proof)
  OBVIOUS
<1>2. length \in Nat
  BY <1>1 DEF IInv, VerifierRight, IsSeq
<1>3. verifier.proof_read_index \in 0 .. length
  BY <1>1 DEF IInv, VerifierRight
<1> QED  BY <1>1, <1>2, <1>3

\* A call that receives nothing.
LEMMA SilentAnswerRight ==
  ASSUME IInv, NEW call, Verifying(call), ~IsMessage(NextCall), stage' = stage,
         NEW returned, answers' = Append(answers, returned), NEW prng, GoodPrng(prng),
         damage.kind = "none" => returned = NextCall.returned /\ prng = NextCall.prng,
         verifier' = [prng |-> prng,
                      in_query_phase |-> verifier.in_query_phase \/ call = "query phase",
                      proof |-> verifier.proof,
                      proof_read_index |-> verifier.proof_read_index]
  PROVE  IInv'
<1>1. /\ stage = "verifying" /\ Len(answers) < Len(calls) /\ NextCall.call = call
      /\ UNCHANGED <<calls, prover, damage, first_operand>>
  BY DEF Verifying
<1>2. Size(NextCall) = 0
  BY DEF Size
<1>3. verifier.proof_read_index + Size(NextCall) = verifier.proof_read_index
  BY <1>2, ReadIndex
<1>4. verifier.proof_read_index + Size(NextCall) <= Len(verifier.proof)
  BY <1>3, ReadIndex, Zenon
<1>5. AnswersWith(returned, prng)
  BY <1>1, <1>3, <1>4, Zenon DEF AnswersWith
<1> QED  BY <1>5, AnswerRight

LEMMA VerifierDrawRight ==
  ASSUME IInv, NEW call \in Randoms, NEW drawn, Drawn(verifier.prng, drawn),
         VerifierDraws(call, drawn),
         \/ call = "number" /\ drawn = RandomNumber(verifier.prng)
         \/ call = "element" /\ drawn = RandomExtensionElement(verifier.prng)
  PROVE  IInv'
<1>1. /\ Verifying(call) /\ stage = "verifying" /\ Len(answers) < Len(calls)
      /\ NextCall.call = call
      /\ UNCHANGED <<calls, prover, damage, first_operand>>
  BY DEF VerifierDraws, Verifying
<1>2. PICK prng, committed : /\ RightCall(NextCall, prng, committed)
                             /\ committed = ~verifier.in_query_phase
                             /\ damage.kind = "none" => prng = verifier.prng
  BY <1>1, NextCallFacts
<1>3. /\ call = "number" \/ call = "element"
      /\ call # "data" /\ call # "pow" /\ call # "query phase"
  BY DEF Randoms
<1>4. /\ committed
      /\ \/ /\ call = "number"
            /\ NextCall.returned = RandomNumber(prng).bytes
            /\ NextCall.prng = RandomNumber(prng).chain
         \/ /\ call = "element"
            /\ NextCall.returned = RandomExtensionElement(prng).bytes
            /\ NextCall.prng = RandomExtensionElement(prng).chain
  BY <1>1, <1>2, <1>3, Zenon DEF RightCall
<1>5. ~verifier.in_query_phase
  BY <1>2, <1>4, Zenon
<1>6. /\ verifier' = [verifier EXCEPT !.prng = drawn.chain]
      /\ answers' = Append(answers, drawn.bytes)
      /\ stage' = stage
  BY <1>5, Zenon DEF VerifierDraws, Answers
<1>7. ~IsMessage(NextCall)
  BY <1>1, <1>3, Zenon DEF IsMessage
<1>8. damage.kind = "none" =>
        drawn.bytes = NextCall.returned /\ drawn.chain = NextCall.prng
  BY <1>2, <1>3, <1>4, Zenon
<1>9. GoodPrng(drawn.chain)
  BY DEF Drawn
<1>10. (verifier.in_query_phase \/ call = "query phase") = verifier.in_query_phase
  BY <1>3 DEF IInv, VerifierRight
<1>11. verifier' = [prng |-> drawn.chain, in_query_phase |-> verifier.in_query_phase,
                    proof |-> verifier.proof, proof_read_index |-> verifier.proof_read_index]
  <2>1. verifier = [prng |-> verifier.prng, in_query_phase |-> verifier.in_query_phase,
                    proof |-> verifier.proof, proof_read_index |-> verifier.proof_read_index]
    BY DEF IInv, VerifierRight
  <2> QED  BY <1>6, <2>1
<1> QED  BY <1>1, <1>6, <1>7, <1>8, <1>9, <1>10, <1>11, SilentAnswerRight

LEMMA VerifierDrawsRight ==
  ASSUME IInv, GetAndSendRandomNumber \/ GetAndSendRandomFieldElement
  PROVE  IInv'
<1>1. GoodPrng(verifier.prng)
  BY DEF IInv, VerifierRight
<1>2. CASE GetAndSendRandomNumber
  <2>1. Drawn(verifier.prng, RandomNumber(verifier.prng))
    BY <1>1, BytesDrawn, ChannelAssumption DEF RandomNumber
  <2>2. "number" \in Randoms
    BY DEF Randoms
  <2> QED  BY <1>2, <2>1, <2>2, VerifierDrawRight DEF GetAndSendRandomNumber
<1>3. CASE GetAndSendRandomFieldElement
  <2>1. Drawn(verifier.prng, RandomExtensionElement(verifier.prng))
    BY <1>1, ExtensionElementDrawn
  <2>2. "element" \in Randoms
    BY DEF Randoms
  <2> QED  BY <1>3, <2>1, <2>2, VerifierDrawRight DEF GetAndSendRandomFieldElement
<1> QED  BY <1>2, <1>3

\* The verifier's check of the work takes the state from before the nonce.
LEMMA VerifierWorksRight ==
  ASSUME IInv, VerifierApplyProofOfWork
  PROVE  IInv'
<1>1. /\ Verifying("pow") /\ stage = "verifying" /\ Len(answers) < Len(calls)
      /\ NextCall.call = "pow"
  BY DEF VerifierApplyProofOfWork, Verifying
<1>2. PICK prng, committed : /\ RightCall(NextCall, prng, committed)
                             /\ committed = ~verifier.in_query_phase
                             /\ damage.kind = "none" => prng = verifier.prng
  BY <1>1, NextCallFacts
<1>3. \/ /\ NextCall.arg = 0 /\ NextCall.returned = NoBytes /\ NextCall.prng = prng
      \/ /\ NextCall.arg \in 1 .. MaxWorkBits
         /\ NextCall.returned = Nonce(prng.hash, NextCall.arg)
  BY <1>1, <1>2, Zenon DEF RightCall
<1>4. CASE NextCall.arg = 0
  <2>1. answers' = Append(answers, NoBytes) /\ verifier' = verifier /\ stage' = stage
    BY <1>4, Zenon DEF VerifierApplyProofOfWork, Answers
  <2>2. ~(NextCall.arg \in 1 .. MaxWorkBits)
    BY <1>4 DEF MaxWorkBits
  <2>3. NextCall.returned = NoBytes /\ NextCall.prng = prng
    BY <1>3, <2>2
  <2>4. ~IsMessage(NextCall)
    BY <1>1, <1>4, QuietCall
  <2>5. GoodPrng(verifier.prng)
    BY DEF IInv, VerifierRight
  <2>6. (verifier.in_query_phase \/ "pow" = "query phase") = verifier.in_query_phase
    BY DEF IInv, VerifierRight
  <2>7. verifier' = [prng |-> verifier.prng, in_query_phase |-> verifier.in_query_phase,
                     proof |-> verifier.proof, proof_read_index |-> verifier.proof_read_index]
    BY <2>1 DEF IInv, VerifierRight
  <2>8. damage.kind = "none" => NoBytes = NextCall.returned /\ verifier.prng = NextCall.prng
    BY <1>2, <2>3, Zenon
  <2> QED  BY <1>1, <2>1, <2>4, <2>5, <2>6, <2>7, <2>8, SilentAnswerRight
<1>5. CASE NextCall.arg # 0
  <2> DEFINE read_nonce == ProofBytes(NumberBytes)
             approved == ValidNonce(StateBeforeNonce(read_nonce), NextCall.arg, read_nonce)
  <2>1. Receive(NumberBytes, approved)
    BY <1>5, Zenon DEF VerifierApplyProofOfWork
  <2>2. NextCall.arg \in 1 .. MaxWorkBits /\ NextCall.returned = Nonce(prng.hash, NextCall.arg)
    BY <1>3, <1>5
  <2>3. IsMessage(NextCall)
    <3>1. NextCall.arg > 0
      BY <2>2 DEF MaxWorkBits
    <3> QED  BY <1>1, <3>1 DEF IsMessage
  <2>4. NumberBytes = Size(NextCall)
    BY <2>2, <2>3, NonceFacts DEF Size
  <2>5. damage.kind = "none" => approved
    <3>1. SUFFICES ASSUME damage.kind = "none"  PROVE approved
      OBVIOUS
    <3>2. read_nonce = NextCall.returned
      BY <1>1, <2>3, <2>4, <3>1, NextCallFacts
    <3>3. verifier.prng = prng
      BY <1>2, <3>1
    <3> HIDE DEF read_nonce
    <3> QED  BY <2>2, <3>2, <3>3 DEF ValidNonce, StateBeforeNonce
  <2> HIDE DEF approved
  <2>6. "pow" \in {"data", "pow"}
    OBVIOUS
  <2> QED  BY <1>1, <2>1, <2>3, <2>4, <2>5, <2>6, ReceiveRight
<1> QED  BY <1>4, <1>5

LEMMA VerifierQueriesRight ==
  ASSUME IInv, VerifierBeginQueryPhase
  PROVE  IInv'
<1>1. /\ Verifying("query phase") /\ stage = "verifying" /\ Len(answers) < Len(calls)
      /\ NextCall.call = "query phase"
      /\ verifier' = [verifier EXCEPT !.in_query_phase = TRUE]
      /\ answers' = Append(answers, NoBytes)
      /\ stage' = stage
  BY DEF VerifierBeginQueryPhase, Verifying, Answers
<1>2. PICK prng, committed : /\ RightCall(NextCall, prng, committed)
                             /\ damage.kind = "none" => prng = verifier.prng
  BY <1>1, NextCallFacts
<1>3. NextCall.returned = NoBytes /\ NextCall.prng = prng
  BY <1>1, <1>2, Zenon DEF RightCall
<1>4. ~IsMessage(NextCall)
  BY <1>1, Zenon DEF IsMessage
<1>5. GoodPrng(verifier.prng)
  BY DEF IInv, VerifierRight
<1>6. (verifier.in_query_phase \/ "query phase" = "query phase") = TRUE
  OBVIOUS
<1>7. verifier' = [prng |-> verifier.prng, in_query_phase |-> TRUE,
                   proof |-> verifier.proof, proof_read_index |-> verifier.proof_read_index]
  <2>1. verifier = [prng |-> verifier.prng, in_query_phase |-> verifier.in_query_phase,
                    proof |-> verifier.proof, proof_read_index |-> verifier.proof_read_index]
    BY DEF IInv, VerifierRight
  <2> QED  BY <1>1, <2>1
<1>8. damage.kind = "none" => NoBytes = NextCall.returned /\ verifier.prng = NextCall.prng
  BY <1>2, <1>3, Zenon
<1> QED  BY <1>1, <1>4, <1>5, <1>6, <1>7, <1>8, SilentAnswerRight

LEMMA VerifierStepRight ==
  ASSUME IInv, VerifierStep
  PROVE  IInv'
BY ReceiveMessageRight, VerifierDrawsRight, VerifierWorksRight, VerifierQueriesRight,
   AcceptRight DEF VerifierStep

-----------------------------------------------------------------------------
\* The invariant of the two channels: the record of the prover's calls determines the
\* prover's generator, the bytes of the proof and, on an undamaged proof, the verifier
\* (prover_channel.cc, verifier_channel.cc).
THEOREM ChannelInvariant == Spec => []IInv
<1>1. Init => IInv
  BY InitRight
<1>2. IInv /\ [Next]_vars => IInv'
  <2> SUFFICES ASSUME IInv, [Next]_vars  PROVE IInv'
    OBVIOUS
  <2>1. CASE ProverStep
    BY <2>1, ProverStepRight
  <2>2. CASE Deliver
    BY <2>2, DeliverRight
  <2>3. CASE VerifierStep
    BY <2>3, VerifierStepRight
  <2>4. CASE Ended \/ UNCHANGED vars
    BY <2>4, EndedRight DEF Ended
  <2> QED  BY <2>1, <2>2, <2>3, <2>4 DEF Next
<1> QED  BY <1>1, <1>2, PTL DEF Spec

\* Types; the verifier reads no further than the end of the proof
\* (verifier_channel.cc:69-79, hash_chain.cc:60-95).
THEOREM TypeCorrect == Spec => []TypeOK
<1>1. IInv => TypeOK
  BY DEF IInv, TypeOK, ProverRight, VerifierRight, GoodPrng
<1> QED  BY <1>1, ChannelInvariant, PTL

\* Every random value is drawn from the hash of the seed and of all that was sent before
\* it, in order, and from nothing else (prover_channel.cc:46-76).
THEOREM RandomnessIsBound == Spec => []TranscriptBound
<1>1. IInv => TranscriptBound
  BY DEF IInv
<1> QED  BY <1>1, ChannelInvariant, PTL

\* On the proof as it was written the verifier repeats the prover, call by call, and no
\* proof that was cut is accepted (verifier_channel.cc:47-102).
THEOREM ChannelsInStep == Spec => []InStep
<1>1. IInv => InStep
  <2> SUFFICES ASSUME IInv  PROVE InStep
    OBVIOUS
  <2>1. PICK n, m : n = Len(answers) /\ m = Len(calls)
    OBVIOUS
  <2>2. n \in Nat /\ m \in Nat /\ DOMAIN answers = 1 .. n
    BY <2>1, SeqOfElements DEF IInv, VerifierRight, CallsRight, IsSeq
  <2>3. stage = "accepted" => verifier.proof_read_index = Len(prover.proof)
    BY <2>1 DEF IInv, Repeats, Offsets, Marks
  <2>4. stage = "accepted" => damage.kind # "cut"
    <3>1. SUFFICES ASSUME stage = "accepted", damage.kind = "cut"  PROVE FALSE
      OBVIOUS
    <3>2. Len(verifier.proof) < Len(prover.proof)
      BY <3>1 DEF IInv, Arrival, Undelivered
    <3>3. Len(prover.proof) \in 0 .. Len(verifier.proof)
      BY <2>3, <3>1 DEF IInv, VerifierRight
    <3>4. Len(verifier.proof) \in Nat
      BY DEF IInv, VerifierRight, IsSeq
    <3> QED  BY <3>2, <3>3, <3>4
  <2>5. ASSUME damage.kind = "none"
        PROVE  /\ \A i \in DOMAIN answers : answers[i] = calls[i].returned
               /\ answers # <<>> => verifier.prng = calls[n].prng
               /\ stage \notin VerifierAssertions
    <3>1. /\ \A i \in 1 .. n : answers[i] = calls[i].returned
          /\ verifier.prng = PrngBefore(n + 1) /\ stage \notin VerifierAssertions
      BY <2>1, <2>5 DEF IInv, Repeats
    <3>2. answers # <<>> => n # 0
      <4>1. answers \in Seq(SeqElements(answers))
        BY SeqOfElements DEF IInv, VerifierRight
      <4> QED  BY <2>1, <4>1
    <3>3. n # 0 => n + 1 # 1 /\ n + 1 - 1 = n
      BY <2>2
    <3> QED  BY <2>2, <3>1, <3>2, <3>3 DEF PrngBefore
  <2> QED  BY <2>1, <2>3, <2>4, <2>5 DEF InStep
<1> QED  BY <1>1, ChannelInvariant, PTL

-----------------------------------------------------------------------------
(* The generator alone: its stream, for every sequence of requests.        *)


Chains == [hash : Seq(Messages), counter : Nat, spare : Seq(AnyByte)]

NoRepetition(s) == \A i, j \in DOMAIN s : i # j => s[i] # s[j]

Disjoint(s, t) == \A i \in DOMAIN s : \A j \in DOMAIN t : s[i] # t[j]

\* s consists of bytes of the stream of h, at places low .. high - 1.
Within(s, h, low, high) ==
  \A i \in DOMAIN s : s[i].hash = h /\ low <= s[i].place /\ s[i].place < high

\* The number of bytes in the digests taken so far from the chain's hash.
Taken(chain) == chain.counter * kDigestNumBytes

\* A chain between two requests.
GoodChain(chain) ==
  /\ chain \in Chains
  /\ Len(chain.spare) < kDigestNumBytes
  /\ NoRepetition(chain.spare)
  /\ Within(chain.spare, chain.hash, 0, Taken(chain))

-----------------------------------------------------------------------------
LEMMA ConcatDistinct ==
  ASSUME NEW S, NEW s \in Seq(S), NEW t \in Seq(S),
         NoRepetition(s), NoRepetition(t), Disjoint(s, t)
  PROVE  NoRepetition(s \o t)
<1> DEFINE u == s \o t
<1>1. u \in Seq(S) /\ Len(u) = Len(s) + Len(t) /\ DOMAIN u = 1 .. Len(s) + Len(t)
  OBVIOUS
<1>2. Len(s) \in Nat /\ Len(t) \in Nat /\ DOMAIN s = 1 .. Len(s) /\ DOMAIN t = 1 .. Len(t)
  OBVIOUS
<1>3. \A i \in 1 .. Len(s) : u[i] = s[i]
  OBVIOUS
<1>4. \A i \in Len(s) + 1 .. Len(s) + Len(t) :
         u[i] = t[i - Len(s)] /\ i - Len(s) \in 1 .. Len(t)
  OBVIOUS
<1> HIDE DEF u
<1>5. \A i, j \in DOMAIN u : i # j => u[i] # u[j]
  <2> SUFFICES ASSUME NEW i \in DOMAIN u, NEW j \in DOMAIN u, i # j
               PROVE  u[i] # u[j]
    OBVIOUS
  <2>1. CASE i <= Len(s) /\ j <= Len(s)
    BY <2>1, <1>1, <1>2, <1>3, SMTT(30) DEF NoRepetition
  <2>2. CASE i <= Len(s) /\ j > Len(s)
    <3>1. i \in DOMAIN s /\ u[i] = s[i]
      BY <2>2, <1>1, <1>2, <1>3, SMTT(30)
    <3>2. j - Len(s) \in DOMAIN t /\ u[j] = t[j - Len(s)]
      BY <2>2, <1>1, <1>2, <1>4, SMTT(30)
    <3> QED  BY <3>1, <3>2 DEF Disjoint
  <2>3. CASE i > Len(s) /\ j <= Len(s)
    <3>1. j \in DOMAIN s /\ u[j] = s[j]
      BY <2>3, <1>1, <1>2, <1>3, SMTT(30)
    <3>2. i - Len(s) \in DOMAIN t /\ u[i] = t[i - Len(s)]
      BY <2>3, <1>1, <1>2, <1>4, SMTT(30)
    <3> QED  BY <3>1, <3>2 DEF Disjoint
  <2>4. CASE i > Len(s) /\ j > Len(s)
    <3>1. i - Len(s) # j - Len(s)
      BY <2>4, <1>1, <1>2
    <3>2. i - Len(s) \in DOMAIN t /\ u[i] = t[i - Len(s)]
      BY <2>4, <1>1, <1>2, <1>4, SMTT(30)
    <3>3. j - Len(s) \in DOMAIN t /\ u[j] = t[j - Len(s)]
      BY <2>4, <1>1, <1>2, <1>4, SMTT(30)
    <3> QED  BY <3>1, <3>2, <3>3, Zenon DEF NoRepetition
  <2> QED  BY <2>1, <2>2, <2>3, <2>4, <1>1, <1>2
<1> QED  BY <1>5 DEF NoRepetition, u

LEMMA ConcatDisjoint ==
  ASSUME NEW S, NEW s \in Seq(S), NEW t \in Seq(S), NEW u \in Seq(S),
         Disjoint(s, u), Disjoint(t, u)
  PROVE  Disjoint(s \o t, u)
<1> DEFINE v == s \o t
<1>1. DOMAIN v = 1 .. Len(s) + Len(t) /\ DOMAIN s = 1 .. Len(s) /\ DOMAIN t = 1 .. Len(t)
  OBVIOUS
<1>2. \A i \in DOMAIN v : \/ i \in DOMAIN s /\ v[i] = s[i]
                          \/ i - Len(s) \in DOMAIN t /\ v[i] = t[i - Len(s)]
  OBVIOUS
<1> HIDE DEF v
<1>3. Disjoint(v, u)
  BY <1>2 DEF Disjoint
<1> QED  BY <1>3 DEF v

LEMMA ConcatWithin ==
  ASSUME NEW S, NEW s \in Seq(S), NEW t \in Seq(S), NEW h, NEW low, NEW high,
         Within(s, h, low, high), Within(t, h, low, high)
  PROVE  Within(s \o t, h, low, high)
<1> DEFINE v == s \o t
<1>2. \A i \in DOMAIN v : \/ i \in DOMAIN s /\ v[i] = s[i]
                          \/ i - Len(s) \in DOMAIN t /\ v[i] = t[i - Len(s)]
  OBVIOUS
<1> HIDE DEF v
<1>3. Within(v, h, low, high)
  BY <1>2 DEF Within
<1> QED  BY <1>3 DEF v

LEMMA DisjointSymmetric ==
  ASSUME NEW s, NEW t, Disjoint(s, t)
  PROVE  Disjoint(t, s)
BY DEF Disjoint

LEMMA PlacesAreNaturals ==
  ASSUME NEW s \in Seq(AnyByte), NEW i \in DOMAIN s
  PROVE  s[i].place \in Nat /\ s[i].hash \in Seq(Messages)
<1>1. s[i] \in AnyByte
  OBVIOUS
<1> QED  BY <1>1 DEF AnyByte

LEMMA WithinWider ==
  ASSUME NEW s \in Seq(AnyByte), NEW h, NEW low \in Int, NEW high \in Int,
         NEW low2 \in Int, NEW high2 \in Int,
         low2 <= low, high <= high2, Within(s, h, low, high)
  PROVE  Within(s, h, low2, high2)
<1>1. \A i \in DOMAIN s : s[i].place \in Int
  BY PlacesAreNaturals
<1> QED  BY <1>1 DEF Within

\* Bytes of one hash at places on either side of a bound are different bytes.
LEMMA WithinApart ==
  ASSUME NEW s \in Seq(AnyByte), NEW t \in Seq(AnyByte), NEW h,
         NEW a \in Int, NEW b \in Int, NEW c \in Int,
         Within(s, h, a, b), Within(t, h, b, c)
  PROVE  Disjoint(s, t)
<1>1. \A i \in DOMAIN s : s[i].place \in Int
  BY PlacesAreNaturals
<1>2. \A i \in DOMAIN t : t[i].place \in Int
  BY PlacesAreNaturals
<1> QED  BY <1>1, <1>2 DEF Within, Disjoint

-----------------------------------------------------------------------------
\* A digest's bytes are distinct bytes at the places of its counter.
LEMMA DigestBytesFacts ==
  ASSUME NEW h \in Seq(Messages), NEW c \in Nat, NEW first \in Nat, NEW last \in Int,
         first <= last + 1,
         NEW s, s = DigestBytes(h, c, first, last),
         NEW base, base = c * kDigestNumBytes
  PROVE  /\ s \in Seq(AnyByte)
         /\ Len(s) = last - first + 1
         /\ NoRepetition(s)
         /\ Within(s, h, base + first, base + last + 1)
<1> DEFINE n == last - first + 1
<1>1. base \in Nat
  BY DigestAssumption
<1>2. n \in Nat
  OBVIOUS
<1>3. s = [i \in 1 .. n |-> StreamByte(h, base + first + i - 1)]
  BY DEF DigestBytes
<1> HIDE DEF n
<1>4. \A i \in 1 .. n : StreamByte(h, base + first + i - 1) \in AnyByte
  BY <1>1, <1>2 DEF StreamByte, AnyByte
<1>5. s \in Seq(AnyByte) /\ Len(s) = n /\ DOMAIN s = 1 .. n
  <2>1. s \in [1 .. n -> AnyByte]
    BY <1>3, <1>4
  <2> QED  BY <2>1, <1>2
<1>6. \A i \in DOMAIN s : s[i].hash = h /\ s[i].place = base + first + i - 1
  BY <1>3, <1>5 DEF StreamByte
<1>7. NoRepetition(s)
  <2> SUFFICES ASSUME NEW i \in 1 .. n, NEW j \in 1 .. n, s[i] = s[j]
               PROVE  i = j
    BY <1>5, Zenon DEF NoRepetition
  <2>1. s[i].place = base + first + i - 1 /\ s[j].place = base + first + j - 1
    BY <1>5, <1>6, Zenon
  <2>2. base + first + i - 1 = base + first + j - 1
    BY <2>1, Zenon
  <2> QED
    BY <2>2, <1>1, <1>2
<1>8. Within(s, h, base + first, base + last + 1)
  BY <1>5, <1>6, <1>1, <1>2 DEF Within, n
<1> QED  BY <1>5, <1>7, <1>8 DEF n

\* front and back are a cut of s, bytes of h below high, after k bytes.
CutInto(s, k, h, high, front, back) ==
  /\ front \in Seq(AnyByte) /\ back \in Seq(AnyByte)
  /\ Len(front) = k /\ Len(back) = Len(s) - k
  /\ NoRepetition(front) /\ NoRepetition(back) /\ Disjoint(front, back)
  /\ Within(front, h, 0, high) /\ Within(back, h, 0, high)
  /\ \A i \in DOMAIN front : \E j \in DOMAIN s : front[i] = s[j]
  /\ \A i \in DOMAIN back : \E j \in DOMAIN s : back[i] = s[j]

LEMMA SpareParts ==
  ASSUME NEW s \in Seq(AnyByte), NEW k \in 0 .. Len(s), NEW h, NEW high,
         NoRepetition(s), Within(s, h, 0, high),
         NEW front, front = SubSeq(s, 1, k),
         NEW back, back = SubSeq(s, k + 1, Len(s))
  PROVE  CutInto(s, k, h, high, front, back)
<1>0. Len(s) \in Nat /\ DOMAIN s = 1 .. Len(s) /\ k \in Nat
  OBVIOUS
<1>1. front \in Seq(AnyByte) /\ Len(front) = k /\ DOMAIN front = 1 .. k
  OBVIOUS
<1>2. back \in Seq(AnyByte) /\ Len(back) = Len(s) - k /\ DOMAIN back = 1 .. Len(s) - k
  OBVIOUS
<1>3. \A i \in 1 .. k : front[i] = s[i]
  OBVIOUS
<1>4. \A i \in 1 .. Len(s) - k : back[i] = s[k + i]
  OBVIOUS
<1>5. \A i \in DOMAIN front : i \in DOMAIN s /\ front[i] = s[i]
  BY <1>0, <1>1, <1>3
<1>6. \A i \in DOMAIN back : k + i \in DOMAIN s /\ back[i] = s[k + i]
  <2>1. TAKE i \in DOMAIN back
  <2>2. i \in 1 .. Len(s) - k
    BY <1>2
  <2>3. k + i \in 1 .. Len(s)
    BY <1>0, <2>2
  <2> QED  BY <1>0, <1>4, <2>2, <2>3
<1>7. NoRepetition(front) /\ Within(front, h, 0, high)
  <2>1. NoRepetition(front)
    <3> SUFFICES ASSUME NEW i \in DOMAIN front, NEW j \in DOMAIN front, i # j
                 PROVE  front[i] # front[j]
      BY Zenon DEF NoRepetition
    <3>1. i \in DOMAIN s /\ j \in DOMAIN s /\ front[i] = s[i] /\ front[j] = s[j]
      BY <1>5, Zenon
    <3> QED
      BY <3>1, Zenon DEF NoRepetition
  <2>2. Within(front, h, 0, high)
    BY <1>5, ZenonT(30) DEF Within
  <2> QED  BY <2>1, <2>2
<1>8. NoRepetition(back)
  <2> SUFFICES ASSUME NEW i \in DOMAIN back, NEW j \in DOMAIN back, i # j
               PROVE  back[i] # back[j]
    BY DEF NoRepetition
  <2>1. i \in 1 .. Len(s) - k /\ j \in 1 .. Len(s) - k
    BY <1>2, Zenon
  <2>2. i \in Int /\ j \in Int
    BY <2>1
  <2>3. k + i # k + j
    BY <2>2
  <2> QED  BY <2>3, <1>6, Zenon DEF NoRepetition
<1>9. Within(back, h, 0, high)
  BY <1>6, SMTT(30) DEF Within
<1>10. Disjoint(front, back)
  <2> SUFFICES ASSUME NEW i \in DOMAIN front, NEW j \in DOMAIN back
               PROVE  front[i] # back[j]
    BY DEF Disjoint
  <2>1. i \in 1 .. k /\ j \in 1 .. Len(s) - k
    BY <1>1, <1>2, Zenon
  <2>2. i # k + j
    BY <2>1
  <2> QED  BY <2>2, <1>5, <1>6, ZenonT(60) DEF NoRepetition
<1> QED  BY <1>1, <1>2, <1>5, <1>6, <1>7, <1>8, <1>9, <1>10 DEF CutInto

-----------------------------------------------------------------------------
\* Every byte of s is one of the chain's spare bytes or comes from a digest the
\* chain has not taken yet.
Unused(s, chain) ==
  \A i \in DOMAIN s :
    \/ \E j \in DOMAIN chain.spare : s[i] = chain.spare[j]
    \/ s[i].hash = chain.hash /\ s[i].place >= Taken(chain)

\* What a request returns: distinct unused bytes, none of which stays spare, and a
\* chain that can serve the next request.
Served(chain, bytes, after) ==
  /\ GoodChain(after)
  /\ after.hash = chain.hash
  /\ bytes \in Seq(AnyByte)
  /\ NoRepetition(bytes)
  /\ Disjoint(bytes, after.spare)
  /\ Within(bytes, chain.hash, 0, Taken(after))
  /\ Unused(bytes, chain)
  /\ Unused(after.spare, chain)

LEMMA TakenIsNatural ==
  ASSUME NEW chain \in Chains
  PROVE  Taken(chain) \in Nat
BY DigestAssumption DEF Taken, Chains

\* Whole digests.
LEMMA BlocksServed ==
  ASSUME NEW chain, GoodChain(chain), NEW blocks \in Nat
  PROVE  Served(chain, FullBlocks(chain, blocks), SkipBlocks(chain, blocks))
<1> DEFINE after == SkipBlocks(chain, blocks)
           bytes == FullBlocks(chain, blocks)
           size == blocks * kDigestNumBytes
<1>1. chain \in Chains /\ chain.hash \in Seq(Messages) /\ chain.counter \in Nat
      /\ chain.spare \in Seq(AnyByte)
  BY DEF GoodChain, Chains
<1>2. size \in Nat /\ Taken(chain) \in Nat
  BY DigestAssumption, TakenIsNatural, <1>1
<1>3. after \in Chains /\ after.hash = chain.hash /\ after.spare = chain.spare
      /\ after.counter = chain.counter + blocks
  BY <1>1 DEF SkipBlocks, Chains
<1>4. Taken(after) = Taken(chain) + size
  BY <1>1, <1>3, DigestAssumption DEF Taken
<1> HIDE DEF after, size
<1>5. /\ bytes \in Seq(AnyByte)
      /\ NoRepetition(bytes)
      /\ Within(bytes, chain.hash, Taken(chain), Taken(after))
  <2>1. bytes = DigestBytes(chain.hash, chain.counter, 0, size - 1)
    BY DEF FullBlocks, size
  <2>2. Taken(chain) + (size - 1) + 1 = Taken(after) /\ Taken(chain) + 0 = Taken(chain)
        /\ 0 <= (size - 1) + 1
    BY <1>2, <1>4
  <2> HIDE DEF bytes
  <2>3. chain.counter * kDigestNumBytes = Taken(chain)
    BY DEF Taken
  <2>4. chain.hash \in Seq(Messages) /\ chain.counter \in Nat /\ 0 \in Nat
        /\ size - 1 \in Int
    BY <1>1, <1>2
  <2>5. /\ bytes \in Seq(AnyByte)
        /\ NoRepetition(bytes)
        /\ Within(bytes, chain.hash, Taken(chain) + 0, Taken(chain) + (size - 1) + 1)
    BY <2>1, <2>2, <2>3, <2>4, DigestBytesFacts, Zenon
  <2> QED  BY <2>2, <2>5
<1> HIDE DEF bytes
<1>6. Within(chain.spare, chain.hash, 0, Taken(chain)) /\ NoRepetition(chain.spare)
      /\ Len(chain.spare) < kDigestNumBytes
  BY DEF GoodChain
<1>7. Disjoint(bytes, chain.spare)
  BY <1>1, <1>2, <1>3, <1>4, <1>5, <1>6, WithinApart, DisjointSymmetric
<1>8. Within(bytes, chain.hash, 0, Taken(after))
  BY <1>2, <1>4, <1>5, WithinWider
<1>9. GoodChain(after)
  <2>1. Within(chain.spare, chain.hash, 0, Taken(after))
    BY <1>1, <1>2, <1>4, <1>6, WithinWider
  <2> QED  BY <2>1, <1>3, <1>6 DEF GoodChain
<1>10. Unused(bytes, chain)
  <2>1. \A i \in DOMAIN bytes : bytes[i].hash = chain.hash /\ bytes[i].place >= Taken(chain)
    BY <1>5, <1>2, PlacesAreNaturals DEF Within
  <2> QED  BY <2>1 DEF Unused
<1>11. Unused(after.spare, chain)
  BY <1>3 DEF Unused
<1> QED  BY <1>3, <1>5, <1>7, <1>8, <1>9, <1>10, <1>11 DEF Served, after, bytes

\* A tail that fits in the spare bytes.
LEMMA SpareServed ==
  ASSUME NEW chain, GoodChain(chain), NEW n \in Nat, SpareSuffices(chain, n)
  PROVE  Served(chain, TailFromSpare(chain, n).bytes, TailFromSpare(chain, n).chain)
<1> DEFINE after == TailFromSpare(chain, n).chain
           bytes == TailFromSpare(chain, n).bytes
           spare == chain.spare
<1>1. chain \in Chains /\ chain.hash \in Seq(Messages) /\ chain.counter \in Nat
      /\ spare \in Seq(AnyByte) /\ Len(spare) < kDigestNumBytes
      /\ Within(spare, chain.hash, 0, Taken(chain)) /\ NoRepetition(spare)
  BY DEF GoodChain, Chains
<1>2. n \in 0 .. Len(spare)
  BY <1>1 DEF SpareSuffices
<1>3. after.hash = chain.hash /\ after.counter = chain.counter
      /\ after.spare = SubSeq(spare, n + 1, Len(spare))
      /\ bytes = SubSeq(spare, 1, n)
      /\ (after.spare \in Seq(AnyByte) => after \in Chains)
  BY <1>1 DEF TailFromSpare, Chains
<1>4. Taken(after) = Taken(chain)
  BY <1>3 DEF Taken
<1> HIDE DEF after, bytes, spare
<1>4a. spare \in Seq(AnyByte) /\ n \in 0 .. Len(spare) /\ NoRepetition(spare)
       /\ Within(spare, chain.hash, 0, Taken(chain))
  BY <1>1, <1>2
<1>4b. after.spare = SubSeq(spare, n + 1, Len(spare)) /\ bytes = SubSeq(spare, 1, n)
  BY <1>3
<1>5. CutInto(spare, n, chain.hash, Taken(chain), bytes, after.spare)
  BY <1>4a, <1>4b, SpareParts, Zenon
<1>6. GoodChain(after)
  <2>1. Len(after.spare) < kDigestNumBytes
    BY <1>1, <1>2, <1>5, DigestAssumption DEF CutInto
  <2> QED  BY <2>1, <1>3, <1>4, <1>5 DEF GoodChain, CutInto
<1>7. Unused(bytes, chain) /\ Unused(after.spare, chain)
  BY <1>5 DEF Unused, spare, CutInto
<1> QED  BY <1>3, <1>4, <1>5, <1>6, <1>7 DEF Served, after, bytes, CutInto

\* A tail that does not: the head of a new digest, whose rest joins the spare bytes.
LEMMA DigestServed ==
  ASSUME NEW chain, GoodChain(chain), NEW n \in Nat, n < kDigestNumBytes,
         ~SpareSuffices(chain, n)
  PROVE  Served(chain, TailFromDigest(chain, n).bytes, TailFromDigest(chain, n).chain)
<1> DEFINE after == TailFromDigest(chain, n).chain
           bytes == TailFromDigest(chain, n).bytes
           spare == chain.spare
           rest == DigestBytes(chain.hash, chain.counter, n, kDigestNumBytes - 1)
           t == Taken(chain)
<1>1. chain \in Chains /\ chain.hash \in Seq(Messages) /\ chain.counter \in Nat
      /\ spare \in Seq(AnyByte) /\ Len(spare) < kDigestNumBytes
      /\ Within(spare, chain.hash, 0, t) /\ NoRepetition(spare)
  BY DEF GoodChain, Chains
<1>2. Len(spare) < n
  BY <1>1 DEF SpareSuffices
<1>3. after.hash = chain.hash /\ after.counter = chain.counter + 1
      /\ after.spare = spare \o rest
      /\ bytes = DigestBytes(chain.hash, chain.counter, 0, n - 1)
      /\ (after.spare \in Seq(AnyByte) => after \in Chains)
  <2>1. after = [chain EXCEPT !.counter = @ + 1, !.spare = @ \o rest]
        /\ bytes = DigestBytes(chain.hash, chain.counter, 0, n - 1)
    BY DEF TailFromDigest
  <2> HIDE DEF after, bytes, rest, t
  <2>2. chain = [hash |-> chain.hash, counter |-> chain.counter, spare |-> spare]
    BY <1>1 DEF Chains
  <2>3. after = [hash |-> chain.hash, counter |-> chain.counter + 1, spare |-> spare \o rest]
    BY <2>1, <2>2
  <2>4. after.hash = chain.hash /\ after.counter = chain.counter + 1
        /\ after.spare = spare \o rest
    BY <2>3
  <2>5. ASSUME after.spare \in Seq(AnyByte)
        PROVE  after \in Chains
    <3>1. chain.counter + 1 \in Nat /\ spare \o rest \in Seq(AnyByte)
      BY <1>1, <2>4, <2>5
    <3> QED  BY <3>1, <2>3, <1>1 DEF Chains
  <2> QED  BY <2>1, <2>4, <2>5
<1>4. t \in Nat /\ chain.counter * kDigestNumBytes = t
  BY <1>1, TakenIsNatural DEF Taken
<1>5. Taken(after) = t + kDigestNumBytes
  BY <1>1, <1>3, DigestAssumption DEF Taken
<1>6. kDigestNumBytes \in Nat
  BY DigestAssumption
<1> HIDE DEF after, bytes, spare, rest, t
<1>7. bytes \in Seq(AnyByte) /\ NoRepetition(bytes) /\ Within(bytes, chain.hash, t, t + n)
  <2>1. 0 \in Nat /\ n - 1 \in Int /\ 0 <= (n - 1) + 1
        /\ t + 0 = t /\ t + (n - 1) + 1 = t + n
    BY <1>4
  <2>2. bytes \in Seq(AnyByte) /\ NoRepetition(bytes)
        /\ Within(bytes, chain.hash, t + 0, t + (n - 1) + 1)
    BY <2>1, <1>1, <1>3, <1>4, DigestBytesFacts, Zenon
  <2> QED  BY <2>1, <2>2
<1>8. /\ rest \in Seq(AnyByte) /\ Len(rest) = kDigestNumBytes - n /\ NoRepetition(rest)
      /\ Within(rest, chain.hash, t + n, t + kDigestNumBytes)
  <2>1. n \in Nat /\ kDigestNumBytes - 1 \in Int /\ n <= (kDigestNumBytes - 1) + 1
        /\ t + (kDigestNumBytes - 1) + 1 = t + kDigestNumBytes
        /\ (kDigestNumBytes - 1) - n + 1 = kDigestNumBytes - n
    BY <1>4, <1>6
  <2>2. rest = DigestBytes(chain.hash, chain.counter, n, kDigestNumBytes - 1)
    BY DEF rest
  <2>3. /\ rest \in Seq(AnyByte) /\ NoRepetition(rest)
        /\ Len(rest) = (kDigestNumBytes - 1) - n + 1
        /\ Within(rest, chain.hash, t + n, t + (kDigestNumBytes - 1) + 1)
    <3>1. chain.hash \in Seq(Messages) /\ chain.counter \in Nat
          /\ t = chain.counter * kDigestNumBytes
      BY <1>1, <1>4
    <3> QED  BY <2>1, <2>2, <3>1, DigestBytesFacts, ZenonT(60)
  <2> QED  BY <2>1, <2>3
<1>9. Disjoint(spare, rest) /\ Disjoint(spare, bytes) /\ Disjoint(bytes, rest)
  <2>1. Within(rest, chain.hash, t, t + kDigestNumBytes)
    BY <1>4, <1>6, <1>8, WithinWider
  <2>2. Disjoint(spare, rest)
    BY <2>1, <1>1, <1>4, <1>6, <1>8, WithinApart
  <2>3. Disjoint(spare, bytes)
    BY <1>1, <1>4, <1>7, WithinApart
  <2>4. Disjoint(bytes, rest)
    BY <1>4, <1>6, <1>7, <1>8, WithinApart
  <2> QED  BY <2>2, <2>3, <2>4
<1>10. GoodChain(after)
  <2>1. after.spare \in Seq(AnyByte)
        /\ Len(after.spare) = Len(spare) + (kDigestNumBytes - n)
    <3>1. spare \in Seq(AnyByte) /\ rest \in Seq(AnyByte) /\ after.spare = spare \o rest
      BY <1>1, <1>3, <1>8
    <3>2. after.spare \in Seq(AnyByte) /\ Len(after.spare) = Len(spare) + Len(rest)
      BY <3>1
    <3> QED  BY <3>2, <1>8
  <2>2. Len(after.spare) < kDigestNumBytes
    BY <2>1, <1>1, <1>2, <1>6
  <2>3. NoRepetition(after.spare)
    BY <1>1, <1>3, <1>8, <1>9, ConcatDistinct
  <2>4. Within(spare, chain.hash, 0, Taken(after))
    BY <1>1, <1>4, <1>5, <1>6, WithinWider
  <2>5. Within(rest, chain.hash, 0, Taken(after))
    BY <1>4, <1>5, <1>6, <1>8, WithinWider
  <2>6. Within(after.spare, chain.hash, 0, Taken(after))
    BY <2>4, <2>5, <1>1, <1>3, <1>8, ConcatWithin
  <2> QED  BY <2>1, <2>2, <2>3, <2>6, <1>3 DEF GoodChain
<1>11. Disjoint(bytes, after.spare)
  <2>1. Disjoint(spare \o rest, bytes)
    <3>1. Disjoint(rest, bytes)
      BY <1>9, DisjointSymmetric
    <3> QED  BY <3>1, <1>1, <1>7, <1>8, <1>9, ConcatDisjoint
  <2> QED  BY <2>1, <1>3, DisjointSymmetric
<1>12. Within(bytes, chain.hash, 0, Taken(after))
  BY <1>4, <1>5, <1>6, <1>7, WithinWider
<1>13. Unused(bytes, chain)
  <2>1. \A i \in DOMAIN bytes : bytes[i].hash = chain.hash /\ bytes[i].place >= t
    BY <1>7, <1>4, PlacesAreNaturals DEF Within
  <2> QED  BY <2>1 DEF Unused, t
<1>14. Unused(after.spare, chain)
  <2>1. \A i \in DOMAIN rest : rest[i].hash = chain.hash /\ rest[i].place >= t
    <3>1. \A i \in DOMAIN rest : rest[i].place \in Nat
      BY <1>8, PlacesAreNaturals, Zenon
    <3>2. \A i \in DOMAIN rest : rest[i].hash = chain.hash /\ t + n <= rest[i].place
      BY <1>8, Zenon DEF Within
    <3> QED  BY <3>1, <3>2, <1>4
  <2>2. \A i \in DOMAIN after.spare :
           \/ i \in DOMAIN spare /\ after.spare[i] = spare[i]
           \/ i - Len(spare) \in DOMAIN rest /\ after.spare[i] = rest[i - Len(spare)]
    BY <1>1, <1>3, <1>8
  <2> QED  BY <2>1, <2>2 DEF Unused, t, spare
<1> QED  BY <1>3, <1>7, <1>10, <1>11, <1>12, <1>13, <1>14 DEF Served, after, bytes

\* Two requests in a row serve what they serve together.
LEMMA ServedInTurn ==
  ASSUME NEW chain, GoodChain(chain), NEW mid, NEW after, NEW first, NEW second,
         Served(chain, first, mid), Served(mid, second, after),
         Taken(chain) <= Taken(mid), Taken(mid) <= Taken(after)
  PROVE  Served(chain, first \o second, after)
<1>1. /\ first \in Seq(AnyByte) /\ second \in Seq(AnyByte)
      /\ NoRepetition(first) /\ NoRepetition(second)
      /\ mid.hash = chain.hash /\ after.hash = chain.hash
      /\ Disjoint(first, mid.spare) /\ Disjoint(second, after.spare)
      /\ GoodChain(mid) /\ GoodChain(after)
  BY DEF Served
<1>2. /\ Within(first, chain.hash, 0, Taken(mid)) /\ Within(second, chain.hash, 0, Taken(after))
      /\ Unused(first, chain) /\ Unused(second, mid) /\ Unused(after.spare, mid)
      /\ Unused(mid.spare, chain)
  BY <1>1 DEF Served
<1>3. Taken(chain) \in Nat /\ Taken(mid) \in Nat /\ Taken(after) \in Nat
  BY <1>1, TakenIsNatural DEF GoodChain
<1>4. \A s \in Seq(AnyByte) : Unused(s, mid) => Disjoint(first, s)
  <2> SUFFICES ASSUME NEW s \in Seq(AnyByte), Unused(s, mid),
                      NEW i \in DOMAIN first, NEW j \in DOMAIN s
               PROVE  first[i] # s[j]
    BY DEF Disjoint
  <2>1. CASE \E k \in DOMAIN mid.spare : s[j] = mid.spare[k]
    BY <2>1, <1>1 DEF Disjoint
  <2>2. CASE s[j].hash = mid.hash /\ s[j].place >= Taken(mid)
    BY <2>2, <1>1, <1>2, <1>3, PlacesAreNaturals DEF Within
  <2> QED  BY <2>1, <2>2 DEF Unused
<1>5. \A s \in Seq(AnyByte) : Unused(s, mid) => Unused(s, chain)
  <2> SUFFICES ASSUME NEW s \in Seq(AnyByte), Unused(s, mid), NEW j \in DOMAIN s
               PROVE  \/ \E k \in DOMAIN chain.spare : s[j] = chain.spare[k]
                      \/ s[j].hash = chain.hash /\ s[j].place >= Taken(chain)
    BY DEF Unused
  <2>1. CASE \E k \in DOMAIN mid.spare : s[j] = mid.spare[k]
    BY <2>1, <1>2 DEF Unused
  <2>2. CASE s[j].hash = mid.hash /\ s[j].place >= Taken(mid)
    BY <2>2, <1>1, <1>3, PlacesAreNaturals
  <2> QED  BY <2>1, <2>2 DEF Unused
<1>6. after.spare \in Seq(AnyByte)
  BY <1>1 DEF GoodChain, Chains
<1> DEFINE both == first \o second
<1>7. both \in Seq(AnyByte)
  BY <1>1
<1>8. NoRepetition(both)
  BY <1>1, <1>2, <1>4, ConcatDistinct
<1>9. Disjoint(both, after.spare)
  BY <1>1, <1>2, <1>4, <1>6, ConcatDisjoint
<1>10. Within(both, chain.hash, 0, Taken(after))
  BY <1>1, <1>2, <1>3, WithinWider, ConcatWithin
<1>11. Unused(both, chain)
  <2>1. \A i \in DOMAIN both :
           \/ i \in DOMAIN first /\ both[i] = first[i]
           \/ i - Len(first) \in DOMAIN second /\ both[i] = second[i - Len(first)]
    BY <1>1
  <2>2. Unused(first, chain) /\ Unused(second, chain)
    BY <1>1, <1>2, <1>5
  <2> HIDE DEF both
  <2> QED  BY <2>1, <2>2 DEF Unused
<1>12. Unused(after.spare, chain)
  BY <1>2, <1>5, <1>6
<1> QED  BY <1>1, <1>7, <1>8, <1>9, <1>10, <1>11, <1>12 DEF Served

LEMMA CounterMonotonic ==
  ASSUME NEW a \in Nat, NEW b \in Nat, a <= b
  PROVE  a * kDigestNumBytes <= b * kDigestNumBytes
<1>1. kDigestNumBytes \in Nat
  BY DigestAssumption
<1>2. PICK d \in Nat : b = a + d
  <2>1. b - a \in Nat /\ b = a + (b - a)
    OBVIOUS
  <2> QED  BY <2>1
<1>3. b * kDigestNumBytes = a * kDigestNumBytes + d * kDigestNumBytes
  BY <1>1, <1>2
<1>4. a * kDigestNumBytes \in Nat /\ d * kDigestNumBytes \in Nat
  BY <1>1
<1> QED  BY <1>3, <1>4

\* A request of any size.
LEMMA RequestServed ==
  ASSUME NEW chain, GoodChain(chain), NEW num_bytes \in Nat
  PROVE  Served(chain, GetRandomBytes(chain, num_bytes).bytes,
                GetRandomBytes(chain, num_bytes).chain)
<1> DEFINE blocks == num_bytes \div kDigestNumBytes
           n == num_bytes % kDigestNumBytes
           mid == SkipBlocks(chain, blocks)
           tail == IF SpareSuffices(chain, n) THEN TailFromSpare(mid, n)
                                              ELSE TailFromDigest(mid, n)
<1>1. blocks \in Nat /\ n \in Nat /\ n < kDigestNumBytes
  BY DigestAssumption
<1>2. GetRandomBytes(chain, num_bytes) =
        [bytes |-> FullBlocks(chain, blocks) \o tail.bytes, chain |-> tail.chain]
  BY DEF GetRandomBytes
<1>3. mid.spare = chain.spare /\ mid.counter = chain.counter + blocks
  BY DEF SkipBlocks, GoodChain, Chains
<1>4. SpareSuffices(mid, n) <=> SpareSuffices(chain, n)
  BY <1>3, Zenon DEF SpareSuffices
<1> HIDE DEF blocks, n, mid
<1>5. Served(chain, FullBlocks(chain, blocks), mid)
  BY <1>1, BlocksServed DEF mid
<1>6. GoodChain(mid)
  BY <1>5 DEF Served
<1>7. Served(mid, tail.bytes, tail.chain)
  <2>1. CASE SpareSuffices(chain, n)
    <3>1. Served(mid, TailFromSpare(mid, n).bytes, TailFromSpare(mid, n).chain)
      BY <2>1, <1>1, <1>4, <1>6, SpareServed, Zenon
    <3> QED  BY <3>1, <2>1
  <2>2. CASE ~SpareSuffices(chain, n)
    <3>1. Served(mid, TailFromDigest(mid, n).bytes, TailFromDigest(mid, n).chain)
      BY <2>2, <1>1, <1>4, <1>6, DigestServed, Zenon
    <3> QED  BY <3>1, <2>2
  <2> QED  BY <2>1, <2>2
<1>8. tail.chain.counter >= mid.counter
  BY <1>6 DEF TailFromSpare, TailFromDigest, GoodChain, Chains
<1> HIDE DEF tail
<1>9. Taken(chain) <= Taken(mid) /\ Taken(mid) <= Taken(tail.chain)
  <2>1. chain.counter \in Nat /\ mid.counter \in Nat /\ tail.chain.counter \in Nat
    BY <1>6, <1>7 DEF Served, GoodChain, Chains
  <2>2. chain.counter <= mid.counter /\ mid.counter <= tail.chain.counter
    BY <2>1, <1>1, <1>3, <1>8
  <2> QED  BY <2>1, <2>2, CounterMonotonic DEF Taken
<1>10. Served(chain, FullBlocks(chain, blocks) \o tail.bytes, tail.chain)
  BY <1>5, <1>7, <1>9, ServedInTurn
<1> QED  BY <1>2, <1>10

LEMMA RequestMovesOn ==
  ASSUME NEW chain, GoodChain(chain), NEW num_bytes \in Nat
  PROVE  Taken(chain) <= Taken(GetRandomBytes(chain, num_bytes).chain)
<1> DEFINE blocks == num_bytes \div kDigestNumBytes
           n == num_bytes % kDigestNumBytes
           mid == SkipBlocks(chain, blocks)
           after == GetRandomBytes(chain, num_bytes).chain
<1>1. blocks \in Nat
  BY DigestAssumption
<1>2. after = TailFromSpare(mid, n).chain \/ after = TailFromDigest(mid, n).chain
  BY DEF GetRandomBytes
<1> HIDE DEF blocks, n, after
<1>3. chain \in Chains /\ chain.counter \in Nat
  BY DEF GoodChain, Chains
<1>4. mid \in Chains /\ mid.counter = chain.counter + blocks
  BY <1>1, <1>3 DEF SkipBlocks, Chains
<1> HIDE DEF mid
<1>5. after.counter = mid.counter \/ after.counter = mid.counter + 1
  BY <1>2, <1>4 DEF TailFromSpare, TailFromDigest, Chains
<1>6. after.counter \in Nat /\ chain.counter <= after.counter
  BY <1>1, <1>3, <1>4, <1>5
<1> QED  BY <1>3, <1>6, CounterMonotonic DEF Taken, after

LEMMA MixedIsGood ==
  ASSUME NEW chain, GoodChain(chain), NEW m \in Messages
  PROVE  /\ GoodChain(UpdateHashChain(chain, m))
         /\ UpdateHashChain(chain, m).spare = <<>>
         /\ Len(UpdateHashChain(chain, m).hash) = Len(chain.hash) + 1
<1> DEFINE after == UpdateHashChain(chain, m)
<1>1. chain.hash \in Seq(Messages)
  BY DEF GoodChain, Chains
<1>2. after = [hash |-> Append(chain.hash, m), counter |-> 0, spare |-> <<>>]
  BY DEF UpdateHashChain
<1>3. Append(chain.hash, m) \in Seq(Messages)
      /\ Len(Append(chain.hash, m)) = Len(chain.hash) + 1
  BY <1>1
<1> HIDE DEF after
<1>4. after \in Chains /\ after.spare = <<>>
  BY <1>2, <1>3 DEF Chains
<1>5. Len(after.spare) < kDigestNumBytes
  BY <1>4, DigestAssumption
<1>6. NoRepetition(after.spare) /\ Within(after.spare, after.hash, 0, Taken(after))
  BY <1>4 DEF NoRepetition, Within
<1> QED  BY <1>2, <1>3, <1>4, <1>5, <1>6 DEF GoodChain, after

LEMMA FirstIsGood ==
  ASSUME NEW seed \in Messages
  PROVE  GoodChain(InitHashChain(seed))
<1> DEFINE after == InitHashChain(seed)
<1>1. after = [hash |-> <<seed>>, counter |-> 0, spare |-> <<>>]
  BY DEF InitHashChain
<1> HIDE DEF after
<1>2. after \in Chains /\ after.spare = <<>>
  BY <1>1 DEF Chains
<1>3. Len(after.spare) < kDigestNumBytes
  BY <1>2, DigestAssumption
<1>4. NoRepetition(after.spare) /\ Within(after.spare, after.hash, 0, Taken(after))
  BY <1>2 DEF NoRepetition, Within
<1> QED  BY <1>2, <1>3, <1>4 DEF GoodChain, after

-----------------------------------------------------------------------------
\* What was handed out is past: it belongs to an earlier hash, or to a digest
\* already taken and not to its spare rest.
StreamIsPast ==
  /\ \A i \in DOMAIN stream :
       \/ Len(stream[i].hash) < Len(hash_chain.hash)
       \/ stream[i].hash = hash_chain.hash /\ stream[i].place < Taken(hash_chain)
  /\ Disjoint(stream, hash_chain.spare)

\* The inductive invariant: NeverRepeats needs to know that neither what is spare
\* nor what is still to come has been handed out.
StreamRight ==
  /\ GoodChain(hash_chain)
  /\ stream \in Seq(AnyByte)
  /\ NoRepetition(stream)
  /\ StreamIsPast

LEMMA InitStreamRight == PrngInit => StreamRight
<1> SUFFICES ASSUME PrngInit PROVE StreamRight
  OBVIOUS
<1>1. PICK seed \in Messages : hash_chain = InitHashChain(seed)
  BY DEF PrngInit
<1>2. GoodChain(hash_chain)
  BY <1>1, FirstIsGood
<1>3. stream = <<>>
  BY DEF PrngInit
<1>4. stream \in Seq(AnyByte) /\ NoRepetition(stream) /\ StreamIsPast
  BY <1>3 DEF NoRepetition, StreamIsPast, Disjoint
<1> QED  BY <1>2, <1>4 DEF StreamRight

LEMMA DrawStreamRight ==
  ASSUME StreamRight, NEW n \in RequestSizes, Draw(n)
  PROVE  StreamRight'
<1> DEFINE bytes == GetRandomBytes(hash_chain, n).bytes
           after == GetRandomBytes(hash_chain, n).chain
<1>1. hash_chain' = after /\ stream' = stream \o bytes
  BY DEF Draw
<1>2. n \in Nat
  BY PrngAssumption
<1>3. Served(hash_chain, bytes, after)
  BY <1>2, RequestServed DEF StreamRight
<1> HIDE DEF bytes, after
<1>4. /\ bytes \in Seq(AnyByte) /\ NoRepetition(bytes) /\ Disjoint(bytes, after.spare)
      /\ Within(bytes, hash_chain.hash, 0, Taken(after)) /\ Unused(bytes, hash_chain)
      /\ Unused(after.spare, hash_chain) /\ GoodChain(after) /\ after.hash = hash_chain.hash
      /\ after.spare \in Seq(AnyByte)
  BY <1>3 DEF Served, GoodChain, Chains
<1>5. /\ stream \in Seq(AnyByte) /\ NoRepetition(stream) /\ StreamIsPast
      /\ GoodChain(hash_chain)
  BY DEF StreamRight
<1>6. Taken(hash_chain) \in Nat /\ Taken(after) \in Nat
  BY <1>4, <1>5, TakenIsNatural DEF GoodChain
<1>7. ASSUME NEW s \in Seq(AnyByte), Unused(s, hash_chain)
      PROVE  Disjoint(stream, s)
  <2> SUFFICES ASSUME NEW i \in DOMAIN stream, NEW j \in DOMAIN s
               PROVE  stream[i] # s[j]
    BY DEF Disjoint
  <2>1. CASE \E k \in DOMAIN hash_chain.spare : s[j] = hash_chain.spare[k]
    BY <2>1, <1>5 DEF StreamIsPast, Disjoint
  <2>2. CASE s[j].hash = hash_chain.hash /\ s[j].place >= Taken(hash_chain)
    <3>1. \/ Len(stream[i].hash) < Len(hash_chain.hash)
          \/ stream[i].place < Taken(hash_chain)
      BY <1>5 DEF StreamIsPast
    <3>2. Len(hash_chain.hash) \in Nat /\ s[j].place \in Nat
      BY <1>5, PlacesAreNaturals DEF GoodChain, Chains
    <3>3. stream[i].place \in Nat
      BY <1>5, PlacesAreNaturals
    <3> QED  BY <2>2, <3>1, <3>2, <3>3, <1>6
  <2> QED  BY <2>1, <2>2, <1>7 DEF Unused
<1>8. NoRepetition(stream \o bytes)
  BY <1>4, <1>5, <1>7, ConcatDistinct
<1>9. Disjoint(stream \o bytes, after.spare)
  BY <1>4, <1>5, <1>7, ConcatDisjoint
<1>10. Taken(hash_chain) <= Taken(after)
  BY <1>2, <1>5, RequestMovesOn DEF after
<1>11. \A i \in DOMAIN (stream \o bytes) :
         \/ Len((stream \o bytes)[i].hash) < Len(after.hash)
         \/ (stream \o bytes)[i].hash = after.hash
            /\ (stream \o bytes)[i].place < Taken(after)
  <2> DEFINE both == stream \o bytes
  <2>1. \A i \in DOMAIN both :
           \/ i \in DOMAIN stream /\ both[i] = stream[i]
           \/ i - Len(stream) \in DOMAIN bytes /\ both[i] = bytes[i - Len(stream)]
    BY <1>4, <1>5
  <2>2. \A i \in DOMAIN stream :
           \/ Len(stream[i].hash) < Len(after.hash)
           \/ stream[i].hash = after.hash /\ stream[i].place < Taken(after)
    <3>1. \A i \in DOMAIN stream : stream[i].place \in Nat
      BY <1>5, PlacesAreNaturals
    <3> QED  BY <3>1, <1>4, <1>5, <1>6, <1>10 DEF StreamIsPast
  <2>3. \A i \in DOMAIN bytes : bytes[i].hash = after.hash /\ bytes[i].place < Taken(after)
    BY <1>4, Zenon DEF Within
  <2> HIDE DEF both
  <2>4. \A i \in DOMAIN both :
           \/ Len(both[i].hash) < Len(after.hash)
           \/ both[i].hash = after.hash /\ both[i].place < Taken(after)
    BY <2>1, <2>2, <2>3
  <2> QED  BY <2>4 DEF both
<1>12. stream \o bytes \in Seq(AnyByte)
  BY <1>4, <1>5
<1>13. StreamIsPast'
  BY <1>1, <1>9, <1>11 DEF StreamIsPast, Disjoint, Taken
<1>14. NoRepetition(stream)'
  BY <1>1, <1>8 DEF NoRepetition
<1>15. GoodChain(hash_chain)'
  BY <1>1, <1>4 DEF GoodChain, NoRepetition, Within, Taken
<1> QED  BY <1>1, <1>12, <1>13, <1>14, <1>15 DEF StreamRight

LEMMA MixStreamRight ==
  ASSUME StreamRight, NEW m \in Messages, MixSeedWithBytes(m)
  PROVE  StreamRight'
<1> DEFINE after == UpdateHashChain(hash_chain, m)
<1>1. hash_chain' = after /\ stream' = stream
  BY DEF MixSeedWithBytes
<1>2. GoodChain(after) /\ after.spare = <<>> /\ Len(after.hash) = Len(hash_chain.hash) + 1
  BY MixedIsGood DEF StreamRight
<1> HIDE DEF after
<1>3. Len(hash_chain.hash) \in Nat
  BY DEF StreamRight, GoodChain, Chains
<1>4. \A i \in DOMAIN stream : Len(stream[i].hash) < Len(after.hash)
  <2>1. \A i \in DOMAIN stream : Len(stream[i].hash) <= Len(hash_chain.hash)
    <3> SUFFICES ASSUME NEW i \in DOMAIN stream
                 PROVE  Len(stream[i].hash) <= Len(hash_chain.hash)
      OBVIOUS
    <3>1. stream[i].hash \in Seq(Messages)
      BY PlacesAreNaturals DEF StreamRight
    <3>2. Len(stream[i].hash) \in Nat
      BY <3>1
    <3>3. \/ Len(stream[i].hash) < Len(hash_chain.hash)
          \/ stream[i].hash = hash_chain.hash
      BY DEF StreamRight, StreamIsPast
    <3> QED  BY <3>2, <3>3, <1>3
  <2>2. \A i \in DOMAIN stream : Len(stream[i].hash) \in Nat
    <3> SUFFICES ASSUME NEW i \in DOMAIN stream
                 PROVE  Len(stream[i].hash) \in Nat
      OBVIOUS
    <3>1. stream[i].hash \in Seq(Messages)
      BY PlacesAreNaturals DEF StreamRight
    <3> QED  BY <3>1
  <2> QED  BY <2>1, <2>2, <1>2, <1>3
<1>5. Disjoint(stream, after.spare)
  BY <1>2 DEF Disjoint
<1>6. StreamIsPast'
  BY <1>1, <1>4, <1>5 DEF StreamIsPast, Disjoint
<1>7. GoodChain(hash_chain)'
  BY <1>1, <1>2 DEF GoodChain, NoRepetition, Within, Taken
<1>8. stream' \in Seq(AnyByte) /\ NoRepetition(stream)'
  BY <1>1 DEF StreamRight, NoRepetition
<1> QED  BY <1>6, <1>7, <1>8 DEF StreamRight

THEOREM PrngInvariant == PrngSpec => []StreamRight
<1>1. StreamRight /\ [PrngNext]_prng_vars => StreamRight'
  <2> SUFFICES ASSUME StreamRight, [PrngNext]_prng_vars PROVE StreamRight'
    OBVIOUS
  <2>1. ASSUME NEW n \in RequestSizes, Draw(n) PROVE StreamRight'
    BY <2>1, DrawStreamRight
  <2>2. ASSUME NEW m \in Messages, MixSeedWithBytes(m) PROVE StreamRight'
    BY <2>2, MixStreamRight
  <2>3. CASE UNCHANGED prng_vars
    BY <2>3 DEF prng_vars, StreamRight, GoodChain, NoRepetition, Within, Taken, StreamIsPast,
                Disjoint
  <2> QED  BY <2>1, <2>2, <2>3 DEF PrngNext
<1> QED  BY InitStreamRight, <1>1, PTL DEF PrngSpec

\* The state of the generator is well typed, for every digest size and message set.
THEOREM PrngTypeCorrect == PrngSpec => []PrngTypeOK
<1>1. StreamRight => PrngTypeOK
  BY DEF StreamRight, PrngTypeOK, GoodChain, Chains
<1> QED  BY <1>1, PrngInvariant, PTL

\* The assertion "Not enough room in spare bytes buffer" (hash_chain.cc:67) never
\* fails, whatever sizes are asked for in whatever order.
THEOREM SpareFits == PrngSpec => []SpareBelowDigest
<1>1. StreamRight => SpareBelowDigest
  BY DEF StreamRight, SpareBelowDigest, GoodChain
<1> QED  BY <1>1, PrngInvariant, PTL

\* No byte of the random stream is handed out twice (hash_chain.cc:27-49).
THEOREM StreamIsFresh == PrngSpec => []NeverRepeats
<1>1. StreamRight => NeverRepeats
  BY DEF StreamRight, NeverRepeats, NoRepetition
<1> QED  BY <1>1, PrngInvariant, PTL

\* Randomness asked for after a message depends on it and on all before it
\* (hash_chain.cc:51-58).
THEOREM FreshAfterEveryMessage == PrngSpec => DependsOnAllMessages
<1> DEFINE Depends ==
      \A i \in DOMAIN stream' \ DOMAIN stream : stream'[i].hash = hash_chain.hash
<1>1. ASSUME StreamRight, NEW n \in RequestSizes, Draw(n)
      PROVE  Depends
  <2> DEFINE bytes == GetRandomBytes(hash_chain, n).bytes
  <2>1. stream' = stream \o bytes
    BY <1>1 DEF Draw
  <2>2. Served(hash_chain, bytes, GetRandomBytes(hash_chain, n).chain)
    BY <1>1, PrngAssumption, RequestServed DEF StreamRight
  <2> HIDE DEF bytes
  <2>3. bytes \in Seq(AnyByte) /\ (\A i \in DOMAIN bytes : bytes[i].hash = hash_chain.hash)
    BY <2>2 DEF Served, Within
  <2>4. stream \in Seq(AnyByte)
    BY <1>1 DEF StreamRight
  <2>5. \A i \in DOMAIN (stream \o bytes) \ DOMAIN stream :
          i - Len(stream) \in DOMAIN bytes /\ (stream \o bytes)[i] = bytes[i - Len(stream)]
    BY <2>3, <2>4
  <2> QED  BY <2>1, <2>3, <2>5, Zenon
<1>2. ASSUME NEW m \in Messages, MixSeedWithBytes(m)
      PROVE  Depends
  BY <1>2 DEF MixSeedWithBytes
<1>3. ASSUME UNCHANGED prng_vars
      PROVE  Depends
  BY <1>3 DEF prng_vars
<1>4. StreamRight /\ [PrngNext]_prng_vars => [Depends]_prng_vars
  BY <1>1, <1>2, <1>3 DEF PrngNext
<1> QED  BY <1>4, PrngInvariant, PTL DEF PrngSpec, DependsOnAllMessages

-----------------------------------------------------------------------------
(***************************************************************************)
(* Proof of work: for any word, chunk size, number of tasks and sets of    *)
(* valid nonces, the search returns the lowest valid nonce, fails only     *)
(* when no nonce of the chunks it enters is valid, and searches no chunk   *)
(* twice.                                                                  *)
(*                                                                         *)
(* The argument follows the chunk counter.  Until it wraps around, what it *)
(* hands out is above every chunk handed out before (CounterFresh).  After *)
(* that, it counts the tasks that met the wrap-around, each of which stops *)
(* (CounterWrapped), so it never comes back to nonce_bound.  Every valid   *)
(* nonce is then accounted for at all times (Covered): it is above the     *)
(* lowest one found, in a chunk a task is about to search, above a nonce a *)
(* task is storing, or not handed out yet.                                 *)
(***************************************************************************)

\* Where chunks start.
Starts == {s \in U64 : \E k \in Nat : s = k * ChunkSize}

\* t has a chunk that it is going to search, unless lowest_nonce_found is below it.
Ahead(t) ==
  pc[t] = "search" \/ (pc[t] = "check" /\ nonce_start[t] >= nonce_bound)

\* The tasks that were handed one of the initial chunks again.
Wrapped == {t \in Tasks : pc[t] \in {"check", "done"} /\ nonce_start[t] < nonce_bound}

StartsAligned ==
  next_chunk_to_search \in Starts /\ \A t \in Tasks : nonce_start[t] \in Starts

CounterFresh ==
  /\ Wrapped = {}
  /\ next_chunk_to_search >= nonce_bound
  /\ \A s \in searched : s < next_chunk_to_search
  /\ \A t \in Tasks : nonce_start[t] < next_chunk_to_search

CounterWrapped == next_chunk_to_search = Cardinality(Wrapped) * ChunkSize

CounterRight == CounterFresh \/ CounterWrapped

ChunksApart ==
  \A t \in Tasks : Ahead(t) =>
    /\ nonce_start[t] \notin searched
    /\ \A u \in Tasks \ {t} : Ahead(u) => nonce_start[u] # nonce_start[t]

\* A task stops at a chunk above lowest_nonce_found, or at the wrap-around.
DoneAbove ==
  \A t \in Tasks : pc[t] = "done" /\ nonce_start[t] >= nonce_bound
                     => lowest_nonce_found <= nonce_start[t]

LoweringRight ==
  \A t \in Tasks : pc[t] = "lower" =>
    nonce[t] \in valid \cap Searchable /\ lowest_nonce_found <= curr_nonce[t]

FoundRight == lowest_nonce_found \in (valid \cap Searchable) \cup {MaxNonce}

Covered(n) ==
  \/ lowest_nonce_found <= n
  \/ \E t \in Tasks : Ahead(t) /\ n \in Chunk(nonce_start[t])
  \/ \E t \in Tasks : pc[t] = "lower" /\ nonce[t] <= n
  \/ Wrapped = {} /\ nonce_bound <= next_chunk_to_search /\ next_chunk_to_search <= n

AllCovered == \A n \in valid \cap Searchable : Covered(n)

ResultRight ==
  result # Searching =>
    /\ \A t \in Tasks : pc[t] = "done"
    /\ result = IF lowest_nonce_found = MaxNonce THEN NoNonce ELSE lowest_nonce_found

SearchInv ==
  /\ SearchTypeOK
  /\ StartsAligned
  /\ CounterRight
  /\ ChunksApart
  /\ DoneAbove
  /\ LoweringRight
  /\ FoundRight
  /\ AllCovered
  /\ ResultRight

-----------------------------------------------------------------------------
(* Words, chunks and least elements. *)

\* Multiples of c below another one are at least c below it.
LEMMA MultipleGap ==
  ASSUME NEW c \in Nat \ {0}, NEW j \in Nat, NEW k \in Nat, j * c < k * c
  PROVE  /\ j < k
         /\ j * c + c = (j + 1) * c
         /\ j * c + c <= k * c
PROOF
<1>1. j < k
  <2> SUFFICES ASSUME k <= j PROVE FALSE
    OBVIOUS
  <2>1. PICK d \in Nat : j = k + d
    BY j - k \in Nat
  <2>2. j * c = k * c + d * c
    BY <2>1
  <2>3. d * c >= 0
    OBVIOUS
  <2> QED
    BY <2>2, <2>3
<1>2. PICK e \in Nat : k = j + 1 + e
  BY <1>1, k - j - 1 \in Nat
<1>3. k * c = j * c + c + e * c
  BY <1>2
<1>4. e * c >= 0
  OBVIOUS
<1>5. j * c + c = (j + 1) * c
  OBVIOUS
<1> QED
  BY <1>1, <1>3, <1>4, <1>5

\* The same where the larger one need not be smaller.
LEMMA MultipleOrder ==
  ASSUME NEW c \in Nat \ {0}, NEW j \in Nat, NEW k \in Nat, j <= k
  PROVE  j * c <= k * c
PROOF
<1>1. PICK e \in Nat : k = j + e
  BY k - j \in Nat
<1>2. k * c = j * c + e * c
  BY <1>1
<1>3. e * c >= 0
  OBVIOUS
<1> QED
  BY <1>2, <1>3

LEMMA WordFacts ==
  /\ Word \in Nat /\ Word > 1
  /\ ChunkSize \in Nat \ {0} /\ ChunkSize <= Word
  /\ ThreadCount \in Nat \ {0}
  /\ nonce_bound \in Nat \ {0} /\ nonce_bound < Word
  /\ U64 \subseteq Nat
PROOF
<1>1. Word \in Nat /\ Word > 1
  BY WordAssumption
<1>2. ChunkSize \in Nat \ {0} /\ ThreadCount \in Nat \ {0}
  BY SearchAssumption
<1>3. ThreadCount * ChunkSize \in Nat /\ ThreadCount * ChunkSize > 0
  BY <1>2
<1>4. ThreadCount * ChunkSize < Word
  BY SearchAssumption
<1>5. PICK n \in 1 .. Word : Word = n * ChunkSize
  BY SearchAssumption
<1>6. ChunkSize <= n * ChunkSize
  <2>1. 1 * ChunkSize <= n * ChunkSize
    BY <1>1, <1>2, 1 \in Nat, n \in Nat, 1 <= n, MultipleOrder
  <2> QED
    BY <2>1, <1>2
<1> QED
  BY <1>1, <1>2, <1>3, <1>4, <1>5, <1>6 DEF nonce_bound, U64

\* A start is a whole chunk below the end of the word, or further.
LEMMA StartBelowEnd ==
  ASSUME NEW s \in Starts, NEW m \in Starts \cup {Word}, s < m
  PROVE  s + ChunkSize <= m /\ (m < Word => s + ChunkSize \in Starts)
PROOF
<1>1. PICK j \in Nat : s = j * ChunkSize
  BY DEF Starts
<1>2. PICK k \in Nat : m = k * ChunkSize
  <2>1. CASE m \in Starts
    BY <2>1 DEF Starts
  <2>2. CASE m = Word
    <3>1. PICK n \in 1 .. Word : Word = n * ChunkSize
      BY SearchAssumption
    <3> QED
      BY <2>2, <3>1, WordFacts
  <2> QED
    BY <2>1, <2>2
<1>3. j * ChunkSize + ChunkSize <= k * ChunkSize /\ s + ChunkSize = (j + 1) * ChunkSize
  BY <1>1, <1>2, WordFacts, MultipleGap
<1>4. m < Word => s + ChunkSize \in U64
  BY <1>1, <1>2, <1>3, WordFacts DEF U64
<1> QED
  BY <1>1, <1>2, <1>3, <1>4 DEF Starts

LEMMA NextStart ==
  ASSUME NEW s \in Starts
  PROVE  /\ s \in Nat
         /\ s + ChunkSize <= Word
         /\ AddU64(s, ChunkSize) = IF s + ChunkSize < Word THEN s + ChunkSize ELSE 0
         /\ AddU64(s, ChunkSize) \in Starts
PROOF
<1>1. s \in Nat /\ s < Word
  BY WordFacts DEF Starts, U64
<1>2. s + ChunkSize <= Word
  BY <1>1, StartBelowEnd
<1>3. AddU64(s, ChunkSize) = IF s + ChunkSize < Word THEN s + ChunkSize ELSE 0
  BY <1>1, <1>2, WordFacts DEF AddU64
<1>4. 0 \in Starts
  BY WordFacts, 0 = 0 * ChunkSize DEF Starts, U64
<1>5. ASSUME s + ChunkSize < Word PROVE s + ChunkSize \in Starts
  <2>1. PICK j \in Nat : s = j * ChunkSize
    BY DEF Starts
  <2>2. s + ChunkSize = (j + 1) * ChunkSize
    BY <2>1, WordFacts
  <2>3. s + ChunkSize \in U64
    BY <1>1, <1>5, WordFacts DEF U64
  <2>4. \E k \in Nat : s + ChunkSize = k * ChunkSize
    BY <2>2, j + 1 \in Nat
  <2> QED
    BY <2>3, <2>4 DEF Starts
<1> QED
  BY <1>1, <1>2, <1>3, <1>4, <1>5

\* The initial chunks are chunks below nonce_bound, which starts one too.
LEMMA InitialStarts ==
  /\ nonce_bound \in Starts
  /\ \A t \in Tasks : t * ChunkSize \in Starts /\ t * ChunkSize < nonce_bound
PROOF
<1>1. nonce_bound \in Starts
  BY WordFacts DEF nonce_bound, Starts, U64
<1>2. ASSUME NEW t \in Tasks PROVE t * ChunkSize \in Starts /\ t * ChunkSize < nonce_bound
  <2>1. t \in Nat /\ t + 1 <= ThreadCount
    BY WordFacts DEF Tasks
  <2>2. (t + 1) * ChunkSize <= ThreadCount * ChunkSize
    BY <2>1, WordFacts, MultipleOrder, t + 1 \in Nat
  <2>3. (t + 1) * ChunkSize = t * ChunkSize + ChunkSize
    BY <2>1, WordFacts
  <2>4. t * ChunkSize \in Nat
    BY <2>1, WordFacts
  <2>5. t * ChunkSize < nonce_bound
    BY <2>2, <2>3, <2>4, WordFacts DEF nonce_bound
  <2> QED
    BY <2>1, <2>4, <2>5, WordFacts DEF Starts, U64
<1> QED
  BY <1>1, <1>2

\* What SearchChunk visits: the whole chunk, except for the one that ends the word.
LEMMA ChunkIs ==
  ASSUME NEW s \in Starts, NEW n \in U64
  PROVE  /\ n \in Chunk(s) <=> s <= n /\ n < s + ChunkSize /\ s + ChunkSize < Word
         /\ n \in Chunk(s) => n \in Searchable
         /\ n \in Searchable /\ s <= n /\ n < s + ChunkSize => n \in Chunk(s)
PROOF
<1>1. /\ s \in Nat /\ s + ChunkSize <= Word /\ n \in Nat
      /\ AddU64(s, ChunkSize) = IF s + ChunkSize < Word THEN s + ChunkSize ELSE 0
  BY NextStart, WordFacts
<1>2. n \in Chunk(s) <=> s <= n /\ n < AddU64(s, ChunkSize)
  BY DEF Chunk
<1>3. n \in Chunk(s) <=> s <= n /\ n < s + ChunkSize /\ s + ChunkSize < Word
  BY <1>1, <1>2, WordFacts
<1>4. ASSUME n \in Chunk(s) PROVE n \in Searchable
  <2>1. s + ChunkSize \in Starts
    <3>1. AddU64(s, ChunkSize) \in Starts
      BY NextStart
    <3> QED
      BY <1>1, <1>3, <1>4, <3>1
  <2>2. s + ChunkSize + ChunkSize <= Word
    BY <2>1, NextStart
  <2> QED
    BY <1>1, <1>3, <1>4, <2>2, WordFacts DEF Searchable
<1>5. ASSUME n \in Searchable, s <= n, n < s + ChunkSize PROVE n \in Chunk(s)
  <2>1. s + ChunkSize < Word
    <3> SUFFICES ASSUME s + ChunkSize = Word PROVE FALSE
      BY <1>1, WordFacts
    <3> QED
      BY <1>1, <1>5, WordFacts DEF Searchable
  <2> QED
    BY <1>3, <1>5, <2>1
<1> QED
  BY <1>3, <1>4, <1>5

\* LowestOf finds the least element of a set of words that has one.
LEMMA LowestIsLeast ==
  ASSUME NEW S \in SUBSET U64, S # {}
  PROVE  LowestOf(S) \in S /\ \A n \in S : LowestOf(S) <= n
PROOF
<1>1. S \subseteq Nat
  BY WordFacts
<1>2. \E x \in S : \A y \in S : <<y, x>> \notin OpToRel(<, Nat)
  BY <1>1, NatLessThanWellFounded, WFMin
<1>3. PICK x \in S : \A y \in S : <<y, x>> \notin OpToRel(<, Nat)
  BY <1>2
<1>4. ASSUME NEW y \in S PROVE x <= y
  <2> SUFFICES ASSUME y < x PROVE FALSE
    BY <1>1
  <2>1. <<y, x>> \in Nat \X Nat /\ <<y, x>>[1] < <<y, x>>[2]
    BY <1>1
  <2>2. <<y, x>> \in OpToRel(<, Nat)
    BY <2>1, Zenon DEF OpToRel
  <2> QED
    BY <1>3, <2>2
<1> QED
  BY <1>4 DEF LowestOf

LEMMA StartsDivide == Starts \subseteq ChunkStarts
PROOF
<1> SUFFICES ASSUME NEW s \in Starts PROVE s \in ChunkStarts
  OBVIOUS
<1>1. PICK k \in Nat : s = k * ChunkSize
  BY DEF Starts
<1>2. ChunkSize * k + 0 = s
  BY <1>1, WordFacts
<1>3. (ChunkSize * k + 0) % ChunkSize = 0
  BY WordFacts, Remainder
<1> QED
  BY <1>2, <1>3 DEF Starts, ChunkStarts

\* What the tasks hold are words, or no nonce.
LEMMA HoldWords ==
  ASSUME SearchTypeOK
  PROVE  /\ valid \in SUBSET U64 /\ MaxNonce \in U64
         /\ next_chunk_to_search \in U64 /\ lowest_nonce_found \in U64
         /\ nonce_start \in [Tasks -> U64]
         /\ nonce \in [Tasks -> U64 \cup {NoNonce}] /\ curr_nonce \in [Tasks -> U64]
         /\ searched \subseteq U64
PROOF
<1>1. MaxNonce \in U64 /\ ChunkStarts \subseteq U64
  BY WordFacts DEF MaxNonce, U64, ChunkStarts
<1> QED
  BY <1>1 DEF SearchTypeOK

\* Sets of tasks are finite, and one that misses a task is smaller than Tasks.
LEMMA TaskCount ==
  ASSUME NEW S \in SUBSET Tasks
  PROVE  /\ IsFiniteSet(S)
         /\ Cardinality(S) \in Nat /\ Cardinality(S) <= ThreadCount
         /\ S # Tasks => Cardinality(S) < ThreadCount
PROOF
<1>1. IsFiniteSet(Tasks) /\ Cardinality(Tasks) = ThreadCount
  BY FS_Interval, WordFacts DEF Tasks
<1>2. IsFiniteSet(S) /\ Cardinality(S) <= ThreadCount
      /\ (Cardinality(S) = ThreadCount => S = Tasks)
  BY <1>1, FS_Subset
<1>3. Cardinality(S) \in Nat
  BY <1>2, FS_CardinalityType
<1> QED
  BY <1>2, <1>3, WordFacts

-----------------------------------------------------------------------------
(* The invariant holds initially, and every step keeps it. *)

LEMMA InitIInv == SearchInit => SearchInv
PROOF
<1> SUFFICES ASSUME SearchInit PROVE SearchInv
  OBVIOUS
<1>1. /\ next_chunk_to_search = nonce_bound /\ lowest_nonce_found = MaxNonce
      /\ searched = {} /\ result = Searching /\ valid \in ValidSets
      /\ nonce = [t \in Tasks |-> NoNonce] /\ curr_nonce = [t \in Tasks |-> MaxNonce]
      /\ nonce_start = [t \in Tasks |-> t * ChunkSize]
      /\ pc = [t \in Tasks |-> "search"]
  BY DEF SearchInit
<1>2. \A t \in Tasks : nonce_start[t] \in Starts /\ nonce_start[t] < nonce_bound
  BY <1>1, InitialStarts
<1>3. Starts \subseteq U64 /\ nonce_bound \in Starts /\ MaxNonce \in U64
  BY InitialStarts, WordFacts DEF Starts, MaxNonce, U64
<1>4. SearchTypeOK
  <2>1. nonce_start \in [Tasks -> ChunkStarts] /\ next_chunk_to_search \in ChunkStarts
    BY <1>1, <1>2, <1>3, StartsDivide
  <2>2. valid \in SUBSET U64
    BY <1>1, SearchAssumption
  <2> QED
    BY <1>1, <1>3, <2>1, <2>2 DEF SearchTypeOK
<1>5. StartsAligned
  BY <1>1, <1>2, <1>3 DEF StartsAligned
<1>6. Wrapped = {}
  BY <1>1 DEF Wrapped
<1>7. CounterRight
  BY <1>1, <1>2, <1>6, WordFacts DEF CounterRight, CounterFresh
<1>8. ChunksApart
  <2> SUFFICES ASSUME NEW t \in Tasks, NEW u \in Tasks, nonce_start[u] = nonce_start[t]
               PROVE  u = t
    BY <1>1 DEF ChunksApart
  <2>1. t * ChunkSize = u * ChunkSize /\ t \in Nat /\ u \in Nat
    BY <1>1 DEF Tasks
  <2>2. ASSUME NEW j \in Nat, NEW k \in Nat, j < k PROVE j * ChunkSize < k * ChunkSize
    <3>1. (j + 1) * ChunkSize <= k * ChunkSize
      BY <2>2, WordFacts, MultipleOrder, j + 1 \in Nat, j + 1 <= k
    <3>2. (j + 1) * ChunkSize = j * ChunkSize + ChunkSize
          /\ j * ChunkSize \in Nat /\ k * ChunkSize \in Nat
      BY WordFacts
    <3> QED
      BY <3>1, <3>2, WordFacts
  <2>3. ~(t < u) /\ ~(u < t)
    <3>1. t * ChunkSize \in Nat
      BY <2>1, WordFacts
    <3> QED
      BY <2>1, <2>2, <3>1
  <2> QED
    BY <2>1, <2>3
<1>9. DoneAbove /\ LoweringRight
  BY <1>1 DEF DoneAbove, LoweringRight
<1>10. FoundRight /\ ResultRight
  BY <1>1 DEF FoundRight, ResultRight
<1>11. AllCovered
  <2> SUFFICES ASSUME NEW n \in valid \cap Searchable, n < nonce_bound
               PROVE  \E t \in Tasks : Ahead(t) /\ n \in Chunk(nonce_start[t])
    <3>1. \A n \in valid \cap Searchable : n \in Nat
      BY WordFacts DEF Searchable
    <3> QED
      BY <1>1, <1>6, <3>1, WordFacts DEF AllCovered, Covered
  <2>1. n \in U64 /\ n \in Nat
    BY WordFacts DEF Searchable, U64
  <2> DEFINE t == n \div ChunkSize
  <2>2. t \in Nat /\ t * ChunkSize <= n /\ n < t * ChunkSize + ChunkSize
    BY <2>1, WordFacts
  <2>3. t < ThreadCount
    <3> SUFFICES ASSUME ThreadCount <= t PROVE FALSE
      BY <2>2, WordFacts
    <3>1. ThreadCount * ChunkSize <= t * ChunkSize
      BY <2>2, WordFacts, MultipleOrder
    <3> HIDE DEF t
    <3>2. t * ChunkSize \in Nat
      BY <2>2, WordFacts
    <3> QED
      BY <2>1, <2>2, <3>1, <3>2, WordFacts DEF nonce_bound
  <2> HIDE DEF t
  <2>4. t \in Tasks
    BY <2>2, <2>3, WordFacts DEF Tasks
  <2>5. n \in Chunk(nonce_start[t])
    BY <1>1, <1>2, <2>1, <2>2, <2>4, ChunkIs
  <2>6. Ahead(t)
    BY <1>1, <2>4 DEF Ahead
  <2> QED
    BY <2>4, <2>5, <2>6
<1> QED
  BY <1>4, <1>5, <1>7, <1>8, <1>9, <1>10, <1>11 DEF SearchInv

\* A search that found nothing covered its chunk; one that found a nonce found the
\* lowest of its chunk.
LEMMA SearchChunkIs ==
  ASSUME NEW start \in Starts, valid \in SUBSET U64
  PROVE  \/ SearchChunk(start) = NoNonce /\ Chunk(start) \cap valid = {}
         \/ /\ SearchChunk(start) \in valid \cap Searchable \cap U64
            /\ SearchChunk(start) # NoNonce
            /\ \A n \in Chunk(start) \cap valid : SearchChunk(start) <= n
PROOF
<1>1. CASE Chunk(start) \cap valid = {}
  BY <1>1 DEF SearchChunk
<1>2. CASE Chunk(start) \cap valid # {}
  <2> DEFINE S == Chunk(start) \cap valid
  <2>1. S \in SUBSET U64 /\ S # {} /\ S \subseteq Chunk(start) /\ S \subseteq valid
    BY <1>2
  <2>2. SearchChunk(start) = LowestOf(S)
    BY <1>2 DEF SearchChunk
  <2> HIDE DEF S
  <2>3. LowestOf(S) \in S /\ \A n \in S : LowestOf(S) <= n
    BY <2>1, LowestIsLeast
  <2>4. LowestOf(S) \in Searchable /\ LowestOf(S) \in U64 /\ LowestOf(S) \in valid
    BY <2>1, <2>3, ChunkIs
  <2>5. LowestOf(S) # NoNonce
    BY <2>4, WordFacts DEF NoNonce
  <2> QED
    BY <2>2, <2>3, <2>4, <2>5 DEF S
<1> QED
  BY <1>1, <1>2

LEMMA SearchStep ==
  ASSUME NEW t \in Tasks, SearchInv, Search(t)
  PROVE  SearchInv'
PROOF
<1> DEFINE start == nonce_start[t]
           found == SearchChunk(start)
<1>1. /\ pc[t] = "search" /\ start \in Starts /\ start \in U64
      /\ valid \in SUBSET U64 /\ lowest_nonce_found \in U64
      /\ pc \in [Tasks -> {"search", "lower", "fetch", "check", "done"}]
      /\ nonce \in [Tasks -> U64 \cup {NoNonce}] /\ curr_nonce \in [Tasks -> U64]
  BY HoldWords, InitialStarts DEF SearchInv, Search, SearchTypeOK, StartsAligned, Starts
<1>2. \/ found = NoNonce /\ Chunk(start) \cap valid = {}
      \/ /\ found \in valid \cap Searchable \cap U64 /\ found # NoNonce
         /\ \A n \in Chunk(start) \cap valid : found <= n
  BY <1>1, SearchChunkIs
<1>3. /\ pc' = [pc EXCEPT ![t] = IF found = NoNonce THEN "fetch" ELSE "lower"]
      /\ nonce' = [nonce EXCEPT ![t] = found]
      /\ curr_nonce' = [curr_nonce EXCEPT ![t] =
                          IF found = NoNonce THEN @ ELSE lowest_nonce_found]
      /\ searched' = searched \cup {start}
      /\ valid' = valid /\ next_chunk_to_search' = next_chunk_to_search
      /\ lowest_nonce_found' = lowest_nonce_found /\ nonce_start' = nonce_start
      /\ result' = result
  BY DEF Search
<1> HIDE DEF found
<1>4. /\ pc'[t] = IF found = NoNonce THEN "fetch" ELSE "lower"
      /\ \A u \in Tasks \ {t} : pc'[u] = pc[u]
  BY <1>1, <1>3
<1>5. /\ ~Ahead(t)' /\ Ahead(t)
      /\ \A u \in Tasks \ {t} : Ahead(u)' <=> Ahead(u)
  BY <1>1, <1>3, <1>4 DEF Ahead, nonce_bound
<1>6. Wrapped' = Wrapped
  BY <1>1, <1>3, <1>4 DEF Wrapped, nonce_bound
<1>7. SearchTypeOK'
  <2>1. start \in ChunkStarts /\ MaxNonce' = MaxNonce /\ ChunkStarts' = ChunkStarts
    BY <1>1, StartsDivide DEF MaxNonce, ChunkStarts
  <2> QED
    BY <1>1, <1>2, <1>3, <2>1 DEF SearchInv, SearchTypeOK
<1>8. StartsAligned'
  BY <1>3 DEF SearchInv, StartsAligned
<1>9. CounterRight'
  BY <1>3, <1>6 DEF SearchInv, CounterRight, CounterFresh, CounterWrapped, nonce_bound
<1>10. ChunksApart'
  BY <1>3, <1>5 DEF SearchInv, ChunksApart
<1>11. DoneAbove'
  BY <1>3, <1>4 DEF SearchInv, DoneAbove, nonce_bound
<1>12. LoweringRight'
  <2> SUFFICES ASSUME NEW u \in Tasks, pc'[u] = "lower"
               PROVE  nonce'[u] \in valid \cap Searchable
                      /\ lowest_nonce_found <= curr_nonce'[u]
    BY <1>3 DEF LoweringRight, Searchable
  <2>1. CASE u = t
    BY <1>1, <1>2, <1>3, <1>4, <2>1, WordFacts
  <2>2. CASE u # t
    BY <1>1, <1>3, <1>4, <2>2 DEF SearchInv, LoweringRight
  <2> QED
    BY <2>1, <2>2
<1>13. FoundRight' /\ ResultRight'
  <2>1. result' = Searching
    BY <1>1, <1>3 DEF SearchInv, ResultRight
  <2> QED
    BY <1>3, <2>1 DEF SearchInv, FoundRight, ResultRight, Searchable, MaxNonce
<1>14. AllCovered'
  <2> SUFFICES ASSUME NEW n \in valid \cap Searchable PROVE Covered(n)'
    BY <1>3 DEF AllCovered, Searchable
  <2>1. Covered(n)
    BY DEF SearchInv, AllCovered
  <2>2. CASE n \in Chunk(start)
    <3>1. found # NoNonce /\ found <= n
      BY <1>2, <2>2
    <3>2. pc'[t] = "lower" /\ nonce'[t] = found
      BY <1>1, <1>3, <1>4, <3>1
    <3> QED
      BY <3>1, <3>2 DEF Covered
  <2>3. ASSUME NEW u \in Tasks, Ahead(u), n \in Chunk(nonce_start[u]), u # t
        PROVE  Covered(n)'
    <3>1. Ahead(u)' /\ n \in Chunk(nonce_start[u])'
      BY <1>3, <1>5, <2>3 DEF Chunk
    <3> QED
      BY <3>1 DEF Covered
  <2>4. ASSUME NEW u \in Tasks, pc[u] = "lower", nonce[u] <= n
        PROVE  Covered(n)'
    <3>1. u # t
      BY <1>1, <2>4
    <3>2. pc'[u] = "lower" /\ nonce'[u] <= n
      BY <1>1, <1>3, <1>4, <2>4, <3>1
    <3> QED
      BY <3>2 DEF Covered
  <2>5. CASE \/ lowest_nonce_found <= n
             \/ /\ Wrapped = {} /\ nonce_bound <= next_chunk_to_search
                /\ next_chunk_to_search <= n
    BY <1>3, <1>6, <2>5 DEF Covered, nonce_bound
  <2> QED
    BY <2>1, <2>2, <2>3, <2>4, <2>5 DEF Covered
<1> QED
  BY <1>7, <1>8, <1>9, <1>10, <1>11, <1>12, <1>13, <1>14 DEF SearchInv

LEMMA LowerStep ==
  ASSUME NEW t \in Tasks, SearchInv, Lower(t)
  PROVE  SearchInv'
PROOF
<1>1. /\ pc[t] = "lower" /\ nonce[t] \in valid \cap Searchable
      /\ nonce[t] < curr_nonce[t] /\ lowest_nonce_found <= curr_nonce[t]
      /\ valid \in SUBSET U64 /\ lowest_nonce_found \in U64
      /\ pc \in [Tasks -> {"search", "lower", "fetch", "check", "done"}]
      /\ curr_nonce \in [Tasks -> U64] /\ nonce_start \in [Tasks -> U64]
  BY HoldWords DEF SearchInv, Lower, SearchTypeOK, LoweringRight
<1>2. /\ valid' = valid /\ next_chunk_to_search' = next_chunk_to_search
      /\ nonce_start' = nonce_start /\ nonce' = nonce /\ searched' = searched
      /\ result' = result
  BY DEF Lower
<1>3. \/ /\ lowest_nonce_found = curr_nonce[t] /\ lowest_nonce_found' = nonce[t]
         /\ pc' = [pc EXCEPT ![t] = "fetch"] /\ curr_nonce' = curr_nonce
      \/ /\ lowest_nonce_found' = lowest_nonce_found /\ pc' = pc
         /\ curr_nonce' = [curr_nonce EXCEPT ![t] = lowest_nonce_found]
  BY DEF Lower, Exchanges, ExpectedAfterFailure
<1>4. /\ pc'[t] \in {"lower", "fetch"}
      /\ \A u \in Tasks \ {t} : pc'[u] = pc[u]
      /\ pc' \in [Tasks -> {"search", "lower", "fetch", "check", "done"}]
  BY <1>1, <1>3
<1>5. /\ nonce[t] \in U64 /\ lowest_nonce_found' \in U64
      /\ \A n \in U64 : lowest_nonce_found <= n => lowest_nonce_found' <= n
      /\ lowest_nonce_found' = nonce[t] \/ pc' = pc
  <2>1. nonce[t] \in U64 /\ curr_nonce[t] \in U64
    BY <1>1
  <2>2. lowest_nonce_found' = lowest_nonce_found
        \/ (lowest_nonce_found' = nonce[t] /\ nonce[t] < lowest_nonce_found)
    BY <1>1, <1>3
  <2>3. lowest_nonce_found' \in U64
    BY <1>1, <2>1, <2>2
  <2>4. ASSUME NEW n \in U64, lowest_nonce_found <= n PROVE lowest_nonce_found' <= n
    BY <1>1, <2>1, <2>2, <2>4 DEF U64
  <2>5. lowest_nonce_found' = nonce[t] \/ pc' = pc
    BY <1>3
  <2> QED
    BY <2>1, <2>3, <2>4, <2>5
<1>6. \A u \in Tasks : Ahead(u)' <=> Ahead(u)
  BY <1>1, <1>2, <1>4 DEF Ahead, nonce_bound
<1>7. Wrapped' = Wrapped
  BY <1>1, <1>2, <1>4 DEF Wrapped, nonce_bound
<1>8. SearchTypeOK'
  <2>1. MaxNonce' = MaxNonce /\ ChunkStarts' = ChunkStarts
    BY DEF MaxNonce, ChunkStarts
  <2> QED
    BY <1>1, <1>2, <1>3, <1>4, <2>1 DEF SearchInv, SearchTypeOK
<1>9. StartsAligned'
  BY <1>2 DEF SearchInv, StartsAligned
<1>10. CounterRight'
  BY <1>2, <1>7 DEF SearchInv, CounterRight, CounterFresh, CounterWrapped, nonce_bound
<1>11. ChunksApart'
  BY <1>2, <1>6 DEF SearchInv, ChunksApart
<1>12. DoneAbove'
  BY <1>1, <1>2, <1>4, <1>5 DEF SearchInv, DoneAbove, nonce_bound
<1>13. LoweringRight'
  <2> SUFFICES ASSUME NEW u \in Tasks, pc'[u] = "lower"
               PROVE  nonce[u] \in valid \cap Searchable
                      /\ lowest_nonce_found' <= curr_nonce'[u]
    BY <1>2 DEF LoweringRight, Searchable
  <2>1. CASE u = t
    BY <1>1, <1>3, <2>1, WordFacts
  <2>2. CASE u # t
    <3>1. /\ nonce[u] \in valid \cap Searchable /\ lowest_nonce_found <= curr_nonce[u]
          /\ curr_nonce'[u] = curr_nonce[u] /\ curr_nonce[u] \in U64
      BY <1>1, <1>3, <1>4, <2>2 DEF SearchInv, LoweringRight
    <3> QED
      BY <1>5, <3>1
  <2> QED
    BY <2>1, <2>2
<1>14. FoundRight' /\ ResultRight'
  <2>1. result' = Searching
    BY <1>1, <1>2 DEF SearchInv, ResultRight
  <2> QED
    BY <1>1, <1>2, <1>3, <2>1 DEF SearchInv, FoundRight, ResultRight, Searchable, MaxNonce
<1>15. AllCovered'
  <2> SUFFICES ASSUME NEW n \in valid \cap Searchable PROVE Covered(n)'
    BY <1>2 DEF AllCovered, Searchable
  <2>1. Covered(n) /\ n \in U64
    BY <1>1 DEF SearchInv, AllCovered
  <2>2. CASE lowest_nonce_found <= n
    BY <1>5, <2>1, <2>2 DEF Covered
  <2>3. ASSUME NEW u \in Tasks, Ahead(u), n \in Chunk(nonce_start[u])
        PROVE  Covered(n)'
    <3>1. Ahead(u)' /\ n \in Chunk(nonce_start[u])'
      BY <1>2, <1>6, <2>3 DEF Chunk
    <3> QED
      BY <3>1 DEF Covered
  <2>4. ASSUME NEW u \in Tasks, pc[u] = "lower", nonce[u] <= n
        PROVE  Covered(n)'
    <3>1. CASE pc'[u] = "lower"
      BY <1>2, <2>4, <3>1 DEF Covered
    <3>2. CASE pc'[u] # "lower"
      <4>1. u = t /\ lowest_nonce_found' = nonce[t]
        BY <1>3, <1>4, <2>4, <3>2
      <4> QED
        BY <2>4, <4>1 DEF Covered
    <3> QED
      BY <3>1, <3>2
  <2>5. CASE /\ Wrapped = {} /\ nonce_bound <= next_chunk_to_search
             /\ next_chunk_to_search <= n
    BY <1>2, <1>7, <2>5 DEF Covered, nonce_bound
  <2> QED
    BY <2>1, <2>2, <2>3, <2>4, <2>5 DEF Covered
<1> QED
  BY <1>8, <1>9, <1>10, <1>11, <1>12, <1>13, <1>14, <1>15 DEF SearchInv

\* What a task that takes a chunk from the counter knows: it is not among the tasks
\* that met the wrap-around, so the counter has not come back to nonce_bound.
LEMMA CounterBelow ==
  ASSUME NEW t \in Tasks, t \notin Wrapped, CounterWrapped
  PROVE  /\ next_chunk_to_search \in Nat
         /\ next_chunk_to_search + ChunkSize <= nonce_bound
         /\ next_chunk_to_search + ChunkSize = Cardinality(Wrapped \cup {t}) * ChunkSize
PROOF
<1> DEFINE k == Cardinality(Wrapped)
<1>1. /\ IsFiniteSet(Wrapped) /\ k \in Nat /\ k < ThreadCount
      /\ Wrapped \in SUBSET Tasks
  <2>1. Wrapped \in SUBSET Tasks /\ Wrapped # Tasks
    BY DEF Wrapped
  <2> QED
    BY <2>1, TaskCount
<1>2. Cardinality(Wrapped \cup {t}) = k + 1
  BY <1>1, FS_AddElement
<1>3. next_chunk_to_search = k * ChunkSize
  BY DEF CounterWrapped
<1> HIDE DEF k
<1>4. (k + 1) * ChunkSize <= ThreadCount * ChunkSize
  BY <1>1, WordFacts, MultipleOrder, k + 1 \in Nat, k + 1 <= ThreadCount
<1>5. k * ChunkSize \in Nat /\ (k + 1) * ChunkSize = k * ChunkSize + ChunkSize
  BY <1>1, WordFacts
<1> QED
  BY <1>2, <1>3, <1>4, <1>5, WordFacts DEF nonce_bound

LEMMA FetchStep ==
  ASSUME NEW t \in Tasks, SearchInv, Fetch(t)
  PROVE  SearchInv'
PROOF
<1> DEFINE next == next_chunk_to_search
<1>1. /\ pc[t] \in {"fetch", "lower"}
      /\ pc[t] = "lower" => nonce[t] >= curr_nonce[t]
      /\ next \in Starts /\ next \in U64
      /\ valid \in SUBSET U64 /\ lowest_nonce_found \in U64 /\ searched \subseteq U64
      /\ pc \in [Tasks -> {"search", "lower", "fetch", "check", "done"}]
      /\ nonce_start \in [Tasks -> U64] /\ nonce \in [Tasks -> U64 \cup {NoNonce}]
      /\ curr_nonce \in [Tasks -> U64]
  BY HoldWords DEF SearchInv, Fetch, SearchTypeOK, StartsAligned
<1>2. /\ pc' = [pc EXCEPT ![t] = "check"]
      /\ nonce_start' = [nonce_start EXCEPT ![t] = next]
      /\ next_chunk_to_search' = AddU64(next, ChunkSize)
      /\ valid' = valid /\ lowest_nonce_found' = lowest_nonce_found
      /\ nonce' = nonce /\ curr_nonce' = curr_nonce /\ searched' = searched
      /\ result' = result
  BY DEF Fetch, NextChunk
<1>3. /\ pc'[t] = "check" /\ nonce_start'[t] = next
      /\ \A u \in Tasks \ {t} : pc'[u] = pc[u] /\ nonce_start'[u] = nonce_start[u]
  BY <1>1, <1>2
<1>4. /\ next \in Nat /\ next + ChunkSize <= Word
      /\ next_chunk_to_search' = IF next + ChunkSize < Word THEN next + ChunkSize ELSE 0
      /\ next_chunk_to_search' \in Starts /\ next_chunk_to_search' \in U64
  BY <1>1, <1>2, NextStart DEF Starts
<1>5. t \notin Wrapped /\ ~Ahead(t)
  BY <1>1 DEF Wrapped, Ahead
<1>6. /\ Ahead(t)' <=> next >= nonce_bound
      /\ \A u \in Tasks \ {t} : Ahead(u)' <=> Ahead(u)
  BY <1>3 DEF Ahead, nonce_bound
<1>7. Wrapped' = IF next < nonce_bound THEN Wrapped \cup {t} ELSE Wrapped
  BY <1>3, <1>5 DEF Wrapped, nonce_bound
<1>8. \/ CounterFresh /\ next >= nonce_bound /\ Wrapped = {} /\ Wrapped' = {}
      \/ /\ CounterWrapped /\ next + ChunkSize <= nonce_bound /\ next < nonce_bound
         /\ Wrapped' = Wrapped \cup {t}
         /\ next + ChunkSize = Cardinality(Wrapped \cup {t}) * ChunkSize
  <2>1. CASE CounterFresh
    BY <1>4, <1>7, <2>1, WordFacts DEF CounterFresh
  <2>2. CASE CounterWrapped
    BY <1>4, <1>5, <1>7, <2>2, CounterBelow, WordFacts
  <2> QED
    BY <2>1, <2>2 DEF SearchInv, CounterRight
<1>9. SearchTypeOK'
  <2>1. /\ next \in ChunkStarts /\ next_chunk_to_search' \in ChunkStarts
        /\ MaxNonce' = MaxNonce /\ ChunkStarts' = ChunkStarts
    BY <1>1, <1>4, StartsDivide DEF MaxNonce, ChunkStarts
  <2> QED
    BY <1>1, <1>2, <2>1 DEF SearchInv, SearchTypeOK
<1>10. StartsAligned'
  BY <1>1, <1>2, <1>3, <1>4 DEF SearchInv, StartsAligned
<1>11. CounterRight'
  <2>1. CASE CounterFresh /\ next >= nonce_bound /\ Wrapped' = {} /\ next + ChunkSize < Word
    <3>1. next_chunk_to_search' = next + ChunkSize
      BY <1>4, <2>1
    <3>2. \A u \in Tasks : nonce_start'[u] < next_chunk_to_search'
      <4> SUFFICES ASSUME NEW u \in Tasks PROVE nonce_start'[u] < next + ChunkSize
        BY <3>1
      <4>1. nonce_start[u] < next /\ nonce_start[u] \in Nat
        BY <1>1, <2>1, WordFacts DEF CounterFresh
      <4> QED
        BY <1>3, <1>4, <4>1, WordFacts
    <3>3. \A s \in searched' : s < next_chunk_to_search'
      <4> SUFFICES ASSUME NEW s \in searched PROVE s < next + ChunkSize
        BY <1>2, <3>1
      <4>1. s < next /\ s \in Nat
        BY <1>1, <2>1, WordFacts DEF CounterFresh
      <4> QED
        BY <1>4, <4>1, WordFacts
    <3>4. next_chunk_to_search' >= nonce_bound
      BY <1>4, <2>1, <3>1, WordFacts
    <3> QED
      BY <2>1, <3>2, <3>3, <3>4 DEF CounterRight, CounterFresh, nonce_bound
  <2>2. CASE Wrapped' = {} /\ ~(next + ChunkSize < Word)
    <3>1. next_chunk_to_search' = 0 * ChunkSize
      BY <1>4, <2>2, WordFacts
    <3>2. Cardinality(Wrapped') = 0
      BY <2>2, FS_EmptySet
    <3> QED
      BY <3>1, <3>2 DEF CounterRight, CounterWrapped
  <2>3. CASE /\ next + ChunkSize <= nonce_bound /\ Wrapped' = Wrapped \cup {t}
             /\ next + ChunkSize = Cardinality(Wrapped \cup {t}) * ChunkSize
    <3>1. next_chunk_to_search' = next + ChunkSize
      BY <1>4, <2>3, WordFacts
    <3> QED
      BY <2>3, <3>1 DEF CounterRight, CounterWrapped
  <2> QED
    BY <1>8, <2>1, <2>2, <2>3
<1>12. ChunksApart'
  <2> SUFFICES ASSUME NEW u \in Tasks, Ahead(u)'
               PROVE  /\ nonce_start'[u] \notin searched
                      /\ \A v \in Tasks \ {u} : Ahead(v)' => nonce_start'[v] # nonce_start'[u]
    BY <1>2 DEF ChunksApart
  <2>1. CASE next < nonce_bound
    <3>1. ~Ahead(t)' /\ u # t
      BY <1>4, <1>6, <2>1, WordFacts
    <3>2. /\ Ahead(u) /\ nonce_start'[u] = nonce_start[u]
          /\ \A v \in Tasks \ {u} : Ahead(v)' => Ahead(v) /\ nonce_start'[v] = nonce_start[v]
      BY <1>3, <1>6, <3>1
    <3> QED
      BY <3>2 DEF SearchInv, ChunksApart
  <2>2. CASE next >= nonce_bound
    <3>1. CounterFresh
      BY <1>4, <1>8, <2>2, WordFacts
    <3>2. next \notin searched /\ \A v \in Tasks : nonce_start[v] # next
      BY <1>1, <1>4, <3>1 DEF CounterFresh
    <3>3. CASE u = t
      BY <1>3, <3>2, <3>3
    <3>4. CASE u # t
      <4>1. /\ Ahead(u) /\ nonce_start'[u] = nonce_start[u]
            /\ \A v \in Tasks \ {u, t} :
                 Ahead(v)' => Ahead(v) /\ nonce_start'[v] = nonce_start[v]
        BY <1>3, <1>6, <3>4
      <4>2. nonce_start'[t] # nonce_start'[u]
        BY <1>3, <3>2, <4>1
      <4> QED
        BY <4>1, <4>2 DEF SearchInv, ChunksApart
    <3> QED
      BY <3>3, <3>4
  <2> QED
    BY <1>4, <2>1, <2>2, WordFacts
<1>13. DoneAbove'
  BY <1>2, <1>3 DEF SearchInv, DoneAbove, nonce_bound
<1>14. LoweringRight'
  BY <1>2, <1>3 DEF SearchInv, LoweringRight, Searchable
<1>15. FoundRight' /\ ResultRight'
  <2>1. result' = Searching
    BY <1>1, <1>2 DEF SearchInv, ResultRight
  <2> QED
    BY <1>2, <2>1 DEF SearchInv, FoundRight, ResultRight, Searchable, MaxNonce
<1>16. AllCovered'
  <2> SUFFICES ASSUME NEW n \in valid \cap Searchable PROVE Covered(n)'
    BY <1>2 DEF AllCovered, Searchable
  <2>1. Covered(n) /\ n \in U64 /\ n \in Nat
    BY <1>1, WordFacts DEF SearchInv, AllCovered
  <2>2. CASE lowest_nonce_found <= n
    BY <1>2, <2>2 DEF Covered
  <2>3. ASSUME NEW u \in Tasks, Ahead(u), n \in Chunk(nonce_start[u])
        PROVE  Covered(n)'
    <3>1. u # t
      BY <1>5, <2>3
    <3>2. Ahead(u)' /\ n \in Chunk(nonce_start[u])'
      BY <1>3, <1>6, <2>3, <3>1 DEF Chunk
    <3> QED
      BY <3>2 DEF Covered
  <2>4. ASSUME NEW u \in Tasks, pc[u] = "lower", nonce[u] <= n
        PROVE  Covered(n)'
    <3>1. CASE u = t
      <4>1. /\ curr_nonce[t] \in Nat /\ nonce[t] \in Nat /\ lowest_nonce_found \in Nat
            /\ nonce[t] >= curr_nonce[t] /\ lowest_nonce_found <= curr_nonce[t]
        BY <1>1, <2>4, <3>1, WordFacts DEF SearchInv, LoweringRight
      <4>2. lowest_nonce_found <= n
        BY <2>1, <2>4, <3>1, <4>1
      <4> QED
        BY <1>2, <4>2 DEF Covered
    <3>2. CASE u # t
      <4>1. pc'[u] = "lower" /\ nonce'[u] <= n
        BY <1>2, <1>3, <2>4, <3>2
      <4> QED
        BY <4>1 DEF Covered
    <3> QED
      BY <3>1, <3>2
  <2>5. CASE Wrapped = {} /\ nonce_bound <= next /\ next <= n
    <3>1. CASE n < next + ChunkSize
      <4>1. n \in Chunk(next)
        BY <1>1, <2>1, <2>5, <3>1, ChunkIs
      <4>2. Ahead(t)' /\ n \in Chunk(nonce_start[t])'
        BY <1>3, <1>4, <1>6, <2>5, <4>1, WordFacts DEF Chunk
      <4> QED
        BY <4>2 DEF Covered
    <3>2. CASE next + ChunkSize <= n
      <4>1. next_chunk_to_search' = next + ChunkSize /\ Wrapped' = {}
        <5>1. n < Word
          BY <2>1, WordFacts DEF U64
        <5> QED
          BY <1>4, <1>7, <2>1, <2>5, <3>2, <5>1, WordFacts
      <4>2. nonce_bound <= next + ChunkSize
        BY <1>4, <2>5, WordFacts
      <4> QED
        BY <3>2, <4>1, <4>2 DEF Covered, nonce_bound
    <3> QED
      BY <1>4, <2>1, <3>1, <3>2, WordFacts
  <2> QED
    BY <2>1, <2>2, <2>3, <2>4, <2>5 DEF Covered
<1> QED
  BY <1>9, <1>10, <1>11, <1>12, <1>13, <1>14, <1>15, <1>16 DEF SearchInv

LEMMA CheckStep ==
  ASSUME NEW t \in Tasks, SearchInv, Check(t)
  PROVE  SearchInv'
PROOF
<1>1. /\ pc[t] = "check" /\ nonce_start[t] \in Nat /\ lowest_nonce_found \in Nat
      /\ valid \in SUBSET U64 /\ nonce_start[t] \in Starts
      /\ pc \in [Tasks -> {"search", "lower", "fetch", "check", "done"}]
  BY WordFacts, HoldWords DEF SearchInv, Check, SearchTypeOK, StartsAligned
<1>2. /\ pc' = [pc EXCEPT ![t] = IF GoesOn(t) THEN "search" ELSE "done"]
      /\ valid' = valid /\ next_chunk_to_search' = next_chunk_to_search
      /\ lowest_nonce_found' = lowest_nonce_found /\ nonce_start' = nonce_start
      /\ nonce' = nonce /\ curr_nonce' = curr_nonce /\ searched' = searched
      /\ result' = result
  BY DEF Check
<1>3. /\ pc'[t] = IF GoesOn(t) THEN "search" ELSE "done"
      /\ \A u \in Tasks \ {t} : pc'[u] = pc[u]
      /\ pc' \in [Tasks -> {"search", "lower", "fetch", "check", "done"}]
  BY <1>1, <1>2
<1>4. GoesOn(t) <=> nonce_start[t] < lowest_nonce_found /\ nonce_start[t] >= nonce_bound
  BY DEF GoesOn
<1>5. /\ Ahead(t)' <=> GoesOn(t)
      /\ Ahead(t) <=> nonce_start[t] >= nonce_bound
      /\ \A u \in Tasks \ {t} : Ahead(u)' <=> Ahead(u)
  BY <1>1, <1>2, <1>3 DEF Ahead, nonce_bound
<1>6. Wrapped' = Wrapped
  <2>1. t \in Wrapped' <=> t \in Wrapped
    BY <1>1, <1>2, <1>3, <1>4, WordFacts DEF Wrapped, nonce_bound
  <2>2. \A u \in Tasks \ {t} : u \in Wrapped' <=> u \in Wrapped
    BY <1>2, <1>3 DEF Wrapped, nonce_bound
  <2>3. Wrapped' \subseteq Tasks /\ Wrapped \subseteq Tasks
    BY DEF Wrapped
  <2> QED
    BY <2>1, <2>2, <2>3
<1>7. SearchTypeOK'
  BY <1>2, <1>3 DEF SearchInv, SearchTypeOK, MaxNonce, ChunkStarts
<1>8. StartsAligned'
  BY <1>2 DEF SearchInv, StartsAligned
<1>9. CounterRight'
  BY <1>2, <1>6 DEF SearchInv, CounterRight, CounterFresh, CounterWrapped, nonce_bound
<1>10. ChunksApart'
  <2>1. \A u \in Tasks : Ahead(u)' => Ahead(u)
    BY <1>4, <1>5
  <2> QED
    BY <1>2, <2>1 DEF SearchInv, ChunksApart
<1>11. DoneAbove'
  <2> SUFFICES ASSUME NEW u \in Tasks, pc'[u] = "done", nonce_start[u] >= nonce_bound
               PROVE  lowest_nonce_found <= nonce_start[u]
    BY <1>2 DEF DoneAbove, nonce_bound
  <2>1. CASE u = t
    BY <1>1, <1>3, <1>4, <2>1
  <2>2. CASE u # t
    BY <1>3, <2>2 DEF SearchInv, DoneAbove
  <2> QED
    BY <2>1, <2>2
<1>12. LoweringRight'
  BY <1>2, <1>3 DEF SearchInv, LoweringRight, Searchable
<1>13. FoundRight' /\ ResultRight'
  <2>1. result' = Searching
    BY <1>1, <1>2 DEF SearchInv, ResultRight
  <2> QED
    BY <1>2, <2>1 DEF SearchInv, FoundRight, ResultRight, Searchable, MaxNonce
<1>14. AllCovered'
  <2> SUFFICES ASSUME NEW n \in valid \cap Searchable PROVE Covered(n)'
    BY <1>2 DEF AllCovered, Searchable
  <2>1. Covered(n) /\ n \in U64 /\ n \in Nat
    BY <1>1, WordFacts DEF SearchInv, AllCovered
  <2>2. CASE lowest_nonce_found <= n
    BY <1>2, <2>2 DEF Covered
  <2>3. ASSUME NEW u \in Tasks, Ahead(u), n \in Chunk(nonce_start[u])
        PROVE  Covered(n)'
    <3>1. CASE Ahead(u)'
      <4>1. n \in Chunk(nonce_start[u])'
        BY <1>2, <2>3 DEF Chunk
      <4> QED
        BY <3>1, <4>1 DEF Covered
    <3>2. CASE ~Ahead(u)'
      <4>1. u = t /\ lowest_nonce_found <= nonce_start[t]
        BY <1>1, <1>4, <1>5, <2>3, <3>2
      <4>2. nonce_start[t] <= n
        BY <1>1, <2>1, <2>3, <4>1, ChunkIs
      <4>3. lowest_nonce_found <= n
        BY <1>1, <2>1, <4>1, <4>2
      <4> QED
        BY <1>2, <4>3 DEF Covered
    <3> QED
      BY <3>1, <3>2
  <2>4. ASSUME NEW u \in Tasks, pc[u] = "lower", nonce[u] <= n
        PROVE  Covered(n)'
    <3>1. pc'[u] = "lower" /\ nonce'[u] <= n
      BY <1>1, <1>2, <1>3, <2>4
    <3> QED
      BY <3>1 DEF Covered
  <2>5. CASE /\ Wrapped = {} /\ nonce_bound <= next_chunk_to_search
             /\ next_chunk_to_search <= n
    BY <1>2, <1>6, <2>5 DEF Covered, nonce_bound
  <2> QED
    BY <2>1, <2>2, <2>3, <2>4, <2>5 DEF Covered
<1> QED
  BY <1>7, <1>8, <1>9, <1>10, <1>11, <1>12, <1>13, <1>14 DEF SearchInv

LEMMA ReturnStep ==
  ASSUME SearchInv, Return
  PROVE  SearchInv'
PROOF
<1>1. /\ valid' = valid /\ next_chunk_to_search' = next_chunk_to_search
      /\ lowest_nonce_found' = lowest_nonce_found /\ pc' = pc
      /\ nonce_start' = nonce_start /\ nonce' = nonce /\ curr_nonce' = curr_nonce
      /\ searched' = searched
      /\ result' = IF lowest_nonce_found = MaxNonce THEN NoNonce ELSE lowest_nonce_found
      /\ \A t \in Tasks : pc[t] = "done"
  BY DEF Return
<1>2. SearchTypeOK' /\ ResultRight'
  BY <1>1 DEF SearchInv, SearchTypeOK, ResultRight, MaxNonce, ChunkStarts
<1>3. Wrapped' = Wrapped /\ \A t \in Tasks : Ahead(t)' <=> Ahead(t)
  BY <1>1 DEF Wrapped, Ahead, nonce_bound
<1>4. StartsAligned' /\ CounterRight' /\ ChunksApart' /\ DoneAbove'
  BY <1>1, <1>3 DEF SearchInv, StartsAligned, CounterRight, CounterFresh, CounterWrapped,
                    ChunksApart, DoneAbove, nonce_bound
<1>5. LoweringRight' /\ FoundRight'
  BY <1>1 DEF SearchInv, LoweringRight, FoundRight, Searchable, MaxNonce
<1>6. AllCovered'
  BY <1>1, <1>3 DEF SearchInv, AllCovered, Covered, Searchable, Chunk, nonce_bound
<1> QED
  BY <1>2, <1>4, <1>5, <1>6 DEF SearchInv

THEOREM Invariance == SearchSpec => []SearchInv
PROOF
<1>1. SearchInit => SearchInv
  BY InitIInv
<1>2. SearchInv /\ [SearchNext]_search_vars => SearchInv'
  <2> SUFFICES ASSUME SearchInv, [SearchNext]_search_vars PROVE SearchInv'
    OBVIOUS
  <2>1. ASSUME NEW t \in Tasks, TaskStep(t) PROVE SearchInv'
    BY <2>1, SearchStep, LowerStep, FetchStep, CheckStep DEF TaskStep
  <2>2. CASE Return
    BY <2>2, ReturnStep
  <2>3. CASE UNCHANGED search_vars
    <3> QED
      BY <2>3 DEF search_vars, SearchInv, SearchTypeOK, StartsAligned, CounterRight, CounterFresh,
        CounterWrapped, Wrapped, Ahead, ChunksApart, DoneAbove, LoweringRight, FoundRight,
        AllCovered, Covered, ResultRight, Searchable, Chunk, ChunkStarts, nonce_bound, MaxNonce
  <2> QED
    BY <2>1, <2>2, <2>3 DEF SearchNext, Returned
<1> QED
  BY <1>1, <1>2, PTL DEF SearchSpec
-----------------------------------------------------------------------------
\* For any word, chunk size and number of tasks: the counter and the tasks stay at starts
\* of chunks through the wrap-around, so that chunks never overlap, and every nonce that
\* is held, stored or returned is a valid one.
THEOREM SearchTypeCorrect == SearchSpec => []SearchTypeOK
PROOF
<1>1. SearchInv => SearchTypeOK
  BY DEF SearchInv
<1> QED
  BY <1>1, Invariance, PTL

\* When every task is done, no valid nonce of the searched chunks is below the one
\* that was found.
LEMMA NoneBelow ==
  ASSUME SearchInv, \A t \in Tasks : pc[t] = "done", NEW n \in valid \cap Searchable
  PROVE  lowest_nonce_found <= n
PROOF
<1>1. Covered(n)
  BY DEF SearchInv, AllCovered
<1>2. CASE /\ Wrapped = {} /\ nonce_bound <= next_chunk_to_search
           /\ next_chunk_to_search <= n
  <2>1. CounterFresh
    <3>1. Cardinality(Wrapped) = 0
      BY <1>2, FS_EmptySet
    <3>2. CounterWrapped => next_chunk_to_search = 0
      BY <3>1, WordFacts DEF CounterWrapped
    <3> QED
      BY <1>2, <3>2, WordFacts DEF SearchInv, CounterRight
  <2>2. 0 \in Tasks
    BY WordFacts DEF Tasks
  <2>3. /\ nonce_start[0] \in Nat /\ lowest_nonce_found \in Nat
        /\ next_chunk_to_search \in Nat /\ n \in Nat
    BY <2>2, WordFacts, HoldWords DEF SearchInv
  <2>4. nonce_start[0] >= nonce_bound
    BY <1>2, <2>2, <2>3, WordFacts DEF Wrapped
  <2>5. lowest_nonce_found <= nonce_start[0] /\ nonce_start[0] < next_chunk_to_search
    BY <2>1, <2>2, <2>4 DEF SearchInv, DoneAbove, CounterFresh
  <2> QED
    BY <1>2, <2>3, <2>5
<1>3. \A t \in Tasks : ~Ahead(t) /\ pc[t] # "lower"
  BY DEF Ahead
<1> QED
  BY <1>1, <1>2, <1>3 DEF Covered

\* The nonce Prove returns is the lowest valid one of all, whatever the number of
\* tasks, the chunk size, the schedule and the valid nonces (proof_of_work.cc:84-99).
THEOREM ReturnsLowest == SearchSpec => []LowestNonce
PROOF
<1>1. SearchInv => LowestNonce
  <2> SUFFICES ASSUME SearchInv, result >= 0 PROVE result = LowestOf(valid)
    BY DEF LowestNonce
  <2>1. /\ \A t \in Tasks : pc[t] = "done"
        /\ result = lowest_nonce_found /\ lowest_nonce_found # MaxNonce
    BY DEF SearchInv, ResultRight, Searching, NoNonce
  <2>2. result \in valid /\ result \in Searchable /\ valid \in SUBSET U64
    BY <2>1 DEF SearchInv, FoundRight, SearchTypeOK
  <2>3. ASSUME NEW n \in valid PROVE result <= n
    <3>1. n \in Nat /\ n < Word
      BY <2>2, WordFacts DEF U64
    <3>2. CASE n \in Searchable
      BY <2>1, <3>2, NoneBelow
    <3>3. CASE n \notin Searchable
      BY <2>2, <3>1, <3>3, WordFacts DEF Searchable
    <3> QED
      BY <3>2, <3>3
  <2>4. LowestOf(valid) \in valid /\ \A n \in valid : LowestOf(valid) <= n
    BY <2>2, LowestIsLeast
  <2>5. result \in Nat /\ LowestOf(valid) \in Nat
    BY <2>2, <2>4, WordFacts
  <2> QED
    BY <2>2, <2>3, <2>4, <2>5
<1> QED
  BY <1>1, Invariance, PTL

\* "No nonce was found." fails only when no nonce below the last chunk of the word is
\* valid: tasks skip no chunk, wherever the counter wraps around.
THEOREM FailsOnlyWithoutNonce == SearchSpec => []NotFoundMeansNone
PROOF
<1>1. SearchInv => NotFoundMeansNone
  <2> SUFFICES ASSUME SearchInv, result = NoNonce, NEW n \in valid \cap Searchable PROVE FALSE
    BY DEF NotFoundMeansNone
  <2>1. \A t \in Tasks : pc[t] = "done"
    BY DEF SearchInv, ResultRight, NoNonce, Searching
  <2>2. lowest_nonce_found = MaxNonce
    BY WordFacts, HoldWords DEF SearchInv, ResultRight, NoNonce, Searching, U64
  <2>3. lowest_nonce_found <= n
    BY <2>1, NoneBelow
  <2> QED
    BY <2>2, <2>3, WordFacts DEF Searchable, MaxNonce
<1> QED
  BY <1>1, Invariance, PTL

\* No chunk is searched by two tasks, or twice by one, also after the counter wrapped
\* around the word.
THEOREM SearchesOnce == SearchSpec => SearchedOnce
PROOF
<1>1. SearchInv /\ [SearchNext]_search_vars =>
        [\A t \in Tasks : pc[t] = "search" /\ pc'[t] # "search"
                            => nonce_start[t] \notin searched]_search_vars
  BY DEF SearchInv, ChunksApart, Ahead
<1> QED
  BY <1>1, Invariance, PTL DEF SearchSpec, SearchedOnce
=============================================================================
