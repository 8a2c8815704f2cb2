------------------------ MODULE TableCommitmentProofs ------------------------
(***************************************************************************)
(* Proofs about the table commitment, for tables of any number of rows,    *)
(* columns and segments, packages of any size, and any queries.            *)
(***************************************************************************)
EXTENDS TableCommitment, Elementary

-----------------------------------------------------------------------------
(* Rows, segments and packages.                                            *)

LEMMA Pow2Powers == Powers(Pow2, MaxHeight)
<1> DEFINE P(f) == f = [h \in 0 .. MaxHeight |-> IF h = 0 THEN 1 ELSE 2 * f[h - 1]]
<1>1. MaxHeight \in Nat
  BY TableAssumption
<1>2. PICK f : P(f)
  BY <1>1, PowersExist DEF Powers
<1>3. Pow2 = CHOOSE p : P(p)
  BY DEF Pow2
<1>4. P(Pow2)
  BY <1>2, <1>3
<1> HIDE DEF Pow2
<1> QED  BY <1>1, <1>4 DEF Powers

LEMMA Log2CeilFacts ==
  ASSUME NEW n \in Nat, n <= Pow2[MaxHeight]
  PROVE  Log2Ceil(n) \in 0 .. MaxHeight
<1> DEFINE S == {h \in 0 .. MaxHeight : n <= Pow2[h]}
<1>1. MaxHeight \in Nat /\ \A h \in 0 .. MaxHeight : Pow2[h] \in Nat
  BY Pow2Powers, PowersFacts
<1>2. S \in SUBSET Nat /\ MaxHeight \in S
  BY <1>1
<1>3. PICK h \in S : \A k \in S : h <= k
  <2> HIDE DEF S
  <2> QED  BY <1>2, LeastOf
<1>4. \A k \in 0 .. h - 1 : Pow2[k] < n
  <2>1. TAKE k \in 0 .. h - 1
  <2>2. k \in 0 .. MaxHeight /\ ~(h <= k)
    BY <1>1, <1>3
  <2>3. ~(n <= Pow2[k])
    BY <1>3, <2>2
  <2> QED  BY <1>1, <2>2, <2>3
<1>5. h \in 0 .. MaxHeight /\ n <= Pow2[h]
  BY <1>3
<1> QED  BY <1>4, <1>5 DEF Log2Ceil

\* A table of N rows and c columns in S segments of L rows, packed by n.
Shaped(N, c, S, L, n) ==
  /\ N \in Nat \ {0} /\ c \in Nat \ {0} /\ S \in Nat \ {0} /\ L \in Nat \ {0} /\ n \in Nat \ {0}
  /\ S * L = N
  /\ \E m \in Nat \ {0} : n * m = N

LEMMA PackageSizeDivides ==
  ASSUME NEW size \in Nat \ {0}, NEW b \in 0 .. MaxHeight
  PROVE  LET n == ComputeNumElementsInPackage(size, 2 * kDigestNumBytes, Pow2[b])
         IN  n \in Nat \ {0} /\ \E m \in Nat \ {0} : n * m = Pow2[b]
<1> DEFINE bytes == 2 * kDigestNumBytes
           fit == (bytes - 1) \div size + 1
           a == Log2Ceil(fit)
           n == ComputeNumElementsInPackage(size, bytes, Pow2[b])
<1>1. MaxHeight \in Nat /\ \A h \in 0 .. MaxHeight : Pow2[h] \in Nat \ {0}
  BY Pow2Powers, PowersFacts
<1>2. bytes \in Nat \ {0} /\ bytes <= Pow2[MaxHeight]
  BY TableAssumption
<1> HIDE DEF bytes
<1>3. n = IF size >= bytes THEN 1 ELSE IF Pow2[a] < Pow2[b] THEN Pow2[a] ELSE Pow2[b]
  BY DEF ComputeNumElementsInPackage
<1>4. fit \in Nat /\ fit <= Pow2[MaxHeight]
  <2>1. PICK q : q = (bytes - 1) \div size
    OBVIOUS
  <2>2. q \in Nat /\ q * size <= bytes - 1
    BY <1>2, <2>1
  <2>3. \A x, y \in Nat : y # 0 => x <= x * y
    OBVIOUS
  <2>4. q <= q * size /\ q * size \in Nat
    BY <2>2, <2>3
  <2>5. q <= bytes - 1
    BY <1>2, <2>2, <2>4
  <2>6. Pow2[MaxHeight] \in Nat
    BY <1>1
  <2> QED  BY <1>2, <2>1, <2>2, <2>5, <2>6
<1>5. a \in 0 .. MaxHeight
  BY <1>4, Log2CeilFacts
<1> HIDE DEF a, n
<1>6. Pow2[a] \in Nat \ {0} /\ Pow2[b] \in Nat \ {0}
  BY <1>1, <1>5
<1>7. \A x \in Nat : 1 * x = x /\ x * 1 = x
  OBVIOUS
<1>8. CASE size >= bytes
  BY <1>3, <1>6, <1>7, <1>8 DEF n, bytes
<1>9. CASE ~(size >= bytes) /\ ~(Pow2[a] < Pow2[b])
  BY <1>3, <1>6, <1>7, <1>9 DEF n, bytes
<1>10. CASE ~(size >= bytes) /\ Pow2[a] < Pow2[b]
  <2>1. a < b
    <3>1. b < a => 2 * Pow2[b] <= Pow2[a]
      BY <1>5, Pow2Powers, PowersGap
    <3>2. ~(b < a) /\ a # b
      BY <1>6, <1>10, <3>1
    <3> QED  BY <1>1, <1>5, <3>2
  <2>2. b - a \in 0 .. MaxHeight
    BY <1>1, <1>5, <2>1
  <2>3. Pow2[a] * Pow2[b - a] = Pow2[b]
    BY <1>1, <1>5, <2>1, Pow2Powers, PowersProduct
  <2>4. Pow2[b - a] \in Nat \ {0}
    BY <1>1, <2>2
  <2> QED  BY <1>3, <1>6, <1>10, <2>3, <2>4 DEF n, bytes
<1> QED  BY <1>8, <1>9, <1>10

LEMMA TableNumbers ==
  ASSUME table \in Tables, n_elements_in_package = PackageSize
  PROVE  /\ Shaped(table.n_rows, n_columns, table.n_segments, RowsInSegment, n_elements_in_package)
         /\ n_elements_in_package <= table.n_rows
         /\ table.interleaved \in BOOLEAN
<1>1. /\ table.n_rows \in Nat /\ table.n_columns \in Nat \ {0} /\ table.cell_size \in Nat \ {0}
      /\ table.n_segments \in Nat \ {0} /\ table.interleaved \in BOOLEAN
      /\ table.n_rows % table.n_segments = 0
      /\ \E h \in 0 .. MaxHeight : table.n_rows = Pow2[h]
  <2>1. table \in TableType
    BY TableAssumption
  <2>2. /\ table.n_rows \in Nat /\ table.n_columns \in Nat /\ table.cell_size \in Nat
        /\ table.n_segments \in Nat /\ table.interleaved \in BOOLEAN
    BY <2>1 DEF TableType
  <2> QED  BY <2>2, TableAssumption
<1>2. PICK b \in 0 .. MaxHeight : table.n_rows = Pow2[b]
  BY <1>1
<1>3. Pow2[b] \in Nat \ {0}
  BY Pow2Powers, PowersFacts
<1>4. PICK N, S, L : N = table.n_rows /\ S = table.n_segments /\ L = N \div S
  OBVIOUS
<1>5. S * L = N /\ L \in Nat
  BY <1>1, <1>4
<1>6. L # 0
  BY <1>1, <1>2, <1>3, <1>4, <1>5
<1>7. n_columns * table.cell_size \in Nat \ {0}
  <2>1. \A x, y \in Nat \ {0} : x * y \in Nat \ {0}
    OBVIOUS
  <2> QED  BY <1>1, <2>1 DEF n_columns
<1>8. PICK n : n = n_elements_in_package
  OBVIOUS
<1>9. n \in Nat \ {0} /\ \E m \in Nat \ {0} : n * m = N
  BY <1>2, <1>4, <1>7, <1>8, PackageSizeDivides DEF PackageSize
<1>10. n <= N
  <2>1. PICK m \in Nat \ {0} : n * m = N
    BY <1>9
  <2>2. n <= n * m
    BY <1>9
  <2> QED  BY <2>1, <2>2
<1> QED
  BY <1>1, <1>2, <1>3, <1>4, <1>5, <1>6, <1>8, <1>9, <1>10 DEF Shaped, n_columns, RowsInSegment

\* Packages are whole: their elements are rows, and no others are in them.
LEMMA PackagesAreWhole ==
  ASSUME table \in Tables, n_elements_in_package = PackageSize
  PROVE  /\ \A e \in Rows : PackageOf(e) \in Packages /\ e \in ElementsOf(PackageOf(e))
         /\ \A p \in Packages :
              /\ p \in Nat /\ ElementsOf(p) \subseteq Rows
              /\ \A e \in ElementsOf(p) : e \in Nat /\ PackageOf(e) = p
              /\ \A k \in 1 .. n_elements_in_package :
                   p * n_elements_in_package + k - 1 \in ElementsOf(p)
<1>1. PICK N, n : N = table.n_rows /\ n = n_elements_in_package
  OBVIOUS
<1>2. N \in Nat \ {0} /\ n \in Nat \ {0} /\ \E m \in Nat \ {0} : n * m = N
  BY <1>1, TableNumbers DEF Shaped
<1>3. PICK m \in Nat \ {0} : n * m = N
  BY <1>2
<1>4. ASSUME NEW p \in Nat, NEW e \in p * n .. (p + 1) * n - 1
      PROVE  e \in Nat /\ e \div n = p
  <2>1. PICK x, r : x = n * p /\ r = e - x
    OBVIOUS
  <2>2. p * n = x /\ (p + 1) * n = x + n /\ x \in Nat
    BY <1>2, <2>1
  <2>3. r \in 0 .. n - 1 /\ e = x + r /\ e \in Nat
    BY <1>2, <1>4, <2>1, <2>2
  <2>4. (n * p + r) \div n = p
    BY <1>2, <2>3, Quotient
  <2> QED  BY <2>1, <2>3, <2>4
<1>5. ASSUME NEW e \in 0 .. N - 1
      PROVE  /\ e \div n \in Nat /\ (e \div n + 1) * n - 1 <= N - 1
             /\ e \in (e \div n) * n .. (e \div n + 1) * n - 1
  <2>1. PICK p : p = e \div n
    OBVIOUS
  <2>2. p \in Nat /\ p * n <= e /\ e < (p + 1) * n
    BY <1>2, <2>1
  <2>3. p < m
    <3>1. n * p < n * m
      BY <1>2, <1>3, <2>2
    <3>2. \A u, v \in Nat : n * u < n * v => u < v
      BY <1>2
    <3> QED  BY <1>3, <2>2, <3>1, <3>2
  <2>4. (p + 1) * n <= N
    <3>1. \A u, v \in Nat : u <= v => u * n <= n * v
      BY <1>2
    <3> QED  BY <1>3, <2>2, <2>3, <3>1
  <2>5. p * n \in Nat /\ (p + 1) * n \in Nat
    BY <1>2, <2>2
  <2> QED  BY <1>2, <2>1, <2>2, <2>4, <2>5
<1>6. ASSUME NEW p \in Packages
      PROVE  p \in Nat /\ (p + 1) * n - 1 <= N - 1 /\ p * n .. (p + 1) * n - 1 \subseteq Rows
  <2>1. PICK e \in 0 .. N - 1 : p = e \div n
    BY <1>1, <1>6 DEF Packages, PackageOf, Rows
  <2>2. p \in Nat /\ (p + 1) * n - 1 <= N - 1
    BY <1>5, <2>1
  <2>3. p * n \in Nat
    BY <1>2, <2>2
  <2> QED  BY <1>1, <1>2, <2>2, <2>3 DEF Rows
<1>7. ASSUME NEW p \in Nat, NEW k \in 1 .. n
      PROVE  p * n + k - 1 \in p * n .. (p + 1) * n - 1
  <2>1. p * n \in Nat /\ (p + 1) * n = p * n + n
    BY <1>2
  <2> QED  BY <1>2, <2>1
<1>8. \A p : ElementsOf(p) = p * n .. (p + 1) * n - 1
  BY <1>1 DEF ElementsOf
<1>9. \A e : PackageOf(e) = e \div n
  BY <1>1 DEF PackageOf
<1>10. ASSUME NEW e \in Rows
       PROVE  PackageOf(e) \in Packages /\ e \in ElementsOf(PackageOf(e))
  <2>1. e \in 0 .. N - 1
    BY <1>1 DEF Rows
  <2> QED  BY <1>5, <1>8, <1>9, <2>1 DEF Packages
<1>11. ASSUME NEW p \in Packages
       PROVE  /\ p \in Nat /\ ElementsOf(p) \subseteq Rows
              /\ \A e \in ElementsOf(p) : e \in Nat /\ PackageOf(e) = p
              /\ \A k \in 1 .. n : p * n + k - 1 \in ElementsOf(p)
  BY <1>4, <1>6, <1>7, <1>8, <1>9
<1> QED  BY <1>1, <1>10, <1>11

\* The packages of some rows consist of these rows and of the elements required.
LEMMA RowsAndRequired ==
  ASSUME table \in Tables, n_elements_in_package = PackageSize, NEW rows \in SUBSET Rows
  PROVE  LET required == ElementsRequiredToComputeHashes(rows)
             all == GetElementsInPackages({PackageOf(e) : e \in rows})
         IN  /\ required \in SUBSET Rows /\ rows \cap required = {} /\ rows \cup required = all
             /\ {PackageOf(e) : e \in all} = {PackageOf(e) : e \in rows}
             /\ \A e \in rows : PackageOf(e) \in Packages /\ e \in ElementsOf(PackageOf(e))
             /\ \A e \in rows : ElementsOf(PackageOf(e)) \subseteq all
<1> DEFINE required == ElementsRequiredToComputeHashes(rows)
           all == GetElementsInPackages({PackageOf(e) : e \in rows})
<1>1. \A e \in rows : PackageOf(e) \in Packages /\ e \in ElementsOf(PackageOf(e))
  BY PackagesAreWhole
<1>2. \A x : x \in all <=> \E e \in rows : x \in ElementsOf(PackageOf(e))
  BY DEF GetElementsInPackages
<1>3. required = all \ rows
  BY DEF ElementsRequiredToComputeHashes
<1> HIDE DEF all, required
<1>4. rows \subseteq all
  BY <1>1, <1>2
<1>5. ASSUME NEW x \in all
      PROVE  x \in Rows /\ \E e \in rows : PackageOf(x) = PackageOf(e)
  <2>1. PICK e \in rows : x \in ElementsOf(PackageOf(e))
    BY <1>2
  <2> QED  BY <1>1, <2>1, PackagesAreWhole
<1>6. {PackageOf(e) : e \in all} = {PackageOf(e) : e \in rows}
  BY <1>4, <1>5
<1>7. \A e \in rows : ElementsOf(PackageOf(e)) \subseteq all
  BY <1>2
<1> QED  BY <1>1, <1>3, <1>4, <1>5, <1>6, <1>7 DEF all, required

-----------------------------------------------------------------------------
(* The leaves of a segment.                                                *)

\* What a row holds, and a package of rows.
RowElement(row) == [col \in 1 .. n_columns |-> Cell(row, col - 1)]

Package(p) ==
  [k \in 1 .. n_elements_in_package |-> RowElement(p * n_elements_in_package + k - 1)]

\* u is s cut into m pieces of n.
ArePieces(u, s, n, m) ==
  /\ IsSeq(u) /\ Len(u) = m
  /\ \A j \in 1 .. m : /\ IsSeq(u[j]) /\ Len(u[j]) = n
                       /\ \A i \in 1 .. n : u[j][i] = s[(j - 1) * n + i]

LEMMA PieceFacts ==
  ASSUME NEW s, IsSeq(s), NEW n \in Nat \ {0}, NEW m \in Nat, Len(s) = n * m
  PROVE  ArePieces(Pieces(s, n), s, n, m)
<1> DEFINE u == Pieces(s, n)
<1>1. Len(s) \div n = m
  <2>1. (n * m + 0) \div n = m
    BY Quotient
  <2>2. n * m + 0 = n * m
    OBVIOUS
  <2> QED  BY <2>1, <2>2
<1>2. u = [k \in 1 .. m |-> SubSeq(s, (k - 1) * n + 1, k * n)]
  BY <1>1 DEF Pieces
<1> HIDE DEF u
<1>3. IsSeq(u) /\ Len(u) = m
  <2>1. DOMAIN u = 1 .. m /\ u = [k \in 1 .. m |-> u[k]]
    BY <1>2
  <2> QED  BY <2>1, ListedIsSeq
<1>4. ASSUME NEW j \in 1 .. m
      PROVE  /\ IsSeq(u[j]) /\ Len(u[j]) = n
             /\ \A i \in 1 .. n : u[j][i] = s[(j - 1) * n + i]
  <2>1. PICK x, y : x = (j - 1) * n + 1 /\ y = j * n
    OBVIOUS
  <2>2. u[j] = SubSeq(s, x, y)
    BY <1>2, <2>1
  <2>3. x \in Nat /\ y \in Nat /\ y = x + n - 1 /\ x >= 1
    BY <2>1
  <2>4. y <= Len(s)
    <3>1. n * j <= n * m
      OBVIOUS
    <3> QED  BY <2>1, <3>1
  <2>5. x \in 1 .. Len(s) + 1 /\ y \in 0 .. Len(s) /\ x <= y + 1 /\ Len(s) \in Nat
    BY <2>3, <2>4 DEF IsSeq
  <2>6. IsPart(u[j], s, x, y)
    BY <2>2, <2>5, SubSeqFacts
  <2>7. y - x + 1 = n
    BY <2>3
  <2>8. IsSeq(u[j]) /\ Len(u[j]) = n /\ \A i \in 1 .. n : u[j][i] = s[x + i - 1]
    BY <2>6, <2>7 DEF IsPart
  <2>9. \A i \in 1 .. n : x + i - 1 = (j - 1) * n + i
    BY <2>1, <2>3
  <2> QED  BY <2>8, <2>9
<1>5. ArePieces(u, s, n, m)
  BY <1>3, <1>4 DEF ArePieces
<1> QED  BY <1>5 DEF u

\* Either way of passing a segment gives its cells row by row.
LEMMA SegmentSerialized ==
  ASSUME NEW s \in Nat, n_columns \in Nat \ {0}, RowsInSegment \in Nat \ {0},
         table.interleaved \in BOOLEAN
  PROVE  LET cells == SerializeFieldColumns(Segment(s))
             c == n_columns
         IN  /\ IsSeq(cells) /\ Len(cells) = c * RowsInSegment
             /\ \A k \in 1 .. c * RowsInSegment :
                  cells[k] = Cell(s * RowsInSegment + (k - 1) \div c, (k - 1) % c)
<1> DEFINE cells == SerializeFieldColumns(Segment(s))
<1>1. PICK c, L, first : c = n_columns /\ L = RowsInSegment /\ first = s * RowsInSegment
  OBVIOUS
<1>2. c \in Nat \ {0} /\ L \in Nat \ {0} /\ first \in Nat /\ c * L \in Nat /\ L * c = c * L
  BY <1>1
<1>3. \A q : SerializeFieldColumns(q) =
        [k \in 1 .. Len(q) * Len(q[1]) |->
           q[((k - 1) % Len(q)) + 1][((k - 1) \div Len(q)) + 1]]
  BY DEF SerializeFieldColumns
<1>4. /\ cells = [k \in 1 .. c * L |-> cells[k]]
      /\ \A k \in 1 .. c * L : cells[k] = Cell(first + (k - 1) \div c, (k - 1) % c)
  <2>1. CASE table.interleaved
    <3> DEFINE span == [k \in 1 .. L * c |-> Cell(first + (k - 1) \div c, (k - 1) % c)]
    <3>1. Segment(s) = <<span>>
      BY <1>1, <2>1 DEF Segment
    <3>2. span = [k \in 1 .. L * c |-> span[k]] /\ DOMAIN span = 1 .. L * c
      OBVIOUS
    <3>3. \A k \in 1 .. L * c : span[k] = Cell(first + (k - 1) \div c, (k - 1) % c)
      OBVIOUS
    <3> HIDE DEF span
    <3>4. IsSeq(span) /\ Len(span) = L * c
      BY <1>2, <3>2, ListedIsSeq
    <3>5. PICK q : q = Segment(s)
      OBVIOUS
    <3>6. Len(q) = 1 /\ q[1] = span
      BY <3>1, <3>5
    <3>7. cells = [k \in 1 .. 1 * (L * c) |-> q[((k - 1) % 1) + 1][((k - 1) \div 1) + 1]]
      BY <1>3, <3>4, <3>5, <3>6
    <3>8. 1 * (L * c) = c * L
      BY <1>2
    <3>9. \A k \in 1 .. c * L : ((k - 1) % 1) + 1 = 1 /\ ((k - 1) \div 1) + 1 = k
      BY <1>2
    <3>10. \A k \in 1 .. c * L : cells[k] = span[k]
      BY <3>6, <3>7, <3>8, <3>9
    <3>11. cells = [k \in 1 .. c * L |-> cells[k]]
      BY <3>7, <3>8
    <3> HIDE DEF cells
    <3> QED  BY <1>2, <3>3, <3>10, <3>11
  <2>2. CASE ~table.interleaved
    <3> DEFINE column(col) == [k \in 1 .. L |-> Cell(first + k - 1, col - 1)]
               q == [col \in 1 .. c |-> column(col)]
    <3>1. Segment(s) = q
      BY <1>1, <2>2 DEF Segment
    <3>2. q = [col \in 1 .. c |-> q[col]] /\ DOMAIN q = 1 .. c
      OBVIOUS
    <3>3. \A col \in 1 .. c :
            /\ q[col] = [k \in 1 .. L |-> q[col][k]] /\ DOMAIN q[col] = 1 .. L
            /\ \A k \in 1 .. L : q[col][k] = Cell(first + k - 1, col - 1)
      OBVIOUS
    <3> HIDE DEF q
    <3>4. Len(q) = c
      BY <1>2, <3>2, ListedIsSeq
    <3>5. Len(q[1]) = L
      <4>1. 1 \in 1 .. c
        BY <1>2
      <4> QED  BY <1>2, <3>3, <4>1, ListedIsSeq
    <3>6. cells = [k \in 1 .. c * L |-> q[((k - 1) % c) + 1][((k - 1) \div c) + 1]]
      BY <1>3, <3>1, <3>4, <3>5
    <3>7. cells = [k \in 1 .. c * L |-> cells[k]]
      BY <3>6
    <3>8. ASSUME NEW k \in 1 .. c * L
          PROVE  cells[k] = Cell(first + (k - 1) \div c, (k - 1) % c)
      <4>1. PICK d, r : d = (k - 1) \div c /\ r = (k - 1) % c
        OBVIOUS
      <4>2. d \in 0 .. L - 1 /\ r \in 0 .. c - 1
        BY <1>2, <4>1, Grouped
      <4>3. d + 1 \in 1 .. L /\ r + 1 \in 1 .. c
        BY <1>2, <4>2
      <4>4. cells[k] = q[r + 1][d + 1]
        BY <3>6, <4>1
      <4>5. first + (d + 1) - 1 = first + d /\ (r + 1) - 1 = r
        BY <1>2, <4>2
      <4> HIDE DEF cells
      <4> QED  BY <3>3, <4>1, <4>3, <4>4, <4>5
    <3> HIDE DEF cells
    <3> QED  BY <3>7, <3>8
  <2> QED  BY <2>1, <2>2
<1> HIDE DEF cells
<1>5. DOMAIN cells = 1 .. c * L
  BY <1>4
<1>6. IsSeq(cells) /\ Len(cells) = c * L
  BY <1>2, <1>4, <1>5, ListedIsSeq
<1> QED  BY <1>1, <1>4, <1>6 DEF cells

LEMMA SegmentRows ==
  ASSUME NEW s \in Nat, n_columns \in Nat \ {0}, RowsInSegment \in Nat \ {0},
         table.interleaved \in BOOLEAN
  PROVE  /\ IsSeq(SegmentElements(s)) /\ Len(SegmentElements(s)) = RowsInSegment
         /\ \A j \in 1 .. RowsInSegment :
              SegmentElements(s)[j] = RowElement(s * RowsInSegment + j - 1)
<1>1. PICK c, L, first : c = n_columns /\ L = RowsInSegment /\ first = s * RowsInSegment
  OBVIOUS
<1>2. c \in Nat \ {0} /\ L \in Nat \ {0} /\ first \in Nat
  BY <1>1
<1>3. PICK cells : cells = SerializeFieldColumns(Segment(s))
  OBVIOUS
<1>4. /\ IsSeq(cells) /\ Len(cells) = c * L
      /\ \A k \in 1 .. c * L : cells[k] = Cell(first + (k - 1) \div c, (k - 1) % c)
  BY <1>1, <1>3, SegmentSerialized
<1>5. PICK u : u = Pieces(cells, c)
  OBVIOUS
<1>6. /\ IsSeq(u) /\ Len(u) = L
      /\ \A j \in 1 .. L : /\ IsSeq(u[j]) /\ Len(u[j]) = c
                           /\ \A i \in 1 .. c : u[j][i] = cells[(j - 1) * c + i]
  <2>1. IsSeq(cells) /\ Len(cells) = c * L
    BY <1>4
  <2>2. ArePieces(u, cells, c, L)
    BY <1>2, <1>5, <2>1, PieceFacts
  <2> QED  BY <2>2 DEF ArePieces
<1>7. u = SegmentElements(s)
  BY <1>1, <1>3, <1>5 DEF SegmentElements
<1>8. ASSUME NEW j \in 1 .. L
      PROVE  u[j] = RowElement(first + j - 1)
  <2>1. ASSUME NEW i \in 1 .. c
        PROVE  u[j][i] = Cell(first + j - 1, i - 1)
    <3>1. PICK k : k = (j - 1) * c + i
      OBVIOUS
    <3>2. k \in 1 .. c * L /\ (k - 1) \div c = j - 1 /\ (k - 1) % c = i - 1
      BY <1>2, <3>1, GroupPlace
    <3>3. first + (j - 1) = first + j - 1
      BY <1>2
    <3> QED  BY <1>4, <1>6, <3>1, <3>2, <3>3
  <2>2. u[j] = [i \in 1 .. c |-> u[j][i]]
    BY <1>6 DEF IsSeq
  <2>3. RowElement(first + j - 1) = [i \in 1 .. c |-> Cell(first + j - 1, i - 1)]
    BY <1>1 DEF RowElement
  <2>4. u[j] = [i \in 1 .. c |-> Cell(first + j - 1, i - 1)]
    BY <2>1, <2>2
  <2> QED  BY <2>3, <2>4
<1> QED  BY <1>1, <1>6, <1>7, <1>8

\* AddSegmentForCommitment hands over, for each of its packages, what the package holds.
LEMMA SegmentPacked ==
  ASSUME table \in Tables, n_elements_in_package = PackageSize,
         NEW s \in Nat, RowsInSegment % n_elements_in_package = 0,
         NEW p \in Packages, p \div PackagesInSegment = s
  PROVE  PackAndHash(SegmentElements(s))[(p % PackagesInSegment) + 1] = Package(p)
<1>1. PICK n, L, m, first : /\ n = n_elements_in_package /\ L = RowsInSegment
                            /\ m = L \div n /\ first = s * L
  OBVIOUS
<1>2. /\ n \in Nat \ {0} /\ L \in Nat \ {0} /\ n_columns \in Nat \ {0}
      /\ table.interleaved \in BOOLEAN
  BY <1>1, TableNumbers DEF Shaped
<1>3. L = n * m /\ m \in Nat \ {0} /\ first \in Nat
  <2>1. L % n = 0
    BY <1>1
  <2>2. L = n * m /\ m \in Nat
    BY <1>1, <1>2, <2>1
  <2> QED  BY <1>1, <1>2, <2>2
<1>4. PICK u : u = SegmentElements(s)
  OBVIOUS
<1>5. IsSeq(u) /\ Len(u) = n * m /\ \A j \in 1 .. L : u[j] = RowElement(first + j - 1)
  BY <1>1, <1>2, <1>3, <1>4, SegmentRows
<1>6. PICK v : v = Pieces(u, n)
  OBVIOUS
<1>7. \A j \in 1 .. m : /\ IsSeq(v[j]) /\ Len(v[j]) = n
                        /\ \A i \in 1 .. n : v[j][i] = u[(j - 1) * n + i]
  <2>1. IsSeq(u) /\ Len(u) = n * m
    BY <1>5
  <2>2. ArePieces(v, u, n, m)
    BY <1>2, <1>3, <1>6, <2>1, PieceFacts
  <2> QED  BY <2>2 DEF ArePieces
<1>8. p \in Nat
  BY PackagesAreWhole
<1>9. PICK r : r = p % m
  OBVIOUS
<1>10. r \in 0 .. m - 1 /\ p = m * s + r
  <2>1. p \div m = s
    BY <1>1 DEF PackagesInSegment
  <2>2. p = m * (p \div m) + (p % m)
    BY <1>3, <1>8
  <2>3. p % m \in 0 .. m - 1
    BY <1>3, <1>8
  <2> QED  BY <1>9, <2>1, <2>2, <2>3
<1>11. r + 1 \in 1 .. m
  BY <1>3, <1>10
<1>12. ASSUME NEW i \in 1 .. n
       PROVE  v[r + 1][i] = RowElement(p * n + i - 1)
  <2>1. PICK k : k = ((r + 1) - 1) * n + i
    OBVIOUS
  <2>2. k \in 1 .. L
    BY <1>2, <1>3, <1>11, <2>1, GroupPlace
  <2>3. v[r + 1][i] = RowElement(first + k - 1)
    BY <1>5, <1>7, <1>11, <2>1, <2>2
  <2>4. first + k - 1 = p * n + i - 1
    <3>1. p * n = (m * s) * n + r * n
      BY <1>2, <1>3, <1>10
    <3>2. (m * s) * n = s * (n * m)
      BY <1>2, <1>3
    <3>3. k = r * n + i
      BY <1>10, <2>1
    <3>4. r * n \in Nat
      BY <1>2, <1>10
    <3> QED  BY <1>1, <1>3, <3>1, <3>2, <3>3, <3>4
  <2> QED  BY <2>3, <2>4
<1>13. v[r + 1] = Package(p)
  <2>1. v[r + 1] = [i \in 1 .. n |-> v[r + 1][i]]
    <3>1. PICK w : w = v[r + 1]
      OBVIOUS
    <3>2. IsSeq(w) /\ Len(w) = n
      BY <1>7, <1>11, <3>1
    <3>3. w = [i \in 1 .. n |-> w[i]]
      BY <3>2 DEF IsSeq
    <3> QED  BY <3>1, <3>3
  <2>2. v[r + 1] = [i \in 1 .. n |-> RowElement(p * n + i - 1)]
    BY <1>12, <2>1
  <2> QED  BY <1>1, <2>2 DEF Package
<1>14. PackAndHash(SegmentElements(s)) = v /\ PackagesInSegment = m
  BY <1>1, <1>4, <1>6 DEF PackAndHash, PackagesInSegment
<1> QED  BY <1>9, <1>13, <1>14

\* Every package lies in a segment.
LEMMA PackageInSegment ==
  ASSUME table \in Tables, n_elements_in_package = PackageSize,
         RowsInSegment % n_elements_in_package = 0, NEW p \in Packages
  PROVE  p \div PackagesInSegment \in Segments
<1>1. PICK n, L, m, S : /\ n = n_elements_in_package /\ L = RowsInSegment
                        /\ m = L \div n /\ S = table.n_segments
  OBVIOUS
<1>2. /\ n \in Nat \ {0} /\ L \in Nat \ {0} /\ S \in Nat \ {0} /\ S * L = table.n_rows
  BY <1>1, TableNumbers DEF Shaped
<1>3. L = n * m /\ m \in Nat \ {0}
  <2>1. L % n = 0
    BY <1>1
  <2>2. L = n * m /\ m \in Nat
    BY <1>1, <1>2, <2>1
  <2> QED  BY <1>2, <2>2
<1>4. p \in Nat /\ p * n < S * L
  <2>1. p \in Nat /\ p * n + 1 - 1 \in Rows
    <3>1. 1 \in 1 .. n
      BY <1>2
    <3> QED  BY <1>1, <3>1, PackagesAreWhole
  <2>2. p * n \in Nat
    BY <1>2, <2>1
  <2> QED  BY <1>2, <2>1, <2>2 DEF Rows
<1>5. p < m * S
  <2>1. S * L = n * (m * S)
    BY <1>2, <1>3
  <2>2. n * p < n * (m * S)
    BY <1>2, <1>4, <2>1
  <2>3. m * S \in Nat
    BY <1>2, <1>3
  <2>4. \A x, y \in Nat : n * x < n * y => x < y
    BY <1>2
  <2> QED  BY <1>4, <2>2, <2>3, <2>4
<1>6. p + 1 \in 1 .. m * S /\ (p + 1) - 1 = p
  BY <1>2, <1>3, <1>4, <1>5
<1>7. p \div m \in 0 .. S - 1
  BY <1>2, <1>3, <1>6, Grouped
<1> QED  BY <1>1, <1>7 DEF PackagesInSegment, Segments

-----------------------------------------------------------------------------
(* The cells that are sent.                                                *)

\* C lists the cells of T, each once.
IsListing(C, T) ==
  /\ IsSeq(C)
  /\ \A k \in 1 .. Len(C) : C[k] \in T
  /\ \A i, j \in 1 .. Len(C) : i # j => C[i] # C[j]
  /\ \A cell \in T : \E k \in 1 .. Len(C) : C[k] = cell

PlaceOf(cell) == cell[1] * n_columns + cell[2]

Places(T) == {cell[1] * n_columns + cell[2] : cell \in T}

LEMMA PlaceFacts ==
  ASSUME n_columns \in Nat \ {0}, table.n_rows \in Nat, NEW cell \in Cells
  PROVE  /\ cell[1] \in Rows /\ cell[2] \in Columns /\ cell = Cell(cell[1], cell[2])
         /\ PlaceOf(cell) \in Nat
         /\ PlaceOf(cell) \div n_columns = cell[1] /\ PlaceOf(cell) % n_columns = cell[2]
         /\ PlaceOf(cell) <= table.n_rows * n_columns
<1>1. PICK row \in Rows, col \in Columns : cell = <<row, col>>
  BY DEF Cells
<1>2. PICK c, N : c = n_columns /\ N = table.n_rows
  OBVIOUS
<1>3. row \in 0 .. N - 1 /\ col \in 0 .. c - 1 /\ c \in Nat \ {0} /\ N \in Nat
  BY <1>1, <1>2 DEF Rows, Columns
<1>4. PICK x : x = row * c
  OBVIOUS
<1>5. x \in Nat /\ x = c * row
  BY <1>3, <1>4
<1>6. (c * row + col) \div c = row /\ (c * row + col) % c = col
  BY <1>3, Quotient, Remainder
<1>7. x + c <= N * c
  <2>1. x + c = (row + 1) * c
    BY <1>3, <1>4
  <2>2. (row + 1) * c <= N * c
    <3>1. row + 1 <= N /\ row + 1 \in Nat
      BY <1>3
    <3>2. \A u, v \in Nat : u <= v => u * c <= v * c
      BY <1>3
    <3> QED  BY <1>3, <3>1, <3>2
  <2> QED  BY <2>1, <2>2
<1>8. N * c \in Nat
  BY <1>3
<1>9. cell[1] = row /\ cell[2] = col
  BY <1>1
<1>10. PlaceOf(cell) = x + col
  BY <1>2, <1>4, <1>9 DEF PlaceOf
<1>11. x + col \in Nat /\ x + col <= N * c
  BY <1>3, <1>5, <1>7, <1>8
<1>12. (x + col) \div c = row /\ (x + col) % c = col
  BY <1>5, <1>6
<1> QED  BY <1>1, <1>2, <1>9, <1>10, <1>11, <1>12 DEF Cell

LEMMA PlacesFinite ==
  ASSUME n_columns \in Nat \ {0}, table.n_rows \in Nat, NEW T \in SUBSET Cells
  PROVE  Places(T) \in SUBSET Nat /\ IsFiniteSet(Places(T))
<1>1. PICK b : b = table.n_rows * n_columns
  OBVIOUS
<1>2. b \in Nat
  BY <1>1
<1>3. \A x \in Places(T) : x \in Nat /\ x <= b
  <2>1. TAKE x \in Places(T)
  <2>2. PICK cell \in T : x = PlaceOf(cell)
    BY DEF Places, PlaceOf
  <2>3. cell \in Cells
    BY <2>2
  <2> QED  BY <1>1, <2>2, <2>3, PlaceFacts
<1>4. Places(T) \in SUBSET Nat
  BY <1>3
<1>5. \A x \in Places(T) : x <= b
  BY <1>3
<1> QED  BY <1>2, <1>4, <1>5, FS_BoundedSetOfNaturals

LEMMA CellsListed ==
  ASSUME n_columns \in Nat \ {0}, table.n_rows \in Nat, NEW T \in SUBSET Cells
  PROVE  IsListing(CellsInOrder(T), T)
<1> DEFINE q == InOrder(Places(T))
           C == CellsInOrder(T)
           cellAt(x) == Cell(x \div n_columns, x % n_columns)
<1>1. Lists(q, Places(T))
  BY PlacesFinite, InOrderLists
<1>2. C = [k \in DOMAIN q |-> cellAt(q[k])]
  BY DEF CellsInOrder, Places
<1> HIDE DEF q, C
<1>3. DOMAIN q = 1 .. Len(q) /\ Len(q) \in Nat
  BY <1>1 DEF Lists, IsSeq
<1>4. IsSeq(C) /\ Len(C) = Len(q)
  <2>1. DOMAIN C = 1 .. Len(q) /\ C = [k \in 1 .. Len(q) |-> C[k]]
    BY <1>2, <1>3
  <2> QED  BY <1>3, <2>1, ListedIsSeq
<1>5. ASSUME NEW cell \in T
      PROVE  PlaceOf(cell) \in Places(T) /\ cellAt(PlaceOf(cell)) = cell
  <2>1. cell \in Cells
    OBVIOUS
  <2> QED  BY <2>1, PlaceFacts DEF Places, PlaceOf
<1>6. ASSUME NEW k \in 1 .. Len(q)
      PROVE  C[k] \in T /\ PlaceOf(C[k]) = q[k]
  <2>1. q[k] \in Places(T)
    BY <1>1 DEF Lists
  <2>2. PICK cell \in T : q[k] = PlaceOf(cell)
    BY <2>1 DEF Places, PlaceOf
  <2>3. C[k] = cellAt(q[k])
    BY <1>2, <1>3
  <2> QED  BY <1>5, <2>2, <2>3
<1>7. \A i, j \in 1 .. Len(q) : i # j => C[i] # C[j]
  <2>1. TAKE i, j \in 1 .. Len(q)
  <2>2. HAVE i # j
  <2>3. q[i] < q[j] \/ q[j] < q[i]
    BY <1>1, <1>3, <2>2 DEF Lists
  <2>4. q[i] \in Nat /\ q[j] \in Nat
    BY <1>1, PlacesFinite DEF Lists
  <2> QED  BY <1>6, <2>3, <2>4
<1>8. \A cell \in T : \E k \in 1 .. Len(q) : C[k] = cell
  <2>1. TAKE cell \in T
  <2>2. PICK k \in 1 .. Len(q) : q[k] = PlaceOf(cell)
    BY <1>1, <1>5 DEF Lists
  <2>3. C[k] = cellAt(q[k])
    BY <1>2, <1>3
  <2> QED  BY <1>5, <2>2, <2>3
<1>9. IsListing(C, T)
  BY <1>4, <1>6, <1>7, <1>8 DEF IsListing
<1> QED  BY <1>9 DEF C

\* The loops of Decommit over rows and columns send the cells of the set that
\* ElementsToBeTransmitted computes, in its order.
LEMMA TransmittedInOrder ==
  ASSUME n_columns \in Nat \ {0}, table.n_rows \in Nat, all_query_rows \in SUBSET Rows
  PROVE  Transmitted
           = CellsInOrder(ElementsToBeTransmitted(all_query_rows, integrity_queries))
<1> DEFINE T == ElementsToBeTransmitted(all_query_rows, integrity_queries)
           R == InOrder(all_query_rows)
           all == RowByRow(R)
           P == {k \in DOMAIN all : all[k] \notin integrity_queries}
           tr == InOrder(P)
           c == n_columns
<1>1. T \in SUBSET Cells /\ \A cell \in T : cell[1] \in all_query_rows
  BY DEF ElementsToBeTransmitted, Cells
<1>2. all_query_rows \in SUBSET Nat /\ IsFiniteSet(all_query_rows)
  <2>1. PICK b : b = table.n_rows
    OBVIOUS
  <2>2. b \in Nat /\ all_query_rows \in SUBSET Nat /\ \A x \in all_query_rows : x <= b
    BY <2>1 DEF Rows
  <2> QED  BY <2>2, FS_BoundedSetOfNaturals
<1>3. Lists(R, all_query_rows)
  BY <1>2, InOrderLists
<1>4. PICK m : m = Len(R)
  OBVIOUS
<1>5. m \in Nat /\ c \in Nat \ {0} /\ m * c \in Nat /\ m * c = c * m
  BY <1>3, <1>4 DEF Lists, IsSeq
<1>6. /\ DOMAIN all = 1 .. m * c
      /\ \A k \in 1 .. m * c : all[k] = Cell(R[((k - 1) \div c) + 1], (k - 1) % c)
  BY <1>4 DEF RowByRow
<1> HIDE DEF R, all
<1>7. ASSUME NEW k \in 1 .. m * c
      PROVE  /\ (k - 1) \div c \in 0 .. m - 1 /\ (k - 1) % c \in 0 .. c - 1
             /\ k - 1 = c * ((k - 1) \div c) + ((k - 1) % c)
             /\ R[((k - 1) \div c) + 1] \in all_query_rows
             /\ all[k] \in all_query_rows \X Columns /\ all[k] \in Cells
             /\ PlaceOf(all[k]) = c * R[((k - 1) \div c) + 1] + ((k - 1) % c)
  <2>1. PICK d, r : d = (k - 1) \div c /\ r = (k - 1) % c
    OBVIOUS
  <2>2. d \in 0 .. m - 1 /\ r \in 0 .. c - 1 /\ k - 1 = c * d + r
    BY <1>5, <2>1, Grouped
  <2>3. d + 1 \in 1 .. m
    BY <1>5, <2>2
  <2>4. R[d + 1] \in all_query_rows /\ R[d + 1] \in Nat
    BY <1>2, <1>3, <1>4, <2>3 DEF Lists
  <2>5. all[k] = <<R[d + 1], r>> /\ r \in Columns
    BY <1>6, <2>1, <2>2 DEF Cell, Columns
  <2>6. PlaceOf(all[k]) = R[d + 1] * c + r
    BY <2>5 DEF PlaceOf
  <2>7. R[d + 1] * c = c * R[d + 1]
    BY <1>5, <2>4
  <2>8. all[k] \in all_query_rows \X Columns /\ all[k] \in Cells
    BY <2>4, <2>5 DEF Cells
  <2> QED  BY <2>1, <2>2, <2>4, <2>6, <2>7, <2>8
<1>8. ASSUME NEW k \in 1 .. m * c, NEW l \in 1 .. m * c, k < l
      PROVE  PlaceOf(all[k]) < PlaceOf(all[l])
  <2>1. PICK d, r, e, s : /\ d = (k - 1) \div c /\ r = (k - 1) % c
                          /\ e = (l - 1) \div c /\ s = (l - 1) % c
    OBVIOUS
  <2>2. /\ d \in 0 .. m - 1 /\ r \in 0 .. c - 1 /\ k - 1 = c * d + r
        /\ e \in 0 .. m - 1 /\ s \in 0 .. c - 1 /\ l - 1 = c * e + s
    BY <1>7, <2>1
  <2>3. PICK x, y : x = R[d + 1] /\ y = R[e + 1]
    OBVIOUS
  <2>4. x \in Nat /\ y \in Nat /\ PlaceOf(all[k]) = c * x + r /\ PlaceOf(all[l]) = c * y + s
    BY <1>2, <1>7, <2>1, <2>3
  <2>5. CASE d = e
    <3>1. c * d = c * e /\ c * x = c * y /\ c * d \in Nat /\ c * x \in Nat
      BY <1>5, <2>2, <2>3, <2>4, <2>5
    <3>2. r < s
      BY <1>5, <1>8, <2>2, <3>1
    <3> QED  BY <2>2, <2>4, <3>1, <3>2
  <2>6. CASE d < e
    <3>1. x < y
      <4>1. d + 1 \in 1 .. m /\ e + 1 \in 1 .. m /\ d + 1 < e + 1
        BY <1>5, <2>2, <2>6
      <4> QED  BY <1>3, <1>4, <2>3, <4>1 DEF Lists
    <3>2. c * (x + 1) <= c * y
      BY <1>5, <2>4, <3>1
    <3>3. c * (x + 1) = c * x + c
      BY <1>5, <2>4
    <3>4. c * x \in Nat /\ c * y \in Nat
      BY <1>5, <2>4
    <3> QED  BY <1>5, <2>2, <2>4, <3>2, <3>3, <3>4
  <2>7. CASE e < d
    <3>1. c * (e + 1) <= c * d
      BY <1>5, <2>2, <2>7
    <3>2. c * (e + 1) = c * e + c
      BY <1>5, <2>2
    <3>3. c * d \in Nat /\ c * e \in Nat
      BY <1>5, <2>2
    <3> QED  BY <1>5, <1>8, <2>2, <3>1, <3>2, <3>3
  <2> QED  BY <1>5, <2>2, <2>5, <2>6, <2>7
<1>9. P \in SUBSET Nat /\ IsFiniteSet(P)
  <2>1. P \in SUBSET Nat /\ \A x \in P : x <= m * c
    BY <1>5, <1>6
  <2> HIDE DEF P
  <2> QED  BY <1>5, <2>1, FS_BoundedSetOfNaturals
<1>10. Lists(tr, P)
  <2> HIDE DEF P
  <2> QED  BY <1>9, InOrderLists
<1> HIDE DEF tr
<1>11. DOMAIN tr = 1 .. Len(tr) /\ Len(tr) \in Nat
  BY <1>10 DEF Lists, IsSeq
<1>12. \A j \in 1 .. Len(tr) : tr[j] \in 1 .. m * c /\ all[tr[j]] \in T
  <2>1. TAKE j \in 1 .. Len(tr)
  <2>2. tr[j] \in P
    BY <1>10 DEF Lists
  <2>3. tr[j] \in 1 .. m * c /\ all[tr[j]] \notin integrity_queries
    BY <1>6, <2>2
  <2> QED  BY <1>7, <2>3 DEF ElementsToBeTransmitted
<1>13. \A cell \in T : \E j \in 1 .. Len(tr) : all[tr[j]] = cell
  <2>1. TAKE cell \in T
  <2>2. cell \in Cells /\ cell[1] \in all_query_rows /\ cell \notin integrity_queries
    BY <1>1 DEF ElementsToBeTransmitted
  <2>3. cell[2] \in 0 .. c - 1 /\ cell = Cell(cell[1], cell[2])
    BY <2>2, PlaceFacts DEF Columns
  <2>4. PICK i \in 1 .. m : R[i] = cell[1]
    BY <1>3, <1>4, <2>2 DEF Lists
  <2>5. PICK l, k : l = cell[2] + 1 /\ k = (i - 1) * c + l
    OBVIOUS
  <2>6. l \in 1 .. c /\ l - 1 = cell[2]
    BY <1>5, <2>3, <2>5
  <2>7. k \in 1 .. c * m /\ (k - 1) \div c = i - 1 /\ (k - 1) % c = l - 1
    <3>1. c \in Nat \ {0} /\ m \in Nat /\ i \in 1 .. m /\ l \in 1 .. c
      BY <1>5, <2>6
    <3> HIDE DEF c
    <3>2. /\ (i - 1) * c + l \in 1 .. c * m
          /\ ((i - 1) * c + l - 1) \div c = i - 1 /\ ((i - 1) * c + l - 1) % c = l - 1
      BY <3>1, GroupPlace
    <3>3. PICK x : x = (i - 1) * c
      OBVIOUS
    <3>4. x \in Int /\ k = x + l /\ l \in Int
      BY <2>5, <3>1, <3>3
    <3>5. k - 1 = (i - 1) * c + l - 1
      BY <3>3, <3>4
    <3> QED  BY <2>5, <3>2, <3>5
  <2>8. k \in 1 .. m * c /\ ((k - 1) \div c) + 1 = i /\ (k - 1) % c = cell[2]
    BY <1>5, <2>4, <2>6, <2>7
  <2>9. all[k] = cell
    BY <1>6, <2>3, <2>4, <2>8
  <2>10. k \in P
    BY <1>6, <2>2, <2>8, <2>9
  <2>11. PICK j \in 1 .. Len(tr) : tr[j] = k
    BY <1>10, <2>10 DEF Lists
  <2> QED  BY <2>9, <2>11
<1> DEFINE u == [k \in 1 .. Len(tr) |-> PlaceOf(all[tr[k]])]
           q == InOrder(Places(T))
<1>14. IsSeq(u) /\ Len(u) = Len(tr) /\ \A k \in 1 .. Len(tr) : u[k] = PlaceOf(all[tr[k]])
  <2>1. DOMAIN u = 1 .. Len(tr) /\ u = [k \in 1 .. Len(tr) |-> u[k]]
    OBVIOUS
  <2>2. \A k \in 1 .. Len(tr) : u[k] = PlaceOf(all[tr[k]])
    OBVIOUS
  <2> HIDE DEF u
  <2> QED  BY <1>11, <2>1, <2>2, ListedIsSeq
<1> HIDE DEF u
<1>15. Lists(u, Places(T))
  <2>1. \A k \in 1 .. Len(u) : u[k] \in Places(T)
    BY <1>12, <1>14 DEF Places, PlaceOf
  <2>2. \A i, j \in 1 .. Len(u) : i < j => u[i] < u[j]
    <3>1. TAKE i, j \in 1 .. Len(u)
    <3>2. HAVE i < j
    <3>3. tr[i] < tr[j]
      BY <1>10, <1>14, <3>2 DEF Lists
    <3> QED  BY <1>8, <1>12, <1>14, <3>3
  <2>3. \A x \in Places(T) : \E k \in 1 .. Len(u) : u[k] = x
    <3>1. TAKE x \in Places(T)
    <3>2. PICK cell \in T : x = PlaceOf(cell)
      BY DEF Places, PlaceOf
    <3>3. PICK k \in 1 .. Len(tr) : all[tr[k]] = cell
      BY <1>13
    <3> QED  BY <1>14, <3>2, <3>3
  <2> QED  BY <1>14, <2>1, <2>2, <2>3 DEF Lists
<1>16. u = q
  <2>1. Places(T) \in SUBSET Nat /\ IsFiniteSet(Places(T))
    BY <1>1, PlacesFinite
  <2>2. Lists(q, Places(T))
    BY <2>1, InOrderLists
  <2> HIDE DEF q, T
  <2> QED  BY <1>15, <2>1, <2>2, ListedOnce
<1>17. CellsInOrder(T) = [k \in DOMAIN q |-> Cell(q[k] \div c, q[k] % c)]
  BY DEF CellsInOrder, Places
<1>18. Transmitted = [k \in DOMAIN tr |-> all[tr[k]]]
  BY DEF Transmitted, tr, all, R
<1>19. DOMAIN q = 1 .. Len(tr)
  BY <1>14, <1>16 DEF IsSeq
<1>20. ASSUME NEW k \in 1 .. Len(tr)
       PROVE  Cell(q[k] \div c, q[k] % c) = all[tr[k]]
  <2>1. q[k] = PlaceOf(all[tr[k]])
    BY <1>14, <1>16
  <2>2. all[tr[k]] \in Cells
    BY <1>1, <1>12
  <2> HIDE DEF q
  <2> QED  BY <2>1, <2>2, PlaceFacts
<1> HIDE DEF q, T
<1>21. Transmitted = CellsInOrder(T)
  BY <1>11, <1>17, <1>18, <1>19, <1>20
<1> QED  BY <1>21 DEF T

-----------------------------------------------------------------------------
(* The request and the messages.                                           *)

ToTransmit == ElementsToBeTransmitted(all_query_rows, integrity_queries)

Required == ElementsRequiredToComputeHashes(all_query_rows)

Requests ==
  /\ data_queries \in SUBSET Cells /\ integrity_queries \in SUBSET Cells
  /\ all_query_rows = AllQueryRows(data_queries, integrity_queries)
  /\ missing_element_queries = InOrder(Required)
  /\ rows_to_request = RowsToRequest(all_query_rows, missing_element_queries)

LEMMA FiniteRows ==
  ASSUME table.n_rows \in Nat, NEW S \in SUBSET Rows
  PROVE  S \in SUBSET Nat /\ IsFiniteSet(S)
<1>1. PICK b : b = table.n_rows
  OBVIOUS
<1>2. b \in Nat /\ S \in SUBSET Nat /\ \A x \in S : x <= b
  BY <1>1 DEF Rows
<1> QED  BY <1>2, FS_BoundedSetOfNaturals

LEMMA RequestFacts ==
  ASSUME table \in Tables, n_elements_in_package = PackageSize, Requests
  PROVE  /\ all_query_rows \in SUBSET Rows /\ Required \in SUBSET Rows
         /\ all_query_rows \in SUBSET Nat /\ IsFiniteSet(all_query_rows)
         /\ Required \in SUBSET Nat /\ IsFiniteSet(Required)
         /\ integrity_queries \in SUBSET (all_query_rows \X Columns)
         /\ ToTransmit \in SUBSET Cells
         /\ IsListing(CellsInOrder(ToTransmit), ToTransmit)
         /\ IsInOrder(InOrder(all_query_rows), all_query_rows)
         /\ IsInOrder(missing_element_queries, Required)
         /\ IsConcat(rows_to_request, InOrder(all_query_rows), missing_element_queries)
<1>1. table.n_rows \in Nat /\ n_columns \in Nat \ {0}
  BY TableNumbers DEF Shaped
<1>2. all_query_rows \in SUBSET Rows
  BY DEF Requests, AllQueryRows, Cells
<1>3. Required \in SUBSET Rows
  BY <1>2, RowsAndRequired DEF Required
<1>4. /\ all_query_rows \in SUBSET Nat /\ IsFiniteSet(all_query_rows)
      /\ Required \in SUBSET Nat /\ IsFiniteSet(Required)
  BY <1>1, <1>2, <1>3, FiniteRows
<1>5. integrity_queries \in SUBSET (all_query_rows \X Columns)
  <2>1. ASSUME NEW cell \in integrity_queries
        PROVE  cell \in all_query_rows \X Columns
    <3>1. PICK row \in Rows, col \in Columns : cell = <<row, col>>
      BY DEF Requests, Cells
    <3>2. cell[1] = row /\ cell[1] \in all_query_rows
      BY <3>1 DEF Requests, AllQueryRows
    <3> QED  BY <3>1, <3>2
  <2> QED  BY <2>1
<1>6. ToTransmit \in SUBSET Cells
  BY <1>2 DEF ToTransmit, ElementsToBeTransmitted, Cells
<1>7. IsListing(CellsInOrder(ToTransmit), ToTransmit)
  BY <1>1, <1>6, CellsListed
<1>8. IsInOrder(InOrder(all_query_rows), all_query_rows)
  BY <1>4, InOrderFacts
<1>9. IsInOrder(missing_element_queries, Required)
  BY <1>4, InOrderFacts DEF Requests
<1>10. IsConcat(rows_to_request, InOrder(all_query_rows), missing_element_queries)
  <2>1. IsSeq(InOrder(all_query_rows)) /\ IsSeq(missing_element_queries)
    BY <1>8, <1>9 DEF IsInOrder
  <2>2. rows_to_request = InOrder(all_query_rows) \o missing_element_queries
    BY DEF Requests, RowsToRequest
  <2> QED  BY <2>1, <2>2, ConcatFacts
<1> QED  BY <1>2, <1>3, <1>4, <1>5, <1>6, <1>7, <1>8, <1>9, <1>10

\* Each message carries what belongs to its place.
SentRight(s) ==
  LET C == CellsInOrder(ToTransmit)
      M == missing_element_queries
  IN  /\ IsSeq(s) /\ Len(s) = Len(C) + Len(M)
      /\ \A k \in 1 .. Len(C) : s[k] = [place |-> C[k], value |-> C[k]]
      /\ \A k \in 1 .. Len(M) :
           s[Len(C) + k] = [place |-> <<M[k]>>, value |-> RowElement(M[k])]

LEMMA MessagesRight ==
  ASSUME table \in Tables, n_elements_in_package = PackageSize, Requests
  PROVE  Transmitted = CellsInOrder(ToTransmit) /\ SentRight(CellMessages \o ElementMessages)
<1> DEFINE C == CellsInOrder(ToTransmit)
           M == missing_element_queries
           R == InOrder(all_query_rows)
<1>1. table.n_rows \in Nat /\ n_columns \in Nat \ {0}
  BY TableNumbers DEF Shaped
<1>2. Transmitted = C
  BY <1>1, RequestFacts, TransmittedInOrder DEF ToTransmit
<1>3. /\ IsListing(C, ToTransmit) /\ IsInOrder(R, all_query_rows) /\ IsInOrder(M, Required)
      /\ IsConcat(rows_to_request, R, M)
      /\ all_query_rows \in SUBSET Nat /\ IsFiniteSet(all_query_rows)
      /\ ToTransmit \in SUBSET Cells
  BY RequestFacts
<1>4. CellMessages = [k \in DOMAIN C |->
        [place |-> C[k], value |-> Cell(rows_to_request[RowNumber(C[k][1])], C[k][2])]]
  BY <1>2 DEF CellMessages, Requested
<1>5. ElementMessages = [k \in DOMAIN M |->
        [place |-> <<M[k]>>,
         value |-> [col \in 1 .. n_columns |-> Cell(rows_to_request[LastRows(k)], col - 1)]]]
  BY DEF ElementMessages, Requested
<1> HIDE DEF C, M, R
<1>6. DOMAIN C = 1 .. Len(C) /\ Len(C) \in Nat /\ DOMAIN M = 1 .. Len(M) /\ Len(M) \in Nat
  BY <1>3 DEF IsListing, IsInOrder, IsSeq
<1>7. ASSUME NEW k \in 1 .. Len(C)
      PROVE  Cell(rows_to_request[RowNumber(C[k][1])], C[k][2]) = C[k]
  <2>1. C[k] \in ToTransmit
    BY <1>3 DEF IsListing
  <2>2. PICK row \in all_query_rows, col \in Columns : C[k] = <<row, col>>
    BY <2>1 DEF ToTransmit, ElementsToBeTransmitted
  <2>3. RowNumber(row) \in 1 .. Len(R) /\ R[RowNumber(row)] = row
    <3>1. PICK i : i = Cardinality({r \in all_query_rows : r <= row})
      OBVIOUS
    <3>2. i \in 1 .. Len(R) /\ R[i] = row
      BY <1>3, <3>1, RankedAt
    <3> QED  BY <3>1, <3>2 DEF RowNumber
  <2>4. rows_to_request[RowNumber(row)] = row
    BY <1>3, <2>3 DEF IsConcat
  <2> QED  BY <2>2, <2>4 DEF Cell
<1>8. ASSUME NEW k \in 1 .. Len(M)
      PROVE  rows_to_request[LastRows(k)] = M[k]
  <2>1. Cardinality(all_query_rows) = Len(R)
    BY <1>3 DEF IsInOrder
  <2> QED  BY <1>3, <2>1 DEF IsConcat, LastRows
<1>9. /\ IsSeq(CellMessages) /\ Len(CellMessages) = Len(C)
      /\ \A k \in 1 .. Len(C) : CellMessages[k] = [place |-> C[k], value |-> C[k]]
  <2>1. PICK u : u = CellMessages
    OBVIOUS
  <2>2. DOMAIN u = 1 .. Len(C) /\ u = [k \in 1 .. Len(C) |-> u[k]]
    BY <1>4, <1>6, <2>1
  <2>3. IsSeq(u) /\ Len(u) = Len(C)
    BY <1>6, <2>2, ListedIsSeq
  <2>4. \A k \in 1 .. Len(C) : u[k] = [place |-> C[k], value |-> C[k]]
    BY <1>4, <1>6, <1>7, <2>1
  <2> QED  BY <2>1, <2>3, <2>4
<1>10. /\ IsSeq(ElementMessages) /\ Len(ElementMessages) = Len(M)
       /\ \A k \in 1 .. Len(M) :
            ElementMessages[k] = [place |-> <<M[k]>>, value |-> RowElement(M[k])]
  <2>1. PICK u : u = ElementMessages
    OBVIOUS
  <2>2. DOMAIN u = 1 .. Len(M) /\ u = [k \in 1 .. Len(M) |-> u[k]]
    BY <1>5, <1>6, <2>1
  <2>3. IsSeq(u) /\ Len(u) = Len(M)
    BY <1>6, <2>2, ListedIsSeq
  <2>4. ASSUME NEW k \in 1 .. Len(M)
        PROVE  u[k] = [place |-> <<M[k]>>, value |-> RowElement(M[k])]
    <3>1. u[k] = [place |-> <<M[k]>>,
           value |-> [col \in 1 .. n_columns |-> Cell(rows_to_request[LastRows(k)], col - 1)]]
      BY <1>5, <1>6, <2>1
    <3> QED  BY <1>8, <3>1 DEF RowElement
  <2> QED  BY <2>1, <2>3, <2>4
<1>11. PICK u, v : u = CellMessages /\ v = ElementMessages
  OBVIOUS
<1>12. IsConcat(u \o v, u, v)
  BY <1>9, <1>10, <1>11, ConcatFacts
<1>13. SentRight(u \o v)
  BY <1>9, <1>10, <1>11, <1>12 DEF SentRight, IsConcat, C, M
<1> QED  BY <1>2, <1>11, <1>13 DEF C

-----------------------------------------------------------------------------
(* The verifier's answer.                                                  *)

ClaimsRight == \A cell \in DOMAIN rows_data : rows_data[cell] = cell

\* The number of an element in its package.
LEMMA PlaceInPackage ==
  ASSUME table \in Tables, n_elements_in_package = PackageSize,
         NEW p \in Packages, NEW e \in ElementsOf(p)
  PROVE  \E k \in 1 .. n_elements_in_package : p * n_elements_in_package + k - 1 = e
<1>1. PICK n, x : n = n_elements_in_package /\ x = p * n
  OBVIOUS
<1>2. n \in Nat \ {0} /\ p \in Nat /\ e \in Nat
  BY <1>1, TableNumbers, PackagesAreWhole DEF Shaped
<1>3. x \in Nat /\ (p + 1) * n = x + n
  BY <1>1, <1>2
<1>4. e \in x .. (p + 1) * n - 1
  BY <1>1 DEF ElementsOf
<1>5. e - x + 1 \in 1 .. n /\ x + (e - x + 1) - 1 = e
  BY <1>2, <1>3, <1>4
<1> QED  BY <1>1, <1>5

\* What the verifier has of the elements is right if its cells are and nothing was altered,
\* and if it is right, so are its cells.
LEMMA ElementsRight ==
  ASSUME table \in Tables, n_elements_in_package = PackageSize, Requests, SentRight(sent),
         DOMAIN rows_data = all_query_rows \X Columns, asked = CellsInOrder(ToTransmit),
         NEW W, W = WithMissing(IntegrityMap, Required)
  PROVE  /\ DOMAIN W = all_query_rows \cup Required
         /\ (\A e \in all_query_rows : W[e] = RowElement(e)) => ClaimsRight
         /\ ClaimsRight /\ damage.kind = "none" => \A e \in DOMAIN W : W[e] = RowElement(e)
<1> DEFINE E == IntegrityMap
           M == missing_element_queries
           C == CellsInOrder(ToTransmit)
<1>1. /\ all_query_rows = AllQueryRows(data_queries, integrity_queries)
      /\ IsInOrder(M, Required) /\ Required \in SUBSET Nat /\ IsFiniteSet(Required)
  BY RequestFacts DEF Requests
<1>2. /\ DOMAIN E = all_query_rows
      /\ \A row \in all_query_rows :
           E[row] = [col \in 1 .. n_columns |-> rows_data[Cell(row, col - 1)]]
  BY <1>1 DEF IntegrityMap
<1> HIDE DEF E
<1>3. /\ DOMAIN W = all_query_rows \cup Required
      /\ \A e \in all_query_rows : W[e] = E[e]
      /\ \A e \in Required : e \notin all_query_rows =>
           W[e] = IF /\ damage.kind = "altered"
                     /\ damage.at = Len(asked) + Cardinality({m \in Required : m <= e})
                  THEN Garbage
                  ELSE sent[Len(asked) + Cardinality({m \in Required : m <= e})].value
  BY <1>2 DEF WithMissing, E
<1>4. n_columns \in Nat \ {0}
  BY TableNumbers DEF Shaped
<1>5. ASSUME \A e \in all_query_rows : W[e] = RowElement(e)
      PROVE  ClaimsRight
  <2>1. ASSUME NEW cell \in DOMAIN rows_data
        PROVE  rows_data[cell] = cell
    <3>1. PICK row \in all_query_rows, col \in Columns : cell = <<row, col>>
      OBVIOUS
    <3>2. col + 1 \in 1 .. n_columns /\ (col + 1) - 1 = col
      BY <1>4 DEF Columns
    <3>3. E[row] = RowElement(row)
      BY <1>3, <1>5
    <3>4. E[row][col + 1] = rows_data[Cell(row, (col + 1) - 1)]
      <4>1. E[row] = [k \in 1 .. n_columns |-> rows_data[Cell(row, k - 1)]]
        BY <1>2
      <4> QED  BY <3>2, <4>1
    <3>5. RowElement(row)[col + 1] = Cell(row, (col + 1) - 1)
      BY <3>2 DEF RowElement
    <3>6. rows_data[Cell(row, col)] = Cell(row, col)
      BY <3>2, <3>3, <3>4, <3>5
    <3> QED  BY <3>1, <3>6 DEF Cell
  <2> QED  BY <2>1 DEF ClaimsRight
<1>6. ASSUME ClaimsRight, damage.kind = "none", NEW e \in DOMAIN W
      PROVE  W[e] = RowElement(e)
  <2>1. CASE e \in all_query_rows
    <3>1. ASSUME NEW col \in 1 .. n_columns
          PROVE  rows_data[Cell(e, col - 1)] = Cell(e, col - 1)
      <4>1. col - 1 \in Columns
        BY <1>4 DEF Columns
      <4>2. Cell(e, col - 1) \in DOMAIN rows_data
        BY <2>1, <4>1 DEF Cell
      <4> QED  BY <1>6, <4>2 DEF ClaimsRight
    <3>2. E[e] = [col \in 1 .. n_columns |-> Cell(e, col - 1)]
      BY <1>2, <2>1, <3>1
    <3> QED  BY <1>3, <2>1, <3>2 DEF RowElement
  <2>2. CASE e \notin all_query_rows
    <3>1. e \in Required
      BY <1>3, <1>6, <2>2
    <3>2. PICK i : i = Cardinality({m \in Required : m <= e})
      OBVIOUS
    <3>3. i \in 1 .. Len(M) /\ M[i] = e
      BY <1>1, <3>1, <3>2, RankedAt
    <3>4. W[e] = sent[Len(C) + i].value
      BY <1>3, <1>6, <2>2, <3>1, <3>2
    <3>5. sent[Len(C) + i] = [place |-> <<M[i]>>, value |-> RowElement(M[i])]
      BY <3>3 DEF SentRight
    <3> QED  BY <3>3, <3>4, <3>5
  <2> QED  BY <2>1, <2>2
<1> QED  BY <1>3, <1>5, <1>6

LEMMA AnswerRight ==
  ASSUME table \in Tables, n_elements_in_package = PackageSize, Requests, SentRight(sent),
         DOMAIN rows_data = all_query_rows \X Columns, asked = CellsInOrder(ToTransmit),
         \A p \in Packages : leaves[p] = Package(p),
         NEW answer \in
           InnerAnswers(PackAndHashMap(WithMissing(IntegrityMap,
                          ElementsRequiredToComputeHashes(DOMAIN IntegrityMap))))
  PROVE  /\ answer \in BOOLEAN
         /\ answer => ClaimsRight
         /\ ClaimsRight /\ damage.kind = "none" => answer
<1>1. DOMAIN IntegrityMap = all_query_rows
  BY DEF IntegrityMap, Requests
<1>2. PICK W : W = WithMissing(IntegrityMap, Required)
  OBVIOUS
<1>3. PICK hashes : hashes = PackAndHashMap(W)
  OBVIOUS
<1>4. PICK n : n = n_elements_in_package
  OBVIOUS
<1>5. /\ DOMAIN W = all_query_rows \cup Required
      /\ (\A e \in all_query_rows : W[e] = RowElement(e)) => ClaimsRight
      /\ ClaimsRight /\ damage.kind = "none" => \A e \in DOMAIN W : W[e] = RowElement(e)
  BY <1>2, ElementsRight
<1>6. /\ all_query_rows \in SUBSET Rows
      /\ DOMAIN W = GetElementsInPackages({PackageOf(e) : e \in all_query_rows})
      /\ {PackageOf(e) : e \in DOMAIN W} = {PackageOf(e) : e \in all_query_rows}
      /\ \A e \in all_query_rows : PackageOf(e) \in Packages /\ e \in ElementsOf(PackageOf(e))
      /\ \A e \in all_query_rows : ElementsOf(PackageOf(e)) \subseteq DOMAIN W
  <2>1. all_query_rows \in SUBSET Rows
    BY RequestFacts
  <2>2. DOMAIN W = GetElementsInPackages({PackageOf(e) : e \in all_query_rows})
    BY <1>5, <2>1, RowsAndRequired DEF Required
  <2> QED  BY <2>1, <2>2, RowsAndRequired
<1>7. /\ DOMAIN hashes = {PackageOf(e) : e \in all_query_rows}
      /\ \A p \in DOMAIN hashes : hashes[p] = [k \in 1 .. n |-> W[p * n + k - 1]]
  BY <1>3, <1>4, <1>6 DEF PackAndHashMap
<1>8. PICK agree : agree = \A p \in DOMAIN hashes : hashes[p] = leaves[p]
  OBVIOUS
<1>9. answer \in IF damage.kind = "inner" THEN {FALSE, agree} ELSE {agree}
  BY <1>1, <1>2, <1>3, <1>8 DEF InnerAnswers, Required
<1>10. ASSUME NEW p \in DOMAIN hashes
       PROVE  p \in Packages /\ leaves[p] = [k \in 1 .. n |-> RowElement(p * n + k - 1)]
  <2>1. p \in Packages
    BY <1>6, <1>7
  <2>2. leaves[p] = Package(p)
    BY <2>1
  <2> QED  BY <1>4, <2>1, <2>2 DEF Package
<1>11. ASSUME agree
       PROVE  ClaimsRight
  <2>1. ASSUME NEW e \in all_query_rows
        PROVE  W[e] = RowElement(e)
    <3>1. PICK p : p = PackageOf(e)
      OBVIOUS
    <3>2. p \in Packages /\ e \in ElementsOf(p) /\ p \in DOMAIN hashes
      BY <1>6, <1>7, <3>1
    <3>3. PICK k \in 1 .. n : p * n + k - 1 = e
      BY <1>4, <3>2, PlaceInPackage
    <3>4. hashes[p] = leaves[p]
      BY <1>8, <1>11, <3>2
    <3>5. hashes[p][k] = W[p * n + k - 1] /\ leaves[p][k] = RowElement(p * n + k - 1)
      <4>1. hashes[p] = [i \in 1 .. n |-> W[p * n + i - 1]]
        BY <1>7, <3>2
      <4>2. leaves[p] = [i \in 1 .. n |-> RowElement(p * n + i - 1)]
        BY <1>10, <3>2
      <4> QED  BY <4>1, <4>2
    <3> QED  BY <3>3, <3>4, <3>5
  <2> QED  BY <1>5, <2>1
<1>12. ASSUME ClaimsRight, damage.kind = "none"
       PROVE  agree
  <2>1. ASSUME NEW p \in DOMAIN hashes
        PROVE  hashes[p] = leaves[p]
    <3>1. PICK e \in all_query_rows : p = PackageOf(e)
      BY <1>7
    <3>2. ASSUME NEW k \in 1 .. n
          PROVE  W[p * n + k - 1] = RowElement(p * n + k - 1)
      <4>1. p * n + k - 1 \in ElementsOf(p)
        BY <1>4, <1>10, PackagesAreWhole
      <4>2. p * n + k - 1 \in DOMAIN W
        BY <1>6, <3>1, <4>1
      <4> QED  BY <1>5, <1>12, <4>2
    <3> QED  BY <1>7, <1>10, <3>2
  <2> QED  BY <1>8, <2>1
<1>13. agree \in BOOLEAN
  BY <1>8
<1> QED  BY <1>9, <1>11, <1>12, <1>13

-----------------------------------------------------------------------------
(* The invariant.                                                          *)

\* What was handed over for the segments added so far is what the table holds.
Packed ==
  /\ DOMAIN leaves = Packages
  /\ added \subseteq Segments
  /\ added # {} =>
       /\ RowsInSegment % n_elements_in_package = 0
       /\ \A p \in Packages : p \div PackagesInSegment \in added => leaves[p] = Package(p)

CommittedWhenAdded ==
  /\ committed \in BOOLEAN
  /\ committed <=> stage \notin {"committing", "segment smaller than a package"}
  /\ committed => added = Segments

SentInOrder ==
  IF stage \in {"sent", "queried", "accepted", "rejected"} THEN SentRight(sent) ELSE sent = <<>>

Read ==
  /\ stage \in {"queried", "accepted", "rejected"} =>
       DOMAIN rows_data = all_query_rows \X Columns
  /\ stage = "queried" => asked = CellsInOrder(ToTransmit)

Answered ==
  /\ stage = "accepted" => ClaimsRight
  /\ stage = "rejected" => ~(ClaimsRight /\ damage.kind = "none")

Stages ==
  {"committing", "segment smaller than a package", "committed", "started", "sent", "queried",
   "accepted", "rejected"}

IInv ==
  /\ table \in Tables /\ n_elements_in_package = PackageSize
  /\ stage \in Stages
  /\ Packed /\ CommittedWhenAdded /\ Requests /\ SentInOrder /\ Read /\ Answered

LEMMA InitIInv == Init => IInv
<1> SUFFICES ASSUME Init  PROVE IInv
  OBVIOUS
<1>1. table \in Tables /\ n_elements_in_package = PackageSize /\ stage = "committing"
  BY DEF Init
<1>2. Packed
  BY DEF Init, Packed
<1>3. CommittedWhenAdded
  BY DEF Init, CommittedWhenAdded
<1>4. Requests
  <2>1. GetElementsInPackages({PackageOf(e) : e \in {}}) = {}
    BY DEF GetElementsInPackages
  <2>2. all_query_rows = {} /\ Required = {}
    BY <2>1 DEF Init, Required, ElementsRequiredToComputeHashes
  <2>3. AllQueryRows({}, {}) = {}
    BY DEF AllQueryRows
  <2>4. InOrder({}) = <<>>
    <3>1. {} \in SUBSET Nat /\ IsFiniteSet({}) /\ Cardinality({}) = 0
      BY FS_EmptySet
    <3>2. IsInOrder(InOrder({}), {})
      BY <3>1, InOrderFacts
    <3>3. IsSeq(InOrder({})) /\ Len(InOrder({})) = 0
      BY <3>1, <3>2 DEF IsInOrder
    <3> QED  BY <3>3, EmptySeq, SameSeq
  <2>5. RowsToRequest({}, <<>>) = <<>>
    BY <2>4 DEF RowsToRequest
  <2> QED  BY <2>2, <2>3, <2>4, <2>5 DEF Init, Requests
<1>5. SentInOrder /\ Read /\ Answered
  BY <1>1 DEF Init, SentInOrder, Read, Answered
<1> QED  BY <1>1, <1>2, <1>3, <1>4, <1>5 DEF IInv, Stages

LEMMA TableSame ==
  ASSUME UNCHANGED <<table, n_elements_in_package>>
  PROVE  /\ n_columns' = n_columns /\ Rows' = Rows /\ Columns' = Columns /\ Cells' = Cells
         /\ PackageSize' = PackageSize /\ Packages' = Packages /\ Segments' = Segments
         /\ RowsInSegment' = RowsInSegment /\ PackagesInSegment' = PackagesInSegment
         /\ \A p : Package(p)' = Package(p)
<1>1. n_columns' = n_columns /\ Rows' = Rows /\ Segments' = Segments
      /\ RowsInSegment' = RowsInSegment
  BY DEF n_columns, Rows, Segments, RowsInSegment
<1>2. Columns' = Columns /\ Cells' = Cells /\ PackageSize' = PackageSize
      /\ PackagesInSegment' = PackagesInSegment
  BY <1>1 DEF Columns, Cells, PackageSize, PackagesInSegment
<1>3. Packages' = Packages
  BY <1>1 DEF Packages, PackageOf
<1>4. \A p : Package(p)' = Package(p)
  BY <1>1 DEF Package, RowElement
<1> QED  BY <1>1, <1>2, <1>3, <1>4

LEMMA QueriesSame ==
  ASSUME UNCHANGED <<table, n_elements_in_package>>, UNCHANGED_queries, Requests
  PROVE  /\ Requests' /\ ToTransmit' = ToTransmit
         /\ CellsInOrder(ToTransmit)' = CellsInOrder(ToTransmit)
         /\ \A s : SentRight(s) => SentRight(s)'
<1>1. n_columns' = n_columns /\ Rows' = Rows /\ Columns' = Columns /\ Cells' = Cells
  BY TableSame
<1>2. /\ all_query_rows' = all_query_rows /\ data_queries' = data_queries
      /\ integrity_queries' = integrity_queries /\ rows_to_request' = rows_to_request
      /\ missing_element_queries' = missing_element_queries
      /\ n_elements_in_package' = n_elements_in_package
  BY DEF UNCHANGED_queries
<1>3. Required' = Required
  BY <1>2 DEF Required, ElementsRequiredToComputeHashes, GetElementsInPackages, PackageOf,
              ElementsOf
<1>4. Requests'
  BY <1>1, <1>2, <1>3 DEF Requests
<1>5. ToTransmit' = ToTransmit
  BY <1>1, <1>2 DEF ToTransmit, ElementsToBeTransmitted
<1>6. CellsInOrder(ToTransmit)' = CellsInOrder(ToTransmit)
  BY <1>1, <1>5 DEF CellsInOrder
<1>7. \A row : RowElement(row)' = RowElement(row)
  BY <1>1 DEF RowElement
<1>8. ASSUME NEW s, SentRight(s)
      PROVE  SentRight(s)'
  BY <1>2, <1>6, <1>7, <1>8 DEF SentRight
<1> QED  BY <1>4, <1>5, <1>6, <1>8

LEMMA AddSegmentIInv ==
  ASSUME IInv, NEW s \in Segments, AddSegment(s)
  PROVE  IInv'
<1>1. UNCHANGED <<table, n_elements_in_package, committed, sent>> /\ UNCHANGED_queries
      /\ stage = "committing" /\ stage' \in {"committing", "segment smaller than a package"}
  BY DEF AddSegment, UNCHANGED_opening
<1>2. table' \in Tables /\ n_elements_in_package' = PackageSize' /\ stage' \in Stages
  BY <1>1, TableSame DEF IInv, Stages
<1>3. Requests'
  BY <1>1, QueriesSame DEF IInv
<1>4. CommittedWhenAdded'
  BY <1>1, TableSame DEF IInv, CommittedWhenAdded
<1>5. SentInOrder' /\ Read' /\ Answered'
  BY <1>1 DEF IInv, SentInOrder, Read, Answered
<1>6. Packed'
  <2>1. CASE RowsInSegment % n_elements_in_package # 0
    <3>1. leaves' = leaves /\ added' = added
      BY <2>1 DEF AddSegment
    <3> QED  BY <1>1, <3>1, TableSame DEF IInv, Packed
  <2>2. CASE RowsInSegment % n_elements_in_package = 0
    <3>1. /\ leaves' = [p \in Packages |->
               IF p \div PackagesInSegment = s
               THEN PackAndHash(SegmentElements(s))[(p % PackagesInSegment) + 1]
               ELSE leaves[p]]
          /\ added' = added \cup {s}
      BY <2>2 DEF AddSegment
    <3>2. DOMAIN leaves' = Packages /\ added' \subseteq Segments
      BY <3>1 DEF IInv, Packed
    <3>3. s \in Nat
      BY TableNumbers DEF IInv, Segments, Shaped
    <3>4. ASSUME NEW p \in Packages, p \div PackagesInSegment \in added'
          PROVE  leaves'[p] = Package(p)
      <4>1. CASE p \div PackagesInSegment = s
        <5>1. leaves'[p] = PackAndHash(SegmentElements(s))[(p % PackagesInSegment) + 1]
          BY <3>1, <4>1
        <5> QED  BY <2>2, <3>3, <4>1, <5>1, SegmentPacked DEF IInv
      <4>2. CASE p \div PackagesInSegment # s
        BY <3>1, <3>4, <4>2 DEF IInv, Packed
      <4> QED  BY <4>1, <4>2
    <3>5. \A p \in Packages' : p \div PackagesInSegment' \in added' => leaves'[p] = Package(p)'
      BY <1>1, <3>4, TableSame
    <3>6. DOMAIN leaves' = Packages' /\ added' \subseteq Segments'
          /\ RowsInSegment' % n_elements_in_package' = 0
      BY <1>1, <2>2, <3>2, TableSame
    <3> QED  BY <3>5, <3>6 DEF Packed
  <2> QED  BY <2>1, <2>2
<1> QED  BY <1>2, <1>3, <1>4, <1>5, <1>6 DEF IInv

LEMMA PackedSame ==
  ASSUME Packed, UNCHANGED <<table, n_elements_in_package, leaves, added>>
  PROVE  Packed'
BY TableSame DEF Packed

LEMMA CommitIInv ==
  ASSUME IInv, Commit
  PROVE  IInv'
<1>1. UNCHANGED <<table, n_elements_in_package, leaves, added, sent>> /\ UNCHANGED_queries
      /\ stage = "committing" /\ stage' = "committed" /\ added = Segments /\ committed' = TRUE
  BY DEF Commit, UNCHANGED_opening
<1>2. table' \in Tables /\ n_elements_in_package' = PackageSize' /\ stage' \in Stages
  BY <1>1, TableSame DEF IInv, Stages
<1>3. Requests' /\ Packed'
  BY <1>1, QueriesSame, PackedSame DEF IInv
<1>4. CommittedWhenAdded'
  BY <1>1, TableSame DEF CommittedWhenAdded
<1>5. SentInOrder' /\ Read' /\ Answered'
  BY <1>1 DEF IInv, SentInOrder, Read, Answered
<1> QED  BY <1>2, <1>3, <1>4, <1>5 DEF IInv

LEMMA StartIInv ==
  ASSUME IInv, StartDecommitmentPhase
  PROVE  IInv'
<1>1. UNCHANGED <<table, n_elements_in_package, leaves, added, committed, sent>>
      /\ stage = "committed" /\ stage' = "started"
  BY DEF StartDecommitmentPhase, UNCHANGED_opening
<1>2. table' \in Tables /\ n_elements_in_package' = PackageSize' /\ stage' \in Stages
  BY <1>1, TableSame DEF IInv, Stages
<1>3. Packed'
  BY <1>1, PackedSame DEF IInv
<1>4. CommittedWhenAdded'
  BY <1>1, TableSame DEF IInv, CommittedWhenAdded
<1>5. SentInOrder' /\ Read' /\ Answered'
  BY <1>1 DEF IInv, SentInOrder, Read, Answered
<1>6. Requests'
  <2>1. data_queries' \in SUBSET Cells /\ integrity_queries' \in SUBSET Cells
    BY DEF StartDecommitmentPhase, QuerySets
  <2>2. /\ all_query_rows' = AllQueryRows(data_queries', integrity_queries')
        /\ missing_element_queries' = InOrder(ElementsRequiredToComputeHashes(all_query_rows'))
        /\ rows_to_request' = RowsToRequest(all_query_rows', missing_element_queries')
    BY DEF StartDecommitmentPhase
  <2>3. Required' = ElementsRequiredToComputeHashes(all_query_rows')
    BY <1>1 DEF Required, ElementsRequiredToComputeHashes, GetElementsInPackages, PackageOf,
                ElementsOf
  <2> QED  BY <1>1, <2>1, <2>2, <2>3, TableSame DEF Requests
<1> QED  BY <1>2, <1>3, <1>4, <1>5, <1>6 DEF IInv

LEMMA DecommitIInv ==
  ASSUME IInv, Decommit
  PROVE  IInv' /\ stage' = "sent"
<1>1. UNCHANGED <<table, n_elements_in_package, leaves, added, committed>> /\ UNCHANGED_queries
      /\ stage = "started"
  BY DEF Decommit
<1>2. Transmitted = CellsInOrder(ToTransmit) /\ SentRight(CellMessages \o ElementMessages)
  BY MessagesRight DEF IInv
<1>3. stage' = "sent" /\ sent' = CellMessages \o ElementMessages
  BY <1>2 DEF Decommit, ToTransmit
<1>4. table' \in Tables /\ n_elements_in_package' = PackageSize' /\ stage' \in Stages
  BY <1>1, <1>3, TableSame DEF IInv, Stages
<1>5. Requests' /\ Packed'
  BY <1>1, QueriesSame, PackedSame DEF IInv
<1>6. CommittedWhenAdded'
  BY <1>1, <1>3, TableSame DEF IInv, CommittedWhenAdded
<1>7. SentInOrder'
  <2>1. PICK s : s = CellMessages \o ElementMessages
    OBVIOUS
  <2>2. SentRight(s)'
    BY <1>1, <1>2, <2>1, QueriesSame DEF IInv
  <2> QED  BY <1>3, <2>1, <2>2 DEF SentInOrder, SentRight
<1>8. Read' /\ Answered'
  BY <1>3 DEF Read, Answered
<1> QED  BY <1>3, <1>4, <1>5, <1>6, <1>7, <1>8 DEF IInv

LEMMA QueryIInv ==
  ASSUME IInv, Query
  PROVE  IInv'
<1>1. UNCHANGED <<table, n_elements_in_package, leaves, added, committed, sent>>
      /\ UNCHANGED_queries /\ stage = "sent" /\ stage' = "queried"
  BY DEF Query
<1>2. table' \in Tables /\ n_elements_in_package' = PackageSize' /\ stage' \in Stages
  BY <1>1, TableSame DEF IInv, Stages
<1>3. Requests' /\ Packed' /\ CellsInOrder(ToTransmit)' = CellsInOrder(ToTransmit)
  BY <1>1, QueriesSame, PackedSame DEF IInv
<1>4. CommittedWhenAdded'
  BY <1>1, TableSame DEF IInv, CommittedWhenAdded
<1>5. SentInOrder'
  BY <1>1, QueriesSame DEF IInv, SentInOrder, SentRight
<1>6. ElementsToBeTransmitted(AllQueryRows(data_queries, integrity_queries), integrity_queries)
        = ToTransmit
  BY DEF IInv, Requests, ToTransmit
<1>7. asked' = CellsInOrder(ToTransmit) /\ DOMAIN rows_data' = integrity_queries \cup ToTransmit
  BY <1>6 DEF Query
<1>8. integrity_queries \cup ToTransmit = all_query_rows \X Columns
  BY RequestFacts DEF IInv, ToTransmit, ElementsToBeTransmitted
<1>9. DOMAIN rows_data' = all_query_rows' \X Columns'
  BY <1>1, <1>7, <1>8, TableSame DEF UNCHANGED_queries
<1>10. Read' /\ Answered'
  BY <1>1, <1>3, <1>7, <1>9 DEF Read, Answered
<1> QED  BY <1>2, <1>3, <1>4, <1>5, <1>10 DEF IInv

LEMMA VerifyIInv ==
  ASSUME IInv, VerifyDecommitment
  PROVE  IInv'
<1>1. UNCHANGED <<table, n_elements_in_package, leaves, added, committed, sent, damage, rows_data>>
      /\ UNCHANGED_queries /\ stage = "queried" /\ stage' \in {"accepted", "rejected"}
  BY DEF VerifyDecommitment
<1>2. table' \in Tables /\ n_elements_in_package' = PackageSize' /\ stage' \in Stages
  BY <1>1, TableSame DEF IInv, Stages
<1>3. Requests' /\ Packed'
  BY <1>1, QueriesSame, PackedSame DEF IInv
<1>4. CommittedWhenAdded'
  BY <1>1, TableSame DEF IInv, CommittedWhenAdded
<1>5. SentInOrder'
  BY <1>1, QueriesSame DEF IInv, SentInOrder, SentRight
<1>6. Read'
  <2>1. DOMAIN rows_data = all_query_rows \X Columns
    BY <1>1 DEF IInv, Read
  <2> QED  BY <1>1, <2>1, TableSame DEF Read, UNCHANGED_queries
<1>7. \A p \in Packages : leaves[p] = Package(p)
  <2>1. added = Segments /\ Packed
    BY <1>1 DEF IInv, CommittedWhenAdded
  <2>2. Segments # {}
    <3>1. table.n_segments \in Nat \ {0}
      BY TableNumbers DEF IInv, Shaped
    <3>2. 0 \in Segments
      BY <3>1 DEF Segments
    <3> QED  BY <3>2
  <2>3. RowsInSegment % n_elements_in_package = 0
    BY <2>1, <2>2 DEF Packed
  <2>4. TAKE p \in Packages
  <2>5. p \div PackagesInSegment \in Segments
    BY <2>3, PackageInSegment DEF IInv
  <2> QED  BY <2>1, <2>2, <2>5 DEF Packed
<1>8. PICK answer \in InnerAnswers(PackAndHashMap(WithMissing(IntegrityMap,
                        ElementsRequiredToComputeHashes(DOMAIN IntegrityMap)))) :
        stage' = IF answer THEN "accepted" ELSE "rejected"
  BY DEF VerifyDecommitment
<1>9. /\ table \in Tables /\ n_elements_in_package = PackageSize /\ Requests /\ SentRight(sent)
      /\ DOMAIN rows_data = all_query_rows \X Columns /\ asked = CellsInOrder(ToTransmit)
  BY <1>1 DEF IInv, SentInOrder, Read
<1>10. /\ answer => ClaimsRight
       /\ ClaimsRight /\ damage.kind = "none" => answer
       /\ answer \in BOOLEAN
  BY <1>7, <1>8, <1>9, AnswerRight
<1>11. ClaimsRight' = ClaimsRight /\ damage' = damage
  BY <1>1 DEF ClaimsRight
<1>12. Answered'
  BY <1>8, <1>10, <1>11 DEF Answered
<1> QED  BY <1>2, <1>3, <1>4, <1>5, <1>6, <1>12 DEF IInv

LEMMA NothingHappens ==
  ASSUME IInv, UNCHANGED vars
  PROVE  IInv'
<1>1. /\ UNCHANGED <<table, n_elements_in_package, leaves, added, committed, sent, damage,
                     rows_data, asked, stage>>
      /\ UNCHANGED_queries
  BY DEF vars, UNCHANGED_queries
<1>2. table' \in Tables /\ n_elements_in_package' = PackageSize' /\ stage' \in Stages
  BY <1>1, TableSame DEF IInv, Stages
<1>3. Requests' /\ Packed' /\ CellsInOrder(ToTransmit)' = CellsInOrder(ToTransmit)
  BY <1>1, QueriesSame, PackedSame DEF IInv
<1>4. CommittedWhenAdded'
  BY <1>1, TableSame DEF IInv, CommittedWhenAdded
<1>5. SentInOrder'
  BY <1>1, QueriesSame DEF IInv, SentInOrder, SentRight
<1>6. Read'
  <2>1. all_query_rows' = all_query_rows /\ Columns' = Columns
    BY <1>1, TableSame DEF UNCHANGED_queries
  <2> QED  BY <1>1, <1>3, <2>1 DEF IInv, Read
<1>7. Answered'
  BY <1>1 DEF IInv, Answered, ClaimsRight
<1> QED  BY <1>2, <1>3, <1>4, <1>5, <1>6, <1>7 DEF IInv

-----------------------------------------------------------------------------
(* The theorems. *)

\* The invariant of the table commitment: the leaves handed over are the packages of the
\* segments added, the queries and what is sent for them are in step, what the verifier
\* asked for is what was sent, and its answer is right about the cells it holds
\* (table_prover_impl.inl, packaging_commitment_scheme.cc, table_verifier_impl.inl).
THEOREM TableInvariant == Spec => []IInv
<1>1. IInv /\ [Next]_vars => IInv'
  <2> SUFFICES ASSUME IInv, [Next]_vars  PROVE IInv'
    OBVIOUS
  <2>1. CASE \E s \in Segments : AddSegment(s)
    BY <2>1, AddSegmentIInv
  <2>2. CASE Commit
    BY <2>2, CommitIInv
  <2>3. CASE StartDecommitmentPhase
    BY <2>3, StartIInv
  <2>4. CASE Decommit
    BY <2>4, DecommitIInv
  <2>5. CASE Query
    BY <2>5, QueryIInv
  <2>6. CASE VerifyDecommitment
    BY <2>6, VerifyIInv
  <2>7. CASE UNCHANGED vars
    BY <2>7, NothingHappens
  <2> QED  BY <2>1, <2>2, <2>3, <2>4, <2>5, <2>6, <2>7 DEF Next
<1> QED  BY <1>1, InitIInv, PTL DEF Spec

\* The row of cells a message stands for, by where it is in the decommitment.
LEMMA MessageCells ==
  ASSUME table \in Tables, n_elements_in_package = PackageSize, Requests, SentRight(sent)
  PROVE  LET C == CellsInOrder(ToTransmit)
             M == missing_element_queries
         IN  /\ IsListing(C, ToTransmit) /\ IsInOrder(M, Required)
             /\ DOMAIN sent = 1 .. Len(C) + Len(M)
             /\ \A k \in 1 .. Len(C) : CellsOf(sent[k].place) = {C[k]}
             /\ \A k \in 1 .. Len(M) : CellsOf(sent[Len(C) + k].place) = {M[k]} \X Columns
<1>1. PICK C : C = CellsInOrder(ToTransmit)
  OBVIOUS
<1>2. PICK M : M = missing_element_queries
  OBVIOUS
<1>3. IsListing(C, ToTransmit) /\ IsInOrder(M, Required) /\ ToTransmit \in SUBSET Cells
  BY <1>1, <1>2, RequestFacts
<1>4. Len(C) \in Nat /\ Len(M) \in Nat
  BY <1>3 DEF IsListing, IsInOrder, IsSeq
<1>5. DOMAIN sent = 1 .. Len(C) + Len(M)
  <2>1. PICK m : m = Len(C) + Len(M)
    OBVIOUS
  <2>2. sent = [k \in 1 .. m |-> sent[k]]
    BY <1>1, <1>2, <2>1 DEF SentRight, IsSeq
  <2> QED  BY <2>1, <2>2
<1>6. ASSUME NEW k \in 1 .. Len(C)
      PROVE  CellsOf(sent[k].place) = {C[k]}
  <2>1. sent[k] = [place |-> C[k], value |-> C[k]]
    BY <1>1, <1>2 DEF SentRight
  <2>2. C[k] \in Cells
    BY <1>3 DEF IsListing
  <2>3. Len(C[k]) = 2
    <3>1. PICK a, b : C[k] = <<a, b>>
      BY <2>2 DEF Cells
    <3> QED  BY <3>1
  <2> QED  BY <2>1, <2>3 DEF CellsOf
<1>7. ASSUME NEW k \in 1 .. Len(M)
      PROVE  CellsOf(sent[Len(C) + k].place) = {M[k]} \X Columns
  <2>1. sent[Len(C) + k] = [place |-> <<M[k]>>, value |-> RowElement(M[k])]
    BY <1>1, <1>2 DEF SentRight
  <2>2. Len(<<M[k]>>) = 1 /\ <<M[k]>>[1] = M[k]
    OBVIOUS
  <2> QED  BY <2>1, <2>2 DEF CellsOf
<1> QED  BY <1>1, <1>2, <1>3, <1>5, <1>6, <1>7

\* Types: packages, rows and cells named anywhere are of the table
\* (table_prover_impl.inl:68-162, packer_hasher.cc).
THEOREM TypeCorrect == Spec => []TypeOK
<1>1. IInv => TypeOK
  <2> SUFFICES ASSUME IInv  PROVE TypeOK
    OBVIOUS
  <2>1. table \in Tables /\ n_elements_in_package = PackageSize /\ Requests
    BY DEF IInv
  <2>2. DOMAIN leaves = Packages /\ added \subseteq Segments
    BY DEF IInv, Packed
  <2>3. n_elements_in_package \in 1 .. table.n_rows
    BY <2>1, TableNumbers DEF Shaped
  <2>4. /\ all_query_rows \in SUBSET Rows /\ Required \in SUBSET Rows
        /\ IsInOrder(InOrder(all_query_rows), all_query_rows)
        /\ IsInOrder(missing_element_queries, Required)
    BY <2>1, RequestFacts
  <2>5. missing_element_queries \in Seq(Rows) /\ InOrder(all_query_rows) \in Seq(Rows)
    BY <2>4, SeqOver DEF IsInOrder
  <2>6. rows_to_request \in Seq(Rows)
    BY <2>1, <2>5 DEF Requests, RowsToRequest
  <2>7. ASSUME NEW k \in DOMAIN sent
        PROVE  CellsOf(sent[k].place) \subseteq Cells
    <3>1. SentRight(sent)
      <4>1. sent # <<>>
        BY <2>7
      <4> QED  BY <4>1 DEF IInv, SentInOrder
    <3>2. PICK C : C = CellsInOrder(ToTransmit)
      OBVIOUS
    <3>3. PICK M : M = missing_element_queries
      OBVIOUS
    <3>4. /\ IsListing(C, ToTransmit) /\ IsInOrder(M, Required)
          /\ DOMAIN sent = 1 .. Len(C) + Len(M)
          /\ \A i \in 1 .. Len(C) : CellsOf(sent[i].place) = {C[i]}
          /\ \A i \in 1 .. Len(M) : CellsOf(sent[Len(C) + i].place) = {M[i]} \X Columns
      BY <2>1, <3>1, <3>2, <3>3, MessageCells
    <3>5. Len(C) \in Nat /\ Len(M) \in Nat /\ ToTransmit \in SUBSET Cells
      BY <2>1, <3>4, RequestFacts DEF IsListing, IsInOrder, IsSeq
    <3>6. CASE k \in 1 .. Len(C)
      BY <3>4, <3>5, <3>6 DEF IsListing
    <3>7. CASE k \notin 1 .. Len(C)
      <4>1. PICK i \in 1 .. Len(M) : k = Len(C) + i
        <5>1. k \in Nat /\ k - Len(C) \in 1 .. Len(M) /\ k = Len(C) + (k - Len(C))
          BY <3>4, <3>5, <3>7
        <5> QED  BY <5>1
      <4>2. M[i] \in Rows
        BY <2>4, <3>4 DEF IsInOrder
      <4> QED  BY <3>4, <4>1, <4>2 DEF Cells
    <3> QED  BY <3>6, <3>7
  <2> QED  BY <2>1, <2>2, <2>3, <2>4, <2>5, <2>6, <2>7 DEF TypeOK, Requests
<1> QED  BY <1>1, TableInvariant, PTL

\* Every cell of a package that is opened reaches the verifier exactly once: alone, within a
\* row sent to complete a package, or computed by the verifier; and the prover's two
\* enumerations of the cells to transmit agree, which Decommit asserts
\* (table_prover_impl.inl:142-158, table_impl_details.cc).
THEOREM CellsOnce == Spec => []EachCellOnce
<1>1. IInv => EachCellOnce
  <2> SUFFICES ASSUME IInv  PROVE EachCellOnce
    OBVIOUS
  <2>1. stage # "transmits another cell"
    BY DEF IInv, Stages
  <2> SUFFICES ASSUME stage \in {"sent", "queried", "accepted", "rejected"}
               PROVE  LET places == [k \in DOMAIN sent |-> CellsOf(sent[k].place)] IN
                      /\ \A i, j \in DOMAIN sent : i # j => places[i] \cap places[j] = {}
                      /\ UNION {places[k] : k \in DOMAIN sent} =
                           (GetElementsInPackages({PackageOf(row) : row \in all_query_rows})
                              \X Columns) \ integrity_queries
    BY <2>1 DEF EachCellOnce
  <2>2. table \in Tables /\ n_elements_in_package = PackageSize /\ Requests /\ SentRight(sent)
    BY DEF IInv, SentInOrder
  <2>3. PICK C : C = CellsInOrder(ToTransmit)
    OBVIOUS
  <2>4. PICK M : M = missing_element_queries
    OBVIOUS
  <2>5. /\ IsListing(C, ToTransmit) /\ IsInOrder(M, Required)
        /\ DOMAIN sent = 1 .. Len(C) + Len(M)
        /\ \A i \in 1 .. Len(C) : CellsOf(sent[i].place) = {C[i]}
        /\ \A i \in 1 .. Len(M) : CellsOf(sent[Len(C) + i].place) = {M[i]} \X Columns
    BY <2>2, <2>3, <2>4, MessageCells
  <2>6. Len(C) \in Nat /\ Len(M) \in Nat
    BY <2>5 DEF IsListing, IsInOrder, IsSeq
  <2>7. PICK P : P = [k \in DOMAIN sent |-> CellsOf(sent[k].place)]
    OBVIOUS
  <2>8. /\ \A i \in 1 .. Len(C) : P[i] = {C[i]} /\ i \in DOMAIN sent
        /\ \A i \in 1 .. Len(M) :
             P[Len(C) + i] = {M[i]} \X Columns /\ Len(C) + i \in DOMAIN sent
    <3>1. \A k \in DOMAIN sent : P[k] = CellsOf(sent[k].place)
      BY <2>7
    <3>2. \A i \in 1 .. Len(C) : i \in DOMAIN sent
      BY <2>5, <2>6
    <3>3. \A i \in 1 .. Len(M) : Len(C) + i \in DOMAIN sent
      BY <2>5, <2>6
    <3> QED  BY <2>5, <3>1, <3>2, <3>3
  <2>9. \A k \in DOMAIN sent : k \in 1 .. Len(C) \/ \E i \in 1 .. Len(M) : k = Len(C) + i
    <3>1. TAKE k \in DOMAIN sent
    <3>2. k \in Nat /\ (k \in 1 .. Len(C) \/ k - Len(C) \in 1 .. Len(M))
          /\ k = Len(C) + (k - Len(C))
      BY <2>5, <2>6
    <3> QED  BY <3>2
  <2>10. /\ all_query_rows \in SUBSET Rows /\ Required \in SUBSET Nat
         /\ integrity_queries \in SUBSET (all_query_rows \X Columns)
         /\ all_query_rows \cap Required = {}
         /\ all_query_rows \cup Required
              = GetElementsInPackages({PackageOf(row) : row \in all_query_rows})
    BY <2>2, RequestFacts, RowsAndRequired DEF Required
  <2>11. ToTransmit = (all_query_rows \X Columns) \ integrity_queries
    BY DEF ToTransmit, ElementsToBeTransmitted
  <2>12. \A i \in 1 .. Len(C) : C[i] \in ToTransmit
    BY <2>5 DEF IsListing
  <2>13. \A i \in 1 .. Len(M) : M[i] \in Required
    BY <2>5 DEF IsInOrder
  <2>14. ASSUME NEW i \in 1 .. Len(C), NEW j \in 1 .. Len(M)
         PROVE  {C[i]} \cap ({M[j]} \X Columns) = {}
    <3>1. C[i] \in all_query_rows \X Columns
      BY <2>11, <2>12
    <3>2. C[i] \notin {M[j]} \X Columns
      BY <2>10, <2>13, <3>1
    <3> QED  BY <3>2
  <2>15. ASSUME NEW i \in 1 .. Len(C), NEW j \in 1 .. Len(C), i # j
         PROVE  {C[i]} \cap {C[j]} = {}
    BY <2>5, <2>15 DEF IsListing
  <2>16. ASSUME NEW i \in 1 .. Len(M), NEW j \in 1 .. Len(M), i # j
         PROVE  ({M[i]} \X Columns) \cap ({M[j]} \X Columns) = {}
    <3>1. M[i] # M[j]
      <4>1. M[i] \in Nat /\ M[j] \in Nat
        BY <2>10, <2>13
      <4>2. i < j \/ j < i
        BY <2>6, <2>16
      <4>3. M[i] < M[j] \/ M[j] < M[i]
        BY <2>5, <4>2 DEF IsInOrder
      <4> QED  BY <4>1, <4>3
    <3> QED  BY <3>1
  <2>17. ASSUME NEW k \in DOMAIN sent, NEW l \in DOMAIN sent, k # l
         PROVE  P[k] \cap P[l] = {}
    <3>1. CASE k \in 1 .. Len(C) /\ l \in 1 .. Len(C)
      BY <2>8, <2>15, <2>17, <3>1
    <3>2. CASE k \in 1 .. Len(C) /\ l \notin 1 .. Len(C)
      <4>1. PICK j \in 1 .. Len(M) : l = Len(C) + j
        BY <2>9, <3>2
      <4> QED  BY <2>8, <2>14, <3>2, <4>1
    <3>3. CASE k \notin 1 .. Len(C) /\ l \in 1 .. Len(C)
      <4>1. PICK j \in 1 .. Len(M) : k = Len(C) + j
        BY <2>9, <3>3
      <4>2. P[k] = {M[j]} \X Columns /\ P[l] = {C[l]}
        BY <2>8, <3>3, <4>1
      <4>3. {C[l]} \cap ({M[j]} \X Columns) = {}
        BY <2>14, <3>3
      <4> QED  BY <4>2, <4>3
    <3>4. CASE k \notin 1 .. Len(C) /\ l \notin 1 .. Len(C)
      <4>1. PICK i \in 1 .. Len(M) : k = Len(C) + i
        BY <2>9, <3>4
      <4>2. PICK j \in 1 .. Len(M) : l = Len(C) + j
        BY <2>9, <3>4
      <4>3. i # j
        BY <2>17, <4>1, <4>2
      <4> QED  BY <2>8, <2>16, <4>1, <4>2, <4>3
    <3> QED  BY <3>1, <3>2, <3>3, <3>4
  <2>18. PICK U : U = UNION {P[k] : k \in DOMAIN sent}
    OBVIOUS
  <2>19. PICK all : all = all_query_rows \cup Required
    OBVIOUS
  <2>20. ASSUME NEW cell \in U
         PROVE  cell \in (all \X Columns) \ integrity_queries
    <3>1. PICK k \in DOMAIN sent : cell \in P[k]
      BY <2>18
    <3>2. CASE k \in 1 .. Len(C)
      <4>1. cell \in ToTransmit
        BY <2>8, <2>12, <3>1, <3>2
      <4> QED  BY <2>11, <2>19, <4>1
    <3>3. CASE k \notin 1 .. Len(C)
      <4>1. PICK i \in 1 .. Len(M) : k = Len(C) + i
        BY <2>9, <3>3
      <4>2. cell \in {M[i]} \X Columns
        BY <2>8, <3>1, <4>1
      <4>3. cell \in Required \X Columns
        BY <2>13, <4>2
      <4> QED  BY <2>10, <2>19, <4>3
    <3> QED  BY <3>2, <3>3
  <2>21. ASSUME NEW cell \in (all \X Columns) \ integrity_queries
         PROVE  cell \in U
    <3>1. CASE cell \in all_query_rows \X Columns
      <4>1. cell \in ToTransmit
        BY <2>11, <2>21, <3>1
      <4>2. PICK k \in 1 .. Len(C) : C[k] = cell
        BY <2>5, <4>1 DEF IsListing
      <4>3. cell \in P[k] /\ k \in DOMAIN sent
        BY <2>8, <4>2
      <4> QED  BY <2>18, <4>3
    <3>2. CASE cell \notin all_query_rows \X Columns
      <4>1. PICK row \in Required, col \in Columns : cell = <<row, col>>
        BY <2>19, <2>21, <3>2
      <4>2. PICK i \in 1 .. Len(M) : M[i] = row
        BY <2>5, <4>1 DEF IsInOrder
      <4>3. cell \in P[Len(C) + i] /\ Len(C) + i \in DOMAIN sent
        BY <2>8, <4>1, <4>2
      <4> QED  BY <2>18, <4>3
    <3> QED  BY <3>1, <3>2
  <2>22. U = (all \X Columns) \ integrity_queries
    BY <2>20, <2>21
  <2> QED  BY <2>7, <2>10, <2>17, <2>18, <2>19, <2>22
<1> QED  BY <1>1, TableInvariant, PTL

LEMMA CommitsOnce ==
  ASSUME IInv, Commit
  PROVE  Promise!Commit
<1>1. /\ table \in Tables /\ table' = table /\ n_elements_in_package' = n_elements_in_package
      /\ stage = "committing" /\ stage' = "committed" /\ committed' = TRUE
  BY DEF IInv, Commit
<1>2. committed = FALSE
  BY <1>1 DEF IInv, CommittedWhenAdded
<1>3. Committed = Nothing
  BY <1>2 DEF Committed
<1>4. Opened = Nothing /\ Opened' = Nothing
  BY <1>1 DEF Opened
<1>5. Cells' = (0 .. table.n_rows - 1) \X (0 .. table.n_columns - 1)
  BY <1>1 DEF Cells, Rows, Columns, n_columns
<1>6. Committed' = [cell \in (0 .. table.n_rows - 1) \X (0 .. table.n_columns - 1) |-> cell]
  BY <1>1, <1>5 DEF Committed
<1> HIDE DEF Committed, Opened
<1> QED  BY <1>1, <1>3, <1>4, <1>6 DEF Promise!Commit

LEMMA OpensRightly ==
  ASSUME IInv, VerifyDecommitment
  PROVE  Promise!Open
<1>1. /\ stage = "queried" /\ stage' \in {"accepted", "rejected"}
      /\ UNCHANGED <<table, n_elements_in_package, committed, damage, rows_data>>
  BY DEF VerifyDecommitment
<1>2. /\ table \in Tables /\ n_elements_in_package = PackageSize /\ Requests
      /\ committed = TRUE /\ DOMAIN rows_data = all_query_rows \X Columns
  BY <1>1 DEF IInv, CommittedWhenAdded, Read
<1>3. /\ stage' = "accepted" => ClaimsRight
      /\ damage.kind = "none" /\ ClaimsRight => stage' = "accepted"
  <2>1. Answered' /\ ClaimsRight' = ClaimsRight /\ damage' = damage
    BY <1>1, VerifyIInv DEF IInv, ClaimsRight
  <2> QED  BY <1>1, <2>1 DEF Answered
<1>4. PICK o : o = [claims |-> rows_data, intact |-> damage.kind = "none",
                    accepted |-> stage' = "accepted"]
  OBVIOUS
<1>5. Opened = Nothing /\ Opened' = o
  BY <1>1, <1>4 DEF Opened
<1>6. o # Nothing
  BY <1>4 DEF Nothing
<1>7. o.claims = rows_data /\ (o.intact <=> damage.kind = "none")
      /\ (o.accepted <=> stage' = "accepted")
  BY <1>4
<1>8. Committed = [cell \in Cells |-> cell] /\ Committed' = Committed
  BY <1>1, <1>2, TableSame DEF Committed
<1>9. Committed # Nothing
  <2>1. table.n_rows \in Nat \ {0} /\ n_columns \in Nat \ {0}
    BY <1>2, TableNumbers DEF Shaped
  <2>2. <<0, 0>> \in Cells
    BY <2>1 DEF Cells, Rows, Columns
  <2>3. <<0, 0>> \in DOMAIN Committed /\ <<0, 0>> \notin DOMAIN <<>>
    BY <1>8, <2>2
  <2> QED  BY <2>3 DEF Nothing
<1>10. DOMAIN rows_data \subseteq Cells
  BY <1>2, RequestFacts DEF Cells
<1>11. Promise!Agree(o.claims, Committed) <=> ClaimsRight
  BY <1>7, <1>8, <1>10 DEF Promise!Agree, ClaimsRight
<1>12. Promise!Sound(o) /\ Promise!Complete(o)
  BY <1>3, <1>7, <1>11 DEF Promise!Sound, Promise!Complete
<1>13. DOMAIN o.claims \subseteq DOMAIN Committed
  BY <1>7, <1>8, <1>10
<1> HIDE DEF Committed, Opened
<1> QED  BY <1>5, <1>6, <1>8, <1>9, <1>12, <1>13 DEF Promise!Open

LEMMA PromiseStep ==
  ASSUME IInv, [Next]_vars
  PROVE  [Promise!Next]_<<Committed, Opened>>
<1>1. CASE Commit
  BY <1>1, CommitsOnce DEF Promise!Next
<1>2. CASE VerifyDecommitment
  BY <1>2, OpensRightly DEF Promise!Next
<1>3. CASE \/ \E s \in Segments : AddSegment(s)
           \/ StartDecommitmentPhase \/ Decommit \/ Query
  <2>1. UNCHANGED <<table, n_elements_in_package, committed>>
    BY <1>3 DEF AddSegment, StartDecommitmentPhase, Decommit, Query
  <2>2. stage \notin {"accepted", "rejected"} /\ stage' \notin {"accepted", "rejected"}
    BY <1>3 DEF AddSegment, StartDecommitmentPhase, Decommit, Query
  <2>3. Committed' = Committed
    BY <2>1, TableSame DEF Committed
  <2>4. Opened' = Opened
    BY <2>2 DEF Opened
  <2> QED  BY <2>3, <2>4
<1>4. CASE UNCHANGED vars
  <2>1. Committed' = Committed
    BY <1>4, TableSame DEF vars, Committed
  <2>2. Opened' = Opened
    BY <1>4 DEF vars, Opened
  <2> QED  BY <2>1, <2>2
<1> QED  BY <1>1, <1>2, <1>3, <1>4 DEF Next

\* The table over the packages is a vector commitment of its cells: what the verifier
\* accepts, received or computed by itself, is what was committed, whatever happened to the
\* decommitment on its way, and an intact decommitment of right cells is accepted
\* (table_prover.h, table_verifier.h, packaging_commitment_scheme.cc).
THEOREM TableBinds == Spec => ImplementsVectorCommitment
<1>1. Init => Promise!Init
  BY DEF Init, Promise!Init, Committed, Opened
<1>2. IInv /\ [Next]_vars => [Promise!Next]_<<Committed, Opened>>
  BY PromiseStep
<1> QED  BY <1>1, <1>2, TableInvariant, PTL DEF Spec, ImplementsVectorCommitment, Promise!Spec
=============================================================================
