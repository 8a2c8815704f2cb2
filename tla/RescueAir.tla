------------------------------ MODULE RescueAir ------------------------------
(***************************************************************************)
(* air/rescue/rescue_air.*: a chain of Rescue hashes as an execution trace *)
(* and as constraints on its rows.  The sizes are parameters; in the code  *)
(* a word is 4 elements and a hash 10 rounds, so that a batch of 3 hashes  *)
(* takes 32 rows.                                                          *)
(***************************************************************************)
EXTENDS Polynomials

CONSTANTS
  kWordSize, kNumRounds,
  k_mds_matrix, k_mds_matrix_inverse,    \* rows of elements
  k_round_constants                      \* 2 * kNumRounds + 1 vectors

kHashesPerBatch == 3
kStateSize == 3 * kWordSize
kBatchHeight == kHashesPerBatch * kNumRounds + 2
kNumConstraints == 13 * kWordSize
kCubeInverseExponent == (2 * kModulus - 1) \div 3

BaseSumOf(n, term(_)) ==
  LET sum[k \in 1 .. n + 1, acc \in Words] ==
        IF k > n THEN acc ELSE sum[k + 1, BaseAdd(acc, term(k))]
  IN  sum[1, BaseZero]

ASSUME RescueAssumption ==
  /\ kWordSize \in Nat \ {0} /\ kNumRounds \in Nat \ {0}
  /\ kModulus % 3 = 2
  /\ \E k \in Exponents : kBatchHeight = Pow2[k]
  /\ Len(k_round_constants) = 2 * kNumRounds + 1
  /\ \A i, j \in 1 .. kStateSize :
       BaseSumOf(kStateSize, LAMBDA k :
         MontgomeryMul(k_mds_matrix[i][k], k_mds_matrix_inverse[k][j])) =
       (IF i = j THEN BaseOne ELSE BaseZero)

-----------------------------------------------------------------------------
(* The hash. *)

ThirdRoot(x) == BasePow(x, kCubeInverseExponent)
Cube(x) == MontgomeryMul(MontgomeryMul(x, x), x)

InnerProduct(a, b) == BaseSumOf(Len(a), LAMBDA i : MontgomeryMul(a[i], b[i]))

PlusConstants(state, index) ==
  Vector(kStateSize, LAMBDA i : BaseAdd(state[i + 1], k_round_constants[index + 1][i + 1]))

Sbox(x, is_first_half) == IF is_first_half THEN ThirdRoot(x) ELSE Cube(x)

LinearTransformation(matrix, vector) ==
  Vector(Len(vector), LAMBDA i : InnerProduct(matrix[i + 1], vector))

HalfRound(state, round_index, is_first_half) ==
  PlusConstants(
    LinearTransformation(k_mds_matrix,
      Vector(kStateSize, LAMBDA i : Sbox(state[i + 1], is_first_half))),
    2 * round_index + (IF is_first_half THEN 1 ELSE 2))

\* Traces that are wrong in one state are there for the verifier to notice: alteration is the
\* hash, after how many of its rounds (-1 for its input) and the column; NoAlteration in the code.
NoAlteration == [hash_index |-> 0, round |-> 0, column |-> 1]

Altered(alteration, hash_index, round, state) ==
  IF alteration.hash_index = hash_index /\ alteration.round = round
  THEN [state EXCEPT ![alteration.column] = BaseAdd(@, BaseOne)]
  ELSE state

\* A hash so far: the states midway through each round, and the last one.
AfterHalfRound(hash, k, hash_index, alteration) ==
  [input |-> hash.input,
   middles |-> IF k % 2 = 0 THEN hash.middles ELSE Append(hash.middles, hash.last),
   last |-> IF k % 2 = 0 THEN HalfRound(hash.last, k \div 2, TRUE)
            ELSE Altered(alteration, hash_index, (k + 1) \div 2,
                         HalfRound(hash.last, k \div 2, FALSE))]

RoundsOf(input, hash_index, alteration) ==
  LET half[k \in 0 .. 2 * kNumRounds] ==
        IF k = 0
        THEN [input |-> input, middles |-> <<>>,
              last |-> Altered(alteration, hash_index, 0, PlusConstants(input, 0))]
        ELSE AfterHalfRound(half[k - 1], k - 1, hash_index, alteration)
  IN  half[2 * kNumRounds]

ZeroWord == Vector(kWordSize, LAMBDA i : BaseZero)
LeftWord(state) == SubSeq(state, 1, kWordSize)

Hash(left, right, hash_index, alteration) ==
  RoundsOf(Altered(alteration, hash_index, -1, left \o right \o ZeroWord), hash_index, alteration)

\* The third root by repeated multiplication, on exponents as sets of the bits that are
\* one: a square moves them up, a product of numbers without a common bit joins them.
MovedUp(bits, n) == {bit + n : bit \in bits}

ThirdRootBits ==
  LET temp01 == MovedUp({0}, 1)
      temp04 == MovedUp(temp01, 2) \cup temp01
      temp09 == MovedUp(temp04, 4) \cup temp04
      temp18 == MovedUp(temp09, 17 - 9) \cup temp09
      temp28 == MovedUp(temp18, 26 - 18) \cup temp09 \cup {0}
      temp40 == MovedUp(temp28, 39 - 28) \cup temp09
      temp43 == MovedUp(temp40, 2) \cup temp01
  IN  MovedUp(temp43, 67 - 43) \cup temp28

-----------------------------------------------------------------------------
(* The statement and its trace.  A witness is the words w_0 .. w_n of a chain of n *)
(* hashes; witness[i + 1] is w_i.                                                   *)

StatementAllowed(chain_length) == chain_length > 0 /\ chain_length % kHashesPerBatch = 0

TraceLength(chain_length) ==
  LET rows == (chain_length \div kHashesPerBatch) * kBatchHeight IN
  Pow2[CHOOSE k \in Exponents : Pow2[k] >= rows /\ (k = 0 \/ Pow2[k - 1] < rows)]

PublicInputFromPrivateInput(witness) ==
  LET left[i \in 1 .. Len(witness)] ==
        IF i = 1 THEN witness[1]
        ELSE LeftWord(Hash(left[i - 1], witness[i], i - 1, NoAlteration).last)
  IN  left[Len(witness)]

\* The hashes of GetTrace, which go on with zeros when the witness ends.
WithHash(hashes, i, witness, alteration) ==
  Append(hashes,
    Hash(IF i = 1 THEN witness[1] ELSE LeftWord(hashes[i - 1].last),
         IF i < Len(witness) THEN witness[i + 1] ELSE ZeroWord, i, alteration))

TraceHashes(witness, n_hashes, alteration) ==
  LET hashes[i \in 0 .. n_hashes] ==
        IF i = 0 THEN <<>> ELSE WithHash(hashes[i - 1], i, witness, alteration)
  IN  hashes[n_hashes]

\* The rows of batches: its input, the middles, and what its last hash ends in.
RowsOf(hashes) ==
  FlattenSeq(Vector(Len(hashes), LAMBDA i :
    (IF i % kHashesPerBatch = 0 THEN <<hashes[i + 1].input>> ELSE <<>>) \o
    hashes[i + 1].middles \o
    (IF i % kHashesPerBatch = kHashesPerBatch - 1 THEN <<hashes[i + 1].last>> ELSE <<>>)))

TraceRows(witness, trace_length, alteration) ==
  RowsOf(TraceHashes(witness, kHashesPerBatch * (trace_length \div kBatchHeight), alteration))

OutputRow(chain_length) == kBatchHeight * ((chain_length \div 3) - 1) + kBatchHeight - 1

ColumnsOf(rows) ==
  Vector(kStateSize, LAMBDA i : Vector(Len(rows), LAMBDA row : rows[row + 1][i + 1]))

-----------------------------------------------------------------------------
(* The composition polynomial. *)

RescueMask ==
  Vector(2 * kStateSize, LAMBDA i : <<i \div kStateSize, i % kStateSize>>)

\* The constants in the order the three hashes of a batch use them.  Where one hash
\* follows another, those before the first round are added to those after the last one.
EvenRoundConstants(i) ==
  Vector(kBatchHeight, LAMBDA row :
    LET round == row % kNumRounds
        constant(index) == k_round_constants[index + 1][i + 1]
    IN  IF row > kHashesPerBatch * kNumRounds THEN BaseZero
        ELSE IF row = 0 THEN constant(0)
        ELSE IF round # 0 THEN constant(2 * round)
        ELSE IF row = kHashesPerBatch * kNumRounds THEN constant(2 * kNumRounds)
        ELSE IF i < kWordSize THEN BaseAdd(constant(2 * kNumRounds), constant(0))
        ELSE constant(0))

OddRoundConstants(i) ==
  Vector(kBatchHeight, LAMBDA row :
    IF row >= kHashesPerBatch * kNumRounds THEN BaseZero
    ELSE k_round_constants[2 * (row % kNumRounds) + 2][i + 1])

EmbeddedVector(values) == Vector(Len(values), LAMBDA i : Embed(values[i + 1]))

BuildPeriodicColumns(trace_length) ==
  Vector(2 * kStateSize, LAMBDA i :
    PeriodicColumn(
      EmbeddedVector(IF i < kStateSize THEN EvenRoundConstants(i)
                     ELSE OddRoundConstants(i - kStateSize)), trace_length))

CompositionDegreeBound(trace_length) == 4 * trace_length

\* Mutant: the constraints on the rows where a hash starts in a batch are adjusted as if
\* they held on one row of it.
ExponentsForOneRow(trace_length) ==
  LET n_batches == trace_length \div kBatchHeight
      bound == CompositionDegreeBound(trace_length)
  IN  <<n_batches,
        trace_length,
        bound - trace_length + n_batches,
        bound + 2 - 3 * trace_length + n_batches,
        bound + 2 * (1 - trace_length) - 3 * n_batches,
        bound + 2 * (1 - trace_length) - 5 * n_batches,
        bound + 2 - 3 * trace_length + n_batches,
        bound - 1 - trace_length + n_batches,
        bound - trace_length + 1>>

PointExponents(trace_length) ==
  LET n_batches == trace_length \div kBatchHeight
      bound == CompositionDegreeBound(trace_length)
  IN  <<n_batches,
        trace_length,
        bound - trace_length + n_batches,
        bound + 2 - 3 * trace_length + n_batches,
        bound + 2 * (1 - trace_length) - 3 * n_batches,
        bound + 2 * (1 - trace_length) - 5 * n_batches,
        bound + 2 - 3 * trace_length + 2 * n_batches,
        bound - 1 - trace_length + n_batches,
        bound - trace_length + 1>>

GenExponents(trace_length, chain_length) ==
  LET row_of_batch(row) == (row * trace_length) \div kBatchHeight IN
  <<row_of_batch(kBatchHeight - 2), row_of_batch(kBatchHeight - 1),
    row_of_batch(kNumRounds), row_of_batch(2 * kNumRounds),
    trace_length - 1, OutputRow(chain_length)>>

RescuePolynomial(trace_length, chain_length, output, random_coefficients) ==
  [air |-> "rescue", output |-> output,
   trace_generator |-> GetSubGroupGenerator(trace_length), coset_size |-> trace_length,
   periodic_columns |-> BuildPeriodicColumns(trace_length),
   coefficients |-> random_coefficients, point_exponents |-> PointExponents(trace_length),
   shifts |-> BatchPow(Embed(GetSubGroupGenerator(trace_length)),
                       GenExponents(trace_length, chain_length))]

-----------------------------------------------------------------------------
(* The constraints, at a point given by its neighbors (two rows), the periodic columns *)
(* and the powers.  With H for kBatchHeight and R for kNumRounds:                      *)

\* domain0 .. domain8 of the code, the polynomials that vanish on the rows i % H = 0; on
\* all rows; on i % H = 0, 3R, 3R + 1; on these and R, 2R; on i % H = R, 2R; on 3R; on
\* 3R + 1; on the last row; on the output row.
DomainsWith(point_powers, shifts, ends, inner_hashes) ==
  <<Sub(point_powers[2], One), Sub(point_powers[3], One), ends, Mul(ends, inner_hashes),
    inner_hashes, Sub(point_powers[2], shifts[1]), Sub(point_powers[2], shifts[2]),
    Sub(point_powers[1], shifts[5]), Sub(point_powers[1], shifts[6])>>

Domains(point_powers, shifts) ==
  LET batch == point_powers[2] IN
  DomainsWith(point_powers, shifts,
    Mul(Mul(Sub(batch, One), Sub(batch, shifts[1])), Sub(batch, shifts[2])),
    Mul(Sub(batch, shifts[3]), Sub(batch, shifts[4])))

\* The domains of denominators, as numbered by the code.
Denominators == <<0, 1, 4, 5, 6, 8>>

ProductOfDomains(domains, ks) == ProductOf(Len(ks), LAMBDA i : domains[ks[i] + 1])

\* The inverses, from that of the product; asserts that the point is in none of them.
InverseDomains(domains, mult_inverse) ==
  [k \in Range(Denominators) |->
     Mul(mult_inverse, ProductOfDomains(domains, SelectSeq(Denominators, LAMBDA d : d # k)))]

ExtCube(x) == Mul(Mul(x, x), x)

LinearPermutation(matrix, vector) ==
  Vector(kStateSize, LAMBDA i :
    SumOf(kStateSize, LAMBDA j : Scale(matrix[i + 1][j], vector[j])))

StateAfterLinPerm(neighbors, periodic_columns) ==
  LET permuted(x_cube) == LinearPermutation(k_mds_matrix, x_cube)
      plus(state) == Vector(kStateSize, LAMBDA i : Add(periodic_columns[i + 1], state[i + 1]))
  IN  plus(permuted(Vector(kStateSize, LAMBDA j : ExtCube(neighbors[j + 1]))))

StateBeforeNextLinPermCubed(neighbors, periodic_columns) ==
  LET cubed(state) == Vector(kStateSize, LAMBDA i : ExtCube(state[i + 1])) IN
  cubed(LinearPermutation(k_mds_matrix_inverse,
    Vector(kStateSize, LAMBDA j :
      Sub(neighbors[kStateSize + j + 1], periodic_columns[kStateSize + j + 1]))))

\* Constraints on the elements first .. first + n - 1 of the state, for the power that
\* adjusts their degree and what their sum is multiplied with.
Group(first, n, value(_), power, factor) ==
  [values |-> Vector(n, LAMBDA i : value(first + i + 1)), power |-> power, factor |-> factor]

\* The first hash of a batch has capacity zero, and its first half round leads to the
\* second row.
FirstRowGroups(neighbors, periodic_columns, before, inverse) ==
  <<Group(2 * kWordSize, kWordSize, LAMBDA i : neighbors[i], 4, inverse[0]),
    Group(0, kStateSize, LAMBDA i : Sub(Add(neighbors[i], periodic_columns[i]), before[i]), 5,
          inverse[0])>>

\* From the middle of a round to that of the next; where one hash follows another in a
\* batch, only the word it hands on.
ConsistencyGroups(after, before, domains, inverse) ==
  LET follows(i) == Sub(after[i], before[i]) IN
  <<Group(0, kWordSize, follows, 6, Mul(domains[3], inverse[1])),
    Group(kWordSize, kStateSize - kWordSize, follows, 7, Mul(domains[4], inverse[1]))>>

\* Mutant: the capacity of the second and third hashes is free.
FreeCapacity(periodic_columns, before, inverse) ==
  Group(kStateSize - kWordSize, kWordSize, LAMBDA i : Zero, 8, inverse[4])

\* The second and third hashes of a batch have capacity zero.
CapacityGroup(periodic_columns, before, inverse) ==
  Group(kStateSize - kWordSize, kWordSize, LAMBDA i : Sub(periodic_columns[i], before[i]), 8,
        inverse[4])

\* The last half round of a batch; the word one batch hands to the next, except at the last
\* row; the output.
BoundaryGroups(neighbors, after, domains, inverse, output) ==
  LET next(i) == neighbors[kStateSize + i] IN
  <<Group(0, kStateSize, LAMBDA i : Sub(after[i], next(i)), 5, inverse[5]),
    Group(0, kWordSize, LAMBDA i : Sub(neighbors[i], next(i)), 9, Mul(domains[8], inverse[6])),
    Group(0, kWordSize, LAMBDA i : Sub(neighbors[i], Embed(output[i])), 10, inverse[8])>>

GroupsFrom(neighbors, periodic_columns, after, before, domains, inverse, output) ==
  FirstRowGroups(neighbors, periodic_columns, before, inverse) \o
  ConsistencyGroups(after, before, domains, inverse) \o
  <<CapacityGroup(periodic_columns, before, inverse)>> \o
  BoundaryGroups(neighbors, after, domains, inverse, output)

ConstraintGroups(neighbors, periodic_columns, domains, output) ==
  GroupsFrom(neighbors, periodic_columns,
    StateAfterLinPerm(neighbors, periodic_columns),
    StateBeforeNextLinPermCubed(neighbors, periodic_columns),
    domains, InverseDomains(domains, InverseOf(ProductOfDomains(domains, Denominators))), output)

\* The constraints before those of group g.
ConstraintsBefore(groups, g) ==
  FoldLeft(LAMBDA n, group : n + Len(group.values), 0, SubSeq(groups, 1, g - 1))

\* Each constraint takes the next two coefficients, in the order of the groups.
WeightedSum(groups, coefficients, point_powers) ==
  LET deg_adj_rand_coef(index, power) ==
        Add(coefficients[2 * index + 1], Mul(coefficients[2 * index + 2], point_powers[power]))
      sum(group, first) ==
        SumOf(Len(group.values), LAMBDA i :
          Mul(group.values[i], deg_adj_rand_coef(first + i - 1, group.power)))
  IN  SumOf(Len(groups), LAMBDA g :
        Mul(sum(groups[g], ConstraintsBefore(groups, g)), groups[g].factor))

RescueConstraintsEval(polynomial, neighbors, periodic_columns, point_powers) ==
  WeightedSum(ConstraintGroups(neighbors, periodic_columns,
                               Domains(point_powers, polynomial.shifts), polynomial.output),
              polynomial.coefficients, point_powers)
=============================================================================
