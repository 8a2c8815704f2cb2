----------------------------- MODULE Polynomials -----------------------------
(***************************************************************************)
(* algebra/domains, algebra/fft, algebra/lde, algebra/polynomials.inl, and *)
(* composition_polynomial/breaker.* and periodic_column.*: polynomials     *)
(* over cosets of subgroups of the base field.                             *)
(*                                                                         *)
(* A vector is a sequence: the element the code calls i is i + 1 here.     *)
(***************************************************************************)
EXTENDS ExtensionField, BitReversal

\* Exponents of the powers of two that are words.
Exponents == 0 .. WordBits - 1

Pow2[k \in Exponents] == IF k = 0 THEN 1 ELSE 2 * Pow2[k - 1]

SafeLog2(n) == CHOOSE k \in Exponents : Pow2[k] = n

\* A vector of size n, filled once: TLC would evaluate a bare function at each use.
Vector(n, element(_)) == <<>> \o [k \in 1 .. n |-> element(k - 1)]

BatchPow(base, exponents) ==
  Vector(Len(exponents), LAMBDA i : Pow(base, exponents[i + 1]))

BitReversed(vector) ==
  LET n == Len(vector) IN Vector(n, LAMBDA i : vector[BitReverse(i, SafeLog2(n)) + 1])

-----------------------------------------------------------------------------
(* Cosets. *)

CosetOf(size, offset) ==
  [size |-> size, generator |-> GetSubGroupGenerator(size), offset |-> offset]

CosetAt(coset, idx) == MontgomeryMul(coset.offset, BasePow(coset.generator, idx))

CosetOffsets(trace_size, n_cosets) ==
  Vector(n_cosets, LAMBDA i :
    MontgomeryMul(BaseGenerator, BasePow(GetSubGroupGenerator(trace_size * n_cosets), i)))

ElementByIndex(trace_size, n_cosets, coset_index, group_index) ==
  MontgomeryMul(CosetOffsets(trace_size, n_cosets)[coset_index + 1],
    BasePow(GetSubGroupGenerator(trace_size), BitReverse(group_index, SafeLog2(trace_size))))

-----------------------------------------------------------------------------
(* Fourier transforms.  A layer combines the elements distance apart in     *)
(* blocks of 2 * distance; x(i, j) is the factor at place j of block i.     *)

\* Place idx of src is in block i; its partner is distance further on, or before.
BlockStart(idx, distance) == idx - (idx % (2 * distance))

IfftLayer(src, distance, x_inverse(_, _)) ==
  Vector(Len(src), LAMBDA idx :
    IF idx % (2 * distance) < distance THEN Add(src[idx + 1], src[idx + distance + 1])
    ELSE Scale(x_inverse(BlockStart(idx, distance), idx % distance),
               Sub(src[idx - distance + 1], src[idx + 1])))

\* The right elements times their factors are computed first.
Butterflies(src, x_times_right, distance) ==
  Vector(Len(src), LAMBDA idx :
    IF idx % (2 * distance) < distance
    THEN Add(src[idx + 1], x_times_right[idx + distance + 1])
    ELSE Sub(src[idx - distance + 1], x_times_right[idx + 1]))

FftLayer(src, distance, x(_, _)) ==
  Butterflies(src,
    Vector(Len(src), LAMBDA idx :
      IF idx % (2 * distance) < distance THEN Zero
      ELSE Scale(x(BlockStart(idx, distance), idx % distance), src[idx + 1])),
    distance)

\* The layers 0 .. n_layers - 1, one after the other.
Layers(src, n_layers, layer(_, _)) ==
  LET after[k \in 0 .. n_layers] == IF k = 0 THEN src ELSE layer(after[k - 1], k - 1)
  IN  after[n_layers]

\* Mutant: as if all layers were asked for.
ReverseToNaturalWholeShift(log_n, n_layers, layer_i) == n_layers - 1 - layer_i

BlockBits(log_n, n_layers, layer_i) == log_n - 1 - layer_i

\* With the inverses of the coset's offset and generator.
IfftReverseToNatural(src, offset_inverse, generator_inverse, n_layers) ==
  Layers(src, n_layers, LAMBDA vector, layer_i :
    IfftLayer(vector, Pow2[layer_i], LAMBDA i, j :
      MontgomeryMul(BasePow(offset_inverse, Pow2[layer_i]),
        BasePow(generator_inverse,
          Pow2[layer_i] * BitReverse(i \div (2 * Pow2[layer_i]),
                                     BlockBits(SafeLog2(Len(src)), n_layers, layer_i))))))

IfftNaturalToReverse(src, offset_inverse, generator_inverse) ==
  Layers(src, SafeLog2(Len(src)), LAMBDA vector, layer_i :
    IfftLayer(vector, Len(src) \div (2 * Pow2[layer_i]), LAMBDA i, j :
      MontgomeryMul(BasePow(offset_inverse, Pow2[layer_i]),
                    BasePow(generator_inverse, Pow2[layer_i] * j))))

FftReverseToNatural(src, generator, offset) ==
  Layers(src, SafeLog2(Len(src)), LAMBDA vector, layer_i :
    LET stride == Len(src) \div (2 * Pow2[layer_i]) IN
    FftLayer(vector, Pow2[layer_i], LAMBDA i, j :
      MontgomeryMul(BasePow(offset, stride), BasePow(generator, stride * j))))

FftNaturalToReverse(src, generator, offset) ==
  Layers(src, SafeLog2(Len(src)), LAMBDA vector, layer_i :
    LET distance == Len(src) \div (2 * Pow2[layer_i]) IN
    FftLayer(vector, distance, LAMBDA i, j :
      MontgomeryMul(BasePow(offset, distance),
        BasePow(generator, BitReverse(i \div (2 * distance), SafeLog2(Len(src)) - 1)))))

Fft(src, generator, offset, eval_in_natural_order) ==
  IF eval_in_natural_order THEN FftReverseToNatural(src, generator, offset)
  ELSE FftNaturalToReverse(src, generator, offset)

Ifft(src, coset, eval_in_natural_order) ==
  IF Len(src) = 1 THEN src
  ELSE IF eval_in_natural_order
  THEN IfftNaturalToReverse(src, BaseInverse(coset.offset), BaseInverse(coset.generator))
  ELSE IfftReverseToNatural(src, BaseInverse(coset.offset), BaseInverse(coset.generator),
                            SafeLog2(Len(src)))

-----------------------------------------------------------------------------
(* LdeManager: a polynomial is its normalised IFFT, bit-reversed if the      *)
(* evaluation is in natural order.                                           *)

ScaledBy(x, vector) == Vector(Len(vector), LAMBDA i : Scale(x, vector[i + 1]))

AddEvaluation(evaluation, coset, eval_in_natural_order) ==
  ScaledBy(BaseInverse(FromUint(Len(evaluation))), Ifft(evaluation, coset, eval_in_natural_order))

EvalOnCoset(polynomial, coset, coset_offset, eval_in_natural_order) ==
  IF coset.size = 1 THEN polynomial
  ELSE Fft(polynomial, coset.generator, coset_offset, eval_in_natural_order)

NaturalOrderCoefficients(polynomial, eval_in_natural_order) ==
  IF eval_in_natural_order THEN BitReversed(polynomial) ELSE polynomial

HornerEval(x, coefs) ==
  LET res[left \in 0 .. Len(coefs), acc \in Elements] ==
        IF left = 0 THEN acc ELSE res[left - 1, Add(Mul(acc, x), coefs[left])]
  IN  res[Len(coefs), Zero]

EvalAtPoint(polynomial, eval_in_natural_order, point) ==
  HornerEval(point, NaturalOrderCoefficients(polynomial, eval_in_natural_order))

\* -1 of the zero polynomial.
DegreeOf(coefs) ==
  LET degree[k \in 0 .. Len(coefs)] ==
        IF k = 0 THEN -1 ELSE IF coefs[k] # Zero THEN k - 1 ELSE degree[k - 1]
  IN  degree[Len(coefs)]

GetEvaluationDegree(polynomial, eval_in_natural_order) ==
  DegreeOf(NaturalOrderCoefficients(polynomial, eval_in_natural_order))

-----------------------------------------------------------------------------
(* PolynomialBreak: f(x) = h_0(x^n) + x * h_1(x^n) + ... for n breaks. *)

\* Asserted by the constructor and by the transform.
BreakAllowed(coset, log_breaks) == log_breaks \in 1 .. SafeLog2(coset.size)

\* Coefficients of n_breaks polynomials, interleaved and without their correction.
Deinterleaved(dst, n_breaks, correction_factor) ==
  Vector(n_breaks, LAMBDA break_idx :
    Vector(Len(dst) \div n_breaks, LAMBDA i :
      Mul(dst[i * n_breaks + break_idx + 1], correction_factor)))

Break(evaluation, coset, log_breaks) ==
  Deinterleaved(
    IfftReverseToNatural(evaluation, BaseInverse(coset.offset), BaseInverse(coset.generator),
                         log_breaks),
    Pow2[log_breaks], InverseOf(Uint(Pow2[log_breaks])))

EvalFromSamples(samples, point) == HornerEval(point, samples)

-----------------------------------------------------------------------------
(* PeriodicColumn: a polynomial in x^n_copies. *)

PeriodicColumn(values, trace_size) ==
  [n_copies |-> trace_size \div Len(values), period |-> Len(values),
   lde |-> AddEvaluation(values, CosetOf(Len(values), BaseOne), TRUE)]

PeriodicAtPoint(column, x) == EvalAtPoint(column.lde, TRUE, Pow(x, column.n_copies))

\* One period of the values on the coset; the iterator goes round it.
PeriodicOnCoset(column, start_point) ==
  EvalOnCoset(column.lde, CosetOf(column.period, BaseOne),
              BasePow(start_point, column.n_copies), TRUE)
=============================================================================
