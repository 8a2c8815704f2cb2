------------------------ MODULE CompositionPolynomial ------------------------
(***************************************************************************)
(* composition_polynomial/composition_polynomial.* and neighbors.*: the    *)
(* composition polynomial of either AIR.  What the threads that share the  *)
(* evaluation do to each other is module CompositionOracle's.              *)
(***************************************************************************)
EXTENDS RescueAir, BoundaryAir

\* Asserted by the constructor.
PolynomialAllowed(polynomial, num_random_coefficients) ==
  /\ Len(polynomial.coefficients) = num_random_coefficients
  /\ \E k \in Exponents : Pow2[k] = polynomial.coset_size
  /\ BasePow(polynomial.trace_generator, polynomial.coset_size) = BaseOne

\* ConstraintsEval of the AIR the polynomial is made of.
ConstraintsEval(polynomial, neighbors, composition_neighbors, periodic_columns, point_powers) ==
  IF polynomial.air = "rescue"
  THEN RescueConstraintsEval(polynomial, neighbors, periodic_columns, point_powers)
  ELSE BoundaryConstraintsEval(polynomial, neighbors, composition_neighbors, point_powers)

\* The point, then its powers.
PointPowers(polynomial, point) == <<point>> \o BatchPow(point, polynomial.point_exponents)

EvalCompositionAtPoint(polynomial, point, neighbors, composition_neighbors) ==
  ConstraintsEval(polynomial, neighbors, composition_neighbors,
    Vector(Len(polynomial.periodic_columns), LAMBDA i :
      PeriodicAtPoint(polynomial.periodic_columns[i + 1], point)),
    PointPowers(polynomial, point))

\* The mask's values around row idx, of the columns of a trace on a coset.
NeighborsOf(mask, columns, idx) ==
  Vector(Len(mask), LAMBDA i :
    LET column == columns[mask[i + 1][2] + 1] IN
    column[((idx + mask[i + 1][1]) % Len(column)) + 1])

\* The mask, and the columns of the two traces, the second ones numbered after the first.
Neighbors(mask, columns, composition_columns) ==
  LET width == Len(columns)
      composition_mask == SelectSeq(mask, LAMBDA item : item[2] >= width)
  IN  [mask |-> SelectSeq(mask, LAMBDA item : item[2] < width), columns |-> columns,
       composition_mask |-> Vector(Len(composition_mask), LAMBDA i :
         <<composition_mask[i + 1][1], composition_mask[i + 1][2] - width>>),
       composition_columns |-> composition_columns]

\* x, x^k -> gx, (gx)^k.
ShiftedPowers(gen_powers, point_powers) ==
  Vector(Len(point_powers), LAMBDA i : Mul(point_powers[i + 1], gen_powers[i + 1]))

\* Tasks of task_size points compute the powers of their first point and step on from there.
PowersOnCoset(polynomial, coset_offset, task_size, gen_powers) ==
  LET first_powers(task) ==
        PointPowers(polynomial,
          Embed(MontgomeryMul(coset_offset,
            BasePow(BasePow(polynomial.trace_generator, task_size), task))))
  IN  FoldLeft(LAMBDA powers, idx :
                 Append(powers, IF idx % task_size = 0 THEN first_powers(idx \div task_size)
                                ELSE ShiftedPowers(gen_powers, Last(powers))),
               <<>>, [k \in 1 .. polynomial.coset_size |-> k - 1])

ValuesOnCoset(polynomial, neighbors, powers, periodic) ==
  LET periodic_vals(idx) == Vector(Len(periodic), LAMBDA i :
        periodic[i + 1][(idx % Len(periodic[i + 1])) + 1])
  IN  Vector(polynomial.coset_size, LAMBDA idx :
        ConstraintsEval(polynomial, NeighborsOf(neighbors.mask, neighbors.columns, idx),
          NeighborsOf(neighbors.composition_mask, neighbors.composition_columns, idx),
          periodic_vals(idx), powers[idx + 1]))

EvalOnCosetNaturalOrder(polynomial, coset_offset, neighbors, task_size) ==
  ValuesOnCoset(polynomial, neighbors,
    PowersOnCoset(polynomial, coset_offset, task_size,
                  PointPowers(polynomial, Embed(polynomial.trace_generator))),
    Vector(Len(polynomial.periodic_columns), LAMBDA i :
      PeriodicOnCoset(polynomial.periodic_columns[i + 1], coset_offset)))

EvalOnCosetBitReversedOutput(polynomial, coset_offset, neighbors, task_size) ==
  BitReversed(EvalOnCosetNaturalOrder(polynomial, coset_offset, neighbors, task_size))
=============================================================================
