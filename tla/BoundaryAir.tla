----------------------------- MODULE BoundaryAir -----------------------------
(***************************************************************************)
(* air/boundary/boundary_air.h: that columns have given values at given    *)
(* points, as the constraints (column(x) - point_y) / (x - point_x).       *)
(***************************************************************************)
EXTENDS Polynomials

\* Mutant: a condition takes the place of one with the same point.
ReplacedByPoint(boundary_conditions) ==
  LET place(constraints, k) ==
        LET condition == boundary_conditions[k]
            it == SelectInSeq(constraints, LAMBDA c : c.point_x = condition.point_x)
            constraint ==
              [coeff_idx |-> k - 1, column_index |-> condition.column_index,
               point_x |-> condition.point_x, point_y |-> condition.point_y]
        IN  IF it = 0 THEN Append(constraints, constraint)
            ELSE [constraints EXCEPT ![it] = constraint]
  IN  FoldLeftDomain(place, <<>>, boundary_conditions)

\* Before the first constraint with the same point, or at the end.
WithConstraint(constraints, condition, coeff_idx) ==
  LET it == SelectInSeq(constraints, LAMBDA c : c.point_x = condition.point_x)
  IN  InsertAt(constraints, IF it = 0 THEN Len(constraints) + 1 ELSE it,
        [coeff_idx |-> coeff_idx, column_index |-> condition.column_index,
         point_x |-> condition.point_x, point_y |-> condition.point_y])

\* The conditions with the same point next to each other, the last of them first; each
\* keeps its place in the list as the index of its coefficient.
GroupedByPoint(boundary_conditions) ==
  LET grouped[k \in 0 .. Len(boundary_conditions)] ==
        IF k = 0 THEN <<>> ELSE WithConstraint(grouped[k - 1], boundary_conditions[k], k - 1)
  IN  grouped[Len(boundary_conditions)]

\* The mask touches each column once, in the current row.
BoundaryMask(n_columns) == Vector(n_columns, LAMBDA i : <<0, i>>)

BoundaryPolynomial(trace_length, constraints, random_coefficients) ==
  [air |-> "boundary", constraints |-> constraints,
   trace_generator |-> GetSubGroupGenerator(trace_length), coset_size |-> trace_length,
   periodic_columns |-> <<>>, coefficients |-> random_coefficients, point_exponents |-> <<>>,
   shifts |-> <<>>]

\* Mutant: the constraints of the last point are left out.
WithoutLast(outer_sum, quotient) == outer_sum

\* The loop adds a quotient when it meets another point; this is what follows the loop.
AfterLast(outer_sum, quotient) == Add(outer_sum, quotient)

ConstraintValue(c, coefficients, values) ==
  Mul(coefficients[c.coeff_idx + 1], Sub(values[c.column_index + 1], c.point_y))

\* One division for each run of constraints with the same point.
BoundaryConstraintsEval(polynomial, neighbors, composition_neighbors, point_powers) ==
  LET values == neighbors \o composition_neighbors
      quotient(sums) == Div(sums.inner, Sub(point_powers[1], sums.prev_x))
      inner(c) == ConstraintValue(c, polynomial.coefficients, values)
      add(sums, c) ==
        IF sums.prev_x = c.point_x THEN [sums EXCEPT !.inner = Add(@, inner(c))]
        ELSE [prev_x |-> c.point_x, inner |-> inner(c),
              outer |-> Add(sums.outer, quotient(sums))]
      after_loop(sums) == AfterLast(sums.outer, quotient(sums))
  IN  after_loop(FoldLeft(add,
        [prev_x |-> polynomial.constraints[1].point_x, inner |-> Zero, outer |-> Zero],
        polynomial.constraints))
=============================================================================
