-------------------------------- MODULE Oods --------------------------------
(***************************************************************************)
(* stark/oods.cc, and the evaluations of stark/composition_oracle.cc and   *)
(* stark/committed_trace.inl it stands on: the composition polynomial is   *)
(* sampled at one point outside of the domains, and both sides turn what   *)
(* was sampled into boundary constraints.  How rows are opened one by one  *)
(* is module CompositionOracle's.                                          *)
(*                                                                         *)
(* A trace is here the polynomials of its columns, with the order that its *)
(* evaluations are in.                                                     *)
(***************************************************************************)
EXTENDS CompositionPolynomial

\* A trace from the evaluations of its columns on a coset.
TraceOf(columns, coset, eval_in_natural_order) ==
  [columns |-> Vector(Len(columns), LAMBDA i :
                 AddEvaluation(columns[i + 1], coset, eval_in_natural_order)),
   natural |-> eval_in_natural_order]

NoTrace == [columns |-> <<>>, natural |-> TRUE]

\* The offset of the coset that is in place coset_index of a table.
TableCosetOffset(trace_size, n_cosets, coset_index) ==
  CosetOffsets(trace_size, n_cosets)[BitReverse(coset_index, SafeLog2(n_cosets)) + 1]

\* The columns on a coset in natural order.
NaturalColumnsOnCoset(trace, trace_size, coset_offset) ==
  Vector(Len(trace.columns), LAMBDA i :
    LET evaluation == EvalOnCoset(trace.columns[i + 1], CosetOf(trace_size, BaseOne),
                                  coset_offset, trace.natural)
    IN  IF trace.natural THEN evaluation ELSE BitReversed(evaluation))

TableOfCosets(cosets, n_columns, trace_size) ==
  Vector(n_columns, LAMBDA i :
    Vector(Len(cosets) * trace_size, LAMBDA row :
      cosets[(row \div trace_size) + 1][i + 1]
            [BitReverse(row % trace_size, SafeLog2(trace_size)) + 1]))

\* The committed table, by columns: coset after coset, each in bit-reversed order.
CommittedTable(trace, trace_size, n_cosets) ==
  TableOfCosets(
    Vector(n_cosets, LAMBDA coset_index :
      NaturalColumnsOnCoset(trace, trace_size,
                            TableCosetOffset(trace_size, n_cosets, coset_index))),
    Len(trace.columns), trace_size)

EvalMaskAtPoint(trace, mask, trace_gen, point) ==
  Vector(Len(mask), LAMBDA i :
    EvalAtPoint(trace.columns[mask[i + 1][2] + 1], trace.natural,
                Mul(point, Embed(BasePow(trace_gen, mask[i + 1][1])))))

\* Asserted by EvalComposition.
EvalCompositionAllowed(n_segments, n_cosets) == n_segments <= n_cosets

EvalOnTableCoset(polynomial, mask, trace, composition_trace, offset, task_size) ==
  EvalOnCosetBitReversedOutput(polynomial, offset,
    Neighbors(mask, NaturalColumnsOnCoset(trace, polynomial.coset_size, offset),
              NaturalColumnsOnCoset(composition_trace, polynomial.coset_size, offset)),
    task_size)

\* On the first n_segments of n_cosets cosets.
EvalComposition(polynomial, mask, trace, composition_trace, n_segments, n_cosets, task_size) ==
  FlattenSeq(Vector(n_segments, LAMBDA coset_index :
    EvalOnTableCoset(polynomial, mask, trace, composition_trace,
                     TableCosetOffset(polynomial.coset_size, n_cosets, coset_index), task_size)))

-----------------------------------------------------------------------------

\* The columns of the broken composition polynomial are on a coset of their own.
BreakDomain(domain, n_breaks) ==
  CosetOf(domain.size \div n_breaks, BasePow(BaseGenerator, n_breaks))

BreakCompositionPolynomial(composition_evaluation, n_breaks, domain) ==
  TraceOf(Break(composition_evaluation, domain, SafeLog2(n_breaks)),
          BreakDomain(domain, n_breaks), FALSE)

BoundaryCondition(column_index, point, value) ==
  [column_index |-> column_index, point_x |-> point, point_y |-> value]

ColumnSeen(mask, i) == \E k \in 1 .. i - 1 : mask[k][2] = mask[i][2]

\* The prover: each value sent, with the condition on its conjugate once for each column,
\* as the trace is over the base field; then the broken values.
ProverConditions(mask, width, trace_gen, point, values, broken_evaluation) ==
  LET conj_point == GetFrobenius(point)
      of_mask(i) ==
        LET row_element == Embed(BasePow(trace_gen, mask[i][1])) IN
        <<BoundaryCondition(mask[i][2], Mul(point, row_element), values[i])>> \o
        IF ColumnSeen(mask, i) THEN <<>>
        ELSE <<BoundaryCondition(mask[i][2], Mul(conj_point, row_element),
                                 GetFrobenius(values[i]))>>
      point_transformed == Pow(point, Len(broken_evaluation))
  IN  FlattenSeq([i \in DOMAIN mask |-> of_mask(i)]) \o
      Vector(Len(broken_evaluation), LAMBDA i :
        BoundaryCondition(width + i, point_transformed, broken_evaluation[i + 1]))

\* Mutant: the conjugate's condition comes with each value.
ConjugateOfEach(mask, i) == FALSE

ColumnSeenByVerifier(mask, i) == mask[i][2] \in {mask[k][2] : k \in 1 .. i - 1}

\* The verifier: from the values it received, by loops of its own.
VerifierConditions(mask, width, trace_gen, point, values, broken_evaluation) ==
  LET conj_point == GetFrobenius(point)
      of_mask(i) ==
        <<BoundaryCondition(mask[i][2], Mul(point, Embed(BasePow(trace_gen, mask[i][1]))),
                            values[i])>> \o
        IF ColumnSeenByVerifier(mask, i) THEN <<>>
        ELSE <<BoundaryCondition(mask[i][2],
                                 Mul(conj_point, Embed(BasePow(trace_gen, mask[i][1]))),
                                 GetFrobenius(values[i]))>>
      n_breaks == Len(broken_evaluation)
  IN  FlattenSeq([i \in DOMAIN mask |-> of_mask(i)]) \o
      Vector(n_breaks, LAMBDA i :
        BoundaryCondition(width + i, Pow(point, n_breaks), broken_evaluation[i + 1]))
=============================================================================
