-------------------------------- MODULE Stark --------------------------------
(***************************************************************************)
(* stark/stark.cc: one proof of a chain of Rescue hashes, from the         *)
(* parameters and the witness to the verifier's answer, on real elements   *)
(* of a small field.                                                       *)
(*                                                                         *)
(* Both sides keep a transcript of what they sent or received and drew;    *)
(* module Channels is about the bytes below it.  A table is committed to   *)
(* by an entry that determines it (VectorCommitment), and FRI keeps the    *)
(* promise that module Fri checks: it accepts when the first layer has the *)
(* degree it should, and is what the verifier computes from the tables at  *)
(* every query; here every point is one.                                   *)
(*                                                                         *)
(* An author of a proof may have deviated from the prover's code once,     *)
(* in a state of the trace, in the output or in a sampled value; its own   *)
(* assertions do not stop it then.  The verifier is there to notice.       *)
(***************************************************************************)
EXTENDS Oods, Containers

CONSTANTS
  Setups,           \* parameters, witness and deviation of the run; see SetupType
  Challenge(_),     \* the element drawn after a transcript
  Nothing           \* what is not there yet

SetupType ==
  [witness : Seq(Seq(Words)), chain_length : Nat, log_n_cosets : Nat,
   fri_step_list : Seq(Nat), last_layer_degree_bound : Nat, task_size : Nat \ {0},
   deviation : [kind : {"none", "output"}] \cup
               [kind : {"state"}, hash_index : Nat, round : Int, column : Nat \ {0}] \cup
               [kind : {"sampled"}, index : Nat \ {0}]]

\* The numbers of cosets and of rows are powers of two of a word.
ASSUME SetupAssumption ==
  /\ 10 \in Exponents
  /\ \A s \in Setups :
       /\ s \in SetupType
       /\ \E k \in Exponents : Pow2[k] >= (s.chain_length \div kHashesPerBatch) * kBatchHeight

VARIABLES
  setup,
  stage,            \* the call that comes next, on the one side, then on the other
  params,           \* StarkParameters
  statement,        \* public input
  trace,            \* by columns
  transcript, v_transcript,
  polynomial, v_polynomial,              \* of the AIR
  original,                              \* trace_ of the prover's oracles
  composition,                           \* composition_trace_
  boundary, v_boundary,                  \* constraints_ of the boundary AIR
  oods_polynomial, v_oods_polynomial,    \* of the boundary AIR
  first_layer                            \* what FRI is given

proverVars == <<trace, transcript, polynomial, original, composition, boundary,
                oods_polynomial, first_layer>>
verifierVars == <<v_transcript, v_polynomial, v_boundary, v_oods_polynomial>>
vars == <<setup, stage, params, statement, proverVars, verifierVars>>

Ends == {"refused", "failed", "rejected", "accepted"}

-----------------------------------------------------------------------------
(* Parameters. *)

TotalStep(fri_step_list) == FoldLeft(+, 0, fri_step_list)

IsPowerOfTwo(n) == \E k \in Exponents : Pow2[k] = n

\* Assertions of FriParameters::FromJson.
FriParametersAllowed(fri_step_list, last_layer_degree_bound, log_trace_length) ==
  /\ fri_step_list # <<>>
  /\ \A i \in DOMAIN fri_step_list :
       fri_step_list[i] <= 10 /\ (fri_step_list[i] > 0 \/ i = 1)
  /\ TotalStep(fri_step_list) <= log_trace_length
  /\ IsPowerOfTwo(last_layer_degree_bound) /\ last_layer_degree_bound \in 1 .. 16384
  /\ SafeLog2(last_layer_degree_bound) + TotalStep(fri_step_list) = log_trace_length

GetFriExpectedDegreeBound ==
  setup.last_layer_degree_bound * Pow2[TotalStep(setup.fri_step_list)]

\* Of StarkParameters::FromJson, before and after it reads those of FRI.
StarkParametersAllowed(trace_length) ==
  /\ setup.log_n_cosets >= SafeLog2(CompositionDegreeBound(trace_length) \div trace_length)
  /\ setup.log_n_cosets <= 10
  /\ FriParametersAllowed(setup.fri_step_list, setup.last_layer_degree_bound,
                          SafeLog2(trace_length))
  /\ GetFriExpectedDegreeBound = trace_length

CompositionEvalDomain == CosetOf(CompositionDegreeBound(params.trace_length), BaseGenerator)

TraceGenerator == GetSubGroupGenerator(params.trace_length)

\* ConstraintsDegreeBound of an oracle whose AIR has this bound.
ConstraintsDegreeBound(bound) == bound \div params.trace_length

-----------------------------------------------------------------------------
(* Transcripts. *)

Sent(t, kind, value) == Append(t, [kind |-> kind, value |-> value])

WithChallenge(t) == Sent(t, "drawn", Challenge(t))

Drawn(t, n) ==
  LET res[k \in 0 .. n] == IF k = 0 THEN t ELSE WithChallenge(res[k - 1]) IN res[n]

LastValues(t, n) == Vector(n, LAMBDA i : t[Len(t) - n + i + 1].value)

IsMessage(entry) == entry.kind \notin {"seed", "drawn"}

\* What was sent or received, in order.
Messages(t) ==
  LET places == InOrder({i \in DOMAIN t : IsMessage(t[i])}) IN
  [k \in DOMAIN places |-> t[places[k]]]

\* The state of a channel when it is made.
InitialHashChainSeed(public_input) == <<[kind |-> "seed", value |-> public_input]>>

\* The verifier's transcript t when it has read n more messages.
Received(t, n) ==
  LET read == Len(Messages(t)) IN t \o SubSeq(Messages(transcript), read + 1, read + n)

-----------------------------------------------------------------------------
(* Composition polynomials. *)

\* CreateCompositionPolynomial, after its draws.
AirPolynomial(t) ==
  RescuePolynomial(params.trace_length, statement.chain_length, statement.output,
                   LastValues(t, 2 * kNumConstraints))

OodsPolynomial(t, constraints) ==
  BoundaryPolynomial(params.trace_length, constraints, LastValues(t, Len(constraints)))

NumBreaks == ConstraintsDegreeBound(CompositionDegreeBound(params.trace_length))

-----------------------------------------------------------------------------
(* The program starts: parameters, statement and trace. *)

Deviates(kind) == setup.deviation.kind = kind
FollowsTheCode == Deviates("none")

Rows(trace_length) ==
  TraceRows(setup.witness, trace_length,
            IF Deviates("state") THEN setup.deviation ELSE NoAlteration)

Incremented(word) == [word EXCEPT ![1] = BaseAdd(@, BaseOne)]

\* The output that is claimed: what the trace that is to be proved gives.
ClaimedOutput(trace_length) ==
  IF Deviates("state") THEN LeftWord(Rows(trace_length)[OutputRow(setup.chain_length) + 1])
  ELSE IF Deviates("output") THEN Incremented(PublicInputFromPrivateInput(setup.witness))
  ELSE PublicInputFromPrivateInput(setup.witness)

Init ==
  /\ setup \in Setups
  /\ stage = "LoadParameters"
  /\ params = Nothing /\ statement = Nothing
  /\ trace = Nothing /\ transcript = <<>> /\ v_transcript = <<>>
  /\ polynomial = Nothing /\ v_polynomial = Nothing
  /\ original = Nothing /\ composition = Nothing
  /\ boundary = Nothing /\ v_boundary = Nothing
  /\ oods_polynomial = Nothing /\ v_oods_polynomial = Nothing
  /\ first_layer = Nothing

At(s) == stage = s

LoadParameters ==
  /\ At("LoadParameters")
  /\ UNCHANGED <<setup, trace, polynomial, original, composition, boundary, oods_polynomial,
                 first_layer, verifierVars>>
  /\ IF StatementAllowed(setup.chain_length) /\ Len(setup.witness) = setup.chain_length + 1
        /\ StarkParametersAllowed(TraceLength(setup.chain_length))
     THEN LET trace_length == TraceLength(setup.chain_length) IN
          /\ params' = [trace_length |-> trace_length, n_cosets |-> Pow2[setup.log_n_cosets]]
          /\ statement' = [chain_length |-> setup.chain_length,
                           output |-> ClaimedOutput(trace_length)]
          /\ transcript' = InitialHashChainSeed(statement')
          /\ stage' = "GetTrace"
     ELSE stage' = "refused" /\ UNCHANGED <<params, statement, transcript>>

\* Asserts that the chain ends in the output, and (ProveStark's ValidateTraceSize) the size.
GetTrace ==
  /\ At("GetTrace")
  /\ UNCHANGED <<setup, params, statement, transcript, polynomial, original, composition,
                 boundary, oods_polynomial, first_layer, verifierVars>>
  /\ trace' = ColumnsOf(Rows(params.trace_length))
  /\ LET output_right ==
           \A k \in 1 .. kWordSize :
             trace'[k][OutputRow(statement.chain_length) + 1] = statement.output[k]
     IN  stage' = IF Len(trace'[1]) = params.trace_length /\ (output_right \/ ~FollowsTheCode)
                  THEN "CommitOnTrace" ELSE "failed"

-----------------------------------------------------------------------------
(* ProveStark. *)

EmbeddedColumns(columns) ==
  Vector(Len(columns), LAMBDA i : EmbeddedVector(columns[i + 1]))

CommitOnTrace ==
  /\ At("CommitOnTrace")
  /\ original' = TraceOf(EmbeddedColumns(trace), CosetOf(params.trace_length, BaseOne), TRUE)
  /\ transcript' =
       Sent(transcript, "root", CommittedTable(original', params.trace_length, params.n_cosets))
  /\ stage' = "CreateCompositionPolynomial"
  /\ UNCHANGED <<setup, params, statement, trace, polynomial, composition, boundary,
                 oods_polynomial, first_layer, verifierVars>>

CreateCompositionPolynomial ==
  /\ At("CreateCompositionPolynomial")
  /\ transcript' = Drawn(transcript, 2 * kNumConstraints)
  /\ polynomial' = AirPolynomial(transcript')
  /\ stage' = IF PolynomialAllowed(polynomial', 2 * kNumConstraints)
              THEN "CommitOnComposition" ELSE "failed"
  /\ UNCHANGED <<setup, params, statement, trace, original, composition, boundary,
                 oods_polynomial, first_layer, verifierVars>>

\* OutOfDomainSamplingProve, up to the commitment to the broken composition polynomial.
CommitOnComposition ==
  /\ At("CommitOnComposition")
  /\ UNCHANGED <<setup, params, statement, trace, polynomial, original, boundary,
                 oods_polynomial, first_layer, verifierVars>>
  /\ IF /\ EvalCompositionAllowed(NumBreaks, params.n_cosets)
        /\ BreakAllowed(CompositionEvalDomain, SafeLog2(NumBreaks))
     THEN /\ composition' =
               BreakCompositionPolynomial(
                 EvalComposition(polynomial, RescueMask, original, NoTrace, NumBreaks,
                                 params.n_cosets, setup.task_size),
                 NumBreaks, CompositionEvalDomain)
          /\ transcript' =
               Sent(transcript, "root",
                    CommittedTable(composition', params.trace_length, params.n_cosets))
          /\ stage' = IF BreakDomain(CompositionEvalDomain, NumBreaks).size = params.trace_length
                      THEN "ProveOods" ELSE "failed"
     ELSE stage' = "failed" /\ UNCHANGED <<composition, transcript>>

\* What is sampled, mask and broken values, as the author of the proof sends them.  One that
\* changes a value makes the two sides of the verifier's equation equal again.
Balanced(values, n, point) ==
  LET trace_side_value == EvalCompositionAtPoint(polynomial, point, SubSeq(values, 1, n), <<>>)
      broken_side_value == EvalFromSamples(SubSeq(values, n + 1, Len(values)), point)
  IN  [values EXCEPT ![n + 1] = Add(@, Sub(trace_side_value, broken_side_value))]

SampledValues(point, values, n) ==
  IF Deviates("sampled")
  THEN Balanced([values EXCEPT ![setup.deviation.index] = Add(@, One)], n, point)
  ELSE values

ProveOods ==
  /\ At("ProveOods")
  /\ LET drawn == Drawn(transcript, 1)
         point == LastValues(drawn, 1)[1]
         n_breaks == Len(composition.columns)
         n == Len(RescueMask)
         send(values) ==
           transcript' = drawn \o Vector(Len(values), LAMBDA i :
                                    [kind |-> "element", value |-> values[i + 1]])
     IN  /\ send(SampledValues(point,
                  EvalMaskAtPoint(original, RescueMask, TraceGenerator, point) \o
                  EvalMaskAtPoint(composition, BoundaryMask(n_breaks), TraceGenerator,
                                  Pow(point, n_breaks)), n))
         /\ boundary' = GroupedByPoint(
              ProverConditions(RescueMask, kStateSize, TraceGenerator, point,
                               SubSeq(LastValues(transcript', n + n_breaks), 1, n),
                               LastValues(transcript', n_breaks)))
  /\ stage' = "CreateOodsPolynomial"
  /\ UNCHANGED <<setup, params, statement, trace, polynomial, original, composition,
                 oods_polynomial, first_layer, verifierVars>>

CreateOodsPolynomial ==
  /\ At("CreateOodsPolynomial")
  /\ transcript' = Drawn(transcript, Len(boundary))
  /\ oods_polynomial' = OodsPolynomial(transcript', boundary)
  /\ stage' = IF PolynomialAllowed(oods_polynomial', Len(boundary))
              THEN "PerformLowDegreeTest" ELSE "failed"
  /\ UNCHANGED <<setup, params, statement, trace, polynomial, original, composition, boundary,
                 first_layer, verifierVars>>

\* The degree bound of the boundary AIR is the trace length.
FriMatchesOracle ==
  GetFriExpectedDegreeBound = ConstraintsDegreeBound(params.trace_length) * params.trace_length

\* A layer is given in bit-reversed order on FRI's domain, whose offset is one.
LowDegree(layer) ==
  GetEvaluationDegree(AddEvaluation(layer, CosetOf(Len(layer), BaseOne), FALSE), FALSE) <
  GetFriExpectedDegreeBound

\* FRI's prover asserts that its last layer has low degree.
PerformLowDegreeTest ==
  /\ At("PerformLowDegreeTest")
  /\ first_layer' =
       EvalComposition(oods_polynomial, BoundaryMask(kStateSize + NumBreaks), original,
                       composition, params.n_cosets, params.n_cosets, setup.task_size)
  /\ stage' = IF FriMatchesOracle /\ (LowDegree(first_layer') \/ ~FollowsTheCode)
              THEN "StartVerifier" ELSE "failed"
  /\ UNCHANGED <<setup, params, statement, trace, transcript, polynomial, original, composition,
                 boundary, oods_polynomial, verifierVars>>

-----------------------------------------------------------------------------
(* The verifier starts, with the same parameters and public input; VerifyStark. *)

StartVerifier ==
  /\ At("StartVerifier")
  /\ v_transcript' = InitialHashChainSeed(statement)
  /\ stage' = "ReadTraceCommitment"
  /\ UNCHANGED <<setup, params, statement, proverVars, v_polynomial, v_boundary,
                 v_oods_polynomial>>

ReadTraceCommitment ==
  /\ At("ReadTraceCommitment")
  /\ v_transcript' = Received(v_transcript, 1)
  /\ stage' = "VerifierCompositionPolynomial"
  /\ UNCHANGED <<setup, params, statement, proverVars, v_polynomial, v_boundary,
                 v_oods_polynomial>>

VerifierCompositionPolynomial ==
  /\ At("VerifierCompositionPolynomial")
  /\ v_transcript' = Drawn(v_transcript, 2 * kNumConstraints)
  /\ v_polynomial' = AirPolynomial(v_transcript')
  /\ stage' = IF PolynomialAllowed(v_polynomial', 2 * kNumConstraints)
              THEN "ReadCompositionCommitment" ELSE "failed"
  /\ UNCHANGED <<setup, params, statement, proverVars, v_boundary, v_oods_polynomial>>

ReadCompositionCommitment ==
  /\ At("ReadCompositionCommitment")
  /\ v_transcript' = Received(v_transcript, 1)
  /\ stage' = "VerifyOods"
  /\ UNCHANGED <<setup, params, statement, proverVars, v_polynomial, v_boundary,
                 v_oods_polynomial>>

VerifyOods ==
  /\ At("VerifyOods")
  /\ LET drawn == Drawn(v_transcript, 1)
         point == LastValues(drawn, 1)[1]
         n == Len(RescueMask)
         received == Received(drawn, n + NumBreaks)
         values == LastValues(received, n + NumBreaks)
         mask_values == SubSeq(values, 1, n)
         broken_evaluation == SubSeq(values, n + 1, n + NumBreaks)
         trace_side_value ==
           EvalCompositionAtPoint(v_polynomial, point, mask_values, <<>>)
     IN  /\ v_transcript' = received
         /\ v_boundary' = GroupedByPoint(
              VerifierConditions(RescueMask, kStateSize, TraceGenerator, point, mask_values,
                                 broken_evaluation))
         /\ stage' = IF trace_side_value = EvalFromSamples(broken_evaluation, point)
                     THEN "VerifierOodsPolynomial" ELSE "rejected"
  /\ UNCHANGED <<setup, params, statement, proverVars, v_polynomial, v_oods_polynomial>>

VerifierOodsPolynomial ==
  /\ At("VerifierOodsPolynomial")
  /\ v_transcript' = Drawn(v_transcript, Len(v_boundary))
  /\ v_oods_polynomial' = OodsPolynomial(v_transcript', v_boundary)
  /\ stage' = IF PolynomialAllowed(v_oods_polynomial', Len(v_boundary))
              THEN "VerifierLowDegreeTest" ELSE "failed"
  /\ UNCHANGED <<setup, params, statement, proverVars, v_polynomial, v_boundary>>

\* oracle.VerifyDecommitment of one query, from the two tables that were committed to.
OracleEvaluation(fri_query) ==
  LET roots == SelectSeq(v_transcript, LAMBDA entry : entry.kind = "root")
      coset_index == fri_query \div params.trace_length
      offset == fri_query % params.trace_length
      row(table) == Vector(Len(table), LAMBDA i : table[i + 1][fri_query + 1])
      point == ElementByIndex(params.trace_length, params.n_cosets,
                              BitReverse(coset_index, SafeLog2(params.n_cosets)), offset)
  IN  EvalCompositionAtPoint(v_oods_polynomial, Embed(point), row(roots[1].value),
                             row(roots[2].value))

VerifierLowDegreeTest ==
  /\ At("VerifierLowDegreeTest")
  /\ stage' = IF ~FriMatchesOracle THEN "failed"
              ELSE IF /\ LowDegree(first_layer)
                      /\ \A fri_query \in 0 .. Len(first_layer) - 1 :
                           first_layer[fri_query + 1] = OracleEvaluation(fri_query)
              THEN "accepted" ELSE "rejected"
  /\ UNCHANGED <<setup, params, statement, proverVars, verifierVars>>

Terminated == stage \in Ends /\ UNCHANGED vars

Next ==
  \/ LoadParameters \/ GetTrace
  \/ CommitOnTrace \/ CreateCompositionPolynomial \/ CommitOnComposition \/ ProveOods
  \/ CreateOodsPolynomial \/ PerformLowDegreeTest
  \/ StartVerifier \/ ReadTraceCommitment \/ VerifierCompositionPolynomial
  \/ ReadCompositionCommitment \/ VerifyOods \/ VerifierOodsPolynomial
  \/ VerifierLowDegreeTest \/ Terminated

Spec == Init /\ [][Next]_vars

-----------------------------------------------------------------------------
(* Properties. *)

\* Type invariant: what there is of a run at each stage.
TypeOK ==
  /\ setup \in Setups /\ setup.deviation.kind \in {"none", "output", "state", "sampled"}
  /\ params # Nothing =>
       /\ IsPowerOfTwo(params.trace_length) /\ params.trace_length % kBatchHeight = 0
       /\ params.n_cosets \in {4, 8, 16, 32, 64, 128, 256, 512, 1024}
  /\ statement # Nothing =>
       Len(statement.output) = kWordSize /\ statement.chain_length % kHashesPerBatch = 0
  /\ trace # Nothing =>
       Len(trace) = kStateSize /\ \A i \in DOMAIN trace : Len(trace[i]) = params.trace_length
  /\ original # Nothing =>
       \A i \in DOMAIN original.columns : Len(original.columns[i]) = params.trace_length
  /\ composition # Nothing =>
       /\ Len(composition.columns) = NumBreaks
       /\ \A i \in DOMAIN composition.columns :
            Len(composition.columns[i]) = params.trace_length
  /\ first_layer # Nothing => Len(first_layer) = params.trace_length * params.n_cosets
  /\ \A c \in {boundary, v_boundary} \ {Nothing} :
       /\ Len(c) = Len(RescueMask) + kStateSize + NumBreaks
       /\ {c[i].coeff_idx : i \in DOMAIN c} = 0 .. Len(c) - 1
       /\ \A i \in DOMAIN c : c[i].column_index < kStateSize + NumBreaks

\* The verifier reads what the prover wrote, in its order, draws what the prover drew, and
\* from this sets up the same two composition polynomials (stark.cc 193-245 and 332-365;
\* oods.cc 30-91 and 93-156).
InStep ==
  /\ IsPrefix(v_transcript, transcript)
  /\ v_polynomial # Nothing => v_polynomial = polynomial
  /\ v_boundary # Nothing => v_boundary = boundary
  /\ v_oods_polynomial # Nothing => v_oods_polynomial = oods_polynomial
  /\ At("accepted") => v_transcript = transcript

\* With parameters that were not refused, no assertion of the prover fails on a right
\* witness, and the verifier accepts (stark.cc 258-289, 367-395): the constraints vanish
\* where they should, the powers, cosets and orders are those that the other side uses.
HonestProofAccepted == FollowsTheCode => stage \notin {"failed", "rejected"}

\* What is accepted is the output of the chain of hashes: whichever state of the trace was
\* altered, or the output, some constraint of rescue_air.inl 4-289 notices.
AcceptedChainIsRight ==
  At("accepted") => statement.output = PublicInputFromPrivateInput(setup.witness)

\* When a proof is accepted, the values sampled out of the domain are those of the committed
\* columns, conjugates and broken columns included (oods.cc 93-156, boundary_air.h 73-117).
AcceptedValuesAreRight ==
  At("accepted") =>
    \A i \in DOMAIN v_boundary :
      LET c == v_boundary[i]
          value == IF c.column_index < kStateSize
                   THEN EvalAtPoint(original.columns[c.column_index + 1], original.natural,
                                    c.point_x)
                   ELSE EvalAtPoint(composition.columns[c.column_index - kStateSize + 1],
                                    composition.natural, c.point_x)
      IN  value = c.point_y

\* Each constraint alone, by the coefficient that adjusts its degree, makes a composition
\* polynomial on a right trace whose degree is the last below the bound: no constraint
\* has room for a quotient of a higher degree (rescue_air.cc 49-59).
DegreesAdjusted ==
  (At("CommitOnComposition") /\ FollowsTheCode /\ params.trace_length <= 16) =>
    \A constraint \in 0 .. kNumConstraints - 1 :
      LET alone == [polynomial EXCEPT !.coefficients =
                      Vector(2 * kNumConstraints, LAMBDA i :
                        IF i = 2 * constraint + 1 THEN One ELSE Zero)]
          evaluation == EvalComposition(alone, RescueMask, original, NoTrace, NumBreaks,
                                        params.n_cosets, setup.task_size)
      IN  GetEvaluationDegree(AddEvaluation(evaluation, CompositionEvalDomain, FALSE), FALSE) =
            CompositionDegreeBound(params.trace_length) - 1

\* The bits of a sum, of numbers given by theirs.
SumBits(a, b) ==
  LET carry[i \in 0 .. 99] ==
        /\ i # 0
        /\ \/ i - 1 \in a /\ i - 1 \in b
           \/ carry[i - 1] /\ (i - 1 \in a \/ i - 1 \in b)
  IN  {i \in 0 .. 99 : ((i \in a) # (i \in b)) # carry[i]}

\* The arithmetic on words is that of the field: of a word of the trace and any other, and
\* of every element FRI is given, sums, products and quotients are those of the integers
\* they stand for (base_field_element.h 52-129, base_field_element.inl 3-56); and the
\* multiplications of rescue_air.cc 237-313 make three times their exponent
\* 2 * (2^61 + 20 * 2^32 + 1) - 1.
FieldExact ==
  At("StartVerifier") =>
    /\ \A x \in UNION {Range(trace[i]) : i \in DOMAIN trace}, n \in 0 .. kModulus - 1 :
         LET m == ToStandardForm(x)  y == FromUint(n) IN
         /\ ToStandardForm(MontgomeryMul(x, y)) = (m * n) % kModulus
         /\ ToStandardForm(BaseAdd(x, y)) = (m + n) % kModulus
         /\ ToStandardForm(BaseSub(x, y)) = (m - n) % kModulus
    /\ \A e \in Range(first_layer) \ {Zero} : Mul(e, InverseOf(e)) = One
    /\ SumBits(ThirdRootBits, MovedUp(ThirdRootBits, 1)) = {62, 37, 35, 0}
=============================================================================
