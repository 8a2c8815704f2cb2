--------------------------------- MODULE Fri ---------------------------------
(***************************************************************************)
(* src/starkware/fri: FriProver::ProveFri and FriVerifier::VerifyFri.      *)
(*                                                                         *)
(* The prover folds its layer, an evaluation in bit-reversed order, by     *)
(* 2^step at a time, commits to every layer but the first and the last,    *)
(* sends the last as coefficients and opens the cosets of the queries.     *)
(* The verifier repeats the folds on the opened cosets.                    *)
(*                                                                         *)
(* The prover runs first, the proof is delivered, the verifier runs: the   *)
(* protocol is non-interactive.  Folding is a free constructor that shows  *)
(* the operands, the evaluation point and the domain element it used.  The *)
(* tables keep the promise of VectorCommitment (module TableCommitment     *)
(* implements it), and a draw is named by the transcript it follows        *)
(* (module Channels shows that it depends on nothing less).                *)
(***************************************************************************)
EXTENDS Containers, BitReversal

CONSTANTS
  Requests,         \* FRI parameters as read from JSON; see FromJson
  MaxHeight,        \* of the powers of two that count elements
  Bytes,            \* content of a message that is a hash or a nonce
  Garbage,          \* content of an altered message
  Wrong,            \* a value that is not the fold of the previous layer
  Uninitialized     \* what an empty optional<FieldElement> holds

RequestType ==
  [log_trace_length : Nat, log_n_cosets : Nat, fri_step_list : Seq(Nat),
   log_last_layer_degree_bound : Nat, n_queries : Nat, proof_of_work_bits : Nat]

ASSUME FriAssumption ==
  /\ MaxHeight \in Nat
  /\ \A r \in Requests :
       r \in RequestType /\ r.log_trace_length + r.log_n_cosets <= MaxHeight
  /\ Cardinality({Bytes, Garbage, Wrong, Uninitialized}) = 4

VARIABLES
  params,           \* params_ of both sides
  low_degree,       \* whether the witness has the degree FRI is to show
  flaw,             \* where the author of the proof committed to a wrong value
  layers,           \* layers[i + 1] is layer i, a function from 0 on
  transcript,       \* of the prover's channel, until the queries
  queries,          \* queries of ProveFri
  proof,            \* the messages, in order
  damage,           \* what happened to the proof on its way
  v_transcript,     \* of the verifier's channel
  reads,            \* history variable: what the verifier took its messages for
  eval_points,      \* first_eval_point_ and eval_points_
  expected_last_layer,
  query_indices,    \* query_indices_
  query_results,    \* query_results_
  stage

proverVars == <<params, low_degree, flaw, layers, transcript, queries, proof>>
verifierVars == <<v_transcript, reads, eval_points, expected_last_layer, query_indices,
                  query_results>>
vars == <<proverVars, damage, verifierVars, stage>>

-----------------------------------------------------------------------------
(* Parameters. *)

Pow2[h \in 0 .. MaxHeight] == IF h = 0 THEN 1 ELSE 2 * Pow2[h - 1]

fri_step_list == params.fri_step_list

n_layers == Len(fri_step_list)

FriStep(layer_num) == fri_step_list[layer_num + 1]

SumOfFirst(steps, n) ==
  LET sum[k \in 0 .. Len(steps)] == IF k = 0 THEN 0 ELSE sum[k - 1] + steps[k]
  IN  sum[n]

SumOf(steps) == SumOfFirst(steps, Len(steps))

\* The steps before the fold of layer layer_num.
StepsBefore(layer_num) == SumOfFirst(fri_step_list, layer_num)

FromJson(r) ==
  LET steps == r.fri_step_list IN
  /\ steps # <<>>
  /\ \A i \in DOMAIN steps : (steps[i] > 0 \/ i = 1) /\ steps[i] <= 10
  /\ r.log_last_layer_degree_bound <= 14
  /\ r.log_last_layer_degree_bound + SumOf(steps) = r.log_trace_length
  /\ r.n_queries \in 1 .. 256
  /\ r.proof_of_work_bits \in 0 .. 50

LogDomainSize == params.log_trace_length + params.log_n_cosets

GetLayerDomainSize(idx) == Pow2[LogDomainSize - idx]

\* Columns of the layer's table: the values that fold into one of the next layer.
CosetSize(layer_num) == Pow2[FriStep(layer_num)]

LayerSize(layer_num) == GetLayerDomainSize(StepsBefore(layer_num))

-----------------------------------------------------------------------------
(* Folding. *)

\* Element `power' of the coset of size 2^log_size; FRI's offsets are powers of one.
CosetElement(log_size, power) == <<log_size, power>>

AtBitReversed(log_size, idx) == CosetElement(log_size, BitReverse(idx, log_size))

Fold(f_x, f_minus_x, eval_point, x) == <<f_x, f_minus_x, eval_point, x>>

Squared(eval_point) == <<eval_point[1], eval_point[2] + 1>>

ComputeNextFriLayer(values, log_size, eval_point) ==
  [i \in 0 .. Pow2[log_size - 1] - 1 |->
     Fold(values[2 * i], values[2 * i + 1], eval_point,
          CosetElement(log_size, BitReverse(i, log_size - 1)))]

\* FriProver::CreateNextFriLayer from layer layer_num; the proxies, each on the domain
\* folded once more, are evaluated when the layer is real.
CreateNextFriLayer(values, layer_num, eval_point) ==
  LET basis_index == StepsBefore(layer_num)
      layer[j \in 0 .. FriStep(layer_num)] ==
        IF j = 0 THEN [values |-> values, eval_point |-> eval_point]
        ELSE LET cur == layer[j - 1]
             IN  [values |-> ComputeNextFriLayer(cur.values, LogDomainSize - basis_index - (j - 1),
                                                 cur.eval_point),
                  eval_point |-> Squared(cur.eval_point)]
  IN  layer[FriStep(layer_num)].values

\* Mutant: the index of the first element stays that of the first basis.
SameIndex(first_element_index) == first_element_index

NextIndex(first_element_index) == first_element_index \div 2

ApplyFriLayers(elements, eval_point, layer_num, first_element_index) ==
  LET basis_index == StepsBefore(layer_num)
      layer[j \in 0 .. FriStep(layer_num)] ==
        IF j = 0
        THEN [values |-> elements, eval_point |-> eval_point, index |-> first_element_index]
        ELSE LET cur == layer[j - 1]
             IN  [values |-> [k \in 0 .. Pow2[FriStep(layer_num) - j] - 1 |->
                     Fold(cur.values[2 * k], cur.values[2 * k + 1], cur.eval_point,
                          AtBitReversed(LogDomainSize - basis_index - (j - 1),
                                        cur.index + 2 * k))],
                  eval_point |-> Squared(cur.eval_point),
                  index |-> NextIndex(cur.index)]
  IN  layer[FriStep(layer_num)].values[0]

-----------------------------------------------------------------------------
(* Queries. *)

\* Mutant: one domain element per query.
FirstOfCoset(indices, first_fri_step) ==
  [k \in 1 .. Len(indices) |-> indices[k] * Pow2[first_fri_step]]

SecondLayerQueriesToFirstLayerQueries(indices, first_fri_step) ==
  LET size == Pow2[first_fri_step] IN
  [k \in 1 .. Len(indices) * size |-> indices[(k - 1) \div size + 1] * size + ((k - 1) % size)]

GetTableProverRow(query_index, fri_step) == query_index \div Pow2[fri_step]

GetTableProverRowCol(query_index, fri_step) ==
  <<GetTableProverRow(query_index, fri_step), query_index % Pow2[fri_step]>>

\* The index in an inner layer of an index in the second one.
IndexInLayer(idx, layer_num) == idx \div Pow2[StepsBefore(layer_num) - FriStep(0)]

IntegrityQueries(indices, layer_num) ==
  {GetTableProverRowCol(IndexInLayer(idx, layer_num), FriStep(layer_num)) : idx \in Range(indices)}

\* Mutant: a cell of a query is left out only of that query's coset.
OthersOfCoset(indices, layer_num) ==
  UNION {LET place == GetTableProverRowCol(IndexInLayer(idx, layer_num), FriStep(layer_num))
         IN  {<<place[1], col>> : col \in 0 .. CosetSize(layer_num) - 1} \ {place} :
           idx \in Range(indices)}

DataQueries(indices, layer_num) ==
  {<<GetTableProverRow(IndexInLayer(idx, layer_num), FriStep(layer_num)), col>> :
     idx \in Range(indices), col \in 0 .. CosetSize(layer_num) - 1}
  \ IntegrityQueries(indices, layer_num)

\* A cell's place in the layer, which is committed row by row.
PlaceInLayer(cell, layer_num) == cell[1] * CosetSize(layer_num) + cell[2]

\* The data queries as the std::set<RowCol> is iterated.
DataInOrder(indices, layer_num) ==
  LET places == InOrder({PlaceInLayer(cell, layer_num) : cell \in DataQueries(indices, layer_num)})
  IN  [k \in DOMAIN places |-> GetTableProverRowCol(places[k], FriStep(layer_num))]

\* The second layer's indices that ChooseQueryIndices may return: n_queries draws, sorted.
IndexChoices ==
  {drawn \in [1 .. params.n_queries -> 0 .. GetLayerDomainSize(FriStep(0)) - 1] :
     \A i, j \in 1 .. params.n_queries : i < j => drawn[i] <= drawn[j]}

-----------------------------------------------------------------------------
(* Messages and transcripts. *)

Message(what, layer_num, cell, value) ==
  [what |-> what, layer_num |-> layer_num, cell |-> cell, value |-> value]

Header(m) == <<m.what, m.layer_num, m.cell>>

\* A transcript is a sequence of draws and messages; -1 stands for an altered one.
Absorbed(log, what, content) == Append(log, <<what, content>>)

AfterDraw(log) == Absorbed(log, "point", 0)

\* A field element drawn, and the number of times it was squared.
Drawn(log) == <<log, 0>>

Init ==
  /\ params \in {r \in Requests : FromJson(r)}
  /\ low_degree \in BOOLEAN
  /\ flaw \in {<<0, 0>>} \cup
       UNION {{i} \X (0 .. LayerSize(i) - 1) : i \in 1 .. n_layers - 1}
  /\ layers = <<[k \in 0 .. Pow2[LogDomainSize] - 1 |-> <<k>>]>>
  /\ transcript = <<>> /\ queries = <<>> /\ proof = <<>>
  /\ damage = [message |-> 0, first_layer |-> {}]
  /\ v_transcript = <<>> /\ reads = <<>> /\ eval_points = <<>>
  /\ expected_last_layer = <<>> /\ query_indices = <<>> /\ query_results = <<>>
  /\ stage = "commitment"

\* The values committed to, those of the layer but for the flaw.
Committed(layer_num) ==
  [k \in DOMAIN layers[layer_num + 1] |->
     IF flaw = <<layer_num, k>> THEN Wrong ELSE layers[layer_num + 1][k]]

ProverOnly == UNCHANGED <<params, low_degree, flaw, damage, verifierVars>>

\* One turn of the loop of FriProver::CommitmentPhase, for layer_num = Len(layers).
CommitLayer ==
  LET layer_num == Len(layers)
      fri_step == FriStep(layer_num - 1)
      log == IF fri_step = 0 THEN transcript ELSE AfterDraw(transcript)
  IN  /\ stage = "commitment"
      /\ layer_num <= n_layers
      /\ layers' = Append(layers, CreateNextFriLayer(layers[layer_num], layer_num - 1, Drawn(log)))
      /\ IF layer_num = n_layers
         THEN transcript' = log /\ UNCHANGED proof
         ELSE /\ transcript' = Absorbed(log, "commitment", layer_num)
              /\ proof' = Append(proof, Message("commitment", layer_num, <<>>, Bytes))
      /\ ProverOnly /\ UNCHANGED <<queries, stage>>

\* A low-degree layer is the evaluation of the coefficients that are sent.
SendLastLayer ==
  /\ stage = "commitment"
  /\ Len(layers) = n_layers + 1
  /\ IF low_degree
     THEN /\ transcript' = Absorbed(transcript, "coefficients", n_layers)
          /\ proof' = Append(proof, Message("coefficients", n_layers, <<>>, Last(layers)))
          /\ stage' = "query"
     ELSE stage' = "last layer's degree too high" /\ UNCHANGED <<transcript, proof>>
  /\ ProverOnly /\ UNCHANGED <<layers, queries>>

ProverChooseQueryIndices ==
  /\ stage = "query"
  /\ IF params.proof_of_work_bits = 0
     THEN UNCHANGED <<transcript, proof>>
     ELSE /\ transcript' = Absorbed(transcript, "nonce", 0)
          /\ proof' = Append(proof, Message("nonce", 0, <<>>, Bytes))
  /\ queries' \in IndexChoices
  /\ stage' = "decommitment"
  /\ ProverOnly /\ UNCHANGED layers

\* FriCommittedLayerByTableProver::Decommit: StartDecommitmentPhase with the queries,
\* EvalAtPoints, and TableProver::Decommit; the last message stands for the rest of
\* the table's decommitment.
OpenedLayer(layer_num) ==
  LET cells == DataInOrder(queries, layer_num) IN
  [k \in DOMAIN cells |->
     Message("cell", layer_num, cells[k], Committed(layer_num)[PlaceInLayer(cells[k], layer_num)])]
  \o <<Message("authentication", layer_num, <<>>, Bytes)>>

\* The inner layer to decommit after this message, on each side: layers 1, 2, ...
LayerAfter(header) == IF header[1] = "authentication" THEN header[2] + 1 ELSE 1

\* One turn of the loop of ProveFri over committed_layers_, or its end.  The first
\* layer decommits by a callback, whose messages are not part of FRI.
DecommitLayer ==
  LET layer_num == LayerAfter(Header(Last(proof))) IN
  /\ stage = "decommitment"
  /\ IF layer_num = n_layers
     THEN stage' = "proved" /\ UNCHANGED proof
     ELSE proof' = proof \o OpenedLayer(layer_num) /\ UNCHANGED stage
  /\ ProverOnly /\ UNCHANGED <<layers, transcript, queries>>

-----------------------------------------------------------------------------
FirstLayerQueries(indices) ==
  SecondLayerQueriesToFirstLayerQueries(indices, FriStep(0))

\* The proof arrives intact, or with one message altered; or the values that the
\* verifier's callback gets for the first layer are not the witness's in one place.
Deliver ==
  /\ stage = "proved"
  /\ damage' \in {[message |-> k, first_layer |-> {}] : k \in 0 .. Len(proof)} \cup
                 {[message |-> 0, first_layer |-> {q}] : q \in Range(FirstLayerQueries(queries))}
  /\ flaw # <<0, 0>> => damage' = damage
  /\ stage' = "verifying"
  /\ UNCHANGED <<proverVars, verifierVars>>

VerifierOnly == UNCHANGED <<proverVars, damage>>

InProof(n_messages) == Len(reads) + n_messages <= Len(proof)

Altered(k) == damage.message = k

Received(k) == IF Altered(k) THEN Garbage ELSE proof[k].value

NextMessage == Len(reads) + 1

\* What the next message adds to the transcript.
Content(content) == IF Altered(NextMessage) THEN -1 ELSE content

Reads(what, layer_num) == reads' = Append(reads, <<what, layer_num, <<>>>>)

\* One turn of the loop of FriVerifier::CommitmentPhase, for i = Len(eval_points).
ReadLayerCommitment ==
  LET i == Len(eval_points)
      draws == i > 0 \/ FriStep(0) # 0
      log == IF draws THEN AfterDraw(v_transcript) ELSE v_transcript
  IN  /\ stage = "verifying"
      /\ i < n_layers
      /\ eval_points' = Append(eval_points, IF draws THEN Drawn(log) ELSE Uninitialized)
      /\ IF i = n_layers - 1
         THEN v_transcript' = log /\ UNCHANGED reads
         ELSE /\ v_transcript' = Absorbed(log, "commitment", Content(i + 1))
              /\ Reads("commitment", i + 1)
      /\ VerifierOnly /\ UNCHANGED <<expected_last_layer, query_indices, query_results, stage>>

\* The coefficients are evaluated on the coset of the last layer.
ReadLastLayerCoefficients ==
  /\ stage = "verifying"
  /\ Len(eval_points) = n_layers
  /\ expected_last_layer' = [k \in 0 .. LayerSize(n_layers) - 1 |->
                               IF Altered(NextMessage) THEN Garbage ELSE Received(NextMessage)[k]]
  /\ v_transcript' = Absorbed(v_transcript, "coefficients", Content(n_layers))
  /\ Reads("coefficients", n_layers)
  /\ stage' = "choosing"
  /\ VerifierOnly /\ UNCHANGED <<eval_points, query_indices, query_results>>

\* ChooseQueryIndices: an altered nonce is another valid one, or fails.  Numbers drawn
\* after another transcript are other numbers.
VerifierChooseQueryIndices ==
  /\ stage = "choosing"
  /\ IF params.proof_of_work_bits = 0
     THEN UNCHANGED <<v_transcript, reads>>
     ELSE v_transcript' = Absorbed(v_transcript, "nonce", Content(0)) /\ Reads("nonce", 0)
  /\ \/ /\ query_indices' \in IF v_transcript' = transcript THEN {queries} ELSE IndexChoices
        /\ stage' = "first layer"
     \/ /\ params.proof_of_work_bits > 0 /\ Altered(NextMessage)
        /\ stage' = "wrong proof of work" /\ UNCHANGED query_indices
  /\ VerifierOnly /\ UNCHANGED <<eval_points, expected_last_layer, query_results>>

FirstLayerValue(q) == IF q \in damage.first_layer THEN Wrong ELSE layers[1][q]

\* VerifyFirstLayer; what first_eval_point_ holds when it is empty is not used.
VerifyFirstLayer ==
  LET indices == FirstLayerQueries(query_indices)
      size == CosetSize(0)
      first(j) == (j - 1) * size + 1
  IN  /\ stage = "first layer"
      /\ query_results' = [j \in 1 .. Len(indices) \div size |->
           ApplyFriLayers([k \in 0 .. size - 1 |-> FirstLayerValue(indices[first(j) + k])],
                          eval_points[1], 0, indices[first(j)])]
      /\ stage' = IF n_layers = 1 THEN "last layer" ELSE "inner layers"
      /\ VerifierOnly
      /\ UNCHANGED <<v_transcript, reads, eval_points, expected_last_layer, query_indices>>

\* The inner layer the verifier is at: it has read the decommitment of those before.
CurrentLayer == LayerAfter(Last(reads))

CellOfQuery(j, layer_num) ==
  GetTableProverRowCol(IndexInLayer(query_indices[j], layer_num), FriStep(layer_num))

\* to_verify: the cells received and, inserted where there is none yet, the results
\* of the queries, the first of those that meet in a cell.
ToVerify(cells, layer_num) ==
  LET queriesAt(cell) == {j \in DOMAIN query_results : CellOfQuery(j, layer_num) = cell}
  IN  [cell \in Range(cells) \cup {CellOfQuery(j, layer_num) : j \in DOMAIN query_results} |->
         IF cell \in Range(cells)
         THEN Received(Len(reads) + (CHOOSE k \in DOMAIN cells : cells[k] = cell))
         ELSE query_results[CHOOSE j \in queriesAt(cell) : \A i \in queriesAt(cell) : j <= i]]

NextResult(j, layer_num, to_verify) ==
  LET row == CellOfQuery(j, layer_num)[1] IN
  ApplyFriLayers([col \in 0 .. CosetSize(layer_num) - 1 |-> to_verify[<<row, col>>]],
                 eval_points[layer_num + 1], layer_num, row * CosetSize(layer_num))

\* What TableVerifier::VerifyDecommitment may answer: yes only to what is committed,
\* and to that if the rest of the decommitment is the one that was sent for it.
Answers(layer_num, to_verify, authentication) ==
  LET agrees == /\ ~Altered(layer_num)
                /\ \A cell \in DOMAIN to_verify :
                     to_verify[cell] = Committed(layer_num)[PlaceInLayer(cell, layer_num)]
      intact == /\ ~Altered(authentication)
                /\ Header(proof[authentication]) = <<"authentication", layer_num, <<>>>>
  IN  IF intact THEN {agrees} ELSE {FALSE, agrees}

\* One turn of the loop of VerifyInnerLayers, for i = CurrentLayer - 1.
VerifyInnerLayer ==
  LET layer_num == CurrentLayer
      cells == DataInOrder(query_indices, layer_num)
      to_verify == ToVerify(cells, layer_num)
  IN  /\ stage = "inner layers"
      /\ IF ~InProof(Len(cells) + 1)
         THEN stage' = "proof too short" /\ UNCHANGED <<reads, query_results>>
         ELSE /\ reads' = reads \o [k \in DOMAIN cells |-> <<"cell", layer_num, cells[k]>>]
                                \o <<<<"authentication", layer_num, <<>>>>>>
              /\ query_results' = [j \in DOMAIN query_results |->
                                     NextResult(j, layer_num, to_verify)]
              /\ \E answer \in Answers(layer_num, to_verify, Len(reads')) :
                   stage' = CASE ~answer -> "failed decommitment"
                              [] answer /\ layer_num = n_layers - 1 -> "last layer"
                              [] OTHER -> stage
      /\ VerifierOnly
      /\ UNCHANGED <<v_transcript, eval_points, expected_last_layer, query_indices>>

\* Mutant: only the first query is compared.
ComparedFirst == 1 .. 1

Compared == DOMAIN query_results

VerifyLastLayer ==
  /\ stage = "last layer"
  /\ stage' = IF \A j \in Compared : query_results[j] =
                   expected_last_layer[IndexInLayer(query_indices[j], n_layers)]
              THEN "accepted" ELSE "inconsistent with the last layer"
  /\ VerifierOnly /\ UNCHANGED verifierVars

Rejections ==
  {"wrong proof of work", "proof too short", "failed decommitment",
   "inconsistent with the last layer"}

Ended == stage \in Rejections \cup {"accepted", "last layer's degree too high"}

Next ==
  \/ CommitLayer \/ SendLastLayer \/ ProverChooseQueryIndices \/ DecommitLayer
  \/ Deliver
  \/ ReadLayerCommitment \/ ReadLastLayerCoefficients \/ VerifierChooseQueryIndices
  \/ VerifyFirstLayer \/ VerifyInnerLayer \/ VerifyLastLayer
  \/ (Ended /\ UNCHANGED vars)

Spec == Init /\ [][Next]_vars
-----------------------------------------------------------------------------
TypeOK ==
  /\ params \in Requests /\ FromJson(params)
  /\ Len(layers) \in 1 .. n_layers + 1
  /\ \A i \in DOMAIN layers : DOMAIN layers[i] = 0 .. LayerSize(i - 1) - 1
  /\ Len(eval_points) <= n_layers
  /\ queries # <<>> => queries \in IndexChoices
  /\ query_indices # <<>> => query_indices \in IndexChoices
  /\ Len(query_results) \in {0, params.n_queries}
  /\ InProof(0)

Intact == damage.message = 0

\* A proof that is neither altered nor flawed is accepted and read to its end, for
\* every parameter FromJson accepts and all queries, repeated and meeting ones included.
RightProofAccepted ==
  Intact /\ damage.first_layer = {} /\ flaw = <<0, 0>> =>
    /\ stage \notin Rejections
    /\ stage = "accepted" => Len(reads) = Len(proof)

\* Indices of the first layer that the verifier's queries depend on.
Support == {q \in DOMAIN layers[1] : q \div CosetSize(0) \in Range(query_indices)}

\* The values of a layer as the verifier has them, and the fold of one coset of them.
Vector(layer_num) ==
  CASE layer_num = 0 -> [q \in Support |-> FirstLayerValue(q)]
    [] layer_num \in 1 .. n_layers - 1 -> Committed(layer_num)
    [] layer_num = n_layers -> expected_last_layer

FoldedAt(layer_num, at) ==
  LET first == at * CosetSize(layer_num) IN
  ApplyFriLayers([k \in 0 .. CosetSize(layer_num) - 1 |-> Vector(layer_num)[first + k]],
                 eval_points[layer_num + 1], layer_num, first)

\* Acceptance means that along every query the values of a layer fold, with the
\* verifier's points, to the next layer's committed ones, from the first layer's
\* values to the last layer's polynomial (fri_verifier.h:33-41): though a cell that
\* several queries meet in is compared once.
AcceptedFoldsRight ==
  stage = "accepted" =>
    \A q \in Range(query_indices), i \in 0 .. n_layers - 1 :
      Vector(i + 1)[IndexInLayer(q, i + 1)] = FoldedAt(i, IndexInLayer(q, i + 1))

\* Of the cosets a query passes, the cells the verifier cannot compute are sent, once;
\* those it can compute are not ("The two resulting sets are disjoint", fri_details.h).
OpenedOnce ==
  stage \in {"proved", "verifying", "accepted"} =>
    \A i \in 1 .. n_layers - 1 :
      LET sent == {k \in DOMAIN proof : proof[k].what = "cell" /\ proof[k].layer_num = i}
          place(k) == PlaceInLayer(proof[k].cell, i)
          computed == {q \div Pow2[StepsBefore(i)] : q \in Range(FirstLayerQueries(queries))}
          cosets == {k \in DOMAIN layers[i + 1] :
                       k \div CosetSize(i) \in {c \div CosetSize(i) : c \in computed}}
      IN  /\ {place(k) : k \in sent} = cosets \ computed
          /\ Cardinality(sent) = Cardinality(cosets \ computed)
=============================================================================
