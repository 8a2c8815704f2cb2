-------------------------- MODULE CompositionOracle --------------------------
(***************************************************************************)
(* src/starkware/stark: CommittedTraceProver/Verifier over the cached LDEs *)
(* of a trace, and CompositionOracleProver/Verifier, which evaluate the    *)
(* composition polynomial on cosets and open the neighbors of queries.     *)
(*                                                                         *)
(* Values are free constructors: a column's value names the trace, the     *)
(* column and the point, a composition's its point, the neighbors, the     *)
(* powers and the periodic value it was computed from.  A point of the     *)
(* evaluation domain is the exponent e of Generator() * g^e, where g       *)
(* generates the group of the domain's size.  Trace 0 is the original one, *)
(* kept in natural order; trace 1, if any, is the composition trace, kept  *)
(* bit-reversed.  ParallelFor keeps the promise of module ParallelFor.     *)
(***************************************************************************)
EXTENDS BitReversal, Containers

CONSTANTS
  Setups,           \* what parameters, AIR and configuration decide; see SetupType
  MaxLogSize,       \* of domains; Pow2 takes exponents below 64
  MaxQueries,       \* bound on the number of queries of FRI
  Nothing,          \* no cache entry, no segment, no task
  Uninitialized     \* an element of an UninitializedVector

SetupType ==
  [log_trace_length : Nat \ {0}, log_n_cosets : Nat,
   n_cosets : Nat \ {0},                   \* argument of EvalComposition
   trace_widths : Seq(Nat \ {0}), mask : Seq(Nat \X Nat), point_exponent : Nat,
   log_period : Nat, task_size : Nat \ {0}, n_threads : Nat \ {0}]

Pow2[n \in 0 .. MaxLogSize] == IF n = 0 THEN 1 ELSE 2 * Pow2[n - 1]

\* Sums(widths)[k]: of the first k.
Sums(widths) ==
  LET sum[k \in 0 .. Len(widths)] == IF k = 0 THEN 0 ELSE sum[k - 1] + widths[k] IN sum

\* A mask column beyond the traces throws (ColumnToTraceColumn).
ASSUME SetupAssumption ==
  /\ MaxLogSize \in Nat
  /\ \A s \in Setups :
       /\ s \in SetupType
       /\ s.log_trace_length + s.log_n_cosets <= MaxLogSize
       /\ Len(s.trace_widths) \in 1 .. 2
       /\ \A i \in DOMAIN s.mask : s.mask[i][2] < Sums(s.trace_widths)[Len(s.trace_widths)]
       /\ s.log_period <= s.log_trace_length
       /\ \E h \in 0 .. s.log_n_cosets : s.n_cosets = Pow2[h]
  /\ MaxQueries \in Nat

\* Nothing is no task, and no cache entry.
ASSUME NothingAssumption ==
  /\ Nothing \notin [next : Nat, end : Nat]
  /\ \A s \in Setups : \A k \in DOMAIN s.trace_widths :
       Nothing \notin [0 .. s.trace_widths[k] - 1 ->
                         [0 .. Pow2[s.log_trace_length] - 1 ->
                            (Nat \X Nat \X Nat) \cup {Uninitialized}]]

VARIABLES
  setup,
  lde_manager,      \* lde_manager[t]: lde_manager_ of trace t's cache is still there
  cache,            \* cache[t][coset]: cache_ of CachedLdeManager
  segments,         \* segments[t][coset]: the table's rows, as committed to
  pc,               \* pc[coset]: of the task of Commit's ParallelFor
  current,          \* trace, then coset, that is being worked on
  todo,             \* tasks EvalOnCosetBitReversedOutput has not started
  running,          \* running[thread]: local state of its task
  worker_mem,       \* worker_mem[worker_id]
  evaluation,
  queries,          \* evaluation domain queries of FRI's first layer
  opened,           \* opened[t]: cells the prover decommits
  oracle_evaluations,
  stage

vars == <<setup, lde_manager, cache, segments, pc, current, todo, running, worker_mem,
          evaluation, queries, opened, oracle_evaluations, stage>>

-----------------------------------------------------------------------------
(* Evaluation domain. *)

TraceSize == Pow2[setup.log_trace_length]
NumCosets == Pow2[setup.log_n_cosets]
DomainSize == TraceSize * NumCosets

Offsets == 0 .. TraceSize - 1
Cosets == 0 .. NumCosets - 1

\* point * g^power.
Times(point, power) == (point + power) % DomainSize

\* The trace generator, as a power of g.
TraceGenerator == NumCosets

CosetOffsets(i) == Times(0, i)

ElementByIndex(coset_index, group_index) ==
  Times(CosetOffsets(coset_index),
        TraceGenerator * BitReverse(group_index, setup.log_trace_length))

\* Pow(point, n), as the powers of Generator() and of g.
Power(point, n) == <<n, (point * n) % DomainSize>>

-----------------------------------------------------------------------------
(* Cached LDEs. *)

Traces == 0 .. Len(setup.trace_widths) - 1
Width(t) == setup.trace_widths[t + 1]
Columns(t) == 0 .. Width(t) - 1

\* CommitOnTrace is asked for natural order on the original trace only.
IsEvalNaturallyOrdered(t) == t = 0

\* coset_offsets_ of CachedLdeManager.
CosetOffset(coset_index) == CosetOffsets(BitReverse(coset_index, setup.log_n_cosets))

ColumnAt(t, column, point) == <<t, column, point>>

\* LdeManager::EvalOnCoset.
Evaluated(t, coset_offset) ==
  LET natural == [column \in Columns(t) |->
                    [j \in Offsets |-> ColumnAt(t, column, Times(coset_offset, TraceGenerator * j))]]
  IN  IF IsEvalNaturallyOrdered(t) THEN natural
      ELSE [column \in Columns(t) |-> BitReverseVector(natural[column], setup.log_trace_length)]

AllocatedEntry(t) == [column \in Columns(t) |-> [j \in Offsets |-> Uninitialized]]

HasEntry(t, coset_index) == cache[t][coset_index] # Nothing

\* The columns of a cache entry, in the order that is not the LDE's.
Reordered(entry) == [column \in DOMAIN entry |->
                       BitReverseVector(entry[column], setup.log_trace_length)]

\* Mutant: the row is looked up in the order of the table.
SameIndex(t, point_index) == point_index

FixedPointIndex(t, point_index) ==
  IF IsEvalNaturallyOrdered(t) THEN BitReverse(point_index, setup.log_trace_length)
  ELSE point_index

\* CommittedTraceProver::AnswerQueries and CachedLdeManager::EvalAtPoints, for one cell.
EvalAtPoint(t, row, column) ==
  cache[t][row \div TraceSize][column][FixedPointIndex(t, row % TraceSize)]

-----------------------------------------------------------------------------
(* Masks and queries. *)

WidthsBefore(t) == Sums(setup.trace_widths)[t]

TraceOfColumn(column) ==
  CHOOSE t \in Traces : column \in WidthsBefore(t) .. WidthsBefore(t + 1) - 1

ColumnToTraceColumn(column) ==
  <<TraceOfColumn(column), column - WidthsBefore(TraceOfColumn(column))>>

\* Places in the mask whose column is in trace t; the items at some places, in order.
PlacesOf(t) == {i \in DOMAIN setup.mask : ColumnToTraceColumn(setup.mask[i][2])[1] = t}

MaskItems(places) == [k \in DOMAIN InOrder(places) |-> setup.mask[InOrder(places)[k]]]

\* splitted_masks_[t].
SplitMask(t) ==
  LET items == MaskItems(PlacesOf(t))
  IN  [i \in DOMAIN items |-> <<items[i][1], ColumnToTraceColumn(items[i][2])[2]>>]

FriQueriesToEvaluationDomainQueries(fri_queries) ==
  [i \in DOMAIN fri_queries |-> <<fri_queries[i] \div TraceSize, fri_queries[i] % TraceSize>>]

NeighborOffset(offset, mask_row) ==
  BitReverse((BitReverse(offset, setup.log_trace_length) + mask_row) % TraceSize,
             setup.log_trace_length)

\* For each query, its cells in the order of the mask: <<coset, offset, column>>.
QueriesToTraceQueries(t, qs) ==
  LET trace_mask == SplitMask(t)
      n == Len(trace_mask)
      trace_query(query, item) == <<query[1], NeighborOffset(query[2], item[1]), item[2]>>
  IN  [k \in 1 .. n * Len(qs) |->
         trace_query(qs[((k - 1) \div n) + 1], trace_mask[((k - 1) % n) + 1])]

\* The cell of the table a trace query is about.
RowColOf(query) == <<query[1] * TraceSize + query[2], query[3]>>

DataQueries(t, qs) == {RowColOf(query) : query \in ToSet(QueriesToTraceQueries(t, qs))}
-----------------------------------------------------------------------------
(* CommittedTraceProver::Commit: a task per coset evaluates the LDE into the cache   *)
(* and adds the coset, bit-reversed, to the table.                                   *)

Init ==
  /\ setup \in Setups
  /\ lde_manager = [t \in Traces |-> TRUE]
  /\ cache = [t \in Traces |-> [c \in Cosets |-> Nothing]]
  /\ segments = [t \in Traces |-> [c \in Cosets |-> Nothing]]
  /\ pc = [c \in Cosets |-> "start"]
  /\ current = 0
  /\ todo = {}
  /\ running = [w \in 1 .. setup.n_threads |-> Nothing]
  /\ worker_mem = [w \in 1 .. setup.n_threads |-> Uninitialized]
  /\ evaluation = [k \in 0 .. setup.n_cosets * TraceSize - 1 |-> Uninitialized]
  /\ queries = <<>>
  /\ opened = [t \in Traces |-> Nothing]
  /\ oracle_evaluations = <<>>
  /\ stage = "commit"

Goes(task, from, to) == pc[task] = from /\ pc' = [pc EXCEPT ![task] = to]

\* Mutant: two cosets per task, of which it serves the first.
FirstOfPair(task) == 2 * (task \div 2)

CosetOfTask(task) == task

\* CachedLdeManager::EvalOnCoset until it starts to evaluate.
LookUp(task) ==
  LET t == current  c == CosetOfTask(task) IN
  /\ stage = "commit"
  /\ \/ /\ HasEntry(t, c)
        /\ Goes(task, "start", "evaluated")
        /\ UNCHANGED cache
     \/ /\ ~HasEntry(t, c)
        /\ Goes(task, "start", "allocated")
        /\ cache' = [cache EXCEPT ![t][c] = AllocatedEntry(t)]
  /\ UNCHANGED <<setup, lde_manager, segments, current, todo, running, worker_mem,
                 evaluation, queries, opened, oracle_evaluations, stage>>

Evaluate(task) ==
  LET c == CosetOfTask(task) IN
  /\ stage = "commit"
  /\ Goes(task, "allocated", "evaluated")
  /\ cache' = [cache EXCEPT ![current][c] = Evaluated(current, CosetOffset(c))]
  /\ UNCHANGED <<setup, lde_manager, segments, current, todo, running, worker_mem,
                 evaluation, queries, opened, oracle_evaluations, stage>>

AddSegment(task) ==
  LET c == CosetOfTask(task)
      entry == cache[current][c]
  IN
  /\ stage = "commit"
  /\ Goes(task, "evaluated", "added")
  /\ segments' = [segments EXCEPT ![current][c] =
       IF IsEvalNaturallyOrdered(current) THEN Reordered(entry) ELSE entry]
  /\ UNCHANGED <<setup, lde_manager, cache, current, todo, running, worker_mem,
                 evaluation, queries, opened, oracle_evaluations, stage>>

Commit ==
  /\ stage = "commit"
  /\ \A task \in Cosets : pc[task] = "added"
  /\ IF current + 1 \in Traces
     THEN /\ current' = current + 1
          /\ pc' = [c \in Cosets |-> "start"]
          /\ UNCHANGED stage
     ELSE /\ stage' = "committed"
          /\ UNCHANGED <<current, pc>>
  /\ UNCHANGED <<setup, lde_manager, cache, segments, todo, running, worker_mem,
                 evaluation, queries, opened, oracle_evaluations>>

-----------------------------------------------------------------------------
(* Out of domain sampling. *)

\* OODS point times a power of the trace generator; the point is not in the domain.
OodsPoint(row) == <<"point", (row * TraceGenerator) % DomainSize>>

\* CommittedTraceProver::EvalMaskAtPoint goes through a trace's mask column by column.
EvalMaskOfTrace(t) ==
  LET mask == SplitMask(t)
      items(column) == InOrder({i \in DOMAIN mask : mask[i][2] = column})
      column_output(column) ==
        [k \in DOMAIN items(column) |-> ColumnAt(t, column, OodsPoint(mask[items(column)[k]][1]))]
      place(i) == CHOOSE k \in DOMAIN items(mask[i][2]) : items(mask[i][2])[k] = i
  IN  [i \in DOMAIN mask |-> column_output(mask[i][2])[place(i)]]

\* mask_offset_in_trace, when mask item mask_i is reached: items of its trace up to it.
OffsetInTrace(mask_i) ==
  Cardinality({i \in PlacesOf(ColumnToTraceColumn(setup.mask[mask_i][2])[1]) : i <= mask_i})

\* CompositionOracleProver::EvalMaskAtPoint.
EvalMaskAtPoint ==
  [mask_i \in DOMAIN setup.mask |->
     EvalMaskOfTrace(ColumnToTraceColumn(setup.mask[mask_i][2])[1])[OffsetInTrace(mask_i)]]

\* Called on both traces once the values out of domain are sent.
FinalizeEval ==
  /\ stage = "committed"
  /\ lde_manager[0]
  /\ lde_manager' = [t \in Traces |-> FALSE]
  /\ UNCHANGED <<setup, cache, segments, pc, current, todo, running, worker_mem,
                 evaluation, queries, opened, oracle_evaluations, stage>>

-----------------------------------------------------------------------------
(* CompositionOracleProver::EvalComposition: coset by coset, tasks of task_size points *)
(* on the threads of the pool.                                                         *)

\* A coset's columns, from the cache, in natural order.
LdeColumns(t) ==
  IF IsEvalNaturallyOrdered(t) THEN cache[t][current] ELSE Reordered(cache[t][current])

\* Neighbors::Iterator: the values at point idx of the coset for the mask's items on
\* the original trace, and for those on the composition trace.
NeighborsAt(idx) ==
  LET value(t, item) == LdeColumns(t)[item[2] - WidthsBefore(t)][(idx + item[1]) % TraceSize]
      original == MaskItems({i \in DOMAIN setup.mask : setup.mask[i][2] < Width(0)})
      others == MaskItems({i \in DOMAIN setup.mask : setup.mask[i][2] >= Width(0)})
  IN  <<[i \in DOMAIN original |-> value(0, original[i])],
        [i \in DOMAIN others |-> value(1, others[i])]>>

Period == Pow2[setup.log_period]
Copies == TraceSize \div Period

\* PeriodicColumn::GetCoset.
PeriodicCoset(coset_offset) ==
  [j \in 0 .. Period - 1 |->
     <<Copies, (coset_offset * Copies + j * (DomainSize \div Period)) % DomainSize>>]

\* Mutant: the iterator runs on.
NextUnmasked(index) == index + 1

NextPeriodic(index) == (index + 1) % Period

ConstraintsEval(neighbors, periodic, powers) ==
  [neighbors |-> neighbors, periodic |-> periodic, powers |-> powers]

PointPowers(point) == <<point, Power(point, setup.point_exponent)>>

\* x, x^k -> gx, (gx)^k.
ShiftedPowers(powers) ==
  <<Times(powers[1], TraceGenerator),
    <<powers[2][1], (powers[2][2] + setup.point_exponent * TraceGenerator) % DomainSize>>>>

Tasks == 0 .. (TraceSize + setup.task_size - 1) \div setup.task_size - 1

\* Mutant: one memory for all threads.
SharedMemory(thread) == 1

WorkerId(thread) == thread

AlgebraicOffset(task) ==
  Times(CosetOffset(current), TraceGenerator * setup.task_size * task)

\* The LDEs come from the cache, or are evaluated as long as that is possible.
StartCoset(coset) ==
  IF \A t \in Traces : HasEntry(t, coset) \/ lde_manager[t]
  THEN /\ current' = coset
       /\ todo' = Tasks
       /\ worker_mem' = [thread \in DOMAIN worker_mem |-> Uninitialized]
       /\ stage' = "evaluating"
       /\ cache' = [t \in Traces |->
            IF HasEntry(t, coset) THEN cache[t]
            ELSE [cache[t] EXCEPT ![coset] = Evaluated(t, CosetOffset(coset))]]
  ELSE /\ stage' = "failed"
       /\ UNCHANGED <<current, todo, worker_mem, cache>>

EvalComposition ==
  /\ stage = "committed"
  /\ StartCoset(0)
  /\ UNCHANGED <<setup, lde_manager, segments, pc, running, evaluation, queries, opened,
                 oracle_evaluations>>

\* A task takes the memory of its thread, which runs nothing else until it ends.
StartTask(thread) ==
  /\ stage = "evaluating"
  /\ running[thread] = Nothing
  /\ \E task \in todo :
       LET initial == setup.task_size * task IN
       /\ todo' = todo \ {task}
       /\ running' = [running EXCEPT ![thread] =
            [next |-> initial,
             end |-> IF initial + setup.task_size < TraceSize THEN initial + setup.task_size
                     ELSE TraceSize]]
       /\ worker_mem' = [worker_mem EXCEPT ![WorkerId(thread)] =
            [powers |-> PointPowers(AlgebraicOffset(task)), periodic |-> initial % Period]]
  /\ UNCHANGED <<setup, lde_manager, cache, segments, pc, current, evaluation, queries,
                 opened, oracle_evaluations, stage>>

OutputIndex(idx) == BitReverse(idx, setup.log_trace_length)

EvalPoint(thread) ==
  LET task == running[thread]
      memory == worker_mem[WorkerId(thread)]
      last == task.next + 1 = task.end
  IN
  /\ task # Nothing
  /\ evaluation' = [evaluation EXCEPT ![current * TraceSize + OutputIndex(task.next)] =
       ConstraintsEval(NeighborsAt(task.next),
                       PeriodicCoset(CosetOffset(current))[memory.periodic], memory.powers)]
  /\ worker_mem' = [worker_mem EXCEPT ![WorkerId(thread)] =
       [powers |-> IF last THEN memory.powers ELSE ShiftedPowers(memory.powers),
        periodic |-> NextPeriodic(memory.periodic)]]
  /\ running' = [running EXCEPT ![thread] =
       IF last THEN Nothing ELSE [task EXCEPT !.next = @ + 1]]
  /\ UNCHANGED <<setup, lde_manager, cache, segments, pc, current, todo, queries,
                 opened, oracle_evaluations, stage>>

\* ParallelFor returns when every task has ended.
EndCoset ==
  /\ stage = "evaluating"
  /\ todo = {}
  /\ \A thread \in DOMAIN running : running[thread] = Nothing
  /\ IF current + 1 < setup.n_cosets
     THEN StartCoset(current + 1)
     ELSE stage' = "evaluated" /\ UNCHANGED <<cache, current, todo, worker_mem>>
  /\ UNCHANGED <<setup, lde_manager, segments, pc, running, evaluation, queries, opened,
                 oracle_evaluations>>

-----------------------------------------------------------------------------
(* Queries of FRI's first layer: the prover opens the neighbors of every query in each *)
(* trace's table, the verifier evaluates the composition on what was opened.           *)

\* FRI asks for elements of the whole evaluation domain, in increasing order.
IndexChoices == UNION {kSubset(n, 0 .. DomainSize - 1) : n \in 1 .. MaxQueries}

DecommitQueries ==
  /\ stage = "evaluated"
  /\ setup.n_cosets = NumCosets
  /\ \E indices \in IndexChoices :
       queries' = FriQueriesToEvaluationDomainQueries(InOrder(indices))
  /\ IF \A t \in Traces, query \in ToSet(queries') : HasEntry(t, query[1])
     THEN /\ opened' = [t \in Traces |->
               [cell \in DataQueries(t, queries') |-> EvalAtPoint(t, cell[1], cell[2])]]
          /\ stage' = "opened"
     ELSE stage' = "failed" /\ UNCHANGED opened
  /\ UNCHANGED <<setup, lde_manager, cache, segments, pc, current, todo, running,
                 worker_mem, evaluation, oracle_evaluations>>

\* The tables are a commitment (module TableCommitment): other values are refused.
CommittedCell(t, cell) == segments[t][cell[1] \div TraceSize][cell[2]][cell[1] % TraceSize]

Agrees(t) ==
  /\ DOMAIN opened[t] = DataQueries(t, queries)
  /\ \A cell \in DOMAIN opened[t] : opened[t][cell] = CommittedCell(t, cell)

\* CommittedTraceVerifier::VerifyDecommitment: the responses, query by query.
QueryResponses(t) ==
  LET trace_queries == QueriesToTraceQueries(t, queries) IN
  [k \in DOMAIN trace_queries |-> opened[t][RowColOf(trace_queries[k])]]

\* The part of the responses that is about query i.
ResponsesOfQuery(t, i) ==
  LET n == Len(SplitMask(t)) IN SubSeq(QueryResponses(t), n * (i - 1) + 1, n * i)

EvalAtQuery(i) ==
  LET point == ElementByIndex(BitReverse(queries[i][1], setup.log_n_cosets), queries[i][2])
      composition_neighbors == IF 1 \in Traces THEN ResponsesOfQuery(1, i) ELSE <<>>
  IN  ConstraintsEval(<<ResponsesOfQuery(0, i), composition_neighbors>>,
                      Power(point, Copies), PointPowers(point))

VerifyDecommitment ==
  /\ stage = "opened"
  /\ IF \A t \in Traces : Agrees(t)
     THEN /\ oracle_evaluations' = [i \in DOMAIN queries |-> EvalAtQuery(i)]
          /\ stage' = "verified"
     ELSE stage' = "rejected" /\ UNCHANGED oracle_evaluations
  /\ UNCHANGED <<setup, lde_manager, cache, segments, pc, current, todo, running,
                 worker_mem, evaluation, queries, opened>>

\* The composition polynomial of the original oracle, on fewer cosets, goes to the
\* polynomial breaker; that of the second oracle to FRI, which asks the queries.
Ended ==
  \/ stage = "verified"
  \/ stage = "evaluated" /\ setup.n_cosets < NumCosets

Next ==
  \/ \E task \in Cosets : LookUp(task) \/ Evaluate(task) \/ AddSegment(task)
  \/ Commit
  \/ FinalizeEval
  \/ EvalComposition
  \/ \E thread \in DOMAIN running : StartTask(thread) \/ EvalPoint(thread)
  \/ EndCoset
  \/ DecommitQueries
  \/ VerifyDecommitment
  \/ Ended /\ UNCHANGED vars

Spec == Init /\ [][Next]_vars

-----------------------------------------------------------------------------
(* Properties. *)

Points == 0 .. DomainSize - 1

TypeOK ==
  /\ setup \in Setups
  /\ lde_manager \in [Traces -> BOOLEAN]
  /\ \A t \in Traces, c \in Cosets : \A entry \in {cache[t][c], segments[t][c]} :
       entry # Nothing =>
         entry \in [Columns(t) -> [Offsets -> ({t} \X Columns(t) \X Points) \cup {Uninitialized}]]
  /\ pc \in [Cosets -> {"start", "allocated", "evaluated", "added"}]
  /\ todo \subseteq Tasks
  /\ \A thread \in DOMAIN running : running[thread] # Nothing =>
       /\ running[thread].next \in 0 .. running[thread].end - 1
       /\ running[thread].end <= TraceSize
  /\ \A thread \in DOMAIN worker_mem : worker_mem[thread] # Uninitialized =>
       /\ worker_mem[thread].powers[1] \in Points
       /\ worker_mem[thread].periodic \in 0 .. Period - 1
  /\ queries \in Seq(Cosets \X Offsets)
  /\ stage \in {"commit", "committed", "evaluating", "evaluated", "opened", "verified",
                "rejected", "failed"}

\* The k-th element, in bit-reversed order, of the coset of Generator() that has
\* 2^log_n_cosets cosets of the trace domain.
BitReversedPoint(k, log_n_cosets) ==
  BitReverse(k, setup.log_trace_length + log_n_cosets) *
    Pow2[setup.log_n_cosets - log_n_cosets]

\* Whatever the interleaving of the tasks, each row of a table that a task has added
\* holds the values of all columns at one point, row k at the k-th element of FRI's
\* domain: no coset is read before it is evaluated, and the orders of cosets, of the
\* points in a coset and of the two kinds of LDE compose to that of the domain.
CommittedInDomainOrder ==
  \A t \in Traces, c \in Cosets : segments[t][c] # Nothing =>
    \A column \in Columns(t), offset \in Offsets :
      segments[t][c][column][offset] =
        ColumnAt(t, column, BitReversedPoint(c * TraceSize + offset, setup.log_n_cosets))

\* Out of domain, the mask's values come in the order of the mask, in which the
\* verifier puts them into the constraints, whatever columns and traces it mixes.
MaskValuesInOrder ==
  \A i \in DOMAIN setup.mask :
    EvalMaskAtPoint[i] =
      LET column == setup.mask[i][2]
          t == IF column < Width(0) THEN 0 ELSE 1
      IN  ColumnAt(t, IF t = 0 THEN column ELSE column - Width(0),
                   <<"point", (setup.mask[i][1] * TraceGenerator) % DomainSize>>)

\* What the composition polynomial is at a point, from the columns' polynomials.
CompositionAt(point) ==
  LET neighbors(t) ==
        LET items == MaskItems({i \in DOMAIN setup.mask :
                                 (setup.mask[i][2] < Width(0)) = (t = 0)}) IN
        [i \in DOMAIN items |->
           ColumnAt(t, items[i][2] - (IF t = 0 THEN 0 ELSE Width(0)),
                    Times(point, TraceGenerator * items[i][1]))]
  IN  [neighbors |-> <<neighbors(0), neighbors(1)>>, periodic |-> Power(point, Copies),
       powers |-> <<point, Power(point, setup.point_exponent)>>]

\* Every element the tasks have written is the composition polynomial at its point of
\* the domain the breaker or FRI takes it for, computed from the points a mask row
\* away: threads do not disturb each other's memory, and stepping from point to point
\* gives what computing each point afresh would.
CompositionInDomainOrder ==
  LET log_n == CHOOSE h \in 0 .. setup.log_n_cosets : setup.n_cosets = Pow2[h] IN
  \A k \in DOMAIN evaluation :
    evaluation[k] # Uninitialized => evaluation[k] = CompositionAt(BitReversedPoint(k, log_n))

\* The prover never needs a value it can no longer evaluate, what it opens is what it
\* committed to, and what the verifier computes for a query, from that query's own
\* neighbors, is what the prover folded there; out of domain they agree on the mask.
ProverAndVerifierAgree ==
  /\ MaskValuesInOrder
  /\ stage \notin {"failed", "rejected"}
  /\ stage = "verified" =>
       \A i \in DOMAIN queries :
         oracle_evaluations[i] = evaluation[queries[i][1] * TraceSize + queries[i][2]]
=============================================================================
