# A verification project for ethSTARK

ethSTARK proves that a hash chain was computed (`src/starkware/main/rescue`) with
a STARK: a prover commits to an execution trace with Merkle trees, draws the
verifier's challenges from a hash of everything it sent, folds a polynomial with
FRI and writes one proof file, which the verifier reads front to back. The
program is a deterministic protocol over a parallel engine; what is hard in it is

* that the parallel engine loses no task and no wake-up, and that its result does
  not depend on the schedule;
* that prover and verifier, two separate pieces of code with no message headers
  between them, agree at every byte on what comes next, for every set of queries;
* that randomness never outlives, repeats or precedes the data it must depend on;
* that what is accepted is what was committed to;
* that the constraints, their degrees and domains, and the orders and powers of the
  algebra below them fit together: a slip in them makes right proofs fail, or, worse
  and unseen by any test of a right proof, lets a wrong trace pass.

This directory holds TLA+ modules of those parts, TLC configurations that check
them on small instances, and proofs that TLAPS checks for all instances. Paths
below are relative to `src/src/starkware/`.

## 1. Inventory

| Component | State | Operations | Modelled in |
|---|---|---|---|
| Thread pool, `utils/task_manager.*` | `tasks_`, two condition variables with sleeper counts, `continue_running_`, per-call `siblings_counter` and `eptr` | `ParallelFor`, `TaskRunner`, destructor | `TaskManager`, `ParallelFor`, `WordRange` |
| Proof of work, `channel/proof_of_work.*` | two atomics, a nonce per task | `Prove`, `Verify` | `ProofOfWork` |
| Hash chain and Prng, `randomness/*` | `hash_`, `counter_`, `spare_bytes_` | `GetRandomBytes`, `UpdateHashChain` | `HashChain`, `Prng` |
| Channels, `channel/*` | a Prng, the proof, the read index, `in_query_phase_` | send, receive, draw, `ApplyProofOfWork`, `BeginQueryPhase` | `Channels` |
| Merkle tree and scheme, `commitment_scheme/merkle/*` | `nodes_`, the queue of known nodes | `AddData`, `GetRoot`, `GenerateDecommitment`, `VerifyDecommitment` | `Merkle` |
| Table commitment, `commitment_scheme/table_*`, `packaging_*`, `packer_hasher.*` | queries, rows to request, missing elements | `AddSegmentForCommitment`, `Commit`, `StartDecommitmentPhase`, `Decommit`, `Query`, `VerifyDecommitment` | `TableCommitment` |
| FRI, `fri/*` | layers, evaluation points, query indices | commitment phase, query phase, last layer | `Fri` |
| LDE cache and trace, `algebra/lde/*`, `stark/committed_trace.*` | `cache_`, `lde_manager_` | `EvalOnCoset`, `EvalAtPoints`, `FinalizeEvaluations`, `Commit`, `DecommitQueries` | `CompositionOracle` |
| STARK and OODS, `stark/*` | the traces, oracles and commitments of one run; the transcript on each side | `ProveStark`, `VerifyStark` and what they call; `EvalComposition`, `DecommitQueries`, `VerifyDecommitment` | the protocol in `Stark` and `Oods`, the oracles query by query in `CompositionOracle` |
| Composition polynomial, `composition_polynomial/*` | scratch memory per worker | `EvalOnCosetBitReversedOutput`, `EvalAtPoint`; the breaker, periodic columns, neighbors | values in `CompositionPolynomial` and `Polynomials`, tasks in `CompositionOracle` |
| AIRs, `air/*` | `output_`, `chain_length_`; constraints and mask of the boundary AIR | trace, output, mask, periodic columns, exponents, `ConstraintsEval` | `RescueAir`, `BoundaryAir` |
| Fields, polynomials, FFT, domains (`algebra/*`), `utils/bit_reversal.*`, `math/*` | none | pure arithmetic on words, elements and vectors | `BaseField`, `ExtensionField`, `Polynomials`, `BitReversal` |
| Statement and `main/*` | output, chain length, private input | checks of the inputs, seed of the channel, start of each side | `RescueAir`, `Stark`, without files and JSON |
| `utils/*` other than the pool, `crypt_tools/*` | none between calls | parsing, formatting, hashing | no |

How they interact. `ProveStark` calls everything below it in one thread; only
`ParallelFor` makes other threads run. It is called by the proof of work, by
`CommittedTraceProver::Commit` (one task per coset, each of which calls
`ParallelFor` again inside the LDE and then adds a Merkle segment), by the
composition polynomial, the LDE, the breaker and the bit reversal. All messages
go through one channel object per side; the channel owns the Prng, the Prng owns
the hash chain. The table commitment wraps the packaging scheme, which wraps a
Merkle scheme, on each side. The verifier has no threads.

Hard behaviours and the correctness of each part:

* **Thread pool.** Closures refer to locals of the call that queued them; a waiting
  caller runs other calls' tasks on its own stack; two condition variables with
  hand-kept sleeper counts; exceptions; ranges that end at the top of the word.
  Correct when no closure outlives its call, counters are exact on every path,
  no wake-up is lost, no nesting deadlocks, and every index is served once.
* **Proof of work.** Chunks are searched out of order, the lowest nonce is kept by
  compare-exchange, the chunk counter wraps. Correct when the answer is the
  lowest valid nonce whatever the schedule, and failure means there is none.
* **Randomness and channels.** Byte counts depend on rejection sampling, so the
  generator passes through every alignment. Correct when bytes are fresh, depend
  on all messages so far, and both sides hold the same generator at each call.
* **Commitments.** Order and extent of what is sent are computed twice, by
  different loops, from the queries. Correct when the loops agree for every set
  of queries and the result is a binding vector commitment.
* **FRI, LDE, STARK.** Queries are mapped between layers and between FRI's domain
  and the trace's cosets; the LDE cache is filled without a lock, one task to a
  coset. Correct when what is opened is what was folded, and each coset is
  filled by one task before it is read.

* **AIRs and composition polynomial.** Constraints vanish on sets of rows written as
  quotients of polynomials, are adjusted in degree by unsigned differences, and read
  constants merged from two hashes. Correct when right traces are accepted, padded
  or not; when a wrong state anywhere in the trace is noticed; and when each constraint
  alone reaches the degree bound exactly.
* **STARK and OODS.** Prover and verifier draw, list sampled values and their
  conjugates, and group boundary constraints by code of their own. Correct when both
  arrive at the same polynomials from the same transcript, and what is accepted are
  the values of the committed columns.
* **Algebra.** Words are twice reduced or not at all; transforms exist in two orders,
  and the breaker runs some layers of one. Correct when words compute as the field does,
  and the orders are those that the next step assumes.

`PROJECT.json` lists the components with their status and the hazards, each at
the line where it bites, with the property that would catch it.

## 2. Modules

`WordRange` - words of `Word` values, `DivCeil` (`math/math.h`), `GetTaskEndIdx`
and the way `ParallelFor` splits a range. Additions wrap.

`ParallelFor` - the abstract promise of the pool: func is invoked on pieces of
the range while the call is open, never twice on an index; a normal return
served everything; otherwise one of the thrown exceptions is rethrown.

`TaskManager` - the pool. A thread is a stack of frames: `runner` for a call of
`TaskRunner` (a worker's own, or the wait inside `ParallelFor`), `task` for a
closure that is running, `failed` for one whose func threw. Each critical section
of `mutex_` is one action (`Submit`, `Sleep`, `RunTask`, `ReturnFromParallelFor`,
`WorkerExit`, `FinishTask`, `Destroy`), and so is each return or throw of func.
`wait[t]` distinguishes a blocked thread from a notified one that has not
the mutex yet, as `n_sleeping_threads_` does not; `SpuriousWake` is always
possible. func may nest, throw, or meet its siblings at a barrier, as in
`task_manager_test.cc`. `history` records what the interface promises about.

`ProofOfWork` - the tasks of `Prove`; each action accesses one atomic. The hash
is an arbitrary set of valid nonces. The type invariant says that what the counter hands out
starts a chunk: `SearchedOnce` compares starts only, and chunks that overlap would pass it.

`HashChain` - the hash chain as operators on its state; `Prng` - one generator
asked for any sizes, mixed with any messages; `Channels` - two hash chains, one
on each side. The prover makes any sequence of calls; the file is delivered
whole, cut or altered; the verifier makes the matching calls. A random byte is
named by the hash it comes from and its place, so dependence on the transcript
is equality of names. `first_operand` is the order in which the compiler
evaluates two draws that are arguments of one constructor.

`VectorCommitment` - the abstract promise of a commitment scheme: accept only
committed values, and accept those when nothing was altered. `Merkle` - segments
hashed by concurrent tasks, one node a step, then both queue loops one turn a
step. `TableCommitment` - the table and packaging layers above an inner scheme
that keeps the promise of `VectorCommitment`. `Containers` - iteration of
`std::set` in order.

`Fri` - the prover folds and commits layer by layer, sends the last layer and opens
the cosets of the queries; the proof is delivered; the verifier runs its
phases, one turn of a loop to a step. `Fold` is a free constructor that shows its operands,
evaluation point and domain element, so a fold with another index, basis
or power of the point is another value. Layers' tables keep the promise of
`VectorCommitment`. A draw is named by the transcript before it; after
another transcript the verifier draws any queries. The author of a proof may
have committed to one value that is not the fold of the layer before (`flaw`): the
prover's code never does, but the verifier is there to notice. The last
layer's coefficients stand for the layer itself; whether the witness
has low degree, so that they exist, is a choice.

`BitReversal` - the order in which evaluations are kept, shared by the two modules
that map indices between domains.

`CompositionOracle` - the traces of one oracle from their commitment to the
verifier's evaluation of the composition polynomial. `Commit` runs one task to a
coset over the unlocked `CachedLdeManager`: `LookUp` is the test of the cache and the
allocation of an entry that is not written yet, `Evaluate` writes it,
`AddSegment` reorders it and gives it to the table, as `segments` shows.
`FinalizeEval` drops the polynomials and may come as soon as all is committed; after it a
coset that is not cached ends the run (`stage = "failed"`). `EvalComposition`
goes coset by coset (`StartCoset`, `EndCoset`): threads take tasks of `task_size`
points (`StartTask`), each a loop (`EvalPoint`) that steps the powers of the point and
the periodic columns' iterator in `worker_mem` of its thread. `DecommitQueries`
takes any indices FRI may ask for and opens the mask's cells around each, and
`VerifyDecommitment` evaluates the composition at each query from the
responses. A column's value is a free constructor of trace,
column and point, a composition's of all its arguments, and a point is its exponent of
the domain's generator. So an order, a neighbor, a power or a period
that is off by anything gives another value. Tables keep the promise of
`VectorCommitment`. The original trace is committed in natural order of its LDE, the composition
trace in bit-reversed order.

The modules of the protocol on real elements form a chain, each extending the one before:
`BaseField` (Montgomery words; their width, the modulus and Montgomery's constants are
constants that `FieldAssumption` ties to each other), `ExtensionField`,
`Polynomials` (cosets, transforms, LDE, evaluation, periodic columns, the breaker),
`RescueAir` and `BoundaryAir`, `CompositionPolynomial`, `Oods`, and `Stark`. All but the last hold
operators, named as the functions they translate. A vector is a sequence that is filled once
(`Vector`). `RescueAir` keeps the three hashes of a batch, the four kinds of columns of a state
and the groups of the code's 52 constraints, as functions of the size of a word (a
state is three words) and the number of rounds, so that a small Rescue is an instance.

`Stark` is one run of both programs. An action is a call of `ProveStark` or `VerifyStark`
(`stage` names the next one); a failed assertion ends the run as `refused` (parameters),
`failed` (any other) or `rejected` (the verifier's answer). `transcript` and
`v_transcript` list the seed, what was sent or received, and what was drawn: a drawn
element is `Challenge` of the transcript before it, any function whose values are not in the base
field. The entry of a commitment is the table, which `VectorCommitment` lets
stand for its root. FRI stands as its promise, which `Fri` checks: it accepts a first layer of low
degree that is what `VerifyDecommitment` computes from the two tables at each query, and here every
point of the domain is one, so that nothing passes by luck. The author of a proof may
have deviated from the code once (`deviation`): in one state of the
trace, from which the hashes go on, in the output, or in one of
the sampled values, with another changed so that the out-of-domain equation holds again.
Its own assertions do not stop such an author.

The hash is ideal throughout: its value is what was hashed. Nothing is said
about finding collisions or preimages.

Each model's comments name operators called mutants: each changes one definition the
way a plausible bug would, and TLC finds the named property violated
when it replaces that definition (`"mutants"` in `PROJECT.json`). They are used
nowhere else.

## 3. Runs

| Run | Instance | What it shows |
|---|---|---|
| `TaskManager_safety` | 3 threads, 3 calls, words of 5 bits | Counters exact, no closure outlives its call, no lost wake-up, work conserved, and `ParallelFor`'s promise, with calls nested in tasks that throw at ranges whose ends wrap, and the barrier of the tests |
| `TaskManager_live` | the same, 2 calls, fair threads | Every call returns, the destructor joins all workers |
| `ProofOfWork` | word 16, chunks of 2, 3 tasks, every set of an even and an odd nonce, and none | Chunks never overlap, what is held or returned is valid, lowest nonce, nothing skipped, nothing searched twice, the search ends |
| `ProofOfWork_last_chunk` | the same | expected violation, see Findings |
| `Prng` | digests of 5, requests 1, 2, 3, 5, 7, one message | The stream is fresh and bound to the last message |
| `Channels` | five calls, digests of 5, numbers of 2 | The generators stay in step, no assertion fails on the proof as it was written, a cut proof is not accepted |
| `Channels_pow_bits` | two calls | expected violation, see Findings |
| `Merkle` | 1 to 8 leaves, 1 to 8 segments, every query set, claim and single alteration | Segments never collide, the root is the data's, the scheme is binding |
| `TableCommitment` | 7 table shapes, 1 to 8 rows a package, every choice of up to 3 queries | Every cell is sent or requested once and read where it was sent, binding |
| `Fri` | every step list for a trace of 4 rows, four for one of 8 or 4 cosets, 2 or 3 queries; one alteration, or one wrong value, or neither | Right proofs are accepted and read to their end; what is accepted folds right along every query; every cell that cannot be computed is sent once |
| `CompositionOracle` | 9 setups: traces of 2 to 8 rows, 1 to 4 cosets, one or two traces, masks of up to 5 cells, tasks of 1 to 8 points on 2 or 3 threads; up to 2 queries | Each table is committed in the order of FRI's domain, the composition polynomial is the same whatever the tasks' schedule, and what prover and verifier compute for a query agrees |
| `Stark` | 89 setups over the field of 257 elements: Rescue with words of one element and 2 rounds, chains of 3, 6 and 9 hashes and two that are no statement, 2 to 8 cosets, many FRI parameters, tasks of 3 to 20 points; every wrong state of a chain of 3 and of one hash of a chain of 6, a wrong output, wrong sampled values | Right proofs are accepted whenever their parameters are; a chain that is accepted is right, and so are the sampled values; both sides set up the same polynomials; every constraint has its full degree; the arithmetic on words is exact |

Why these bounds are enough for the cases to happen:

* Three threads are a caller, a worker that nests and a worker that sleeps. Two
  nested calls under one outer call let a waiting caller run another call's
  task. Words of 5 bits with a range that ends at 31 make `start + chunk` wrap.
  The two workers are interchangeable, and symmetry is used in the safety run only.
* Five chunks are taken from the counter before it wraps, with three tasks, so
  all tasks can be past the wrap while one still searches its first chunk.
* Digests of 5 bytes and numbers of 2 keep the ratio of 20 to 8: a run of draws
  leaves every number of spare bytes. `MaxCounter` and `MaxMixes` bound the
  run, and as they simply stop it, that run alone has `CHECK_DEADLOCK FALSE`.
* Eight leaves give queues in which a right child, a left child and a pair wait
  at once on two layers; 8 segments are single leaves, where `AddData`
  hashes nothing and the root layer count is at its limit.
* Table shapes cover a package of all rows, of some and of one, cells of base and
  extension fields, one and two segments, and a segment smaller than a package.
* The step lists include first step 0 (no evaluation point is drawn, and the
  verifier dereferences an empty optional; that the read itself is harmless is assumed,
  that its value enters no fold is checked), one to
  three layers and steps of up to 2. Two or three queries out of 4 to 16 are
  repeated, meet in a cell, or share a coset at every layer.
* The setups of `CompositionOracle` are those of the two oracles of one proof (the
  AIR's, on fewer cosets than the domain has, whose evaluations go to the
  breaker; that of the boundary constraints on both traces, which FRI asks about)
  and the mixed mask of `composition_oracle_test.cc`. Rows of masks wrap around
  the coset, tasks do not divide it, start within a period, or are more than the threads; a trace of 8 rows
  makes bit reversal differ from a swap of halves.
* A prime of 9 bits in words of 11 has what 62 bits in words of 64 have: two bits to
  spare, so that the sum of two elements stays below the sign bit; and 257 - 1 is a power of
  two, so that every coset of the runs exists. Rescue needs cubing to be a
  permutation, which it is. Two rounds are one with each kind of neighbor; a chain of 6 has a
  batch after another, and one of 9 is padded by a batch, to a trace of 32 rows. Words of one
  element make a state of three columns: first, second and capacity, each with constraints of its own.
  Of the wrong states, those are left out that are the trace of another
  witness (`AnotherWitness`); the few that end in a row that no constraint needs are accepted with
  a right output, which is what `AcceptedChainIsRight` asks for. Of the parameters about half are
  refused, by every conjunct of `FriParametersAllowed` and `StarkParametersAllowed`.
* In every run but `Prng` a state without a successor is an error: the ends of
  the program are explicit actions.

Fairness. `TaskManager!FairSpec` has weak fairness for the steps of `TaskRunner` and
of the closure on each thread, and for the main thread's destruction of the
pool. The code justifies it: the operating system runs every thread, func
terminates, and a thread that asks for `mutex_` gets it. A critical
section is one step, so weak fairness of the step assumes a mutex without
starvation. Spurious wake-ups may occur but are never relied on. In
`ProofOfWork!FairSearchSpec` each task runs on, which is what
`EveryCallReturns` gives. The other components are sequential loops over finite
data: deadlock checking and the absence of cycles other than at the explicit end
show that they end; they state no liveness.

## 4. Proofs

| Theorem | For every | Says |
|---|---|---|
| `TaskManagerProofs!GetTaskEndIdxIsMinimum` | word | the overflow test yields the minimum of the two ends |
| `TaskManagerProofs!SplitRangePartitions` | range, split size | the tasks are non-empty, adjacent and cover the range |
| `TaskManagerProofs!TypeCorrect` | number of threads, call arguments | type invariant |
| `TaskManagerProofs!CountersExact` | " | `siblings_counter` is the number of queued and running tasks |
| `TaskManagerProofs!NoDangling` | " | a task's call has not returned |
| `TaskManagerProofs!NoWakeupLost` | " | no thread sleeps on a counter that is zero already |
| `TaskManagerProofs!WorkIsConserved` | " | while a task is queued and a thread sleeps, some thread is on its way to pop |
| `TaskManagerProofs!CallsInvariant` | " | every index of an open call is served, or held by one queued task or one frame |
| `TaskManagerProofs!PoolImplementsParallelFor` | " | the pool implements `ParallelFor`, step by step |
| `ChannelsProofs!PrngTypeCorrect`, `SpareFits` | digest size, messages, request sizes | types; the buffer assertion never fails |
| `ChannelsProofs!StreamIsFresh` | " | no byte is handed out twice |
| `ChannelsProofs!FreshAfterEveryMessage` | " | bytes come from the current hash |
| `ChannelsProofs!ChannelInvariant`, `TypeCorrect` | digest and number size, data, rejections, bits of work, number of calls and draws | the invariant below; types |
| `ChannelsProofs!RandomnessIsBound` | " | what is drawn comes from the hash of all that was sent before it |
| `ChannelsProofs!ChannelsInStep` | " | the verifier repeats the prover on an intact proof, and accepts no cut one |
| `MerkleProofs!MerkleInvariant`, `TypeCorrect` | height, leaves, number of segments, queries, claims and damage | the invariant below; types |
| `MerkleProofs!SegmentsApart` | " | concurrent segments write different nodes, once, after their children |
| `MerkleProofs!RootCommitted` | " | the root is the hash of the data by halves |
| `MerkleProofs!SchemeBinds` | " | `Merkle` implements `VectorCommitment`, step by step |
| `TableCommitmentProofs!TableInvariant`, `TypeCorrect` | number of rows, columns and segments, cell and digest size, queries and damage | the invariant below; types |
| `TableCommitmentProofs!CellsOnce` | " | each cell of an opened package is sent alone, or within a row, or computed by the verifier; the two enumerations of the cells to send agree |
| `TableCommitmentProofs!TableBinds` | " | `TableCommitment` implements `VectorCommitment`, step by step |
| `FriProofs!FriStructure`, `TypeCorrect` | parameters that `FromJson` accepts, queries, flaw and damage | the invariant below; types |
| `FriProofs!FoldsRight` | " | what is accepted folds right along every query, from the first layer to the last |
| `FriProofs!SentOnce` | " | each cell of a query's coset that the verifier cannot compute is sent, once |
| `FriProofs!FoldsAgree` | " and all values | the verifier's fold of a coset is the element of the prover's next layer |
| `FriProofs!RightAccepted` | " | a right proof is accepted and read to its end |
| `CompositionOracleProofs!OracleInvariant`, `TypeCorrect` | sizes, masks, powers, task size, number of threads, queries | the invariant below; types |
| `CompositionOracleProofs!CommittedInOrder` | " | row by row, both tables hold the columns' values at the points of FRI's domain, whatever the order of the tasks |
| `CompositionOracleProofs!CompositionInOrder` | " | once the last task has ended, every point of the composition polynomial is written, in that order, from its own neighbors, powers and periodic values |
| `CompositionOracleProofs!Agreement` | " | what the verifier computes at a query from the opened cells is what the prover's tasks wrote there |
| `StarkProofs!StarkInvariant` | setup, that is parameters, witness and deviation; matrices and constants of the hash, challenges | the invariant below |
| `StarkProofs!VerifierInStep` | " | the verifier reads what the prover wrote, draws what it drew and sets up the same two composition polynomials |
| `StarkProofs!TypeCorrect` | " | sizes of the trace, its interpolations, the broken columns, the first layer and the boundary constraints |
| `ChannelsProofs!SearchTypeCorrect` | word, chunk, number of tasks, valid nonces | the counter and the tasks stay at starts of chunks, also after the wrap; nonces that are held, stored or returned are valid |
| `ChannelsProofs!ReturnsLowest` | " | the nonce returned is the least valid one |
| `ChannelsProofs!FailsOnlyWithoutNonce` | " | a failed search means no valid nonce below the last chunk |
| `ChannelsProofs!SearchesOnce` | " | no nonce is tried twice |
| `StarkProofs!SumIsExact`, `DifferenceIsExact`, `ProductIsExact` | odd modulus, word with two bits to spare | results are reduced, and are those of the integers modulo `kModulus` |
| `StarkProofs!StandardFormOfUint`, `StandardFormOfProduct`, `StandardFormOfSum` | " | what elements stand for is imported, multiplied, added and subtracted as integers are |
| `StarkProofs!ExtensionProduct` | " | three base products make the product of the extension |
| `StarkProofs!ConjugateOfProduct` | " | conjugation keeps products, as `oods.cc` assumes |
| `StarkProofs!ExtensionInverse` | " | the inverse of the norm gives the inverse of the element |

The assumptions are the named ASSUMEs of the modules (`WordAssumption`,
`PoolAssumption`, `DigestAssumption`, `PrngAssumption`, `ChannelAssumption`, `MerkleAssumption`,
`TableAssumption`, `FriAssumption`, `SearchAssumption`, `FieldAssumption`, `RescueAssumption`,
`NothingAssumption`, and a `SetupAssumption` of `CompositionOracle` and of `Stark`), which TLC evaluates
in the runs. The one of `Stark` says that the rows of a trace and 2^10 cosets, the most that
`StarkParameters::FromJson` admits, can be counted in a word. Lemmas that several of the proofs need, on least
elements, sequences, powers of two, quotients, reversed bits and sets in order, are in `Elementary`. What a recursive
function computes is found there by its least counterexample: `LeastOf` stands for induction.

*Thread pool.* `SiblingsExact` is not inductive: a step of `FinishTask` needs to
know that its frame's group exists, and a return that its caller's frame
is on the stack. The inductive invariant `IInv` of `TaskManagerProofs` adds that
stacks alternate runner and task frames with a runner at a worker's bottom
(`StackShape`), that all groups named by tasks and frames are recorded
(`GroupsKnown`), and that every group with siblings left has its caller
waiting (`CallerWaits`), from which `NoDanglingGroup` follows. Sets of queued
and running positions grow and shrink by one element at each step; a lemma for
each kind of change of a stack or the queue counts that.

No wake-up is lost because a thread that sleeps on its call's counter sleeps only while that
counter is not zero, and the step that makes it zero wakes it (`SleepersWait`): each step either
leaves the waits of the other threads alone or wakes some (`Wakes`). `WorkConserving` is not
inductive. The task that is the last sibling of its call wakes only the callers, and the thread
that is to pop next may be one of those. `PoolServed` says who it is: while tasks are queued and a
thread sleeps on the new-task condition, some thread `Rouses`, that is, it is awake in a runner that
is a worker's own or has siblings of its call left; `RousersRun` shows that such a thread is on
its way to pop. The frames of a stack lie in the order of the calls they belong to (`Nested`), so
the caller of the oldest unfinished call cannot be kept under another one's: when `Main` is idle every
call is finished (`IdleMainEndsAll`), and the destructor finds no task (`QuietAfterDestroy`).

`PoolImplementsParallelFor` maps each step to one of `ParallelFor` or to none. It rests on
`CallsInv`: a call has one caller (`OneCaller`); each index of its range is served, or else is held by
exactly one queued task or one frame (`InFunc`, `OneServer`); and `eptr` is one of the
exceptions its functions threw, absent only if none did (`ErrorsKept`). The
refinement is of the safety of `ParallelFor`; that calls return is checked by TLC.

*Prng.* The stream repeats no byte because places grow: the invariant says that
the spare bytes are distinct bytes of the current hash below the counter
(`GoodChain`), that none of them is in the stream, and that every byte of the
stream from the current hash lies below the counter (`StreamIsPast`). An update makes the
hash longer, so older bytes differ by their hash.

*Proof of work.* The counter `next_chunk_to_search` is a word that the tasks
add to after the last chunk too, so what it says depends on whether it has wrapped.
`CounterRight` of `SearchInv` says which: before, all chunks handed out
lie below it (`CounterFresh`); after, it counts the tasks that ended on the wrap,
which are too few to bring it back to the bound they stop at (`CounterWrapped`).
`ChunksApart` and `DoneAbove` then keep the chunks disjoint, and `AllCovered` is the
core of the argument: each valid nonce that is below the bound is tried, lies in the
chunk of a running task, or is in a chunk not yet handed out.

*Channels.* `IInv` keeps the record of the prover's calls, and says that the record determines
everything: the generator before and after each call, the place of each call's bytes in the
proof (`Offsets`), and, if the proof has not been altered, the verifier, which after `n` answers has read
up to the `n`-th offset and holds the generator of that call. A proof that was cut is shorter than
the last offset, so it is not read to its end. Draws that are rejected make the
number of bytes taken from the generator depend on its state; equal states take equally many.

*Merkle.* The nodes over the leaves of a segment that have `w` leaves below each are
a row, `w * (n_segments + s)` and the `w` nodes from there. Rows of different segments or widths are
disjoint (`RowsDisjoint`), and together with the nodes above the segments they are all nodes (`RowsCover`); the
loops of `AddData` go row by row, so a node is written exactly when its segment's call has passed it
(`Computed`). Hence both children are there, no other call is at the node, and the depth that
`Commit` takes for computed is. `RootOf` and the nodes agree by the height of the node.
For the opening, the queue holds nodes of one layer in order and then of the layer
above (`Layered`), so the root is reached last and alone. The verifier has the same
queue as the generator when that had sent as many nodes as were asked for (`InStep`),
as both are determined by the queue before; so an intact proof suffices and its nodes are the right
siblings. That what is accepted is right goes the other way, from the root down: `KnownRight => ClaimsRight` is
kept by every turn, since the hash of a pair determines the pair.

*Table commitment.* The number of rows in a package is a power of two that is at most the
table's number of rows, so every package is whole (`PackagesAreWhole`). Columns passed one by one
and columns passed interleaved are serialized to the same cells row by row (`SegmentSerialized`),
so what a segment adds are the packages of its rows (`Packed`). The prover meets the cells to send in
its nested loops and, by a `std::set`, in the order of `RowCol`; both list the same places
in increasing order, and a set has one such list (`ListedOnce`). Hence the assertion of
`Decommit` never fails, and the messages are the cells, then the rows that complete the packages
(`SentRight`), with values from the place in `rows_to_request` that belongs to them. The verifier asks
for the same cells in the same order. If the hashes of the packages agree with the leaves, every row
of an opened package is right, so the cells are; if the cells are right and nothing
was altered, the rows sent complete packages that agree (`AnswerRight`). The answer of the
inner scheme is taken as `VectorCommitment` has it, which `SchemeBinds` proves of the Merkle scheme.

*FRI.* Sizes are powers of two of sums of steps (`Numbers`), so an index divided step by step is
the index `IndexInLayer` computes at once. `Structure` counts, stage by stage, layers,
messages, points and results against each other; the other three invariants hold on top of it.

`FoldsSoFar` gives soundness: when the verifier is at layer `i`, its results are the
folds of layer `i - 1` at the places of the queries, and the layers before fold right
(`FoldsUpTo`). A turn of `VerifyInnerLayer` inserts the results where no cell was received. If two queries meet in a cell
only one result is inserted; both are right all the same, because their places in
the layer are the same and so are the folds (`VerifiedCells`). An answer that is yes makes all the verified cells
the committed ones, received or computed, which is the next layer's part.

`OpenedSoFar` says of which layers the cells have been sent. The places of `DataQueries` are
the cosets of the queries without the queries' own places (`DataPlaces`), `DataInOrder` lists them in
order and so once, and the places that a query of the first layer leads to are those the
second layer's indices lead to (`ComputedIndices`).

`RightSoFar` gives completeness. It says what the prover's transcript is, message by message
(`TranscriptGrows`), that the layers were folded with the points drawn from its beginnings
(`TurnTaken`), that after each part of the proof comes the next layer's (`ProofComplete`),
and that on an undamaged proof the verifier's transcript is a beginning of the prover's
and its results are values of the prover's layers (`VerifierRight`). So it draws the same points and
indices, reads what was sent to it, and computes what was committed to. The last of these
rests on `FoldsAgree`: reversed in `n + 1` bits, `2 * i` is `i` reversed in `n`
(`ReverseEven`), so both sides take the same domain elements although the prover goes through whole
layers and the verifier halves the index of one coset. All four were checked
with TLC on the instance of the run `Fri`, on which right proofs are accepted and
altered or flawed ones rejected, before they were proved.

*Composition oracle.* A row of a table belongs to a point of the domain by two maps, the
coset's offset and the reversed bits of the row, and the proof keeps them as they are:
`CommitRight` says of each trace and coset what its task has made so far, so that no task sees
an entry that another has allocated and not written. `DomainOrder` then gives `CommittedInDomainOrder` in
both orders, as reversing bits twice changes nothing. For the
tasks, `TasksRight` says what a thread's memory holds, the powers and the place in the period of
the point it is to evaluate next: stepping the powers by the generator's and going round the period
lead from one point to the next (`PowersStep`, `PeriodicRead`), and the neighbors that are read
are those of the mask, wrapped around the coset (`NeighborsRead`). `AllWritten` says that a
point is written, in a task that is to start, or ahead of a thread; so when no task is left all
are written, and `EvaluationRight` that nothing else ever is. The verifier's side
is a function of the opened cells (`QueriesRight`): each neighbor of a query lies in a cell that
`DataQueries` asks for, in the row that the same two maps give (`QueryEvaluated`).

*STARK.* `InStep` compares what the two sides have by now; to be kept by a step it needs to know
how they came by it. `TranscriptRight` and `VerifierRight` say what each transcript is at each
stage, as the messages sent and the elements drawn up to there (`AfterTrace`, `AfterCoefficients`,
`AfterComposition`, `AfterPoint`, `AfterValues`), and `PolynomialsRight` from which of these a polynomial or the
constraints were made. The values sampled out of the domain are whatever was sent: an
author of a proof may have changed them, and the two sides still agree. What the verifier
reads next is the message after those it has read (`NextMessages`, `ReceivedFacts`), the prover's
list of conditions is the verifier's although they are built by different loops
(`ConditionsAgree`), and `GroupedFacts` says what grouping them by their points keeps:
all of them, each with its place as the index of its coefficient. The type invariant follows
the sizes through the code: the rows of the hashes of all batches (`RowsLength`), so that
`OutputRow` is a row where a hash ends; transforms layer by layer (`NaturalLength`, `ReverseLength`),
the flattened evaluations of all cosets (`EvaluationLength`), and the columns of the breaker
(`BrokenColumnsLength`). TLC finds every part of the two
inductive invariants true on the instance of the run `Stark`, trace lengths there being drawn from a finite set.

*Field.* A reduced word is less than a quarter of all words, so a sum stays below the sign
bit, and the sign of `val - kModulus` says whether `val` was below (`ReduceIsModulo`).
The word `u` of `MontgomeryMul` makes the low word of `kModulus * u + mul_res` zero, because
`kMontgomeryMPrime` is the negated inverse of the modulus, so the division is exact and its
result is below two moduli. A factor of a word's size can be cancelled modulo `kModulus`
(`WordCancels`), since an inverse of it is at hand. From these, `StandsFor` carries
equations of integers to the code's operations, and the theorems on the extension are
equations of integers. `kModulus` need not be prime for any of this. The loop of the base
field's inverse is only model-checked: `FieldExact` multiplies each element of the first
layer by its inverse.

Only model-checked: liveness, which is out of the prover's reach, and five properties of
`Stark`. `HonestProofAccepted`, `AcceptedChainIsRight`, `AcceptedValuesAreRight` and `DegreesAdjusted` are
about what polynomials evaluate to. A proof would need the algebra of polynomials over a field, by induction on
their coefficients and on the layers of a transform, which cannot be stated for these provers; moreover, the two about
accepted proofs hold for challenges outside a set of bad ones only, and the run names the challenges.
`FieldExact` is proved but for the base field's inverse, an exponentiation by recursion that
needs a prime modulus, and the bits of the third root's exponent. `SpareFits` is
proved and not in a run: `TypeOK` of `Channels` checks the same bound.

## 5. Findings

* `ProofOfWork_last_chunk`: `nonce_start + chunk_size` wraps to 0 for the chunk at
  the top of the word (`channel/proof_of_work.cc:39`), so "No nonce was found"
  comes without having tried it, although line 68 says that the 64 bits have been
  searched. `NotFoundMeansNone` states what does hold.
* `Channels_pow_bits`: `fri/fri_parameters.h:116` admits 50 bits of work, and
  `channel/proof_of_work.cc:56` fails above 40.

Not findings, but for a reader to know: bytes after the last message are accepted
(`IsEndOfProof` is asked by tests only); `InStep` of `Channels` assumes that both
programs were built to evaluate the two draws of an extension element in the same
order (`algebra/fields/extension_field_element.h:88`); a configured
`constraint_polynomial_task_size` of 0 is a division by zero
(`composition_polynomial/composition_polynomial.inl:134`), and `SetupType` assumes that it is not;
a segment with fewer rows than a package fails a division when it is added
(`commitment_scheme/packer_hasher.cc:74`), which is an end stage of `TableCommitment`, and no
parameters of the programs lead there; `BatchPow` collects the bits of all exponents in an
`int` (`algebra/field_operations.h:77`), so bits above the 32nd can be lost: the exponents of
a trace have them from about 2^30 rows on, and `BatchPow` of `Polynomials` has no such bound.
Three assertions are no end stages of the models, as no run leads to them:
`channel/channel_utils.cc:20` fails for a domain of 2^48 points or more to draw a query from, which is
more than can be evaluated; and the inverse of zero, in the base field and in its extension
(`base_field_element.inl:48`, `extension_field_element.inl:48`), is only asked for by the few
challenges that hit a point of the trace's domain or of the evaluation domain.

## 6. Plan

Done, in this order: pool, proof of work, randomness and channels, commitments,
FRI, traces and composition oracle; then fields, polynomials, AIRs, composition polynomial,
out-of-domain sampling and the protocol. Then the proofs: arithmetic of the fields, pool,
channels, proof of work, Merkle and table commitments, FRI, composition oracle, protocol.

What could follow: in `Stark`, that the transforms of `Polynomials` in the two orders are inverse to each other, for
sizes given by constants; and a prover whose deviation depends on the challenges.

Runs stay small in number: shallow properties give way to those of new modules.

## 7. Not modelled

The numeric constants of the real Rescue (`air/rescue/rescue_constants.h`): the models
take a matrix, its inverse and round constants of a smaller hash, and nothing is said of the
strength of either. Reading and writing of JSON, files, flags and bytes of proofs; profiling;
annotations with the statistics kept for them: no property of the protocol depends on them, except
the expected annotations of the verifier's tests. `air/test_air` and the mocks, which only tests
use. `Blake2s` and `third_party`: vendored. A prover that adapts its deviation to the
challenges: the models show that what deviates is noticed for the challenges of the
run, not how improbable the others are.
