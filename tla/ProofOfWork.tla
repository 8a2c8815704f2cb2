----------------------------- MODULE ProofOfWork -----------------------------
(***************************************************************************)
(* src/starkware/channel/proof_of_work.cc: the parallel search for the     *)
(* lowest nonce whose hash has enough leading zeros.                       *)
(*                                                                         *)
(* Every task of one ParallelFor searches the chunk of its own index, then *)
(* takes further chunks from an atomic counter until the chunk it got lies *)
(* above the lowest nonce any task has found, or the counter has wrapped   *)
(* around the word.  A step makes at most one access to an atomic.  The    *)
(* hash is an arbitrary set of valid nonces, those that                    *)
(* ProofOfWorkVerifier::Verify accepts.  The names of the specification    *)
(* leave room for those of Channels, beside which it is proved.            *)
(***************************************************************************)
EXTENDS WordRange, FiniteSets

CONSTANTS
  ThreadCount,      \* thread_count: tasks of the ParallelFor
  ChunkSize,        \* chunk_size, a power of two like the word
  ValidSets         \* the sets of valid nonces a seed may have

ASSUME SearchAssumption ==
  /\ ThreadCount \in Nat \ {0}
  /\ ChunkSize \in Nat \ {0}
  /\ ThreadCount * ChunkSize < Word
  /\ \E n \in 1 .. Word : Word = n * ChunkSize
  /\ ValidSets \subseteq SUBSET U64

VARIABLES
  valid,                  \* nonces with digest_word < work_limit
  next_chunk_to_search,
  lowest_nonce_found,
  pc,                     \* where each task is in its loop
  nonce_start,            \* of each task
  nonce,                  \* what SearchChunk returned to each task
  curr_nonce,             \* of each task's compare-exchange loop
  searched,               \* history variable: chunks that were searched
  result                  \* of Prove

search_vars == <<valid, next_chunk_to_search, lowest_nonce_found, pc, nonce_start, nonce,
          curr_nonce, searched, result>>

Tasks == 0 .. ThreadCount - 1

nonce_bound == ThreadCount * ChunkSize

MaxNonce == Word - 1                  \* numeric_limits<uint64_t>::max()

Searching == -1                       \* Prove has not returned
NoNonce == -2                         \* nullopt; the assertion "No nonce was found."

LowestOf(S) == CHOOSE n \in S : \A m \in S : n <= m

\* The nonces the loop of SearchChunk visits.
Chunk(start) == {n \in U64 : start <= n /\ n < AddU64(start, ChunkSize)}

SearchChunk(start) ==
  IF Chunk(start) \cap valid = {} THEN NoNonce ELSE LowestOf(Chunk(start) \cap valid)

SearchInit ==
  /\ valid \in ValidSets
  /\ next_chunk_to_search = nonce_bound
  /\ lowest_nonce_found = MaxNonce
  /\ pc = [t \in Tasks |-> "search"]
  /\ nonce_start = [t \in Tasks |-> t * ChunkSize]
  /\ nonce = [t \in Tasks |-> NoNonce]
  /\ curr_nonce = [t \in Tasks |-> MaxNonce]
  /\ searched = {}
  /\ result = Searching

\* SearchChunk, and the load of lowest_nonce_found when it found a nonce.
Search(t) ==
  LET found == SearchChunk(nonce_start[t]) IN
  /\ pc[t] = "search"
  /\ pc' = [pc EXCEPT ![t] = IF found = NoNonce THEN "fetch" ELSE "lower"]
  /\ nonce' = [nonce EXCEPT ![t] = found]
  /\ curr_nonce' = [curr_nonce EXCEPT ![t] =
                      IF found = NoNonce THEN @ ELSE lowest_nonce_found]
  /\ searched' = searched \cup {nonce_start[t]}
  /\ UNCHANGED <<valid, next_chunk_to_search, lowest_nonce_found, nonce_start, result>>

\* Mutant: the store does not check that nobody lowered the value meanwhile.
ExchangeAlways(t) == TRUE

Exchanges(t) == lowest_nonce_found = curr_nonce[t]

\* Mutant: a failed exchange does not load the value it met.
KeepExpected(t) == curr_nonce[t]

ExpectedAfterFailure(t) == lowest_nonce_found

\* One turn of the compare-exchange loop: it stores nonce, or loads a new value.
Lower(t) ==
  /\ pc[t] = "lower"
  /\ nonce[t] < curr_nonce[t]
  /\ IF Exchanges(t)
     THEN /\ lowest_nonce_found' = nonce[t]
          /\ pc' = [pc EXCEPT ![t] = "fetch"]
          /\ UNCHANGED curr_nonce
     ELSE /\ curr_nonce' = [curr_nonce EXCEPT ![t] = ExpectedAfterFailure(t)]
          /\ UNCHANGED <<lowest_nonce_found, pc>>
  /\ UNCHANGED <<valid, next_chunk_to_search, nonce_start, nonce, searched, result>>

\* Mutant: the counter counts chunks, and is used as a nonce.
NextNumber(start) == AddU64(start, 1)

NextChunk(start) == AddU64(start, ChunkSize)

\* nonce_start = next_chunk_to_search.fetch_add(chunk_size), after a search that
\* found nothing or once lowest_nonce_found is at most the nonce.
Fetch(t) ==
  /\ pc[t] = "fetch" \/ (pc[t] = "lower" /\ nonce[t] >= curr_nonce[t])
  /\ pc' = [pc EXCEPT ![t] = "check"]
  /\ nonce_start' = [nonce_start EXCEPT ![t] = next_chunk_to_search]
  /\ next_chunk_to_search' = NextChunk(next_chunk_to_search)
  /\ UNCHANGED <<valid, lowest_nonce_found, nonce, curr_nonce, searched, result>>

\* Mutants: the wrap-around goes unnoticed; the first chunk after the initial ones
\* is taken for a wrap-around.
GoesOnPastWrap(t) == nonce_start[t] < lowest_nonce_found
GoesOnAboveBound(t) ==
  nonce_start[t] < lowest_nonce_found /\ nonce_start[t] > nonce_bound

GoesOn(t) == nonce_start[t] < lowest_nonce_found /\ nonce_start[t] >= nonce_bound

\* The condition of the do-while loop.
Check(t) ==
  /\ pc[t] = "check"
  /\ pc' = [pc EXCEPT ![t] = IF GoesOn(t) THEN "search" ELSE "done"]
  /\ UNCHANGED <<valid, next_chunk_to_search, lowest_nonce_found, nonce_start, nonce,
                 curr_nonce, searched, result>>

TaskStep(t) == Search(t) \/ Lower(t) \/ Fetch(t) \/ Check(t)

\* ParallelFor returned; Prove returns the nonce or fails its assertion.
Return ==
  /\ result = Searching
  /\ \A t \in Tasks : pc[t] = "done"
  /\ result' = IF lowest_nonce_found = MaxNonce THEN NoNonce ELSE lowest_nonce_found
  /\ UNCHANGED <<valid, next_chunk_to_search, lowest_nonce_found, pc, nonce_start, nonce,
                 curr_nonce, searched>>

Returned == result # Searching /\ UNCHANGED search_vars

SearchNext == (\E t \in Tasks : TaskStep(t)) \/ Return \/ Returned

SearchSpec == SearchInit /\ [][SearchNext]_search_vars

\* ParallelFor runs every task to its end (TaskManager!EveryCallReturns).
FairSearchSpec ==
  SearchSpec /\ (\A t \in Tasks : WF_search_vars(TaskStep(t))) /\ WF_search_vars(Return)

-----------------------------------------------------------------------------
\* Chunks do not overlap if all of them start at these.
ChunkStarts == {s \in U64 : s % ChunkSize = 0}

\* What the atomics and the tasks hold: the counter and the tasks are always at the
\* start of a chunk, also after the counter wrapped around, so that two chunks are the
\* same or share no nonce; a nonce that was found, is being stored, was loaded from
\* lowest_nonce_found or is returned is a valid one, and the largest word, which means
\* that none was found, is never returned (proof_of_work.cc:72-74, 80-99).
SearchTypeOK ==
  /\ valid \in SUBSET U64
  /\ next_chunk_to_search \in ChunkStarts
  /\ lowest_nonce_found \in valid \cup {MaxNonce}
  /\ pc \in [Tasks -> {"search", "lower", "fetch", "check", "done"}]
  /\ nonce_start \in [Tasks -> ChunkStarts]
  /\ nonce \in [Tasks -> valid \cup {NoNonce}]
  /\ curr_nonce \in [Tasks -> valid \cup {MaxNonce}]
  /\ searched \subseteq ChunkStarts
  /\ result \in (valid \ {MaxNonce}) \cup {Searching, NoNonce}

\* The proof does not depend on the number of threads or their schedule: Prove
\* returns the lowest valid nonce (the purpose of lowest_nonce_found,
\* proof_of_work.cc:84-92), though chunks are searched out of order and a task may
\* lower the value while others run.
LowestNonce == result >= 0 => result = LowestOf(valid)

\* The last chunk ends where the word does, and SearchChunk does not enter it.
Searchable == 0 .. Word - ChunkSize - 1

\* The assertion "No nonce was found." fails only when no nonce of the chunks that
\* are searched is valid: no chunk is skipped, by any task, around the bound.
NotFoundMeansNone == result = NoNonce => valid \cap Searchable = {}

\* What proof_of_work.cc:68 says of the end of the search: all 64-bit nonces have
\* been searched.
FinishedSearching64Bits == result = NoNonce => valid = {}

\* A chunk is searched by one task, once: after the counter wraps around, every
\* task recognises the chunk it got as one of the initial ones.
SearchedOnce ==
  [][\A t \in Tasks : pc[t] = "search" /\ pc'[t] # "search"
                        => nonce_start[t] \notin searched]_search_vars

\* The search ends, with a nonce or with the assertion.
ProveReturns == <>(result # Searching)
=============================================================================
