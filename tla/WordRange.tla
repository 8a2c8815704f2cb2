------------------------------ MODULE WordRange ------------------------------
(***************************************************************************)
(* The unsigned word arithmetic the thread pool splits index ranges with:  *)
(* math.h's DivCeil, and task_manager.cc's GetTaskEndIdx and the loop that *)
(* cuts [start_idx, end_idx) into tasks.  A uint64_t is a number below     *)
(* Word, so a small Word reaches the wrap-around the code guards against.  *)
(***************************************************************************)
EXTENDS Integers, Sequences

CONSTANT Word                       \* 2^64 in the code

ASSUME WordAssumption == Word \in Nat \ {0, 1}

U64 == 0 .. Word - 1

\* uint64_t a + b, with both operands already words.
AddU64(a, b) == IF a + b < Word THEN a + b ELSE a + b - Word

\* uint64_t a - b.
SubU64(a, b) == IF a >= b THEN a - b ELSE a - b + Word

\* The sum wraps when the numerator is within den - 1 of the top of the word.
DivCeil(num, den) == AddU64(num, den - 1) \div den

\* Mutant: the sum is neither wrapped nor compared with end.
UnclampedEndIdx(start, chunk, end) == start + chunk

GetTaskEndIdx(start, chunk, end) ==
  LET res == AddU64(start, chunk)
  IN  IF res < start \/ res > end THEN end ELSE res

\* std::max of the caller's min_work_chunk and an even share of the range over
\* kTaskRedundancyFactor tasks per thread.
kTaskRedundancyFactor == 4

SplitSize(start, end, minWork, threads) ==
  LET share == DivCeil(SubU64(end, start), kTaskRedundancyFactor * threads)
  IN  IF minWork > share THEN minWork ELSE share

\* What `for (task_idx = start; task_idx < end; task_idx = task_end_idx)` visits,
\* in order: [from, to) of every task.
SplitRange(start, end, split) ==
  LET count == IF start >= end THEN 0 ELSE (end - start + split - 1) \div split
      from(k) == start + (k - 1) * split
  IN  [k \in 1 .. count |->
        [from |-> from(k), to |-> GetTaskEndIdx(from(k), split, end)]]
=============================================================================
