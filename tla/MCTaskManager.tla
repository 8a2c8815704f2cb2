---------------------------- MODULE MCTaskManager ----------------------------
(***************************************************************************)
(* A pool of three threads, with a word of five bits so that the ranges    *)
(* that end at 31 make GetTaskEndIdx wrap.                                 *)
(***************************************************************************)
EXTENDS TaskManager, TLC

CONSTANTS main, w1, w2

MCWorkers == {w1, w2}

MCWord == 32

Symmetry == Permutations(MCWorkers)

Plain(start, end, maxChunk, minWork) ==
  [start |-> start, end |-> end, maxChunk |-> maxChunk, minWork |-> minWork,
   nests |-> FALSE, throws |-> FALSE, meets |-> FALSE]

Nesting(c) == [c EXCEPT !.nests = TRUE]
Throwing(c) == [c EXCEPT !.throws = TRUE]
Meeting(c) == [c EXCEPT !.meets = TRUE]

\* Two tasks of one index each, whose func calls ParallelFor.
Cosets == Nesting(Plain(0, 2, 1, 1))

\* Tasks [28, 30) and [30, 31): the end of the second piece wraps.
Edge == Throwing(Plain(28, 31, 2, 2))

\* One task for each thread, each waiting for the others (task_manager_test.cc).
Barrier == Meeting(Plain(0, 3, 1, 1))

\* One task served in two pieces, and an inverted range, which has no task.
TwoPieces == Plain(0, 2, 1, 2)
Inverted == Plain(7, 5, 1, 1)

SafetyTop == {Cosets, Barrier}
SafetyNested == {Edge}

LiveTop == {Cosets, Barrier, Inverted}
LiveNested == {TwoPieces, Edge}
=============================================================================
