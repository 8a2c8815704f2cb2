----------------------------- MODULE ParallelFor -----------------------------
(***************************************************************************)
(* What TaskManager::ParallelFor promises its callers (task_manager.h), no *)
(* matter how many threads serve it: func is invoked on pieces of          *)
(* [start, end) no larger than maxChunk, never twice on one index and only *)
(* while the call is open; the call returns normally only when every index *)
(* was served and nothing was thrown, and otherwise rethrows one of the    *)
(* exceptions func threw.                                                  *)
(***************************************************************************)
EXTENDS Integers, Sequences

CONSTANT Calls       \* arguments: records with fields start, end, maxChunk, ...

VARIABLE history     \* one record per call of ParallelFor, in call order

\* An exception is known by the first index of the piece whose func threw it.
NoException == -1

Indices(c) == {i \in c.start .. c.end : i < c.end}

Served(h) == UNION {p[1] .. p[2] - 1 : p \in h.invoked}

Init == history = <<>>

Call(c) ==
  history' = Append(history, [call |-> c, invoked |-> {}, thrown |-> {},
                              open |-> TRUE, error |-> NoException])

\* One invocation of func on [from, to) ends, normally or by throwing.
Invoke(g, from, to, throws) ==
  LET h == history[g] IN
  /\ h.open
  /\ from < to /\ to - from <= h.call.maxChunk
  /\ from .. to - 1 \subseteq Indices(h.call) \ Served(h)
  /\ history' = [history EXCEPT
       ![g].invoked = @ \cup {<<from, to>>},
       ![g].thrown  = IF throws THEN @ \cup {from} ELSE @]

Return(g) ==
  LET h == history[g] IN
  /\ h.open
  /\ h.thrown = {}
  /\ Served(h) = Indices(h.call)
  /\ history' = [history EXCEPT ![g].open = FALSE]

Rethrow(g, from) ==
  /\ history[g].open
  /\ from \in history[g].thrown
  /\ history' = [history EXCEPT ![g].open = FALSE, ![g].error = from]

Piece(c) == {p \in Indices(c) \X (c.start .. c.end) :
               p[1] < p[2] /\ p[2] - p[1] <= c.maxChunk}

Next ==
  \/ \E c \in Calls : Call(c)
  \/ \E g \in DOMAIN history :
       \/ Return(g)
       \/ \E from \in history[g].thrown : Rethrow(g, from)
       \/ \E p \in Piece(history[g].call), throws \in BOOLEAN :
            Invoke(g, p[1], p[2], throws)

Spec == Init /\ [][Next]_history
=============================================================================
