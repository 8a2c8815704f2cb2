-------------------------- MODULE TaskManagerProofs --------------------------
(***************************************************************************)
(* The thread pool, for every number of threads, every word size and every *)
(* set of ParallelFor calls: types, exact sibling counters, no task that   *)
(* outlives the call it belongs to, no wake-up lost, no core that idles    *)
(* while a task is queued, and what the callers of ParallelFor rely on.    *)
(***************************************************************************)
EXTENDS TaskManager, FiniteSetTheorems, SequenceTheorems, WellFoundedInduction, TLAPS

(* The loop of ParallelFor cuts every range of every word size into         *)
(* non-empty pieces that follow each other from start to end, however       *)
(* close to the top of the word the range lies.                             *)

\* The minimum of start + chunk and end, computed without overflow: the function's
\* comment (task_manager.cc:82-85), for every word.
THEOREM GetTaskEndIdxIsMinimum ==
  ASSUME NEW start \in U64, NEW chunk \in U64 \ {0}, NEW end \in U64, start < end
  PROVE  /\ GetTaskEndIdx(start, chunk, end) \in U64
         /\ GetTaskEndIdx(start, chunk, end) > start
         /\ GetTaskEndIdx(start, chunk, end) =
              IF start + chunk <= end THEN start + chunk ELSE end
  BY WordAssumption DEF GetTaskEndIdx, AddU64, U64

\* A quotient rounded up covers the numerator and leaves less than one divisor.
LEMMA CeilingBounds ==
  ASSUME NEW n \in Nat, NEW d \in Nat \ {0}
  PROVE  LET q == (n + d - 1) \div d
         IN  q \in Nat /\ q * d >= n /\ q * d < n + d
  <1> DEFINE m == n + d - 1
             q == m \div d
  <1>1. m \in Nat
    OBVIOUS
  <1>2. q \in Nat /\ m = q * d + (m % d) /\ (m % d) \in 0 .. d - 1
    BY <1>1
  <1>3. q * d \in Nat
    BY <1>2
  <1> HIDE DEF q
  <1>4. QED
    BY <1>2, <1>3 DEF q

Piece(start, split, end, k) ==
  [from |-> start + (k - 1) * split,
   to   |-> GetTaskEndIdx(start + (k - 1) * split, split, end)]

LEMMA SplitCount ==
  ASSUME NEW start \in U64, NEW end \in U64, NEW split \in U64 \ {0}, start < end
  PROVE  LET count == (end - start + split - 1) \div split
         IN  /\ count \in Nat \ {0}
             /\ count * split >= end - start
             /\ \A k \in 1 .. count : k * split \in Nat /\ (k - 1) * split = k * split - split
             /\ \A k \in 1 .. count : (k - 1) * split < end - start
             /\ \A k \in 1 .. count - 1 : k * split < end - start
  <1> DEFINE count == (end - start + split - 1) \div split
  <1>1. end - start \in Nat \ {0} /\ split \in Nat \ {0}
    BY WordAssumption DEF U64
  <1>2. /\ count \in Nat
        /\ count * split >= end - start
        /\ count * split < end - start + split
    BY <1>1, CeilingBounds
  <1> HIDE DEF count
  <1>3. count # 0
    BY <1>1, <1>2
  <1>4. ASSUME NEW k \in 1 .. count
        PROVE  k * split \in Nat /\ (k - 1) * split = k * split - split
    BY <1>1, <1>4
  <1>5. ASSUME NEW k \in 1 .. count
        PROVE  k * split <= count * split
    <2>1. count * split = k * split + (count - k) * split
      BY <1>1, <1>2
    <2>2. (count - k) * split \in Nat
      BY <1>1, <1>2
    <2>3. QED
      BY <2>1, <2>2, <1>4, <1>2
  <1>6. ASSUME NEW k \in 1 .. count
        PROVE  (k - 1) * split < end - start
    BY <1>4, <1>5, <1>2, <1>1
  <1>7. ASSUME NEW k \in 1 .. count - 1
        PROVE  k * split < end - start
    <2>1. k + 1 \in 1 .. count
      BY <1>2
    <2>2. k = (k + 1) - 1
      OBVIOUS
    <2>3. QED
      BY <2>1, <2>2, <1>6
  <1>8. QED
    BY <1>2, <1>3, <1>4, <1>6, <1>7 DEF count

\* The pieces of a range are words, none is empty, the first starts at start, each
\* starts where the one before it ends, and the last ends at end.
THEOREM SplitRangePartitions ==
  ASSUME NEW start \in U64, NEW end \in U64, NEW split \in U64 \ {0}
  PROVE  LET r == SplitRange(start, end, split)
         IN  /\ r \in Seq([from : U64, to : U64])
             /\ \A k \in DOMAIN r : start <= r[k].from /\ r[k].from < r[k].to /\ r[k].to <= end
             /\ \A k \in 1 .. Len(r) - 1 : r[k].to = r[k + 1].from
             /\ start < end => /\ Len(r) > 0
                               /\ r[1].from = start
                               /\ r[Len(r)].to = end
             /\ start >= end => r = <<>>
  <1> DEFINE r == SplitRange(start, end, split)
  <1>0. start \in Nat /\ end \in Nat /\ split \in Nat \ {0} /\ end < Word
    BY WordAssumption DEF U64
  <1>1. CASE start >= end
    <2>1. r = [k \in 1 .. 0 |-> [from |-> start + (k - 1) * split,
                                to |-> GetTaskEndIdx(start + (k - 1) * split, split, end)]]
      BY <1>1 DEF SplitRange
    <2>2. r = <<>>
      BY <2>1
    <2>3. QED
      BY <2>2, <1>0, <1>1
  <1>2. CASE start < end
    <2> DEFINE count == (end - start + split - 1) \div split
    <2>1. /\ count \in Nat \ {0}
          /\ count * split >= end - start
          /\ \A k \in 1 .. count : k * split \in Nat /\ (k - 1) * split = k * split - split
          /\ \A k \in 1 .. count : (k - 1) * split < end - start
          /\ \A k \in 1 .. count - 1 : k * split < end - start
      BY <1>2, SplitCount
    <2>2. r = [k \in 1 .. count |-> Piece(start, split, end, k)]
      BY <1>0, <1>2 DEF SplitRange, Piece
    <2> HIDE DEF count, r
    <2>3. ASSUME NEW k \in 1 .. count
          PROVE  /\ r[k] = Piece(start, split, end, k)
                 /\ r[k].from \in U64 /\ r[k].to \in U64
                 /\ r[k].from = start + k * split - split
                 /\ start <= r[k].from /\ r[k].from < r[k].to /\ r[k].to <= end
                 /\ r[k].to = IF start + k * split <= end THEN start + k * split ELSE end
      <3> DEFINE from == start + (k - 1) * split
      <3>1. r[k] = Piece(start, split, end, k)
        BY <2>2
      <3>2. from = start + k * split - split /\ from >= start /\ from < end
        BY <2>1, <1>0
      <3>3. from \in U64
        BY <3>2, <2>1, <1>0, WordAssumption DEF U64
      <3> HIDE DEF from
      <3>4. /\ GetTaskEndIdx(from, split, end) \in U64
            /\ GetTaskEndIdx(from, split, end) > from
            /\ GetTaskEndIdx(from, split, end) =
                 IF from + split <= end THEN from + split ELSE end
        BY <3>2, <3>3, GetTaskEndIdxIsMinimum
      <3>5. r[k].from = from /\ r[k].to = GetTaskEndIdx(from, split, end)
        BY <3>1 DEF Piece, from
      <3>6. k * split \in Nat
        BY <2>1
      <3>7. QED
        BY <3>1, <3>2, <3>3, <3>4, <3>5, <3>6, <1>0 DEF U64
    <2>4. /\ DOMAIN r = 1 .. count
          /\ r \in Seq([from : U64, to : U64])
          /\ Len(r) = count
      <3>1. \A k \in 1 .. count : Piece(start, split, end, k) \in [from : U64, to : U64]
        BY <2>3 DEF Piece
      <3>2. r \in [1 .. count -> [from : U64, to : U64]]
        BY <2>2, <3>1
      <3>3. \A S, n : n \in Nat => \A f \in [1 .. n -> S] : f \in Seq(S) /\ Len(f) = n
        OBVIOUS
      <3>4. r \in Seq([from : U64, to : U64]) /\ Len(r) = count
        BY <3>2, <3>3, <2>1
      <3>5. QED
        BY <3>2, <3>4
    <2>5. \A k \in 1 .. Len(r) - 1 : r[k].to = r[k + 1].from
      <3> SUFFICES ASSUME NEW k \in 1 .. Len(r) - 1
                   PROVE  r[k].to = r[k + 1].from
        OBVIOUS
      <3>1. k \in 1 .. count /\ k + 1 \in 1 .. count /\ k \in 1 .. count - 1
        BY <2>4, <2>1
      <3>2. start + k * split < end /\ k * split \in Nat
        BY <3>1, <2>1, <1>0
      <3>3. r[k].to = start + k * split
        BY <3>1, <3>2, <2>3, <1>0
      <3>4. (k + 1) * split = k * split + split
        BY <1>0, <3>1
      <3>5. r[k + 1].from = start + (k + 1) * split - split
        BY <3>1, <2>3
      <3>6. QED
        BY <3>2, <3>3, <3>4, <3>5, <1>0
    <2>6. r[1].from = start
      <3>1. 1 \in 1 .. count
        BY <2>1
      <3>2. r[1].from = start + 1 * split - split
        BY <3>1, <2>3
      <3>3. QED
        BY <3>2, <1>0
    <2>7. r[count].to = end
      <3>1. count \in 1 .. count /\ start + count * split >= end
        BY <2>1, <1>0
      <3>2. QED
        BY <3>1, <2>1, <2>3, <1>0
    <2>8. QED
      BY <2>1, <2>3, <2>4, <2>5, <2>6, <2>7, <1>2, <1>0 DEF r
  <1>3. QED
    BY <1>0, <1>1, <1>2

-----------------------------------------------------------------------------
(* Stacks as the pool uses them. *)

LEMMA PushFacts ==
  ASSUME NEW S, NEW s \in Seq(S), NEW e \in S
  PROVE  /\ Push(s, e) \in Seq(S)
         /\ Len(Push(s, e)) = Len(s) + 1
         /\ DOMAIN Push(s, e) = 1 .. Len(s) + 1
         /\ \A i \in 1 .. Len(s) : Push(s, e)[i] = s[i]
         /\ Push(s, e)[Len(s) + 1] = e
  BY DEF Push

LEMMA PopFacts ==
  ASSUME NEW S, NEW s \in Seq(S), s # <<>>
  PROVE  /\ Pop(s) \in Seq(S)
         /\ Len(s) \in Nat \ {0}
         /\ Len(Pop(s)) = Len(s) - 1
         /\ DOMAIN Pop(s) = 1 .. Len(s) - 1
         /\ \A i \in 1 .. Len(s) - 1 : Pop(s)[i] = s[i]
         /\ DOMAIN s = 1 .. Len(s)
  BY DEF Pop

LEMMA ThreadsFinite == IsFiniteSet(Threads) /\ NumThreads \in Nat \ {0}
  <1>1. IsFiniteSet(Threads)
    BY PoolAssumption, FS_AddElement DEF Threads
  <1>2. Cardinality(Workers) \in Nat
    BY PoolAssumption, FS_CardinalityType
  <1>3. QED
    BY <1>1, <1>2 DEF NumThreads

-----------------------------------------------------------------------------
(* Positions of a group's tasks in a queue. *)

LEMMA QueuedInFinite ==
  ASSUME NEW S, NEW q \in Seq(S), NEW g
  PROVE  IsFiniteSet(QueuedIn(q, g)) /\ Cardinality(QueuedIn(q, g)) \in Nat
  <1>1. IsFiniteSet(1 .. Len(q))
    BY FS_Interval
  <1>2. QueuedIn(q, g) \in SUBSET (1 .. Len(q))
    BY DEF QueuedIn
  <1>3. QED
    BY <1>1, <1>2, FS_Subset, FS_CardinalityType

LEMMA QueuedInPop ==
  ASSUME NEW S, NEW q \in Seq(S), q # <<>>, NEW g
  PROVE  Cardinality(QueuedIn(q, g)) =
           Cardinality(QueuedIn(Pop(q), g)) + (IF q[Len(q)].group = g THEN 1 ELSE 0)
  <1>1. QueuedIn(Pop(q), g) = QueuedIn(q, g) \ {Len(q)}
    BY PopFacts DEF QueuedIn
  <1>2. Len(q) \in QueuedIn(q, g) <=> q[Len(q)].group = g
    BY PopFacts DEF QueuedIn
  <1> DEFINE Q == QueuedIn(q, g)
             n == Len(q)
  <1>3. /\ IsFiniteSet(Q) /\ Cardinality(Q) \in Nat
        /\ Cardinality(Q \ {n}) = IF n \in Q THEN Cardinality(Q) - 1 ELSE Cardinality(Q)
    BY QueuedInFinite, FS_RemoveElement
  <1>4. QED
    BY <1>1, <1>2, <1>3

(* Frames that run a group's tasks. *)

StackState == [Threads -> Seq(FrameType)]

LEMMA RunningMember ==
  ASSUME NEW s \in StackState, NEW g
  PROVE  /\ RunningIn(s, g) \subseteq Threads \X Nat
         /\ \A u \in Threads, i \in Nat :
              <<u, i>> \in RunningIn(s, g) <=> i \in RunsAt(s, u, g)
  <1>1. \A u \in Threads : RunsAt(s, u, g) \subseteq Nat
    BY DEF RunsAt, StackState
  <1>2. QED
    BY <1>1 DEF RunningIn

LEMMA SamePairs ==
  ASSUME NEW T, NEW A \in SUBSET (T \X Nat), NEW B \in SUBSET (T \X Nat),
         \A u \in T, i \in Nat : <<u, i>> \in A <=> <<u, i>> \in B
  PROVE  A = B
  OBVIOUS

LEMMA RunningFinite ==
  ASSUME NEW s \in StackState, NEW g
  PROVE  IsFiniteSet(RunningIn(s, g)) /\ Cardinality(RunningIn(s, g)) \in Nat
  <1> DEFINE U == {{t} \X RunsAt(s, t, g) : t \in Threads}
  <1>1. ASSUME NEW t \in Threads
        PROVE  IsFiniteSet({t} \X RunsAt(s, t, g))
    <2>1. IsFiniteSet(1 .. Len(s[t]))
      BY FS_Interval DEF StackState
    <2>2. RunsAt(s, t, g) \in SUBSET (1 .. Len(s[t]))
      BY DEF RunsAt, StackState
    <2>3. QED
      BY <2>1, <2>2, FS_Subset, FS_Singleton, FS_Product
  <1>2. IsFiniteSet(U)
    <2> DEFINE f == [t \in Threads |-> {t} \X RunsAt(s, t, g)]
    <2>1. f \in [Threads -> U] /\ \A u \in U : \E t \in Threads : f[t] = u
      OBVIOUS
    <2>2. f \in Surjection(Threads, U)
      BY <2>1 DEF Surjection
    <2>3. QED
      BY <2>2, ThreadsFinite, FS_Surjection
  <1>3. QED
    BY <1>1, <1>2, FS_UNION, FS_CardinalityType DEF RunningIn

\* One thread's stack changes, and the others do not.
WithStack(s, t, q) == [s EXCEPT ![t] = q]

OnlyStackOf(t, s, s2) == \A u \in Threads \ {t} : s2[u] = s[u]

LEMMA RunningPush ==
  ASSUME NEW s \in StackState, NEW s2 \in StackState, NEW t \in Threads,
         NEW f \in FrameType, NEW g,
         s2[t] = Push(s[t], f), OnlyStackOf(t, s, s2)
  PROVE  Cardinality(RunningIn(s2, g)) =
           Cardinality(RunningIn(s, g))
             + (IF f.role # "runner" /\ f.group = g THEN 1 ELSE 0)
  <1> DEFINE here == f.role # "runner" /\ f.group = g
             n == Len(s[t]) + 1
             R == RunningIn(s, g)
             R2 == RunningIn(s2, g)
  <1>0. s[t] \in Seq(FrameType) /\ n \in Nat /\ Len(s[t]) = n - 1
    BY DEF StackState
  <1>1. /\ DOMAIN s2[t] = 1 .. n /\ DOMAIN s[t] = 1 .. n - 1
        /\ \A i \in 1 .. n - 1 : s2[t][i] = s[t][i]
        /\ s2[t][n] = f
    <2>1. /\ DOMAIN Push(s[t], f) = 1 .. Len(s[t]) + 1
          /\ \A i \in 1 .. Len(s[t]) : Push(s[t], f)[i] = s[t][i]
          /\ Push(s[t], f)[Len(s[t]) + 1] = f
      BY <1>0 DEF Push
    <2>2. DOMAIN s[t] = 1 .. Len(s[t])
      BY <1>0
    <2>3. QED
      BY <2>1, <2>2, <1>0
  <1>2. \A u \in Threads \ {t} : RunsAt(s2, u, g) = RunsAt(s, u, g)
    BY DEF RunsAt, OnlyStackOf
  <1>3. RunsAt(s2, t, g) = RunsAt(s, t, g) \cup (IF here THEN {n} ELSE {})
    <2>1. \A i : i \in RunsAt(s2, t, g) => i \in RunsAt(s, t, g) \cup (IF here THEN {n} ELSE {})
      BY <1>0, <1>1 DEF RunsAt
    <2>2. \A i : i \in RunsAt(s, t, g) \cup (IF here THEN {n} ELSE {}) => i \in RunsAt(s2, t, g)
      BY <1>0, <1>1 DEF RunsAt
    <2>3. QED
      BY <2>1, <2>2
  <1>4. n \notin RunsAt(s, t, g)
    BY <1>0, <1>1 DEF RunsAt
  <1>5. /\ R \subseteq Threads \X Nat /\ R2 \subseteq Threads \X Nat
        /\ \A u \in Threads, i \in Nat : <<u, i>> \in R <=> i \in RunsAt(s, u, g)
        /\ \A u \in Threads, i \in Nat : <<u, i>> \in R2 <=> i \in RunsAt(s2, u, g)
    BY RunningMember
  <1>6. /\ Cardinality(R) \in Nat
        /\ Cardinality(R \cup {<<t, n>>}) =
             IF <<t, n>> \in R THEN Cardinality(R) ELSE Cardinality(R) + 1
    BY RunningFinite, FS_AddElement
  <1> HIDE DEF n, R, R2
  <1>7. CASE here
    <2>1. \A u \in Threads, i \in Nat :
            <<u, i>> \in R2 <=> <<u, i>> \in R \cup {<<t, n>>}
      BY <1>0, <1>2, <1>3, <1>5, <1>7
    <2>2. R2 = R \cup {<<t, n>>}
      BY <2>1, <1>0, <1>5, SamePairs
    <2>3. <<t, n>> \notin R
      BY <1>0, <1>4, <1>5
    <2>4. QED
      BY <2>2, <2>3, <1>6, <1>7 DEF R, R2
  <1>8. CASE ~here
    <2>1. \A u \in Threads, i \in Nat : <<u, i>> \in R2 <=> <<u, i>> \in R
      BY <1>0, <1>2, <1>3, <1>5, <1>8
    <2>2. R2 = R
      BY <2>1, <1>5, SamePairs
    <2>3. QED
      BY <2>2, <1>6, <1>8 DEF R, R2
  <1>9. QED
    BY <1>7, <1>8

\* Popping is pushing seen backwards.
LEMMA RunningPop ==
  ASSUME NEW s \in StackState, NEW s2 \in StackState, NEW t \in Threads,
         s[t] # <<>>, NEW g,
         s2[t] = Pop(s[t]), OnlyStackOf(t, s, s2)
  PROVE  LET f == s[t][Len(s[t])]
         IN  Cardinality(RunningIn(s, g)) =
               Cardinality(RunningIn(s2, g))
                 + (IF f.role # "runner" /\ f.group = g THEN 1 ELSE 0)
  <1> DEFINE f == s[t][Len(s[t])]
  <1>1. s[t] \in Seq(FrameType)
    BY DEF StackState
  <1>2. f \in FrameType /\ s[t] = Push(s2[t], f)
    BY <1>1 DEF Push, Pop
  <1>3. OnlyStackOf(t, s2, s)
    BY DEF OnlyStackOf
  <1>4. QED
    BY <1>2, <1>3, RunningPush

\* Frames that keep their role and group are not counted differently.
LEMMA RunningSame ==
  ASSUME NEW s, NEW s2, NEW g,
         \A t \in Threads : RunsAt(s2, t, g) = RunsAt(s, t, g)
  PROVE  RunningIn(s2, g) = RunningIn(s, g)
  BY DEF RunningIn

-----------------------------------------------------------------------------
(* The inductive invariant.  SiblingsExact alone is not inductive: a popped *)
(* runner frame must not count as a task, so runner and task frames must    *)
(* alternate, and a new group must start with no task of its number.        *)

Alternates(q) ==
  /\ q # <<>> => q[1].role = "runner"
  /\ \A i \in 1 .. Len(q) - 1 : q[i].role = "runner" <=> q[i + 1].role # "runner"

StackShape == \A t \in Threads : Alternates(stack[t])

GroupsKnown ==
  /\ \A i \in DOMAIN tasks : tasks[i].group \in DOMAIN groups
  /\ \A t \in Threads : \A i \in DOMAIN stack[t] :
       stack[t][i].role # "runner" => stack[t][i].group \in DOMAIN groups

CallerWaits ==
  \A g \in DOMAIN groups :
    groups[g].siblings > 0 => \E t \in Threads : WaitsFor(t, g)

IInv == TypeOK /\ StackShape /\ GroupsKnown /\ SiblingsExact /\ CallerWaits

WaitType == [Threads -> {"awake", "blocked", "notified"}]

LEMMA WakeType ==
  ASSUME wait \in WaitType, NEW t, NEW S
  PROVE  Wake(t, S) \in WaitType
  BY DEF Wake, WaitType

LEMMA NotifyType ==
  ASSUME wait \in WaitType, NEW t,
         \/ TryNotifyEither(t) \/ NotifyAllGroupFinished(t)
         \/ \E S \in SUBSET Threads : wait' = Wake(t, S)
  PROVE  wait' \in WaitType
  BY WakeType DEF TryNotifyEither, NotifyOne, NotifyAllGroupFinished, Blocked

LEMMA InSeq == \A S : \A q \in Seq(S) : \A i \in DOMAIN q : q[i] \in S
  OBVIOUS

LEMMA SplitSizeType ==
  ASSUME NEW start \in U64, NEW end \in U64, NEW minWork \in U64 \ {0}
  PROVE  SplitSize(start, end, minWork, NumThreads) \in U64 \ {0}
  <1> DEFINE d == kTaskRedundancyFactor * NumThreads
             num == SubU64(end, start)
  <1>1. d \in Nat \ {0}
    BY ThreadsFinite DEF kTaskRedundancyFactor
  <1>2. num \in U64
    BY WordAssumption DEF SubU64, U64
  <1>3. QED
    BY <1>1, <1>2, WordAssumption DEF SplitSize, DivCeil, AddU64, U64

\* The tasks a ParallelFor pushes belong to it.
LEMMA NewTasksType ==
  ASSUME NEW g \in Group, NEW c \in Calls
  PROVE  /\ NewTasks(g, c) \in Seq(Task)
         /\ \A k \in DOMAIN NewTasks(g, c) : NewTasks(g, c)[k].group = g
  <1> DEFINE split == SplitSize(c.start, c.end, c.minWork, NumThreads)
             r == SplitRange(c.start, c.end, split)
  <1>1. c.start \in U64 /\ c.end \in U64 /\ c.minWork \in U64 \ {0}
    BY PoolAssumption DEF CallArguments
  <1>2. split \in U64 \ {0}
    BY <1>1, SplitSizeType
  <1> HIDE DEF split
  <1>3. r \in Seq([from : U64, to : U64])
    BY <1>1, <1>2, SplitRangePartitions
  <1>4. NewTasks(g, c) = [k \in DOMAIN r |-> [group |-> g, from |-> r[k].from, to |-> r[k].to]]
    BY DEF NewTasks, split
  <1> HIDE DEF r
  <1>5. \A k \in DOMAIN r : [group |-> g, from |-> r[k].from, to |-> r[k].to] \in Task
    <2>1. \A k \in DOMAIN r : r[k] \in [from : U64, to : U64]
      BY <1>3, InSeq
    <2>2. \A p \in [from : U64, to : U64] : p.from \in U64 /\ p.to \in U64
      OBVIOUS
    <2>3. QED
      BY <2>1, <2>2 DEF Task
  <1>6. NewTasks(g, c) \in [1 .. Len(r) -> Task] /\ Len(r) \in Nat
    BY <1>3, <1>4, <1>5
  <1>7. \A S, n : n \in Nat => \A f \in [1 .. n -> S] : f \in Seq(S)
    OBVIOUS
  <1>8. NewTasks(g, c) \in Seq(Task)
    BY <1>6, <1>7
  <1>9. QED
    BY <1>4, <1>8

LEMMA ConcatFacts ==
  ASSUME NEW S, NEW q \in Seq(S), NEW r \in Seq(S)
  PROVE  /\ Len(q) \in Nat /\ Len(r) \in Nat
         /\ DOMAIN q = 1 .. Len(q) /\ DOMAIN r = 1 .. Len(r)
         /\ DOMAIN (q \o r) = 1 .. Len(q) + Len(r)
         /\ \A i \in 1 .. Len(q) : (q \o r)[i] = q[i]
         /\ \A i \in 1 .. Len(r) : (q \o r)[Len(q) + i] = r[i]
  OBVIOUS

LEMMA QueuedConcat ==
  ASSUME NEW S, NEW q \in Seq(S), NEW r \in Seq(S), NEW g,
         QueuedIn(r, g) = 1 .. Len(r), QueuedIn(q, g) = {}
  PROVE  Cardinality(QueuedIn(q \o r, g)) = Len(r)
  <1> DEFINE a == Len(q)
             b == Len(r)
             c == q \o r
  <1>1. /\ a \in Nat /\ b \in Nat
        /\ DOMAIN c = 1 .. a + b /\ DOMAIN q = 1 .. a
        /\ \A i \in 1 .. a : c[i] = q[i]
        /\ \A i \in 1 .. b : c[a + i] = r[i]
    BY ConcatFacts
  <1>2. /\ \A i \in 1 .. a : q[i].group # g
        /\ \A i \in 1 .. b : r[i].group = g
    BY <1>1 DEF QueuedIn
  <1> HIDE DEF a, b, c
  <1>3. QueuedIn(c, g) = a + 1 .. a + b
    <2>1. \A i \in a + 1 .. a + b : i - a \in 1 .. b /\ i = a + (i - a)
      BY <1>1
    <2>2. \A i \in 1 .. a + b : i \in 1 .. a \/ i \in a + 1 .. a + b
      BY <1>1
    <2>3. \A i \in a + 1 .. a + b : c[i].group = g
      BY <1>1, <1>2, <2>1
    <2>4. \A i \in 1 .. a : c[i].group # g
      BY <1>1, <1>2
    <2>5. a + 1 .. a + b \subseteq 1 .. a + b
      BY <1>1
    <2>6. QED
      BY <1>1, <2>2, <2>3, <2>4, <2>5 DEF QueuedIn
  <1>4. Cardinality(a + 1 .. a + b) = b
    <2>1. \A x, y \in Int :
            Cardinality(x .. y) = IF x > y THEN 0 ELSE y - x + 1
      BY FS_Interval
    <2>2. a + 1 \in Int /\ a + b \in Int
      BY <1>1
    <2>3. QED
      BY <2>1, <2>2, <1>1
  <1>5. QED
    BY <1>3, <1>4 DEF b, c

LEMMA QueuedConcatOther ==
  ASSUME NEW S, NEW q \in Seq(S), NEW r \in Seq(S), NEW h, QueuedIn(r, h) = {}
  PROVE  QueuedIn(q \o r, h) = QueuedIn(q, h)
  <1> DEFINE a == Len(q)
             b == Len(r)
             c == q \o r
  <1>1. /\ a \in Nat /\ b \in Nat
        /\ DOMAIN c = 1 .. a + b /\ DOMAIN q = 1 .. a
        /\ \A i \in 1 .. a : c[i] = q[i]
        /\ \A i \in 1 .. b : c[a + i] = r[i]
    BY ConcatFacts
  <1>2. \A i \in 1 .. b : r[i].group # h
    BY <1>1 DEF QueuedIn
  <1> HIDE DEF a, b, c
  <1>3. \A i \in 1 .. a + b : i \in 1 .. a \/ (i - a \in 1 .. b /\ i = a + (i - a))
    BY <1>1
  <1>4. QueuedIn(c, h) = QueuedIn(q, h)
    <2>1. \A i \in 1 .. a + b : i \in 1 .. a \/ c[i].group # h
      BY <1>1, <1>2, <1>3
    <2>2. 1 .. a \subseteq 1 .. a + b
      BY <1>1
    <2>3. QED
      BY <1>1, <2>1, <2>2 DEF QueuedIn
  <1>5. QED
    BY <1>4 DEF c

LEMMA AlternatesPush ==
  ASSUME NEW q \in Seq(FrameType), NEW f \in FrameType, Alternates(q),
         q = <<>> => f.role = "runner",
         q # <<>> => (q[Len(q)].role = "runner" <=> f.role # "runner")
  PROVE  Alternates(Push(q, f))
  <1>1. /\ Len(q) \in Nat
        /\ Len(Push(q, f)) = Len(q) + 1
        /\ \A i \in 1 .. Len(q) : Push(q, f)[i] = q[i]
        /\ Push(q, f)[Len(q) + 1] = f
    BY DEF Push
  <1>2. QED
    BY <1>1 DEF Alternates

LEMMA AlternatesPop ==
  ASSUME NEW q \in Seq(FrameType), q # <<>>, Alternates(q)
  PROVE  Alternates(Pop(q))
  <1>1. /\ Len(q) \in Nat \ {0}
        /\ Len(Pop(q)) = Len(q) - 1
        /\ \A i \in 1 .. Len(q) - 1 : Pop(q)[i] = q[i]
    BY PopFacts
  <1>2. QED
    BY <1>1 DEF Alternates

\* A stack whose innermost frame is replaced.
WithTop(q, f) == [q EXCEPT ![Len(q)] = f]

LEMMA AlternatesReplace ==
  ASSUME NEW q \in Seq(FrameType), q # <<>>, NEW f \in FrameType,
         q[Len(q)].role # "runner", f.role # "runner"
  PROVE  /\ WithTop(q, f) \in Seq(FrameType)
         /\ Alternates(q) => Alternates(WithTop(q, f))
  <1> DEFINE r == WithTop(q, f)
  <1>1. /\ Len(q) \in Nat \ {0} /\ r \in Seq(FrameType) /\ Len(r) = Len(q)
        /\ \A i \in 1 .. Len(q) : r[i] = IF i = Len(q) THEN f ELSE q[i]
    BY ExceptSeq DEF WithTop
  <1> HIDE DEF r
  <1>2. Alternates(q) => Alternates(r)
    BY <1>1 DEF Alternates
  <1>3. QED
    BY <1>1, <1>2 DEF r

-----------------------------------------------------------------------------
(* The three ways a step changes one thread's stack. *)

LEMMA PushStep ==
  ASSUME NEW s \in StackState, NEW t \in Threads, NEW f \in FrameType, NEW s2,
         s2 = WithStack(s, t, Push(s[t], f))
  PROVE  /\ s2 \in StackState
         /\ s2[t] = Push(s[t], f)
         /\ OnlyStackOf(t, s, s2)
         /\ \A u \in Threads : \A i \in DOMAIN s[u] :
              i \in DOMAIN s2[u] /\ s2[u][i] = s[u][i]
         /\ \A u \in Threads : \A i \in DOMAIN s2[u] :
              \/ s2[u][i] = f
              \/ i \in DOMAIN s[u] /\ s2[u][i] = s[u][i]
  <1>1. s[t] \in Seq(FrameType)
    BY DEF StackState
  <1>2. Push(s[t], f) \in Seq(FrameType)
    BY <1>1, PushFacts
  <1>3. s2 \in StackState /\ s2[t] = Push(s[t], f) /\ OnlyStackOf(t, s, s2)
    BY <1>2 DEF StackState, OnlyStackOf, WithStack
  <1>4. /\ DOMAIN s2[t] = 1 .. Len(s[t]) + 1 /\ DOMAIN s[t] = 1 .. Len(s[t])
        /\ Len(s[t]) \in Nat
        /\ \A i \in 1 .. Len(s[t]) : s2[t][i] = s[t][i]
        /\ s2[t][Len(s[t]) + 1] = f
    <2>1. DOMAIN s[t] = 1 .. Len(s[t]) /\ Len(s[t]) \in Nat
      BY <1>1
    <2>2. /\ DOMAIN Push(s[t], f) = 1 .. Len(s[t]) + 1
          /\ \A i \in 1 .. Len(s[t]) : Push(s[t], f)[i] = s[t][i]
          /\ Push(s[t], f)[Len(s[t]) + 1] = f
      BY <1>1 DEF Push
    <2>3. QED
      BY <1>3, <2>1, <2>2
  <1>5. QED
    BY <1>3, <1>4 DEF OnlyStackOf

LEMMA PopStep ==
  ASSUME NEW s \in StackState, NEW t \in Threads, s[t] # <<>>, NEW s2,
         s2 = WithStack(s, t, Pop(s[t]))
  PROVE  /\ s2 \in StackState
         /\ s2[t] = Pop(s[t])
         /\ OnlyStackOf(t, s, s2)
         /\ \A u \in Threads : \A i \in DOMAIN s2[u] :
              i \in DOMAIN s[u] /\ s2[u][i] = s[u][i]
         /\ \A u \in Threads : \A i \in DOMAIN s[u] :
              \/ u = t /\ i = Len(s[t])
              \/ i \in DOMAIN s2[u] /\ s2[u][i] = s[u][i]
  <1>1. s[t] \in Seq(FrameType)
    BY DEF StackState
  <1>2. Pop(s[t]) \in Seq(FrameType)
    BY <1>1, PopFacts
  <1>3. s2 \in StackState /\ s2[t] = Pop(s[t]) /\ OnlyStackOf(t, s, s2)
    BY <1>2 DEF StackState, OnlyStackOf, WithStack
  <1>4. /\ DOMAIN s2[t] = 1 .. Len(s[t]) - 1 /\ DOMAIN s[t] = 1 .. Len(s[t])
        /\ Len(s[t]) \in Nat
        /\ \A i \in 1 .. Len(s[t]) - 1 : s2[t][i] = s[t][i]
    BY <1>1, <1>3, PopFacts
  <1>5. QED
    BY <1>3, <1>4 DEF OnlyStackOf

\* The innermost frame, a task's, is replaced by another frame of its group.
LEMMA ReplaceStep ==
  ASSUME NEW s \in StackState, NEW t \in Threads, s[t] # <<>>, NEW f \in FrameType,
         s[t][Len(s[t])].role # "runner", f.role # "runner",
         f.group = s[t][Len(s[t])].group, NEW s2,
         s2 = WithStack(s, t, WithTop(s[t], f))
  PROVE  /\ s2 \in StackState
         /\ OnlyStackOf(t, s, s2)
         /\ Alternates(s[t]) => Alternates(s2[t])
         /\ \A u \in Threads : DOMAIN s2[u] = DOMAIN s[u]
         /\ \A u \in Threads : \A i \in DOMAIN s[u] :
              /\ s2[u][i].group = s[u][i].group
              /\ s2[u][i].role = "runner" <=> s[u][i].role = "runner"
         /\ \A g : RunningIn(s2, g) = RunningIn(s, g)
  <1> DEFINE q == s[t]
             r == WithTop(q, f)
  <1>1. q \in Seq(FrameType) /\ q # <<>>
    BY DEF StackState
  <1>2. r \in Seq(FrameType) /\ (Alternates(q) => Alternates(r))
    BY <1>1, AlternatesReplace
  <1>3. DOMAIN r = DOMAIN q /\ \A i \in DOMAIN q : r[i] = IF i = Len(q) THEN f ELSE q[i]
    BY <1>1 DEF WithTop
  <1>4. s2 \in StackState /\ s2[t] = r /\ OnlyStackOf(t, s, s2)
    BY <1>2 DEF StackState, OnlyStackOf, WithStack
  <1> HIDE DEF r
  <1>5. \A u \in Threads : DOMAIN s2[u] = DOMAIN s[u]
    BY <1>3, <1>4 DEF OnlyStackOf
  <1>6. \A u \in Threads : \A i \in DOMAIN s[u] :
          /\ s2[u][i].group = s[u][i].group
          /\ s2[u][i].role = "runner" <=> s[u][i].role = "runner"
    BY <1>3, <1>4 DEF OnlyStackOf
  <1>7. \A g : RunningIn(s2, g) = RunningIn(s, g)
    <2> SUFFICES ASSUME NEW g PROVE RunningIn(s2, g) = RunningIn(s, g)
      OBVIOUS
    <2>1. \A u \in Threads : RunsAt(s2, u, g) = RunsAt(s, u, g)
      BY <1>5, <1>6 DEF RunsAt
    <2>2. QED
      BY <2>1 DEF RunningIn
  <1>8. QED
    BY <1>2, <1>4, <1>5, <1>6, <1>7

-----------------------------------------------------------------------------
(* Every action preserves the invariant. *)

LEMMA InitIInv == Init => IInv
  <1> SUFFICES ASSUME Init PROVE IInv
    OBVIOUS
  <1> USE DEF Init
  <1>1. TypeOK
    <2>1. Runner(Pool) \in FrameType
      BY WordAssumption DEF FrameType, Runner, U64
    <2>2. stack \in [Threads -> Seq(FrameType)]
      BY <2>1
    <2>3. QED
      BY <2>2, PoolAssumption DEF TypeOK
  <1>2. StackShape
    BY DEF StackShape, Alternates, Runner
  <1>3. GroupsKnown
    BY DEF GroupsKnown, Runner
  <1>4. SiblingsExact /\ CallerWaits
    BY DEF SiblingsExact, CallerWaits
  <1>5. QED
    BY <1>1, <1>2, <1>3, <1>4 DEF IInv

\* A step that touches only the condition variables.
OnlyWaits ==
  /\ wait' \in WaitType /\ continueRunning' \in {0, 1}
  /\ UNCHANGED <<tasks, stack, groups>>

LEMMA OnlyWaitsIInv == IInv /\ OnlyWaits => IInv'
  <1> SUFFICES ASSUME IInv, OnlyWaits PROVE IInv'
    OBVIOUS
  <1> USE DEF IInv, OnlyWaits
  <1>1. TypeOK'
    BY DEF TypeOK, WaitType
  <1>2. StackShape'
    BY DEF StackShape
  <1>3. GroupsKnown'
    BY DEF GroupsKnown
  <1>4. SiblingsExact'
    BY DEF SiblingsExact, Queued, Running
  <1>5. CallerWaits'
    BY DEF CallerWaits, WaitsFor
  <1>6. QED
    BY <1>1, <1>2, <1>3, <1>4, <1>5

LEMMA SleepIInv ==
  ASSUME IInv, NEW t \in Threads, Sleep(t) \/ SpuriousWake(t)
  PROVE  IInv'
  <1>1. wait \in WaitType /\ continueRunning \in {0, 1}
    BY DEF IInv, TypeOK, WaitType
  <1>2. OnlyWaits
    BY <1>1 DEF OnlyWaits, Sleep, SpuriousWake, WaitType
  <1>3. QED
    BY <1>2, OnlyWaitsIInv

LEMMA DestroyIInv ==
  ASSUME IInv, Destroy
  PROVE  IInv'
  <1>1. wait \in WaitType
    BY DEF IInv, TypeOK, WaitType
  <1>2. OnlyWaits
    BY <1>1 DEF OnlyWaits, Destroy, NotifyEveryone, WaitType
  <1>3. QED
    BY <1>2, OnlyWaitsIInv

LEMMA SubmitIInv ==
  ASSUME IInv, NEW t \in Threads, NEW c \in Calls, Submit(t, c)
  PROVE  IInv'
  <1> PICK g \in Nat : g = Len(groups) + 1
    BY DEF IInv, TypeOK
  <1> DEFINE new == NewTasks(g, c)
             entry == [call |-> c, siblings |-> Len(new), eptr |-> NoException]
  <1>1. /\ tasks' = tasks \o new
        /\ groups' = Append(groups, entry)
        /\ stack' = [stack EXCEPT ![t] = Push(@, Runner(g))]
        /\ wait' = wait /\ continueRunning' = continueRunning
        /\ Len(groups) < MaxGroups
        /\ MayCall(t, c)
    BY DEF Submit
  <1>2. /\ tasks \in Seq(Task) /\ stack \in StackState /\ groups \in Seq(GroupType)
        /\ wait \in WaitType /\ continueRunning \in {0, 1}
    BY DEF IInv, TypeOK, StackState, WaitType
  <1>3. g \in Group
    BY <1>1, <1>2, PoolAssumption DEF Group
  <1>4. new \in Seq(Task) /\ \A k \in DOMAIN new : new[k].group = g
    BY <1>3, NewTasksType
  <1>5. Runner(g) \in FrameType
    BY <1>3, WordAssumption DEF Runner, FrameType, U64
  <1>6. entry \in GroupType
    BY <1>4 DEF GroupType
  <1> HIDE DEF new, entry
  <1>7. /\ groups' \in Seq(GroupType) /\ Len(groups') <= MaxGroups
        /\ DOMAIN groups' = DOMAIN groups \cup {g}
        /\ g \notin DOMAIN groups
        /\ \A h \in DOMAIN groups : groups'[h] = groups[h]
        /\ groups'[g] = entry
    BY <1>1, <1>2, <1>3, <1>6, PoolAssumption DEF Group
  <1>8. /\ stack' \in StackState
        /\ stack'[t] = Push(stack[t], Runner(g))
        /\ OnlyStackOf(t, stack, stack')
        /\ \A u \in Threads : \A i \in DOMAIN stack[u] :
             i \in DOMAIN stack'[u] /\ stack'[u][i] = stack[u][i]
        /\ \A u \in Threads : \A i \in DOMAIN stack'[u] :
             \/ stack'[u][i] = Runner(g)
             \/ i \in DOMAIN stack[u] /\ stack'[u][i] = stack[u][i]
    <2>1. stack' = WithStack(stack, t, Push(stack[t], Runner(g)))
      BY <1>1 DEF WithStack
    <2>2. QED
      BY <1>2, <1>5, <2>1, PushStep
  <1>9. tasks' \in Seq(Task)
    BY <1>1, <1>2, <1>4
  <1>10. TypeOK'
    BY <1>1, <1>2, <1>7, <1>8, <1>9 DEF TypeOK, StackState, WaitType
  <1>11. StackShape'
    <2>1. Alternates(stack[t]) /\ stack[t] \in Seq(FrameType)
      BY <1>2 DEF IInv, StackShape, StackState
    <2>2. stack[t] # <<>> => stack[t][Len(stack[t])].role # "runner"
      BY <1>1 DEF MayCall, Idle, InTask, Top, Depth
    <2>3. Alternates(stack'[t])
      BY <1>5, <1>8, <2>1, <2>2, AlternatesPush DEF Runner
    <2>4. QED
      BY <1>8, <2>3 DEF StackShape, IInv, OnlyStackOf
  <1>12. GroupsKnown'
    <2>1. \A i \in DOMAIN tasks' : tasks'[i].group \in DOMAIN groups'
      <3>1. \A i \in DOMAIN tasks' :
              tasks'[i].group = g \/ (i \in DOMAIN tasks /\ tasks'[i] = tasks[i])
        BY <1>1, <1>2, <1>4
      <3>2. QED
        BY <1>7, <3>1 DEF IInv, GroupsKnown
    <2>2. \A u \in Threads : \A i \in DOMAIN stack'[u] :
            stack'[u][i].role # "runner" => stack'[u][i].group \in DOMAIN groups'
      BY <1>7, <1>8 DEF IInv, GroupsKnown, Runner
    <2>3. QED
      BY <2>1, <2>2 DEF GroupsKnown
  <1>13. SiblingsExact'
    <2>1. /\ Cardinality(QueuedIn(tasks', g)) = Len(new)
          /\ \A h : h # g => QueuedIn(tasks', h) = QueuedIn(tasks, h)
      <3>1. tasks \in Seq(Task) /\ new \in Seq(Task) /\ tasks' = tasks \o new
        BY <1>1, <1>2, <1>4
      <3>2. \A i \in DOMAIN tasks : tasks[i].group # g
        BY <1>7 DEF IInv, GroupsKnown
      <3>3. QueuedIn(new, g) = 1 .. Len(new) /\ QueuedIn(tasks, g) = {}
        BY <1>4, <3>1, <3>2 DEF QueuedIn
      <3>4. \A h : h # g => QueuedIn(new, h) = {}
        BY <1>4 DEF QueuedIn
      <3>5. QED
        BY <3>1, <3>3, <3>4, QueuedConcat, QueuedConcatOther
    <2>2. \A h : Cardinality(RunningIn(stack', h)) = Cardinality(RunningIn(stack, h))
      <3> SUFFICES ASSUME NEW h
                   PROVE  Cardinality(RunningIn(stack', h)) = Cardinality(RunningIn(stack, h))
        OBVIOUS
      <3>1. Cardinality(RunningIn(stack, h)) \in Nat /\ Runner(g).role = "runner"
        BY <1>2, RunningFinite DEF Runner
      <3>2. Cardinality(RunningIn(stack', h)) =
              Cardinality(RunningIn(stack, h))
                + (IF Runner(g).role # "runner" /\ Runner(g).group = h THEN 1 ELSE 0)
        BY <1>2, <1>5, <1>8, RunningPush
      <3>3. QED
        BY <3>1, <3>2
    <2>3. Cardinality(RunningIn(stack, g)) = 0
      <3>1. \A u \in Threads : RunsAt(stack, u, g) = {}
        BY <1>7 DEF IInv, GroupsKnown, RunsAt
      <3>2. RunningIn(stack, g) = {}
        BY <3>1 DEF RunningIn
      <3>3. QED
        BY <3>2, FS_EmptySet
    <2>4. groups'[g].siblings = Len(new) /\ Len(new) \in Nat
      BY <1>4, <1>7 DEF entry
    <2>5. QED
      BY <1>7, <2>1, <2>2, <2>3, <2>4 DEF IInv, SiblingsExact, Queued, Running
  <1>14. CallerWaits'
    <2>1. WaitsFor(t, g)'
      <3>1. stack[t] \in Seq(FrameType)
        BY <1>2 DEF StackState
      <3>2. /\ Len(stack[t]) + 1 \in DOMAIN stack'[t]
            /\ stack'[t][Len(stack[t]) + 1] = Runner(g)
        BY <1>8, <3>1 DEF Push
      <3>3. Runner(g).role = "runner" /\ Runner(g).group = g
        BY DEF Runner
      <3>4. QED
        BY <3>2, <3>3 DEF WaitsFor
    <2>2. \A u \in Threads, h \in DOMAIN groups : WaitsFor(u, h) => WaitsFor(u, h)'
      BY <1>8 DEF WaitsFor
    <2>3. QED
      BY <1>7, <2>1, <2>2 DEF IInv, CallerWaits
  <1>15. QED
    BY <1>10, <1>11, <1>12, <1>13, <1>14 DEF IInv

-----------------------------------------------------------------------------
(* Steps that leave tasks_ and the counters alone: a call returns, a worker  *)
(* ends, a func returns or throws.                                           *)

Shaped(s) == \A u \in Threads : Alternates(s[u])

RunsKnown(s, G) ==
  \A u \in Threads : \A i \in DOMAIN s[u] : s[u][i].role # "runner" => s[u][i].group \in G

OnlyFrames ==
  /\ tasks' = tasks /\ groups' = groups
  /\ wait' \in WaitType /\ continueRunning' \in {0, 1}
  /\ stack' \in StackState
  /\ Shaped(stack') /\ RunsKnown(stack', DOMAIN groups)
  /\ \A g : Cardinality(RunningIn(stack', g)) = Cardinality(RunningIn(stack, g))
  /\ \A g \in DOMAIN groups : groups[g].siblings > 0 =>
       \A u \in Threads : WaitsFor(u, g) => WaitsFor(u, g)'

LEMMA OnlyFramesIInv == IInv /\ OnlyFrames => IInv'
  <1> SUFFICES ASSUME IInv, OnlyFrames PROVE IInv'
    OBVIOUS
  <1>1. TypeOK'
    BY DEF IInv, OnlyFrames, TypeOK, WaitType, StackState
  <1>2. StackShape'
    BY DEF OnlyFrames, StackShape, Shaped
  <1>3. GroupsKnown'
    BY DEF IInv, OnlyFrames, GroupsKnown, RunsKnown
  <1>4. SiblingsExact'
    BY DEF IInv, OnlyFrames, SiblingsExact, Queued, Running
  <1>5. CallerWaits'
    BY DEF IInv, OnlyFrames, CallerWaits
  <1>6. QED
    BY <1>1, <1>2, <1>3, <1>4, <1>5 DEF IInv

LEMMA PopRunner ==
  ASSUME NEW s \in StackState, NEW t \in Threads, s[t] # <<>>,
         s[t][Len(s[t])].role = "runner",
         NEW G, Shaped(s), RunsKnown(s, G),
         NEW s2, s2 = WithStack(s, t, Pop(s[t]))
  PROVE  /\ s2 \in StackState
         /\ s2[t] = Pop(s[t])
         /\ Shaped(s2) /\ RunsKnown(s2, G)
         /\ \A g : Cardinality(RunningIn(s2, g)) = Cardinality(RunningIn(s, g))
         /\ \A u \in Threads : \A i \in DOMAIN s[u] :
              s[u][i].group # s[t][Len(s[t])].group
                => i \in DOMAIN s2[u] /\ s2[u][i] = s[u][i]
  <1>1. /\ s2 \in StackState
        /\ s2[t] = Pop(s[t])
        /\ OnlyStackOf(t, s, s2)
        /\ \A u \in Threads : \A i \in DOMAIN s2[u] :
             i \in DOMAIN s[u] /\ s2[u][i] = s[u][i]
        /\ \A u \in Threads : \A i \in DOMAIN s[u] :
             \/ u = t /\ i = Len(s[t])
             \/ i \in DOMAIN s2[u] /\ s2[u][i] = s[u][i]
    BY PopStep
  <1>2. Shaped(s2)
    <2>1. s[t] \in Seq(FrameType)
      BY DEF StackState
    <2>2. Alternates(s2[t])
      BY <1>1, <2>1, AlternatesPop DEF Shaped
    <2>3. QED
      BY <1>1, <2>2 DEF Shaped, OnlyStackOf
  <1>3. RunsKnown(s2, G)
    BY <1>1 DEF RunsKnown
  <1>4. ASSUME NEW g
        PROVE  Cardinality(RunningIn(s2, g)) = Cardinality(RunningIn(s, g))
    <2>1. Cardinality(RunningIn(s2, g)) \in Nat
      BY <1>1, RunningFinite
    <2>2. Cardinality(RunningIn(s, g)) =
            Cardinality(RunningIn(s2, g))
              + (IF s[t][Len(s[t])].role # "runner" /\ s[t][Len(s[t])].group = g
                 THEN 1 ELSE 0)
      BY <1>1, RunningPop
    <2>3. QED
      BY <2>1, <2>2
  <1>5. QED
    BY <1>1, <1>2, <1>3, <1>4

LEMMA ReplaceTask ==
  ASSUME NEW s \in StackState, NEW t \in Threads, s[t] # <<>>, NEW f \in FrameType,
         s[t][Len(s[t])].role # "runner", f.role # "runner",
         f.group = s[t][Len(s[t])].group,
         NEW G, Shaped(s), RunsKnown(s, G),
         NEW s2, s2 = WithStack(s, t, WithTop(s[t], f))
  PROVE  /\ s2 \in StackState
         /\ Shaped(s2) /\ RunsKnown(s2, G)
         /\ \A g : Cardinality(RunningIn(s2, g)) = Cardinality(RunningIn(s, g))
         /\ \A u \in Threads : \A i \in DOMAIN s[u] :
              /\ i \in DOMAIN s2[u]
              /\ s2[u][i].group = s[u][i].group
              /\ s2[u][i].role = "runner" <=> s[u][i].role = "runner"
  <1>1. /\ s2 \in StackState
        /\ OnlyStackOf(t, s, s2)
        /\ Alternates(s[t]) => Alternates(s2[t])
        /\ \A u \in Threads : DOMAIN s2[u] = DOMAIN s[u]
        /\ \A u \in Threads : \A i \in DOMAIN s[u] :
             /\ s2[u][i].group = s[u][i].group
             /\ s2[u][i].role = "runner" <=> s[u][i].role = "runner"
        /\ \A g : RunningIn(s2, g) = RunningIn(s, g)
    BY ReplaceStep
  <1>2. Shaped(s2)
    BY <1>1 DEF Shaped, OnlyStackOf
  <1>3. RunsKnown(s2, G)
    BY <1>1 DEF RunsKnown
  <1>4. QED
    BY <1>1, <1>2, <1>3

LEMMA WorkerExitIInv ==
  ASSUME IInv, NEW t \in Threads, WorkerExit(t)
  PROVE  IInv'
  <1>1. /\ stack \in StackState /\ wait \in WaitType /\ continueRunning \in {0, 1}
        /\ Shaped(stack) /\ RunsKnown(stack, DOMAIN groups)
    BY DEF IInv, TypeOK, StackState, WaitType, StackShape, Shaped, GroupsKnown, RunsKnown
  <1>2. /\ stack[t] # <<>>
        /\ stack[t][Len(stack[t])].role = "runner"
        /\ stack[t][Len(stack[t])].group = Pool
    BY DEF WorkerExit, InRunner, Idle, Top, Depth
  <1>3. stack' = WithStack(stack, t, Pop(stack[t]))
    BY DEF WorkerExit, WithStack
  <1>4. /\ stack' \in StackState
        /\ Shaped(stack') /\ RunsKnown(stack', DOMAIN groups)
        /\ \A g : Cardinality(RunningIn(stack', g)) = Cardinality(RunningIn(stack, g))
        /\ \A u \in Threads : \A i \in DOMAIN stack[u] :
             stack[u][i].group # stack[t][Len(stack[t])].group
               => i \in DOMAIN stack'[u] /\ stack'[u][i] = stack[u][i]
    BY <1>1, <1>2, <1>3, PopRunner
  <1>5. \A g \in DOMAIN groups : g # Pool
    BY DEF IInv, TypeOK, Pool
  <1>6. \A g \in DOMAIN groups, u \in Threads : WaitsFor(u, g) => WaitsFor(u, g)'
    BY <1>2, <1>4, <1>5 DEF WaitsFor
  <1>7. wait' \in WaitType
    BY <1>1, WakeType DEF WorkerExit
  <1>8. OnlyFrames
    BY <1>1, <1>4, <1>6, <1>7 DEF OnlyFrames, WorkerExit
  <1>9. QED
    BY <1>8, OnlyFramesIInv

LEMMA StackFacts ==
  ASSUME IInv
  PROVE  /\ stack \in StackState /\ wait \in WaitType /\ continueRunning \in {0, 1}
         /\ Shaped(stack) /\ RunsKnown(stack, DOMAIN groups)
         /\ \A t \in Threads : ~Idle(t) =>
              /\ stack[t] # <<>> /\ Top(t) = stack[t][Len(stack[t])]
              /\ Top(t) \in FrameType /\ stack[t] \in Seq(FrameType)
  <1>1. /\ stack \in StackState /\ wait \in WaitType /\ continueRunning \in {0, 1}
        /\ Shaped(stack) /\ RunsKnown(stack, DOMAIN groups)
    BY DEF IInv, TypeOK, StackState, WaitType, StackShape, Shaped, GroupsKnown, RunsKnown
  <1>2. ASSUME NEW t \in Threads, ~Idle(t)
        PROVE  /\ stack[t] # <<>> /\ Top(t) = stack[t][Len(stack[t])]
               /\ Top(t) \in FrameType /\ stack[t] \in Seq(FrameType)
    <2>1. stack[t] # <<>> /\ Top(t) = stack[t][Len(stack[t])]
      BY <1>2 DEF Idle, Top, Depth
    <2>2. stack[t] \in Seq(FrameType)
      BY <1>1 DEF StackState
    <2>3. Len(stack[t]) \in DOMAIN stack[t]
      BY <2>1, <2>2
    <2>4. QED
      BY <2>1, <2>2, <2>3, InSeq
  <1>3. QED
    BY <1>1, <1>2

\* The frame under a ParallelFor is the task whose func made the call.
LEMMA ReturnFromParallelForIInv ==
  ASSUME IInv, NEW t \in Threads, ReturnFromParallelFor(t)
  PROVE  IInv'
  <1> DEFINE below == Pop(stack[t])
             s1 == WithStack(stack, t, below)
             f == Unwind(below[Len(below)])
  <1>1. /\ stack \in StackState /\ wait \in WaitType /\ continueRunning \in {0, 1}
        /\ Shaped(stack) /\ RunsKnown(stack, DOMAIN groups)
    BY StackFacts
  <1>2. PICK g : g = Top(t).group
    OBVIOUS
  <1>3. /\ stack[t] # <<>> /\ stack[t] \in Seq(FrameType)
        /\ stack[t][Len(stack[t])].role = "runner"
        /\ stack[t][Len(stack[t])].group = g
        /\ g # Pool /\ Counter(g) = 0
    BY <1>2, StackFacts DEF ReturnFromParallelFor, InRunner, Top, Depth
  <1>4. /\ s1 \in StackState
        /\ s1[t] = below
        /\ Shaped(s1) /\ RunsKnown(s1, DOMAIN groups)
        /\ \A h : Cardinality(RunningIn(s1, h)) = Cardinality(RunningIn(stack, h))
        /\ \A u \in Threads : \A i \in DOMAIN stack[u] :
             stack[u][i].group # g => i \in DOMAIN s1[u] /\ s1[u][i] = stack[u][i]
    BY <1>1, <1>3, PopRunner
  <1>5. \/ stack' = s1
        \/ below # <<>> /\ stack' = WithStack(s1, t, WithTop(below, f))
    <2>1. \/ stack' = [stack EXCEPT ![t] = below]
          \/ /\ below # <<>>
             /\ stack' = [stack EXCEPT ![t] =
                            [below EXCEPT ![Len(below)] = Unwind(below[Len(below)])]]
      BY DEF ReturnFromParallelFor
    <2>2. QED
      BY <1>1, <2>1 DEF WithStack, WithTop, StackState
  <1> HIDE DEF s1
  <1>6. /\ stack' \in StackState
        /\ Shaped(stack') /\ RunsKnown(stack', DOMAIN groups)
        /\ \A h : Cardinality(RunningIn(stack', h)) = Cardinality(RunningIn(s1, h))
        /\ \A u \in Threads : \A i \in DOMAIN s1[u] :
             /\ i \in DOMAIN stack'[u]
             /\ stack'[u][i].group = s1[u][i].group
             /\ stack'[u][i].role = "runner" <=> s1[u][i].role = "runner"
    <2>1. CASE stack' = s1
      BY <1>4, <2>1
    <2>2. CASE below # <<>> /\ stack' = WithStack(s1, t, WithTop(below, f))
      <3>1. /\ below \in Seq(FrameType)
            /\ Len(below) = Len(stack[t]) - 1
            /\ Len(stack[t]) \in Nat \ {0}
            /\ \A i \in 1 .. Len(below) : below[i] = stack[t][i]
        BY <1>3, PopFacts
      <3>2. Len(below) \in 1 .. Len(stack[t]) - 1 /\ Len(below) \in DOMAIN below
        BY <2>2, <3>1
      <3>3. below[Len(below)].role # "runner" /\ below[Len(below)] \in FrameType
        <4>1. below[Len(below)] \in FrameType
          BY <3>1, <3>2, InSeq
        <4>2. stack[t][Len(below)].role # "runner"
          <5>1. \A i \in 1 .. Len(stack[t]) - 1 :
                  stack[t][i].role = "runner" <=> stack[t][i + 1].role # "runner"
            BY <1>1 DEF Shaped, Alternates
          <5>2. Len(below) + 1 = Len(stack[t])
            BY <3>1
          <5>3. QED
            BY <1>3, <3>2, <5>1, <5>2
        <4>3. QED
          BY <3>1, <3>2, <4>1, <4>2
      <3>4. f \in FrameType /\ f.role # "runner" /\ f.group = below[Len(below)].group
        BY <3>3 DEF Unwind, FrameType
      <3> HIDE DEF below, f
      <3>5. QED
        BY <1>4, <2>2, <3>3, <3>4, ReplaceTask
    <2>3. QED
      BY <1>5, <2>1, <2>2
  <1>7. ASSUME NEW h \in DOMAIN groups, groups[h].siblings > 0,
               NEW u \in Threads, WaitsFor(u, h)
        PROVE  WaitsFor(u, h)'
    <2>1. h # g
      BY <1>3, <1>7 DEF Counter, IInv, TypeOK, Pool
    <2>2. QED
      BY <1>4, <1>6, <1>7, <2>1 DEF WaitsFor
  <1>8. wait' \in WaitType
    BY <1>1, WakeType DEF ReturnFromParallelFor
  <1>9. OnlyFrames
    BY <1>1, <1>4, <1>6, <1>7, <1>8 DEF OnlyFrames, ReturnFromParallelFor
  <1>10. QED
    BY <1>9, OnlyFramesIInv

LEMMA FuncReturnsIInv ==
  ASSUME IInv, NEW t \in Threads, FuncReturns(t) \/ FuncThrows(t)
  PROVE  IInv'
  <1>1. /\ stack \in StackState /\ wait \in WaitType /\ continueRunning \in {0, 1}
        /\ Shaped(stack) /\ RunsKnown(stack, DOMAIN groups)
    BY StackFacts
  <1>2. /\ stack[t] # <<>> /\ stack[t] \in Seq(FrameType)
        /\ Top(t) = stack[t][Len(stack[t])] /\ Top(t) \in FrameType
        /\ Top(t).role = "task" /\ Top(t).group \in DOMAIN groups
    <2>1. ~Idle(t) /\ Top(t).role = "task"
      BY DEF FuncReturns, FuncThrows, InTask
    <2>2. /\ stack[t] # <<>> /\ stack[t] \in Seq(FrameType)
          /\ Top(t) = stack[t][Len(stack[t])] /\ Top(t) \in FrameType
      BY <2>1, StackFacts
    <2>3. Len(stack[t]) \in DOMAIN stack[t]
      BY <2>2
    <2>4. QED
      BY <1>1, <2>1, <2>2, <2>3 DEF RunsKnown
  <1>3. PieceEnd(Top(t)) \in U64
    <2>1. groups[Top(t).group] \in GroupType
      BY <1>2, InSeq DEF IInv, TypeOK
    <2>2. /\ Call(Top(t).group).maxChunk \in U64
          /\ Top(t).at \in U64 /\ Top(t).to \in U64
      BY <1>2, <2>1, PoolAssumption DEF GroupType, Call, CallArguments, FrameType
    <2>3. QED
      BY <2>2, WordAssumption DEF PieceEnd, GetTaskEndIdx, AddU64, U64
  <1>4. PICK f \in FrameType :
          /\ f.role # "runner" /\ f.group = Top(t).group
          /\ stack' = WithStack(stack, t, WithTop(stack[t], f))
    <2>1. CASE FuncReturns(t)
      <3> DEFINE f == [Top(t) EXCEPT !.at = PieceEnd(Top(t))]
      <3>1. f \in FrameType /\ f.role # "runner" /\ f.group = Top(t).group
        BY <1>2, <1>3 DEF FrameType
      <3>2. stack' = WithStack(stack, t, WithTop(stack[t], f))
        BY <1>1, <1>2, <2>1 DEF FuncReturns, WithStack, WithTop, Depth
      <3>3. QED
        BY <3>1, <3>2
    <2>2. CASE FuncThrows(t)
      <3>1. Unwind(Top(t)) \in FrameType /\ Unwind(Top(t)).role # "runner"
            /\ Unwind(Top(t)).group = Top(t).group
        BY <1>2 DEF FrameType, Unwind
      <3>2. stack' = WithStack(stack, t, WithTop(stack[t], Unwind(Top(t))))
        BY <1>1, <1>2, <2>2 DEF FuncThrows, WithStack, WithTop, Depth
      <3>3. QED
        BY <3>1, <3>2
    <2>3. QED
      BY <2>1, <2>2
  <1>5. /\ stack' \in StackState
        /\ Shaped(stack') /\ RunsKnown(stack', DOMAIN groups)
        /\ \A h : Cardinality(RunningIn(stack', h)) = Cardinality(RunningIn(stack, h))
        /\ \A u \in Threads : \A i \in DOMAIN stack[u] :
             /\ i \in DOMAIN stack'[u]
             /\ stack'[u][i].group = stack[u][i].group
             /\ stack'[u][i].role = "runner" <=> stack[u][i].role = "runner"
    BY <1>1, <1>2, <1>4, ReplaceTask
  <1>6. \A h \in DOMAIN groups, u \in Threads : WaitsFor(u, h) => WaitsFor(u, h)'
    BY <1>5 DEF WaitsFor
  <1>7. OnlyFrames
    BY <1>1, <1>5, <1>6 DEF OnlyFrames, FuncReturns, FuncThrows
  <1>8. QED
    BY <1>7, OnlyFramesIInv

-----------------------------------------------------------------------------
(* A task moves from tasks_ to a stack, and leaves it. *)

LEMMA RunTaskIInv ==
  ASSUME IInv, NEW t \in Threads, RunTask(t)
  PROVE  IInv'
  <1> DEFINE f == Frame(tasks[Len(tasks)])
  <1>1. /\ stack \in StackState /\ wait \in WaitType /\ continueRunning \in {0, 1}
        /\ Shaped(stack) /\ RunsKnown(stack, DOMAIN groups)
    BY StackFacts
  <1>2. /\ tasks \in Seq(Task) /\ tasks # <<>>
        /\ tasks' = Pop(tasks)
        /\ groups' = groups /\ continueRunning' = continueRunning
        /\ stack' = WithStack(stack, t, Push(stack[t], f))
    BY DEF RunTask, WithStack, IInv, TypeOK
  <1>3. /\ stack[t] # <<>> /\ stack[t] \in Seq(FrameType)
        /\ stack[t][Len(stack[t])].role = "runner"
    BY StackFacts DEF RunTask, InRunner, Top, Depth
  <1>4. /\ tasks' \in Seq(Task) /\ Len(tasks) \in DOMAIN tasks
        /\ DOMAIN tasks' \subseteq DOMAIN tasks
        /\ \A i \in DOMAIN tasks' : tasks'[i] = tasks[i]
    <2>1. /\ Pop(tasks) \in Seq(Task)
          /\ Len(tasks) \in Nat \ {0}
          /\ DOMAIN Pop(tasks) = 1 .. Len(tasks) - 1
          /\ \A i \in 1 .. Len(tasks) - 1 : Pop(tasks)[i] = tasks[i]
          /\ DOMAIN tasks = 1 .. Len(tasks)
      BY <1>2, PopFacts
    <2>2. QED
      BY <1>2, <2>1
  <1>5. /\ f \in FrameType /\ f.role = "task" /\ f.group = tasks[Len(tasks)].group
        /\ f.group \in DOMAIN groups
    <2>1. tasks[Len(tasks)] \in Task
      BY <1>2, <1>4, InSeq
    <2>2. tasks[Len(tasks)].group \in DOMAIN groups
      BY <1>4 DEF IInv, GroupsKnown
    <2>3. QED
      BY <2>1, <2>2 DEF Frame, FrameType, Task
  <1> HIDE DEF f
  <1>6. /\ stack' \in StackState
        /\ stack'[t] = Push(stack[t], f)
        /\ OnlyStackOf(t, stack, stack')
        /\ \A u \in Threads : \A i \in DOMAIN stack[u] :
             i \in DOMAIN stack'[u] /\ stack'[u][i] = stack[u][i]
        /\ \A u \in Threads : \A i \in DOMAIN stack'[u] :
             \/ stack'[u][i] = f
             \/ i \in DOMAIN stack[u] /\ stack'[u][i] = stack[u][i]
    BY <1>1, <1>2, <1>5, PushStep
  <1>7. wait' \in WaitType
    BY <1>1, NotifyType DEF RunTask
  <1>8. TypeOK'
    BY <1>1, <1>2, <1>4, <1>6, <1>7 DEF IInv, TypeOK, StackState, WaitType
  <1>9. StackShape'
    <2>1. Alternates(stack'[t])
      BY <1>1, <1>3, <1>5, <1>6, AlternatesPush DEF Shaped
    <2>2. QED
      BY <1>1, <1>6, <2>1 DEF StackShape, Shaped, OnlyStackOf
  <1>10. GroupsKnown'
    <2>1. \A i \in DOMAIN tasks' : tasks'[i].group \in DOMAIN groups'
      BY <1>2, <1>4 DEF IInv, GroupsKnown
    <2>2. RunsKnown(stack', DOMAIN groups')
      BY <1>1, <1>2, <1>5, <1>6 DEF RunsKnown
    <2>3. QED
      BY <2>1, <2>2 DEF GroupsKnown, RunsKnown
  <1>11. SiblingsExact'
    <2>1. ASSUME NEW g \in DOMAIN groups
          PROVE  groups'[g].siblings =
                   Cardinality(QueuedIn(tasks', g)) + Cardinality(RunningIn(stack', g))
      <3>1. Cardinality(QueuedIn(tasks, g)) =
              Cardinality(QueuedIn(tasks', g))
                + (IF tasks[Len(tasks)].group = g THEN 1 ELSE 0)
        BY <1>2, QueuedInPop
      <3>2. Cardinality(RunningIn(stack', g)) =
              Cardinality(RunningIn(stack, g))
                + (IF f.role # "runner" /\ f.group = g THEN 1 ELSE 0)
        BY <1>1, <1>5, <1>6, RunningPush
      <3>3. /\ Cardinality(QueuedIn(tasks', g)) \in Nat
            /\ Cardinality(RunningIn(stack, g)) \in Nat
        BY <1>1, <1>4, QueuedInFinite, RunningFinite
      <3>4. groups[g].siblings =
              Cardinality(QueuedIn(tasks, g)) + Cardinality(RunningIn(stack, g))
        BY DEF IInv, SiblingsExact, Queued, Running
      <3>5. QED
        BY <1>2, <1>5, <3>1, <3>2, <3>3, <3>4
    <2>2. QED
      BY <1>2, <2>1 DEF SiblingsExact, Queued, Running
  <1>12. CallerWaits'
    <2>1. \A g \in DOMAIN groups, u \in Threads : WaitsFor(u, g) => WaitsFor(u, g)'
      BY <1>6 DEF WaitsFor
    <2>2. QED
      BY <1>2, <2>1 DEF IInv, CallerWaits
  <1>13. QED
    BY <1>8, <1>9, <1>10, <1>11, <1>12 DEF IInv

LEMMA FinishTaskIInv ==
  ASSUME IInv, NEW t \in Threads, FinishTask(t)
  PROVE  IInv'
  <1>1. /\ stack \in StackState /\ wait \in WaitType /\ continueRunning \in {0, 1}
        /\ Shaped(stack) /\ RunsKnown(stack, DOMAIN groups)
        /\ groups \in Seq(GroupType) /\ tasks \in Seq(Task)
    BY StackFacts DEF IInv, TypeOK
  <1>2. /\ stack[t] # <<>> /\ stack[t] \in Seq(FrameType)
        /\ Top(t) = stack[t][Len(stack[t])] /\ Top(t) \in FrameType
        /\ Top(t).role # "runner" /\ Top(t).group \in DOMAIN groups
    <2>1. ~Idle(t) /\ Top(t).role # "runner"
      BY DEF FinishTask
    <2>2. /\ stack[t] # <<>> /\ stack[t] \in Seq(FrameType)
          /\ Top(t) = stack[t][Len(stack[t])] /\ Top(t) \in FrameType
      BY <2>1, StackFacts
    <2>3. Len(stack[t]) \in DOMAIN stack[t]
      BY <2>2
    <2>4. QED
      BY <1>1, <2>1, <2>2, <2>3 DEF RunsKnown
  <1>3. PICK f \in FrameType : f = Top(t)
    BY <1>2
  <1>4. PICK g \in DOMAIN groups : g = f.group
    BY <1>2, <1>3
  <1>5. /\ tasks' = tasks /\ continueRunning' = continueRunning
        /\ stack' = WithStack(stack, t, Pop(stack[t]))
        /\ groups' = [groups EXCEPT ![g].siblings = SiblingsAfter(f),
                                    ![g].eptr = ExceptionAfter(f)]
        /\ wait' = wait \/ NotifyAllGroupFinished(t)
    BY <1>3, <1>4 DEF FinishTask, WithStack
  <1>6. /\ stack' \in StackState
        /\ stack'[t] = Pop(stack[t])
        /\ OnlyStackOf(t, stack, stack')
        /\ \A u \in Threads : \A i \in DOMAIN stack'[u] :
             i \in DOMAIN stack[u] /\ stack'[u][i] = stack[u][i]
        /\ \A u \in Threads : \A i \in DOMAIN stack[u] :
             \/ u = t /\ i = Len(stack[t])
             \/ i \in DOMAIN stack'[u] /\ stack'[u][i] = stack[u][i]
    BY <1>1, <1>2, <1>5, PopStep
  <1>7. ASSUME NEW h
        PROVE  /\ Cardinality(RunningIn(stack, h)) =
                    Cardinality(RunningIn(stack', h)) + (IF h = g THEN 1 ELSE 0)
               /\ Cardinality(RunningIn(stack', h)) \in Nat
    <2>1. Cardinality(RunningIn(stack, h)) =
            Cardinality(RunningIn(stack', h))
              + (IF stack[t][Len(stack[t])].role # "runner"
                      /\ stack[t][Len(stack[t])].group = h
                 THEN 1 ELSE 0)
      BY <1>1, <1>2, <1>6, RunningPop
    <2>2. Cardinality(RunningIn(stack', h)) \in Nat
      BY <1>6, RunningFinite
    <2>3. QED
      BY <1>2, <1>3, <1>4, <2>1, <2>2
  <1>8. ASSUME NEW h \in DOMAIN groups
        PROVE  /\ groups[h].siblings =
                    Cardinality(QueuedIn(tasks, h)) + Cardinality(RunningIn(stack, h))
               /\ Cardinality(QueuedIn(tasks, h)) \in Nat
    BY <1>1, QueuedInFinite DEF IInv, SiblingsExact, Queued, Running
  <1>9. groups[g] \in GroupType
    BY <1>1, InSeq
  <1>10. SiblingsAfter(f) = groups[g].siblings - 1 /\ SiblingsAfter(f) \in Nat
    <2>1. /\ groups[g].siblings =
               Cardinality(QueuedIn(tasks, g)) + Cardinality(RunningIn(stack, g))
          /\ Cardinality(QueuedIn(tasks, g)) \in Nat
      BY <1>8
    <2>2. /\ Cardinality(RunningIn(stack, g)) = Cardinality(RunningIn(stack', g)) + 1
          /\ Cardinality(RunningIn(stack', g)) \in Nat
      BY <1>7
    <2>3. QED
      BY <1>4, <2>1, <2>2 DEF SiblingsAfter
  <1>11. ExceptionAfter(f) \in U64 \cup {NoException}
    BY <1>3, <1>4, <1>9 DEF ExceptionAfter, GroupType, FrameType
  <1>12. /\ groups' \in Seq(GroupType) /\ Len(groups') = Len(groups)
         /\ DOMAIN groups' = DOMAIN groups
         /\ groups'[g].siblings = SiblingsAfter(f)
         /\ \A h \in DOMAIN groups : h # g => groups'[h].siblings = groups[h].siblings
    <2> DEFINE e == [groups[g] EXCEPT !.siblings = SiblingsAfter(f), !.eptr = ExceptionAfter(f)]
    <2>1. e \in GroupType /\ e.siblings = SiblingsAfter(f)
      BY <1>9, <1>10, <1>11 DEF GroupType
    <2>2. groups' = [groups EXCEPT ![g] = e]
      BY <1>1, <1>5, <1>9 DEF GroupType
    <2> HIDE DEF e
    <2>3. QED
      BY <1>1, <2>1, <2>2, ExceptSeq
  <1>13. wait' \in WaitType
    BY <1>1, <1>5, NotifyType
  <1>14. TypeOK'
    BY <1>1, <1>5, <1>6, <1>12, <1>13 DEF IInv, TypeOK, StackState, WaitType
  <1>15. StackShape'
    <2>1. Alternates(stack'[t])
      BY <1>1, <1>2, <1>6, AlternatesPop DEF Shaped
    <2>2. QED
      BY <1>1, <1>6, <2>1 DEF StackShape, Shaped, OnlyStackOf
  <1>16. GroupsKnown'
    <2>1. RunsKnown(stack', DOMAIN groups')
      BY <1>1, <1>6, <1>12 DEF RunsKnown
    <2>2. QED
      BY <1>5, <1>12, <2>1 DEF IInv, GroupsKnown, RunsKnown
  <1>17. SiblingsExact'
    <2>1. ASSUME NEW h \in DOMAIN groups
          PROVE  groups'[h].siblings =
                   Cardinality(QueuedIn(tasks, h)) + Cardinality(RunningIn(stack', h))
      BY <1>7, <1>8, <1>10, <1>12, SMTT(30)
    <2>2. QED
      BY <1>5, <1>12, <2>1 DEF SiblingsExact, Queued, Running
  <1>18. CallerWaits'
    <2>1. \A h \in DOMAIN groups : groups'[h].siblings > 0 => groups[h].siblings > 0
      BY <1>9, <1>10, <1>12, SMTT(30) DEF GroupType
    <2>2. \A h \in DOMAIN groups, u \in Threads : WaitsFor(u, h) => WaitsFor(u, h)'
      BY <1>2, <1>6 DEF WaitsFor
    <2>3. QED
      BY <1>12, <2>1, <2>2 DEF IInv, CallerWaits
  <1>19. QED
    BY <1>14, <1>15, <1>16, <1>17, <1>18 DEF IInv

\* A group with a task left is not finished.
LEMMA Unfinished ==
  ASSUME IInv, NEW g \in DOMAIN groups, Queued(g) # {} \/ Running(g) # {}
  PROVE  groups[g].siblings > 0
  <1>1. /\ IsFiniteSet(Queued(g)) /\ IsFiniteSet(Running(g))
        /\ Cardinality(Queued(g)) \in Nat /\ Cardinality(Running(g)) \in Nat
    BY StackFacts, QueuedInFinite, RunningFinite DEF IInv, TypeOK, Queued, Running
  <1>2. Cardinality(Queued(g)) # 0 \/ Cardinality(Running(g)) # 0
    BY <1>1, FS_EmptySet
  <1>3. QED
    BY <1>1, <1>2 DEF IInv, SiblingsExact

LEMMA NextIInv == IInv /\ [Next]_vars => IInv'
  <1> SUFFICES ASSUME IInv, [Next]_vars PROVE IInv'
    OBVIOUS
  <1>1. CASE UNCHANGED vars
    <2>1. OnlyWaits
      BY <1>1, StackFacts DEF OnlyWaits, vars
    <2>2. QED
      BY <2>1, OnlyWaitsIInv
  <1>2. CASE Terminated
    <2>1. OnlyWaits
      BY <1>2, StackFacts DEF OnlyWaits, Terminated, vars
    <2>2. QED
      BY <2>1, OnlyWaitsIInv
  <1>3. CASE Destroy
    BY <1>3, DestroyIInv
  <1>4. ASSUME NEW t \in Threads, RunnerStep(t)
        PROVE  IInv'
    BY <1>4, SleepIInv, RunTaskIInv, WorkerExitIInv, ReturnFromParallelForIInv
    DEF RunnerStep
  <1>5. ASSUME NEW t \in Threads, TaskStep(t)
        PROVE  IInv'
    BY <1>5, FuncReturnsIInv, FinishTaskIInv, SubmitIInv DEF TaskStep
  <1>6. ASSUME NEW t \in Threads, SpuriousWake(t)
        PROVE  IInv'
    BY <1>6, SleepIInv
  <1>7. QED
    BY <1>1, <1>2, <1>3, <1>4, <1>5, <1>6 DEF Next

\* IInv holds in every reachable state of the pool (task_manager.cc:61-143).
THEOREM Invariant == Spec => []IInv
  <1>1. QED
    BY InitIInv, NextIInv, PTL DEF Spec

\* No variable leaves its type in any behaviour of the pool: siblings_counter, a
\* size_t, never drops below zero (task_manager.cc:130-136), whatever the number
\* of threads, the word and the calls.
THEOREM TypeCorrect == Spec => []TypeOK
  <1>1. IInv => TypeOK
    BY DEF IInv
  <1>2. QED
    BY Invariant, <1>1, PTL

\* siblings_counter counts exactly the tasks of its ParallelFor that are queued or
\* on a stack, so the call waits neither too long nor too short.
THEOREM CountersExact == Spec => []SiblingsExact
  <1>1. IInv => SiblingsExact
    BY DEF IInv
  <1>2. QED
    BY Invariant, <1>1, PTL

\* No task is queued or runs after the ParallelFor call whose locals its closure
\* references has returned (task_manager.cc:111-137).
THEOREM NoDangling == Spec => []NoDanglingGroup
  <1>1. IInv => NoDanglingGroup
    <2> SUFFICES ASSUME IInv, NEW g \in DOMAIN groups, Queued(g) # {} \/ Running(g) # {}
                 PROVE  \E t \in Threads : WaitsFor(t, g)
      BY DEF NoDanglingGroup
    <2>1. groups[g].siblings > 0
      BY Unfinished
    <2>2. QED
      BY <2>1 DEF IInv, CallerWaits
  <1>2. QED
    BY Invariant, <1>1, PTL
-----------------------------------------------------------------------------
(* Wake-ups.  The frames of a stack lie in the order of the calls they      *)
(* belong to, a worker's own TaskRunner at the bottom.                      *)

NestedStack(t, q, G) ==
  /\ q # <<>> => (q[1].group = Pool <=> t # Main)
  /\ \A i \in 1 .. Len(q) : q[i].group \in G \cup {Pool}
  /\ \A i \in 1 .. Len(q) - 1 :
       q[i + 1].role = "runner" => q[i].group < q[i + 1].group

Nested == \A t \in Threads : NestedStack(t, stack[t], DOMAIN groups)

LEMMA NestedPush ==
  ASSUME NEW q \in Seq(FrameType), NEW f \in FrameType, NEW t, NEW G, NEW G2,
         NestedStack(t, q, G), G \subseteq G2, f.group \in G2 \cup {Pool},
         q = <<>> => (f.group = Pool <=> t # Main),
         f.role = "runner" /\ q # <<>> => q[Len(q)].group < f.group
  PROVE  NestedStack(t, Push(q, f), G2)
  <1>1. /\ Len(q) \in Nat /\ Len(Push(q, f)) = Len(q) + 1
        /\ \A i \in 1 .. Len(q) : Push(q, f)[i] = q[i]
        /\ Push(q, f)[Len(q) + 1] = f
    BY DEF Push
  <1>2. q # <<>> => Len(q) > 0
    BY <1>1
  <1>3. Push(q, f)[1].group = Pool <=> t # Main
    BY <1>1, <1>2 DEF NestedStack
  <1>4. QED
    BY <1>1, <1>2, <1>3 DEF NestedStack

LEMMA NestedPop ==
  ASSUME NEW q \in Seq(FrameType), q # <<>>, NEW t, NEW G, NestedStack(t, q, G)
  PROVE  NestedStack(t, Pop(q), G)
  <1> DEFINE r == Pop(q)
  <1>1. /\ r \in Seq(FrameType) /\ Len(q) \in Nat \ {0} /\ Len(r) = Len(q) - 1
        /\ \A i \in 1 .. Len(q) - 1 : r[i] = q[i]
    BY PopFacts
  <1> HIDE DEF r
  <1>2. r # <<>> => Len(q) - 1 > 0
    BY <1>1
  <1>3. r # <<>> => r[1] = q[1]
    BY <1>1, <1>2
  <1>4. \A i \in 1 .. Len(r) - 1 : r[i] = q[i] /\ r[i + 1] = q[i + 1] /\ i \in 1 .. Len(q) - 1
    BY <1>1
  <1>5. r # <<>> => (r[1].group = Pool <=> t # Main)
    BY <1>3 DEF NestedStack
  <1>6. \A i \in 1 .. Len(r) : r[i].group \in G \cup {Pool}
    <2>1. \A i \in 1 .. Len(r) : i \in 1 .. Len(q) /\ r[i] = q[i]
      BY <1>1
    <2>2. QED
      BY <2>1 DEF NestedStack
  <1>7. \A i \in 1 .. Len(r) - 1 :
          r[i + 1].role = "runner" => r[i].group < r[i + 1].group
    BY <1>4 DEF NestedStack
  <1>8. NestedStack(t, r, G)
    BY <1>5, <1>6, <1>7 DEF NestedStack
  <1>9. QED
    BY <1>8 DEF r

LEMMA NestedReplace ==
  ASSUME NEW q \in Seq(FrameType), q # <<>>, NEW f \in FrameType, NEW t, NEW G,
         f.group = q[Len(q)].group, f.role # "runner",
         NestedStack(t, q, G)
  PROVE  NestedStack(t, WithTop(q, f), G)
  <1> DEFINE r == WithTop(q, f)
  <1>1. /\ Len(q) \in Nat \ {0} /\ r \in Seq(FrameType) /\ Len(r) = Len(q)
        /\ \A i \in 1 .. Len(q) : r[i] = IF i = Len(q) THEN f ELSE q[i]
    BY ExceptSeq DEF WithTop
  <1> HIDE DEF r
  <1>2. QED
    BY <1>1 DEF NestedStack, r

\* What each action does to the stacks: one thread's changes, by a frame.
LEMMA StackChange ==
  ASSUME IInv, NEW t \in Threads, NEW q, stack' = [stack EXCEPT ![t] = q]
  PROVE  /\ stack'[t] = q
         /\ OnlyStackOf(t, stack, stack')
         /\ \A u \in Threads \ {t} :
              /\ Top(u)' = Top(u) /\ Idle(u)' = Idle(u)
              /\ InRunner(u)' = InRunner(u) /\ OnNewPendingTask(u)' = OnNewPendingTask(u)
  <1>1. stack \in StackState
    BY StackFacts
  <1>2. stack'[t] = q /\ \A u \in Threads \ {t} : stack'[u] = stack[u]
    BY <1>1 DEF StackState
  <1>3. QED
    BY <1>2 DEF OnlyStackOf, Top, Depth, Idle, InRunner, OnNewPendingTask

LEMMA NonemptyTop ==
  ASSUME IInv, NEW t \in Threads, ~Idle(t)
  PROVE  /\ stack[t] \in Seq(FrameType) /\ stack[t] # <<>>
         /\ Len(stack[t]) \in Nat \ {0} /\ DOMAIN stack[t] = 1 .. Len(stack[t])
         /\ Top(t) = stack[t][Len(stack[t])] /\ Top(t) \in FrameType
         /\ Pop(stack[t]) \in Seq(FrameType) /\ Len(Pop(stack[t])) = Len(stack[t]) - 1
         /\ \A i \in 1 .. Len(stack[t]) - 1 : Pop(stack[t])[i] = stack[t][i]
  BY StackFacts, PopFacts

LEMMA TopKnown ==
  ASSUME IInv, Nested, NEW t \in Threads, ~Idle(t)
  PROVE  /\ Top(t).group \in DOMAIN groups \cup {Pool}
         /\ Top(t).role # "runner" => Top(t).group \in DOMAIN groups
         /\ DOMAIN groups = 1 .. Len(groups) /\ Len(groups) \in Nat
         /\ Pool \notin DOMAIN groups
         /\ \A g \in DOMAIN groups : groups[g] \in GroupType
  <1>1. /\ Len(stack[t]) \in Nat \ {0} /\ DOMAIN stack[t] = 1 .. Len(stack[t])
        /\ Top(t) = stack[t][Len(stack[t])]
    BY NonemptyTop
  <1>2. Len(stack[t]) \in DOMAIN stack[t]
    BY <1>1
  <1>3. RunsKnown(stack, DOMAIN groups)
    BY StackFacts
  <1>4. groups \in Seq(GroupType)
    BY DEF IInv, TypeOK
  <1>5. DOMAIN groups = 1 .. Len(groups) /\ Len(groups) \in Nat /\ Pool \notin DOMAIN groups
    BY <1>4 DEF Pool
  <1>6. \A g \in DOMAIN groups : groups[g] \in GroupType
    BY <1>4, InSeq
  <1>7. Top(t).group \in DOMAIN groups \cup {Pool}
    BY <1>1, <1>2 DEF Nested, NestedStack
  <1>8. Top(t).role # "runner" => Top(t).group \in DOMAIN groups
    BY <1>1, <1>2, <1>3 DEF RunsKnown
  <1>9. QED
    BY <1>5, <1>6, <1>7, <1>8

LEMMA SubmitStack ==
  ASSUME IInv, NEW t \in Threads, NEW c \in Calls, Submit(t, c)
  PROVE  /\ stack'[t] = Push(stack[t], Runner(Len(groups) + 1))
         /\ OnlyStackOf(t, stack, stack')
         /\ Idle(t) => t = Main /\ continueRunning = 1
         /\ ~Idle(t) => Top(t).role = "task"
         /\ ~InRunner(t)
         /\ InRunner(t)' /\ Top(t)' = Runner(Len(groups) + 1)
         /\ DOMAIN groups' = DOMAIN groups \cup {Len(groups) + 1}
         /\ Len(groups) + 1 \notin DOMAIN groups
         /\ \A g \in DOMAIN groups : groups'[g] = groups[g]
         /\ groups'[Len(groups) + 1].siblings = Len(NewTasks(Len(groups) + 1, c))
  <1> DEFINE f == Runner(Len(groups) + 1)
             entry == [call |-> c, siblings |-> Len(NewTasks(Len(groups) + 1, c)),
                       eptr |-> NoException]
  <1>1. groups \in Seq(GroupType) /\ Len(groups) \in Nat
    BY DEF IInv, TypeOK
  <1>2. stack \in StackState
    BY StackFacts
  <1>3. stack' = [stack EXCEPT ![t] = Push(stack[t], f)] /\ groups' = Append(groups, entry)
    BY <1>2 DEF Submit, StackState
  <1>4. stack'[t] = Push(stack[t], f) /\ OnlyStackOf(t, stack, stack')
    BY <1>3, StackChange
  <1>5. stack[t] \in Seq(FrameType)
    BY <1>2 DEF StackState
  <1>6. /\ Len(Push(stack[t], f)) = Len(stack[t]) + 1 /\ Push(stack[t], f)[Len(stack[t]) + 1] = f
        /\ Push(stack[t], f) # <<>>
    BY <1>5 DEF Push
  <1>7. f.role = "runner"
    BY DEF Runner
  <1> HIDE DEF f
  <1>8. InRunner(t)' /\ Top(t)' = f
    BY <1>4, <1>6, <1>7 DEF InRunner, Top, Depth, Idle
  <1>9. /\ Idle(t) => t = Main /\ continueRunning = 1
        /\ ~Idle(t) => Top(t).role = "task"
        /\ ~InRunner(t)
    BY DEF Submit, MayCall, InTask, InRunner
  <1>10. /\ DOMAIN groups' = DOMAIN groups \cup {Len(groups) + 1}
         /\ Len(groups) + 1 \notin DOMAIN groups
         /\ \A g \in DOMAIN groups : groups'[g] = groups[g]
         /\ groups'[Len(groups) + 1] = entry
    BY <1>1, <1>3
  <1>11. QED
    BY <1>4, <1>8, <1>9, <1>10 DEF f

LEMMA RunTaskStack ==
  ASSUME IInv, NEW t \in Threads, RunTask(t)
  PROVE  /\ stack'[t] = Push(stack[t], Frame(tasks[Len(tasks)]))
         /\ OnlyStackOf(t, stack, stack')
         /\ InRunner(t) /\ ~Idle(t)
         /\ Frame(tasks[Len(tasks)]) \in FrameType
         /\ Frame(tasks[Len(tasks)]).role = "task"
         /\ Frame(tasks[Len(tasks)]).group \in DOMAIN groups
  <1>1. stack \in StackState /\ tasks \in Seq(Task) /\ tasks # <<>>
    BY StackFacts DEF RunTask, IInv, TypeOK
  <1>2. stack' = [stack EXCEPT ![t] = Push(stack[t], Frame(tasks[Len(tasks)]))]
    BY <1>1 DEF RunTask, StackState
  <1>3. Len(tasks) \in DOMAIN tasks
    BY <1>1
  <1>4. tasks[Len(tasks)] \in Task /\ tasks[Len(tasks)].group \in DOMAIN groups
    BY <1>1, <1>3, InSeq DEF IInv, GroupsKnown
  <1>5. /\ Frame(tasks[Len(tasks)]) \in FrameType
        /\ Frame(tasks[Len(tasks)]).role = "task"
        /\ Frame(tasks[Len(tasks)]).group \in DOMAIN groups
    BY <1>4 DEF Frame, FrameType, Task
  <1>6. QED
    BY <1>2, <1>5, StackChange DEF RunTask, InRunner

LEMMA ReturnStack ==
  ASSUME IInv, NEW t \in Threads, ReturnFromParallelFor(t)
  PROVE  /\ InRunner(t) /\ ~Idle(t)
         /\ OnlyStackOf(t, stack, stack')
         /\ \/ stack'[t] = Pop(stack[t])
            \/ /\ Pop(stack[t]) # <<>>
               /\ \E f \in FrameType :
                    /\ stack'[t] = WithTop(Pop(stack[t]), f)
                    /\ f.role = "failed"
                    /\ f = Unwind(Pop(stack[t])[Len(Pop(stack[t]))])
                    /\ f.group = Pop(stack[t])[Len(Pop(stack[t]))].group
  <1> DEFINE below == Pop(stack[t])
             f == Unwind(below[Len(below)])
  <1>1. InRunner(t) /\ ~Idle(t) /\ stack \in StackState
    BY StackFacts DEF ReturnFromParallelFor, InRunner
  <1>2. below \in Seq(FrameType)
    BY <1>1, NonemptyTop
  <1>3. CASE stack' = [stack EXCEPT ![t] = below]
    BY <1>1, <1>3, StackChange
  <1>4. CASE below # <<>> /\ stack' = [stack EXCEPT ![t] = WithTop(below, f)]
    <2>1. stack'[t] = WithTop(below, f) /\ OnlyStackOf(t, stack, stack')
      BY <1>4, StackChange
    <2>2. below[Len(below)] \in FrameType
      <3>1. Len(below) \in DOMAIN below
        BY <1>2, <1>4
      <3>2. QED
        BY <1>2, <3>1, InSeq
    <2>3. f \in FrameType /\ f.role = "failed" /\ f.group = below[Len(below)].group
      BY <2>2 DEF Unwind, FrameType
    <2>4. QED
      BY <1>1, <1>4, <2>1, <2>3
  <1>5. \/ stack' = [stack EXCEPT ![t] = below]
        \/ below # <<>> /\ stack' = [stack EXCEPT ![t] = WithTop(below, f)]
    BY <1>1 DEF ReturnFromParallelFor, WithTop, StackState
  <1>6. QED
    BY <1>3, <1>4, <1>5

LEMMA FuncStack ==
  ASSUME IInv, NEW t \in Threads, FuncReturns(t) \/ FuncThrows(t)
  PROVE  /\ ~Idle(t) /\ Top(t).role = "task"
         /\ OnlyStackOf(t, stack, stack')
         /\ \E f \in FrameType :
              /\ stack'[t] = WithTop(stack[t], f)
              /\ f.role # "runner" /\ f.group = Top(t).group /\ f.to = Top(t).to
  <1>1. /\ ~Idle(t) /\ Top(t).role = "task" /\ stack \in StackState
    BY StackFacts DEF FuncReturns, FuncThrows, InTask
  <1>2. /\ Top(t) = stack[t][Len(stack[t])] /\ Top(t) \in FrameType /\ stack[t] # <<>>
        /\ stack[t] \in Seq(FrameType) /\ Len(stack[t]) \in DOMAIN stack[t]
    <2>1. /\ Top(t) = stack[t][Len(stack[t])] /\ Top(t) \in FrameType /\ stack[t] # <<>>
          /\ stack[t] \in Seq(FrameType)
      BY <1>1, NonemptyTop
    <2>2. QED
      BY <2>1
  <1>3. PieceEnd(Top(t)) \in U64
    <2>1. Top(t).group \in DOMAIN groups
      BY <1>1, <1>2, StackFacts DEF RunsKnown
    <2>2. groups[Top(t).group] \in GroupType
      BY <2>1, InSeq DEF IInv, TypeOK
    <2>3. /\ Call(Top(t).group).maxChunk \in U64
          /\ Top(t).at \in U64 /\ Top(t).to \in U64
      BY <1>2, <2>2, PoolAssumption DEF GroupType, Call, CallArguments, FrameType
    <2>4. QED
      BY <2>3, WordAssumption DEF PieceEnd, GetTaskEndIdx, AddU64, U64
  <1>4. CASE FuncReturns(t)
    <2> DEFINE f == [Top(t) EXCEPT !.at = PieceEnd(Top(t))]
    <2>1. f \in FrameType /\ f.role # "runner" /\ f.group = Top(t).group /\ f.to = Top(t).to
      BY <1>1, <1>2, <1>3 DEF FrameType
    <2>2. stack' = [stack EXCEPT ![t] = WithTop(stack[t], f)]
      BY <1>1, <1>2, <1>4 DEF FuncReturns, WithTop, Depth, StackState
    <2>3. QED
      BY <1>1, <2>1, <2>2, StackChange
  <1>5. CASE FuncThrows(t)
    <2>1. /\ Unwind(Top(t)) \in FrameType /\ Unwind(Top(t)).role # "runner"
          /\ Unwind(Top(t)).group = Top(t).group /\ Unwind(Top(t)).to = Top(t).to
      BY <1>1, <1>2 DEF FrameType, Unwind
    <2>2. stack' = [stack EXCEPT ![t] = WithTop(stack[t], Unwind(Top(t)))]
      BY <1>1, <1>2, <1>5 DEF FuncThrows, WithTop, Depth, StackState
    <2>3. QED
      BY <1>1, <2>1, <2>2, StackChange
  <1>6. QED
    BY <1>4, <1>5

LEMMA PopStack ==
  ASSUME IInv, NEW t \in Threads, FinishTask(t) \/ WorkerExit(t)
  PROVE  /\ ~Idle(t)
         /\ stack'[t] = Pop(stack[t])
         /\ OnlyStackOf(t, stack, stack')
         /\ FinishTask(t) => Top(t).role # "runner"
         /\ WorkerExit(t) => InRunner(t) /\ Top(t).group = Pool /\ continueRunning = 0
  <1>1. stack \in StackState /\ ~Idle(t)
    BY StackFacts DEF FinishTask, WorkerExit, InRunner
  <1>2. stack' = [stack EXCEPT ![t] = Pop(stack[t])]
    BY <1>1 DEF FinishTask, WorkerExit, StackState
  <1>3. QED
    BY <1>1, <1>2, StackChange DEF FinishTask, WorkerExit

LEMMA NestedOthers ==
  ASSUME IInv, Nested, NEW t \in Threads, OnlyStackOf(t, stack, stack'),
         DOMAIN groups \subseteq DOMAIN groups',
         NestedStack(t, stack'[t], DOMAIN groups')
  PROVE  Nested'
  <1>1. \A u \in Threads \ {t} : NestedStack(u, stack'[u], DOMAIN groups')
    BY DEF Nested, NestedStack, OnlyStackOf
  <1>2. QED
    BY <1>1 DEF Nested

LEMMA NestedStep ==
  ASSUME IInv, Nested, [Next]_vars
  PROVE  Nested'
  <1>1. \A u \in Threads : stack[u] \in Seq(FrameType) /\ NestedStack(u, stack[u], DOMAIN groups)
    BY StackFacts DEF StackState, Nested
  <1>2. CASE UNCHANGED <<stack, groups>>
    BY <1>2 DEF Nested, NestedStack
  <1>3. ASSUME NEW t \in Threads, NEW c \in Calls, Submit(t, c)
        PROVE  Nested'
    <2> DEFINE g == Len(groups) + 1
    <2>1. /\ stack'[t] = Push(stack[t], Runner(g)) /\ OnlyStackOf(t, stack, stack')
          /\ DOMAIN groups' = DOMAIN groups \cup {g}
          /\ Idle(t) => t = Main
          /\ ~Idle(t) => Top(t).role = "task"
      BY <1>3, SubmitStack
    <2>2. /\ Len(groups) \in Nat /\ DOMAIN groups = 1 .. Len(groups)
          /\ Len(groups) < MaxGroups
      BY <1>3 DEF IInv, TypeOK, Submit
    <2>3. Runner(g) \in FrameType /\ g # Pool /\ g \in Nat
      BY <2>2, WordAssumption, PoolAssumption DEF Runner, FrameType, U64, Group, Pool
    <2>4. Runner(g).role = "runner" /\ Runner(g).group = g
      BY DEF Runner
    <2>5. stack[t] # <<>> => stack[t][Len(stack[t])].group < g
      <3> SUFFICES ASSUME stack[t] # <<>> PROVE stack[t][Len(stack[t])].group < g
        OBVIOUS
      <3>1. ~Idle(t)
        BY DEF Idle
      <3>2. Top(t).group \in DOMAIN groups /\ Top(t) = stack[t][Len(stack[t])]
        BY <2>1, <3>1, TopKnown, NonemptyTop
      <3>3. QED
        BY <2>2, <3>2
    <2>6. stack[t] = <<>> => t = Main
      BY <2>1 DEF Idle
    <2> HIDE DEF g
    <2>7. NestedStack(t, Push(stack[t], Runner(g)), DOMAIN groups')
      BY <1>1, <2>1, <2>3, <2>4, <2>5, <2>6, NestedPush
    <2>8. QED
      BY <2>1, <2>7, NestedOthers
  <1>4. ASSUME NEW t \in Threads, RunTask(t)
        PROVE  Nested'
    <2> PICK f \in FrameType : f = Frame(tasks[Len(tasks)])
      BY <1>4, RunTaskStack
    <2>1. /\ stack'[t] = Push(stack[t], f) /\ OnlyStackOf(t, stack, stack')
          /\ ~Idle(t) /\ f.role = "task" /\ f.group \in DOMAIN groups /\ groups' = groups
      BY <1>4, RunTaskStack DEF RunTask
    <2>2. NestedStack(t, Push(stack[t], f), DOMAIN groups)
      BY <1>1, <2>1, NestedPush DEF Idle
    <2>3. QED
      BY <2>1, <2>2, NestedOthers
  <1>5. ASSUME NEW t \in Threads, ReturnFromParallelFor(t)
        PROVE  Nested'
    <2>1. groups' = groups /\ ~Idle(t) /\ OnlyStackOf(t, stack, stack')
      BY <1>5, ReturnStack DEF ReturnFromParallelFor
    <2>2. NestedStack(t, Pop(stack[t]), DOMAIN groups) /\ Pop(stack[t]) \in Seq(FrameType)
      BY <1>1, <2>1, NestedPop, NonemptyTop DEF Idle
    <2>3. CASE stack'[t] = Pop(stack[t])
      BY <2>1, <2>2, <2>3, NestedOthers
    <2>4. CASE /\ Pop(stack[t]) # <<>>
               /\ \E f \in FrameType :
                    /\ stack'[t] = WithTop(Pop(stack[t]), f)
                    /\ f.role = "failed"
                    /\ f.group = Pop(stack[t])[Len(Pop(stack[t]))].group
      <3>1. PICK f \in FrameType : /\ stack'[t] = WithTop(Pop(stack[t]), f)
                                   /\ f.role = "failed"
                                   /\ f.group = Pop(stack[t])[Len(Pop(stack[t]))].group
        BY <2>4
      <3>2. NestedStack(t, WithTop(Pop(stack[t]), f), DOMAIN groups)
        BY <2>2, <2>4, <3>1, NestedReplace
      <3>3. QED
        BY <2>1, <3>1, <3>2, NestedOthers
    <2>5. QED
      BY <1>5, <2>3, <2>4, ReturnStack
  <1>6. ASSUME NEW t \in Threads, FuncReturns(t) \/ FuncThrows(t)
        PROVE  Nested'
    <2>1. PICK f \in FrameType : stack'[t] = WithTop(stack[t], f) /\ f.role # "runner"
                                 /\ f.group = Top(t).group
      BY <1>6, FuncStack
    <2>2. groups' = groups /\ ~Idle(t) /\ OnlyStackOf(t, stack, stack')
      BY <1>6, FuncStack DEF FuncReturns, FuncThrows
    <2>3. NestedStack(t, WithTop(stack[t], f), DOMAIN groups)
      BY <1>1, <2>1, <2>2, NestedReplace, NonemptyTop DEF Idle
    <2>4. QED
      BY <2>1, <2>2, <2>3, NestedOthers
  <1>7. ASSUME NEW t \in Threads, FinishTask(t) \/ WorkerExit(t)
        PROVE  Nested'
    <2>1. stack'[t] = Pop(stack[t]) /\ OnlyStackOf(t, stack, stack') /\ ~Idle(t)
      BY <1>7, PopStack
    <2>2. DOMAIN groups' = DOMAIN groups
      BY <1>7 DEF FinishTask, WorkerExit
    <2>3. NestedStack(t, Pop(stack[t]), DOMAIN groups)
      BY <1>1, <2>1, NestedPop DEF Idle
    <2>4. QED
      BY <2>1, <2>2, <2>3, NestedOthers
  <1>8. CASE Destroy \/ Terminated \/ UNCHANGED vars
    BY <1>2, <1>8 DEF Destroy, Terminated, vars
  <1>9. ASSUME NEW t \in Threads, Sleep(t) \/ SpuriousWake(t)
        PROVE  Nested'
    BY <1>2, <1>9 DEF Sleep, SpuriousWake
  <1>10. QED
    BY <1>3, <1>4, <1>5, <1>6, <1>7, <1>8, <1>9 DEF Next, RunnerStep, TaskStep

-----------------------------------------------------------------------------
(* Sleeping threads. *)

SleepersWait ==
  \A t \in Threads : /\ wait[t] # "awake" => InRunner(t)
                     /\ wait[t] = "blocked" => Counter(Top(t).group) > 0

\* A step of t leaves its wait and notifies blocked threads.
Wakes(t) ==
  \E S \in SUBSET Threads : /\ \A u \in S : u # t /\ wait[u] = "blocked"
                            /\ wait' = Wake(t, S)

LEMMA NotifyWakes ==
  ASSUME NEW t \in Threads,
         TryNotifyEither(t) \/ NotifyAllGroupFinished(t) \/ wait' = Wake(t, {})
  PROVE  Wakes(t)
  BY DEF TryNotifyEither, NotifyOne, NotifyAllGroupFinished, Blocked, Wakes,
         SleepingOnNewPendingTask, SleepingOnGroupFinished

LEMMA WakesFacts ==
  ASSUME wait \in WaitType, NEW t \in Threads, Wakes(t)
  PROVE  /\ wait'[t] = "awake"
         /\ \A u \in Threads \ {t} : wait'[u] # "awake" => wait[u] # "awake"
         /\ \A u \in Threads : wait'[u] = "blocked" => wait[u] = "blocked"
         /\ \A u \in Threads \ {t} : wait[u] # "blocked" => wait'[u] # "blocked"
  BY DEF Wakes, Wake, WaitType

\* What a step may do to the threads that do not make it: their frames stay, the counters
\* they read stay, and none of them falls asleep.
OthersKeepWaiting(t) ==
  /\ \A u \in Threads \ {t} : InRunner(u)' = InRunner(u) /\ Top(u)' = Top(u)
  /\ \A u \in Threads \ {t} : wait'[u] # "awake" => wait[u] # "awake"
  /\ \A u \in Threads : wait'[u] = "blocked" => wait[u] = "blocked"
  /\ wait'[t] = "awake"

LEMMA OthersUnchanged ==
  ASSUME NEW t \in Threads, OnlyStackOf(t, stack, stack')
  PROVE  /\ \A u \in Threads \ {t} : InRunner(u)' = InRunner(u) /\ Top(u)' = Top(u)
         /\ \A u \in Threads \ {t} : Idle(u)' = Idle(u)
         /\ \A u \in Threads \ {t} : OnNewPendingTask(u)' = OnNewPendingTask(u)
  BY DEF OnlyStackOf, InRunner, Top, Depth, Idle, OnNewPendingTask

LEMMA SleepersWaitStep ==
  ASSUME IInv, IInv', Nested, SleepersWait, [Next]_vars
  PROVE  SleepersWait'
  <1>0. wait \in WaitType /\ wait' \in WaitType
    BY DEF IInv, TypeOK, WaitType
  <1>1. ASSUME NEW t \in Threads, OthersKeepWaiting(t),
               \A u \in Threads \ {t} : wait'[u] = "blocked" => Counter(Top(u).group)' > 0
        PROVE  SleepersWait'
    BY <1>1 DEF OthersKeepWaiting, SleepersWait
  <1>2. ASSUME UNCHANGED <<stack, wait, groups, continueRunning>>
        PROVE  SleepersWait'
    BY <1>2 DEF SleepersWait, InRunner, Idle, Top, Depth, Counter
  <1>3. ASSUME NEW t \in Threads, NEW c \in Calls, Submit(t, c)
        PROVE  SleepersWait'
    <2>1. OnlyStackOf(t, stack, stack') /\ ~InRunner(t)
      BY <1>3, SubmitStack
    <2>2. wait' = wait /\ continueRunning' = continueRunning
      BY <1>3 DEF Submit
    <2>3. OthersKeepWaiting(t)
      BY <1>0, <2>1, <2>2, OthersUnchanged DEF OthersKeepWaiting, SleepersWait
    <2>4. ASSUME NEW u \in Threads \ {t}, wait'[u] = "blocked"
          PROVE  Counter(Top(u).group)' > 0
      <3>1. wait[u] = "blocked" /\ InRunner(u) /\ Counter(Top(u).group) > 0 /\ Top(u)' = Top(u)
        BY <1>0, <2>2, <2>3, <2>4 DEF SleepersWait, OthersKeepWaiting
      <3>2. Top(u).group \in DOMAIN groups \cup {Pool}
        BY <3>1, TopKnown DEF InRunner
      <3>3. \A g \in DOMAIN groups : groups'[g] = groups[g]
        BY <1>3, SubmitStack
      <3>4. QED
        BY <2>2, <3>1, <3>2, <3>3 DEF Counter
    <2>5. QED
      BY <1>1, <2>3, <2>4
  <1>4. ASSUME NEW t \in Threads, RunTask(t) \/ ReturnFromParallelFor(t) \/ WorkerExit(t)
        PROVE  SleepersWait'
    <2>1. OnlyStackOf(t, stack, stack')
      BY <1>4, RunTaskStack, ReturnStack, PopStack
    <2>2. groups' = groups /\ continueRunning' = continueRunning
      BY <1>4 DEF RunTask, ReturnFromParallelFor, WorkerExit
    <2>3. Wakes(t)
      BY <1>4, NotifyWakes DEF RunTask, ReturnFromParallelFor, WorkerExit
    <2>4. OthersKeepWaiting(t)
      BY <1>0, <2>1, <2>3, OthersUnchanged, WakesFacts DEF OthersKeepWaiting
    <2>5. \A u \in Threads \ {t} : wait'[u] = "blocked" => Counter(Top(u).group)' > 0
      BY <2>2, <2>4 DEF OthersKeepWaiting, SleepersWait, Counter
    <2>6. QED
      BY <1>1, <2>4, <2>5
  <1>5. ASSUME NEW t \in Threads, FuncReturns(t) \/ FuncThrows(t)
        PROVE  SleepersWait'
    <2>1. OnlyStackOf(t, stack, stack') /\ ~InRunner(t)
      BY <1>5, FuncStack DEF InRunner
    <2>2. groups' = groups /\ continueRunning' = continueRunning /\ wait' = wait
      BY <1>5 DEF FuncReturns, FuncThrows
    <2>3. OthersKeepWaiting(t)
      BY <1>0, <2>1, <2>2, OthersUnchanged DEF OthersKeepWaiting, SleepersWait
    <2>4. \A u \in Threads \ {t} : wait'[u] = "blocked" => Counter(Top(u).group)' > 0
      BY <2>2, <2>3 DEF OthersKeepWaiting, SleepersWait, Counter
    <2>5. QED
      BY <1>1, <2>3, <2>4
  <1>6. ASSUME NEW t \in Threads, FinishTask(t)
        PROVE  SleepersWait'
    <2>1. OnlyStackOf(t, stack, stack') /\ ~InRunner(t) /\ ~Idle(t) /\ Top(t).role # "runner"
      BY <1>6, PopStack DEF InRunner
    <2> DEFINE g == Top(t).group
               n == SiblingsAfter(Top(t))
    <2>2. /\ g \in DOMAIN groups
          /\ continueRunning' = continueRunning
          /\ groups'[g].siblings = n
          /\ \A h \in DOMAIN groups : h # g => groups'[h].siblings = groups[h].siblings
          /\ DOMAIN groups' = DOMAIN groups
      <3>1. g \in DOMAIN groups /\ groups[g] \in GroupType
        BY <2>1, TopKnown
      <3>2. groups' = [groups EXCEPT ![g].siblings = n, ![g].eptr = ExceptionAfter(Top(t))]
        BY <1>6 DEF FinishTask
      <3>3. QED
        BY <1>6, <3>1, <3>2 DEF FinishTask, GroupType
    <2>3. n \in Nat
      <3>1. groups'[g] \in GroupType
        BY <2>2, InSeq DEF IInv, TypeOK
      <3>2. QED
        BY <2>2, <3>1 DEF GroupType
    <2>4. wait[t] = "awake"
      BY <1>0, <2>1 DEF SleepersWait
    <2>5. IF n = 0 THEN NotifyAllGroupFinished(t) ELSE wait' = wait
      BY <1>6 DEF FinishTask
    <2>6. OthersKeepWaiting(t)
      <3>1. CASE n = 0
        BY <1>0, <2>1, <2>5, <3>1, OthersUnchanged, NotifyWakes, WakesFacts DEF OthersKeepWaiting
      <3>2. CASE n # 0
        BY <2>1, <2>4, <2>5, <3>2, OthersUnchanged DEF OthersKeepWaiting
      <3>3. QED
        BY <3>1, <3>2
    <2> HIDE DEF n
    <2>7. ASSUME NEW u \in Threads \ {t}, wait'[u] = "blocked"
          PROVE  Counter(Top(u).group)' > 0
      <3>1. wait[u] = "blocked" /\ InRunner(u) /\ Counter(Top(u).group) > 0 /\ Top(u)' = Top(u)
        BY <1>0, <2>6, <2>7 DEF SleepersWait, OthersKeepWaiting
      <3>2. Top(u).group \in DOMAIN groups \cup {Pool}
        BY <3>1, TopKnown DEF InRunner
      <3>3. CASE Top(u).group = Pool
        BY <2>2, <3>1, <3>3 DEF Counter
      <3>4. CASE Top(u).group # Pool
        <4>1. n # 0
          <5> SUFFICES ASSUME n = 0 PROVE FALSE
            OBVIOUS
          <5>1. u \in Blocked(SleepingOnGroupFinished(t))
            BY <3>1, <3>4 DEF Blocked, SleepingOnGroupFinished, OnNewPendingTask
          <5>2. wait'[u] = "notified"
            BY <2>5, <5>1 DEF NotifyAllGroupFinished, Wake
          <5>3. QED
            BY <2>7, <5>2
        <4>2. QED
          BY <2>2, <2>3, <3>1, <3>2, <3>4, <4>1 DEF Counter
      <3>5. QED
        BY <3>3, <3>4
    <2>8. QED
      BY <1>1, <2>6, <2>7
  <1>7. ASSUME NEW t \in Threads, Sleep(t) \/ SpuriousWake(t)
        PROVE  SleepersWait'
    <2>1. UNCHANGED <<stack, groups, continueRunning>>
      BY <1>7 DEF Sleep, SpuriousWake
    <2>2. \A u \in Threads : /\ InRunner(u)' = InRunner(u) /\ Top(u)' = Top(u)
                             /\ Counter(Top(u).group)' = Counter(Top(u).group)
      BY <2>1 DEF InRunner, Idle, Top, Depth, Counter
    <2>3. \A u \in Threads \ {t} : wait'[u] = wait[u]
      BY <1>0, <1>7 DEF Sleep, SpuriousWake, WaitType
    <2>4. InRunner(t)
      BY <1>7 DEF Sleep, SpuriousWake, SleepersWait
    <2>5. wait'[t] = "blocked" => Counter(Top(t).group) > 0
      BY <1>0, <1>7 DEF Sleep, SpuriousWake, WaitType
    <2>6. QED
      BY <2>2, <2>3, <2>4, <2>5 DEF SleepersWait
  <1>8. CASE Destroy
    <2>1. UNCHANGED <<stack, groups>> /\ wait' = NotifyEveryone
      BY <1>8 DEF Destroy
    <2>2. \A u \in Threads : wait'[u] # "blocked" /\ (wait'[u] # "awake" => wait[u] # "awake")
      BY <1>0, <2>1 DEF NotifyEveryone, WaitType
    <2>3. \A u \in Threads : InRunner(u)' = InRunner(u)
      BY <2>1 DEF InRunner, Idle, Top, Depth
    <2>4. QED
      BY <2>2, <2>3 DEF SleepersWait
  <1>9. CASE Terminated \/ UNCHANGED vars
    BY <1>2, <1>9 DEF Terminated, vars
  <1>10. QED
    BY <1>3, <1>4, <1>5, <1>6, <1>7, <1>8, <1>9 DEF Next, RunnerStep, TaskStep

-----------------------------------------------------------------------------
(* The destructor finds no task. *)

LEMMA QueuedUnfinished ==
  ASSUME IInv, NEW i \in DOMAIN tasks
  PROVE  tasks[i].group \in DOMAIN groups /\ groups[tasks[i].group].siblings > 0
  <1>1. tasks[i].group \in DOMAIN groups
    BY DEF IInv, GroupsKnown
  <1>2. i \in Queued(tasks[i].group)
    BY DEF Queued, QueuedIn
  <1>3. QED
    BY <1>1, <1>2, Unfinished

LEMMA RunningUnfinished ==
  ASSUME IInv, NEW t \in Threads, NEW i \in DOMAIN stack[t], stack[t][i].role # "runner"
  PROVE  /\ stack[t][i].group \in DOMAIN groups
         /\ groups[stack[t][i].group].siblings > 0
  <1>1. stack[t][i].group \in DOMAIN groups
    BY StackFacts DEF RunsKnown
  <1>2. i \in RunsAt(stack, t, stack[t][i].group)
    BY DEF RunsAt
  <1>3. <<t, i>> \in Running(stack[t][i].group)
    BY <1>2 DEF Running, RunningIn
  <1>4. QED
    BY <1>1, <1>3, Unfinished

LEMMA LeastElement ==
  ASSUME NEW S \in SUBSET Nat, S # {}
  PROVE  \E x \in S : \A y \in S : x <= y
  <1>1. PICK x \in S : \A y \in S : <<y, x>> \notin OpToRel(<, Nat)
    BY NatLessThanWellFounded, WFMin
  <1>2. \A y \in S : ~(y < x)
    BY <1>1 DEF OpToRel
  <1>3. QED
    BY <1>2

\* A call that waits lies above a task of an older call, so all wait in the end for
\* what the main thread called.
LEMMA IdleMainEndsAll ==
  ASSUME IInv, Nested, Idle(Main)
  PROVE  /\ tasks = <<>>
         /\ \A t \in Threads : \A i \in DOMAIN stack[t] : stack[t][i].role = "runner"
  <1> DEFINE B == {g \in DOMAIN groups : groups[g].siblings > 0}
  <1>1. B = {}
    <2> SUFFICES ASSUME B # {} PROVE FALSE
      OBVIOUS
    <2>1. B \in SUBSET Nat
      BY DEF IInv, TypeOK
    <2>2. PICK g \in B : \A h \in B : g <= h
      BY <2>1, LeastElement
    <2>3. PICK t \in Threads : WaitsFor(t, g)
      BY <2>2 DEF IInv, CallerWaits
    <2>4. PICK i \in DOMAIN stack[t] : stack[t][i].role = "runner" /\ stack[t][i].group = g
      BY <2>3 DEF WaitsFor
    <2>5. /\ stack[t] \in Seq(FrameType) /\ DOMAIN stack[t] = 1 .. Len(stack[t])
          /\ Len(stack[t]) \in Nat /\ stack[t] # <<>>
      BY <2>4, StackFacts DEF StackState
    <2>6. t # Main
      BY <2>5 DEF Idle
    <2>7. g # Pool /\ g \in Nat
      BY <2>1, <2>2 DEF IInv, TypeOK, Pool
    <2>8. i - 1 \in 1 .. Len(stack[t]) - 1 /\ (i - 1) + 1 = i /\ i - 1 \in DOMAIN stack[t]
      <3>1. i # 1
        BY <2>4, <2>5, <2>6, <2>7 DEF Nested, NestedStack
      <3>2. QED
        BY <2>4, <2>5, <3>1
    <2>9. stack[t][i - 1].role # "runner"
      BY <2>4, <2>8, StackFacts DEF Shaped, Alternates
    <2>10. stack[t][i - 1].group < g
      BY <2>4, <2>8 DEF Nested, NestedStack
    <2>11. stack[t][i - 1].group \in B
      BY <2>8, <2>9, RunningUnfinished
    <2>12. QED
      BY <2>1, <2>2, <2>7, <2>10, <2>11
  <1>2. tasks = <<>>
    <2>1. \A i \in DOMAIN tasks : FALSE
      BY <1>1, QueuedUnfinished
    <2>2. tasks \in Seq(Task)
      BY DEF IInv, TypeOK
    <2>3. DOMAIN tasks = 1 .. Len(tasks) /\ Len(tasks) \in Nat
      BY <2>2
    <2>4. 1 \notin 1 .. Len(tasks)
      BY <2>1, <2>3
    <2>5. Len(tasks) = 0
      BY <2>3, <2>4
    <2>6. QED
      BY <2>2, <2>5
  <1>3. QED
    BY <1>1, <1>2, RunningUnfinished

QuietAfterDestroy ==
  continueRunning = 0 =>
    /\ tasks = <<>> /\ Idle(Main)
    /\ \A t \in Threads : \A i \in DOMAIN stack[t] : stack[t][i].role = "runner"

LEMMA QuietStep ==
  ASSUME IInv, IInv', Nested, QuietAfterDestroy, [Next]_vars
  PROVE  QuietAfterDestroy'
  <1>1. ASSUME UNCHANGED <<stack, tasks, continueRunning>>
        PROVE  QuietAfterDestroy'
    BY <1>1 DEF QuietAfterDestroy, Idle
  <1>2. CASE continueRunning = 1
    <2>1. CASE continueRunning' = 1
      BY <2>1 DEF QuietAfterDestroy
    <2>2. CASE Destroy
      BY <2>2, IdleMainEndsAll DEF Destroy, QuietAfterDestroy, Idle
    <2>3. continueRunning' = 1 \/ Destroy
      BY <1>2 DEF Next, vars, RunnerStep, TaskStep, Submit, Sleep, SpuriousWake, RunTask,
        WorkerExit, ReturnFromParallelFor, FuncReturns, FuncThrows, FinishTask, Terminated
    <2>4. QED
      BY <2>1, <2>2, <2>3
  <1>3. CASE continueRunning = 0
    <2>1. /\ tasks = <<>> /\ Idle(Main)
          /\ \A t \in Threads : \A i \in DOMAIN stack[t] : stack[t][i].role = "runner"
      BY <1>3 DEF QuietAfterDestroy
    <2>2. \A t \in Threads : ~Idle(t) => Top(t).role = "runner"
      BY <2>1, NonemptyTop
    <2>3. ASSUME NEW t \in Threads, NEW c \in Calls, Submit(t, c)
          PROVE  FALSE
      BY <1>3, <2>2, <2>3, SubmitStack
    <2>4. ASSUME NEW t \in Threads,
                 RunTask(t) \/ FuncReturns(t) \/ FuncThrows(t) \/ FinishTask(t)
          PROVE  FALSE
      BY <2>1, <2>2, <2>4, FuncStack, PopStack DEF RunTask
    <2>5. ASSUME NEW t \in Threads, WorkerExit(t) \/ ReturnFromParallelFor(t)
          PROVE  QuietAfterDestroy'
      <3>1. InRunner(t) /\ ~Idle(t) /\ tasks' = tasks /\ OnlyStackOf(t, stack, stack')
        BY <2>5, PopStack, ReturnStack DEF WorkerExit, ReturnFromParallelFor
      <3>2. t # Main
        BY <2>1, <3>1
      <3>3. /\ Pop(stack[t]) \in Seq(FrameType) /\ DOMAIN stack[t] = 1 .. Len(stack[t])
            /\ Len(Pop(stack[t])) = Len(stack[t]) - 1 /\ Len(stack[t]) \in Nat \ {0}
            /\ \A i \in 1 .. Len(stack[t]) - 1 : Pop(stack[t])[i] = stack[t][i]
        BY <3>1, NonemptyTop
      <3>4. stack'[t] = Pop(stack[t])
        <4>1. CASE WorkerExit(t)
          BY <4>1, PopStack
        <4>2. CASE ReturnFromParallelFor(t)
          <5>1. Pop(stack[t]) = <<>>
            <6> SUFFICES ASSUME Pop(stack[t]) # <<>> PROVE FALSE
              OBVIOUS
            <6>1. /\ Len(stack[t]) - 1 \in 1 .. Len(stack[t]) - 1
                  /\ Len(stack[t]) \in 1 .. Len(stack[t])
                  /\ (Len(stack[t]) - 1) + 1 = Len(stack[t])
              BY <3>3
            <6>2. /\ stack[t][Len(stack[t]) - 1].role = "runner"
                  /\ stack[t][Len(stack[t])].role = "runner"
              BY <2>1, <3>3, <6>1
            <6>3. QED
              BY <6>1, <6>2, StackFacts DEF Shaped, Alternates
          <5>2. QED
            BY <4>2, <5>1, ReturnStack
        <4>3. QED
          BY <2>5, <4>1, <4>2
      <3>5. \A i \in DOMAIN stack'[t] : stack'[t][i].role = "runner"
        <4>1. DOMAIN Pop(stack[t]) = 1 .. Len(stack[t]) - 1
          BY <3>3
        <4>2. \A i \in 1 .. Len(stack[t]) - 1 : Pop(stack[t])[i].role = "runner"
          BY <2>1, <3>3
        <4>3. QED
          BY <3>4, <4>1, <4>2
      <3>6. \A u \in Threads \ {t} : stack'[u] = stack[u]
        BY <3>1 DEF OnlyStackOf
      <3>7. Main \in Threads
        BY DEF Threads
      <3>8. Idle(Main)'
        BY <2>1, <3>2, <3>6, <3>7 DEF Idle
      <3>9. QED
        BY <2>1, <3>1, <3>5, <3>6, <3>8 DEF QuietAfterDestroy
    <2>6. ASSUME NEW t \in Threads, Sleep(t) \/ SpuriousWake(t)
          PROVE  QuietAfterDestroy'
      BY <1>1, <2>6 DEF Sleep, SpuriousWake
    <2>7. CASE Destroy \/ Terminated \/ UNCHANGED vars
      BY <1>1, <1>3, <2>7 DEF Destroy, Terminated, vars
    <2>8. QED
      BY <2>3, <2>4, <2>5, <2>6, <2>7 DEF Next, RunnerStep, TaskStep
  <1>4. QED
    BY <1>2, <1>3 DEF IInv, TypeOK

-----------------------------------------------------------------------------
(* Work conservation.  It is not inductive: the last sibling wakes callers  *)
(* only, and the thread that was to pop may be one of those whose wait is   *)
(* over.  The workers have a witness of their own, which cannot return.     *)

Rouses(t) ==
  /\ InRunner(t) /\ wait[t] # "blocked"
  /\ Top(t).group = Pool \/ Queued(Top(t).group) # {}

PoolServed ==
  (tasks # <<>> /\ \E t \in Threads : wait[t] = "blocked" /\ OnNewPendingTask(t))
    => \E t \in Threads : Rouses(t)

\* A thread that rouses pops before it returns.
RousersRun == \A t \in Threads : tasks # <<>> /\ Rouses(t) => AboutToRun(t)

LEMMA RousesRuns == IInv /\ Nested /\ QuietAfterDestroy => RousersRun
  <1> SUFFICES ASSUME IInv, Nested, QuietAfterDestroy, NEW t \in Threads, tasks # <<>>, Rouses(t)
               PROVE  AboutToRun(t)
    BY DEF RousersRun
  <1>1. CASE Top(t).group = Pool
    BY <1>1 DEF Rouses, AboutToRun, Counter, QuietAfterDestroy, IInv, TypeOK
  <1>2. CASE Top(t).group # Pool
    <2>1. Top(t).group \in DOMAIN groups /\ Queued(Top(t).group) # {}
      BY <1>2, TopKnown DEF Rouses, InRunner
    <2>2. QED
      BY <1>2, <2>1, Unfinished DEF Rouses, AboutToRun, Counter
  <1>3. QED
    BY <1>1, <1>2

LEMMA ServedStep ==
  ASSUME IInv, Nested, SleepersWait, QuietAfterDestroy, PoolServed, WorkConserving,
         IInv', Nested', QuietAfterDestroy', [Next]_vars
  PROVE  PoolServed' /\ WorkConserving'
  <1>0. wait \in WaitType /\ wait' \in WaitType
    BY DEF IInv, TypeOK, WaitType
  <1>1. ASSUME NEW t \in Threads, Rouses(t)'
        PROVE  PoolServed' /\ WorkConserving'
    <2>1. RousersRun'
      BY RousesRuns, PTL
    <2>2. QED
      BY <1>1, <2>1 DEF PoolServed, WorkConserving, RousersRun
  <1>2. ASSUME tasks' = <<>> \/ \A t \in Threads : wait'[t] # "blocked"
        PROVE  PoolServed' /\ WorkConserving'
    BY <1>2 DEF PoolServed, WorkConserving
  \* t keeps the queue, and the witnesses are others.
  <1>3. ASSUME NEW t \in Threads, tasks' = tasks, OnlyStackOf(t, stack, stack'),
               ~Rouses(t), wait'[t] # "blocked",
               \A u \in Threads \ {t} : wait'[u] = "blocked" <=> wait[u] = "blocked"
        PROVE  PoolServed'
    <2>1. /\ \A u \in Threads \ {t} : /\ InRunner(u)' = InRunner(u) /\ Top(u)' = Top(u)
                                      /\ OnNewPendingTask(u)' = OnNewPendingTask(u)
      BY <1>3, OthersUnchanged
    <2>2. \A u \in Threads : Rouses(u) => Rouses(u)'
      BY <1>3, <2>1 DEF Rouses, Queued
    <2>3. QED
      BY <1>3, <2>1, <2>2 DEF PoolServed
  <1>4. ASSUME NEW t \in Threads, tasks' = tasks, OnlyStackOf(t, stack, stack'),
               ~AboutToRun(t), wait'[t] # "blocked",
               \A u \in Threads \ {t} : wait'[u] = "blocked" <=> wait[u] = "blocked",
               \A u \in Threads \ {t} : AboutToRun(u) => Counter(Top(u).group)' > 0
        PROVE  WorkConserving'
    <2>1. \A u \in Threads \ {t} : InRunner(u)' = InRunner(u) /\ Top(u)' = Top(u)
      BY <1>4, OthersUnchanged
    <2>2. \A u \in Threads : AboutToRun(u) => AboutToRun(u)'
      BY <1>4, <2>1 DEF AboutToRun
    <2>3. QED
      BY <1>4, <2>2 DEF WorkConserving
  <1>5. ASSUME NEW t \in Threads, NEW c \in Calls, Submit(t, c)
        PROVE  PoolServed' /\ WorkConserving'
    <2> DEFINE g == Len(groups) + 1
               new == NewTasks(g, c)
    <2>1. /\ OnlyStackOf(t, stack, stack') /\ ~InRunner(t)
          /\ InRunner(t)' /\ Top(t)' = Runner(g)
          /\ \A h \in DOMAIN groups : groups'[h] = groups[h]
      BY <1>5, SubmitStack
    <2>2. /\ wait' = wait /\ continueRunning' = continueRunning
          /\ tasks' = tasks \o new /\ tasks \in Seq(Task)
          /\ wait'[t] # "blocked"
      BY <1>0, <1>5, <2>1 DEF Submit, IInv, TypeOK, SleepersWait
    <2>3. new \in Seq(Task) /\ \A k \in DOMAIN new : new[k].group = g
      <3>1. g \in Group
        BY <1>5, PoolAssumption DEF Submit, Group, IInv, TypeOK
      <3>2. QED
        BY <3>1, NewTasksType
    <2> HIDE DEF new
    <2>4. CASE new = <<>>
      <3>1. tasks' = tasks
        BY <2>2, <2>4
      <3>2. ASSUME NEW u \in Threads \ {t}, AboutToRun(u)
            PROVE  Counter(Top(u).group)' > 0
        <4>1. Top(u)' = Top(u) /\ Top(u).group \in DOMAIN groups \cup {Pool}
          BY <2>1, <3>2, OthersUnchanged, TopKnown DEF AboutToRun, InRunner
        <4>2. QED
          BY <2>1, <2>2, <3>2, <4>1 DEF AboutToRun, Counter
      <3>3. QED
        BY <1>3, <1>4, <2>1, <2>2, <3>1, <3>2 DEF Rouses, AboutToRun
    <2>5. CASE new # <<>>
      <3>1. Len(tasks) + 1 \in DOMAIN tasks' /\ tasks'[Len(tasks) + 1] = new[1] /\ 1 \in DOMAIN new
        BY <2>2, <2>3, <2>5
      <3>2. Len(tasks) + 1 \in QueuedIn(tasks', g)
        BY <2>3, <3>1 DEF QueuedIn
      <3>3. Rouses(t)'
        BY <2>1, <2>2, <3>2 DEF Rouses, Queued, Runner
      <3>4. QED
        BY <1>1, <3>3
    <2>6. QED
      BY <2>4, <2>5
  <1>6. ASSUME NEW t \in Threads, Sleep(t)
        PROVE  PoolServed' /\ WorkConserving'
    BY <1>2, <1>6 DEF Sleep
  <1>7. ASSUME NEW t \in Threads, SpuriousWake(t)
        PROVE  PoolServed' /\ WorkConserving'
    <2>1. /\ UNCHANGED <<stack, groups, continueRunning, tasks>>
          /\ wait[t] = "blocked" /\ wait'[t] = "notified"
          /\ \A u \in Threads \ {t} : wait'[u] = wait[u]
      BY <1>0, <1>7 DEF SpuriousWake, WaitType
    <2>2. \A u \in Threads :
            /\ InRunner(u)' = InRunner(u) /\ Top(u)' = Top(u)
            /\ OnNewPendingTask(u)' = OnNewPendingTask(u)
            /\ Counter(Top(u).group)' = Counter(Top(u).group)
      BY <2>1 DEF InRunner, Idle, Top, Depth, Counter, OnNewPendingTask
    <2>3. AboutToRun(t)'
      BY <2>1, <2>2 DEF AboutToRun, SleepersWait
    <2>4. PoolServed'
      <3>1. OnlyStackOf(t, stack, stack') /\ ~Rouses(t) /\ wait'[t] # "blocked"
        BY <2>1 DEF OnlyStackOf, Rouses
      <3>2. QED
        BY <1>3, <2>1, <3>1
    <2>5. QED
      BY <2>3, <2>4 DEF WorkConserving
  <1>8. ASSUME NEW t \in Threads, RunTask(t)
        PROVE  PoolServed' /\ WorkConserving'
    <2>1. OnlyStackOf(t, stack, stack') /\ tasks' = Pop(tasks)
          /\ UNCHANGED <<groups, continueRunning>>
      BY <1>8, RunTaskStack DEF RunTask
    <2>2. \A u \in Threads \ {t} :
            /\ InRunner(u)' = InRunner(u) /\ Top(u)' = Top(u)
            /\ OnNewPendingTask(u)' = OnNewPendingTask(u)
            /\ Counter(Top(u).group)' = Counter(Top(u).group)
      BY <2>1, OthersUnchanged DEF Counter
    <2> DEFINE S == SleepingOnNewPendingTask(t)
               G == SleepingOnGroupFinished(t)
    <2>3. /\ \A u \in S : u \in Threads \ {t} /\ wait[u] # "awake" /\ OnNewPendingTask(u)
          /\ \A u \in G : u \in Threads \ {t} /\ wait[u] # "awake"
          /\ \A u \in Threads \ {t} : wait[u] = "blocked" => u \in S \cup G
          /\ Blocked(S) \subseteq S /\ Blocked(G) \subseteq G
          /\ \A u \in S \cup G : wait[u] = "blocked" => u \in Blocked(S) \cup Blocked(G)
      BY DEF SleepingOnNewPendingTask, SleepingOnGroupFinished, Blocked
    <2>4. CASE Pop(tasks) = <<>>
      BY <1>2, <2>1, <2>4
    <2>5. CASE Pop(tasks) # <<>> /\ S # {}
      <3>1. NotifyOne(t, S)
        BY <1>8, <2>5 DEF RunTask, TryNotifyEither
      <3>2. CASE Blocked(S) = {}
        <4>1. PICK v \in S : TRUE
          BY <2>5
        <4>2. wait'[v] # "blocked"
          BY <2>3, <3>1, <3>2, <4>1 DEF NotifyOne, Wake, Blocked
        <4>3. Rouses(v)'
          BY <2>2, <2>3, <4>1, <4>2 DEF Rouses, SleepersWait, OnNewPendingTask
        <4>4. QED
          BY <1>1, <2>3, <4>1, <4>3
      <3>3. CASE Blocked(S) # {}
        <4>1. PICK v \in Blocked(S) : wait' = Wake(t, {v})
          BY <3>1, <3>3 DEF NotifyOne
        <4>2. wait'[v] = "notified"
          BY <2>3, <4>1 DEF Wake
        <4>3. Rouses(v)'
          BY <2>2, <2>3, <4>1, <4>2 DEF Rouses, SleepersWait, OnNewPendingTask
        <4>4. QED
          BY <1>1, <2>3, <4>1, <4>3
      <3>4. QED
        BY <3>2, <3>3
    <2>6. CASE Pop(tasks) # <<>> /\ S = {}
      <3>1. NotifyOne(t, G)
        BY <1>8, <2>6 DEF RunTask, TryNotifyEither
      <3>2. Wakes(t)
        BY <1>8, NotifyWakes DEF RunTask
      <3>3. \A u \in Threads : wait'[u] = "blocked" => wait[u] = "blocked" /\ u # t
        BY <1>0, <3>2, WakesFacts
      <3>4. PoolServed'
        <4>1. \A u \in Threads : ~(wait'[u] = "blocked" /\ OnNewPendingTask(u)')
          BY <2>2, <2>6, <3>3 DEF SleepingOnNewPendingTask
        <4>2. QED
          BY <4>1 DEF PoolServed
      <3>5. CASE Blocked(G) = {}
        <4>1. \A u \in Threads : wait'[u] # "blocked"
          BY <2>3, <2>6, <3>3, <3>5 DEF Blocked
        <4>2. QED
          BY <1>2, <4>1
      <3>6. CASE Blocked(G) # {}
        <4>1. PICK v \in Blocked(G) : wait' = Wake(t, {v})
          BY <3>1, <3>6 DEF NotifyOne
        <4>2. wait'[v] = "notified" /\ wait[v] = "blocked" /\ v \in Threads \ {t}
          BY <2>3, <4>1 DEF Wake, Blocked
        <4>3. AboutToRun(v)'
          BY <2>2, <4>2 DEF AboutToRun, SleepersWait
        <4>4. QED
          BY <3>4, <4>2, <4>3 DEF WorkConserving
      <3>7. QED
        BY <3>5, <3>6
    <2>7. QED
      BY <2>4, <2>5, <2>6
  <1>9. ASSUME NEW t \in Threads, WorkerExit(t)
        PROVE  PoolServed' /\ WorkConserving'
    BY <1>2, <1>9 DEF WorkerExit, QuietAfterDestroy
  <1>10. ASSUME NEW t \in Threads, ReturnFromParallelFor(t)
         PROVE  PoolServed' /\ WorkConserving'
    <2>1. /\ OnlyStackOf(t, stack, stack') /\ InRunner(t) /\ ~Idle(t)
          /\ UNCHANGED <<tasks, groups, continueRunning>>
          /\ wait' = Wake(t, {})
          /\ Top(t).group # Pool /\ Counter(Top(t).group) = 0
      BY <1>10, ReturnStack DEF ReturnFromParallelFor
    <2>2. ~AboutToRun(t) /\ ~Rouses(t)
      <3>1. Top(t).group \in DOMAIN groups
        BY <2>1, TopKnown
      <3>2. QED
        BY <2>1, <3>1, Unfinished DEF AboutToRun, Rouses, Counter
    <2>3. wait'[t] # "blocked" /\ \A u \in Threads \ {t} : wait'[u] = wait[u]
      BY <2>1 DEF Wake
    <2>4. \A u \in Threads \ {t} : AboutToRun(u) => Counter(Top(u).group)' > 0
      BY <2>1, OthersUnchanged DEF Counter, AboutToRun
    <2>5. QED
      BY <1>3, <1>4, <2>1, <2>2, <2>3, <2>4
  <1>11. ASSUME NEW t \in Threads, FuncReturns(t) \/ FuncThrows(t)
         PROVE  PoolServed' /\ WorkConserving'
    <2>1. OnlyStackOf(t, stack, stack') /\ ~InRunner(t)
      BY <1>11, FuncStack DEF InRunner
    <2>2. UNCHANGED <<tasks, wait, groups, continueRunning>>
      BY <1>11 DEF FuncReturns, FuncThrows
    <2>3. wait'[t] # "blocked" /\ ~AboutToRun(t) /\ ~Rouses(t)
      BY <2>1, <2>2 DEF SleepersWait, AboutToRun, Rouses
    <2>4. \A u \in Threads \ {t} : AboutToRun(u) => Counter(Top(u).group)' > 0
      BY <2>1, <2>2, OthersUnchanged DEF Counter, AboutToRun
    <2>5. QED
      BY <1>3, <1>4, <2>1, <2>2, <2>3, <2>4
  <1>12. ASSUME NEW t \in Threads, FinishTask(t)
         PROVE  PoolServed' /\ WorkConserving'
    <2> DEFINE g == Top(t).group
               n == SiblingsAfter(Top(t))
    <2>1. OnlyStackOf(t, stack, stack') /\ ~InRunner(t) /\ ~Idle(t) /\ g \in DOMAIN groups
      BY <1>12, PopStack, TopKnown DEF InRunner
    <2>2. /\ UNCHANGED <<tasks, continueRunning>>
          /\ groups'[g].siblings = n /\ n \in Nat
          /\ \A h \in DOMAIN groups : h # g => groups'[h].siblings = groups[h].siblings
          /\ IF n = 0 THEN NotifyAllGroupFinished(t) ELSE wait' = wait
      <3>1. groups[g] \in GroupType
        BY <2>1, TopKnown
      <3>2. groups' = [groups EXCEPT ![g].siblings = n, ![g].eptr = ExceptionAfter(Top(t))]
        BY <1>12 DEF FinishTask
      <3>3. groups'[g] \in GroupType
        BY <2>1, <3>2, InSeq DEF IInv, TypeOK
      <3>4. QED
        BY <1>12, <2>1, <3>1, <3>2, <3>3 DEF FinishTask, GroupType
    <2>3. ~AboutToRun(t) /\ ~Rouses(t) /\ wait[t] # "blocked"
      BY <2>1 DEF AboutToRun, Rouses, SleepersWait
    <2> HIDE DEF n
    <2>4. CASE n # 0
      <3>1. ASSUME NEW u \in Threads \ {t}, AboutToRun(u)
            PROVE  Counter(Top(u).group)' > 0
        <4>1. Top(u)' = Top(u) /\ Top(u).group \in DOMAIN groups \cup {Pool}
          BY <2>1, <3>1, OthersUnchanged, TopKnown DEF AboutToRun, InRunner
        <4>2. QED
          BY <2>2, <2>4, <3>1, <4>1 DEF AboutToRun, Counter
      <3>2. QED
        BY <1>3, <1>4, <2>1, <2>2, <2>3, <2>4, <3>1
    <2>5. CASE n = 0
      <3>1. NotifyAllGroupFinished(t)
        BY <2>2, <2>5
      <3>2. Wakes(t)
        BY <3>1, NotifyWakes
      <3>3. /\ \A u \in Threads : wait'[u] = "blocked" => wait[u] = "blocked" /\ u # t
            /\ \A u \in Threads \ {t} : wait[u] # "blocked" => wait'[u] # "blocked"
        BY <1>0, <3>2, WakesFacts
      <3>4. \A u \in Threads : wait'[u] = "blocked" => OnNewPendingTask(u)
        <4> SUFFICES ASSUME NEW u \in Threads, wait'[u] = "blocked", ~OnNewPendingTask(u)
                     PROVE  FALSE
          OBVIOUS
        <4>1. u \in Blocked(SleepingOnGroupFinished(t))
          BY <3>3 DEF Blocked, SleepingOnGroupFinished
        <4>2. wait'[u] # "blocked"
          BY <3>1, <4>1 DEF NotifyAllGroupFinished, Wake
        <4>3. QED
          BY <4>2
      <3>5. \A u \in Threads \ {t} : /\ InRunner(u)' = InRunner(u) /\ Top(u)' = Top(u)
                                     /\ OnNewPendingTask(u)' = OnNewPendingTask(u)
        BY <2>1, OthersUnchanged
      <3>6. ASSUME tasks' # <<>>, NEW u \in Threads, wait'[u] = "blocked"
            PROVE  \E v \in Threads : Rouses(v)'
        <4>1. PICK v \in Threads : Rouses(v)
          BY <2>2, <3>3, <3>4, <3>6 DEF PoolServed
        <4>2. v # t
          BY <2>3, <4>1
        <4>3. Rouses(v)'
          BY <2>2, <3>3, <3>5, <4>1, <4>2 DEF Rouses, Queued
        <4>4. QED
          BY <4>3
      <3>7. QED
        BY <1>1, <1>2, <3>6
    <2>6. QED
      BY <2>4, <2>5
  <1>13. CASE Destroy
    BY <1>0, <1>2, <1>13 DEF Destroy, NotifyEveryone, WaitType
  <1>14. CASE Terminated \/ UNCHANGED vars
    <2>1. UNCHANGED <<tasks, stack, wait, groups, continueRunning>>
      BY <1>14 DEF Terminated, vars
    <2>2. QED
      BY <2>1 DEF PoolServed, WorkConserving, Rouses, AboutToRun, InRunner, Idle, Top, Depth,
                  Counter, OnNewPendingTask, Queued
  <1>15. QED
    BY <1>5, <1>6, <1>7, <1>8, <1>9, <1>10, <1>11, <1>12, <1>13, <1>14
    DEF Next, RunnerStep, TaskStep

-----------------------------------------------------------------------------
WInv ==
  IInv /\ Nested /\ SleepersWait /\ QuietAfterDestroy /\ PoolServed /\ WorkConserving

\* WInv holds in every reachable state of the pool: the order of the frames, what
\* sleeping threads wait for, and who pops next (task_manager.cc:61-143).
THEOREM WakeInvariant == Spec => []WInv
  <1>1. Init => WInv
    <2> SUFFICES ASSUME Init PROVE WInv
      OBVIOUS
    <2>1. IInv
      BY InitIInv
    <2>2. Nested
      BY PoolAssumption DEF Init, Nested, NestedStack, Runner, Threads
    <2>3. SleepersWait /\ QuietAfterDestroy /\ PoolServed /\ WorkConserving
      BY DEF Init, SleepersWait, QuietAfterDestroy, PoolServed, WorkConserving
    <2>4. QED
      BY <2>1, <2>2, <2>3 DEF WInv
  <1>2. WInv /\ [Next]_vars => WInv'
    <2> SUFFICES ASSUME WInv, [Next]_vars PROVE WInv'
      OBVIOUS
    <2> USE DEF WInv
    <2>1. IInv'
      BY NextIInv
    <2>2. Nested'
      BY NestedStep
    <2>3. SleepersWait' /\ QuietAfterDestroy'
      BY <2>1, SleepersWaitStep, QuietStep
    <2>4. PoolServed' /\ WorkConserving'
      BY <2>1, <2>2, <2>3, ServedStep
    <2>5. QED
      BY <2>1, <2>2, <2>3, <2>4
  <1>3. QED
    BY <1>1, <1>2, PTL DEF Spec

\* No thread sleeps on a counter that is zero already: the test of *siblings_counter and
\* the wait are one critical section, and whoever brings the counter to zero notifies the
\* condition variable its callers sleep on (task_manager.cc:61-78, 130-136).
THEOREM NoWakeupLost == Spec => []NoLostWakeup
  <1>1. WInv => NoLostWakeup
    BY DEF WInv, SleepersWait, NoLostWakeup
  <1>2. QED
    BY WakeInvariant, <1>1, PTL

\* While a task is queued and a thread sleeps, some thread is on its way to pop: what
\* notifying one thread of one of two condition variables must achieve
\* (task_manager.cc:66-72), for every number of threads and every nesting of calls.
THEOREM WorkIsConserved == Spec => []WorkConserving
  <1>1. WInv => WorkConserving
    BY DEF WInv
  <1>2. QED
    BY WakeInvariant, <1>1, PTL

-----------------------------------------------------------------------------
(* The thread pool implements ParallelFor as its callers know it, for       *)
(* every nesting of calls.                                                  *)

(* What is recorded of the calls. *)

CallRecord ==
  [call : Calls, invoked : SUBSET (U64 \X U64), thrown : SUBSET U64, open : BOOLEAN,
   error : U64 \cup {NoException}]

Recorded ==
  /\ history \in Seq(CallRecord)
  /\ Len(history) = Len(groups)
  /\ \A g \in DOMAIN groups : history[g].call = groups[g].call

\* One TaskRunner waits for a group, and its call is still open.
OneCaller ==
  \A t, u \in Threads : \A i \in DOMAIN stack[t], j \in DOMAIN stack[u] :
    /\ stack[t][i].role = "runner" /\ stack[u][j].role = "runner"
    /\ stack[t][i].group = stack[u][j].group /\ stack[t][i].group # Pool
    => t = u /\ i = j

OpenWhileWaited ==
  \A g \in DOMAIN groups, t \in Threads : WaitsFor(t, g) => history[g].open

\* What eptr keeps was thrown, and it keeps something once anything was thrown; an open call
\* has returned no error.
ErrorsKept ==
  \A g \in DOMAIN groups :
    /\ groups[g].eptr = NoException => history[g].thrown = {}
    /\ groups[g].eptr # NoException => groups[g].eptr \in history[g].thrown
    /\ history[g].open => history[g].error = NoException

\* A func that threw, or that called ParallelFor, was invoked on a piece of its task.
InvokedFrames(q) ==
  \A i \in DOMAIN q :
    (q[i].role = "failed" \/ (q[i].role = "task" /\ i < Len(q))) => q[i].at < q[i].to

InFunc == \A t \in Threads : InvokedFrames(stack[t])

\* Index x of group g is still to be served by a queued task, or by a frame.
InQueue(q, i, g, x) ==
  i \in DOMAIN q /\ q[i].group = g /\ q[i].from <= x /\ x < q[i].to

InFrame(s, t, i, g, x) ==
  /\ i \in DOMAIN s[t]
  /\ s[t][i].role # "runner" /\ s[t][i].group = g
  /\ s[t][i].at <= x /\ x < s[t][i].to

Wanted(h, x) == x \in API!Indices(h.call)

IsServed(h, x) == \E p \in h.invoked : p[1] <= x /\ x < p[2]

OneHolder(g, x) ==
  /\ \A i, j : InQueue(tasks, i, g, x) /\ InQueue(tasks, j, g, x) => i = j
  /\ \A i : \A t \in Threads : \A k :
       ~(InQueue(tasks, i, g, x) /\ InFrame(stack, t, k, g, x))
  /\ \A t, u \in Threads : \A i, j :
       InFrame(stack, t, i, g, x) /\ InFrame(stack, u, j, g, x) => t = u /\ i = j

Held(g, x) ==
  \/ \E i : InQueue(tasks, i, g, x)
  \/ \E t \in Threads : \E k : InFrame(stack, t, k, g, x)

\* Every index is wanted, and served or held, but not both.
Shares(g, x) ==
  /\ OneHolder(g, x)
  /\ Held(g, x) => Wanted(history[g], x) /\ ~IsServed(history[g], x)
  /\ IsServed(history[g], x) => Wanted(history[g], x)
  /\ history[g].thrown = {} /\ Wanted(history[g], x)
       => IsServed(history[g], x) \/ Held(g, x)

OneServer == \A g \in DOMAIN groups : \A x \in U64 : Shares(g, x)

CallsInv ==
  Recorded /\ OneCaller /\ OpenWhileWaited /\ ErrorsKept /\ InFunc /\ OneServer

LEMMA RecordFacts ==
  ASSUME IInv, Recorded
  PROVE  /\ DOMAIN history = DOMAIN groups /\ DOMAIN groups = 1 .. Len(groups)
         /\ Len(groups) \in Nat
         /\ \A g \in DOMAIN groups : history[g] \in CallRecord /\ groups[g] \in GroupType
  <1>1. groups \in Seq(GroupType) /\ history \in Seq(CallRecord) /\ Len(history) = Len(groups)
    BY DEF IInv, TypeOK, Recorded
  <1>2. QED
    BY <1>1, InSeq

\* The record of one call changes, the others stay.
LEMMA OneRecord ==
  ASSUME IInv, Recorded, NEW g \in DOMAIN groups, NEW h \in CallRecord,
         h.call = history[g].call, history' = [history EXCEPT ![g] = h],
         DOMAIN groups' = DOMAIN groups, Len(groups') = Len(groups),
         \A k \in DOMAIN groups : groups'[k].call = groups[k].call
  PROVE  /\ Recorded' /\ history'[g] = h
         /\ \A k \in DOMAIN groups : k # g => history'[k] = history[k]
  <1>1. /\ g \in DOMAIN history /\ history \in Seq(CallRecord)
        /\ DOMAIN history = DOMAIN groups
    BY RecordFacts DEF Recorded
  <1>2. /\ history' \in Seq(CallRecord) /\ Len(history') = Len(history)
        /\ history'[g] = h
        /\ \A k \in DOMAIN groups : k # g => history'[k] = history[k]
    BY <1>1, ExceptSeq
  <1>3. QED
    BY <1>2 DEF Recorded

\* The piece of its task a func works on.
LEMMA PieceFacts ==
  ASSUME IInv, Nested, Recorded, NEW t \in Threads,
         ~Idle(t), Top(t).role # "runner", Top(t).at < Top(t).to
  PROVE  /\ Top(t).group \in DOMAIN groups
         /\ Top(t).at \in U64 /\ PieceEnd(Top(t)) \in U64 /\ Top(t).to \in U64
         /\ Top(t).at < PieceEnd(Top(t)) /\ PieceEnd(Top(t)) <= Top(t).to
         /\ PieceEnd(Top(t)) - Top(t).at <= history[Top(t).group].call.maxChunk
  <1> DEFINE f == Top(t)
             chunk == Call(f.group).maxChunk
  <1>1. f \in FrameType /\ f.group \in DOMAIN groups /\ f.at < f.to
    BY NonemptyTop, TopKnown
  <1>2. chunk \in U64 \ {0} /\ chunk = history[f.group].call.maxChunk
    <2>1. groups[f.group] \in GroupType /\ history[f.group].call = groups[f.group].call
      BY <1>1, RecordFacts DEF Recorded
    <2>2. QED
      BY <2>1, PoolAssumption DEF GroupType, Call, CallArguments
  <1>3. f.at \in U64 /\ f.to \in U64
    BY <1>1 DEF FrameType
  <1>4. /\ PieceEnd(f) \in U64 /\ PieceEnd(f) > f.at
        /\ PieceEnd(f) = IF f.at + chunk <= f.to THEN f.at + chunk ELSE f.to
    BY <1>1, <1>2, <1>3, GetTaskEndIdxIsMinimum DEF PieceEnd
  <1> HIDE DEF f, chunk
  <1>5. PieceEnd(f) <= f.to /\ PieceEnd(f) - f.at <= chunk
    BY <1>2, <1>3, <1>4, <1>1, WordAssumption DEF U64
  <1>6. QED
    BY <1>1, <1>2, <1>3, <1>4, <1>5 DEF f

\* A call with a task left is open.
LEMMA StillOpen ==
  ASSUME IInv, CallsInv, NEW g \in DOMAIN groups, Queued(g) # {} \/ Running(g) # {}
  PROVE  history[g].open
  <1>1. groups[g].siblings > 0
    BY Unfinished
  <1>2. PICK t \in Threads : WaitsFor(t, g)
    BY <1>1 DEF IInv, CallerWaits
  <1>3. QED
    BY <1>2 DEF CallsInv, OpenWhileWaited

-----------------------------------------------------------------------------
(* Every step is a step of the interface, or leaves the record alone. *)

LEMMA ServedMember ==
  ASSUME NEW h \in CallRecord, NEW x \in U64
  PROVE  x \in API!Served(h) <=> IsServed(h, x)
  BY WordAssumption DEF API!Served, IsServed, CallRecord, U64

\* A piece of a frame's task that nobody served yet.
LEMMA PieceIsNew ==
  ASSUME IInv, Nested, CallsInv, NEW t \in Threads,
         ~Idle(t), Top(t).role # "runner", Top(t).at < Top(t).to
  PROVE  LET g == Top(t).group
             h == history[g]
         IN  /\ h.open
             /\ Top(t).at .. PieceEnd(Top(t)) - 1 \subseteq API!Indices(h.call) \ API!Served(h)
             /\ <<Top(t).at, PieceEnd(Top(t))>> \in API!Piece(h.call)
  <1> DEFINE g == Top(t).group
             h == history[g]
             a == Top(t).at
             e == PieceEnd(Top(t))
             m == Len(stack[t])
  <1>1. /\ g \in DOMAIN groups /\ a \in U64 /\ e \in U64 /\ Top(t).to \in U64
        /\ a < e /\ e <= Top(t).to /\ e - a <= h.call.maxChunk
    BY PieceFacts DEF CallsInv
  <1>2. h \in CallRecord
    BY <1>1, RecordFacts DEF CallsInv
  <1>3. m \in DOMAIN stack[t] /\ Top(t) = stack[t][m]
    BY NonemptyTop
  <1>4. h.open
    <2>1. <<t, m>> \in Running(g)
      BY <1>3 DEF Running, RunningIn, RunsAt
    <2>2. QED
      BY <1>1, <2>1, StillOpen
  <1> HIDE DEF g, h, e, m
  <1>5. ASSUME NEW x \in a .. e - 1
        PROVE  x \in U64 /\ x \in API!Indices(h.call) /\ x \notin API!Served(h)
    <2>1. x \in U64 /\ a <= x /\ x < Top(t).to
      BY <1>1, WordAssumption DEF U64
    <2>2. InFrame(stack, t, m, g, x)
      BY <1>3, <2>1 DEF InFrame, g
    <2>3. Shares(g, x)
      BY <1>1, <2>1 DEF CallsInv, OneServer
    <2>4. Wanted(h, x) /\ ~IsServed(h, x)
      BY <2>2, <2>3 DEF Shares, Held, h
    <2>5. QED
      BY <1>2, <2>1, <2>4, ServedMember DEF Wanted
  <1>6. <<a, e>> \in API!Piece(h.call)
    <2>1. h.call.start \in U64 /\ h.call.end \in U64
      BY <1>2, PoolAssumption DEF CallRecord, CallArguments
    <2>2. a \in API!Indices(h.call) /\ e - 1 \in API!Indices(h.call)
      <3>1. a \in a .. e - 1 /\ e - 1 \in a .. e - 1
        BY <1>1, WordAssumption DEF U64
      <3>2. QED
        BY <1>5, <3>1
    <2>3. e \in h.call.start .. h.call.end
      BY <1>1, <2>1, <2>2, WordAssumption DEF API!Indices, U64
    <2>4. QED
      BY <1>1, <2>2, <2>3 DEF API!Piece
  <1>7. QED
    BY <1>4, <1>5, <1>6 DEF g, h, e

LEMMA CallStep ==
  ASSUME IInv, Nested, CallsInv, [Next]_vars
  PROVE  [API!Next]_history
  <1>0. /\ DOMAIN history = DOMAIN groups /\ DOMAIN groups = 1 .. Len(groups)
        /\ Len(groups) \in Nat /\ history \in Seq(CallRecord)
        /\ \A g \in DOMAIN groups : history[g] \in CallRecord /\ groups[g] \in GroupType
    BY RecordFacts DEF CallsInv, Recorded
  <1>1. ASSUME NEW t \in Threads, NEW c \in Calls, Submit(t, c)
        PROVE  API!Next
    BY <1>1 DEF Submit, API!Next, API!Call, NoException, API!NoException
  <1>2. ASSUME NEW t \in Threads, FuncReturns(t)
        PROVE  API!Next
    <2> DEFINE g == Top(t).group
               p == <<Top(t).at, PieceEnd(Top(t))>>
    <2>1. ~Idle(t) /\ Top(t).role # "runner" /\ Top(t).at < Top(t).to
      BY <1>2 DEF FuncReturns, InTask
    <2>2. /\ history[g].open
          /\ p[1] .. p[2] - 1 \subseteq API!Indices(history[g].call) \ API!Served(history[g])
          /\ p \in API!Piece(history[g].call)
      BY <2>1, PieceIsNew
    <2>3. /\ g \in DOMAIN history /\ history[g] \in CallRecord
          /\ p[1] < p[2] /\ p[2] - p[1] <= history[g].call.maxChunk
      BY <1>0, <2>1, PieceFacts DEF CallsInv
    <2>4. history' = [history EXCEPT ![g].invoked = @ \cup {p}]
      BY <1>2 DEF FuncReturns
    <2>5. p = <<p[1], p[2]>>
      OBVIOUS
    <2> HIDE DEF g, p
    <2>6. history' = [history EXCEPT ![g].invoked = @ \cup {<<p[1], p[2]>>}, ![g].thrown = @]
      BY <2>3, <2>4, <2>5 DEF CallRecord
    <2>7. API!Invoke(g, p[1], p[2], FALSE)
      BY <2>2, <2>3, <2>6 DEF API!Invoke
    <2>8. QED
      BY <2>2, <2>3, <2>7 DEF API!Next
  <1>3. ASSUME NEW t \in Threads, FinishTask(t)
        PROVE  [API!Next]_history
    <2> DEFINE g == Top(t).group
               p == <<Top(t).at, PieceEnd(Top(t))>>
    <2>1. CASE Top(t).role # "failed"
      BY <1>3, <2>1 DEF FinishTask
    <2>2. CASE Top(t).role = "failed"
      <3>1. ~Idle(t) /\ Top(t).role # "runner"
        BY <1>3, <2>2 DEF FinishTask
      <3>2. Top(t).at < Top(t).to
        <4>1. Len(stack[t]) \in DOMAIN stack[t] /\ Top(t) = stack[t][Len(stack[t])]
          BY <3>1, NonemptyTop
        <4>2. QED
          BY <2>2, <4>1 DEF CallsInv, InFunc, InvokedFrames
      <3>3. /\ history[g].open
            /\ p[1] .. p[2] - 1 \subseteq API!Indices(history[g].call) \ API!Served(history[g])
            /\ p \in API!Piece(history[g].call)
        BY <3>1, <3>2, PieceIsNew
      <3>4. /\ g \in DOMAIN history /\ history[g] \in CallRecord
            /\ p[1] < p[2] /\ p[2] - p[1] <= history[g].call.maxChunk
        BY <1>0, <3>1, <3>2, PieceFacts DEF CallsInv
      <3>5. history' = [history EXCEPT ![g].invoked = @ \cup {<<p[1], p[2]>>},
                                       ![g].thrown = @ \cup {p[1]}]
        BY <1>3, <2>2 DEF FinishTask
      <3> HIDE DEF g, p
      <3>6. API!Invoke(g, p[1], p[2], TRUE)
        BY <3>3, <3>4, <3>5 DEF API!Invoke
      <3>7. QED
        BY <3>3, <3>4, <3>6 DEF API!Next
    <2>3. QED
      BY <2>1, <2>2
  <1>4. ASSUME NEW t \in Threads, ReturnFromParallelFor(t)
        PROVE  API!Next
    <2> DEFINE g == Top(t).group
               h == history[g]
    <2>1. /\ g # Pool /\ InRunner(t) /\ ~Idle(t) /\ Counter(g) = 0
          /\ history' = [history EXCEPT ![g].open = FALSE, ![g].error = groups[g].eptr]
      BY <1>4, ReturnStack DEF ReturnFromParallelFor
    <2>2. g \in DOMAIN groups /\ h \in CallRecord
      BY <1>0, <2>1, TopKnown
    <2>3. h.open
      <3>1. Len(stack[t]) \in DOMAIN stack[t] /\ Top(t) = stack[t][Len(stack[t])]
        BY <2>1, NonemptyTop
      <3>2. WaitsFor(t, g)
        BY <2>1, <3>1 DEF WaitsFor, InRunner
      <3>3. QED
        BY <2>2, <3>2 DEF CallsInv, OpenWhileWaited
    <2>4. CASE groups[g].eptr = NoException
      <3>1. h.thrown = {} /\ h.error = NoException
        BY <2>2, <2>3, <2>4 DEF CallsInv, ErrorsKept
      <3>2. ~(\E x \in U64 : Held(g, x))
        <4> SUFFICES ASSUME NEW x \in U64, Held(g, x) PROVE FALSE
          OBVIOUS
        <4>1. groups[g].siblings = 0
          BY <2>1 DEF Counter
        <4>2. CASE \E i : InQueue(tasks, i, g, x)
          BY <2>2, <4>1, <4>2, Unfinished DEF InQueue, Queued, QueuedIn
        <4>3. CASE \E u \in Threads : \E k : InFrame(stack, u, k, g, x)
          <5>1. PICK u \in Threads : \E k : InFrame(stack, u, k, g, x)
            BY <4>3
          <5>2. PICK k : InFrame(stack, u, k, g, x)
            BY <5>1
          <5>3. <<u, k>> \in Running(g)
            BY <5>2 DEF InFrame, Running, RunningIn, RunsAt
          <5>4. QED
            BY <2>2, <4>1, <5>3, Unfinished
        <4>4. QED
          BY <4>2, <4>3 DEF Held
      <3>3. API!Indices(h.call) \subseteq U64 /\ API!Served(h) \subseteq U64
        <4>1. h.call.start \in U64 /\ h.call.end \in U64
          BY <2>2, PoolAssumption DEF CallRecord, CallArguments
        <4>2. API!Indices(h.call) \subseteq U64
          BY <4>1, WordAssumption DEF API!Indices, U64
        <4>3. API!Served(h) \subseteq U64
          <5> SUFFICES ASSUME NEW p \in h.invoked PROVE p[1] .. p[2] - 1 \subseteq U64
            BY DEF API!Served
          <5>1. p[1] \in U64 /\ p[2] \in U64
            BY <2>2 DEF CallRecord
          <5>2. QED
            BY <5>1, WordAssumption DEF U64
        <4>4. QED
          BY <4>2, <4>3
      <3>4. ASSUME NEW x \in U64
            PROVE  x \in API!Served(h) <=> x \in API!Indices(h.call)
        <4>1. Shares(g, x)
          BY <2>2 DEF CallsInv, OneServer
        <4>2. IsServed(h, x) <=> Wanted(h, x)
          BY <3>1, <3>2, <4>1 DEF Shares
        <4>3. QED
          BY <2>2, <4>2, ServedMember DEF Wanted
      <3>5. API!Served(h) = API!Indices(h.call)
        BY <3>3, <3>4
      <3>6. history' = [history EXCEPT ![g].open = FALSE]
        BY <1>0, <2>1, <2>2, <2>4, <3>1 DEF CallRecord
      <3>7. API!Return(g)
        BY <2>3, <3>1, <3>5, <3>6 DEF API!Return
      <3>8. QED
        BY <1>0, <2>2, <3>7 DEF API!Next
    <2>5. CASE groups[g].eptr # NoException
      <3>1. groups[g].eptr \in h.thrown
        BY <2>2, <2>5 DEF CallsInv, ErrorsKept
      <3>2. API!Rethrow(g, groups[g].eptr)
        BY <2>1, <2>3, <3>1 DEF API!Rethrow
      <3>3. QED
        BY <1>0, <2>2, <3>1, <3>2 DEF API!Next
    <2>6. QED
      BY <2>4, <2>5
  <1>5. ASSUME NEW t \in Threads,
               Sleep(t) \/ SpuriousWake(t) \/ RunTask(t) \/ WorkerExit(t) \/ FuncThrows(t)
        PROVE  history' = history
    BY <1>5 DEF Sleep, SpuriousWake, RunTask, WorkerExit, FuncThrows
  <1>6. CASE Destroy \/ Terminated \/ UNCHANGED vars
    BY <1>6 DEF Destroy, Terminated, vars
  <1>7. QED
    BY <1>1, <1>2, <1>3, <1>4, <1>5, <1>6 DEF Next, RunnerStep, TaskStep

-----------------------------------------------------------------------------
(* What a change of one stack does to the frames that hold an index. *)

FrameHolds(f, g, x) ==
  f.role # "runner" /\ f.group = g /\ f.at <= x /\ x < f.to

LEMMA AfterPush ==
  ASSUME NEW s, NEW s2, NEW t \in Threads, s[t] \in Seq(FrameType), NEW f \in FrameType,
         s2[t] = Push(s[t], f), OnlyStackOf(t, s, s2)
  PROVE  LET n == Len(s[t])
         IN  /\ \A u \in Threads : \A i, g, x :
                  InFrame(s2, u, i, g, x) <=>
                    InFrame(s, u, i, g, x) \/ (u = t /\ i = n + 1 /\ FrameHolds(f, g, x))
             /\ \A i, g, x : InFrame(s, t, i, g, x) => i # n + 1
             /\ /\ InvokedFrames(s[t]) /\ f.role # "failed"
                /\ s[t] # <<>> /\ s[t][n].role = "task" => s[t][n].at < s[t][n].to
                => InvokedFrames(s2[t])
             /\ \A u \in Threads : \A i \in DOMAIN s2[u] :
                  \/ u = t /\ i = n + 1 /\ s2[u][i] = f
                  \/ i \in DOMAIN s[u] /\ s2[u][i] = s[u][i]
  <1> DEFINE n == Len(s[t])
  <1>1. /\ n \in Nat /\ DOMAIN s[t] = 1 .. n /\ DOMAIN s2[t] = 1 .. n + 1 /\ Len(s2[t]) = n + 1
        /\ \A i \in 1 .. n : s2[t][i] = s[t][i]
        /\ s2[t][n + 1] = f /\ (s[t] # <<>> => n > 0)
    <2>1. /\ DOMAIN Push(s[t], f) = 1 .. n + 1 /\ Len(Push(s[t], f)) = n + 1
          /\ \A i \in 1 .. n : Push(s[t], f)[i] = s[t][i]
          /\ Push(s[t], f)[n + 1] = f
      BY DEF Push
    <2>2. n \in Nat /\ DOMAIN s[t] = 1 .. n /\ (s[t] # <<>> => n > 0)
      OBVIOUS
    <2>3. QED
      BY <2>1, <2>2
  <1>2. \A u \in Threads \ {t} : s2[u] = s[u]
    BY DEF OnlyStackOf
  <1> HIDE DEF n
  <1>3. \A i, g, x : InFrame(s2, t, i, g, x) <=>
                       InFrame(s, t, i, g, x) \/ (i = n + 1 /\ FrameHolds(f, g, x))
    BY <1>1 DEF InFrame, FrameHolds
  <1>4. \A i, g, x : InFrame(s, t, i, g, x) => i # n + 1
    BY <1>1 DEF InFrame
  <1>5. ASSUME InvokedFrames(s[t]), f.role # "failed",
               s[t] # <<>> /\ s[t][n].role = "task" => s[t][n].at < s[t][n].to
        PROVE  InvokedFrames(s2[t])
    <2> SUFFICES ASSUME NEW i \in 1 .. n + 1,
                        s2[t][i].role = "failed" \/ (s2[t][i].role = "task" /\ i < n + 1)
                 PROVE  s2[t][i].at < s2[t][i].to
      BY <1>1 DEF InvokedFrames
    <2>1. i \in 1 .. n /\ s2[t][i] = s[t][i]
      BY <1>1, <1>5
    <2>2. CASE i < n \/ s[t][i].role = "failed"
      BY <1>1, <1>5, <2>1, <2>2 DEF InvokedFrames, n
    <2>3. CASE i = n /\ s[t][i].role # "failed"
      <3>1. s[t] # <<>>
        BY <1>1, <2>1
      <3>2. QED
        BY <1>1, <1>5, <2>1, <2>3, <3>1
    <2>4. QED
      BY <1>1, <2>1, <2>2, <2>3
  <1>6. \A u \in Threads : \A i, g, x :
          u # t => (InFrame(s2, u, i, g, x) <=> InFrame(s, u, i, g, x))
    BY <1>2 DEF InFrame
  <1>7. \A u \in Threads : \A i \in DOMAIN s2[u] :
          \/ u = t /\ i = n + 1 /\ s2[u][i] = f
          \/ i \in DOMAIN s[u] /\ s2[u][i] = s[u][i]
    BY <1>1, <1>2
  <1>8. QED
    BY <1>3, <1>4, <1>5, <1>6, <1>7 DEF n

LEMMA AfterPop ==
  ASSUME NEW s, NEW s2, NEW t \in Threads, s[t] \in Seq(FrameType), s[t] # <<>>,
         s2[t] = Pop(s[t]), OnlyStackOf(t, s, s2)
  PROVE  LET n == Len(s[t])
         IN  /\ n \in Nat /\ n \notin DOMAIN s2[t]
             /\ \A u \in Threads : \A i, g, x :
                  InFrame(s2, u, i, g, x) <=> InFrame(s, u, i, g, x) /\ ~(u = t /\ i = n)
             /\ InvokedFrames(s[t]) => InvokedFrames(s2[t])
             /\ \A u \in Threads : \A i \in DOMAIN s2[u] :
                  i \in DOMAIN s[u] /\ s2[u][i] = s[u][i]
  <1> DEFINE n == Len(s[t])
  <1>1. /\ n \in Nat \ {0} /\ DOMAIN s[t] = 1 .. n /\ DOMAIN s2[t] = 1 .. n - 1
        /\ Len(s2[t]) = n - 1
        /\ \A i \in 1 .. n - 1 : s2[t][i] = s[t][i]
    BY PopFacts
  <1>2. \A u \in Threads \ {t} : s2[u] = s[u]
    BY DEF OnlyStackOf
  <1>3. InvokedFrames(s[t]) => InvokedFrames(s2[t])
    BY <1>1 DEF InvokedFrames
  <1> HIDE DEF n
  <1>4. \A i, g, x : InFrame(s2, t, i, g, x) <=> InFrame(s, t, i, g, x) /\ i # n
    BY <1>1 DEF InFrame
  <1>5. \A u \in Threads : \A i, g, x :
          u # t => (InFrame(s2, u, i, g, x) <=> InFrame(s, u, i, g, x))
    BY <1>2 DEF InFrame
  <1>6. \A u \in Threads : \A i \in DOMAIN s2[u] : i \in DOMAIN s[u] /\ s2[u][i] = s[u][i]
    BY <1>1, <1>2
  <1>7. n \in Nat /\ n \notin DOMAIN s2[t]
    BY <1>1
  <1>8. QED
    BY <1>3, <1>4, <1>5, <1>6, <1>7 DEF n

LEMMA AfterReplace ==
  ASSUME NEW s, NEW s2, NEW t \in Threads, s[t] \in Seq(FrameType), s[t] # <<>>,
         NEW f \in FrameType, f.role # "runner",
         s2[t] = WithTop(s[t], f), OnlyStackOf(t, s, s2)
  PROVE  LET n == Len(s[t])
         IN  /\ \A u \in Threads : \A i, g, x :
                  InFrame(s2, u, i, g, x) <=>
                    IF u = t /\ i = n THEN FrameHolds(f, g, x) ELSE InFrame(s, u, i, g, x)
             /\ InvokedFrames(s[t]) /\ (f.role = "failed" => f.at < f.to)
                => InvokedFrames(s2[t])
             /\ \A u \in Threads : \A i \in DOMAIN s2[u] :
                  i \in DOMAIN s[u] /\ (s2[u][i].role = "runner" => s2[u][i] = s[u][i])
  <1> DEFINE n == Len(s[t])
  <1>1. /\ n \in Nat \ {0} /\ DOMAIN s[t] = 1 .. n /\ DOMAIN s2[t] = 1 .. n /\ Len(s2[t]) = n
        /\ \A i \in 1 .. n : s2[t][i] = IF i = n THEN f ELSE s[t][i]
    BY ExceptSeq DEF WithTop
  <1>2. \A u \in Threads \ {t} : s2[u] = s[u]
    BY DEF OnlyStackOf
  <1>3. InvokedFrames(s[t]) /\ (f.role = "failed" => f.at < f.to) => InvokedFrames(s2[t])
    BY <1>1 DEF InvokedFrames
  <1> HIDE DEF n
  <1>4. \A i, g, x : InFrame(s2, t, i, g, x) <=>
                       IF i = n THEN FrameHolds(f, g, x) ELSE InFrame(s, t, i, g, x)
    BY <1>1 DEF InFrame, FrameHolds
  <1>5. \A u \in Threads : \A i, g, x :
          u # t => (InFrame(s2, u, i, g, x) <=> InFrame(s, u, i, g, x))
    BY <1>2 DEF InFrame
  <1>6. \A u \in Threads : \A i \in DOMAIN s2[u] :
          i \in DOMAIN s[u] /\ (s2[u][i].role = "runner" => s2[u][i] = s[u][i])
    BY <1>1, <1>2
  <1>7. QED
    BY <1>3, <1>4, <1>5, <1>6 DEF n

-----------------------------------------------------------------------------
(* The waiting callers. *)

\* Runner frames stay where they are, or go.
NoNewRunner ==
  \A u \in Threads : \A i \in DOMAIN stack'[u] :
    stack'[u][i].role = "runner" => i \in DOMAIN stack[u] /\ stack'[u][i] = stack[u][i]

LEMMA CallersStep ==
  ASSUME OneCaller, NoNewRunner
  PROVE  /\ OneCaller'
         /\ \A g \in DOMAIN groups, t \in Threads : WaitsFor(t, g)' => WaitsFor(t, g)
  BY DEF OneCaller, NoNewRunner, WaitsFor

\* Steps that do not end a call.
LEMMA StillWaited ==
  ASSUME OneCaller, OpenWhileWaited, NoNewRunner, DOMAIN groups' = DOMAIN groups,
         \A g \in DOMAIN groups : history'[g].open = history[g].open
  PROVE  OneCaller' /\ OpenWhileWaited'
  BY CallersStep DEF OpenWhileWaited

\* Stacks after each of the other steps.
LEMMA RunTaskFrames ==
  ASSUME IInv, CallsInv, NEW t \in Threads, RunTask(t)
  PROVE  LET n == Len(stack[t]) + 1
             m == Len(tasks)
         IN  /\ NoNewRunner /\ InFunc'
             /\ \A u \in Threads : \A i, g, x :
                  InFrame(stack', u, i, g, x) <=>
                    InFrame(stack, u, i, g, x) \/ (u = t /\ i = n /\ InQueue(tasks, m, g, x))
             /\ \A i, g, x : InFrame(stack, t, i, g, x) => i # n
             /\ \A i, g, x : InQueue(tasks', i, g, x) <=> InQueue(tasks, i, g, x) /\ i # m
  <1> DEFINE n == Len(stack[t])
             m == Len(tasks)
             f == Frame(tasks[m])
  <1>1. /\ stack'[t] = Push(stack[t], f) /\ OnlyStackOf(t, stack, stack')
        /\ InRunner(t) /\ ~Idle(t) /\ f \in FrameType /\ f.role = "task"
    BY RunTaskStack
  <1>2. stack[t] \in Seq(FrameType) /\ Top(t) = stack[t][n] /\ Top(t).role = "runner"
    BY <1>1, NonemptyTop DEF InRunner
  <1>3. tasks' = Pop(tasks) /\ tasks # <<>> /\ tasks \in Seq(Task)
    BY DEF RunTask, IInv, TypeOK
  <1>4. /\ m \in Nat \ {0} /\ DOMAIN tasks = 1 .. m /\ DOMAIN tasks' = 1 .. m - 1
        /\ \A i \in 1 .. m - 1 : tasks'[i] = tasks[i]
    BY <1>3, PopFacts
  <1>5. \A i, g, x : InQueue(tasks', i, g, x) <=> InQueue(tasks, i, g, x) /\ i # m
    BY <1>4 DEF InQueue
  <1>6. \A g, x : FrameHolds(f, g, x) <=> InQueue(tasks, m, g, x)
    BY <1>4 DEF FrameHolds, InQueue, Frame
  <1> HIDE DEF f
  <1>7. /\ \A u \in Threads : \A i, g, x :
             InFrame(stack', u, i, g, x) <=>
               InFrame(stack, u, i, g, x) \/ (u = t /\ i = n + 1 /\ FrameHolds(f, g, x))
        /\ \A i, g, x : InFrame(stack, t, i, g, x) => i # n + 1
        /\ /\ InvokedFrames(stack[t]) /\ f.role # "failed"
           /\ stack[t] # <<>> /\ stack[t][n].role = "task" => stack[t][n].at < stack[t][n].to
           => InvokedFrames(stack'[t])
        /\ \A u \in Threads : \A i \in DOMAIN stack'[u] :
             \/ u = t /\ i = n + 1 /\ stack'[u][i] = f
             \/ i \in DOMAIN stack[u] /\ stack'[u][i] = stack[u][i]
    BY <1>1, <1>2, AfterPush
  <1>8. NoNewRunner
    BY <1>1, <1>7 DEF NoNewRunner
  <1>9. InFunc'
    BY <1>1, <1>2, <1>7 DEF CallsInv, InFunc, OnlyStackOf
  <1>10. QED
    BY <1>5, <1>6, <1>7, <1>8, <1>9

LEMMA FuncReturnsFrames ==
  ASSUME IInv, Nested, CallsInv, NEW t \in Threads, FuncReturns(t)
  PROVE  LET n == Len(stack[t])
         IN  /\ NoNewRunner /\ InFunc'
             /\ \A u \in Threads : \A i, g : \A x \in U64 :
                  InFrame(stack', u, i, g, x) <=>
                    InFrame(stack, u, i, g, x) /\ ~(u = t /\ i = n /\ x < PieceEnd(Top(t)))
  <1> DEFINE n == Len(stack[t])
             e == PieceEnd(Top(t))
             f == [Top(t) EXCEPT !.at = e]
  <1>1. ~Idle(t) /\ Top(t).role = "task" /\ Top(t).at < Top(t).to
    BY DEF FuncReturns, InTask
  <1>2. /\ Top(t) = stack[t][n] /\ Top(t) \in FrameType /\ stack[t] # <<>>
        /\ stack[t] \in Seq(FrameType) /\ n \in DOMAIN stack[t]
    <2>1. /\ Top(t) = stack[t][n] /\ Top(t) \in FrameType /\ stack[t] # <<>>
          /\ stack[t] \in Seq(FrameType) /\ n \in Nat \ {0} /\ DOMAIN stack[t] = 1 .. n
      BY <1>1, NonemptyTop
    <2>2. QED
      BY <2>1
  <1>3. /\ Top(t).at \in U64 /\ e \in U64 /\ Top(t).to \in U64 /\ Top(t).at < e
    BY <1>1, PieceFacts DEF CallsInv
  <1>4. /\ f \in FrameType /\ f.role = "task" /\ f.group = Top(t).group
        /\ f.at = e /\ f.to = Top(t).to
    BY <1>1, <1>2, <1>3 DEF FrameType
  <1>5. stack'[t] = WithTop(stack[t], f) /\ OnlyStackOf(t, stack, stack')
    <2>1. stack' = [stack EXCEPT ![t] = WithTop(stack[t], f)]
      BY <1>1, <1>2, StackFacts DEF FuncReturns, WithTop, Depth, StackState
    <2>2. QED
      BY <2>1, StackChange
  <1> HIDE DEF e, f
  <1>6. /\ \A u \in Threads : \A i, g, x :
             InFrame(stack', u, i, g, x) <=>
               IF u = t /\ i = n THEN FrameHolds(f, g, x) ELSE InFrame(stack, u, i, g, x)
        /\ InvokedFrames(stack[t]) /\ (f.role = "failed" => f.at < f.to)
           => InvokedFrames(stack'[t])
        /\ \A u \in Threads : \A i \in DOMAIN stack'[u] :
             i \in DOMAIN stack[u] /\ (stack'[u][i].role = "runner" => stack'[u][i] = stack[u][i])
    BY <1>2, <1>4, <1>5, AfterReplace
  <1>7. \A g : \A x \in U64 : FrameHolds(f, g, x) <=> InFrame(stack, t, n, g, x) /\ ~(x < e)
    BY <1>1, <1>2, <1>3, <1>4, WordAssumption DEF FrameHolds, InFrame, U64
  <1>8. NoNewRunner
    BY <1>6 DEF NoNewRunner
  <1>9. InFunc'
    BY <1>4, <1>5, <1>6 DEF CallsInv, InFunc, OnlyStackOf
  <1>10. QED
    BY <1>6, <1>7, <1>8, <1>9 DEF e

\* The frame of a func that is left by an exception keeps what it holds.
LEMMA SameFrames ==
  ASSUME IInv, CallsInv, NEW t \in Threads,
         FuncThrows(t) \/ ReturnFromParallelFor(t) \/ WorkerExit(t)
  PROVE  /\ NoNewRunner /\ InFunc'
         /\ InRunner(t) => Len(stack[t]) \notin DOMAIN stack'[t]
         /\ \A u \in Threads : \A i, g, x :
              InFrame(stack', u, i, g, x) <=> InFrame(stack, u, i, g, x)
  <1> DEFINE n == Len(stack[t])
             q == Pop(stack[t])
  <1>0. \A u \in Threads : InvokedFrames(stack[u])
    BY DEF CallsInv, InFunc
  <1>1. CASE FuncThrows(t)
    <2> DEFINE f == Unwind(Top(t))
    <2>1. ~Idle(t) /\ Top(t).role = "task" /\ Top(t).at < Top(t).to
      BY <1>1 DEF FuncThrows, InTask
    <2>2. /\ Top(t) = stack[t][n] /\ Top(t) \in FrameType /\ stack[t] # <<>>
          /\ stack[t] \in Seq(FrameType) /\ n \in DOMAIN stack[t]
      <3>1. /\ Top(t) = stack[t][n] /\ Top(t) \in FrameType /\ stack[t] # <<>>
            /\ stack[t] \in Seq(FrameType) /\ n \in Nat \ {0} /\ DOMAIN stack[t] = 1 .. n
        BY <2>1, NonemptyTop
      <3>2. QED
        BY <3>1
    <2>3. /\ f \in FrameType /\ f.role = "failed" /\ f.group = Top(t).group
          /\ f.at = Top(t).at /\ f.to = Top(t).to
      BY <2>1, <2>2 DEF Unwind, FrameType
    <2>4. stack'[t] = WithTop(stack[t], f) /\ OnlyStackOf(t, stack, stack')
      <3>1. stack' = [stack EXCEPT ![t] = WithTop(stack[t], f)]
        BY <1>1, <2>1, <2>2, StackFacts DEF FuncThrows, WithTop, Depth, StackState
      <3>2. QED
        BY <3>1, StackChange
    <2> HIDE DEF f
    <2>5. /\ \A u \in Threads : \A i, g, x :
               InFrame(stack', u, i, g, x) <=>
                 IF u = t /\ i = n THEN FrameHolds(f, g, x) ELSE InFrame(stack, u, i, g, x)
          /\ InvokedFrames(stack[t]) /\ (f.role = "failed" => f.at < f.to)
             => InvokedFrames(stack'[t])
          /\ \A u \in Threads : \A i \in DOMAIN stack'[u] :
               i \in DOMAIN stack[u] /\ (stack'[u][i].role = "runner" => stack'[u][i] = stack[u][i])
      BY <2>2, <2>3, <2>4, AfterReplace
    <2>6. \A g, x : FrameHolds(f, g, x) <=> InFrame(stack, t, n, g, x)
      BY <2>1, <2>2, <2>3 DEF FrameHolds, InFrame
    <2>7. NoNewRunner /\ ~InRunner(t)
      BY <2>1, <2>5 DEF NoNewRunner, InRunner
    <2>8. InFunc'
      BY <1>0, <2>1, <2>3, <2>4, <2>5 DEF InFunc, OnlyStackOf
    <2>9. QED
      BY <2>5, <2>6, <2>7, <2>8
  <1>2. CASE ReturnFromParallelFor(t) \/ WorkerExit(t)
    <2>1. /\ ~Idle(t) /\ InRunner(t) /\ OnlyStackOf(t, stack, stack')
          /\ \/ stack'[t] = q
             \/ /\ q # <<>>
                /\ \E f \in FrameType :
                     stack'[t] = WithTop(q, f) /\ f.role = "failed" /\ f = Unwind(q[Len(q)])
      BY <1>2, ReturnStack, PopStack
    <2>2. /\ stack[t] \in Seq(FrameType) /\ stack[t] # <<>> /\ Top(t) = stack[t][n]
          /\ n \in Nat \ {0} /\ DOMAIN stack[t] = 1 .. n
          /\ q \in Seq(FrameType) /\ Len(q) = n - 1
          /\ \A i \in 1 .. n - 1 : q[i] = stack[t][i]
      BY <2>1, NonemptyTop
    <2> DEFINE s1 == [stack EXCEPT ![t] = q]
    <2>3. s1[t] = q /\ OnlyStackOf(t, stack, s1)
      BY StackFacts DEF OnlyStackOf, StackState
    <2> HIDE DEF s1, q
    <2>4. /\ n \in Nat /\ n \notin DOMAIN s1[t]
          /\ \A u \in Threads : \A i, g, x :
               InFrame(s1, u, i, g, x) <=> InFrame(stack, u, i, g, x) /\ ~(u = t /\ i = n)
          /\ InvokedFrames(stack[t]) => InvokedFrames(s1[t])
          /\ \A u \in Threads : \A i \in DOMAIN s1[u] :
               i \in DOMAIN stack[u] /\ s1[u][i] = stack[u][i]
      BY <2>2, <2>3, AfterPop DEF q
    <2>5. \A g, x : ~InFrame(stack, t, n, g, x)
      BY <2>1, <2>2 DEF InFrame, InRunner
    <2>6. CASE stack'[t] = q
      <3>1. \A u \in Threads : stack'[u] = s1[u]
        BY <2>1, <2>3, <2>6 DEF OnlyStackOf
      <3>2. \A u \in Threads : \A i, g, x : InFrame(stack', u, i, g, x) <=> InFrame(s1, u, i, g, x)
        BY <3>1 DEF InFrame
      <3>3. NoNewRunner /\ n \notin DOMAIN stack'[t]
        BY <2>4, <3>1 DEF NoNewRunner
      <3>4. InFunc'
        BY <1>0, <2>1, <2>4, <3>1 DEF InFunc, OnlyStackOf
      <3>5. QED
        BY <2>4, <2>5, <3>2, <3>3, <3>4
    <2>7. ASSUME q # <<>>, NEW f \in FrameType, stack'[t] = WithTop(q, f), f.role = "failed",
                 f = Unwind(q[Len(q)])
          PROVE  /\ NoNewRunner /\ InFunc'
                 /\ n \notin DOMAIN stack'[t]
                 /\ \A u \in Threads : \A i, g, x :
                      InFrame(stack', u, i, g, x) <=> InFrame(stack, u, i, g, x)
      <3> DEFINE m == Len(q)
      <3>1. /\ m = n - 1 /\ m \in 1 .. n - 1 /\ m \in 1 .. n /\ m < n
            /\ q[m] = stack[t][m] /\ q[m] \in FrameType /\ n = m + 1
        <4>1. m \in DOMAIN q
          BY <2>2, <2>7
        <4>2. q[m] \in FrameType
          BY <2>2, <4>1, InSeq
        <4>3. QED
          BY <2>2, <4>1, <4>2
      <3>2. q[m].role = "task" \/ q[m].role = "failed"
        <4>1. Alternates(stack[t])
          BY StackFacts DEF Shaped
        <4>2. stack[t][m + 1].role = "runner" => stack[t][m].role # "runner"
          BY <2>2, <3>1, <4>1 DEF Alternates
        <4>3. QED
          BY <2>1, <2>2, <3>1, <4>2 DEF InRunner, FrameType
      <3>3. q[m].at < q[m].to
        BY <1>0, <2>2, <3>1, <3>2 DEF InvokedFrames
      <3>4. /\ f.group = q[m].group /\ f.at = q[m].at /\ f.to = q[m].to
        BY <2>7, <3>1 DEF Unwind, FrameType
      <3>5. OnlyStackOf(t, s1, stack')
        BY <2>1, <2>3 DEF OnlyStackOf
      <3>6. /\ \A u \in Threads : \A i, g, x :
                 InFrame(stack', u, i, g, x) <=>
                   IF u = t /\ i = m THEN FrameHolds(f, g, x) ELSE InFrame(s1, u, i, g, x)
            /\ InvokedFrames(s1[t]) /\ (f.role = "failed" => f.at < f.to)
               => InvokedFrames(stack'[t])
            /\ \A u \in Threads : \A i \in DOMAIN stack'[u] :
                 i \in DOMAIN s1[u] /\ (stack'[u][i].role = "runner" => stack'[u][i] = s1[u][i])
        BY <2>2, <2>3, <2>7, <3>5, AfterReplace
      <3>7. \A g, x : FrameHolds(f, g, x) <=> InFrame(stack, t, m, g, x)
        BY <2>2, <2>7, <3>1, <3>2, <3>4 DEF FrameHolds, InFrame
      <3>8. NoNewRunner /\ n \notin DOMAIN stack'[t]
        BY <2>4, <3>6 DEF NoNewRunner
      <3>9. InFunc'
        BY <1>0, <2>1, <2>4, <2>7, <3>3, <3>4, <3>6 DEF InFunc, OnlyStackOf
      <3>10. QED
        BY <2>4, <2>5, <3>1, <3>6, <3>7, <3>8, <3>9
    <2>8. QED
      BY <2>1, <2>6, <2>7
  <1>3. QED
    BY <1>1, <1>2

LEMMA FinishTaskFrames ==
  ASSUME IInv, CallsInv, NEW t \in Threads, FinishTask(t)
  PROVE  LET n == Len(stack[t])
         IN  /\ NoNewRunner /\ InFunc'
             /\ \A u \in Threads : \A i, g, x :
                  InFrame(stack', u, i, g, x) <=> InFrame(stack, u, i, g, x) /\ ~(u = t /\ i = n)
  <1> DEFINE n == Len(stack[t])
  <1>1. ~Idle(t) /\ stack'[t] = Pop(stack[t]) /\ OnlyStackOf(t, stack, stack')
    BY PopStack
  <1>2. stack[t] \in Seq(FrameType) /\ stack[t] # <<>>
    BY <1>1, NonemptyTop
  <1>3. /\ \A u \in Threads : \A i, g, x :
             InFrame(stack', u, i, g, x) <=> InFrame(stack, u, i, g, x) /\ ~(u = t /\ i = n)
        /\ InvokedFrames(stack[t]) => InvokedFrames(stack'[t])
        /\ \A u \in Threads : \A i \in DOMAIN stack'[u] :
             i \in DOMAIN stack[u] /\ stack'[u][i] = stack[u][i]
    BY <1>1, <1>2, AfterPop
  <1>4. NoNewRunner
    BY <1>3 DEF NoNewRunner
  <1>5. InFunc'
    BY <1>1, <1>3 DEF CallsInv, InFunc, OnlyStackOf
  <1>6. QED
    BY <1>3, <1>4, <1>5

-----------------------------------------------------------------------------
(* The tasks of a call share its range out. *)

LEMMA RangesShare ==
  ASSUME NEW start \in U64, NEW end \in U64, NEW split \in U64 \ {0}
  PROVE  LET r == SplitRange(start, end, split)
         IN  \A x \in U64 :
               /\ \A j, k \in DOMAIN r :
                    r[j].from <= x /\ x < r[j].to /\ r[k].from <= x /\ x < r[k].to => j = k
               /\ (start <= x /\ x < end) <=> \E k \in DOMAIN r : r[k].from <= x /\ x < r[k].to
  <1> DEFINE r == SplitRange(start, end, split)
             n == Len(r)
  <1>1. /\ r \in Seq([from : U64, to : U64])
        /\ \A k \in DOMAIN r : start <= r[k].from /\ r[k].from < r[k].to /\ r[k].to <= end
        /\ \A k \in 1 .. n - 1 : r[k].to = r[k + 1].from
        /\ start < end => n > 0 /\ r[1].from = start /\ r[n].to = end
    <2>1. r \in Seq([from : U64, to : U64])
      BY SplitRangePartitions
    <2>2. \A k \in DOMAIN r : start <= r[k].from /\ r[k].from < r[k].to /\ r[k].to <= end
      BY SplitRangePartitions
    <2>3. \A k \in 1 .. n - 1 : r[k].to = r[k + 1].from
      BY SplitRangePartitions
    <2>4. ASSUME start < end PROVE n > 0 /\ r[1].from = start /\ r[n].to = end
      BY <2>4, SplitRangePartitions
    <2>5. QED
      BY <2>1, <2>2, <2>3, <2>4
  <1> HIDE DEF r
  <1>2. n \in Nat /\ DOMAIN r = 1 .. n
    BY <1>1
  <1> HIDE DEF n
  <1>3. \A k \in 1 .. n : r[k].from \in Nat /\ r[k].to \in Nat
    <2>1. \A k \in DOMAIN r : r[k] \in [from : U64, to : U64]
      BY <1>1, InSeq
    <2>2. \A p \in [from : U64, to : U64] : p.from \in Nat /\ p.to \in Nat
      BY WordAssumption DEF U64
    <2>3. QED
      BY <1>2, <2>1, <2>2
  <1>4. ASSUME NEW j \in 1 .. n, NEW k \in 1 .. n, j < k
        PROVE  r[j].to <= r[k].from
    <2> DEFINE S == {i \in 1 .. n : j < i /\ r[i].from < r[j].to}
    <2> SUFFICES ASSUME S # {} PROVE FALSE
      BY <1>3, <1>4
    <2>1. S \in SUBSET Nat
      BY <1>2
    <2>2. PICK i \in S : \A m \in S : i <= m
      BY <2>1, LeastElement
    <2>3. i - 1 \in 1 .. n - 1 /\ i - 1 \in 1 .. n /\ (i - 1) + 1 = i /\ j <= i - 1
      BY <1>2, <2>1, <2>2
    <2>4. r[i - 1].to = r[i].from /\ r[i - 1].from < r[i - 1].to
      BY <1>1, <1>2, <2>3
    <2>5. i - 1 \notin S
      BY <1>2, <2>1, <2>2
    <2>6. QED
      BY <1>2, <1>3, <2>2, <2>3, <2>4, <2>5
  <1>5. ASSUME NEW x \in U64, NEW j \in 1 .. n, NEW k \in 1 .. n,
               r[j].from <= x, x < r[j].to, r[k].from <= x, x < r[k].to
        PROVE  j = k
    BY <1>2, <1>3, <1>4, <1>5, WordAssumption DEF U64
  <1>6. ASSUME NEW x \in U64, start <= x, x < end
        PROVE  \E k \in 1 .. n : r[k].from <= x /\ x < r[k].to
    <2> DEFINE S == {i \in 1 .. n : x < r[i].to}
    <2>1. start < end
      BY <1>6, WordAssumption DEF U64
    <2>2. n \in S /\ S \in SUBSET Nat
      BY <1>1, <1>2, <1>6, <2>1
    <2>3. PICK i \in S : \A m \in S : i <= m
      BY <2>2, LeastElement
    <2>4. CASE i = 1
      BY <1>1, <1>6, <2>1, <2>3, <2>4
    <2>5. CASE i # 1
      <3>1. i - 1 \in 1 .. n - 1 /\ i - 1 \in 1 .. n /\ (i - 1) + 1 = i
        BY <1>2, <2>2, <2>3, <2>5
      <3>2. i - 1 \notin S
        BY <2>2, <2>3, <3>1
      <3>3. r[i].from <= x
        <4>1. r[i - 1].to = r[i].from
          BY <1>1, <3>1
        <4>2. r[i - 1].to \in Nat
          BY <1>3, <3>1
        <4>3. QED
          BY <3>1, <3>2, <4>1, <4>2, WordAssumption DEF U64
      <3>4. QED
        BY <2>3, <3>3
    <2>6. QED
      BY <2>4, <2>5
  <1>7. ASSUME NEW x \in U64, NEW k \in 1 .. n, r[k].from <= x, x < r[k].to
        PROVE  start <= x /\ x < end
    <2>1. start <= r[k].from /\ r[k].to <= end
      BY <1>1, <1>2
    <2>2. r[k].from \in Nat /\ r[k].to \in Nat
      BY <1>3
    <2>3. QED
      BY <1>7, <2>1, <2>2, WordAssumption DEF U64
  <1>8. QED
    BY <1>2, <1>5, <1>6, <1>7 DEF r

LEMMA NewTasksShare ==
  ASSUME NEW g \in Group, NEW c \in Calls, NEW x \in U64
  PROVE  /\ \A i, j : InQueue(NewTasks(g, c), i, g, x) /\ InQueue(NewTasks(g, c), j, g, x)
                        => i = j
         /\ x \in API!Indices(c) <=> \E i : InQueue(NewTasks(g, c), i, g, x)
  <1> DEFINE split == SplitSize(c.start, c.end, c.minWork, NumThreads)
             r == SplitRange(c.start, c.end, split)
             new == NewTasks(g, c)
  <1>1. c.start \in U64 /\ c.end \in U64 /\ c.minWork \in U64 \ {0}
    BY PoolAssumption DEF CallArguments
  <1>2. split \in U64 \ {0}
    BY <1>1, SplitSizeType
  <1>3. /\ \A j, k \in DOMAIN r :
             r[j].from <= x /\ x < r[j].to /\ r[k].from <= x /\ x < r[k].to => j = k
        /\ (c.start <= x /\ x < c.end) <=> \E k \in DOMAIN r : r[k].from <= x /\ x < r[k].to
    <2> HIDE DEF split
    <2>1. QED
      BY <1>1, <1>2, RangesShare
  <1>4. new = [k \in DOMAIN r |-> [group |-> g, from |-> r[k].from, to |-> r[k].to]]
    BY DEF NewTasks
  <1> HIDE DEF r, new
  <1>5. \A i : InQueue(new, i, g, x) <=> i \in DOMAIN r /\ r[i].from <= x /\ x < r[i].to
    BY <1>4 DEF InQueue
  <1>6. x \in API!Indices(c) <=> c.start <= x /\ x < c.end
    BY <1>1, WordAssumption DEF API!Indices, U64
  <1>7. QED
    BY <1>3, <1>5, <1>6 DEF new

-----------------------------------------------------------------------------
(* Every index keeps one holder until it is served. *)

\* The record of a call as far as Shares reads it.
SameRecord(g) ==
  /\ history'[g].call = history[g].call
  /\ history'[g].invoked = history[g].invoked
  /\ history'[g].thrown = history[g].thrown

LEMMA SharesKept ==
  ASSUME NEW g, NEW x, Shares(g, x), SameRecord(g),
         \A i : InQueue(tasks', i, g, x) <=> InQueue(tasks, i, g, x),
         \A u \in Threads : \A i : InFrame(stack', u, i, g, x) <=> InFrame(stack, u, i, g, x)
  PROVE  Shares(g, x)'
  BY DEF Shares, OneHolder, Held, SameRecord, Wanted, IsServed

\* A task goes from the queue to the stack of the thread that runs it.
LEMMA SharesMoved ==
  ASSUME NEW g, NEW x, Shares(g, x), SameRecord(g), NEW t \in Threads, NEW n, NEW m,
         \A i : InQueue(tasks', i, g, x) <=> InQueue(tasks, i, g, x) /\ i # m,
         \A i : InFrame(stack, t, i, g, x) => i # n,
         \A u \in Threads : \A i :
           InFrame(stack', u, i, g, x) <=>
             InFrame(stack, u, i, g, x) \/ (u = t /\ i = n /\ InQueue(tasks, m, g, x))
  PROVE  Shares(g, x)'
  <1>1. OneHolder(g, x)'
    BY DEF Shares, OneHolder
  <1>2. Held(g, x)' <=> Held(g, x)
    BY DEF Held
  <1>3. QED
    BY <1>1, <1>2 DEF Shares, SameRecord, Wanted, IsServed

\* The piece [a, e) of the frame at n is served.
LEMMA SharesServed ==
  ASSUME NEW g, NEW x \in U64, Shares(g, x), NEW t \in Threads, NEW n,
         NEW a \in U64, NEW e \in U64,
         history'[g].call = history[g].call,
         history'[g].invoked = history[g].invoked \cup {<<a, e>>},
         history'[g].thrown = {} => history[g].thrown = {},
         a <= x /\ x < e => InFrame(stack, t, n, g, x),
         \A i : InQueue(tasks', i, g, x) <=> InQueue(tasks, i, g, x),
         \/ \A u \in Threads : \A i :
              InFrame(stack', u, i, g, x) <=>
                InFrame(stack, u, i, g, x) /\ ~(u = t /\ i = n /\ x < e)
         \/ /\ history'[g].thrown # {}
            /\ \A u \in Threads : \A i :
                 InFrame(stack', u, i, g, x) <=> InFrame(stack, u, i, g, x) /\ ~(u = t /\ i = n),
         InFrame(stack, t, n, g, x) => a <= x
  PROVE  Shares(g, x)'
  <1>1. IsServed(history'[g], x) <=> IsServed(history[g], x) \/ (a <= x /\ x < e)
    <2> DEFINE R == history[g].invoked
               p == <<a, e>>
    <2>1. p[1] = a /\ p[2] = e
      OBVIOUS
    <2>2. history'[g].invoked = R \cup {p}
      OBVIOUS
    <2> HIDE DEF p, R
    <2>3. (\E y \in R \cup {p} : y[1] <= x /\ x < y[2])
            <=> (\E y \in R : y[1] <= x /\ x < y[2]) \/ (a <= x /\ x < e)
      BY <2>1
    <2>4. QED
      BY <2>2, <2>3 DEF IsServed, R
  <1>2. Wanted(history'[g], x) <=> Wanted(history[g], x)
    BY DEF Wanted
  <1>3. \A u \in Threads : \A i : InFrame(stack', u, i, g, x) => InFrame(stack, u, i, g, x)
    OBVIOUS
  <1>4. OneHolder(g, x)'
    BY <1>3 DEF Shares, OneHolder
  <1>5. Held(g, x)' => Held(g, x) /\ ~(a <= x /\ x < e)
    <2>1. Held(g, x)' => Held(g, x)
      BY <1>3 DEF Held
    <2>2. ASSUME Held(g, x)', a <= x, x < e PROVE FALSE
      <3>1. InFrame(stack, t, n, g, x)
        BY <2>2
      <3>2. ~InFrame(stack', t, n, g, x)
        BY <2>2
      <3>3. \A u \in Threads : \A i : InFrame(stack', u, i, g, x) => u = t /\ i = n
        BY <1>3, <3>1 DEF Shares, OneHolder
      <3>4. \A i : ~InQueue(tasks, i, g, x)
        BY <3>1 DEF Shares, OneHolder
      <3>5. QED
        BY <2>2, <3>2, <3>3, <3>4 DEF Held
    <2>3. QED
      BY <2>1, <2>2
  <1>6. ASSUME history'[g].thrown = {}, Held(g, x)
        PROVE  Held(g, x)' \/ (a <= x /\ x < e)
    BY <1>6 DEF Held
  <1>7. a <= x /\ x < e => Wanted(history[g], x)
    BY DEF Shares, Held
  <1>8. QED
    BY <1>1, <1>2, <1>4, <1>5, <1>6, <1>7 DEF Shares

-----------------------------------------------------------------------------
(* Every action keeps CallsInv. *)

\* Records that only open and close.
LEMMA SameShares ==
  ASSUME CallsInv, DOMAIN groups' = DOMAIN groups,
         \A g \in DOMAIN groups : SameRecord(g),
         \A i, g, x : InQueue(tasks', i, g, x) <=> InQueue(tasks, i, g, x),
         \A u \in Threads : \A i, g, x :
           InFrame(stack', u, i, g, x) <=> InFrame(stack, u, i, g, x)
  PROVE  OneServer'
  <1> SUFFICES ASSUME NEW g \in DOMAIN groups, NEW x \in U64 PROVE Shares(g, x)'
    BY DEF OneServer
  <1>1. Shares(g, x)
    BY DEF CallsInv, OneServer
  <1>2. QED
    BY <1>1, SharesKept

\* Steps that touch neither the calls nor their records.
LEMMA CallsUntouched ==
  ASSUME IInv, CallsInv, UNCHANGED <<groups, history>>, NoNewRunner
  PROVE  Recorded' /\ OneCaller' /\ OpenWhileWaited' /\ ErrorsKept'
  <1>1. Recorded' /\ ErrorsKept'
    BY DEF CallsInv, Recorded, ErrorsKept
  <1>2. OneCaller' /\ OpenWhileWaited'
    BY StillWaited DEF CallsInv
  <1>3. QED
    BY <1>1, <1>2

LEMMA CallsQuiet ==
  ASSUME IInv, CallsInv, UNCHANGED <<tasks, stack, groups, history>>
  PROVE  CallsInv'
  <1>1. NoNewRunner /\ InFunc'
    BY DEF NoNewRunner, CallsInv, InFunc
  <1>2. OneServer'
    BY SameShares DEF SameRecord
  <1>3. QED
    BY <1>1, <1>2, CallsUntouched DEF CallsInv

LEMMA CallsRunTask ==
  ASSUME IInv, CallsInv, NEW t \in Threads, RunTask(t)
  PROVE  CallsInv'
  <1> DEFINE n == Len(stack[t]) + 1
             m == Len(tasks)
  <1>1. /\ NoNewRunner /\ InFunc'
        /\ \A u \in Threads : \A i, g, x :
             InFrame(stack', u, i, g, x) <=>
               InFrame(stack, u, i, g, x) \/ (u = t /\ i = n /\ InQueue(tasks, m, g, x))
        /\ \A i, g, x : InFrame(stack, t, i, g, x) => i # n
        /\ \A i, g, x : InQueue(tasks', i, g, x) <=> InQueue(tasks, i, g, x) /\ i # m
    BY RunTaskFrames
  <1> HIDE DEF n, m
  <1>2. UNCHANGED <<groups, history>>
    BY DEF RunTask
  <1>3. ASSUME NEW g \in DOMAIN groups, NEW x \in U64 PROVE Shares(g, x)'
    <2>1. Shares(g, x) /\ SameRecord(g)
      BY <1>2 DEF CallsInv, OneServer, SameRecord
    <2>2. QED
      BY <1>1, <2>1, SharesMoved
  <1>4. OneServer'
    BY <1>2, <1>3 DEF OneServer
  <1>5. QED
    BY <1>1, <1>2, <1>4, CallsUntouched DEF CallsInv

LEMMA CallsFuncReturns ==
  ASSUME IInv, Nested, CallsInv, NEW t \in Threads, FuncReturns(t)
  PROVE  CallsInv'
  <1> PICK n, g, a, e : /\ n = Len(stack[t]) /\ g = Top(t).group
                        /\ a = Top(t).at /\ e = PieceEnd(Top(t))
    OBVIOUS
  <1> DEFINE h == [history[g] EXCEPT !.invoked = @ \cup {<<a, e>>}]
  <1>1. /\ NoNewRunner /\ InFunc'
        /\ \A u \in Threads : \A i, k : \A x \in U64 :
             InFrame(stack', u, i, k, x) <=>
               InFrame(stack, u, i, k, x) /\ ~(u = t /\ i = n /\ x < e)
    BY FuncReturnsFrames
  <1>2. ~Idle(t) /\ Top(t).role # "runner" /\ Top(t).at < Top(t).to
    BY DEF FuncReturns, InTask
  <1>3. /\ g \in DOMAIN groups /\ a \in U64 /\ e \in U64 /\ Top(t).to \in U64
        /\ a < e /\ e <= Top(t).to
    BY <1>2, PieceFacts DEF CallsInv
  <1>4. stack[t][n] = Top(t) /\ n \in DOMAIN stack[t]
    BY <1>2, NonemptyTop
  <1>5. /\ history[g] \in CallRecord /\ history \in Seq(CallRecord)
        /\ DOMAIN history = DOMAIN groups
    BY <1>3, RecordFacts DEF CallsInv, Recorded
  <1>6. /\ h \in CallRecord /\ h.call = history[g].call /\ h.thrown = history[g].thrown
        /\ h.open = history[g].open /\ h.error = history[g].error
        /\ h.invoked = history[g].invoked \cup {<<a, e>>}
    BY <1>3, <1>5 DEF CallRecord
  <1>7. /\ history' = [history EXCEPT ![g] = h]
        /\ UNCHANGED <<tasks, groups>>
    BY <1>3, <1>5 DEF FuncReturns
  <1> HIDE DEF h
  <1>8. /\ Recorded' /\ history'[g] = h
        /\ \A k \in DOMAIN groups : k # g => history'[k] = history[k]
    BY <1>3, <1>6, <1>7, OneRecord DEF CallsInv
  <1>9. OneCaller' /\ OpenWhileWaited'
    <2>1. \A k \in DOMAIN groups : history'[k].open = history[k].open
      BY <1>6, <1>8
    <2>2. QED
      BY <1>1, <1>7, <2>1, StillWaited DEF CallsInv
  <1>10. ErrorsKept'
    BY <1>6, <1>7, <1>8 DEF CallsInv, ErrorsKept
  <1>11. ASSUME NEW k \in DOMAIN groups, NEW x \in U64 PROVE Shares(k, x)'
    <2>1. Shares(k, x)
      BY DEF CallsInv, OneServer
    <2>2. InFrame(stack, t, n, k, x) <=> k = g /\ a <= x /\ x < Top(t).to
      BY <1>2, <1>4 DEF InFrame
    <2>3. CASE k # g
      BY <1>1, <1>7, <1>8, <2>1, <2>2, <2>3, SharesKept DEF SameRecord
    <2>4. CASE k = g
      <3>1. a <= x /\ x < e => InFrame(stack, t, n, k, x)
        BY <1>3, <2>2, <2>4, WordAssumption DEF U64
      <3>2. QED
        BY <1>1, <1>3, <1>6, <1>7, <1>8, <2>1, <2>2, <2>4, <3>1, SharesServed
    <2>5. QED
      BY <2>3, <2>4
  <1>12. OneServer'
    BY <1>7, <1>11 DEF OneServer
  <1>13. QED
    BY <1>1, <1>8, <1>9, <1>10, <1>12 DEF CallsInv

LEMMA CallsFuncThrows ==
  ASSUME IInv, CallsInv, NEW t \in Threads, FuncThrows(t) \/ WorkerExit(t)
  PROVE  CallsInv'
  <1>1. /\ NoNewRunner /\ InFunc'
        /\ \A u \in Threads : \A i, g, x :
             InFrame(stack', u, i, g, x) <=> InFrame(stack, u, i, g, x)
    BY SameFrames
  <1>2. UNCHANGED <<tasks, groups, history>>
    BY DEF FuncThrows, WorkerExit
  <1>3. OneServer'
    BY <1>1, <1>2, SameShares DEF SameRecord
  <1>4. QED
    BY <1>1, <1>2, <1>3, CallsUntouched DEF CallsInv

LEMMA CallsReturn ==
  ASSUME IInv, Nested, CallsInv, NEW t \in Threads, ReturnFromParallelFor(t)
  PROVE  CallsInv'
  <1> PICK n, g : n = Len(stack[t]) /\ g = Top(t).group
    OBVIOUS
  <1> DEFINE h == [history[g] EXCEPT !.open = FALSE, !.error = groups[g].eptr]
  <1>1. /\ InRunner(t) /\ ~Idle(t) /\ g # Pool
        /\ history' = [history EXCEPT ![g].open = FALSE, ![g].error = groups[g].eptr]
        /\ UNCHANGED <<tasks, groups>>
    BY ReturnStack DEF ReturnFromParallelFor
  <1>2. /\ NoNewRunner /\ InFunc' /\ n \notin DOMAIN stack'[t]
        /\ \A u \in Threads : \A i, k, x :
             InFrame(stack', u, i, k, x) <=> InFrame(stack, u, i, k, x)
    BY <1>1, SameFrames
  <1>3. g \in DOMAIN groups
    BY <1>1, TopKnown
  <1>4. /\ history[g] \in CallRecord /\ history \in Seq(CallRecord)
        /\ DOMAIN history = DOMAIN groups
        /\ groups[g] \in GroupType
    BY <1>3, RecordFacts DEF CallsInv, Recorded
  <1>5. /\ h \in CallRecord /\ h.call = history[g].call /\ h.thrown = history[g].thrown
        /\ h.invoked = history[g].invoked /\ ~h.open
    BY <1>4 DEF CallRecord, GroupType
  <1>6. history' = [history EXCEPT ![g] = h]
    BY <1>1, <1>3, <1>4
  <1>7. stack[t][n] = Top(t) /\ n \in DOMAIN stack[t] /\ Top(t).role = "runner"
    BY <1>1, NonemptyTop DEF InRunner
  <1> HIDE DEF h
  <1>8. /\ Recorded' /\ history'[g] = h
        /\ \A k \in DOMAIN groups : k # g => history'[k] = history[k]
    BY <1>1, <1>3, <1>5, <1>6, OneRecord DEF CallsInv
  <1>9. OneCaller' /\ \A k \in DOMAIN groups, u \in Threads : WaitsFor(u, k)' => WaitsFor(u, k)
    BY <1>2, CallersStep DEF CallsInv
  <1>10. ASSUME NEW u \in Threads, WaitsFor(u, g)' PROVE FALSE
    <2>1. PICK i \in DOMAIN stack'[u] : stack'[u][i].role = "runner" /\ stack'[u][i].group = g
      BY <1>10 DEF WaitsFor
    <2>2. i \in DOMAIN stack[u] /\ stack'[u][i] = stack[u][i]
      BY <1>2, <2>1 DEF NoNewRunner
    <2>3. u = t /\ i = n
      BY <1>1, <1>7, <2>1, <2>2 DEF CallsInv, OneCaller
    <2>4. QED
      BY <1>2, <2>1, <2>3
  <1>11. OpenWhileWaited'
    BY <1>1, <1>8, <1>9, <1>10 DEF CallsInv, OpenWhileWaited
  <1>12. ErrorsKept'
    <2>1. PICK all : all = DOMAIN groups
      OBVIOUS
    <2>2. \A k \in all : history[k].thrown = history'[k].thrown
      BY <1>5, <1>8, <2>1
    <2>3. \A k \in all : history'[k].open => history[k].open /\ history'[k].error = history[k].error
      BY <1>5, <1>8, <2>1
    <2>4. QED
      BY <1>1, <2>1, <2>2, <2>3 DEF CallsInv, ErrorsKept
  <1>13. OneServer'
    <2>1. \A k \in DOMAIN groups : SameRecord(k)
      BY <1>5, <1>8 DEF SameRecord
    <2>2. QED
      BY <1>1, <1>2, <2>1, SameShares
  <1>14. QED
    BY <1>2, <1>8, <1>9, <1>11, <1>12, <1>13 DEF CallsInv

LEMMA CallsFinishTask ==
  ASSUME IInv, Nested, CallsInv, NEW t \in Threads, FinishTask(t)
  PROVE  CallsInv'
  <1> PICK n, g, a, e, x0 : /\ n = Len(stack[t]) /\ g = Top(t).group
                            /\ a = Top(t).at /\ e = PieceEnd(Top(t))
                            /\ x0 = ExceptionAfter(Top(t))
    OBVIOUS
  <1> DEFINE h == [history[g] EXCEPT !.invoked = @ \cup {<<a, e>>}, !.thrown = @ \cup {a}]
  <1>1. /\ NoNewRunner /\ InFunc'
        /\ \A u \in Threads : \A i, k, x :
             InFrame(stack', u, i, k, x) <=> InFrame(stack, u, i, k, x) /\ ~(u = t /\ i = n)
    BY FinishTaskFrames
  <1>2. ~Idle(t) /\ Top(t).role # "runner"
    BY DEF FinishTask
  <1>3. g \in DOMAIN groups /\ Top(t) \in FrameType
    BY <1>2, TopKnown, NonemptyTop
  <1>4. stack[t][n] = Top(t) /\ n \in DOMAIN stack[t]
    BY <1>2, NonemptyTop
  <1>5. /\ history[g] \in CallRecord /\ history \in Seq(CallRecord)
        /\ DOMAIN history = DOMAIN groups
        /\ groups[g] \in GroupType /\ groups \in Seq(GroupType)
    BY <1>3, RecordFacts DEF CallsInv, Recorded, IInv, TypeOK
  <1>6. /\ tasks' = tasks /\ DOMAIN groups' = DOMAIN groups /\ Len(groups') = Len(groups)
        /\ \A k \in DOMAIN groups : groups'[k].call = groups[k].call
        /\ \A k \in DOMAIN groups : k # g => groups'[k].eptr = groups[k].eptr
        /\ groups'[g].eptr = x0
    <2> DEFINE s == SiblingsAfter(Top(t))
               b == [groups[g] EXCEPT !.siblings = s, !.eptr = x0]
    <2>1. tasks' = tasks /\ groups' = [groups EXCEPT ![g].siblings = s, ![g].eptr = x0]
      BY DEF FinishTask
    <2> HIDE DEF s
    <2>2. groups' = [groups EXCEPT ![g] = b]
      BY <1>3, <1>5, <2>1 DEF GroupType
    <2>3. b.call = groups[g].call /\ b.eptr = x0
      BY <1>5 DEF GroupType
    <2> HIDE DEF b
    <2>4. /\ DOMAIN groups' = DOMAIN groups /\ Len(groups') = Len(groups) /\ groups'[g] = b
          /\ \A k \in DOMAIN groups : k # g => groups'[k] = groups[k]
      BY <1>3, <1>5, <2>2
    <2>5. QED
      BY <2>1, <2>3, <2>4
  <1>7. \A k, x : InFrame(stack, t, n, k, x) <=> k = g /\ a <= x /\ x < Top(t).to
    BY <1>2, <1>4 DEF InFrame
  <1>8. CASE Top(t).role # "failed"
    <2>1. history' = history /\ Top(t).at >= Top(t).to /\ x0 = groups[g].eptr
      BY <1>8 DEF FinishTask, ExceptionAfter
    <2> HIDE DEF h
    <2>2. \A x \in U64 : \A k : ~InFrame(stack, t, n, k, x)
      BY <1>3, <1>7, <2>1, WordAssumption DEF FrameType, U64
    <2>3. ASSUME NEW k \in DOMAIN groups, NEW x \in U64 PROVE Shares(k, x)'
      <3>1. Shares(k, x) /\ SameRecord(k)
        BY <2>1 DEF CallsInv, OneServer, SameRecord
      <3>2. QED
        BY <1>1, <1>6, <2>2, <3>1, SharesKept
    <2>4. OneServer'
      BY <1>6, <2>3 DEF OneServer
    <2>5. Recorded' /\ ErrorsKept'
      BY <1>6, <2>1 DEF CallsInv, Recorded, ErrorsKept
    <2>6. OneCaller' /\ OpenWhileWaited'
      BY <1>1, <1>6, <2>1, StillWaited DEF CallsInv
    <2>7. QED
      BY <1>1, <2>4, <2>5, <2>6 DEF CallsInv
  <1>9. CASE Top(t).role = "failed"
    <2>1. Top(t).at < Top(t).to
      BY <1>4, <1>9 DEF CallsInv, InFunc, InvokedFrames
    <2>2. /\ a \in U64 /\ e \in U64 /\ Top(t).to \in U64 /\ a < e /\ e <= Top(t).to
      BY <1>2, <2>1, PieceFacts DEF CallsInv
    <2>3. /\ h \in CallRecord /\ h.call = history[g].call /\ h.thrown = history[g].thrown \cup {a}
          /\ h.open = history[g].open /\ h.error = history[g].error
          /\ h.invoked = history[g].invoked \cup {<<a, e>>}
      <3> DEFINE I == history[g].invoked \cup {<<a, e>>}
                 T == history[g].thrown \cup {a}
      <3>1. I \in SUBSET (U64 \X U64) /\ T \in SUBSET U64
        BY <1>5, <2>2 DEF CallRecord
      <3>2. h = [history[g] EXCEPT !.invoked = I, !.thrown = T]
        OBVIOUS
      <3> HIDE DEF I, T, h
      <3>3. /\ h \in CallRecord /\ h.call = history[g].call /\ h.thrown = T
            /\ h.open = history[g].open /\ h.error = history[g].error /\ h.invoked = I
        BY <1>5, <3>1, <3>2 DEF CallRecord
      <3>4. QED
        BY <3>3 DEF I, T
    <2>4. history' = [history EXCEPT ![g] = h]
      BY <1>3, <1>5, <1>9 DEF FinishTask
    <2>5. x0 = IF groups[g].eptr = NoException THEN a ELSE groups[g].eptr
      BY <1>9 DEF ExceptionAfter
    <2>6. a # NoException
      BY <2>2, WordAssumption DEF NoException, U64
    <2> HIDE DEF h
    <2>7. /\ Recorded' /\ history'[g] = h
          /\ \A k \in DOMAIN groups : k # g => history'[k] = history[k]
      BY <1>3, <1>6, <2>3, <2>4, OneRecord DEF CallsInv
    <2>8. OneCaller' /\ OpenWhileWaited'
      <3>1. \A k \in DOMAIN groups : history'[k].open = history[k].open
        BY <2>3, <2>7
      <3>2. QED
        BY <1>1, <1>6, <3>1, StillWaited DEF CallsInv
    <2>9. ErrorsKept'
      <3>1. x0 # NoException /\ x0 \in h.thrown
        BY <1>3, <2>3, <2>5, <2>6 DEF CallsInv, ErrorsKept
      <3>2. ASSUME NEW k \in DOMAIN groups
            PROVE  /\ groups'[k].eptr = NoException => history'[k].thrown = {}
                   /\ groups'[k].eptr # NoException => groups'[k].eptr \in history'[k].thrown
                   /\ history'[k].open => history'[k].error = NoException
        <4>1. CASE k = g
          BY <1>3, <1>6, <2>3, <2>7, <3>1, <4>1 DEF CallsInv, ErrorsKept
        <4>2. CASE k # g
          BY <1>6, <2>7, <4>2 DEF CallsInv, ErrorsKept
        <4>3. QED
          BY <4>1, <4>2
      <3>3. QED
        BY <1>6, <3>2 DEF ErrorsKept
    <2>10. ASSUME NEW k \in DOMAIN groups, NEW x \in U64 PROVE Shares(k, x)'
      <3>1. Shares(k, x)
        BY DEF CallsInv, OneServer
      <3>2. CASE k # g
        BY <1>1, <1>6, <1>7, <2>7, <3>1, <3>2, SharesKept DEF SameRecord
      <3>3. CASE k = g
        <4>1. a <= x /\ x < e => InFrame(stack, t, n, k, x)
          BY <1>7, <2>2, <3>3, WordAssumption DEF U64
        <4>2. history'[k].thrown # {}
          BY <2>3, <2>7, <3>3
        <4>3. /\ history'[k].call = history[k].call
              /\ history'[k].invoked = history[k].invoked \cup {<<a, e>>}
          BY <2>3, <2>7, <3>3
        <4>4. \A u \in Threads : \A i :
                InFrame(stack', u, i, k, x) <=> InFrame(stack, u, i, k, x) /\ ~(u = t /\ i = n)
          BY <1>1
        <4>5. /\ \A i : InQueue(tasks', i, k, x) <=> InQueue(tasks, i, k, x)
              /\ InFrame(stack, t, n, k, x) => a <= x
          BY <1>6, <1>7
        <4>6. QED
          BY <2>2, <3>1, <4>1, <4>2, <4>3, <4>4, <4>5, SharesServed
      <3>4. QED
        BY <3>2, <3>3
    <2>11. OneServer'
      BY <1>6, <2>10 DEF OneServer
    <2>12. QED
      BY <1>1, <2>7, <2>8, <2>9, <2>11 DEF CallsInv
  <1>10. QED
    BY <1>8, <1>9

LEMMA CallsSubmit ==
  ASSUME IInv, Nested, CallsInv, NEW t \in Threads, NEW c \in Calls, Submit(t, c)
  PROVE  CallsInv'
  <1> PICK n, g : n = Len(tasks) /\ g = Len(groups) + 1
    OBVIOUS
  <1> DEFINE new == NewTasks(g, c)
             h == [call |-> c, invoked |-> {}, thrown |-> {}, open |-> TRUE,
                   error |-> NoException]
             b == [call |-> c, siblings |-> Len(new), eptr |-> NoException]
  <1>1. /\ tasks \in Seq(Task) /\ groups \in Seq(GroupType) /\ history \in Seq(CallRecord)
        /\ Len(history) = Len(groups) /\ g \in Group
    BY PoolAssumption DEF IInv, TypeOK, CallsInv, Recorded, Submit, Group
  <1>2. /\ tasks' = tasks \o new /\ groups' = Append(groups, b) /\ history' = Append(history, h)
    BY DEF Submit
  <1>3. new \in Seq(Task) /\ \A k \in DOMAIN new : new[k].group = g
    BY <1>1, NewTasksType
  <1>4. h \in CallRecord
    BY DEF CallRecord
  <1>5. /\ stack'[t] = Push(stack[t], Runner(g)) /\ OnlyStackOf(t, stack, stack')
        /\ ~Idle(t) => Top(t).role = "task"
    BY SubmitStack
  <1>6. ~Idle(t) => Top(t).at < Top(t).to
    BY PoolAssumption DEF Submit, MayCall, Idle
  <1>7. stack[t] \in Seq(FrameType) /\ Runner(g) \in FrameType /\ Runner(g).role = "runner"
    <2>1. stack[t] \in Seq(FrameType)
      BY StackFacts DEF StackState
    <2>2. Runner(g) \in FrameType /\ Runner(g).role = "runner"
      BY <1>1, WordAssumption DEF Runner, FrameType, U64
    <2>3. QED
      BY <2>1, <2>2
  <1>8. /\ \A u \in Threads : \A i, k, x :
             InFrame(stack', u, i, k, x) <=>
               InFrame(stack, u, i, k, x)
                 \/ (u = t /\ i = Len(stack[t]) + 1 /\ FrameHolds(Runner(g), k, x))
        /\ /\ InvokedFrames(stack[t]) /\ Runner(g).role # "failed"
           /\ stack[t] # <<>> /\ stack[t][Len(stack[t])].role = "task"
                => stack[t][Len(stack[t])].at < stack[t][Len(stack[t])].to
           => InvokedFrames(stack'[t])
        /\ \A u \in Threads : \A i \in DOMAIN stack'[u] :
             \/ u = t /\ i = Len(stack[t]) + 1 /\ stack'[u][i] = Runner(g)
             \/ i \in DOMAIN stack[u] /\ stack'[u][i] = stack[u][i]
    <2> HIDE DEF h, b, new
    <2>1. QED
      BY <1>5, <1>7, AfterPush
  <1> HIDE DEF h, b, new
  <1>9. /\ DOMAIN groups' = DOMAIN groups \cup {g} /\ g \notin DOMAIN groups
        /\ \A k \in DOMAIN groups : groups'[k] = groups[k] /\ history'[k] = history[k]
        /\ groups'[g] = b /\ history'[g] = h /\ DOMAIN groups = 1 .. Len(groups)
        /\ Len(history') = Len(groups') /\ history' \in Seq(CallRecord)
    BY <1>1, <1>2, <1>4
  <1>10. \A u \in Threads : \A i, k, x :
           InFrame(stack', u, i, k, x) <=> InFrame(stack, u, i, k, x)
    BY <1>7, <1>8 DEF FrameHolds
  <1>11. InFunc'
    <2>1. InvokedFrames(stack'[t])
      BY <1>5, <1>6, <1>7, <1>8, NonemptyTop DEF CallsInv, InFunc, Idle
    <2>2. QED
      BY <1>5, <2>1 DEF CallsInv, InFunc, OnlyStackOf
  <1>12. Recorded'
    <2>1. h.call = b.call
      BY DEF h, b
    <2>2. QED
      BY <1>9, <2>1 DEF CallsInv, Recorded
  <1>13. ASSUME NEW u \in Threads, NEW i \in DOMAIN stack[u]
         PROVE  stack[u][i].group # g
    <2>1. stack[u][i].group \in DOMAIN groups \cup {Pool}
      <3>1. stack[u] \in Seq(FrameType)
        BY StackFacts DEF StackState
      <3>2. QED
        BY <3>1 DEF Nested, NestedStack
    <2>2. QED
      BY <1>1, <1>9, <2>1 DEF Group, Pool
  <1>14. OneCaller'
    <2>1. Runner(g).group = g
      BY DEF Runner
    <2>2. QED
      BY <1>8, <1>13, <2>1 DEF CallsInv, OneCaller
  <1>15. OpenWhileWaited'
    <2>1. h.open
      BY DEF h
    <2>2. \A k \in DOMAIN groups, u \in Threads : WaitsFor(u, k)' => WaitsFor(u, k)
      <3>1. Runner(g).group = g
        BY DEF Runner
      <3>2. QED
        BY <1>8, <1>9, <3>1 DEF WaitsFor
    <2>3. QED
      BY <1>9, <2>1, <2>2 DEF CallsInv, OpenWhileWaited
  <1>16. ErrorsKept'
    <2>1. h.thrown = {} /\ h.error = NoException /\ b.eptr = NoException
      BY DEF h, b
    <2>2. QED
      BY <1>9, <2>1 DEF CallsInv, ErrorsKept
  <1>17. /\ n \in Nat /\ DOMAIN tasks = 1 .. n /\ DOMAIN new = 1 .. Len(new) /\ Len(new) \in Nat
         /\ DOMAIN tasks' = 1 .. n + Len(new)
         /\ \A i \in 1 .. n : tasks'[i] = tasks[i]
         /\ \A i \in 1 .. Len(new) : tasks'[n + i] = new[i]
    BY <1>1, <1>2, <1>3, ConcatFacts
  <1>18. \A i \in 1 .. n + Len(new) : i \in 1 .. n \/ (i - n \in 1 .. Len(new) /\ i = n + (i - n))
    BY <1>17
  <1>19. \A k \in DOMAIN groups : \A i, x : InQueue(tasks', i, k, x) <=> InQueue(tasks, i, k, x)
    <2>1. \A i \in 1 .. n + Len(new) : i \in 1 .. n \/ tasks'[i].group = g
      BY <1>3, <1>17, <1>18
    <2>2. 1 .. n \subseteq 1 .. n + Len(new)
      BY <1>17
    <2>3. QED
      BY <1>9, <1>17, <2>1, <2>2 DEF InQueue
  <1>20. \A i, x : InQueue(tasks', i, g, x) <=>
                     \E j : i = n + j /\ j \in 1 .. Len(new) /\ InQueue(new, j, g, x)
    <2>1. \A i \in 1 .. n : tasks[i].group # g
      BY <1>9, <1>17 DEF IInv, GroupsKnown
    <2>2. \A j \in 1 .. Len(new) : n + j \in 1 .. n + Len(new) /\ n + j \notin 1 .. n
      BY <1>17
    <2>3. ASSUME NEW i, NEW x, InQueue(tasks', i, g, x)
          PROVE  \E j : i = n + j /\ j \in 1 .. Len(new) /\ InQueue(new, j, g, x)
      <3>1. i \in 1 .. n + Len(new) /\ tasks'[i].group = g
        BY <1>17, <2>3 DEF InQueue
      <3>2. i \notin 1 .. n
        BY <1>17, <2>1, <3>1
      <3>3. PICK j \in 1 .. Len(new) : i = n + j
        BY <1>18, <3>1, <3>2
      <3>4. InQueue(new, j, g, x)
        BY <1>17, <2>3, <3>3 DEF InQueue
      <3>5. QED
        BY <3>3, <3>4
    <2>4. \A j \in 1 .. Len(new) : \A x : InQueue(new, j, g, x) => InQueue(tasks', n + j, g, x)
      BY <1>17, <2>2 DEF InQueue
    <2>5. QED
      BY <2>3, <2>4
  <1>21. ASSUME NEW k \in DOMAIN groups, NEW x \in U64 PROVE Shares(k, x)'
    <2>1. Shares(k, x) /\ SameRecord(k)
      BY <1>9 DEF CallsInv, OneServer, SameRecord
    <2>2. QED
      BY <1>10, <1>19, <2>1, SharesKept
  <1>22. ASSUME NEW x \in U64 PROVE Shares(g, x)'
    <2>1. \A u \in Threads : \A i : ~InFrame(stack', u, i, g, x)
      <3>1. \A u \in Threads : \A i : ~InFrame(stack, u, i, g, x)
        BY <1>13 DEF InFrame
      <3>2. QED
        BY <1>10, <3>1
    <2>2. /\ \A i, j : InQueue(new, i, g, x) /\ InQueue(new, j, g, x) => i = j
          /\ x \in API!Indices(c) <=> \E i : InQueue(new, i, g, x)
      BY <1>1, NewTasksShare DEF new
    <2>3. /\ \A i, j : InQueue(tasks', i, g, x) /\ InQueue(tasks', j, g, x) => i = j
          /\ x \in API!Indices(c) <=> \E i : InQueue(tasks', i, g, x)
      <3>1. \A j : InQueue(new, j, g, x) => j \in 1 .. Len(new)
        BY <1>17 DEF InQueue
      <3>2. ASSUME NEW i, NEW j, InQueue(tasks', i, g, x), InQueue(tasks', j, g, x)
            PROVE  i = j
        <4>1. PICK k : i = n + k /\ InQueue(new, k, g, x)
          BY <1>20, <3>2
        <4>2. PICK l : j = n + l /\ InQueue(new, l, g, x)
          BY <1>20, <3>2
        <4>3. QED
          BY <2>2, <4>1, <4>2
      <3>3. (\E i : InQueue(tasks', i, g, x)) <=> \E i : InQueue(new, i, g, x)
        BY <1>20, <3>1
      <3>4. QED
        BY <2>2, <3>2, <3>3
    <2>4. ~IsServed(h, x) /\ (Wanted(h, x) <=> x \in API!Indices(c))
      BY DEF IsServed, Wanted, h
    <2>5. OneHolder(g, x)'
      BY <2>1, <2>3 DEF OneHolder
    <2>6. Held(g, x)' <=> x \in API!Indices(c)
      BY <2>1, <2>3 DEF Held
    <2>7. QED
      BY <1>9, <2>4, <2>5, <2>6 DEF Shares
  <1>23. OneServer'
    BY <1>9, <1>21, <1>22 DEF OneServer
  <1>24. QED
    BY <1>11, <1>12, <1>14, <1>15, <1>16, <1>23 DEF CallsInv

LEMMA CallsInvStep ==
  ASSUME IInv, Nested, CallsInv, [Next]_vars
  PROVE  CallsInv'
  <1>1. ASSUME NEW t \in Threads, Sleep(t) \/ SpuriousWake(t) PROVE CallsInv'
    BY <1>1, CallsQuiet DEF Sleep, SpuriousWake
  <1>2. CASE Destroy \/ Terminated \/ UNCHANGED vars
    BY <1>2, CallsQuiet DEF Destroy, Terminated, vars
  <1>3. QED
    BY <1>1, <1>2, CallsRunTask, CallsFuncReturns, CallsFuncThrows, CallsReturn,
       CallsFinishTask, CallsSubmit DEF Next, RunnerStep, TaskStep

-----------------------------------------------------------------------------
\* In every reachable state each index of a call that threw nothing has been served, or
\* one queued task or one running func still holds it (task_manager.cc:87-143).
THEOREM CallsInvariant == Spec => [](WInv /\ CallsInv)
  <1>1. Init => CallsInv
    <2> SUFFICES ASSUME Init PROVE CallsInv
      OBVIOUS
    <2>1. /\ history = <<>> /\ groups = <<>>
          /\ \A t \in Threads : stack[t] = IF t = Main THEN <<>> ELSE <<Runner(Pool)>>
      BY DEF Init
    <2>2. Recorded /\ OpenWhileWaited /\ ErrorsKept /\ OneServer
      BY <2>1 DEF Recorded, OpenWhileWaited, ErrorsKept, OneServer
    <2>3. OneCaller /\ InFunc
      BY <2>1 DEF OneCaller, InFunc, InvokedFrames, Runner
    <2>4. QED
      BY <2>2, <2>3 DEF CallsInv
  <1>2. WInv /\ CallsInv /\ [Next]_vars => CallsInv'
    BY CallsInvStep DEF WInv
  <1>3. QED
    BY <1>1, <1>2, WakeInvariant, PTL DEF Spec

\* The pool implements ParallelFor as its callers know it (task_manager.h): func runs on
\* pieces of the range no larger than the caller allowed, on no index twice, only while the
\* call is open; the call returns when every index was served, and a thrown exception comes
\* back to the caller; for every number of threads, nesting of calls and interleaving.
THEOREM PoolImplementsParallelFor == Spec => ImplementsParallelFor
  <1>1. Init => API!Init
    BY DEF Init, API!Init
  <1>2. WInv /\ CallsInv /\ [Next]_vars => [API!Next]_history
    BY CallStep DEF WInv
  <1>3. QED
    BY <1>1, <1>2, CallsInvariant, PTL DEF Spec, ImplementsParallelFor, API!Spec
=============================================================================
