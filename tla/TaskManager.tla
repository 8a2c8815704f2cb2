----------------------------- MODULE TaskManager -----------------------------
(***************************************************************************)
(* src/starkware/utils/task_manager.{h,inl,cc}: the thread pool every      *)
(* parallel loop of the prover runs on.                                    *)
(*                                                                         *)
(* A thread is a stack of frames.  A "runner" frame is a call of           *)
(* TaskRunner: for a worker's outermost frame it waits on continue_running_*)
(* (group Pool), otherwise it is the wait at the end of a ParallelFor and  *)
(* its group is that call's siblings_counter.  A "task" frame is a task    *)
(* closure popped by the runner frame below it, and "failed" one whose     *)
(* func threw.  Every critical section of mutex_ is one step, and so is    *)
(* every invocation of func, which touches no state of the pool unless it  *)
(* calls ParallelFor itself.                                               *)
(***************************************************************************)
EXTENDS WordRange, FiniteSets

CONSTANTS
  Main,          \* the thread that owns the TaskManager
  Workers,       \* the n_threads - 1 threads of workers_
  TopCalls,      \* arguments of the ParallelFor calls the main thread makes
  NestedCalls,   \* arguments of the ParallelFor calls a func makes
  MaxGroups      \* bound on the number of ParallelFor calls of a behaviour

Threads == Workers \cup {Main}

NumThreads == Cardinality(Workers) + 1          \* GetNumThreads()

Calls == TopCalls \cup NestedCalls

(* The arguments of a ParallelFor call, and what its func may do: nests, call
   ParallelFor; throws, throw; meets, return only once every sibling started
   (the Barrier of task_manager_test.cc). *)
CallArguments ==
  [start : U64, end : U64, maxChunk : U64 \ {0}, minWork : U64 \ {0},
   nests : BOOLEAN, throws : BOOLEAN, meets : BOOLEAN]

ASSUME PoolAssumption ==
  /\ IsFiniteSet(Workers)
  /\ Main \notin Workers
  /\ Calls \subseteq CallArguments
  /\ MaxGroups \in Nat

VARIABLES
  tasks,            \* tasks_, a stack: the last one is popped first
  stack,            \* frames of every thread, innermost last
  wait,             \* condition variable state of every thread
  groups,           \* siblings_counter, eptr and the arguments of every ParallelFor
  continueRunning,  \* continue_running_
  history           \* history variable: what func was invoked on, and how calls ended

vars == <<tasks, stack, wait, groups, continueRunning, history>>

NoException == -1

Pool == 0

Runner(g) == [role |-> "runner", group |-> g, at |-> 0, to |-> 0]

Frame(task) == [role |-> "task", group |-> task.group, at |-> task.from, to |-> task.to]

Depth(t) == Len(stack[t])

Top(t) == stack[t][Depth(t)]

Idle(t) == stack[t] = <<>>

InRunner(t) == ~Idle(t) /\ Top(t).role = "runner"

InTask(t) == ~Idle(t) /\ Top(t).role = "task"

Call(g) == groups[g].call

Push(s, f) == Append(s, f)

Pop(s) == SubSeq(s, 1, Len(s) - 1)

\* Positions of the tasks of group g in a task queue q, and of the frames that
\* run one in the stacks s of all threads.
QueuedIn(q, g) == {i \in DOMAIN q : q[i].group = g}

RunsAt(s, t, g) ==
  {i \in DOMAIN s[t] : s[t][i].role # "runner" /\ s[t][i].group = g}

RunningIn(s, g) == UNION {{t} \X RunsAt(s, t, g) : t \in Threads}

Queued(g) == QueuedIn(tasks, g)

Running(g) == RunningIn(stack, g)

\* Mutant: a ParallelFor waits only for its queued tasks, not for the running ones.
CounterOfQueued(g) == IF g = Pool THEN continueRunning ELSE Cardinality(Queued(g))

\* *siblings_counter as the TaskRunner of group g reads it.
Counter(g) == IF g = Pool THEN continueRunning ELSE groups[g].siblings

-----------------------------------------------------------------------------
(* Condition variables.  A thread in Wait is "blocked" until it is notified,
   and "notified" until it holds the mutex again; n_sleeping_threads_ counts
   both.  Workers sleep on new_pending_task_, ParallelFor callers on
   task_group_finished_. *)

OnNewPendingTask(t) == Top(t).group = Pool

SleepingOnNewPendingTask(t) ==
  {u \in Threads \ {t} : wait[u] # "awake" /\ OnNewPendingTask(u)}

SleepingOnGroupFinished(t) ==
  {u \in Threads \ {t} : wait[u] # "awake" /\ ~OnNewPendingTask(u)}

Blocked(S) == {u \in S : wait[u] = "blocked"}

\* wait' when t leaves its own wait and a set of blocked threads is notified.
Wake(t, S) ==
  [u \in Threads |-> IF u = t THEN "awake"
                     ELSE IF u \in S THEN "notified" ELSE wait[u]]

\* notify_one wakes some blocked thread, and nobody when none is blocked.
NotifyOne(t, S) ==
  IF Blocked(S) = {} THEN wait' = Wake(t, {})
  ELSE \E u \in Blocked(S) : wait' = Wake(t, {u})

\* Mutant: only the workers are told of a pending task.
NotifyWorkersOnly(t) == NotifyOne(t, SleepingOnNewPendingTask(t))

\* `if (!new_pending_task_.TryNotify()) task_group_finished_.TryNotify();`
TryNotifyEither(t) ==
  IF SleepingOnNewPendingTask(t) # {}
  THEN NotifyOne(t, SleepingOnNewPendingTask(t))
  ELSE NotifyOne(t, SleepingOnGroupFinished(t))

\* Mutant: the last sibling wakes the threads of the wrong condition variable.
NotifyAllNewPendingTask(t) == wait' = Wake(t, Blocked(SleepingOnNewPendingTask(t)))

NotifyAllGroupFinished(t) ==
  wait' = Wake(t, Blocked(SleepingOnGroupFinished(t)))

-----------------------------------------------------------------------------
Init ==
  /\ tasks = <<>>
  /\ stack = [t \in Threads |-> IF t = Main THEN <<>> ELSE <<Runner(Pool)>>]
  /\ wait = [t \in Threads |-> "awake"]
  /\ groups = <<>>
  /\ continueRunning = 1
  /\ history = <<>>

\* The tasks a ParallelFor pushes for group g.
NewTasks(g, c) ==
  LET split == SplitSize(c.start, c.end, c.minWork, NumThreads)
      ranges == SplitRange(c.start, c.end, split)
  IN  [k \in DOMAIN ranges |->
        [group |-> g, from |-> ranges[k].from, to |-> ranges[k].to]]

MayCall(t, c) ==
  \/ t = Main /\ Idle(t) /\ continueRunning = 1 /\ c \in TopCalls
  \/ InTask(t) /\ Top(t).at < Top(t).to /\ Call(Top(t).group).nests /\ c \in NestedCalls

\* ParallelFor up to the unlock before TaskRunner.
Submit(t, c) ==
  LET g == Len(groups) + 1
      new == NewTasks(g, c)
  IN  /\ MayCall(t, c)
      /\ Len(groups) < MaxGroups
      /\ tasks' = tasks \o new
      /\ groups' = Append(groups, [call |-> c, siblings |-> Len(new),
                                   eptr |-> NoException])
      /\ stack' = [stack EXCEPT ![t] = Push(@, Runner(g))]
      /\ history' = Append(history, [call |-> c, invoked |-> {}, thrown |-> {},
                                     open |-> TRUE, error |-> NoException])
      /\ UNCHANGED <<wait, continueRunning>>

\* TaskRunner's inner loop: nothing to run and the group is not finished.
Sleep(t) ==
  /\ InRunner(t) /\ wait[t] # "blocked"
  /\ Counter(Top(t).group) > 0
  /\ tasks = <<>>
  /\ wait' = [wait EXCEPT ![t] = "blocked"]
  /\ UNCHANGED <<tasks, stack, groups, continueRunning, history>>

\* A condition variable may wake up by itself.
SpuriousWake(t) ==
  /\ wait[t] = "blocked"
  /\ wait' = [wait EXCEPT ![t] = "notified"]
  /\ UNCHANGED <<tasks, stack, groups, continueRunning, history>>

\* TaskRunner pops the newest task and, if more remain, wakes a sleeping thread.
RunTask(t) ==
  /\ InRunner(t) /\ wait[t] # "blocked"
  /\ Counter(Top(t).group) > 0
  /\ tasks # <<>>
  /\ tasks' = Pop(tasks)
  /\ stack' = [stack EXCEPT ![t] = Push(@, Frame(tasks[Len(tasks)]))]
  /\ IF Pop(tasks) # <<>> THEN TryNotifyEither(t) ELSE wait' = Wake(t, {})
  /\ UNCHANGED <<groups, continueRunning, history>>

\* A worker's TaskRunner returns: the thread function ends.
WorkerExit(t) ==
  /\ InRunner(t) /\ wait[t] # "blocked"
  /\ Top(t).group = Pool
  /\ continueRunning = 0
  /\ stack' = [stack EXCEPT ![t] = Pop(@)]
  /\ wait' = Wake(t, {})
  /\ UNCHANGED <<tasks, groups, continueRunning, history>>

\* The frame under a returning ParallelFor when that call rethrows: the func
\* that made the call is left by the same exception.
Unwind(frame) == [frame EXCEPT !.role = "failed"]

\* TaskRunner returns to ParallelFor, which returns or rethrows eptr.
ReturnFromParallelFor(t) ==
  LET g == Top(t).group
      below == Pop(stack[t])
      rethrow == groups[g].eptr # NoException
  IN  /\ InRunner(t) /\ wait[t] # "blocked"
      /\ g # Pool
      /\ Counter(g) = 0
      /\ stack' = [stack EXCEPT ![t] =
           IF rethrow /\ below # <<>>
           THEN [below EXCEPT ![Len(below)] = Unwind(@)]
           ELSE below]
      /\ wait' = Wake(t, {})
      /\ history' = [history EXCEPT ![g].open = FALSE, ![g].error = groups[g].eptr]
      /\ UNCHANGED <<tasks, groups, continueRunning>>

PieceEnd(f) == GetTaskEndIdx(f.at, Call(f.group).maxChunk, f.to)

\* A func that waits for its siblings can return only when none is queued.
SiblingsStarted(g) == \A i \in DOMAIN tasks : tasks[i].group # g

\* func(info) returns, and the closure's loop moves to the next piece.
FuncReturns(t) ==
  LET f == Top(t) IN
  /\ InTask(t) /\ f.at < f.to
  /\ Call(f.group).meets => SiblingsStarted(f.group)
  /\ stack' = [stack EXCEPT ![t][Depth(t)].at = PieceEnd(f)]
  /\ history' = [history EXCEPT ![f.group].invoked = @ \cup {<<f.at, PieceEnd(f)>>}]
  /\ UNCHANGED <<tasks, wait, groups, continueRunning>>

\* func(info) throws, and the closure's loop is left by `break`.
FuncThrows(t) ==
  LET f == Top(t) IN
  /\ InTask(t) /\ f.at < f.to
  /\ Call(f.group).throws
  /\ stack' = [stack EXCEPT ![t][Depth(t)] = Unwind(f)]
  /\ UNCHANGED <<tasks, wait, groups, continueRunning, history>>

\* Mutants: a failed task leaves the counter alone; its exception is dropped.
SiblingsUnlessFailed(f) ==
  LET n == groups[f.group].siblings IN IF f.role = "failed" THEN n ELSE n - 1
NoExceptionKept(f) == groups[f.group].eptr

SiblingsAfter(f) == groups[f.group].siblings - 1

\* `if (exception != nullptr && eptr == nullptr) eptr = exception;`
ExceptionAfter(f) ==
  LET eptr == groups[f.group].eptr
  IN  IF f.role = "failed" /\ eptr = NoException THEN f.at ELSE eptr

\* The end of the closure: the first exception is kept, the counter drops, and
\* the thread that takes it to zero wakes every ParallelFor caller.
FinishTask(t) ==
  LET f == Top(t)
      g == f.group
      failed == f.role = "failed"
  IN  /\ ~Idle(t)
      /\ failed \/ (f.role = "task" /\ f.at >= f.to)
      /\ stack' = [stack EXCEPT ![t] = Pop(@)]
      /\ groups' = [groups EXCEPT
           ![g].siblings = SiblingsAfter(f),
           ![g].eptr = ExceptionAfter(f)]
      /\ history' = IF failed
                    THEN [history EXCEPT
                           ![g].invoked = @ \cup {<<f.at, PieceEnd(f)>>},
                           ![g].thrown  = @ \cup {f.at}]
                    ELSE history
      /\ IF SiblingsAfter(f) = 0 THEN NotifyAllGroupFinished(t) ELSE UNCHANGED wait
      /\ UNCHANGED <<tasks, continueRunning>>

\* NotifyAll on both condition variables.
NotifyEveryone ==
  [u \in Threads |-> IF wait[u] = "blocked" THEN "notified" ELSE wait[u]]

\* ~TaskManager up to the joins.
Destroy ==
  /\ Idle(Main) /\ continueRunning = 1
  /\ continueRunning' = 0
  /\ wait' = NotifyEveryone
  /\ UNCHANGED <<tasks, stack, groups, history>>

\* Every join of ~TaskManager returned.
Destroyed == continueRunning = 0 /\ \A t \in Threads : Idle(t)

Terminated == Destroyed /\ UNCHANGED vars

\* The steps of TaskRunner, and of the code it runs on thread t.
RunnerStep(t) ==
  Sleep(t) \/ RunTask(t) \/ WorkerExit(t) \/ ReturnFromParallelFor(t)

TaskStep(t) ==
  \/ FuncReturns(t) \/ FuncThrows(t) \/ FinishTask(t)
  \/ \E c \in Calls : Submit(t, c)

Next ==
  \/ \E t \in Threads : RunnerStep(t) \/ TaskStep(t) \/ SpuriousWake(t)
  \/ Destroy
  \/ Terminated

Spec == Init /\ [][Next]_vars

(* Every thread keeps running: the operating system schedules it, a notified
   thread gets the mutex, and func does not run forever.  The main thread's
   program ends by destroying the pool. *)
FairSpec ==
  /\ Spec
  /\ \A t \in Threads : WF_vars(RunnerStep(t)) /\ WF_vars(TaskStep(t))
  /\ WF_vars(Destroy)
-----------------------------------------------------------------------------
Group == 1 .. MaxGroups

Task == [group : Group, from : U64, to : U64]

FrameType ==
  [role : {"runner", "task", "failed"}, group : Group \cup {Pool}, at : U64, to : U64]

GroupType == [call : Calls, siblings : Nat, eptr : U64 \cup {NoException}]

\* Every variable keeps its type; in particular no siblings_counter, a size_t,
\* is taken below zero, and no piece of a range leaves the word.
TypeOK ==
  /\ tasks \in Seq(Task)
  /\ stack \in [Threads -> Seq(FrameType)]
  /\ wait \in [Threads -> {"awake", "blocked", "notified"}]
  /\ groups \in Seq(GroupType)
  /\ Len(groups) <= MaxGroups
  /\ continueRunning \in {0, 1}

\* The siblings_counter of a ParallelFor is the number of its tasks that are in
\* tasks_ or on some thread's stack: the counter is captured by reference, and
\* every path through the closure, an exception included, must decrease it once.
SiblingsExact ==
  \A g \in DOMAIN groups :
    groups[g].siblings = Cardinality(Queued(g)) + Cardinality(Running(g))

\* t has a ParallelFor call in progress that waits for group g.
WaitsFor(t, g) ==
  \E i \in DOMAIN stack[t] : stack[t][i].role = "runner" /\ stack[t][i].group = g

\* A closure holds references to func, siblings_counter and eptr, locals of its
\* ParallelFor call: that call never returns while one of its tasks exists.
NoDanglingGroup ==
  \A g \in DOMAIN groups :
    Queued(g) # {} \/ Running(g) # {} => \E t \in Threads : WaitsFor(t, g)

\* A thread that nobody has notified still has something to wait for: finishing
\* the last sibling, or the destructor, cannot be missed between test and wait.
NoLostWakeup ==
  \A t \in Threads : wait[t] = "blocked" => Counter(Top(t).group) > 0

\* The thread is about to take the mutex and pop a task.
AboutToRun(t) ==
  InRunner(t) /\ wait[t] # "blocked" /\ Counter(Top(t).group) > 0

\* No core idles for want of a notification: whenever a task is queued and a
\* thread sleeps, some thread is on its way to pop.  It is what the workaround
\* with two condition variables (task_manager.cc:66-72) must achieve, and what
\* ThreadIds and WorkerId of task_manager_test.cc rely on.
WorkConserving ==
  (tasks # <<>> /\ \E t \in Threads : wait[t] = "blocked")
     => \E t \in Threads : AboutToRun(t)

\* The pool implements the interface: every index is served once, by a call
\* that is still open, and exceptions come back to the caller.
API == INSTANCE ParallelFor
ImplementsParallelFor == API!Spec

\* Every ParallelFor returns, nested or not, whatever its func throws, and so does the
\* destructor, which joins every worker.
EveryCallReturns ==
  /\ \A g \in Group : g \in DOMAIN history ~> g \in DOMAIN history /\ ~history[g].open
  /\ <>Destroyed
=============================================================================
