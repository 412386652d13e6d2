------------------------------- MODULE TaskPool -------------------------------
(***************************************************************************)
(* The pool of threads that the matrix operations run on (pool.cpp).       *)
(* Idle threads are kept in a lock-free stack whose tip has a tag in the   *)
(* bits that addresses leave free; a task is handed to the thread that was *)
(* popped, or to a new one, and its caller may cancel and must join it.    *)
(*                                                                         *)
(* A caller has one task at a time, which goes by the name of the caller.  *)
(* An element of PoolThread is an address where an object may live: after  *)
(* a thread is deleted another one may be allocated there.                 *)
(***************************************************************************)
EXTENDS Integers, FiniteSets

CONSTANTS
    Caller, PoolThread, None,
    Endless,    \* the callers whose tasks run until they are cancelled
    Cancelers,  \* the callers that cancel their tasks
    Tags,       \* number of tags: 4096 in the code
    MaxTasks    \* bound: tasks

VARIABLES
    tip,        \* g_idle: [top, tag]
    next,       \* thread->next
    doing,      \* where a thread is; "none" is free memory
    started,    \* whether thread->th is not -1 any more
    task,       \* thread->task
    doomed,     \* whether pthread_cancel was called on the thread
    active,     \* g_active
    th,         \* task->th: "unset" (-1), "over" (0), or a thread
    res,        \* task->res
    stage,      \* where a caller is
    seen,       \* a caller's or thread's copy of g_idle
    after,      \* a caller's copy of thread->next
    mine,       \* the thread that a caller has popped, created or cancels
    tasks,      \* tasks created so far
    fault       \* whether an object was used that is not allocated

poolVars == <<tip, next, doing, started, task, doomed, active, th, res, stage, seen,
              after, mine, tasks, fault>>

Shutdown == "shutdown"          \* llamafile_task_shutdown, as one more caller
Poppers == Caller \cup {Shutdown}

ASSUME PoolAssumption ==
    /\ IsFiniteSet(PoolThread) /\ IsFiniteSet(Caller)
    /\ {None, Shutdown} \cap (PoolThread \cup Caller) = {}
    /\ PoolThread \cap (Caller \cup {"unset", "over", "none", "canceled"}) = {}
    /\ Endless \subseteq Cancelers /\ Cancelers \subseteq Caller
    /\ Tags \in Nat \ {0} /\ MaxTasks \in Nat

PoolInit ==
    /\ tip = [top |-> None, tag |-> 0]
    /\ next = [t \in PoolThread |-> None]
    /\ doing = [t \in PoolThread |-> "none"]
    /\ started = [t \in PoolThread |-> FALSE]
    /\ task = [t \in PoolThread |-> None]
    /\ doomed = [t \in PoolThread |-> FALSE]
    /\ active = 0
    /\ th = [c \in Caller |-> "unset"]
    /\ res = [c \in Caller |-> "none"]
    /\ stage = [c \in Poppers |-> "idle"]
    /\ seen = [x \in Poppers \cup PoolThread |-> tip]
    /\ after = [c \in Poppers |-> None]
    /\ mine = [c \in Poppers |-> None]
    /\ tasks = 0
    /\ fault = FALSE

Live(t) == doing[t] # "none"
Use(t) == fault' = (fault \/ ~Live(t))

-----------------------------------------------------------------------------
\* (faulty variant of Tagged) Without the tag.
Untagged(t, x) == [top |-> t, tag |-> 0]

\* The tip that replaces x when t is pushed or popped: ABA(t, TAG(tip) + 1).
Tagged(t, x) == [top |-> t, tag |-> (x.tag + 1) % Tags]

\* The values of copies that are not needed any more.
Forget(x) == [seen EXCEPT ![x] = [top |-> None, tag |-> 0]]

\* llamafile_task_create until the first load in idle_pop.
Create(c) ==
    /\ stage[c] = "idle" /\ tasks < MaxTasks
    /\ tasks' = tasks + 1
    /\ th' = [th EXCEPT ![c] = "unset"] /\ res' = [res EXCEPT ![c] = "none"]
    /\ seen' = [seen EXCEPT ![c] = tip]
    /\ stage' = [stage EXCEPT ![c] = "pop"]
    /\ UNCHANGED <<tip, next, doing, started, task, doomed, active, after, mine,
                   fault>>

\* llamafile_task_shutdown, when there is nothing else left to do.
ShutdownPops ==
    /\ stage[Shutdown] = "idle" /\ tasks = MaxTasks
    /\ \A c \in Caller : stage[c] = "idle"
    /\ seen' = [seen EXCEPT ![Shutdown] = tip]
    /\ stage' = [stage EXCEPT ![Shutdown] = "pop"]
    /\ UNCHANGED <<tip, next, doing, started, task, doomed, active, th, res, after,
                   mine, tasks, fault>>

\* What a read of t->next may give: anything once t is deleted.
NextOf(t) == IF Live(t) THEN {next[t]} ELSE PoolThread \cup {None}

\* idle_pop reads thread->next.
PopRead(c) ==
    /\ stage[c] = "pop" /\ seen[c].top # None
    /\ Use(seen[c].top)
    /\ \E n \in NextOf(seen[c].top) : after' = [after EXCEPT ![c] = n]
    /\ stage' = [stage EXCEPT ![c] = "exchange"]
    /\ UNCHANGED <<tip, next, doing, started, task, doomed, active, th, res, seen,
                   mine, tasks>>

PopExchange(c) ==
    /\ stage[c] = "exchange"
    /\ IF tip = seen[c]
       THEN /\ tip' = Tagged(after[c], seen[c])
            /\ mine' = [mine EXCEPT ![c] = seen[c].top]
            /\ seen' = Forget(c)
            /\ stage' = [stage EXCEPT ![c] = "popped"]
       ELSE /\ seen' = [seen EXCEPT ![c] = tip]
            /\ stage' = [stage EXCEPT ![c] = "pop"]
            /\ UNCHANGED <<tip, mine>>
    /\ after' = [after EXCEPT ![c] = None]
    /\ UNCHANGED <<next, doing, started, task, doomed, active, th, res, tasks, fault>>

\* The mutex of a thread is taken from its push to its wait.
MutexFree(t) == doing[t] \notin {"push", "pushing"}

\* llamafile_task_create hands the task to the thread.
Assign(c) ==
    /\ c \in Caller /\ stage[c] = "popped" /\ MutexFree(mine[c])
    /\ Use(mine[c])
    /\ th' = [th EXCEPT ![c] = mine[c]]
    /\ task' = [task EXCEPT ![mine[c]] = c]
    /\ mine' = [mine EXCEPT ![c] = None]
    /\ stage' = [stage EXCEPT ![c] = "created"]
    /\ UNCHANGED <<tip, next, doing, started, doomed, active, res, seen, after, tasks>>

-----------------------------------------------------------------------------
\* llamafile_thread_create: a new object, whose thread may begin at once.
Spawn(c, t) ==
    /\ c \in Caller /\ stage[c] = "pop" /\ seen[c].top = None
    /\ doing[t] = "none"
    /\ doing' = [doing EXCEPT ![t] = "new"]
    /\ started' = [started EXCEPT ![t] = FALSE]
    /\ task' = [task EXCEPT ![t] = c]
    /\ doomed' = [doomed EXCEPT ![t] = FALSE]
    /\ next' = [next EXCEPT ![t] = None]
    /\ mine' = [mine EXCEPT ![c] = t]
    /\ stage' = [stage EXCEPT ![c] = "spawning"]
    /\ UNCHANGED <<tip, active, th, res, seen, after, tasks, fault>>

SpawnFails(c) ==
    /\ c \in Caller /\ stage[c] = "pop" /\ seen[c].top = None
    /\ stage' = [stage EXCEPT ![c] = "idle"]
    /\ UNCHANGED <<tip, next, doing, started, task, doomed, active, th, res, seen,
                   after, mine, tasks, fault>>

\* pthread_create has stored thread->th.
Spawned(c) ==
    /\ stage[c] = "spawning"
    /\ started' = [started EXCEPT ![mine[c]] = TRUE]
    /\ stage' = [stage EXCEPT ![c] = "publish"]
    /\ UNCHANGED <<tip, next, doing, task, doomed, active, th, res, seen, after, mine,
                   tasks, fault>>

\* llamafile_thread_create copies thread->th to task->th.
Publish(c) ==
    /\ stage[c] = "publish"
    /\ Use(mine[c])
    /\ th' = [th EXCEPT ![c] = mine[c]]
    /\ mine' = [mine EXCEPT ![c] = None]
    /\ stage' = [stage EXCEPT ![c] = "created"]
    /\ UNCHANGED <<tip, next, doing, started, task, doomed, active, res, seen, after,
                   tasks>>

-----------------------------------------------------------------------------
\* llamafile_task_cancel loads task->th ...
CancelLoad(c) ==
    /\ c \in Cancelers /\ stage[c] = "created"
    /\ IF th[c] = "over" THEN mine' = mine /\ stage' = [stage EXCEPT ![c] = "join"]
       ELSE mine' = [mine EXCEPT ![c] = th[c]] /\ stage' = [stage EXCEPT ![c] = "cancel"]
    /\ UNCHANGED <<tip, next, doing, started, task, doomed, active, th, res, seen,
                   after, tasks, fault>>

\* ... and calls pthread_cancel.
CancelThread(c) ==
    /\ \/ c \in Caller /\ stage[c] = "cancel"
       \/ c = Shutdown /\ stage[c] = "popped"
    /\ Use(mine[c])
    /\ doomed' = [doomed EXCEPT ![mine[c]] = Live(mine[c])]
    /\ mine' = [mine EXCEPT ![c] = None]
    /\ IF c = Shutdown
       THEN seen' = [seen EXCEPT ![c] = tip] /\ stage' = [stage EXCEPT ![c] = "pop"]
       ELSE stage' = [stage EXCEPT ![c] = "join"] /\ UNCHANGED seen
    /\ UNCHANGED <<tip, next, doing, started, task, active, th, res, after, tasks>>

JoinBegins(c) ==
    /\ c \in Caller \ Endless /\ stage[c] = "created"
    /\ stage' = [stage EXCEPT ![c] = "join"]
    /\ UNCHANGED <<tip, next, doing, started, task, doomed, active, th, res, seen,
                   after, mine, tasks, fault>>

\* llamafile_task_join returns.
Join(c) ==
    /\ stage[c] = "join" /\ th[c] = "over"
    /\ stage' = [stage EXCEPT ![c] = "idle"]
    /\ UNCHANGED <<tip, next, doing, started, task, doomed, active, th, res, seen,
                   after, mine, tasks, fault>>

\* llamafile_task_shutdown finds the stack empty and tries again while a
\* thread is active.
ShutdownRetries ==
    /\ stage[Shutdown] = "pop" /\ seen[Shutdown].top = None
    /\ IF active = 0 THEN stage' = [stage EXCEPT ![Shutdown] = "done"] /\ UNCHANGED seen
       ELSE seen' = [seen EXCEPT ![Shutdown] = tip] /\ UNCHANGED stage
    /\ UNCHANGED <<tip, next, doing, started, task, doomed, active, th, res, after,
                   mine, tasks, fault>>

-----------------------------------------------------------------------------
\* (faulty variant of Begin) g_active is left to the creator of the thread.
BeginUncounted(t) ==
    /\ doing[t] = "new"
    /\ doing' = [doing EXCEPT ![t] = "run"]
    /\ UNCHANGED <<tip, next, started, task, doomed, active, th, res, stage, seen,
                   after, mine, tasks, fault>>

\* llamafile_thread_worker begins.
Begin(t) ==
    /\ doing[t] = "new"
    /\ active' = active + 1
    /\ doing' = [doing EXCEPT ![t] = "run"]
    /\ UNCHANGED <<tip, next, started, task, doomed, th, res, stage, seen, after, mine,
                   tasks, fault>>

\* The function returns.  From here on the thread is masked against cancelation.
Return(t) ==
    /\ doing[t] = "run" /\ task[t] \notin Endless
    /\ doing' = [doing EXCEPT ![t] = "returned"]
    /\ UNCHANGED <<tip, next, started, task, doomed, active, th, res, stage, seen,
                   after, mine, tasks, fault>>

\* (faulty variant of Report) The loop that waits for thread->th and task->th is
\* left out.
ReportAtOnce(t) ==
    /\ doing[t] = "returned"
    /\ res' = [res EXCEPT ![task[t]] = t]
    /\ th' = [th EXCEPT ![task[t]] = "over"]
    /\ doing' = [doing EXCEPT ![t] = "push"]
    /\ UNCHANGED <<tip, next, started, task, doomed, active, stage, seen, after, mine,
                   tasks, fault>>

\* It waits until thread->th and task->th are known, and ends the task.  The
\* result is named for the thread that it comes from.
Report(t) ==
    /\ doing[t] = "returned"
    /\ started[t] /\ th[task[t]] # "unset"
    /\ res' = [res EXCEPT ![task[t]] = t]
    /\ th' = [th EXCEPT ![task[t]] = "over"]
    /\ doing' = [doing EXCEPT ![t] = "push"]
    /\ UNCHANGED <<tip, next, started, task, doomed, active, stage, seen, after, mine,
                   tasks, fault>>

\* It locks its mutex and idle_push loads g_idle.
PushLoad(t) ==
    /\ doing[t] = "push"
    /\ task' = [task EXCEPT ![t] = None]
    /\ seen' = [seen EXCEPT ![t] = tip]
    /\ doing' = [doing EXCEPT ![t] = "pushing"]
    /\ UNCHANGED <<tip, next, started, doomed, active, th, res, stage, after, mine,
                   tasks, fault>>

PushExchange(t) ==
    /\ doing[t] = "pushing"
    /\ next' = [next EXCEPT ![t] = seen[t].top]
    /\ IF tip = seen[t]
       THEN /\ tip' = Tagged(t, seen[t])
            /\ seen' = Forget(t)
            /\ doing' = [doing EXCEPT ![t] = "wait"]
       ELSE seen' = [seen EXCEPT ![t] = tip] /\ UNCHANGED <<tip, doing>>
    /\ UNCHANGED <<started, task, doomed, active, th, res, stage, after, mine, tasks,
                   fault>>

\* pthread_cond_wait returns with a task.
Wake(t) ==
    /\ doing[t] = "wait" /\ task[t] # None
    /\ doing' = [doing EXCEPT ![t] = "run"]
    /\ UNCHANGED <<tip, next, started, task, doomed, active, th, res, stage, seen,
                   after, mine, tasks, fault>>

\* pthread_cond_wait returns without a reason, and the thread waits again.
WaitAgain(t) ==
    /\ doing[t] = "wait" /\ task[t] = None
    /\ UNCHANGED poolVars

\* The thread is cancelled as it runs the function, or pthread_cond_wait returns
\* ECANCELED.  The task that it has is cancelled and its object is deleted.
Die(t) ==
    /\ doomed[t] /\ doing[t] \in {"run", "wait"}
    /\ IF task[t] # None
       THEN /\ res' = [res EXCEPT ![task[t]] = "canceled"]
            /\ th' = [th EXCEPT ![task[t]] = "over"]
       ELSE UNCHANGED <<res, th>>
    /\ doing' = [doing EXCEPT ![t] = "none"]
    /\ task' = [task EXCEPT ![t] = None]
    /\ doomed' = [doomed EXCEPT ![t] = FALSE]
    /\ active' = active - 1
    /\ UNCHANGED <<tip, next, started, stage, seen, after, mine, tasks, fault>>

CallerStep(c) ==
    \/ PopRead(c) \/ PopExchange(c) \/ Assign(c)
    \/ \E t \in PoolThread : Spawn(c, t)
    \/ Spawned(c) \/ Publish(c) \/ CancelLoad(c) \/ CancelThread(c)
    \/ JoinBegins(c) \/ Join(c)

ThreadStep(t) ==
    \/ Begin(t) \/ Return(t) \/ Report(t)
    \/ PushLoad(t) \/ PushExchange(t) \/ Wake(t) \/ Die(t)

Done == stage[Shutdown] = "done" /\ UNCHANGED poolVars

PoolNext ==
    \/ \E c \in Caller : Create(c) \/ SpawnFails(c)
    \/ \E c \in Poppers : CallerStep(c)
    \/ ShutdownPops \/ ShutdownRetries \/ Done
    \/ \E t \in PoolThread : ThreadStep(t) \/ WaitAgain(t)

PoolSpec == PoolInit /\ [][PoolNext]_poolVars

\* Every thread runs.
FairPoolSpec ==
    /\ PoolSpec
    /\ \A c \in Poppers : WF_poolVars(CallerStep(c))
    /\ \A t \in PoolThread : WF_poolVars(ThreadStep(t))
    /\ WF_poolVars(ShutdownPops) /\ WF_poolVars(ShutdownRetries)

-----------------------------------------------------------------------------
PoolTypeOK ==
    /\ tip \in [top : PoolThread \cup {None}, tag : 0..(Tags - 1)]
    /\ next \in [PoolThread -> PoolThread \cup {None}]
    /\ doing \in [PoolThread -> {"none", "new", "run", "returned", "push", "pushing",
                                 "wait"}]
    /\ started \in [PoolThread -> BOOLEAN]
    /\ task \in [PoolThread -> Caller \cup {None}]
    /\ doomed \in [PoolThread -> BOOLEAN]
    /\ active \in 0..Cardinality(PoolThread)
    /\ th \in [Caller -> PoolThread \cup {"unset", "over"}]
    /\ res \in [Caller -> PoolThread \cup {"none", "canceled"}]
    /\ stage \in [Poppers -> {"idle", "pop", "exchange", "popped", "spawning", "publish",
                              "created", "cancel", "join", "done"}]
    /\ seen \in [Poppers \cup PoolThread
                      -> [top : PoolThread \cup {None}, tag : 0..(Tags - 1)]]
    /\ after \in [Poppers -> PoolThread \cup {None}]
    /\ mine \in [Poppers -> PoolThread \cup {None}]
    /\ tasks \in 0..MaxTasks
    /\ fault \in BOOLEAN

\* first and all that come after it, along link.
From(first, link) ==
    {t \in PoolThread :
        \A S \in SUBSET PoolThread :
            /\ first \in S \cup {None}
            /\ \A u \in S : link[u] \in S \cup {None}
            => t \in S}

\* The threads of the stack.
Idle == From(tip.top, next)

Waits(t) == doing[t] = "wait" /\ task[t] = None /\ ~doomed[t]
PoppedBy(t) == {c \in Poppers : stage[c] = "popped" /\ mine[c] = t}

\* A thread that waits for a task is in the stack or was popped by exactly one
\* caller: the stack neither loses a thread nor gives it to two callers, whatever
\* the order of the steps of idle_push and idle_pop.
StackExact ==
    /\ PoolTypeOK
    /\ \A t \in PoolThread :
           /\ t \in Idle => Waits(t) /\ PoppedBy(t) = {}
           /\ Waits(t) /\ t \notin Idle => Cardinality(PoppedBy(t)) = 1

\* No thread object is used after it was deleted.
NoUseAfterFree == ~fault

\* llamafile_task_join returns, of a task that ends or was cancelled.
JoinReturns ==
    \A c \in Caller : stage[c] \in {"created", "cancel", "join"} ~> stage[c] = "idle"

\* llamafile_task_shutdown returns, and no thread is left then.
ShutdownEnds ==
    stage[Shutdown] = "pop" ~>
        /\ stage[Shutdown] = "done"
        /\ \A t \in PoolThread : doing[t] = "none"
=============================================================================
