---------------------------- MODULE GraphCompute ----------------------------
(***************************************************************************)
(* The computation of a graph by a thread and its helpers (ggml.c as       *)
(* patched: ggml_barrier, ggml_graph_compute, ggml_compute_canceled).      *)
(*                                                                         *)
(* Main creates a task for every helper, and all compute their share of    *)
(* one node after the other, with a barrier after each.  Main may be       *)
(* cancelled or crash while it computes: it then cancels and joins its     *)
(* helpers, which work on memory in its stack frame.  A helper may crash   *)
(* as it computes, which ends its task.  The pool of tasks is in TaskPool; *)
(* LlamaCompute says where n_threads comes from and what happens next.     *)
(*                                                                         *)
(* The stores of the barrier become visible in program order, as they do   *)
(* on x86-64.  A node has one barrier here.  workers[j].thrd is set for    *)
(* every helper until main joins it, so it is not a variable.              *)
(***************************************************************************)
EXTENDS Integers

CONSTANTS
    MaxThreads, \* the most threads of a computation
    Nodes       \* number of nodes of the graph

Ith == 0 .. MaxThreads - 1
Main == 0

VARIABLES
    n_threads,  \* the threads of this computation
    pc,         \* where a thread is
    node_n,     \* the node that it is at
    old,        \* i, the phase that it read in ggml_barrier
    n_barrier,  \* the threads that have arrived
    phase,      \* n_barrier_passed[ith]
    passing,    \* j, the thread that the last one is to release next
    ec,         \* whether shared->ec is GGML_STATUS_ABORTED
    j,          \* the helper that main creates, cancels or joins next
    dying,      \* the helpers that were cancelled
    cancelled,  \* whether main was cancelled
    crashed     \* history: whether a thread has crashed

barrier == <<n_barrier, phase, old, passing>>
crew == <<n_threads, j, dying>>
ends == <<cancelled, crashed>>
vars == <<pc, node_n, barrier, ec, crew, ends>>

Worker == 0 .. n_threads - 1
Helper == Worker \ {Main}

Zero == [t \in Ith |-> 0]
Begun == [t \in Ith |-> IF t = Main THEN "begin" ELSE "off"]

\* No computation yet.
Init ==
    /\ n_threads = 1 /\ j = 1
    /\ pc = Begun
    /\ node_n = Zero /\ old = Zero /\ phase = Zero
    /\ n_barrier = 0 /\ passing = 0
    /\ dying = {}
    /\ ec = FALSE /\ crashed = FALSE

\* ggml_graph_compute is called.
Start(n) ==
    /\ n_threads' = n /\ j' = 1
    /\ pc' = Begun
    /\ node_n' = Zero /\ old' = Zero /\ phase' = Zero
    /\ n_barrier' = 0 /\ passing' = 0
    /\ dying' = {}
    /\ ec' = FALSE /\ crashed' = FALSE

\* Where a thread is in ggml_graph_compute_thread.
Computing == {"compute", "arrive", "reset", "release", "spin", "check"}

Goto(t, where) == pc' = [pc EXCEPT ![t] = where]

\* ggml_graph_compute_thread returns: main goes on to join, a task is over.
Leave(t) ==
    /\ Goto(t, IF t = Main THEN "join" ELSE "over")
    /\ j' = IF t = Main THEN 1 ELSE j
    /\ UNCHANGED <<n_threads, dying>>

-----------------------------------------------------------------------------
\* pthread_testcancel at the begin.
Begin ==
    /\ pc[Main] = "begin"
    /\ Goto(Main, IF cancelled THEN "exit" ELSE "create")
    /\ UNCHANGED <<node_n, barrier, ec, crew, ends>>

\* ggml_thread_create; the helper may begin at once.
Create ==
    /\ pc[Main] = "create" /\ j < n_threads
    /\ Goto(j, "compute")
    /\ j' = j + 1
    /\ UNCHANGED <<node_n, barrier, ec, n_threads, dying, ends>>

MainComputes ==
    /\ pc[Main] = "create" /\ j = n_threads
    /\ Goto(Main, "compute")
    /\ UNCHANGED <<node_n, barrier, ec, crew, ends>>

\* ggml_compute_forward, and the abort callback of main.  A thread alone has no
\* barrier to pass.
Compute(t) ==
    /\ pc[t] = "compute" /\ node_n[t] < Nodes
    /\ ec' \in {ec, t = Main \/ ec}
    /\ old' = [old EXCEPT ![t] = phase[t]]
    /\ Goto(t, IF n_threads = 1 THEN "check" ELSE "arrive")
    /\ UNCHANGED <<node_n, n_barrier, phase, passing, crew, ends>>

\* (faulty variant of Arrive) Main is not counted.
ArriveEarly(t) ==
    /\ pc[t] = "arrive"
    /\ n_barrier' = n_barrier + 1
    /\ Goto(t, IF n_barrier = n_threads - 2 THEN "reset" ELSE "spin")
    /\ UNCHANGED <<node_n, old, phase, passing, ec, crew, ends>>

\* atomic_fetch_add of n_barrier.
Arrive(t) ==
    /\ pc[t] = "arrive"
    /\ n_barrier' = n_barrier + 1
    /\ Goto(t, IF n_barrier = n_threads - 1 THEN "reset" ELSE "spin")
    /\ UNCHANGED <<node_n, old, phase, passing, ec, crew, ends>>

\* (faulty variant of Release) n_barrier is reset once the threads are released.
ReleaseFirst(t) ==
    /\ pc[t] = "release"
    /\ phase' = [phase EXCEPT ![passing] = old[t] + 1]
    /\ passing' = passing + 1
    /\ n_barrier' = IF passing' = n_threads THEN 0 ELSE n_barrier
    /\ Goto(t, IF passing' = n_threads THEN "check" ELSE "release")
    /\ UNCHANGED <<node_n, old, ec, crew, ends>>

\* The last thread resets n_barrier ...
Reset(t) ==
    /\ pc[t] = "reset"
    /\ n_barrier' = 0
    /\ passing' = 0
    /\ Goto(t, "release")
    /\ UNCHANGED <<node_n, old, phase, ec, crew, ends>>

\* ... and releases one thread after the other.
Release(t) ==
    /\ pc[t] = "release"
    /\ phase' = [phase EXCEPT ![passing] = old[t] + 1]
    /\ passing' = passing + 1
    /\ Goto(t, IF passing' = n_threads THEN "check" ELSE "release")
    /\ UNCHANGED <<node_n, old, n_barrier, ec, crew, ends>>

\* The others wait for their phase to change.
Spin(t) ==
    /\ pc[t] = "spin" /\ phase[t] # old[t]
    /\ Goto(t, "check")
    /\ UNCHANGED <<node_n, barrier, ec, crew, ends>>

SpinAgain(t) ==
    /\ pc[t] = "spin" /\ phase[t] = old[t]
    /\ UNCHANGED vars

\* Is the computation aborted?
GoOn(t) ==
    /\ pc[t] = "check" /\ ~ec
    /\ Goto(t, "compute")
    /\ node_n' = [node_n EXCEPT ![t] = @ + 1]
    /\ UNCHANGED <<barrier, ec, crew, ends>>

Stop(t) ==
    /\ \/ pc[t] = "check" /\ ec
       \/ pc[t] = "compute" /\ node_n[t] = Nodes
    /\ Leave(t)
    /\ UNCHANGED <<node_n, barrier, ec, ends>>

\* Main joins the helpers, masked against cancelation, one after the other.
Join ==
    /\ pc[Main] = "join" /\ j < n_threads /\ pc[j] = "over"
    /\ j' = j + 1
    /\ UNCHANGED <<pc, node_n, barrier, ec, n_threads, dying, ends>>

Return ==
    /\ pc[Main] = "join" /\ j = n_threads
    /\ Goto(Main, "return")
    /\ UNCHANGED <<node_n, barrier, ec, crew, ends>>

-----------------------------------------------------------------------------
Cleanup ==
    /\ Goto(Main, "cleanup")
    /\ j' = 1

\* PTHREAD_CANCEL_ASYNCHRONOUS: at any instruction.
CancelActs ==
    /\ cancelled /\ pc[Main] \in Computing
    /\ Cleanup
    /\ UNCHANGED <<node_n, barrier, ec, n_threads, dying, ends>>

\* on_crash_signal: the thread exits, which ends a task and cleans up in main.
Crash(t) ==
    /\ pc[t] = "compute"
    /\ crashed' = TRUE
    /\ IF t = Main THEN Cleanup ELSE Goto(t, "over") /\ UNCHANGED j
    /\ UNCHANGED <<node_n, barrier, ec, n_threads, dying, cancelled>>

\* (faulty variants of CleanupCancel) The helper is not joined, not cancelled.
CleanupDetach ==
    /\ pc[Main] = "cleanup" /\ j < n_threads
    /\ dying' = dying \cup {j}
    /\ j' = j + 1
    /\ UNCHANGED <<pc, node_n, barrier, ec, n_threads, ends>>

CleanupJoinOnly ==
    /\ pc[Main] = "cleanup" /\ j < n_threads
    /\ Goto(Main, "rejoin")
    /\ UNCHANGED <<node_n, barrier, ec, crew, ends>>

\* ggml_compute_canceled cancels a helper ...
CleanupCancel ==
    /\ pc[Main] = "cleanup" /\ j < n_threads
    /\ dying' = IF pc[j] = "over" THEN dying ELSE dying \cup {j}
    /\ Goto(Main, "rejoin")
    /\ UNCHANGED <<node_n, barrier, ec, n_threads, j, ends>>

\* ... and joins it before it goes on with the next one.
CleanupJoin ==
    /\ pc[Main] = "rejoin" /\ pc[j] = "over"
    /\ Goto(Main, "cleanup")
    /\ j' = j + 1
    /\ UNCHANGED <<node_n, barrier, ec, n_threads, dying, ends>>

\* The thread of main goes on to end.
Exit ==
    /\ pc[Main] = "cleanup" /\ j = n_threads
    /\ Goto(Main, "exit")
    /\ UNCHANGED <<node_n, barrier, ec, crew, ends>>

\* A helper that was cancelled ends its task.
Die(h) ==
    /\ h \in dying /\ pc[h] \in Computing
    /\ Goto(h, "over")
    /\ UNCHANGED <<node_n, barrier, ec, crew, ends>>

\* What the threads do by themselves.
Step(t) ==
    \/ Compute(t) \/ Arrive(t) \/ Reset(t) \/ Release(t)
    \/ Spin(t) \/ SpinAgain(t) \/ GoOn(t) \/ Stop(t)

MainStep ==
    \/ Begin \/ Create \/ MainComputes \/ Join \/ Return
    \/ CleanupCancel \/ CleanupJoin \/ Exit

Next ==
    \/ \E t \in Worker : Step(t) \/ Crash(t)
    \/ MainStep \/ CancelActs
    \/ \E h \in Helper : Die(h)

-----------------------------------------------------------------------------
TypeOK ==
    /\ n_threads \in 1..MaxThreads
    /\ pc \in [Ith -> Computing \cup {"begin", "create", "join", "return", "cleanup",
                                         "rejoin", "exit", "off", "over"}]
    /\ node_n \in [Ith -> 0..Nodes]
    /\ {old, phase} \subseteq [Ith -> 0..Nodes]
    /\ {n_barrier, passing} \subseteq 0..MaxThreads
    /\ j \in 1..MaxThreads
    /\ {ec, cancelled, crashed} \subseteq BOOLEAN
    /\ dying \subseteq Helper

\* A thread computes a node only after all have computed the node before it,
\* whose results it reads; and the barrier never counts more threads than there are.
NodesInOrder ==
    /\ n_barrier <= n_threads
    /\ \A t, u \in Worker :
           pc[t] = "compute" =>
               \/ node_n[u] >= node_n[t]
               \/ node_n[u] = node_n[t] - 1
                  /\ pc[u] \notin {"off", "create", "compute", "arrive"}

\* When ggml_graph_compute is left, whatever way, no helper runs that would use
\* the stack frame of main.
FrameOutlivesHelpers ==
    pc[Main] \in {"return", "exit"} => \A h \in Helper : pc[h] \in {"off", "over"}
=============================================================================
