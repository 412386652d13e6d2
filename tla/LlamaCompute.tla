---------------------------- MODULE LlamaCompute ----------------------------
(***************************************************************************)
(* llama_graph_compute from end to end: threads that compete for the cores *)
(* of CoreManager, and, for one of them, Subject, the computation that it  *)
(* runs on the cores it got, which GraphCompute models step by step.       *)
(*                                                                         *)
(* acquire() says how many threads compute the graph.  The cores go back   *)
(* in the normal way, or in the destructor of the thread key, which runs   *)
(* when Subject, cancelled or crashed, has come out of                     *)
(* ggml_compute_canceled.  A cancelation of Subject may find it in the     *)
(* wait for a core or at any instruction of the computation.               *)
(***************************************************************************)
EXTENDS CoreManager

CONSTANTS
    Subject,
    Nodes,      \* number of nodes of the graph
    Mortal      \* the threads that may be cancelled (a bound)

ASSUME SubjectAssumption == Subject \in Thread /\ Nodes \in Nat /\ Mortal \subseteq Thread

VARIABLES
    n_threads, at, node_n, old, n_barrier, phase, passing, ec, j, dying, crashed

G == INSTANCE GraphCompute
     WITH MaxThreads <- Total, pc <- at, cancelled <- Subject \in pending

graph == <<n_threads, at, node_n, old, n_barrier, phase, passing, ec, j, dying,
           crashed>>
all == <<vars, graph>>

ComputeInit == Init /\ G!Init

-----------------------------------------------------------------------------
\* What happens outside of the computation of Subject.
Elsewhere(t) ==
    /\ \/ Enter(t) \/ NeedTake(t) \/ NeedWait(t) \/ Woken(t) \/ GreedyTake(t)
       \/ (t \in Mortal /\ Kill(t)) \/ CancelWait(t) \/ Replace(t) \/ SpuriousWakeup(t)
    /\ UNCHANGED graph

\* The other threads compute in one step.
OtherComputes(t) ==
    /\ t # Subject
    /\ GreedyStop(t) \/ Release(t) \/ CancelCompute(t) \/ Crash(t)
    /\ UNCHANGED graph

\* (faulty variant of SubjectComputes) As many threads as were asked for.
SubjectOvercommits ==
    /\ GreedyStop(Subject)
    /\ G!Start(Total)

\* ggml_backend_cpu_set_n_threads: as many threads as there are cores acquired.
SubjectComputes ==
    /\ GreedyStop(Subject)
    /\ G!Start(got[Subject])

GraphStep ==
    /\ pc[Subject] = "compute"
    /\ UNCHANGED vars
    /\ G!Next

\* The computation is over: the key is cleared, and the cores are released (the
\* variables of the graph, which are locals, are gone) ...
SubjectReturns ==
    /\ pc[Subject] = "compute" /\ at[G!Main] = "return"
    /\ Release(Subject)
    /\ G!Start(1)

\* ... or Subject ends, and the destructor of the key is on its way.
SubjectEnds ==
    /\ at[G!Main] = "exit"
    /\ CancelCompute(Subject) \/ Crash(Subject)
    /\ G!Start(1)

SubjectDestructs ==
    /\ pc[Subject] = "dtor"
    /\ Release(Subject)
    /\ UNCHANGED graph

ComputeNext ==
    \/ \E t \in Thread : Elsewhere(t) \/ OtherComputes(t)
    \/ SubjectComputes \/ GraphStep
    \/ SubjectReturns \/ SubjectEnds \/ SubjectDestructs

-----------------------------------------------------------------------------
InGraph(A) == pc[Subject] = "compute" /\ UNCHANGED vars /\ A

\* The threads of the computation run, and one that was cancelled ends.
ComputeSpec ==
    /\ ComputeInit /\ [][ComputeNext]_all
    /\ \A t \in 0 .. Total - 1 :
           /\ WF_all(InGraph(t < n_threads /\ G!Step(t)))
           /\ WF_all(InGraph(G!Die(t)))
    /\ WF_all(InGraph(G!MainStep))
    /\ WF_all(InGraph(G!CancelActs))
    /\ WF_all(SubjectReturns \/ SubjectEnds \/ SubjectDestructs)

-----------------------------------------------------------------------------
\* A thread computes a node only after all have computed the node before it,
\* whose results it reads; and the barrier counts no thread twice.
NodesInOrder == G!TypeOK /\ G!NodesInOrder

\* When ggml_graph_compute is left, whatever way, no helper runs that would use
\* the stack frame of main.
FrameOutlivesHelpers == G!FrameOutlivesHelpers

\* Never do more threads compute than there are cores, those of Subject counted
\* as they run, helpers that were cancelled among them: the cores of a thread
\* that is cancelled or crashes are given to others only when its helpers stopped.
CoresNotOversubscribed ==
    LET running == {t \in 0 .. Total - 1 : at[t] \in G!Computing}
        others == {core \in Held : core[1] # Subject}
    IN  Cardinality(running) + Cardinality(others) <= Total

\* The computation ends, and its cores are released, unless a thread crashes or
\* asks to abort: the barrier is ready for the next node when it lets the first
\* thread through.  An abort may come when a helper has yet to test ec at the node
\* before: it leaves, and the others wait for it.
GraphEnds ==
    pc[Subject] = "compute" ~> got[Subject] = 0 \/ crashed \/ ec

\* A thread that is cancelled leaves the computation, and releases its cores,
\* though others wait for it in the barrier, though a helper has crashed and will
\* not arrive.  Only when it has returned from an abort, and joins, does it wait
\* for the helpers.
CancelEnds ==
    pc[Subject] = "compute" /\ Subject \in pending
        ~> got[Subject] = 0 \/ (ec /\ at[G!Main] = "join")
=============================================================================
