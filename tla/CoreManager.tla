---------------------------- MODULE CoreManager -----------------------------
(***************************************************************************)
(* The processor cores that graph computations share (core_manager.cpp),   *)
(* and its one user, llama_graph_compute of the patched llama.cpp: it      *)
(* acquires one core at least and as many as it has threads at most,       *)
(* computes, and releases them, or leaves that to the destructor of a      *)
(* thread key if the thread is cancelled or crashes while it computes.     *)
(*                                                                         *)
(* The critical sections of mu_ are single actions.                        *)
(***************************************************************************)
EXTENDS Integers, FiniteSets

CONSTANTS
    Thread,
    Total,      \* CoreManager::total_
    Greed,      \* greed[t]: the n_threads that thread t asks for
    Spurious    \* whether a condition variable may wake for no reason

ASSUME CoreAssumption ==
    /\ IsFiniteSet(Thread)
    /\ Total \in Nat \ {0}
    /\ Greed \in [Thread -> Nat \ {0}]
    /\ Spurious \in BOOLEAN

VARIABLES
    pc,        \* pc[t]: where the thread is in llama_graph_compute
    got,       \* got[t]: the cores it has, in acquire() or afterwards
    used,      \* CoreManager::used_
    pending    \* threads with a cancellation they have not acted upon

vars == <<pc, got, used, pending>>

Init ==
    /\ pc = [t \in Thread |-> "out"]
    /\ got = [t \in Thread |-> 0]
    /\ used = 0
    /\ pending = {}

Waiters == {t \in Thread : pc[t] = "wait"}

Goto(t, from, to) ==
    /\ pc[t] = from
    /\ pc' = [pc EXCEPT ![t] = to]

-----------------------------------------------------------------------------
\* Faulty variants of actions below, which show what each property catches.

\* release() that signals only if no core was free.
ReleaseSignalsIfFull(t) ==
    /\ pc[t] \in {"compute", "dtor"}
    /\ used' = used - got[t]
    /\ got' = [got EXCEPT ![t] = 0]
    /\ LET left == IF pc[t] = "compute" THEN "out" ELSE "dead"
       IN  IF Waiters = {} \/ used < Total
           THEN pc' = [pc EXCEPT ![t] = left]
           ELSE \E u \in Waiters : pc' = [pc EXCEPT ![t] = left, ![u] = "woken"]
    /\ UNCHANGED pending

\* llama_graph_compute without the destructor.
CancelComputeForgets(t) ==
    /\ t \in pending
    /\ Goto(t, "compute", "dead")
    /\ UNCHANGED <<got, used, pending>>

-----------------------------------------------------------------------------
Enter(t) ==
    /\ Goto(t, "out", "need")
    /\ UNCHANGED <<got, used, pending>>

\* The locked section of the first loop of acquire(), which needs one core ...
NeedTake(t) ==
    /\ used < Total
    /\ Goto(t, "need", "greedy")
    /\ got' = [got EXCEPT ![t] = 1]
    /\ used' = used + 1
    /\ UNCHANGED pending

\* ... or waits for it.
NeedWait(t) ==
    /\ used >= Total
    /\ Goto(t, "need", "wait")
    /\ UNCHANGED <<got, used, pending>>

\* The wait is over; the cleanup handler unlocks, and the loop locks again.
Woken(t) ==
    /\ Goto(t, "woken", "need")
    /\ UNCHANGED <<got, used, pending>>

\* A round of the greedy loop that gets the mutex and finds a core ...
GreedyTake(t) ==
    /\ pc[t] = "greedy"
    /\ got[t] < Greed[t]
    /\ used < Total
    /\ got' = [got EXCEPT ![t] = @ + 1]
    /\ used' = used + 1
    /\ UNCHANGED <<pc, pending>>

\* ... and its end: enough cores, none left, or another thread has the mutex.
GreedyStop(t) ==
    /\ \/ got[t] >= Greed[t]
       \/ used >= Total
       \/ \E u \in Thread \ {t} : pc[u] \notin {"out", "dead"}
    /\ Goto(t, "greedy", "compute")
    /\ UNCHANGED <<got, used, pending>>

\* release(), after the computation or in the destructor of the thread key.
\* used_ is clamped to zero, and one waiter is signalled.
Release(t) ==
    /\ pc[t] \in {"compute", "dtor"}
    /\ used' = IF used >= got[t] THEN used - got[t] ELSE 0
    /\ got' = [got EXCEPT ![t] = 0]
    /\ LET left == IF pc[t] = "compute" THEN "out" ELSE "dead"
       IN  IF Waiters = {}
           THEN pc' = [pc EXCEPT ![t] = left]
           ELSE \E u \in Waiters : pc' = [pc EXCEPT ![t] = left, ![u] = "woken"]
    /\ UNCHANGED pending

\* Worker::kill.
Kill(t) ==
    /\ t \notin pending
    /\ pending' = pending \cup {t}
    /\ UNCHANGED <<pc, got, used>>

\* The computation is a cancellation point, and it may crash.
CancelCompute(t) ==
    /\ t \in pending
    /\ Goto(t, "compute", "dtor")
    /\ UNCHANGED <<got, used, pending>>

Crash(t) ==
    /\ Goto(t, "compute", "dtor")
    /\ UNCHANGED <<got, used, pending>>

\* A cancelled wait runs unlock_mutex, and has no core to lose yet.
CancelWait(t) ==
    /\ t \in pending
    /\ Goto(t, "wait", "dead")
    /\ UNCHANGED <<got, used, pending>>

\* A new thread takes the place of a dead one.
Replace(t) ==
    /\ Goto(t, "dead", "out")
    /\ pending' = pending \ {t}
    /\ UNCHANGED <<got, used>>

SpuriousWakeup(t) ==
    /\ Spurious
    /\ Goto(t, "wait", "woken")
    /\ UNCHANGED <<got, used, pending>>

AcquireStep(t) ==
    NeedTake(t) \/ NeedWait(t) \/ Woken(t) \/ GreedyTake(t) \/ GreedyStop(t)

CancelStep(t) == CancelCompute(t) \/ Crash(t) \/ CancelWait(t)

Next ==
    \E t \in Thread :
        \/ Enter(t) \/ AcquireStep(t) \/ Release(t)
        \/ Kill(t) \/ CancelStep(t) \/ Replace(t) \/ SpuriousWakeup(t)

Spec == Init /\ [][Next]_vars

-----------------------------------------------------------------------------
TypeOK ==
    /\ pc \in [Thread -> {"out", "need", "wait", "woken", "greedy", "compute",
                          "dtor", "dead"}]
    /\ got \in [Thread -> Nat]
    /\ used \in Nat
    /\ pending \in SUBSET Thread

\* The cores that threads have, each counted once.
Held == {core \in Thread \X (1..Total) : core[2] <= got[core[1]]}

\* used_ counts exactly the cores that living threads have, and never more than
\* there are: a thread that is cancelled or crashes in the middle of a
\* computation, or is cancelled while it waits, neither keeps a core nor
\* releases one twice.  release() never has to clamp.
CoresAccounted ==
    /\ used <= Total
    /\ used = Cardinality(Held)

\* Whoever waits is not forgotten: somebody is on the way to a free core, or
\* has cores and will signal when it releases them, although release() signals
\* once for many cores and a thread that never waited may take them first.
WaitersHaveHope ==
    Waiters # {} => \E t \in Thread : pc[t] \in {"woken", "need"} \/ got[t] > 0
=============================================================================
