------------------------- MODULE LlamaComputeProofs --------------------------
(***************************************************************************)
(* The safety properties of what computes: of CoreManager and of the       *)
(* computations of graphs that use it, for any number of threads, of cores *)
(* and of nodes; and of the pool of threads.                               *)
(*                                                                         *)
(* First the core manager.  The cores of a thread are counted as the pairs *)
(* {t} \X (1..got[t]), so that used_ is the size of a set and the facts    *)
(* about cardinalities of finite sets replace a sum.  GotFollowsPc says    *)
(* which threads have any.                                                 *)
(*                                                                         *)
(* Then llama_graph_compute.  LlamaCompute takes the steps of CoreManager, *)
(* so all that is proved of CoreManager is true of it; and helpers run     *)
(* only as long as their computation does, on the cores that were acquired *)
(* for it.  HelpersJoined is why: the helpers that main has joined, on its *)
(* normal way or in ggml_compute_canceled, are the ones below j, and j     *)
(* passes all of them before main goes on.                                 *)
(*                                                                         *)
(* The next part is about ggml_barrier: BarrierInv says where each thread  *)
(* may be in the round the barrier is in.                                  *)
(*                                                                         *)
(* The second half is about TaskPool, which shares nothing with the first. *)
(* Its inductive invariant is PoolInv.  A step keeps it if no exchange of  *)
(* g_idle brings back a value that someone in idle_pop is about to compare *)
(* it with (TipIsNew); and that is what the tag in g_idle is there for.    *)
(* How good it is the last part shows: with the history variable age, that *)
(* counts the exchanges that a caller in idle_pop has missed, and by       *)
(* counting the exchanges there can be at all.                             *)
(***************************************************************************)
EXTENDS LlamaCompute, TaskPool, FiniteSetTheorems, TLAPS

\* A thread has cores from the first loop of acquire() to the release.
GotFollowsPc ==
    \A t \in Thread :
        /\ pc[t] \in {"greedy", "compute", "dtor"} <=> got[t] > 0
        /\ got[t] <= Total

IInv == TypeOK /\ GotFollowsPc /\ CoresAccounted /\ WaitersHaveHope

Own(t) == {t} \X (1..got[t])

-----------------------------------------------------------------------------
LEMMA UpTo ==
    ASSUME NEW n \in Nat
    PROVE  IsFiniteSet(1..n) /\ Cardinality(1..n) = n
<1>1. 1 \in Int /\ n \in Int
  OBVIOUS
<1>2. IsFiniteSet(1..n) /\ Cardinality(1..n) = IF 1 > n THEN 0 ELSE n - 1 + 1
  BY <1>1, FS_Interval
<1> QED
  BY <1>2

LEMMA HeldFinite == IsFiniteSet(Held) /\ IsFiniteSet(Held')
<1>1. IsFiniteSet(Thread \X (1..Total))
  <2>1. Total \in Nat /\ IsFiniteSet(Thread)
    BY CoreAssumption
  <2>2. IsFiniteSet(1..Total)
    BY <2>1, UpTo
  <2> QED
    BY <2>1, <2>2, FS_Product
<1>2. Held \subseteq Thread \X (1..Total) /\ Held' \subseteq Thread \X (1..Total)
  BY DEF Held
<1> QED
  BY <1>1, <1>2, FS_Subset

LEMMA OwnCardinality ==
    ASSUME TypeOK, GotFollowsPc, NEW t \in Thread
    PROVE  /\ Own(t) \subseteq Held
           /\ Cardinality(Own(t)) = got[t]
<1>1. got[t] \in Nat /\ got[t] <= Total /\ Total \in Nat
  BY CoreAssumption DEF TypeOK, GotFollowsPc
<1>2. Own(t) \subseteq Held
  BY <1>1 DEF Own, Held
<1>3. IsFiniteSet({t}) /\ Cardinality({t}) = 1
  BY FS_Singleton
<1>4. IsFiniteSet(1..got[t]) /\ Cardinality(1..got[t]) = got[t]
  BY <1>1, UpTo
<1>5. Cardinality({t} \X (1..got[t])) = Cardinality({t}) * Cardinality(1..got[t])
  BY <1>3, <1>4, FS_Product
<1>6. Cardinality(Own(t)) = got[t]
  BY <1>1, <1>3, <1>4, <1>5 DEF Own
<1> QED
  BY <1>2, <1>6

\* No thread has more than all of the cores in use.
LEMMA OwnBounded ==
    ASSUME IInv, NEW t \in Thread
    PROVE  got[t] <= used
<1>1. Own(t) \subseteq Held /\ Cardinality(Own(t)) = got[t]
  BY OwnCardinality DEF IInv
<1>2. Cardinality(Own(t)) <= Cardinality(Held)
  BY <1>1, HeldFinite, FS_Subset
<1> QED
  BY <1>1, <1>2 DEF IInv, CoresAccounted

\* One core more for a thread is one core more held.
LEMMA TakeCounts ==
    ASSUME IInv, NEW t \in Thread, used < Total,
           got' = [got EXCEPT ![t] = @ + 1], used' = used + 1
    PROVE  CoresAccounted'
<1>1. got[t] \in Nat /\ used \in Nat /\ got[t] <= used /\ Total \in Nat
  BY OwnBounded, CoreAssumption DEF IInv, TypeOK
<1>2. got \in [Thread -> Nat]
  BY DEF IInv, TypeOK
<1>3. Held' = Held \cup {<<t, got[t] + 1>>}
  BY <1>1, <1>2 DEF Held
<1>4. <<t, got[t] + 1>> \notin Held
  BY <1>1 DEF Held
<1>5. Cardinality(Held') = Cardinality(Held) + 1
  BY <1>3, <1>4, HeldFinite, FS_AddElement
<1> QED
  BY <1>1, <1>5 DEF IInv, CoresAccounted

\* A release subtracts what the thread has.
LEMMA ReleaseCounts ==
    ASSUME IInv, NEW t \in Thread, Release(t)
    PROVE  /\ used' = used - got[t]
           /\ used' \in Nat
           /\ CoresAccounted'
<1>1. got[t] \in Nat /\ used \in Nat /\ got[t] <= used /\ Total \in Nat
  BY OwnBounded, CoreAssumption DEF IInv, TypeOK
<1>2. used' = used - got[t] /\ got' = [got EXCEPT ![t] = 0]
  BY <1>1 DEF Release
<1>3. got \in [Thread -> Nat]
  BY DEF IInv, TypeOK
<1>4. Own(t) \subseteq Held /\ Cardinality(Own(t)) = got[t]
  BY OwnCardinality DEF IInv
<1>5. Held' = Held \ Own(t)
  BY <1>1, <1>2, <1>3 DEF Held, Own
<1>6. Held \cap Own(t) = Own(t)
  BY <1>4
<1>7. Cardinality(Held \ Own(t)) = Cardinality(Held) - Cardinality(Held \cap Own(t))
  BY HeldFinite, FS_Difference
<1> QED
  BY <1>1, <1>2, <1>4, <1>5, <1>6, <1>7 DEF IInv, CoresAccounted

\* A core in use is somebody's.
LEMMA UsedByThread ==
    ASSUME IInv, used > 0
    PROVE  \E t \in Thread : got[t] > 0
<1>1. Held # {}
  BY FS_EmptySet DEF IInv, CoresAccounted
<1> QED
  BY <1>1 DEF Held, IInv, TypeOK

-----------------------------------------------------------------------------
LEMMA InitIInv == Init => IInv
<1> SUFFICES ASSUME Init PROVE IInv
  OBVIOUS
<1>1. Held = {}
  BY DEF Init, Held
<1> QED
  BY <1>1, CoreAssumption, FS_EmptySet
  DEF Init, IInv, TypeOK, GotFollowsPc, CoresAccounted, WaitersHaveHope, Waiters

LEMMA NextIInv == IInv /\ [Next]_vars => IInv'
<1> SUFFICES ASSUME IInv, [Next]_vars PROVE IInv'
  OBVIOUS
<1>1. ASSUME UNCHANGED <<got, used>> PROVE CoresAccounted'
  BY <1>1 DEF IInv, CoresAccounted, Held
<1>2. ASSUME NEW t \in Thread, NEW from, NEW to, Goto(t, from, to),
             UNCHANGED <<got, used>>, pending' \in SUBSET Thread,
             \/ from = "out" /\ to = "need"
             \/ from = "woken" /\ to = "need"
             \/ from = "wait" /\ to = "woken"
             \/ from = "greedy" /\ to = "compute"
             \/ from = "compute" /\ to = "dtor"
             \/ from = "wait" /\ to = "dead"
             \/ from = "dead" /\ to = "out"
      PROVE  IInv'
  <2>1. TypeOK'
    BY <1>2 DEF IInv, TypeOK, Goto
  <2>2. GotFollowsPc'
    BY <1>2 DEF IInv, TypeOK, GotFollowsPc, Goto
  <2>3. WaitersHaveHope'
    BY <1>2 DEF IInv, TypeOK, WaitersHaveHope, Waiters, Goto
  <2> QED
    BY <1>1, <1>2, <2>1, <2>2, <2>3 DEF IInv
<1>3. ASSUME NEW t \in Thread, NeedTake(t) PROVE IInv'
  <2>1. got[t] = 0 /\ got' = [got EXCEPT ![t] = @ + 1]
    <3>1. got[t] \in Nat /\ pc[t] = "need"
      BY <1>3 DEF NeedTake, Goto, IInv, TypeOK
    <3>2. got[t] = 0
      BY <3>1 DEF IInv, GotFollowsPc
    <3> QED
      BY <1>3, <3>2 DEF NeedTake
  <2>2. CoresAccounted'
    BY <1>3, <2>1, TakeCounts DEF NeedTake
  <2>3. TypeOK'
    BY <1>3 DEF NeedTake, Goto, IInv, TypeOK
  <2>4. GotFollowsPc'
    BY <1>3, CoreAssumption DEF NeedTake, Goto, IInv, TypeOK, GotFollowsPc
  <2>5. WaitersHaveHope'
    BY <1>3 DEF NeedTake, Goto, IInv, TypeOK, WaitersHaveHope
  <2> QED
    BY <2>2, <2>3, <2>4, <2>5 DEF IInv
<1>4. ASSUME NEW t \in Thread, NeedWait(t) PROVE IInv'
  <2>1. \E u \in Thread : got[u] > 0
    BY <1>4, UsedByThread, CoreAssumption DEF NeedWait, IInv, TypeOK
  <2>2. WaitersHaveHope'
    BY <1>4, <2>1 DEF NeedWait, WaitersHaveHope
  <2>3. TypeOK' /\ GotFollowsPc'
    BY <1>4 DEF NeedWait, Goto, IInv, TypeOK, GotFollowsPc
  <2>4. CoresAccounted'
    BY <1>1, <1>4 DEF NeedWait
  <2> QED
    BY <2>2, <2>3, <2>4 DEF IInv
<1>5. ASSUME NEW t \in Thread, GreedyTake(t) PROVE IInv'
  <2>1. CoresAccounted'
    BY <1>5, TakeCounts DEF GreedyTake
  <2>2. TypeOK'
    BY <1>5 DEF GreedyTake, IInv, TypeOK
  <2>3. got[t] + 1 <= Total
    BY <1>5, OwnBounded, CoreAssumption DEF GreedyTake, IInv, TypeOK
  <2>4. GotFollowsPc'
    BY <1>5, <2>3 DEF GreedyTake, IInv, TypeOK, GotFollowsPc
  <2>5. WaitersHaveHope'
    BY <1>5 DEF GreedyTake, IInv, TypeOK, WaitersHaveHope, Waiters
  <2> QED
    BY <2>1, <2>2, <2>4, <2>5 DEF IInv
<1>6. ASSUME NEW t \in Thread, Release(t) PROVE IInv'
  <2>1. used' \in Nat /\ CoresAccounted'
    BY <1>6, ReleaseCounts
  <2>2. PICK left \in {"out", "dead"} :
          IF Waiters = {}
          THEN pc' = [pc EXCEPT ![t] = left]
          ELSE \E u \in Waiters : pc' = [pc EXCEPT ![t] = left, ![u] = "woken"]
    BY <1>6 DEF Release
  <2>3. /\ got' = [got EXCEPT ![t] = 0]
        /\ pending' = pending
        /\ pc[t] \in {"compute", "dtor"}
    BY <1>6 DEF Release
  <2>4. TypeOK'
    BY <2>1, <2>2, <2>3 DEF IInv, TypeOK, Waiters
  <2>5. GotFollowsPc'
    BY <2>2, <2>3, CoreAssumption DEF IInv, TypeOK, GotFollowsPc, Waiters
  <2>6. WaitersHaveHope'
    BY <2>2, <2>3 DEF IInv, TypeOK, WaitersHaveHope, Waiters
  <2> QED
    BY <2>1, <2>4, <2>5, <2>6 DEF IInv
<1>7. ASSUME NEW t \in Thread, Kill(t) PROVE IInv'
  BY <1>1, <1>7 DEF Kill, IInv, TypeOK, GotFollowsPc, WaitersHaveHope, Waiters
<1>8. CASE UNCHANGED vars
  BY <1>1, <1>8 DEF vars, IInv, TypeOK, GotFollowsPc, WaitersHaveHope, Waiters
<1>9. ASSUME NEW t \in Thread,
             \/ Enter(t) \/ Woken(t) \/ GreedyStop(t) \/ CancelCompute(t)
             \/ Crash(t) \/ CancelWait(t) \/ Replace(t) \/ SpuriousWakeup(t)
      PROVE  IInv'
  BY <1>2, <1>9
  DEF Enter, Woken, GreedyStop, CancelCompute, Crash, CancelWait, Replace,
      SpuriousWakeup, IInv, TypeOK
<1> QED
  BY <1>3, <1>4, <1>5, <1>6, <1>7, <1>8, <1>9 DEF Next, AcquireStep, CancelStep

\* The strengthened invariant holds in every reachable state.
THEOREM InductiveInvariant == Spec => []IInv
<1>1. Init => IInv
  BY InitIInv
<1>2. IInv /\ [Next]_vars => IInv'
  BY NextIInv
<1> QED
  BY <1>1, <1>2, PTL DEF Spec

\* Every variable keeps its type; used_ never becomes negative.
THEOREM TypeInvariant == Spec => []TypeOK
<1>1. IInv => TypeOK
  BY DEF IInv
<1> QED
  BY <1>1, InductiveInvariant, PTL

\* CoreManager::used_ is the number of cores that threads have, at most all,
\* whoever is cancelled or crashes: the assertion in release() never fails.
THEOREM Accounting == Spec => []CoresAccounted
<1>1. IInv => CoresAccounted
  BY DEF IInv
<1> QED
  BY <1>1, InductiveInvariant, PTL

\* One signal per release() suffices, although a release frees many cores and
\* a thread that never waited may take them: no waiter is left without
\* somebody who will signal.
THEOREM NoStall == Spec => []WaitersHaveHope
<1>1. IInv => WaitersHaveHope
  BY DEF IInv
<1> QED
  BY <1>1, InductiveInvariant, PTL

-----------------------------------------------------------------------------
GraphTypes ==
    /\ n_threads \in 1..Total
    /\ j \in 1..n_threads
    /\ at \in [0 .. Total - 1 -> G!Computing \cup
                 {"begin", "create", "join", "return", "cleanup", "rejoin", "exit",
                  "off", "over"}]
    /\ at[0] = "rejoin" => j < n_threads

\* The computation has a thread for each of the cores of Subject.
ThreadsAreCores ==
    IF pc[Subject] = "compute" THEN n_threads = got[Subject] ELSE at = G!Begun

HelpersJoined ==
    \A h \in 1 .. Total - 1 :
        /\ h >= n_threads \/ at[0] = "begin" => at[h] = "off"
        /\ at[0] \in {"join", "cleanup", "rejoin"} /\ h < j => at[h] = "over"
        /\ at[0] \in {"return", "exit"} => at[h] \in {"off", "over"}

GInv == GraphTypes /\ ThreadsAreCores /\ HelpersJoined

-----------------------------------------------------------------------------
\* Every step is one of CoreManager, or leaves its variables alone.
LEMMA StepsOfCoreManager == [ComputeNext]_all => [Next]_vars
BY SubjectAssumption
DEF ComputeNext, all, Elsewhere, OtherComputes, SubjectComputes, GraphStep, SubjectReturns,
    SubjectEnds, SubjectDestructs, Next, AcquireStep, CancelStep

\* llama_graph_compute, with the whole computation of the graph in it, is a user
\* of the core manager as CoreManager assumes it to be.
THEOREM Composition == ComputeSpec => Spec
<1>1. ComputeInit => Init
  BY DEF ComputeInit
<1>2. [ComputeNext]_all => [Next]_vars
  BY StepsOfCoreManager
<1> QED
  BY <1>1, <1>2, PTL DEF ComputeSpec, Spec

-----------------------------------------------------------------------------
LEMMA InitGInv == ComputeInit => GInv
BY CoreAssumption, SubjectAssumption
DEF ComputeInit, Init, G!Init, GInv, GraphTypes, ThreadsAreCores, HelpersJoined, G!Begun,
    G!Ith, G!Main, G!Computing

\* A computation begins, or is over.
LEMMA StartGInv ==
    ASSUME NEW n \in 1..Total, G!Start(n),
           pc'[Subject] = "compute" => n = got'[Subject]
    PROVE  GInv'
BY CoreAssumption
DEF G!Start, GInv, GraphTypes, ThreadsAreCores, HelpersJoined, G!Begun, G!Ith, G!Main,
    G!Computing

\* A step in the computation.
LEMMA GraphStepGInv ==
    ASSUME GInv, GraphStep
    PROVE  GInv'
<1> USE CoreAssumption DEF G!Ith, G!Main, G!Worker, G!Helper
<1>1. /\ n_threads' = n_threads /\ n_threads = got[Subject]
      /\ pc[Subject] = "compute" /\ pc' = pc /\ got' = got
  BY DEF GraphStep, GInv, ThreadsAreCores, vars, G!Next, G!Step, G!MainStep, G!Compute,
         G!Arrive, G!Reset, G!Release, G!Spin, G!SpinAgain, G!GoOn, G!Stop, G!Leave,
         G!Crash, G!Begin, G!Create, G!MainComputes, G!Join, G!Return, G!CleanupCancel,
         G!CleanupJoin, G!Exit, G!CancelActs, G!Die, G!crew, G!vars
<1>2. ThreadsAreCores'
  BY <1>1 DEF ThreadsAreCores
<1>3. ASSUME NEW t \in G!Worker, G!Step(t) PROVE GraphTypes' /\ HelpersJoined'
  <2>1. CASE G!SpinAgain(t)
    BY <2>1 DEF G!SpinAgain, G!vars, G!crew, GInv, GraphTypes, HelpersJoined
  <2>2. CASE G!Stop(t)
    BY <2>2 DEF G!Stop, G!Leave, G!Goto, GInv, GraphTypes, HelpersJoined, G!Computing
  <2>3. CASE \E to \in G!Computing : at[t] \in G!Computing /\ G!Goto(t, to) /\ UNCHANGED G!crew
    BY <2>3 DEF G!Goto, G!crew, GInv, GraphTypes, HelpersJoined, G!Computing
  <2>4. G!SpinAgain(t) \/ G!Stop(t)
          \/ \E to \in G!Computing : at[t] \in G!Computing /\ G!Goto(t, to) /\ UNCHANGED G!crew
    BY <1>3 DEF G!Step, G!Compute, G!Arrive, G!Reset, G!Release, G!Spin, G!GoOn, G!Computing,
                G!Goto
  <2> QED
    BY <2>1, <2>2, <2>3, <2>4
<1>4. ASSUME NEW t \in G!Worker, G!Crash(t) PROVE GraphTypes' /\ HelpersJoined'
  BY <1>4 DEF G!Crash, G!Cleanup, G!Goto, GInv, GraphTypes, HelpersJoined, G!Computing
<1>5. ASSUME G!MainStep PROVE GraphTypes' /\ HelpersJoined'
  <2>1. CASE G!Begin \/ G!MainComputes
    BY <2>1 DEF G!Begin, G!MainComputes, G!Goto, G!crew, GInv, GraphTypes, HelpersJoined,
                G!Computing
  <2>2. CASE G!Create
    BY <2>2 DEF G!Create, G!Goto, GInv, GraphTypes, HelpersJoined, G!Computing
  <2>3. CASE G!Join
    BY <2>3 DEF G!Join, GInv, GraphTypes, HelpersJoined
  <2>4. CASE G!Return \/ G!Exit
    BY <2>4 DEF G!Return, G!Exit, G!Goto, G!crew, GInv, GraphTypes, HelpersJoined
  <2>5. CASE G!CleanupCancel
    BY <2>5 DEF G!CleanupCancel, G!Goto, GInv, GraphTypes, HelpersJoined
  <2>6. CASE G!CleanupJoin
    BY <2>6 DEF G!CleanupJoin, G!Goto, GInv, GraphTypes, HelpersJoined
  <2> QED
    BY <1>5, <2>1, <2>2, <2>3, <2>4, <2>5, <2>6 DEF G!MainStep
<1>6. ASSUME G!CancelActs PROVE GraphTypes' /\ HelpersJoined'
  BY <1>6 DEF G!CancelActs, G!Cleanup, G!Goto, GInv, GraphTypes, HelpersJoined, G!Computing
<1>7. ASSUME NEW h \in G!Helper, G!Die(h) PROVE GraphTypes' /\ HelpersJoined'
  BY <1>7 DEF G!Die, G!Goto, G!crew, GInv, GraphTypes, HelpersJoined, G!Computing
<1> QED
  BY <1>2, <1>3, <1>4, <1>5, <1>6, <1>7 DEF GraphStep, G!Next, GInv

\* A step elsewhere neither begins nor ends the computation of Subject.
LEMMA ElsewhereGInv ==
    ASSUME IInv, GInv, UNCHANGED graph,
           NEW t \in Thread, Elsewhere(t) \/ OtherComputes(t)
    PROVE  GInv'
<1>1. GraphTypes' /\ HelpersJoined' /\ at' = at /\ n_threads' = n_threads
  BY DEF graph, GInv, GraphTypes, HelpersJoined
<1>2. /\ pc'[Subject] = "compute" <=> pc[Subject] = "compute"
      /\ pc[Subject] = "compute" => got'[Subject] = got[Subject]
  BY SubjectAssumption
  DEF Elsewhere, OtherComputes, Enter, NeedTake, NeedWait, Woken, GreedyTake, Kill,
      CancelWait, Replace, SpuriousWakeup, GreedyStop, Release, CancelCompute, Crash, Goto,
      Waiters, IInv, TypeOK
<1> QED
  BY <1>1, <1>2 DEF GInv, ThreadsAreCores

LEMMA NextGInv == IInv /\ GInv /\ [ComputeNext]_all => GInv'
<1> SUFFICES ASSUME IInv, GInv, [ComputeNext]_all PROVE GInv'
  OBVIOUS
<1>1. ASSUME NEW t \in Thread, Elsewhere(t) \/ OtherComputes(t) PROVE GInv'
  <2>1. UNCHANGED graph
    BY <1>1 DEF Elsewhere, OtherComputes
  <2> QED
    BY <1>1, <2>1, ElsewhereGInv
<1>2. CASE SubjectComputes
  <2>1. got[Subject] \in 1..Total /\ got' = got
    BY <1>2, SubjectAssumption, CoreAssumption
    DEF SubjectComputes, GreedyStop, Goto, IInv, TypeOK, GotFollowsPc
  <2> QED
    BY <1>2, <2>1, StartGInv DEF SubjectComputes
<1>3. CASE GraphStep
  BY <1>3, GraphStepGInv
<1>4. CASE SubjectReturns \/ SubjectEnds \/ SubjectDestructs
  <2>1. pc'[Subject] # "compute"
    BY <1>4, SubjectAssumption
    DEF SubjectReturns, SubjectEnds, SubjectDestructs, Release, CancelCompute, Crash, Goto,
        Waiters, IInv, TypeOK
  <2>2. CASE G!Start(1)
    BY <2>1, <2>2, StartGInv, CoreAssumption
  <2>3. CASE UNCHANGED graph /\ pc[Subject] = "dtor"
    BY <2>1, <2>3 DEF graph, GInv, GraphTypes, ThreadsAreCores, HelpersJoined
  <2> QED
    BY <1>4, <2>2, <2>3 DEF SubjectReturns, SubjectEnds, SubjectDestructs
<1>5. CASE UNCHANGED all
  BY <1>5 DEF all, vars, graph, GInv, GraphTypes, ThreadsAreCores, HelpersJoined
<1> QED
  BY <1>1, <1>2, <1>3, <1>4, <1>5 DEF ComputeNext

\* The core manager's invariant and that of the computation hold together.
THEOREM ComputeInvariant == ComputeSpec => [](IInv /\ GInv)
<1>1. ComputeInit => IInv /\ GInv
  BY InitIInv, InitGInv DEF ComputeInit
<1>2. (IInv /\ GInv) /\ [ComputeNext]_all => (IInv /\ GInv)'
  BY NextIInv, NextGInv, StepsOfCoreManager
<1> QED
  BY <1>1, <1>2, PTL DEF ComputeSpec

\* Whatever way main leaves ggml_graph_compute, none of its helpers is left that
\* would use its stack frame, however many there are and wherever they were.
THEOREM FrameSafety == ComputeSpec => []FrameOutlivesHelpers
<1>1. GInv => FrameOutlivesHelpers
  BY CoreAssumption
  DEF GInv, GraphTypes, HelpersJoined, FrameOutlivesHelpers, G!FrameOutlivesHelpers,
      G!Helper, G!Worker, G!Main
<1> QED
  BY <1>1, ComputeInvariant, PTL

\* No more threads compute than there are cores, helpers of a cancelled or crashed
\* computation included.
THEOREM NoOversubscription == ComputeSpec => []CoresNotOversubscribed
<1>1. ASSUME IInv, GInv PROVE CoresNotOversubscribed
  <2> DEFINE running == {t \in 0 .. Total - 1 : at[t] \in G!Computing}
             others == {core \in Held : core[1] # Subject}
             own == Own(Subject)
  <2>1. /\ Total \in Nat \ {0} /\ n_threads \in 1..Total /\ got[Subject] \in Nat
        /\ used \in Nat
    BY <1>1, CoreAssumption, SubjectAssumption DEF IInv, TypeOK, GInv, GraphTypes
  <2>2. running \subseteq 0 .. got[Subject] - 1
    <3>1. CASE pc[Subject] = "compute"
      <4>1. n_threads = got[Subject]
        BY <1>1, <3>1 DEF GInv, ThreadsAreCores
      <4>2. \A t \in running : t < n_threads
        BY <1>1, <2>1 DEF GInv, GraphTypes, HelpersJoined, G!Computing
      <4> QED
        BY <2>1, <4>1, <4>2
    <3>2. CASE pc[Subject] # "compute"
      <4>1. running = {}
        BY <1>1, <3>2 DEF GInv, ThreadsAreCores, G!Begun, G!Ith, G!Main, G!Computing
      <4> QED
        BY <4>1
    <3> QED
      BY <3>1, <3>2
  <2>3. IsFiniteSet(running) /\ Cardinality(running) <= got[Subject]
    <3>1. 0 \in Int /\ got[Subject] - 1 \in Int
      BY <2>1
    <3>2. /\ IsFiniteSet(0 .. got[Subject] - 1)
          /\ Cardinality(0 .. got[Subject] - 1)
               = IF 0 > got[Subject] - 1 THEN 0 ELSE got[Subject] - 1 - 0 + 1
      BY <3>1, FS_Interval
    <3>3. Cardinality(0 .. got[Subject] - 1) = got[Subject]
      BY <2>1, <3>2
    <3>4. IsFiniteSet(running) /\ Cardinality(running) <= Cardinality(0 .. got[Subject] - 1)
      <4> HIDE DEF running
      <4> QED
        BY <2>2, <3>2, FS_Subset
    <3> QED
      BY <3>3, <3>4
  <2>4. own \subseteq Held /\ Cardinality(own) = got[Subject]
    BY <1>1, OwnCardinality, SubjectAssumption DEF IInv
  <2>5. others = Held \ own
    BY <1>1, <2>1 DEF Held, Own, IInv, TypeOK
  <2>6. Held \cap own = own
    BY <2>4
  <2>7. Cardinality(others) = Cardinality(Held) - Cardinality(own)
    BY <2>5, <2>6, HeldFinite, FS_Difference
  <2>8. IsFiniteSet(running) => Cardinality(running) \in Nat
    BY FS_CardinalityType
  <2>9. Cardinality(running) + Cardinality(others) <= Total
    BY <1>1, <2>1, <2>3, <2>4, <2>7, <2>8 DEF IInv, CoresAccounted
  <2> QED
    BY <2>9 DEF CoresNotOversubscribed
<1> QED
  BY <1>1, ComputeInvariant, PTL

-----------------------------------------------------------------------------
(***************************************************************************)
(* The barrier.  In round r the threads of arrived have computed node r    *)
(* and wait for the others; who has not arrived computes node r, or has    *)
(* yet to leave the barrier of the round before.                           *)
(***************************************************************************)
BarrierTypes ==
    /\ node_n \in [0 .. Total - 1 -> 0 .. Nodes]
    /\ old \in [0 .. Total - 1 -> 0 .. Nodes]
    /\ phase \in [0 .. Total - 1 -> 0 .. Nodes]
    /\ passing \in 0 .. n_threads
    /\ ec \in BOOLEAN /\ crashed \in BOOLEAN /\ dying \subseteq G!Helper
    /\ at[0] \in {"begin", "create"} => \A h \in G!Helper : h >= j => at[h] = "off"

\* Where thread t is in round r.  A thread that ended may be anywhere.
InRound(t, r, arrived) ==
    /\ node_n[t] \in {r - 1, r} /\ phase[t] \in {r - 1, r}
    /\ t \in arrived => node_n[t] = r /\ phase[t] = r
    /\ at[t] \in {"off", "begin", "create"} => r = 0 /\ t \notin arrived
    /\ at[t] \in {"compute", "arrive"} => node_n[t] = r /\ phase[t] = r /\ t \notin arrived
    /\ at[t] \in {"arrive", "reset", "release", "spin"} => old[t] = node_n[t]
    /\ at[t] \in {"arrive", "reset", "release", "spin", "check"} => node_n[t] < Nodes
    /\ at[t] = "spin" /\ node_n[t] = r => t \in arrived
    /\ at[t] = "reset" => arrived = G!Worker
    /\ at[t] = "release" =>
           /\ node_n[t] = r - 1 /\ passing < n_threads
           /\ \A u \in G!Worker : phase[u] = IF u < passing THEN r ELSE r - 1
    /\ at[t] = "check" => node_n[t] = r - 1 /\ phase[t] = r

\* Only the last one to arrive releases the others.
OneReleases ==
    \A t, u \in G!Worker :
        at[t] \in {"reset", "release"} /\ at[u] \in {"reset", "release"} => t = u

Round(r, arrived) ==
    /\ n_barrier = Cardinality(arrived)
    /\ \A t \in G!Worker : InRound(t, r, arrived)
    /\ OneReleases

\* A thread alone does not use the barrier.
Alone ==
    /\ n_barrier = 0
    /\ at[0] \notin {"arrive", "reset", "release", "spin"}
    /\ at[0] = "check" => node_n[0] < Nodes

BarrierInv ==
    /\ BarrierTypes
    /\ IF n_threads = 1 THEN Alone
       ELSE \E r \in 0 .. Nodes, arrived \in SUBSET G!Worker : Round(r, arrived)

LEMMA WorkerCount ==
    ASSUME n_threads \in Nat \ {0}, NEW arrived \in SUBSET G!Worker
    PROVE  /\ IsFiniteSet(arrived) /\ Cardinality(arrived) \in 0 .. n_threads
           /\ Cardinality(arrived) = n_threads => arrived = G!Worker
<1>1. 0 \in Int /\ n_threads - 1 \in Int
  OBVIOUS
<1>2. /\ IsFiniteSet(0 .. n_threads - 1)
      /\ Cardinality(0 .. n_threads - 1) = IF 0 > n_threads - 1 THEN 0 ELSE n_threads - 1 - 0 + 1
  BY <1>1, FS_Interval
<1>3. IsFiniteSet(G!Worker) /\ Cardinality(G!Worker) = n_threads
  BY <1>2 DEF G!Worker
<1>4. /\ IsFiniteSet(arrived) /\ Cardinality(arrived) <= n_threads
      /\ Cardinality(arrived) = n_threads => arrived = G!Worker
  BY <1>3, FS_Subset
<1> QED
  BY <1>4, FS_CardinalityType

\* The barrier counts no more threads than there are, and who computes a node finds
\* the node before it done.
LEMMA BarrierOrders ==
    ASSUME GInv, BarrierInv
    PROVE  NodesInOrder
<1> USE CoreAssumption, SubjectAssumption DEF G!Ith, G!Main, G!Worker, G!Helper
<1>1. CASE n_threads = 1
  <2>1. G!Worker = {0}
    BY <1>1
  <2>2. G!NodesInOrder
    BY <1>1, <2>1 DEF BarrierInv, BarrierTypes, Alone, G!NodesInOrder
  <2>3. G!TypeOK
    BY <1>1, SMTT(30) DEF BarrierInv, BarrierTypes, Alone, G!TypeOK, GInv, GraphTypes
  <2> QED
    BY <2>2, <2>3 DEF NodesInOrder
<1>2. CASE n_threads # 1
  <2> PICK r \in 0 .. Nodes, arrived \in SUBSET G!Worker : Round(r, arrived)
    BY <1>2 DEF BarrierInv
  <2>1. n_barrier \in 0 .. n_threads
    BY WorkerCount DEF GInv, GraphTypes, Round
  <2>2. G!TypeOK
    BY <2>1, SMTT(30) DEF BarrierInv, BarrierTypes, G!TypeOK, GInv, GraphTypes
  <2>3. G!NodesInOrder
    BY <2>1, SMTT(30) DEF BarrierInv, BarrierTypes, Round, InRound, G!NodesInOrder, GInv, GraphTypes
  <2> QED
    BY <2>2, <2>3 DEF NodesInOrder
<1> QED
  BY <1>1, <1>2

\* A computation begins: all are at the first node.
LEMMA StartBarrier ==
    ASSUME NEW n \in 1..Total, G!Start(n)
    PROVE  BarrierInv'
<1> USE CoreAssumption, SubjectAssumption
    DEF G!Start, G!Begun, G!Zero, G!Ith, G!Main, G!Worker, G!Helper
<1>1. BarrierTypes'
  <2>1. node_n' = [t \in 0 .. Total - 1 |-> 0] /\ old' = node_n' /\ phase' = node_n'
    OBVIOUS
  <2>2. passing' \in 0 .. n_threads' /\ ec' = FALSE /\ crashed' = FALSE /\ dying' = {}
    OBVIOUS
  <2>3. \A h \in (1 .. Total - 1) : at'[h] = "off"
    OBVIOUS
  <2>4. /\ node_n' \in [0 .. Total - 1 -> 0 .. Nodes]
        /\ old' \in [0 .. Total - 1 -> 0 .. Nodes]
        /\ phase' \in [0 .. Total - 1 -> 0 .. Nodes]
    BY <2>1
  <2>5. \A h \in G!Helper' : h >= j' => at'[h] = "off"
    BY <2>3
  <2> QED
    BY <2>2, <2>4, <2>5 DEF BarrierTypes
<1>2. Alone'
  BY DEF Alone
<1>3. Round(0, {})'
  BY FS_EmptySet DEF Round, InRound, OneReleases
<1> QED
  BY <1>1, <1>2, <1>3 DEF BarrierInv

\* A step that leaves the barrier alone: threads begin, or come to their end.
Aside ==
    /\ UNCHANGED <<node_n, old, n_barrier, phase, passing, n_threads, ec>>
    /\ crashed' \in BOOLEAN /\ dying' \subseteq G!Helper
    /\ at'[0] \in {"begin", "create"} => \A h \in G!Helper : h >= j' => at'[h] = "off"
    /\ \A t \in G!Worker :
           \/ at'[t] = at[t]
           \/ at'[t] \in {"join", "return", "cleanup", "rejoin", "exit", "over"}
           \/ at[t] \in {"off", "begin", "create"} /\ at'[t] \in {"create", "compute"}

LEMMA AsideBarrier ==
    ASSUME GInv, BarrierInv, Aside
    PROVE  BarrierInv'
<1> USE CoreAssumption, SubjectAssumption
<1>1. BarrierTypes'
  <2>1. G!Helper' = G!Helper
    BY DEF Aside, G!Helper, G!Worker
  <2> QED
    BY <2>1 DEF Aside, BarrierInv, BarrierTypes
<1>2. CASE n_threads = 1
  BY <1>2, <1>1 DEF Aside, BarrierInv, Alone, G!Worker
<1>3. CASE n_threads # 1
  <2> PICK r \in 0 .. Nodes, arrived \in SUBSET G!Worker : Round(r, arrived)
    BY <1>3 DEF BarrierInv
  <2>1. ASSUME NEW t \in G!Worker PROVE InRound(t, r, arrived)'
    <3>1. /\ InRound(t, r, arrived) /\ G!Worker' = G!Worker 
          /\ node_n[t] \in 0 .. Nodes /\ phase[t] \in 0 .. Nodes
      BY DEF Aside, Round, G!Worker, BarrierInv, BarrierTypes, GInv, GraphTypes
    <3>2. CASE at[t] \in {"off", "begin", "create"}
      <4>1. r = 0 /\ node_n[t] = 0 /\ phase[t] = 0 /\ t \notin arrived
        BY <3>1, <3>2 DEF InRound
      <4>2. /\ at'[t] \notin {"arrive", "reset", "release", "spin", "check"}
            /\ node_n'[t] = node_n[t] /\ phase'[t] = phase[t]
        BY <3>2 DEF Aside
      <4> QED
        BY <4>1, <4>2 DEF InRound
    <3>3. CASE at[t] \notin {"off", "begin", "create"}
      BY <3>1, <3>3 DEF Aside, InRound
    <3> QED
      BY <3>2, <3>3
  <2>2. Round(r, arrived)'
    BY <2>1 DEF Aside, Round, OneReleases, G!Worker
  <2> QED
    BY <1>3, <1>1, <2>2 DEF Aside, BarrierInv, G!Worker
<1> QED
  BY <1>2, <1>3

\* A thread goes from one place of its computation to another.
LEMMA MoveTypes ==
    ASSUME GInv, BarrierTypes, NEW t \in G!Worker, at[t] \in G!Computing,
           NEW to \in G!Computing, G!Goto(t, to), UNCHANGED G!crew, crashed' = crashed,
           node_n' \in [0 .. Total - 1 -> 0 .. Nodes], old' \in [0 .. Total - 1 -> 0 .. Nodes],
           phase' \in [0 .. Total - 1 -> 0 .. Nodes], passing' \in 0 .. n_threads, ec' \in BOOLEAN
    PROVE  /\ BarrierTypes'
           /\ n_threads' = n_threads /\ G!Worker' = G!Worker /\ at'[t] = to
           /\ \A u \in G!Worker : u # t => at'[u] = at[u]
<1>1. n_threads' = n_threads /\ j' = j /\ dying' = dying
  BY DEF G!crew
<1>2. G!Worker' = G!Worker /\ G!Helper' = G!Helper /\ G!Worker \subseteq 0 .. Total - 1
  BY <1>1, CoreAssumption DEF G!Worker, G!Helper, G!Main, GInv, GraphTypes
<1>3. at'[t] = to /\ \A u \in G!Worker : u # t => at'[u] = at[u]
  BY <1>2 DEF G!Goto, GInv, GraphTypes
<1>4. at'[0] \in {"begin", "create"} => at[0] = at'[0]
  BY <1>1, <1>3, CoreAssumption DEF G!Worker, G!Computing, GInv, GraphTypes
<1>5. \A h \in G!Helper : at[h] = "off" => at'[h] = "off"
  BY <1>3 DEF G!Helper, G!Computing
<1>6. at'[0] \in {"begin", "create"} => \A h \in G!Helper' : h >= j' => at'[h] = "off"
  BY <1>1, <1>2, <1>4, <1>5 DEF BarrierTypes
<1> QED
  BY <1>1, <1>2, <1>3, <1>6 DEF BarrierTypes

\* ggml_compute_forward and the test for an abort.
LEMMA ComputeBarrier ==
    ASSUME GInv, BarrierInv, NEW t \in G!Worker, G!Compute(t) \/ G!GoOn(t)
    PROVE  BarrierInv'
<1>0. PICK to \in G!Computing :
          to = IF G!GoOn(t) THEN "compute" ELSE IF n_threads = 1 THEN "check" ELSE "arrive"
  BY DEF G!Computing
<1>1. /\ at[t] = (IF G!GoOn(t) THEN "check" ELSE "compute") /\ at[t] \in G!Computing
      /\ G!Goto(t, to) /\ UNCHANGED G!crew
      /\ crashed' = crashed /\ ec' \in BOOLEAN
      /\ n_barrier' = n_barrier /\ phase' = phase /\ passing' = passing
  BY <1>0 DEF G!Compute, G!GoOn, G!Computing, G!ends, G!barrier, G!crew, BarrierInv, BarrierTypes
<1>2. /\ n_threads \in 1..Total /\ Total \in Nat /\ Nodes \in Nat
      /\ t \in 0 .. n_threads - 1 /\ t \in 0 .. Total - 1
      /\ node_n \in [0 .. Total - 1 -> 0 .. Nodes] /\ old \in [0 .. Total - 1 -> 0 .. Nodes]
      /\ phase \in [0 .. Total - 1 -> 0 .. Nodes] /\ passing \in 0 .. n_threads
  BY CoreAssumption, SubjectAssumption, SMTT(30)
  DEF GInv, GraphTypes, BarrierInv, BarrierTypes, G!Worker
<1>3. /\ node_n' = IF G!GoOn(t) THEN [node_n EXCEPT ![t] = node_n[t] + 1] ELSE node_n
      /\ old' = IF G!GoOn(t) THEN old ELSE [old EXCEPT ![t] = phase[t]]
      /\ ~G!GoOn(t) => node_n[t] < Nodes
  BY <1>1 DEF G!Compute, G!GoOn, G!barrier
<1>4. BarrierTypes
  BY DEF BarrierInv
<1>5. CASE n_threads = 1
  <2>1. t = 0 /\ Alone
    BY <1>2, <1>5 DEF BarrierInv
  <2>2. node_n' \in [0 .. Total - 1 -> 0 .. Nodes] /\ old' \in [0 .. Total - 1 -> 0 .. Nodes]
    <3>1. CASE G!GoOn(t)
      <4>1. node_n[t] + 1 \in 0 .. Nodes
        BY <1>1, <1>2, <2>1, <3>1 DEF Alone
      <4> QED
        BY <1>2, <1>3, <3>1, <4>1
    <3>2. CASE ~G!GoOn(t)
      BY <1>2, <1>3, <3>2
    <3> QED
      BY <3>1, <3>2
  <2>3. BarrierTypes' /\ n_threads' = 1 /\ at'[t] = to
    BY <1>1, <1>2, <1>5, <1>4, <2>2, MoveTypes
  <2>4. Alone'
    BY <1>0, <1>1, <1>3, <1>5, <2>1, <2>3 DEF Alone
  <2> QED
    BY <2>3, <2>4 DEF BarrierInv
<1>6. CASE n_threads # 1
  <2> PICK r \in 0 .. Nodes, arrived \in SUBSET G!Worker : Round(r, arrived)
    BY <1>6 DEF BarrierInv
  <2>1. /\ phase[t] = r /\ t \notin arrived
        /\ node_n[t] = IF G!GoOn(t) THEN r - 1 ELSE r
    BY <1>1 DEF Round, InRound
  <2>2. /\ node_n' = [node_n EXCEPT ![t] = r]
        /\ old' = [old EXCEPT ![t] = IF G!GoOn(t) THEN old[t] ELSE r]
    <3>1. CASE G!GoOn(t)
      <4>1. node_n[t] + 1 = r /\ old = [old EXCEPT ![t] = old[t]]
        BY <1>2, <2>1, <3>1
      <4> QED
        BY <1>3, <3>1, <4>1
    <3>2. CASE ~G!GoOn(t)
      <4>1. node_n = [node_n EXCEPT ![t] = node_n[t]]
        BY <1>2
      <4> QED
        BY <1>3, <2>1, <3>2, <4>1
    <3> QED
      BY <3>1, <3>2
  <2>3. node_n' \in [0 .. Total - 1 -> 0 .. Nodes] /\ old' \in [0 .. Total - 1 -> 0 .. Nodes]
    BY <1>2, <2>2
  <2>4. /\ BarrierTypes' /\ n_threads' = n_threads /\ G!Worker' = G!Worker /\ at'[t] = to
        /\ \A u \in G!Worker : u # t => at'[u] = at[u]
    <3>1. phase' \in [0 .. Total - 1 -> 0 .. Nodes] /\ passing' \in 0 .. n_threads
      BY <1>1, <1>2
    <3> QED
      BY <1>1, <1>4, <2>3, <3>1, MoveTypes
  <2>5. InRound(t, r, arrived)'
    BY <1>0, <1>1, <1>2, <1>3, <1>6, <2>1, <2>2, <2>4 DEF InRound
  <2>6. ASSUME NEW u \in G!Worker, u # t PROVE InRound(u, r, arrived)'
    <3>0. u \in 0 .. n_threads - 1 /\ at'[u] = at[u]
      BY <2>4, <2>6 DEF G!Worker
    <3>1. u \in 0 .. Total - 1 /\ at'[u] = at[u]
      BY <1>2, <3>0
    <3>2. node_n'[u] = node_n[u] /\ old'[u] = old[u]
      BY <1>2, <2>2, <2>6, <3>1
    <3> QED
      BY <1>1, <2>4, <3>1, <3>2 DEF Round, InRound
  <2>7. Round(r, arrived)'
    BY <1>0, <1>1, <2>4, <2>5, <2>6 DEF Round, OneReleases
  <2> QED
    BY <1>6, <2>4, <2>7 DEF BarrierInv
<1> QED
  BY <1>5, <1>6

\* A step in the barrier, which has nothing to do with a node.
LEMMA InBarrier ==
    ASSUME GInv, BarrierInv, NEW t \in G!Worker,
           at[t] \in {"arrive", "reset", "release", "spin"},
           NEW to \in G!Computing, G!Goto(t, to),
           UNCHANGED <<node_n, old, ec, G!crew, G!ends>>,
           phase' \in [0 .. Total - 1 -> 0 .. Nodes], passing' \in 0 .. n_threads
    PROVE  /\ n_threads # 1 /\ n_threads \in Nat \ {0}
           /\ BarrierTypes' /\ n_threads' = n_threads /\ G!Worker' = G!Worker /\ at'[t] = to
           /\ \A u \in G!Worker : u # t => at'[u] = at[u]
<1>1. n_threads \in Nat \ {0} /\ (n_threads = 1 => t = 0)
  BY CoreAssumption DEF GInv, GraphTypes, G!Worker
<1>2. n_threads # 1
  BY <1>1 DEF BarrierInv, Alone
<1>3. BarrierTypes /\ at[t] \in G!Computing /\ UNCHANGED G!crew
  BY DEF BarrierInv, G!Computing
<1>4. /\ node_n' \in [0 .. Total - 1 -> 0 .. Nodes]
      /\ old' \in [0 .. Total - 1 -> 0 .. Nodes] /\ ec' \in BOOLEAN /\ crashed' = crashed
  BY <1>3 DEF BarrierTypes, G!ends
<1> QED
  BY <1>1, <1>2, <1>3, <1>4, MoveTypes

\* atomic_fetch_add of n_barrier: the last to arrive finds all others there.
LEMMA ArriveBarrier ==
    ASSUME GInv, BarrierInv, NEW t \in G!Worker, G!Arrive(t)
    PROVE  BarrierInv'
<1> PICK to \in G!Computing : to = IF n_barrier = n_threads - 1 THEN "reset" ELSE "spin"
  BY DEF G!Computing
<1>1. /\ at[t] = "arrive" /\ G!Goto(t, to) /\ UNCHANGED <<node_n, old, ec, G!crew, G!ends>>
      /\ n_barrier' = n_barrier + 1 /\ phase' = phase /\ passing' = passing
  BY DEF G!Arrive
<1>2. /\ phase' \in [0 .. Total - 1 -> 0 .. Nodes] /\ passing' \in 0 .. n_threads
  BY <1>1 DEF BarrierInv, BarrierTypes
<1>3. /\ n_threads # 1 /\ n_threads \in Nat \ {0}
      /\ BarrierTypes' /\ n_threads' = n_threads /\ G!Worker' = G!Worker /\ at'[t] = to
      /\ \A u \in G!Worker : u # t => at'[u] = at[u]
  BY <1>1, <1>2, InBarrier
<1> PICK r \in 0 .. Nodes, arrived \in SUBSET G!Worker : Round(r, arrived)
  BY <1>3 DEF BarrierInv
<1> DEFINE arrived2 == arrived \cup {t}
<1>4. /\ node_n[t] = r /\ phase[t] = r /\ t \notin arrived /\ old[t] = r /\ r < Nodes
  BY <1>1 DEF Round, InRound
<1>5. /\ IsFiniteSet(arrived) /\ Cardinality(arrived) \in Nat
  BY <1>3, WorkerCount
<1>6. /\ arrived2 \in SUBSET G!Worker /\ n_barrier' = Cardinality(arrived2)
      /\ to = "reset" => arrived2 = G!Worker
  <2>1. Cardinality(arrived2) = Cardinality(arrived) + 1
    BY <1>4, <1>5, FS_AddElement
  <2>2. n_barrier = Cardinality(arrived)
    BY DEF Round
  <2>3. arrived2 \in SUBSET G!Worker
    OBVIOUS
  <2>4. Cardinality(arrived2) = n_threads => arrived2 = G!Worker
    BY <1>3, <2>3, WorkerCount
  <2>5. to = "reset" => n_barrier = n_threads - 1
    OBVIOUS
  <2> QED
    BY <1>1, <1>3, <1>5, <2>1, <2>2, <2>3, <2>4, <2>5
<1>7. \A u \in G!Worker : u # t => at[u] # "reset" /\ (at[u] = "release" => to # "reset")
  BY <1>4, <1>6 DEF Round, InRound
<1>8. InRound(t, r, arrived2)'
  BY <1>1, <1>3, <1>4, <1>6 DEF InRound
<1>9. ASSUME NEW u \in G!Worker, u # t PROVE InRound(u, r, arrived2)'
  <2>1. at'[u] = at[u] /\ (u \in arrived2 <=> u \in arrived)
    BY <1>3, <1>9
  <2>2. InRound(u, r, arrived)
    BY DEF Round
  <2> QED
    BY <1>1, <1>3, <1>7, <1>9, <2>1, <2>2 DEF InRound
<1>10. OneReleases'
  BY <1>1, <1>3, <1>7 DEF Round, OneReleases
<1>11. Round(r, arrived2)'
  BY <1>3, <1>6, <1>8, <1>9, <1>10 DEF Round
<1> QED
  BY <1>3, <1>6, <1>11 DEF BarrierInv

\* The last one resets n_barrier, and is in the next round.
LEMMA ResetBarrier ==
    ASSUME GInv, BarrierInv, NEW t \in G!Worker, G!Reset(t)
    PROVE  BarrierInv'
<1>1. /\ at[t] = "reset" /\ "release" \in G!Computing /\ G!Goto(t, "release")
      /\ UNCHANGED <<node_n, old, ec, G!crew, G!ends>>
      /\ n_barrier' = 0 /\ phase' = phase /\ passing' = 0
  BY DEF G!Reset, G!Computing
<1>2. /\ phase' \in [0 .. Total - 1 -> 0 .. Nodes] /\ passing' \in 0 .. n_threads
  BY <1>1, CoreAssumption DEF BarrierInv, BarrierTypes, GInv, GraphTypes
<1>3. /\ n_threads # 1 /\ n_threads \in Nat \ {0}
      /\ BarrierTypes' /\ n_threads' = n_threads /\ G!Worker' = G!Worker /\ at'[t] = "release"
      /\ \A u \in G!Worker : u # t => at'[u] = at[u]
  BY <1>1, <1>2, InBarrier
<1> PICK r \in 0 .. Nodes, arrived \in SUBSET G!Worker : Round(r, arrived)
  BY <1>3 DEF BarrierInv
<1>4. arrived = G!Worker /\ node_n[t] < Nodes /\ old[t] = node_n[t]
  BY <1>1 DEF Round, InRound
<1>5. \A u \in G!Worker :
          /\ node_n[u] = r /\ phase[u] = r
          /\ at[u] \notin {"off", "begin", "create", "compute", "arrive", "release", "check"}
          /\ at[u] \in {"reset", "spin"} => old[u] = r /\ r < Nodes
  BY <1>4 DEF Round, InRound
<1>6. r + 1 \in 0 .. Nodes
  BY <1>4, <1>5, SubjectAssumption
<1>7. ASSUME NEW u \in G!Worker PROVE InRound(u, r + 1, {})'
  <2>1. CASE u = t
    BY <1>1, <1>3, <1>5, <2>1 DEF InRound, G!Worker
  <2>2. CASE u # t
    <3>1. at'[u] = at[u] /\ at[u] # "reset"
      BY <1>1, <1>3, <2>2 DEF Round, OneReleases
    <3> QED
      BY <1>1, <1>3, <1>5, <3>1 DEF InRound
  <2> QED
    BY <2>1, <2>2
<1>8. OneReleases'
  BY <1>1, <1>3 DEF Round, OneReleases
<1>9. Round(r + 1, {})'
  BY <1>1, <1>3, <1>7, <1>8, FS_EmptySet DEF Round
<1> QED
  BY <1>3, <1>6, <1>9 DEF BarrierInv

\* It releases one thread after the other, itself among them.
LEMMA ReleaseBarrier ==
    ASSUME GInv, BarrierInv, NEW t \in G!Worker, G!Release(t)
    PROVE  BarrierInv'
<1> PICK to \in G!Computing : to = IF passing' = n_threads THEN "check" ELSE "release"
  BY DEF G!Computing
<1>1. /\ at[t] = "release" /\ G!Goto(t, to) /\ UNCHANGED <<node_n, old, ec, G!crew, G!ends>>
      /\ n_barrier' = n_barrier /\ passing' = passing + 1
      /\ phase' = [phase EXCEPT ![passing] = old[t] + 1]
  BY DEF G!Release
<1>2. /\ Total \in Nat /\ n_threads \in 1..Total /\ passing \in Nat /\ n_threads # 1
      /\ phase \in [0 .. Total - 1 -> 0 .. Nodes]
  BY <1>1, CoreAssumption
  DEF GInv, GraphTypes, BarrierInv, BarrierTypes, Alone, G!Worker
<1> PICK r \in 0 .. Nodes, arrived \in SUBSET G!Worker : Round(r, arrived)
  BY <1>2 DEF BarrierInv
<1>3. /\ node_n[t] = r - 1 /\ old[t] = r - 1 /\ old[t] + 1 = r /\ passing < n_threads /\ t \notin arrived
      /\ node_n[t] < Nodes
      /\ \A u \in G!Worker : phase[u] = IF u < passing THEN r ELSE r - 1
  BY <1>1 DEF Round, InRound
<1>4. phase' \in [0 .. Total - 1 -> 0 .. Nodes] /\ passing' \in 0 .. n_threads
  BY <1>1, <1>2, <1>3
<1>5. \A u \in G!Worker : phase'[u] = IF u < passing' THEN r ELSE r - 1
  BY <1>1, <1>2, <1>3 DEF G!Worker
<1>6. /\ BarrierTypes' /\ n_threads' = n_threads /\ G!Worker' = G!Worker /\ at'[t] = to
      /\ \A u \in G!Worker : u # t => at'[u] = at[u]
  BY <1>1, <1>4, InBarrier
<1>7. InRound(t, r, arrived)'
  <2>1. phase'[t] \in {r - 1, r} /\ (to = "check" => phase'[t] = r)
    <3>1. t \in 0 .. n_threads - 1 /\ phase'[t] = IF t < passing' THEN r ELSE r - 1
      BY <1>5 DEF G!Worker
    <3>2. to = "check" => passing' = n_threads
      OBVIOUS
    <3> QED
      BY <1>2, <3>1, <3>2
  <2>2. to = "release" => passing' < n_threads
    BY <1>2, <1>4
  <2>3. /\ node_n'[t] = r - 1 /\ old'[t] = r - 1 /\ passing' = passing + 1
        /\ at'[t] \in {"check", "release"}
    BY <1>1, <1>3, <1>6, SubjectAssumption
  <2> QED
    BY <1>3, <1>5, <1>6, <2>1, <2>2, <2>3 DEF InRound
<1>8. ASSUME NEW u \in G!Worker, u # t PROVE InRound(u, r, arrived)'
  <2>1. InRound(u, r, arrived) /\ at'[u] = at[u] /\ at[u] # "release"
    BY <1>1, <1>6, <1>8 DEF Round, OneReleases
  <2>2. phase'[u] \in {r - 1, r} /\ (phase[u] = r => phase'[u] = r)
    BY <1>2, <1>3, <1>5, <1>1 DEF G!Worker
  <2> QED
    BY <1>1, <1>6, <2>1, <2>2 DEF InRound
<1>9. OneReleases'
  BY <1>1, <1>6 DEF Round, OneReleases
<1>10. Round(r, arrived)'
  BY <1>1, <1>6, <1>7, <1>8, <1>9 DEF Round
<1> QED
  BY <1>2, <1>6, <1>10 DEF BarrierInv

\* A thread that waits is let through in the round after its own only.
LEMMA SpinBarrier ==
    ASSUME GInv, BarrierInv, NEW t \in G!Worker, G!Spin(t)
    PROVE  BarrierInv'
<1>1. /\ at[t] = "spin" /\ "check" \in G!Computing /\ G!Goto(t, "check") /\ phase[t] # old[t]
      /\ UNCHANGED <<node_n, old, ec, G!crew, G!ends>>
      /\ UNCHANGED <<n_barrier, phase, passing>>
  BY DEF G!Spin, G!barrier, G!Computing
<1>2. phase' \in [0 .. Total - 1 -> 0 .. Nodes] /\ passing' \in 0 .. n_threads
  BY <1>1 DEF BarrierInv, BarrierTypes
<1>3. /\ n_threads # 1 /\ BarrierTypes'
      /\ n_threads' = n_threads /\ G!Worker' = G!Worker /\ at'[t] = "check"
      /\ \A u \in G!Worker : u # t => at'[u] = at[u]
  BY <1>1, <1>2, InBarrier
<1> PICK r \in 0 .. Nodes, arrived \in SUBSET G!Worker : Round(r, arrived)
  BY <1>3 DEF BarrierInv
<1>4. /\ node_n[t] = r - 1 /\ phase[t] = r /\ t \notin arrived /\ node_n[t] < Nodes
  BY <1>1 DEF Round, InRound
<1>5. InRound(t, r, arrived)'
  BY <1>1, <1>3, <1>4 DEF InRound
<1>6. ASSUME NEW u \in G!Worker, u # t PROVE InRound(u, r, arrived)'
  <2>1. InRound(u, r, arrived) /\ at'[u] = at[u]
    BY <1>3, <1>6 DEF Round
  <2> QED
    BY <1>1, <1>3, <2>1 DEF InRound
<1>7. OneReleases'
  BY <1>1, <1>3 DEF Round, OneReleases
<1>8. Round(r, arrived)'
  BY <1>1, <1>3, <1>5, <1>6, <1>7 DEF Round
<1> QED
  BY <1>3, <1>8 DEF BarrierInv

\* Any step of the computation: main's are all at its begin or its end.
LEMMA GraphStepBarrier ==
    ASSUME GInv, BarrierInv, GraphStep
    PROVE  BarrierInv'
<1>1. /\ Total \in Nat \ {0} /\ n_threads \in 1..Total /\ j \in 1..n_threads
      /\ at \in [0 .. Total - 1 -> G!Computing \cup
                    {"begin", "create", "join", "return", "cleanup", "rejoin", "exit",
                     "off", "over"}]
      /\ at[0] = "rejoin" => j < n_threads
      /\ crashed \in BOOLEAN /\ dying \subseteq G!Helper
      /\ at[0] \in {"begin", "create"} => \A h \in G!Helper : h >= j => at[h] = "off"
  BY CoreAssumption DEF GInv, GraphTypes, BarrierInv, BarrierTypes
<1> USE DEF Aside, G!barrier, G!crew, G!ends, G!Main, G!Goto, G!Helper, G!Worker
<1>2. ASSUME NEW t \in G!Worker, G!Step(t) PROVE BarrierInv'
  <2>1. CASE G!SpinAgain(t)
    <3>1. UNCHANGED <<at, node_n, G!barrier, ec, G!crew, G!ends>>
      BY <2>1 DEF G!SpinAgain, G!vars
    <3>2. Aside
      BY <1>1, <3>1 
    <3> QED
      BY <3>2, AsideBarrier
  <2>2. CASE G!Stop(t)
    <3>1. Aside
      BY <1>1, <2>2 DEF G!Stop, G!Leave, G!Computing
    <3> QED
      BY <3>1, AsideBarrier
  <2> QED
    BY <1>2, <2>1, <2>2, ComputeBarrier, ArriveBarrier, ResetBarrier, ReleaseBarrier,
       SpinBarrier
    DEF G!Step
<1>3. CASE \E t \in G!Worker : G!Crash(t)
  <2>1. Aside
    BY <1>1, <1>3 DEF G!Crash, G!Cleanup, G!Computing
  <2> QED
    BY <2>1, AsideBarrier
<1>4. CASE G!MainStep
  <2>1. CASE G!Begin
    <3>1. Aside
      BY <1>1, <2>1 DEF G!Begin
    <3> QED
      BY <3>1, AsideBarrier
  <2>2. CASE G!MainComputes
    <3>1. Aside
      BY <1>1, <2>2 DEF G!MainComputes
    <3> QED
      BY <3>1, AsideBarrier
  <2>3. CASE G!Create
    <3>1. Aside
      BY <1>1, <2>3 DEF G!Create
    <3> QED
      BY <3>1, AsideBarrier
  <2>4. CASE G!Join
    <3>1. Aside
      BY <1>1, <2>4 DEF G!Join
    <3> QED
      BY <3>1, AsideBarrier
  <2>5. CASE G!Return
    <3>1. Aside
      BY <1>1, <2>5 DEF G!Return
    <3> QED
      BY <3>1, AsideBarrier
  <2>6. CASE G!CleanupCancel
    <3>1. Aside
      BY <1>1, <2>6 DEF G!CleanupCancel
    <3> QED
      BY <3>1, AsideBarrier
  <2>7. CASE G!CleanupJoin
    <3>1. Aside
      BY <1>1, <2>7 DEF G!CleanupJoin
    <3> QED
      BY <3>1, AsideBarrier
  <2>8. CASE G!Exit
    <3>1. Aside
      BY <1>1, <2>8 DEF G!Exit
    <3> QED
      BY <3>1, AsideBarrier
  <2> QED
    BY <1>4, <2>1, <2>2, <2>3, <2>4, <2>5, <2>6, <2>7, <2>8 DEF G!MainStep
<1>5. CASE G!CancelActs
  <2>1. Aside
    BY <1>1, <1>5 DEF G!CancelActs, G!Cleanup
  <2> QED
    BY <2>1, AsideBarrier
<1>6. CASE \E h \in G!Helper : G!Die(h)
  <2>1. Aside
    BY <1>1, <1>6 DEF G!Die, G!Computing
  <2> QED
    BY <2>1, AsideBarrier
<1> QED
  BY <1>2, <1>3, <1>4, <1>5, <1>6 DEF GraphStep, G!Next

LEMMA NextBarrier == IInv /\ GInv /\ BarrierInv /\ [ComputeNext]_all => BarrierInv'
<1> SUFFICES ASSUME IInv, GInv, BarrierInv, [ComputeNext]_all PROVE BarrierInv'
  OBVIOUS
<1>1. CASE UNCHANGED graph
  <2>1. Aside
    BY <1>1 DEF graph, Aside, BarrierInv, BarrierTypes
  <2> QED
    BY <2>1, AsideBarrier
<1>2. CASE SubjectComputes
  <2>1. got[Subject] \in 1..Total
    BY <1>2, SubjectAssumption, CoreAssumption
    DEF SubjectComputes, GreedyStop, Goto, IInv, TypeOK, GotFollowsPc
  <2> QED
    BY <1>2, <2>1, StartBarrier DEF SubjectComputes
<1>3. CASE GraphStep
  BY <1>3, GraphStepBarrier
<1>4. CASE SubjectReturns \/ SubjectEnds
  <2>1. 1 \in 1..Total
    BY CoreAssumption
  <2> QED
    BY <1>4, <2>1, StartBarrier DEF SubjectReturns, SubjectEnds
<1>5. CASE SubjectDestructs \/ (\E t \in Thread : Elsewhere(t) \/ OtherComputes(t))
  BY <1>1, <1>5 DEF SubjectDestructs, Elsewhere, OtherComputes
<1> QED
  BY <1>1, <1>2, <1>3, <1>4, <1>5 DEF ComputeNext, all

\* No thread computes a node before all have computed the one before it, whatever the
\* number of threads and nodes, and whichever of them are cancelled or crash on the way.
THEOREM BarrierSafety == ComputeSpec => []NodesInOrder
<1>1. ComputeInit => BarrierInv
  <2> SUFFICES ASSUME ComputeInit PROVE BarrierInv
    OBVIOUS
  <2> USE DEF ComputeInit, G!Init, G!Begun, G!Zero, G!Ith, G!Main
  <2>1. /\ n_threads = 1 /\ n_barrier = 0 /\ passing = 0 /\ dying = {}
        /\ ec = FALSE /\ crashed = FALSE
    OBVIOUS
  <2>2. /\ node_n \in [0 .. Total - 1 -> 0 .. Nodes]
        /\ old \in [0 .. Total - 1 -> 0 .. Nodes]
        /\ phase \in [0 .. Total - 1 -> 0 .. Nodes]
    BY SubjectAssumption
  <2>3. at[0] = "begin" /\ G!Helper = {}
    BY <2>1, CoreAssumption DEF G!Helper, G!Worker
  <2> HIDE DEF ComputeInit, G!Init
  <2>4. BarrierTypes
    <3>1. passing \in 0 .. n_threads
      BY <2>1
    <3>2. ec \in BOOLEAN /\ crashed \in BOOLEAN /\ dying \subseteq G!Helper
      BY <2>1
    <3> QED
      BY <2>2, <2>3, <3>1, <3>2 DEF BarrierTypes
  <2>5. Alone
    BY <2>1, <2>3 DEF Alone
  <2> QED
    BY <2>1, <2>4, <2>5 DEF BarrierInv
<1>2. IInv /\ GInv /\ BarrierInv /\ [ComputeNext]_all => BarrierInv'
  BY NextBarrier
<1>3. GInv /\ BarrierInv => NodesInOrder
  BY BarrierOrders
<1> QED
  BY <1>1, <1>2, <1>3, ComputeInvariant, PTL DEF ComputeSpec

-----------------------------------------------------------------------------
\* The pool of threads (TaskPool).
-----------------------------------------------------------------------------
\* The task pool: what can be reached along links.  From is the least closed set, and
\* so nothing is recursive: FromPush and FromPop take a link more or less.
Links == [PoolThread -> PoolThread \cup {None}]

LEMMA FromLeast ==
    ASSUME NEW first, NEW link, NEW S \in SUBSET PoolThread,
           first \in S \cup {None}, \A u \in S : link[u] \in S \cup {None}
    PROVE  From(first, link) \subseteq S
BY DEF From

LEMMA FromClosed ==
    ASSUME NEW first \in PoolThread \cup {None}, NEW link \in Links
    PROVE  /\ From(first, link) \subseteq PoolThread
           /\ first \in From(first, link) \cup {None}
           /\ \A u \in From(first, link) : link[u] \in From(first, link) \cup {None}
<1>1. first # None => first \in From(first, link)
  BY DEF From
<1>2. ASSUME NEW u \in From(first, link), link[u] # None
      PROVE  link[u] \in From(first, link)
  <2>1. u \in PoolThread /\ link[u] \in PoolThread
    BY <1>2 DEF From, Links
  <2>2. ASSUME NEW S \in SUBSET PoolThread, first \in S \cup {None},
               \A w \in S : link[w] \in S \cup {None}
        PROVE  link[u] \in S
    <3>1. u \in S
      BY <2>2 DEF From
    <3> QED
      BY <3>1, <2>2, <1>2
  <2> QED
    BY <2>1, <2>2 DEF From
<1> QED
  BY <1>1, <1>2 DEF From

\* Links of other threads do not matter.
LEMMA FromSame ==
    ASSUME NEW first \in PoolThread \cup {None}, NEW link \in Links, NEW new \in Links,
           \A u \in From(first, link) : new[u] = link[u]
    PROVE  From(first, new) = From(first, link)
<1> DEFINE F == From(first, link)
<1>1. From(first, new) \subseteq F
  BY FromClosed, FromLeast
<1>2. F \subseteq From(first, new)
  <2> DEFINE S == From(first, new) \cap F
  <2>1. first \in S \cup {None} /\ S \in SUBSET PoolThread
    BY FromClosed
  <2>2. \A u \in S : link[u] \in S \cup {None}
    BY FromClosed
  <2> HIDE DEF S
  <2>3. F \subseteq S
    BY <2>1, <2>2, FromLeast
  <2> QED
    BY <2>3 DEF S
<1> QED
  BY <1>1, <1>2

\* A new first element, linked to the old one.
LEMMA FromPush ==
    ASSUME NEW first \in PoolThread \cup {None}, NEW link \in Links,
           NEW t \in PoolThread \ From(first, link)
    PROVE  From(t, [link EXCEPT ![t] = first]) = From(first, link) \cup {t}
<1> DEFINE F == From(first, link)
           new == [link EXCEPT ![t] = first]
<1>0. new \in Links /\ new[t] = first /\ \A u \in PoolThread \ {t} : new[u] = link[u]
  BY DEF Links
<1> HIDE DEF new
<1>1. From(t, new) \subseteq F \cup {t}
  <2>1. \A u \in F \cup {t} : new[u] \in F \cup {t} \cup {None}
    BY <1>0, FromClosed
  <2>2. F \cup {t} \in SUBSET PoolThread
    BY FromClosed
  <2>3. t \in F \cup {t} \cup {None}
    OBVIOUS
  <2> HIDE DEF F
  <2> QED
    BY <2>1, <2>2, <2>3, FromLeast
<1>2. t \in From(t, new)
  BY <1>0, PoolAssumption, FromClosed
<1>3. F \subseteq From(t, new)
  <2> DEFINE S == From(t, new) \cap F
  <2>1. S \in SUBSET PoolThread
    BY FromClosed
  <2>2. first \in S \cup {None}
    BY <1>0, <1>2, FromClosed
  <2>3. \A u \in S : link[u] \in S \cup {None}
    BY <1>0, FromClosed
  <2> HIDE DEF S
  <2>4. F \subseteq S
    BY <2>1, <2>2, <2>3, FromLeast
  <2> QED
    BY <2>4 DEF S
<1> QED
  BY <1>1, <1>2, <1>3 DEF new

\* Without the first element, if no link leads back to it.
LEMMA FromPop ==
    ASSUME NEW first \in PoolThread, NEW link \in Links,
           \A u \in From(first, link) : link[u] # first
    PROVE  From(link[first], link) = From(first, link) \ {first}
<1> DEFINE F == From(first, link)
<1>0. link[first] \in PoolThread \cup {None} /\ first \in F /\ first # None
  BY FromClosed, PoolAssumption DEF Links
<1>1. From(link[first], link) \subseteq F \ {first}
  <2>1. F \ {first} \in SUBSET PoolThread
    BY FromClosed
  <2>2. link[first] \in (F \ {first}) \cup {None}
    BY <1>0, FromClosed
  <2>3. \A u \in F \ {first} : link[u] \in (F \ {first}) \cup {None}
    BY FromClosed
  <2> HIDE DEF F
  <2> QED
    BY <2>1, <2>2, <2>3, FromLeast
<1>2. F \subseteq From(link[first], link) \cup {first}
  <2> DEFINE S == From(link[first], link) \cup {first}
  <2>1. S \in SUBSET PoolThread
    BY <1>0, FromClosed
  <2>2. \A u \in S : link[u] \in S \cup {None}
    BY <1>0, FromClosed
  <2>3. first \in S
    OBVIOUS
  <2>4. From(first, link) \subseteq S
    <3> HIDE DEF S
    <3> QED
      BY <2>1, <2>2, <2>3, FromLeast
  <2> QED
    BY <2>4
<1> QED
  BY <1>1, <1>2

-----------------------------------------------------------------------------
\* The task pool: threads and callers.

\* A thread that has a task: its function runs or will, or its end is not reported.
Working(t) ==
    \/ doing[t] \in {"new", "run", "returned"}
    \/ doing[t] = "wait" /\ task[t] # None

\* What a thread does tells whether it has a task.
TasksFollow ==
    \A t \in PoolThread :
        /\ doing[t] \in {"new", "run", "returned"} => task[t] \in Caller
        /\ doing[t] \in {"none", "pushing"} => task[t] = None

\* What a caller does tells what it knows of its task's thread, and that the thread
\* works for it until the task is over.
CallersFollow ==
    /\ stage[Shutdown] \in {"idle", "pop", "exchange", "popped", "done"}
    /\ \A c \in Caller :
           /\ stage[c] # "done"
           /\ stage[c] \in {"pop", "exchange", "popped", "spawning", "publish"} =>
                  th[c] = "unset"
           /\ stage[c] \in {"spawning", "publish"} =>
                  /\ mine[c] \in PoolThread /\ Working(mine[c]) /\ task[mine[c]] = c
           /\ stage[c] \in {"created", "cancel", "join"} =>
                  \/ th[c] = "over"
                  \/ th[c] \in PoolThread /\ Working(th[c]) /\ task[th[c]] = c
           /\ stage[c] = "cancel" => c \in Cancelers /\ mine[c] = th[c] /\ th[c] # "over"

\* The caller of a task knows its thread, once it is told.
CallerKnows ==
    \A t \in PoolThread :
        Working(t) =>
            \/ stage[task[t]] \in {"spawning", "publish"} /\ mine[task[t]] = t
            \/ stage[task[t]] \in {"created", "cancel", "join"} /\ th[task[t]] = t

\* A thread that was cancelled works for a caller that waits for its end, or was
\* popped by llamafile_task_shutdown.
DoomedFollow ==
    \A t \in PoolThread :
        /\ Working(t) /\ task[t] \in Endless => doing[t] # "returned"
        /\ doomed[t] =>
               \/ Working(t) /\ task[t] \in Endless /\ stage[task[t]] = "join"
               \/ doing[t] = "wait" /\ task[t] = None /\ t \notin Idle /\ PoppedBy(t) = {}

\* Idle threads wait; a waiting thread that is not in the stack was popped by one.
Waiting ==
    /\ \A t \in Idle : Waits(t)
    /\ \A t \in PoolThread \ Idle : Waits(t) => PoppedBy(t) # {}
    /\ \A c \in Poppers :
           stage[c] = "popped" => mine[c] \in PoolThread \ Idle /\ Waits(mine[c])
    /\ \A c, d \in Poppers :
           stage[c] = "popped" /\ stage[d] = "popped" /\ mine[c] = mine[d] => c = d

\* No two links of the stack lead to one thread, and none to the tip.
Linked ==
    \A t \in Idle :
        /\ next[t] # tip.top
        /\ \A u \in Idle : next[t] = next[u] => t = u \/ next[t] = None

\* Who is about to replace the tip has its present next, if it is the tip it read.
CopiesValid ==
    \A c \in Poppers :
        stage[c] = "exchange" =>
            /\ seen[c].top \in PoolThread
            /\ seen[c] = tip => after[c] = next[tip.top]

\* g_active counts the threads that have begun and not ended.
Counted == active = Cardinality({t \in PoolThread : doing[t] \notin {"none", "new"}})

\* The inductive invariant, as long as tips are new.
PoolInv ==
    /\ PoolTypeOK
    /\ TasksFollow
    /\ CallersFollow
    /\ CallerKnows
    /\ DoomedFollow
    /\ Waiting
    /\ Linked
    /\ CopiesValid
    /\ Counted

\* No exchange of g_idle restores a value that somebody is about to compare it with.
TipIsNew ==
    tip' # tip => \A c \in Poppers : stage[c] = "exchange" => tip' # seen[c]

-----------------------------------------------------------------------------
\* Which steps leave the stack, and the count, as they are.
LEMMA IdleSame ==
    ASSUME PoolTypeOK, PoolTypeOK', tip'.top = tip.top,
           \A t \in Idle : next'[t] = next[t]
    PROVE  Idle' = Idle
<1>1. /\ tip.top \in PoolThread \cup {None}
      /\ next \in Links /\ next' \in Links
  BY DEF PoolTypeOK, Links
<1>2. \A t \in From(tip.top, next) : next'[t] = next[t]
  BY DEF Idle
<1>3. From(tip.top, next') = From(tip.top, next)
  BY <1>1, <1>2, FromSame
<1> QED
  BY <1>3 DEF Idle

LEMMA IdleUnchanged ==
    ASSUME UNCHANGED <<tip, next>>
    PROVE  Idle' = Idle
BY DEF Idle, From

LEMMA IdleClosed ==
    ASSUME PoolTypeOK
    PROVE  /\ Idle \subseteq PoolThread
           /\ tip.top \in Idle \cup {None}
           /\ \A u \in Idle : next[u] \in Idle \cup {None}
<1>1. tip.top \in PoolThread \cup {None} /\ next \in Links
  BY DEF PoolTypeOK, Links
<1> QED
  BY <1>1, FromClosed DEF Idle

LEMMA IdleEmpty ==
    (tip.top = None => Idle = {}) /\ (tip'.top = None => Idle' = {})
<1>1. ASSUME NEW link PROVE From(None, link) = {}
  <2>1. {} \in SUBSET PoolThread /\ None \in {} \cup {None} /\ \A u \in {} : link[u] \in {None}
    OBVIOUS
  <2> QED
    BY <2>1, Zenon DEF From
<1> QED
  BY <1>1 DEF Idle

LEMMA DoomedSame ==
    ASSUME DoomedFollow, TasksFollow, UNCHANGED <<doing, task, doomed>>, Idle' = Idle,
           \A c \in Caller : stage[c] = "join" => stage'[c] = "join",
           \A t \in PoolThread : PoppedBy(t)' \subseteq PoppedBy(t)
    PROVE  DoomedFollow'
<1>1. ASSUME NEW t \in PoolThread PROVE Working(t)' <=> Working(t)
  BY DEF Working
<1>2. ASSUME NEW t \in PoolThread, doomed[t], Working(t), task[t] \in Endless,
             stage[task[t]] = "join"
      PROVE  stage'[task[t]] = "join"
  BY <1>2, PoolAssumption
<1> QED
  BY <1>1, <1>2 DEF DoomedFollow

LEMMA CountedSame ==
    ASSUME Counted, active' = active,
           \A t \in PoolThread : doing'[t] \in {"none", "new"} <=> doing[t] \in {"none", "new"}
    PROVE  Counted'
<1>1. {t \in PoolThread : doing'[t] \notin {"none", "new"}}
        = {t \in PoolThread : doing[t] \notin {"none", "new"}}
  OBVIOUS
<1> QED
  BY <1>1 DEF Counted

-----------------------------------------------------------------------------
\* One lemma for each action: it keeps PoolInv.  What it does to the stack comes
\* first in each, and then one step for each part of PoolInv.
LEMMA CreateInv ==
    ASSUME PoolInv, Cancelers = Endless, NEW c \in Caller, Create(c)
    PROVE  PoolInv'
<1> USE PoolAssumption DEF PoolInv, Create
<1>0. Idle' = Idle
  BY IdleUnchanged
<1>1. PoolTypeOK'
  BY DEF PoolTypeOK, Poppers, Use, Live, NextOf, Tagged, Forget, MutexFree
<1>2. TasksFollow'
  BY <1>0 DEF TasksFollow, PoolTypeOK
<1>3. CallersFollow'
  BY <1>0 DEF CallersFollow, Working, Poppers, PoolTypeOK
<1>4. CallerKnows'
  BY <1>0 DEF CallerKnows, Working, TasksFollow, CallersFollow, Poppers, PoolTypeOK
<1>5. DoomedFollow'
  BY <1>0 DEF DoomedFollow, Working, PoppedBy, Poppers, PoolTypeOK
<1>6. Waiting'
  BY <1>0 DEF Waiting, Waits, PoppedBy, PoolTypeOK
<1>7. Linked'
  BY <1>0 DEF Linked, PoolTypeOK
<1>8. CopiesValid'
  BY <1>0 DEF CopiesValid, Poppers, PoolTypeOK
<1>9. Counted'
  BY CountedSame DEF PoolTypeOK
<1> QED
  BY <1>1, <1>2, <1>3, <1>4, <1>5, <1>6, <1>7, <1>8, <1>9

LEMMA PopReadInv ==
    ASSUME PoolInv, Cancelers = Endless, NEW c \in Poppers, PopRead(c)
    PROVE  PoolInv'
<1> USE PoolAssumption DEF PoolInv, PopRead
<1>0. Idle' = Idle
  BY IdleUnchanged
<1>1. PoolTypeOK'
  BY DEF PoolTypeOK, Poppers, Use, Live, NextOf, Tagged, Forget, MutexFree
<1>2. TasksFollow'
  BY <1>0 DEF TasksFollow, PoolTypeOK
<1>3. CallersFollow'
  BY <1>0 DEF CallersFollow, Working, Poppers, PoolTypeOK
<1>4. CallerKnows'
  BY <1>0 DEF CallerKnows, Working, TasksFollow, CallersFollow, Poppers, PoolTypeOK
<1>5. DoomedFollow'
  BY <1>0 DEF DoomedFollow, Working, PoppedBy, Poppers, PoolTypeOK
<1>6. Waiting'
  BY <1>0 DEF Waiting, Waits, PoppedBy, PoolTypeOK
<1>7. Linked'
  BY <1>0 DEF Linked, PoolTypeOK
<1>8. CopiesValid'
  <2>1. ASSUME seen[c] = tip PROVE after'[c] = next[tip.top]
    <3>1. tip.top \in Idle
      BY <2>1, IdleClosed DEF PopRead
    <3>2. Live(tip.top)
      BY <3>1 DEF Waiting, Waits, Live
    <3> QED
      BY <2>1, <3>2 DEF NextOf, PoolTypeOK
  <2> QED
    BY <2>1 DEF CopiesValid, Poppers, PoolTypeOK
<1>9. Counted'
  BY CountedSame DEF PoolTypeOK
<1> QED
  BY <1>1, <1>2, <1>3, <1>4, <1>5, <1>6, <1>7, <1>8, <1>9

LEMMA AssignInv ==
    ASSUME PoolInv, Cancelers = Endless, NEW c \in Poppers, Assign(c)
    PROVE  PoolInv'
<1> USE PoolAssumption DEF PoolInv, Assign
<1> DEFINE t == mine[c]
<1>a. t \in PoolThread \ Idle /\ Waits(t) /\ c \in Poppers
  BY DEF Waiting, Poppers
<1>b. c # Shutdown /\ None \notin Caller
  OBVIOUS
<1>0. Idle' = Idle
  BY IdleUnchanged
<1>1. PoolTypeOK'
  BY <1>a DEF PoolTypeOK, Poppers, Use, Live
<1>2. TasksFollow'
  BY <1>a DEF TasksFollow, Waits, PoolTypeOK
<1>3. CallersFollow'
  BY <1>a, <1>b DEF CallersFollow, Working, Waits, Poppers, PoolTypeOK
<1>4. CallerKnows'
  BY <1>0 DEF CallerKnows, Working, TasksFollow, CallersFollow, Poppers, PoolTypeOK
<1>5. DoomedFollow'
  BY <1>a, <1>0 DEF DoomedFollow, Working, Waits, PoppedBy, Poppers, PoolTypeOK
<1>6. Waiting'
  BY <1>0 DEF Waiting, Waits, PoppedBy, PoolTypeOK
<1>7. Linked'
  BY <1>0 DEF Linked, PoolTypeOK
<1>8. CopiesValid'
  BY <1>0 DEF CopiesValid, Poppers, PoolTypeOK
<1>9. Counted'
  BY CountedSame DEF PoolTypeOK
<1> QED
  BY <1>1, <1>2, <1>3, <1>4, <1>5, <1>6, <1>7, <1>8, <1>9

LEMMA SpawnFailsInv ==
    ASSUME PoolInv, Cancelers = Endless, NEW c \in Caller, SpawnFails(c)
    PROVE  PoolInv'
<1> USE PoolAssumption DEF PoolInv, SpawnFails
<1>0. Idle' = Idle
  BY IdleUnchanged
<1>1. PoolTypeOK'
  BY DEF PoolTypeOK, Poppers, Use, Live, NextOf, Tagged, Forget, MutexFree
<1>2. TasksFollow'
  BY <1>0 DEF TasksFollow, PoolTypeOK
<1>3. CallersFollow'
  BY <1>0 DEF CallersFollow, Working, Poppers, PoolTypeOK
<1>4. CallerKnows'
  BY <1>0 DEF CallerKnows, Working, TasksFollow, CallersFollow, Poppers, PoolTypeOK
<1>5. DoomedFollow'
  BY <1>0 DEF DoomedFollow, Working, PoppedBy, Poppers, PoolTypeOK
<1>6. Waiting'
  BY <1>0 DEF Waiting, Waits, PoppedBy, PoolTypeOK
<1>7. Linked'
  BY <1>0 DEF Linked, PoolTypeOK
<1>8. CopiesValid'
  BY <1>0 DEF CopiesValid, Poppers, PoolTypeOK
<1>9. Counted'
  BY CountedSame DEF PoolTypeOK
<1> QED
  BY <1>1, <1>2, <1>3, <1>4, <1>5, <1>6, <1>7, <1>8, <1>9

LEMMA SpawnedInv ==
    ASSUME PoolInv, Cancelers = Endless, NEW c \in Poppers, Spawned(c)
    PROVE  PoolInv'
<1> USE PoolAssumption DEF PoolInv, Spawned
<1>0. Idle' = Idle
  BY IdleUnchanged
<1>1. PoolTypeOK'
  BY DEF PoolTypeOK, Poppers, Use, Live, NextOf, Tagged, Forget, MutexFree
<1>2. TasksFollow'
  BY <1>0 DEF TasksFollow, PoolTypeOK
<1>3. CallersFollow'
  BY <1>0 DEF CallersFollow, Working, Poppers, PoolTypeOK
<1>4. CallerKnows'
  BY <1>0 DEF CallerKnows, Working, TasksFollow, CallersFollow, Poppers, PoolTypeOK
<1>5. DoomedFollow'
  BY <1>0 DEF DoomedFollow, Working, PoppedBy, Poppers, PoolTypeOK
<1>6. Waiting'
  BY <1>0 DEF Waiting, Waits, PoppedBy, PoolTypeOK
<1>7. Linked'
  BY <1>0 DEF Linked, PoolTypeOK
<1>8. CopiesValid'
  BY <1>0 DEF CopiesValid, Poppers, PoolTypeOK
<1>9. Counted'
  BY CountedSame DEF PoolTypeOK
<1> QED
  BY <1>1, <1>2, <1>3, <1>4, <1>5, <1>6, <1>7, <1>8, <1>9

LEMMA PublishInv ==
    ASSUME PoolInv, Cancelers = Endless, NEW c \in Poppers, Publish(c)
    PROVE  PoolInv'
<1> USE PoolAssumption DEF PoolInv, Publish
<1>0. Idle' = Idle
  BY IdleUnchanged
<1>1. PoolTypeOK'
  BY DEF PoolTypeOK, Poppers, Use, Live, CallersFollow
<1>2. TasksFollow'
  BY <1>0 DEF TasksFollow, PoolTypeOK
<1>3. CallersFollow'
  BY <1>0 DEF CallersFollow, Working, Poppers, PoolTypeOK
<1>4. CallerKnows'
  BY <1>0 DEF CallerKnows, Working, TasksFollow, CallersFollow, Poppers, PoolTypeOK
<1>5. DoomedFollow'
  BY <1>0 DEF DoomedFollow, Working, PoppedBy, Poppers, PoolTypeOK
<1>6. Waiting'
  BY <1>0 DEF Waiting, Waits, PoppedBy, PoolTypeOK
<1>7. Linked'
  BY <1>0 DEF Linked, PoolTypeOK
<1>8. CopiesValid'
  BY <1>0 DEF CopiesValid, Poppers, PoolTypeOK
<1>9. Counted'
  BY CountedSame DEF PoolTypeOK
<1> QED
  BY <1>1, <1>2, <1>3, <1>4, <1>5, <1>6, <1>7, <1>8, <1>9

LEMMA CancelLoadInv ==
    ASSUME PoolInv, Cancelers = Endless, NEW c \in Poppers, CancelLoad(c)
    PROVE  PoolInv'
<1> USE PoolAssumption DEF PoolInv, CancelLoad
<1>0. Idle' = Idle
  BY IdleUnchanged
<1>1. PoolTypeOK'
  <2>1. c \in Caller /\ th[c] \in PoolThread \cup {"over"}
    BY DEF CallersFollow
  <2>2. CASE th[c] = "over"
    <3>1. mine' = mine /\ stage' = [stage EXCEPT ![c] = "join"]
      BY <2>2
    <3> QED
      BY <3>1 DEF PoolTypeOK
  <2>3. CASE th[c] # "over"
    <3>1. mine' \in [Poppers -> PoolThread \cup {None}]
      BY <2>1, <2>3 DEF PoolTypeOK
    <3>2. stage' = [stage EXCEPT ![c] = "cancel"]
      BY <2>3
    <3> QED
      BY <3>1, <3>2 DEF PoolTypeOK
  <2> QED
    BY <2>2, <2>3
<1>2. TasksFollow'
  BY <1>0 DEF TasksFollow, PoolTypeOK
<1>3. CallersFollow'
  <2>1. /\ c \in Caller /\ c # Shutdown /\ c \in Cancelers
        /\ \/ th[c] = "over"
           \/ th[c] \in PoolThread /\ Working(th[c]) /\ task[th[c]] = c
    BY DEF CallersFollow
  <2>2. /\ \A d \in Poppers : d # c => stage'[d] = stage[d] /\ mine'[d] = mine[d]
        /\ UNCHANGED <<th, task>>
        /\ \A u \in PoolThread : Working(u)' <=> Working(u)
    BY DEF PoolTypeOK, Working
  <2>3. \/ stage'[c] = "join"
        \/ stage'[c] = "cancel" /\ mine'[c] = th[c] /\ th[c] # "over"
    BY DEF PoolTypeOK
  <2> HIDE DEF CancelLoad
  <2>4. ASSUME NEW d \in Caller, d # c
        PROVE  d \in Poppers /\ stage'[d] = stage[d] /\ mine'[d] = mine[d]
    BY <2>2, <2>4 DEF Poppers
  <2>5. stage'[Shutdown] = stage[Shutdown]
    BY <2>1, <2>2 DEF Poppers
  <2> QED
    BY <2>1, <2>2, <2>3, <2>4, <2>5 DEF CallersFollow
<1>4. CallerKnows'
  BY <1>0 DEF CallerKnows, Working, TasksFollow, CallersFollow, Poppers, PoolTypeOK
<1>5. DoomedFollow'
  <2>1. \A d \in Poppers :
            stage'[d] = stage[d] \/ (stage[d] = "created" /\ stage'[d] # "popped")
    BY DEF PoolTypeOK
  <2>2. \A d \in Poppers : stage'[d] = "popped" => mine'[d] = mine[d]
    BY DEF PoolTypeOK
  <2>3. \A u \in PoolThread : PoppedBy(u)' \subseteq PoppedBy(u)
    BY <2>1, <2>2 DEF PoppedBy
  <2>4. \A d \in Caller : stage[d] = "join" => stage'[d] = "join"
    BY <2>1 DEF Poppers
  <2> QED
    BY <1>0, <2>3, <2>4, DoomedSame
<1>6. Waiting'
  <2>1. \A d \in Poppers : stage'[d] = "popped" <=> stage[d] = "popped"
    BY DEF PoolTypeOK, Poppers
  <2>2. \A d \in Poppers : stage[d] = "popped" => mine'[d] = mine[d]
    BY DEF PoolTypeOK, Poppers
  <2>3. \A t \in PoolThread : PoppedBy(t)' = PoppedBy(t)
    BY <2>1, <2>2 DEF PoppedBy
  <2>4. \A t \in PoolThread : Waits(t)' = Waits(t)
    BY DEF Waits
  <2> QED
    BY <1>0, <2>1, <2>2, <2>3, <2>4, IdleClosed DEF Waiting
<1>7. Linked'
  BY <1>0 DEF Linked, PoolTypeOK
<1>8. CopiesValid'
  BY <1>0 DEF CopiesValid, Poppers, PoolTypeOK
<1>9. Counted'
  BY CountedSame DEF PoolTypeOK
<1> QED
  BY <1>1, <1>2, <1>3, <1>4, <1>5, <1>6, <1>7, <1>8, <1>9

LEMMA CancelThreadInv ==
    ASSUME PoolInv, Cancelers = Endless, NEW c \in Poppers, CancelThread(c)
    PROVE  PoolInv'
<1> USE PoolAssumption DEF PoolInv, CancelThread
<1>m. mine[c] \in PoolThread \ Idle /\ doing[mine[c]] # "none"
  BY DEF CallersFollow, Working, Waiting, Waits
<1> PICK t \in PoolThread : t = mine[c]
  BY <1>m
<1>a. t \in PoolThread \ Idle /\ doing[t] # "none"
  BY <1>m
<1>b. Live(t) = TRUE
  BY <1>a DEF Live
<1>c. doomed' = [doomed EXCEPT ![t] = TRUE]
  BY <1>b
<1>d. /\ stage'[c] # "popped"
      /\ \A d \in Poppers : d # c => mine'[d] = mine[d] /\ stage'[d] = stage[d]
  BY DEF PoolTypeOK, Poppers
<1>0. Idle' = Idle
  BY IdleUnchanged
<1>1. PoolTypeOK'
  BY <1>a DEF PoolTypeOK, Poppers, Use, Live
<1>2. TasksFollow'
  BY <1>0 DEF TasksFollow, PoolTypeOK
<1>3. CallersFollow'
  BY <1>0 DEF CallersFollow, Working, Poppers, PoolTypeOK
<1>4. CallerKnows'
  BY <1>0 DEF CallerKnows, Working, TasksFollow, CallersFollow, Poppers, PoolTypeOK
<1>5. DoomedFollow'
  <2>1. ASSUME NEW u \in PoolThread, u # t
        PROVE  /\ doomed'[u] = doomed[u]
               /\ doomed[u] /\ Working(u) => stage'[task[u]] = stage[task[u]]
               /\ PoppedBy(u) = {} => PoppedBy(u)' = {}
    <3>1. doomed'[u] = doomed[u]
      BY <1>a, <2>1 DEF PoolTypeOK
    <3>2. PoppedBy(u)' \subseteq PoppedBy(u)
      BY DEF PoppedBy, PoolTypeOK, Poppers
    <3>3. doomed[u] /\ Working(u) => stage[task[u]] = "join" \/ task[u] = None
      BY DEF DoomedFollow, Working
    <3>4. stage[c] # "join" /\ (Working(u) => task[u] \in Caller)
      BY DEF Working, TasksFollow, PoolTypeOK
    <3>5. doomed[u] /\ Working(u) => stage'[task[u]] = stage[task[u]]
      BY <3>3, <3>4 DEF PoolTypeOK, Poppers
    <3> QED
      BY <3>1, <3>2, <3>5
  <2>2. CASE c = Shutdown
    <3>1. Waits(t) /\ \A d \in Poppers : stage[d] = "popped" /\ mine[d] = t => d = c
      BY <2>2 DEF Waiting, CallersFollow, Poppers
    <3>2. PoppedBy(t)' = {}
      BY <1>d, <3>1 DEF PoppedBy
    <3>3. UNCHANGED <<doing, task>>
      OBVIOUS
    <3> HIDE DEF CancelThread
    <3>4. ASSUME NEW u \in PoolThread, Working(u), task[u] \in Endless
          PROVE  doing[u] # "returned"
      BY <3>4 DEF DoomedFollow
    <3>5. ASSUME NEW u \in PoolThread, doomed'[u]
          PROVE  \/ Working(u) /\ task[u] \in Endless /\ stage'[task[u]] = "join"
                 \/ doing[u] = "wait" /\ task[u] = None /\ u \notin Idle /\ PoppedBy(u)' = {}
      <4>1. CASE u = t
        BY <4>1, <1>a, <3>1, <3>2 DEF Waits
      <4>2. CASE u # t
        BY <4>2, <2>1, <3>5 DEF DoomedFollow
      <4> QED
        BY <4>1, <4>2
    <3> QED
      BY <1>0, <3>3, <3>4, <3>5 DEF DoomedFollow, Working
  <2>3. CASE c # Shutdown
    <3>1. c \in Caller /\ stage'[c] = "join" /\ c \in Endless
      BY <2>3 DEF CallersFollow, PoolTypeOK, Poppers
    <3>2. Working(t) /\ task[t] = c
      BY <2>3, <3>1 DEF CallersFollow
    <3> QED
      BY <1>a, <1>0, <2>1, <3>1, <3>2 DEF DoomedFollow, Working
  <2> QED
    BY <2>2, <2>3
<1>6. Waiting'
  <2>1. \A u \in PoolThread : u # t => (Waits(u)' <=> Waits(u))
    BY <1>a DEF Waits, PoolTypeOK
  <2>2. ~Waits(t)'
    BY <1>a, <1>c DEF Waits, PoolTypeOK
  <2>3. Waits(t) => c = Shutdown
    BY DEF CallersFollow, Waits, Working
  <2>6. ASSUME NEW d \in Poppers, d # c, stage[d] = "popped" PROVE mine[d] # t
    BY <2>3, <2>6 DEF Waiting, CallersFollow, Poppers
  <2>7. \A u \in PoolThread : u # t => PoppedBy(u)' = PoppedBy(u)
    BY <1>d DEF PoppedBy
  <2> QED
    <3>1. \A u \in Idle' : Waits(u)'
      BY <1>0, <1>a, <2>1, IdleClosed DEF Waiting
    <3>2. \A u \in PoolThread \ Idle' : Waits(u)' => PoppedBy(u)' # {}
      BY <1>0, <2>1, <2>2, <2>7 DEF Waiting
    <3>3. \A d \in Poppers :
             stage'[d] = "popped" => mine'[d] \in PoolThread \ Idle' /\ Waits(mine[d])'
      BY <1>0, <1>d, <2>1, <2>6 DEF Waiting
    <3>4. \A d, e \in Poppers :
             stage'[d] = "popped" /\ stage'[e] = "popped" /\ mine'[d] = mine'[e] => d = e
      BY <1>d DEF Waiting
    <3>5. \A d \in Poppers : stage'[d] = "popped" => mine'[d] = mine[d]
      BY <1>d
    <3> HIDE DEF CancelThread
    <3> QED
      BY <3>1, <3>2, <3>3, <3>4, <3>5 DEF Waiting
<1>7. Linked'
  BY <1>0 DEF Linked, PoolTypeOK
<1>8. CopiesValid'
  BY <1>0 DEF CopiesValid, Poppers, PoolTypeOK
<1>9. Counted'
  BY CountedSame DEF PoolTypeOK
<1> QED
  BY <1>1, <1>2, <1>3, <1>4, <1>5, <1>6, <1>7, <1>8, <1>9

LEMMA JoinBeginsInv ==
    ASSUME PoolInv, Cancelers = Endless, NEW c \in Poppers, JoinBegins(c)
    PROVE  PoolInv'
<1> USE PoolAssumption DEF PoolInv, JoinBegins
<1>0. Idle' = Idle
  BY IdleUnchanged
<1>1. PoolTypeOK'
  BY DEF PoolTypeOK, Poppers, Use, Live, NextOf, Tagged, Forget, MutexFree
<1>2. TasksFollow'
  BY <1>0 DEF TasksFollow, PoolTypeOK
<1>3. CallersFollow'
  BY <1>0 DEF CallersFollow, Working, Poppers, PoolTypeOK
<1>4. CallerKnows'
  BY <1>0 DEF CallerKnows, Working, TasksFollow, CallersFollow, Poppers, PoolTypeOK
<1>5. DoomedFollow'
  BY <1>0 DEF DoomedFollow, Working, PoppedBy, Poppers, PoolTypeOK
<1>6. Waiting'
  BY <1>0 DEF Waiting, Waits, PoppedBy, PoolTypeOK
<1>7. Linked'
  BY <1>0 DEF Linked, PoolTypeOK
<1>8. CopiesValid'
  BY <1>0 DEF CopiesValid, Poppers, PoolTypeOK
<1>9. Counted'
  BY CountedSame DEF PoolTypeOK
<1> QED
  BY <1>1, <1>2, <1>3, <1>4, <1>5, <1>6, <1>7, <1>8, <1>9

LEMMA JoinInv ==
    ASSUME PoolInv, Cancelers = Endless, NEW c \in Poppers, Join(c)
    PROVE  PoolInv'
<1> USE PoolAssumption DEF PoolInv, Join
<1>0. Idle' = Idle
  BY IdleUnchanged
<1>1. PoolTypeOK'
  BY DEF PoolTypeOK, Poppers, Use, Live, NextOf, Tagged, Forget, MutexFree
<1>2. TasksFollow'
  BY <1>0 DEF TasksFollow, PoolTypeOK
<1>3. CallersFollow'
  BY <1>0 DEF CallersFollow, Working, Poppers, PoolTypeOK
<1>4. CallerKnows'
  BY <1>0 DEF CallerKnows, Working, TasksFollow, CallersFollow, Poppers, PoolTypeOK
<1>5. DoomedFollow'
  <2>1. \A u \in PoolThread : Working(u) /\ doomed[u] /\ task[u] \in Endless => task[u] # c
    BY DEF CallerKnows, PoolTypeOK
  <2>2. /\ \A d \in Poppers : d # c => stage'[d] = stage[d]
        /\ \A d \in Poppers : stage'[d] = "popped" => stage[d] = "popped"
    BY DEF PoolTypeOK
  <2>3. \A u \in PoolThread : PoppedBy(u)' \subseteq PoppedBy(u)
    BY <2>2 DEF PoppedBy
  <2>4. \A u \in PoolThread : Working(u)' <=> Working(u)
    BY DEF Working
  <2> QED
    BY <1>0, <2>1, <2>2, <2>3, <2>4 DEF DoomedFollow, Poppers
<1>6. Waiting'
  BY <1>0 DEF Waiting, Waits, PoppedBy, PoolTypeOK
<1>7. Linked'
  BY <1>0 DEF Linked, PoolTypeOK
<1>8. CopiesValid'
  BY <1>0 DEF CopiesValid, Poppers, PoolTypeOK
<1>9. Counted'
  BY CountedSame DEF PoolTypeOK
<1> QED
  BY <1>1, <1>2, <1>3, <1>4, <1>5, <1>6, <1>7, <1>8, <1>9

LEMMA ShutdownPopsInv ==
    ASSUME PoolInv, Cancelers = Endless, ShutdownPops
    PROVE  PoolInv'
<1> USE PoolAssumption DEF PoolInv, ShutdownPops
<1>0. Idle' = Idle
  BY IdleUnchanged
<1>1. PoolTypeOK'
  BY DEF PoolTypeOK, Poppers, Use, Live, NextOf, Tagged, Forget, MutexFree
<1>2. TasksFollow'
  BY <1>0 DEF TasksFollow, PoolTypeOK
<1>3. CallersFollow'
  BY <1>0 DEF CallersFollow, Working, Poppers, PoolTypeOK
<1>4. CallerKnows'
  BY <1>0 DEF CallerKnows, Working, TasksFollow, CallersFollow, Poppers, PoolTypeOK
<1>5. DoomedFollow'
  BY <1>0 DEF DoomedFollow, Working, PoppedBy, Poppers, PoolTypeOK
<1>6. Waiting'
  BY <1>0 DEF Waiting, Waits, PoppedBy, PoolTypeOK
<1>7. Linked'
  BY <1>0 DEF Linked, PoolTypeOK
<1>8. CopiesValid'
  BY <1>0 DEF CopiesValid, Poppers, PoolTypeOK
<1>9. Counted'
  BY CountedSame DEF PoolTypeOK
<1> QED
  BY <1>1, <1>2, <1>3, <1>4, <1>5, <1>6, <1>7, <1>8, <1>9

LEMMA ShutdownRetriesInv ==
    ASSUME PoolInv, Cancelers = Endless, ShutdownRetries
    PROVE  PoolInv'
<1> USE PoolAssumption DEF PoolInv, ShutdownRetries
<1>0. Idle' = Idle
  BY IdleUnchanged
<1>1. PoolTypeOK'
  BY DEF PoolTypeOK, Poppers, Use, Live, NextOf, Tagged, Forget, MutexFree
<1>2. TasksFollow'
  BY <1>0 DEF TasksFollow, PoolTypeOK
<1>3. CallersFollow'
  BY <1>0 DEF CallersFollow, Working, Poppers, PoolTypeOK
<1>4. CallerKnows'
  BY <1>0 DEF CallerKnows, Working, TasksFollow, CallersFollow, Poppers, PoolTypeOK
<1>5. DoomedFollow'
  BY <1>0 DEF DoomedFollow, Working, PoppedBy, Poppers, PoolTypeOK
<1>6. Waiting'
  BY <1>0 DEF Waiting, Waits, PoppedBy, PoolTypeOK
<1>7. Linked'
  BY <1>0 DEF Linked, PoolTypeOK
<1>8. CopiesValid'
  BY <1>0 DEF CopiesValid, Poppers, PoolTypeOK
<1>9. Counted'
  BY CountedSame DEF PoolTypeOK
<1> QED
  BY <1>1, <1>2, <1>3, <1>4, <1>5, <1>6, <1>7, <1>8, <1>9

LEMMA ReturnInv ==
    ASSUME PoolInv, Cancelers = Endless, NEW t \in PoolThread, Return(t)
    PROVE  PoolInv'
<1> USE PoolAssumption DEF PoolInv, Return
<1>0. Idle' = Idle
  BY IdleUnchanged
<1>1. PoolTypeOK'
  BY DEF PoolTypeOK, Poppers, Use, Live, NextOf, Tagged, Forget, MutexFree
<1>2. TasksFollow'
  BY <1>0 DEF TasksFollow, PoolTypeOK
<1>3. CallersFollow'
  BY <1>0 DEF CallersFollow, Working, Poppers, PoolTypeOK
<1>4. CallerKnows'
  BY <1>0 DEF CallerKnows, Working, TasksFollow, CallersFollow, Poppers, PoolTypeOK
<1>5. DoomedFollow'
  BY <1>0 DEF DoomedFollow, Working, PoppedBy, Poppers, PoolTypeOK
<1>6. Waiting'
  BY <1>0 DEF Waiting, Waits, PoppedBy, PoolTypeOK
<1>7. Linked'
  BY <1>0 DEF Linked, PoolTypeOK
<1>8. CopiesValid'
  BY <1>0 DEF CopiesValid, Poppers, PoolTypeOK
<1>9. Counted'
  BY CountedSame DEF PoolTypeOK
<1> QED
  BY <1>1, <1>2, <1>3, <1>4, <1>5, <1>6, <1>7, <1>8, <1>9

LEMMA ReportInv ==
    ASSUME PoolInv, Cancelers = Endless, NEW t \in PoolThread, Report(t)
    PROVE  PoolInv'
<1> USE PoolAssumption DEF PoolInv, Report
<1>0. Idle' = Idle
  BY IdleUnchanged
<1>1. PoolTypeOK'
  BY DEF PoolTypeOK, Poppers, Use, Live, NextOf, Tagged, Forget, MutexFree
<1>2. TasksFollow'
  BY <1>0 DEF TasksFollow, PoolTypeOK
<1>3. CallersFollow'
  <2> DEFINE c == task[t]
  <2>1. Working(t) /\ c \in Caller
    BY DEF Working, TasksFollow
  <2>2. stage[c] \in {"created", "cancel", "join"} /\ th[c] = t
    BY <2>1 DEF CallerKnows, CallersFollow
  <2>3. stage[c] # "cancel"
    BY <2>1 DEF CallersFollow, DoomedFollow
  <2>4. th' = [th EXCEPT ![c] = "over"]
    OBVIOUS
  <2>5. \A u \in PoolThread : u # t => (Working(u)' <=> Working(u))
    BY DEF Working, PoolTypeOK
  <2> HIDE DEF Report
  <2>6. \A d \in Caller : d # c => th'[d] = th[d]
    BY <2>4 DEF PoolTypeOK
  <2>7. th'[c] = "over" /\ UNCHANGED <<stage, mine, task>>
    BY <2>1, <2>4 DEF PoolTypeOK, Report
  <2> HIDE DEF c
  <2> QED
    BY <2>1, <2>2, <2>3, <2>5, <2>6, <2>7 DEF CallersFollow, c
<1>4. CallerKnows'
  BY <1>0 DEF CallerKnows, Working, TasksFollow, CallersFollow, Poppers, PoolTypeOK
<1>5. DoomedFollow'
  BY <1>0 DEF DoomedFollow, Working, PoppedBy, Poppers, PoolTypeOK
<1>6. Waiting'
  BY <1>0 DEF Waiting, Waits, PoppedBy, PoolTypeOK
<1>7. Linked'
  BY <1>0 DEF Linked, PoolTypeOK
<1>8. CopiesValid'
  BY <1>0 DEF CopiesValid, Poppers, PoolTypeOK
<1>9. Counted'
  BY CountedSame DEF PoolTypeOK
<1> QED
  BY <1>1, <1>2, <1>3, <1>4, <1>5, <1>6, <1>7, <1>8, <1>9

LEMMA PushLoadInv ==
    ASSUME PoolInv, Cancelers = Endless, NEW t \in PoolThread, PushLoad(t)
    PROVE  PoolInv'
<1> USE PoolAssumption DEF PoolInv, PushLoad
<1>0. Idle' = Idle
  BY IdleUnchanged
<1>1. PoolTypeOK'
  BY DEF PoolTypeOK, Poppers, Use, Live, NextOf, Tagged, Forget, MutexFree
<1>2. TasksFollow'
  BY <1>0 DEF TasksFollow, PoolTypeOK
<1>3. CallersFollow'
  BY <1>0 DEF CallersFollow, Working, Poppers, PoolTypeOK
<1>4. CallerKnows'
  BY <1>0 DEF CallerKnows, Working, TasksFollow, CallersFollow, Poppers, PoolTypeOK
<1>5. DoomedFollow'
  BY <1>0 DEF DoomedFollow, Working, PoppedBy, Poppers, PoolTypeOK
<1>6. Waiting'
  BY <1>0 DEF Waiting, Waits, PoppedBy, PoolTypeOK
<1>7. Linked'
  BY <1>0 DEF Linked, PoolTypeOK
<1>8. CopiesValid'
  BY <1>0 DEF CopiesValid, Poppers, PoolTypeOK
<1>9. Counted'
  BY CountedSame DEF PoolTypeOK
<1> QED
  BY <1>1, <1>2, <1>3, <1>4, <1>5, <1>6, <1>7, <1>8, <1>9

LEMMA WakeInv ==
    ASSUME PoolInv, Cancelers = Endless, NEW t \in PoolThread, Wake(t)
    PROVE  PoolInv'
<1> USE PoolAssumption DEF PoolInv, Wake
<1>0. Idle' = Idle
  BY IdleUnchanged
<1>1. PoolTypeOK'
  BY DEF PoolTypeOK, Poppers, Use, Live, NextOf, Tagged, Forget, MutexFree
<1>2. TasksFollow'
  BY <1>0 DEF TasksFollow, PoolTypeOK
<1>3. CallersFollow'
  BY <1>0 DEF CallersFollow, Working, Poppers, PoolTypeOK
<1>4. CallerKnows'
  BY <1>0 DEF CallerKnows, Working, TasksFollow, CallersFollow, Poppers, PoolTypeOK
<1>5. DoomedFollow'
  BY <1>0 DEF DoomedFollow, Working, PoppedBy, Poppers, PoolTypeOK
<1>6. Waiting'
  BY <1>0 DEF Waiting, Waits, PoppedBy, PoolTypeOK
<1>7. Linked'
  BY <1>0 DEF Linked, PoolTypeOK
<1>8. CopiesValid'
  BY <1>0 DEF CopiesValid, Poppers, PoolTypeOK
<1>9. Counted'
  BY CountedSame DEF PoolTypeOK
<1> QED
  BY <1>1, <1>2, <1>3, <1>4, <1>5, <1>6, <1>7, <1>8, <1>9


-----------------------------------------------------------------------------
\* The actions that change the stack.
LEMMA TaggedType ==
    ASSUME PoolTypeOK, NEW t \in PoolThread \cup {None}, NEW x \in Poppers \cup PoolThread
    PROVE  Tagged(t, seen[x]) \in [top : PoolThread \cup {None}, tag : 0..(Tags - 1)]
<1>1. seen[x].tag \in Nat /\ Tags \in Nat \ {0}
  BY PoolAssumption DEF PoolTypeOK
<1>2. (seen[x].tag + 1) % Tags \in 0..(Tags - 1)
  BY <1>1
<1> QED
  BY <1>2 DEF Tagged

\* A caller takes the thread at the tip.
LEMMA PopSucceedsInv ==
    ASSUME PoolInv, NEW c \in Poppers, PopExchange(c), tip = seen[c], TipIsNew
    PROVE  /\ PoolInv'
           /\ seen[c].top \in Idle /\ Idle' = Idle \ {seen[c].top}
<1> USE PoolAssumption DEF PoolInv, PopExchange
<1>1. PICK h \in PoolThread : h = tip.top
  BY DEF CopiesValid
<1>2. /\ tip' = Tagged(next[h], seen[c]) /\ tip'.top = next[h]
      /\ mine' = [mine EXCEPT ![c] = h]
      /\ seen' = Forget(c)
      /\ stage' = [stage EXCEPT ![c] = "popped"]
  BY <1>1 DEF CopiesValid, Tagged
<1>3. h \in Idle
  BY <1>1, IdleClosed
<1>4. Idle' = Idle \ {h}
  <2>1. next \in Links /\ \A u \in From(h, next) : next[u] # h
    BY <1>1 DEF PoolTypeOK, Links, Linked, Idle
  <2>2. From(next[h], next) = From(h, next) \ {h}
    BY <2>1, FromPop
  <2> QED
    BY <1>1, <1>2, <2>2 DEF Idle
<1>5. /\ stage'[c] = "popped" /\ mine'[c] = h
      /\ \A d \in Poppers : d # c => stage'[d] = stage[d] /\ mine'[d] = mine[d]
                                     /\ seen'[d] = seen[d] /\ after'[d] = after[d]
  BY <1>2 DEF PoolTypeOK, Poppers, Forget
<1>6. UNCHANGED <<next, doing, started, task, doomed, active, th, res, tasks, fault>>
  OBVIOUS
<1>7. Waits(h) /\ PoppedBy(h) = {}
  BY <1>3 DEF Waiting, PoppedBy
<1>8. tip' # tip
  BY <1>1, <1>2, <1>3 DEF Linked
<1> HIDE DEF PopExchange
<1>11. PoolTypeOK'
  <2>1. tip' \in [top : PoolThread \cup {None}, tag : 0..(Tags - 1)]
    BY <1>2, TaggedType DEF PoolTypeOK
  <2>2. seen' \in [Poppers \cup PoolThread ->
                    [top : PoolThread \cup {None}, tag : 0..(Tags - 1)]]
    BY <1>2 DEF PoolTypeOK, Forget
  <2>3. after' \in [Poppers -> PoolThread \cup {None}]
    BY DEF PoolTypeOK, PopExchange
  <2> QED
    BY <1>2, <1>6, <2>1, <2>2, <2>3 DEF PoolTypeOK
<1>12. TasksFollow'
  BY <1>6 DEF TasksFollow
<1>13. CallersFollow'
  BY <1>5, <1>6 DEF CallersFollow, Working, Poppers, PopExchange
<1>9. ASSUME NEW u \in PoolThread, Working(u) PROVE task[u] \in Caller /\ task[u] # c
  <2>1. task[u] \in Caller
    BY <1>9 DEF Working, TasksFollow, PoolTypeOK
  <2>2. stage[task[u]] # "exchange" /\ stage[c] = "exchange"
    BY <1>9 DEF CallerKnows, PopExchange
  <2> QED
    BY <2>1, <2>2
<1>14. CallerKnows'
  BY <1>5, <1>6, <1>9 DEF CallerKnows, Working, Poppers
<1>15. DoomedFollow'
  <2>2. \A u \in PoolThread : u # h => PoppedBy(u)' \subseteq PoppedBy(u)
    BY <1>5 DEF PoppedBy
  <2>3. ~doomed[h]
    BY <1>7 DEF Waits
  <2> QED
    BY <1>4, <1>5, <1>6, <1>9, <2>2, <2>3 DEF DoomedFollow, Working, Poppers
<1>16. Waiting'
  <2>1. \A u \in PoolThread : u # h => PoppedBy(u)' = PoppedBy(u)
    BY <1>5, <1>7, PoolAssumption DEF PoppedBy, PopExchange
  <2>2. c \in PoppedBy(h)'
    BY <1>5 DEF PoppedBy
  <2>3. \A u \in PoolThread : Waits(u)' <=> Waits(u)
    BY <1>6 DEF Waits
  <2>4. \A d \in Poppers : stage[d] = "popped" => mine[d] # h
    BY <1>7 DEF PoppedBy
  <2> QED
    <3>1. \A u \in Idle' : Waits(u)'
      BY <1>4, <2>3, IdleClosed DEF Waiting
    <3>2. \A u \in PoolThread \ Idle' : Waits(u)' => PoppedBy(u)' # {}
      BY <1>4, <2>1, <2>2, <2>3 DEF Waiting
    <3>3. \A d \in Poppers :
             stage'[d] = "popped" => mine'[d] \in PoolThread \ Idle' /\ Waits(mine'[d])
      <4> TAKE d \in Poppers
      <4>1. CASE d = c
        BY <4>1, <1>4, <1>5, <1>7
      <4>2. CASE d # c
        BY <4>2, <1>4, <1>5 DEF Waiting
      <4> QED
        BY <4>1, <4>2
    <3>4. \A d, e \in Poppers :
             stage'[d] = "popped" /\ stage'[e] = "popped" /\ mine'[d] = mine'[e] => d = e
      BY <1>5, <2>4 DEF Waiting
    <3>5. \A d \in Poppers : Waits(mine[d])' <=> Waits(mine'[d])
      BY <1>6 DEF Waits
    <3> QED
      BY <3>1, <3>2, <3>3, <3>4, <3>5 DEF Waiting
<1>17. Linked'
  <2>1. ASSUME NEW u \in Idle' PROVE next[u] # next[h]
    <3>1. next[h] # None
      BY <2>1, <1>2, <1>11, IdleEmpty
    <3> QED
      BY <2>1, <3>1, <1>3, <1>4 DEF Linked
  <2> QED
    BY <2>1, <1>2, <1>4, <1>6 DEF Linked
<1>18. CopiesValid'
  <2>1. \A d \in Poppers : stage'[d] = "exchange" => d # c /\ tip' # seen[d]
    BY <1>5, <1>8 DEF TipIsNew
  <2> QED
    BY <1>5, <2>1 DEF CopiesValid
<1>19. Counted'
  BY <1>6 DEF Counted
<1> QED
  BY <1>1, <1>3, <1>4, <1>11, <1>12, <1>13, <1>14, <1>15, <1>16, <1>17, <1>18, <1>19

LEMMA PopFailsInv ==
    ASSUME PoolInv, NEW c \in Poppers, PopExchange(c), tip # seen[c]
    PROVE  PoolInv' /\ Idle' = Idle
<1> USE PoolAssumption DEF PoolInv, PopExchange
<1>0. Idle' = Idle
  BY IdleUnchanged
<1>1. PoolTypeOK'
  BY DEF PoolTypeOK, Poppers
<1>2. TasksFollow'
  BY DEF TasksFollow
<1>3. CallersFollow'
  BY DEF CallersFollow, Working, Poppers, PoolTypeOK
<1>4. CallerKnows'
  BY DEF CallerKnows, Working, TasksFollow, CallersFollow, Poppers, PoolTypeOK
<1>5. DoomedFollow'
  <2>1. \A u \in PoolThread : PoppedBy(u)' \subseteq PoppedBy(u)
    BY DEF PoppedBy, PoolTypeOK
  <2>2. \A d \in Caller : stage[d] = "join" => stage'[d] = "join"
    BY DEF PoolTypeOK, Poppers
  <2> QED
    BY <1>0, <2>1, <2>2, DoomedSame
<1>6. Waiting'
  <2>1. /\ \A d \in Poppers : stage'[d] = "popped" <=> stage[d] = "popped"
        /\ UNCHANGED <<doing, task, doomed, mine>>
    BY DEF PoolTypeOK
  <2> QED
    BY <1>0, <2>1 DEF Waiting, Waits, PoppedBy
<1>7. Linked'
  BY <1>0 DEF Linked
<1>8. CopiesValid'
  BY <1>0 DEF CopiesValid, Poppers, PoolTypeOK
<1>9. Counted'
  BY DEF Counted
<1> QED
  BY <1>0, <1>1, <1>2, <1>3, <1>4, <1>5, <1>6, <1>7, <1>8, <1>9

LEMMA SpawnInv ==
    ASSUME PoolInv, NEW c \in Poppers, NEW t \in PoolThread, Spawn(c, t)
    PROVE  PoolInv' /\ Idle' = Idle
<1> USE PoolAssumption DEF PoolInv, Spawn
<1>a. t \notin Idle /\ c \in Caller /\ c # Shutdown
  BY DEF Waiting, Waits
<1>1. PoolTypeOK'
  BY DEF PoolTypeOK, Poppers
<1>0. Idle' = Idle
  BY <1>a, <1>1, IdleSame, IdleClosed DEF PoolTypeOK
<1>b. \A u \in PoolThread : Working(u) => task[u] # c
  BY <1>a DEF CallerKnows
<1>2. TasksFollow'
  BY <1>a DEF TasksFollow, PoolTypeOK
<1>c. \A d \in Poppers : stage[d] = "popped" => mine[d] # t
  BY DEF Waiting, Waits
<1>d. ~Working(t)
  BY DEF Working
<1>3. CallersFollow'
  BY <1>a, <1>d DEF CallersFollow, Working, Poppers, PoolTypeOK
<1>4. CallerKnows'
  BY <1>a, <1>b DEF CallerKnows, Working, TasksFollow, Poppers, PoolTypeOK
<1>5. DoomedFollow'
  <2>1. doing'[t] = "new" /\ doomed'[t] = FALSE
    BY DEF PoolTypeOK
  <2>2. ASSUME NEW u \in PoolThread, u # t
        PROVE  /\ doing'[u] = doing[u] /\ task'[u] = task[u] /\ doomed'[u] = doomed[u]
               /\ Working(u)' <=> Working(u)
    BY <2>2 DEF PoolTypeOK, Working
  <2>3. \A d \in Poppers : d # c => stage'[d] = stage[d] /\ mine'[d] = mine[d]
    BY DEF PoolTypeOK
  <2>4. stage'[c] = "spawning"
    BY DEF PoolTypeOK
  <2>5. \A u \in PoolThread : PoppedBy(u)' \subseteq PoppedBy(u)
    BY <2>3, <2>4 DEF PoppedBy
  <2>6. ASSUME NEW u \in PoolThread, u # t, Working(u), task[u] \in Endless
        PROVE  stage'[task[u]] = stage[task[u]]
    BY <2>3, <2>6, <1>b DEF Poppers
  <2>7. ASSUME NEW u \in PoolThread, u # t
        PROVE  /\ Working(u)' /\ task'[u] \in Endless => doing'[u] # "returned"
               /\ doomed'[u] =>
                      \/ Working(u)' /\ task'[u] \in Endless /\ stage'[task'[u]] = "join"
                      \/ /\ doing'[u] = "wait" /\ task'[u] = None
                         /\ u \notin Idle' /\ PoppedBy(u)' = {}
    BY <1>0, <2>2, <2>5, <2>6, <2>7 DEF DoomedFollow
  <2> QED
    BY <2>1, <2>7 DEF DoomedFollow
<1>6. Waiting'
  BY <1>0, <1>a, <1>c DEF Waiting, Waits, PoppedBy, PoolTypeOK
<1>7. Linked'
  <2>1. Idle \subseteq PoolThread
    BY IdleClosed
  <2>2. \A u \in Idle : next'[u] = next[u]
    BY <1>a, <2>1 DEF PoolTypeOK
  <2>3. tip' = tip
    OBVIOUS
  <2> QED
    BY <1>0, <2>2, <2>3 DEF Linked
<1>8. CopiesValid'
  <2>1. tip.top # t
    BY <1>a, IdleClosed
  <2> QED
    BY <2>1 DEF CopiesValid, Poppers, PoolTypeOK
<1>9. Counted'
  BY CountedSame DEF PoolTypeOK
<1> QED
  BY <1>0, <1>1, <1>2, <1>3, <1>4, <1>5, <1>6, <1>7, <1>8, <1>9

LEMMA PushSucceedsInv ==
    ASSUME PoolInv, NEW t \in PoolThread, PushExchange(t), tip = seen[t], TipIsNew
    PROVE  PoolInv' /\ t \notin Idle /\ Idle' = Idle \cup {t}
<1> USE PoolAssumption DEF PoolInv, PushExchange
<1>1. t \notin Idle /\ ~Working(t) /\ task[t] = None
  BY DEF Waiting, Waits, Working, TasksFollow
<1>2. /\ tip' = Tagged(t, seen[t]) /\ tip'.top = t
      /\ next' = [next EXCEPT ![t] = tip.top]
      /\ seen' = Forget(t)
      /\ doing' = [doing EXCEPT ![t] = "wait"]
  BY DEF Tagged
<1>3. Idle' = Idle \cup {t}
  <2>1. tip.top \in PoolThread \cup {None} /\ next \in Links
    BY DEF PoolTypeOK, Links
  <2>2. From(t, [next EXCEPT ![t] = tip.top]) = From(tip.top, next) \cup {t}
    <3>1. t \in PoolThread \ From(tip.top, next)
      BY <1>1 DEF Idle
    <3> PICK f : f = tip.top
      OBVIOUS
    <3> HIDE DEF PoolInv, PushExchange
    <3>2. From(t, [next EXCEPT ![t] = f]) = From(f, next) \cup {t}
      BY <2>1, <3>1, FromPush
    <3> QED
      BY <3>2
  <2> QED
    BY <1>2, <2>2 DEF Idle
<1>4. UNCHANGED <<started, task, doomed, active, th, res, stage, after, mine, tasks, fault>>
  OBVIOUS
<1>5. /\ doing'[t] = "wait" /\ next'[t] = tip.top
      /\ \A u \in PoolThread : u # t => doing'[u] = doing[u] /\ next'[u] = next[u]
      /\ \A d \in Poppers : seen'[d] = seen[d]
  BY <1>2 DEF PoolTypeOK, Poppers, Forget
<1>6. tip' # tip
  BY <1>1, <1>2, IdleClosed
<1>7. ~doomed[t]
  BY <1>1 DEF DoomedFollow
<1>8. doing[t] = "pushing"
  OBVIOUS
<1>9. PoppedBy(t) = {}
  BY <1>8 DEF Waiting, Waits, PoppedBy
<1> HIDE DEF PushExchange
<1>11. PoolTypeOK'
  <2>1. tip' \in [top : PoolThread \cup {None}, tag : 0..(Tags - 1)]
    BY <1>2, TaggedType DEF PoolTypeOK
  <2>2. seen' \in [Poppers \cup PoolThread ->
                    [top : PoolThread \cup {None}, tag : 0..(Tags - 1)]]
    BY <1>2 DEF PoolTypeOK, Forget
  <2> QED
    BY <1>2, <1>4, <2>1, <2>2 DEF PoolTypeOK
<1>12. TasksFollow'
  BY <1>4, <1>5 DEF TasksFollow
<1>13. CallersFollow'
  BY <1>1, <1>4, <1>5 DEF CallersFollow, Working
<1>14. CallerKnows'
  BY <1>1, <1>4, <1>5 DEF CallerKnows, Working
<1>15. DoomedFollow'
  BY <1>1, <1>3, <1>4, <1>5, <1>7 DEF DoomedFollow, Working, PoppedBy
<1>16. Waiting'
  <2>1. \A u \in PoolThread : PoppedBy(u)' = PoppedBy(u)
    BY <1>4 DEF PoppedBy
  <2>2. \A u \in PoolThread : u # t => (Waits(u)' <=> Waits(u))
    BY <1>4, <1>5 DEF Waits
  <2>3. Waits(t)'
    BY <1>1, <1>4, <1>5, <1>7 DEF Waits
  <2>4. \A d \in Poppers : stage[d] = "popped" => mine[d] # t
    BY <1>9 DEF PoppedBy
  <2>5. ASSUME NEW u \in Idle' PROVE Waits(u)'
    BY <2>5, <1>3, <2>2, <2>3, IdleClosed DEF Waiting
  <2>6. ASSUME NEW u \in PoolThread \ Idle', Waits(u)' PROVE PoppedBy(u)' # {}
    BY <2>6, <1>3, <2>1, <2>2 DEF Waiting
  <2>7. ASSUME NEW d \in Poppers, stage[d] = "popped"
        PROVE  mine[d] \in PoolThread \ Idle' /\ Waits(mine[d])'
    <3>1. mine'[d] = mine[d]
      BY <1>4
    <3> QED
      BY <2>7, <3>1, <1>3, <2>2, <2>4 DEF Waiting, Waits
  <2> QED
    BY <1>4, <2>5, <2>6, <2>7 DEF Waiting
<1>17. Linked'
  <2>1. ASSUME NEW u \in Idle' PROVE next'[u] # t
    BY <2>1, <1>1, <1>3, <1>5, IdleClosed
  <2>2. ASSUME NEW u \in Idle, next[u] = tip.top PROVE FALSE
    BY <2>2 DEF Linked
  <2> QED
    BY <1>2, <1>3, <1>5, <2>1, <2>2, IdleClosed DEF Linked
<1>18. CopiesValid'
  <2>1. \A d \in Poppers : stage[d] = "exchange" => tip' # seen[d]
    BY <1>6 DEF TipIsNew
  <2> QED
    BY <1>4, <1>5, <2>1 DEF CopiesValid
<1>19. Counted'
  BY <1>4, <1>5, <1>8, CountedSame
<1> QED
  BY <1>1, <1>3, <1>11, <1>12, <1>13, <1>14, <1>15, <1>16, <1>17, <1>18, <1>19

LEMMA PushFailsInv ==
    ASSUME PoolInv, NEW t \in PoolThread, PushExchange(t), tip # seen[t]
    PROVE  PoolInv' /\ Idle' = Idle
<1> USE PoolAssumption DEF PoolInv, PushExchange
<1>a. t \notin Idle /\ \A u \in Idle : next'[u] = next[u]
  BY IdleClosed DEF Waiting, Waits, PoolTypeOK
<1>1. PoolTypeOK'
  <2>1. next' \in [PoolThread -> PoolThread \cup {None}]
    BY DEF PoolTypeOK
  <2>2. seen' \in [Poppers \cup PoolThread ->
                    [top : PoolThread \cup {None}, tag : 0..(Tags - 1)]]
    <3>1. seen' = [seen EXCEPT ![t] = tip]
      OBVIOUS
    <3> HIDE DEF PoolInv, PushExchange
    <3>2. PoolTypeOK
      BY DEF PoolInv
    <3> QED
      BY <3>1, <3>2 DEF PoolTypeOK
  <2> QED
    BY <2>1, <2>2 DEF PoolTypeOK
<1>0. Idle' = Idle
  BY <1>a, <1>1, IdleSame
<1>2. TasksFollow'
  BY DEF TasksFollow
<1>3. CallersFollow'
  BY DEF CallersFollow, Working
<1>4. CallerKnows'
  BY DEF CallerKnows, Working
<1>5. DoomedFollow'
  BY <1>0 DEF DoomedFollow, Working, PoppedBy
<1>6. Waiting'
  BY <1>0 DEF Waiting, Waits, PoppedBy
<1>7. Linked'
  BY <1>0, <1>a DEF Linked
<1>8. CopiesValid'
  <2>1. tip.top # None => next'[tip.top] = next[tip.top]
    BY <1>a, IdleClosed
  <2>2. \A d \in Poppers : seen'[d] = seen[d]
    BY DEF PoolTypeOK, Poppers
  <2> QED
    BY <2>1, <2>2 DEF CopiesValid, PoolTypeOK
<1>9. Counted'
  BY DEF Counted
<1> QED
  BY <1>0, <1>1, <1>2, <1>3, <1>4, <1>5, <1>6, <1>7, <1>8, <1>9

LEMMA BeginInv ==
    ASSUME PoolInv, NEW t \in PoolThread, Begin(t)
    PROVE  PoolInv' /\ Idle' = Idle
<1> USE PoolAssumption DEF PoolInv, Begin
<1> DEFINE A == {u \in PoolThread : doing[u] \notin {"none", "new"}}
<1>0. Idle' = Idle
  BY IdleUnchanged
<1>9. Counted' /\ active' \in 0..Cardinality(PoolThread)
  <2>1. A' = A \cup {t} /\ t \notin A /\ A \in SUBSET PoolThread /\ A' \in SUBSET PoolThread
    BY DEF PoolTypeOK
  <2>2. IsFiniteSet(A) /\ Cardinality(A) \in Nat
    BY <2>1, FS_Subset, FS_CardinalityType
  <2>3. Cardinality(A') = Cardinality(A) + 1
    BY <2>1, <2>2, FS_AddElement
  <2>4. Cardinality(A') <= Cardinality(PoolThread) /\ Cardinality(PoolThread) \in Nat
    BY <2>1, FS_Subset, FS_CardinalityType
  <2> QED
    BY <2>2, <2>3, <2>4 DEF Counted
<1>1. PoolTypeOK'
  BY <1>9 DEF PoolTypeOK
<1>2. TasksFollow'
  BY DEF TasksFollow, PoolTypeOK
<1>a. \A u \in PoolThread : Working(u)' <=> Working(u)
  BY DEF Working, PoolTypeOK
<1>3. CallersFollow'
  BY <1>a DEF CallersFollow, Working, PoolTypeOK
<1>4. CallerKnows'
  BY <1>a DEF CallerKnows
<1>5. DoomedFollow'
  BY <1>0 DEF DoomedFollow, Working, PoppedBy, PoolTypeOK
<1>6. Waiting'
  BY <1>0 DEF Waiting, Waits, PoppedBy, PoolTypeOK
<1>7. Linked'
  BY <1>0 DEF Linked
<1>8. CopiesValid'
  BY DEF CopiesValid
<1> QED
  BY <1>0, <1>1, <1>2, <1>3, <1>4, <1>5, <1>6, <1>7, <1>8, <1>9

LEMMA DieInv ==
    ASSUME PoolInv, Cancelers = Endless, NEW t \in PoolThread, Die(t)
    PROVE  PoolInv' /\ Idle' = Idle
<1> USE PoolAssumption DEF PoolInv, Die
<1> DEFINE A == {u \in PoolThread : doing[u] \notin {"none", "new"}}
<1>0. Idle' = Idle
  BY IdleUnchanged
<1>9. Counted' /\ active' \in 0..Cardinality(PoolThread)
  <2>1. A' = A \ {t} /\ t \in A /\ A \in SUBSET PoolThread /\ A' \in SUBSET PoolThread
    BY DEF PoolTypeOK
  <2>2. IsFiniteSet(A) /\ Cardinality(A) \in Nat
    BY <2>1, FS_Subset, FS_CardinalityType
  <2>3. Cardinality(A') = Cardinality(A) - 1
    <3>1. Cardinality(A \ {t}) = Cardinality(A) - 1
      BY <2>1, <2>2, FS_RemoveElement
    <3> QED
      BY <2>1, <3>1
  <2>4. /\ Cardinality(A') <= Cardinality(PoolThread) /\ Cardinality(PoolThread) \in Nat
        /\ Cardinality(A') \in Nat
    BY <2>1, FS_Subset, FS_CardinalityType
  <2> QED
    BY <2>2, <2>3, <2>4 DEF Counted
<1>1. PoolTypeOK'
  <2>1. doing' \in [PoolThread -> {"none", "new", "run", "returned", "push", "pushing",
                                   "wait"}]
    BY DEF PoolTypeOK
  <2>3. task' \in [PoolThread -> Caller \cup {None}] /\ doomed' \in [PoolThread -> BOOLEAN]
    BY DEF PoolTypeOK
  <2>2. /\ th' \in [Caller -> PoolThread \cup {"unset", "over"}]
        /\ res' \in [Caller -> PoolThread \cup {"none", "canceled"}]
    <3>1. CASE task[t] = None
      BY <3>1 DEF PoolTypeOK
    <3>2. CASE task[t] # None
      <4>1. /\ res' = [res EXCEPT ![task[t]] = "canceled"]
            /\ th' = [th EXCEPT ![task[t]] = "over"]
        BY <3>2
      <4> QED
        BY <4>1 DEF PoolTypeOK
    <3> QED
      BY <3>1, <3>2
  <2> QED
    BY <1>9, <2>1, <2>2, <2>3 DEF PoolTypeOK
<1>2. TasksFollow'
  BY DEF TasksFollow, PoolTypeOK
<1>a. ~Working(t)' /\ \A u \in PoolThread : u # t => (Working(u)' <=> Working(u))
  BY DEF Working, PoolTypeOK
<1>b. t \notin Idle /\ PoppedBy(t) = {}
  BY DEF DoomedFollow, Waiting, Waits, PoppedBy, Working
<1>c. task[t] # None => /\ Working(t) /\ task[t] \in Caller
                        /\ stage[task[t]] = "join" /\ th[task[t]] = t
  BY DEF DoomedFollow, Working, CallerKnows, PoolTypeOK
<1>3. CallersFollow'
  <2>1. \A c \in Caller : th'[c] = IF c = task[t] THEN "over" ELSE th[c]
    BY <1>c DEF PoolTypeOK
  <2>2. UNCHANGED <<stage, mine>> /\ \A u \in PoolThread : u # t => task'[u] = task[u]
    BY DEF PoolTypeOK
  <2> HIDE DEF Die
  <2>3. ASSUME NEW c \in Caller, stage[c] \in {"spawning", "publish"} PROVE mine[c] # t
    BY <2>3, <1>c DEF CallersFollow
  <2>4. ASSUME NEW c \in Caller, c # task[t], stage[c] \in {"created", "cancel", "join"}
        PROVE  th[c] # t
    BY <2>4 DEF CallersFollow
  <2>5. task[t] \in Caller => stage[task[t]] = "join"
    BY <1>c
  <2> QED
    BY <1>a, <2>1, <2>2, <2>3, <2>4, <2>5 DEF CallersFollow
<1>4. CallerKnows'
  <2>1. ASSUME NEW u \in PoolThread, u # t, Working(u) PROVE task[u] # task[t]
    BY <2>1, <1>c DEF CallerKnows, Working, TasksFollow
  <2>2. \A u \in PoolThread : u # t => task'[u] = task[u]
    BY DEF PoolTypeOK
  <2>3. \A c \in Caller : c # task[t] => th'[c] = th[c]
    BY DEF PoolTypeOK
  <2>4. \A u \in PoolThread : Working(u) => task[u] \in Caller
    BY DEF Working, TasksFollow, PoolTypeOK
  <2> QED
    BY <1>a, <2>1, <2>2, <2>3, <2>4 DEF CallerKnows
<1>5. DoomedFollow'
  <2>1. ~doomed'[t] /\ \A u \in PoolThread : u # t => /\ doomed'[u] = doomed[u]
                                                     /\ task'[u] = task[u]
                                                     /\ doing'[u] = doing[u]
    BY DEF PoolTypeOK
  <2> QED
    BY <1>0, <1>a, <2>1 DEF DoomedFollow, PoppedBy
<1>6. Waiting'
  BY <1>0, <1>b DEF Waiting, Waits, PoppedBy, PoolTypeOK
<1>7. Linked'
  BY <1>0 DEF Linked
<1>8. CopiesValid'
  BY DEF CopiesValid
<1> QED
  BY <1>0, <1>1, <1>2, <1>3, <1>4, <1>5, <1>6, <1>7, <1>8, <1>9

-----------------------------------------------------------------------------
LEMMA InitPoolInv == PoolInit => PoolInv
<1> SUFFICES ASSUME PoolInit PROVE PoolInv
  OBVIOUS
<1> USE PoolAssumption
<1>1. Idle = {}
  BY IdleEmpty DEF PoolInit
<1>2. Counted
  <2>1. {t \in PoolThread : doing[t] \notin {"none", "new"}} = {}
    BY DEF PoolInit
  <2> QED
    BY <2>1, FS_EmptySet DEF Counted, PoolInit
<1>3. PoolTypeOK
  <2>1. Cardinality(PoolThread) \in Nat
    BY FS_CardinalityType
  <2>2. tip \in [top : PoolThread \cup {None}, tag : 0..(Tags - 1)]
    BY DEF PoolInit
  <2>3. seen \in [Poppers \cup PoolThread ->
                   [top : PoolThread \cup {None}, tag : 0..(Tags - 1)]]
    BY <2>2 DEF PoolInit
  <2>4. active \in 0..Cardinality(PoolThread) /\ tasks \in 0..MaxTasks
    BY <2>1 DEF PoolInit
  <2> QED
    BY <2>2, <2>3, <2>4 DEF PoolInit, PoolTypeOK
<1>4. TasksFollow /\ CallersFollow /\ CallerKnows /\ DoomedFollow
  BY DEF PoolInit, TasksFollow, CallersFollow, CallerKnows, DoomedFollow, Working,
         Poppers
<1>5. Waiting /\ Linked /\ CopiesValid
  BY <1>1 DEF PoolInit, Waiting, Waits, Linked, CopiesValid, Poppers
<1> QED
  BY <1>2, <1>3, <1>4, <1>5 DEF PoolInv

\* What a step does to the set of idle threads: a caller takes one of them, a
\* thread joins them, or nothing, whatever other callers and threads do meanwhile.
SetStep ==
    \/ UNCHANGED Idle
    \/ \E c \in Poppers :
           /\ stage[c] = "exchange" /\ stage'[c] = "popped"
           /\ mine'[c] \in Idle /\ Idle' = Idle \ {mine'[c]}
    \/ \E t \in PoolThread \ Idle :
           /\ doing[t] = "pushing" /\ doing'[t] = "wait"
           /\ Idle' = Idle \cup {t}

LEMMA PopSetStep ==
    ASSUME PoolInv, NEW c \in Poppers, PopExchange(c), TipIsNew
    PROVE  PoolInv' /\ SetStep
<1>1. CASE tip = seen[c]
  <2>1. PoolInv' /\ seen[c].top \in Idle /\ Idle' = Idle \ {seen[c].top}
    BY <1>1, PopSucceedsInv
  <2>2. stage[c] = "exchange" /\ stage'[c] = "popped" /\ mine'[c] = seen[c].top
    BY <1>1 DEF PopExchange, PoolInv, PoolTypeOK
  <2> QED
    BY <2>1, <2>2 DEF SetStep
<1>2. CASE tip # seen[c]
  BY <1>2, PopFailsInv DEF SetStep
<1> QED
  BY <1>1, <1>2

LEMMA PushSetStep ==
    ASSUME PoolInv, NEW t \in PoolThread, PushExchange(t), TipIsNew
    PROVE  PoolInv' /\ SetStep
<1>1. CASE tip = seen[t]
  <2>1. PoolInv' /\ t \notin Idle /\ Idle' = Idle \cup {t}
    BY <1>1, PushSucceedsInv
  <2>2. doing[t] = "pushing" /\ doing'[t] = "wait"
    BY <1>1 DEF PushExchange, PoolInv, PoolTypeOK
  <2> QED
    BY <2>1, <2>2 DEF SetStep
<1>2. CASE tip # seen[t]
  BY <1>2, PushFailsInv DEF SetStep
<1> QED
  BY <1>1, <1>2

LEMMA NextPoolInv ==
    ASSUME Cancelers = Endless, PoolInv, [PoolNext]_poolVars, TipIsNew
    PROVE  PoolInv' /\ SetStep
<1>1. ASSUME NEW c \in Caller, Create(c) \/ SpawnFails(c) PROVE PoolInv' /\ SetStep
  <2>1. PoolInv'
    BY <1>1, CreateInv, SpawnFailsInv
  <2>2. Idle' = Idle
    BY <1>1, IdleUnchanged DEF Create, SpawnFails
  <2> QED
    BY <2>1, <2>2 DEF SetStep
<1>2. ASSUME NEW c \in Poppers, CallerStep(c) PROVE PoolInv' /\ SetStep
  <2>1. CASE PopExchange(c)
    BY <2>1, PopSetStep
  <2>2. CASE \E t \in PoolThread : Spawn(c, t)
    BY <2>2, SpawnInv DEF SetStep
  <2>3. CASE \/ PopRead(c) \/ Assign(c) \/ Spawned(c) \/ Publish(c) \/ CancelLoad(c)
             \/ CancelThread(c) \/ JoinBegins(c) \/ Join(c)
    <3>1. PoolInv'
      BY <2>3, PopReadInv, AssignInv, SpawnedInv, PublishInv, CancelLoadInv,
         CancelThreadInv, JoinBeginsInv, JoinInv
    <3>2. UNCHANGED <<tip, next>>
      BY <2>3 DEF PopRead, Assign, Spawned, Publish, CancelLoad, CancelThread,
                  JoinBegins, Join
    <3> QED
      BY <3>1, <3>2, IdleUnchanged DEF SetStep
  <2> QED
    BY <1>2, <2>1, <2>2, <2>3 DEF CallerStep
<1>3. ASSUME ShutdownPops \/ ShutdownRetries PROVE PoolInv' /\ SetStep
  <2>1. PoolInv'
    BY <1>3, ShutdownPopsInv, ShutdownRetriesInv
  <2>2. Idle' = Idle
    BY <1>3, IdleUnchanged DEF ShutdownPops, ShutdownRetries
  <2> QED
    BY <2>1, <2>2 DEF SetStep
<1>4. ASSUME NEW t \in PoolThread, ThreadStep(t) PROVE PoolInv' /\ SetStep
  <2>1. CASE PushExchange(t)
    BY <2>1, PushSetStep
  <2>2. CASE Begin(t) \/ Die(t)
    BY <2>2, BeginInv, DieInv DEF SetStep
  <2>3. CASE Return(t) \/ Report(t) \/ PushLoad(t) \/ Wake(t)
    <3>1. PoolInv'
      BY <2>3, ReturnInv, ReportInv, PushLoadInv, WakeInv
    <3>2. UNCHANGED <<tip, next>>
      BY <2>3 DEF Return, Report, PushLoad, Wake
    <3> QED
      BY <3>1, <3>2, IdleUnchanged DEF SetStep
  <2> QED
    BY <1>4, <2>1, <2>2, <2>3 DEF ThreadStep
<1>5. CASE UNCHANGED poolVars
  <2>1. Idle' = Idle
    BY <1>5, IdleUnchanged DEF poolVars
  <2>2. PoolTypeOK' /\ TasksFollow' /\ CallersFollow' /\ CallerKnows' /\ Counted'
    BY <1>5 DEF PoolInv, poolVars, PoolTypeOK, TasksFollow, CallersFollow, CallerKnows,
                Counted, Working
  <2>3. DoomedFollow' /\ Waiting' /\ Linked' /\ CopiesValid'
    BY <1>5, <2>1 DEF PoolInv, poolVars, DoomedFollow, Waiting, Waits, PoppedBy, Linked,
                      CopiesValid, Working
  <2> QED
    BY <2>1, <2>2, <2>3 DEF PoolInv, SetStep
<1> QED
  BY <1>1, <1>2, <1>3, <1>4, <1>5 DEF PoolNext, Done, WaitAgain

LEMMA InvIsExact == PoolInv => StackExact
<1> SUFFICES ASSUME PoolInv PROVE StackExact
  OBVIOUS
<1>1. ASSUME NEW t \in PoolThread, t \in Idle PROVE Waits(t) /\ PoppedBy(t) = {}
  BY <1>1 DEF PoolInv, Waiting, PoppedBy
<1>2. ASSUME NEW t \in PoolThread, Waits(t), t \notin Idle
      PROVE  Cardinality(PoppedBy(t)) = 1
  <2>1. PICK c \in Poppers : c \in PoppedBy(t)
    BY <1>2 DEF PoolInv, Waiting, PoppedBy
  <2>2. PoppedBy(t) = {c}
    BY <2>1 DEF PoolInv, Waiting, PoppedBy
  <2> QED
    BY <2>2, FS_Singleton
<1> QED
  BY <1>1, <1>2 DEF StackExact, PoolInv

LEMMA InvWhileNew ==
    ASSUME Cancelers = Endless
    PROVE  PoolSpec /\ [][TipIsNew]_poolVars => []PoolInv
<1>1. PoolInv /\ [PoolNext]_poolVars /\ [TipIsNew]_poolVars => PoolInv'
  <2>1. UNCHANGED poolVars => TipIsNew
    BY DEF poolVars, TipIsNew
  <2> QED
    BY <2>1, NextPoolInv
<1> QED
  BY <1>1, InitPoolInv, PTL DEF PoolSpec

\* The stack loses no thread and gives none to two callers, if no exchange of g_idle
\* brings back a value that a caller is about to compare it with.  The callers that
\* cancel are those whose tasks do not end by themselves: a cancelation that meets
\* the end of its task kills the thread in the stack (NoUseAfterFree).
THEOREM StackIsExact ==
    ASSUME Cancelers = Endless
    PROVE  PoolSpec /\ [][TipIsNew]_poolVars => []StackExact
BY InvWhileNew, InvIsExact, PTL

\* idle_push and idle_pop are atomic operations of a set, and take effect with their
\* exchange.
THEOREM StackIsASet ==
    ASSUME Cancelers = Endless
    PROVE  PoolSpec /\ [][TipIsNew]_poolVars => [][SetStep]_poolVars
<1>1. PoolInv /\ [PoolNext]_poolVars /\ [TipIsNew]_poolVars => [SetStep]_poolVars
  BY NextPoolInv
<1> QED
  BY <1>1, InvWhileNew, PTL DEF PoolSpec

-----------------------------------------------------------------------------
\* The task pool: no thread is used after it was deleted.

LEMMA IdleClosedNext ==
    ASSUME PoolTypeOK'
    PROVE  tip'.top \in Idle' \cup {None}
<1>1. tip'.top \in PoolThread \cup {None} /\ next' \in Links
  BY DEF PoolTypeOK, Links
<1> QED
  BY <1>1, FromClosed DEF Idle

\* Where a copy of g_idle comes from, for a caller in idle_pop.
LEMMA CopyStep ==
    ASSUME PoolTypeOK, [PoolNext]_poolVars,
           NEW c \in Poppers, stage'[c] \in {"pop", "exchange"}
    PROVE  \/ stage'[c] = "pop" /\ seen'[c] = tip'
           \/ stage[c] \in {"pop", "exchange"} /\ seen'[c] = seen[c]
<1> USE PoolAssumption
<1>0. /\ stage \in [Poppers -> {"idle", "pop", "exchange", "popped", "spawning", "publish",
                                "created", "cancel", "join", "done"}]
      /\ DOMAIN seen = Poppers \cup PoolThread
      /\ Caller \subseteq Poppers /\ Shutdown \in Poppers
  BY DEF PoolTypeOK, Poppers
<1>1. ASSUME NEW d \in Caller, Create(d) \/ SpawnFails(d)
      PROVE  \/ stage'[c] = "pop" /\ seen'[c] = tip'
             \/ stage[c] \in {"pop", "exchange"} /\ seen'[c] = seen[c]
  BY <1>0, <1>1 DEF Create, SpawnFails
<1>2. ASSUME NEW d \in Poppers, CallerStep(d)
      PROVE  \/ stage'[c] = "pop" /\ seen'[c] = tip'
             \/ stage[c] \in {"pop", "exchange"} /\ seen'[c] = seen[c]
  <2>1. CASE PopExchange(d)
    BY <1>0, <2>1 DEF PopExchange, Forget
  <2>2. CASE CancelThread(d)
    BY <1>0, <2>2 DEF CancelThread
  <2>3. CASE PopRead(d) \/ Assign(d) \/ \E t \in PoolThread : Spawn(d, t)
    BY <1>0, <2>3 DEF PopRead, Assign, Spawn
  <2>4. CASE Spawned(d) \/ Publish(d) \/ CancelLoad(d) \/ JoinBegins(d) \/ Join(d)
    BY <1>0, <2>4 DEF Spawned, Publish, CancelLoad, JoinBegins, Join
  <2> QED
    BY <1>2, <2>1, <2>2, <2>3, <2>4 DEF CallerStep
<1>3. CASE ShutdownPops \/ ShutdownRetries
  BY <1>0, <1>3 DEF ShutdownPops, ShutdownRetries
<1>4. ASSUME NEW t \in PoolThread, ThreadStep(t)
      PROVE  stage[c] \in {"pop", "exchange"} /\ seen'[c] = seen[c]
  <2>1. t # c
    BY DEF Poppers
  <2> QED
    BY <1>0, <1>4, <2>1 DEF ThreadStep, Begin, Return, Report, PushLoad, PushExchange,
                            Wake, Die, Forget
<1>5. CASE UNCHANGED poolVars
  BY <1>5 DEF poolVars
<1> QED
  BY <1>1, <1>2, <1>3, <1>4, <1>5 DEF PoolNext, Done, WaitAgain

\* Who does what to a thread: only it ends itself, and only a cancelation dooms it.
LEMMA ThreadKept ==
    ASSUME PoolTypeOK, [PoolNext]_poolVars, NEW t \in PoolThread
    PROVE  /\ Live(t) /\ ~Die(t) => Live(t)'
           /\ (\A c \in Poppers : ~CancelThread(c)) /\ ~doomed[t] => ~doomed'[t]
<1> DEFINE Kept == /\ Live(t) /\ ~Die(t) => Live(t)'
                   /\ (\A c \in Poppers : ~CancelThread(c)) /\ ~doomed[t] => ~doomed'[t]
<1>0. doing \in [PoolThread -> {"none", "new", "run", "returned", "push", "pushing", "wait"}]
      /\ doomed \in [PoolThread -> BOOLEAN]
  BY DEF PoolTypeOK
<1>1. ASSUME NEW d \in Poppers, CallerStep(d) PROVE Kept
  <2>1. CASE \E u \in PoolThread : Spawn(d, u)
    BY <1>0, <2>1 DEF Spawn, Live
  <2>2. CASE CancelThread(d)
    BY <2>2 DEF CancelThread, Live
  <2>3. CASE \/ PopRead(d) \/ PopExchange(d) \/ Assign(d) \/ Spawned(d) \/ Publish(d)
             \/ CancelLoad(d) \/ JoinBegins(d) \/ Join(d)
    BY <2>3 DEF PopRead, PopExchange, Assign, Spawned, Publish, CancelLoad, JoinBegins,
                Join, Live
  <2> QED
    BY <1>1, <2>1, <2>2, <2>3 DEF CallerStep
<1>2. ASSUME NEW u \in PoolThread, ThreadStep(u) PROVE Kept
  BY <1>0, <1>2 DEF ThreadStep, Begin, Return, Report, PushLoad, PushExchange, Wake,
                    Die, Live
<1>3. ASSUME UNCHANGED <<doing, doomed>> PROVE Kept
  BY <1>3 DEF Live
<1> QED
  BY <1>1, <1>2, <1>3 DEF PoolNext, Create, SpawnFails, ShutdownPops, ShutdownRetries,
                          Done, WaitAgain, poolVars

\* As long as no task is cancelled, threads end only in llamafile_task_shutdown,
\* which begins when no caller is left, and takes them out of the stack before.
NobodyDies ==
    stage[Shutdown] = "idle" =>
        /\ \A t \in PoolThread : ~doomed[t]
        /\ \A c \in Caller :
               stage[c] \in {"pop", "exchange"} /\ seen[c].top # None => Live(seen[c].top)

ShutdownAlone ==
    stage[Shutdown] # "idle" =>
        /\ tasks = MaxTasks
        /\ \A c \in Caller : stage[c] = "idle"
        /\ stage[Shutdown] \in {"pop", "exchange"} => seen[Shutdown].top \in Idle \cup {None}

SafeInv == NoUseAfterFree /\ NobodyDies /\ ShutdownAlone

LEMMA NextSafe ==
    ASSUME Cancelers = {}, PoolInv, PoolInv', SafeInv, SetStep, [PoolNext]_poolVars
    PROVE  SafeInv'
<1> USE PoolAssumption
<1>1. \A t \in Idle : Live(t)
  BY DEF PoolInv, Waiting, Waits, Live
<1>2. tip.top \in Idle \cup {None} /\ Idle \subseteq PoolThread
  BY IdleClosed DEF PoolInv
<1>3. NoUseAfterFree'
  <2>1. ASSUME NEW c \in Poppers, PopRead(c) PROVE Live(seen[c].top)
    BY <2>1, <1>1 DEF PopRead, SafeInv, NobodyDies, ShutdownAlone, Poppers
  <2>2. ASSUME NEW c \in Poppers, Assign(c) PROVE Live(mine[c])
    BY <2>2 DEF Assign, PoolInv, Waiting, Waits, Live
  <2>3. ASSUME NEW c \in Poppers, Publish(c) PROVE Live(mine[c])
    BY <2>3 DEF Publish, PoolInv, CallersFollow, Working, Live, Poppers
  <2>4. ASSUME NEW c \in Poppers, CancelThread(c) PROVE Live(mine[c])
    BY <2>4 DEF CancelThread, PoolInv, CallersFollow, Waiting, Waits, Live
  <2>5. ~fault
    BY DEF SafeInv, NoUseAfterFree
  <2>6. ASSUME NEW c \in Poppers, CallerStep(c) PROVE ~fault'
    BY <2>1, <2>2, <2>3, <2>4, <2>5, <2>6 DEF CallerStep, PopRead, PopExchange, Assign,
                                              Spawn, Spawned, Publish, CancelLoad,
                                              CancelThread, JoinBegins, Join, Use
  <2>7. ASSUME NEW t \in PoolThread, ThreadStep(t) \/ WaitAgain(t) PROVE ~fault'
    BY <2>5, <2>7 DEF ThreadStep, Begin, Return, Report, PushLoad, PushExchange, Wake,
                      Die, WaitAgain, poolVars
  <2>8. ASSUME \/ \E c \in Caller : Create(c) \/ SpawnFails(c)
               \/ ShutdownPops \/ ShutdownRetries \/ Done \/ UNCHANGED poolVars
        PROVE  ~fault'
    BY <2>5, <2>8 DEF Create, SpawnFails, ShutdownPops, ShutdownRetries, Done, poolVars
  <2> QED
    BY <2>6, <2>7, <2>8 DEF PoolNext, NoUseAfterFree
<1>4. \A c \in Caller : stage[c] # "cancel"
  BY DEF PoolInv, CallersFollow
<1>5. ASSUME NEW c \in Poppers, stage'[c] \in {"pop", "exchange"}
      PROVE  \/ stage'[c] = "pop" /\ seen'[c] = tip'
             \/ stage[c] \in {"pop", "exchange"} /\ seen'[c] = seen[c]
  BY <1>5, CopyStep DEF PoolInv
<1>6. tip'.top \in Idle' \cup {None} /\ \A t \in Idle' : t \in PoolThread /\ Live(t)'
  BY IdleClosedNext DEF PoolInv, Waiting, Waits, Live, Idle, From
<1>7. CASE stage[Shutdown] = "idle"
  <2>1. CASE ShutdownPops
    <3>1. /\ stage'[Shutdown] # "idle" /\ seen'[Shutdown] = tip /\ UNCHANGED <<tip, tasks>>
          /\ tasks = MaxTasks
          /\ \A c \in Caller : stage'[c] = "idle"
      BY <2>1 DEF ShutdownPops, PoolInv, PoolTypeOK, Poppers
    <3> QED
      BY <3>1, <1>3, <1>6 DEF SafeInv, NobodyDies, ShutdownAlone
  <2>2. CASE ~ShutdownPops
    <3>1. stage'[Shutdown] = "idle"
      <4>0. DOMAIN stage = Poppers /\ Shutdown \in Poppers
        BY DEF PoolInv, PoolTypeOK, Poppers
      <4>1. ASSUME NEW c \in Caller, Create(c) \/ SpawnFails(c) PROVE UNCHANGED stage[Shutdown]
        BY <4>0, <4>1 DEF Create, SpawnFails
      <4>2. ASSUME NEW c \in Poppers, CallerStep(c) PROVE UNCHANGED stage[Shutdown]
        <5>1. c # Shutdown
          BY <1>7, <4>2 DEF CallerStep, PopRead, PopExchange, Assign, Spawn, Spawned,
                            Publish, CancelLoad, CancelThread, JoinBegins, Join
        <5> QED
          BY <4>0, <4>2, <5>1 DEF CallerStep, PopRead, PopExchange, Assign, Spawn, Spawned,
                                  Publish, CancelLoad, CancelThread, JoinBegins, Join
      <4>3. ASSUME NEW t \in PoolThread, ThreadStep(t) PROVE UNCHANGED stage[Shutdown]
        BY <4>3 DEF ThreadStep, Begin, Return, Report, PushLoad, PushExchange, Wake, Die
      <4>4. ~ShutdownRetries
        BY <1>7 DEF ShutdownRetries
      <4> QED
        BY <1>7, <2>2, <4>1, <4>2, <4>3, <4>4 DEF PoolNext, Done, WaitAgain, poolVars
    <3>2. \A c \in Poppers : ~CancelThread(c)
      BY <1>4, <1>7 DEF CancelThread
    <3>3. \A t \in PoolThread : ~Die(t) /\ ~doomed[t]
      BY <1>7 DEF Die, SafeInv, NobodyDies
    <3>4. \A t \in PoolThread : ~doomed'[t] /\ (Live(t) => Live(t)')
      BY <3>2, <3>3, ThreadKept DEF PoolInv
    <3>5. ASSUME NEW c \in Caller, stage'[c] \in {"pop", "exchange"}, seen'[c].top # None
          PROVE  doing'[seen'[c].top] # "none"
      <4>1. c \in Poppers
        BY DEF Poppers
      <4>2. CASE seen'[c] = tip'
        BY <4>2, <3>5, <1>6 DEF Live
      <4>3. CASE stage[c] \in {"pop", "exchange"} /\ seen'[c] = seen[c]
        <5>1. Live(seen[c].top) /\ seen[c].top \in PoolThread
          BY <4>1, <4>3, <3>5, <1>7 DEF SafeInv, NobodyDies, PoolInv, PoolTypeOK
        <5>2. PICK t \in PoolThread : t = seen[c].top
          BY <5>1
        <5>3. Live(t)'
          BY <5>1, <5>2, <3>4
        <5> QED
          BY <4>3, <5>2, <5>3 DEF Live
      <4> QED
        BY <4>1, <4>2, <4>3, <3>5, <1>5
    <3> QED
      BY <1>3, <3>1, <3>4, <3>5 DEF SafeInv, NobodyDies, ShutdownAlone, Live
  <2> QED
    BY <2>1, <2>2
<1>8. CASE stage[Shutdown] # "idle"
  <2>1. tasks = MaxTasks /\ \A c \in Caller : stage[c] = "idle"
    BY <1>8 DEF SafeInv, ShutdownAlone
  <2>2. /\ stage'[Shutdown] # "idle"
        /\ tasks' = tasks /\ \A c \in Caller : stage'[c] = stage[c]
    <3>0. /\ stage \in [Poppers -> {"idle", "pop", "exchange", "popped", "spawning",
                                    "publish", "created", "cancel", "join", "done"}]
          /\ stage[Shutdown] \notin {"spawning", "publish", "created", "cancel", "join"}
          /\ Caller \subseteq Poppers /\ Shutdown \in Poppers
      BY DEF PoolInv, PoolTypeOK, CallersFollow, Poppers
    <3>1. ASSUME NEW c \in Caller, Create(c) \/ SpawnFails(c) PROVE FALSE
      BY <2>1, <3>1 DEF Create, SpawnFails
    <3>2. ASSUME NEW c \in Caller, CallerStep(c) PROVE FALSE
      BY <2>1, <3>2 DEF CallerStep, PopRead, PopExchange, Assign, Spawn, Spawned,
                        Publish, CancelLoad, CancelThread, JoinBegins, Join
    <3>3. CASE CallerStep(Shutdown)
      BY <1>8, <3>0, <3>3 DEF CallerStep, PopRead, PopExchange, Assign, Spawn, Spawned,
                              Publish, CancelLoad, CancelThread, JoinBegins, Join
    <3>4. CASE ShutdownPops \/ ShutdownRetries
      BY <1>8, <3>0, <3>4 DEF ShutdownPops, ShutdownRetries
    <3>5. ASSUME NEW t \in PoolThread, ThreadStep(t) PROVE UNCHANGED <<stage, tasks>>
      BY <3>5 DEF ThreadStep, Begin, Return, Report, PushLoad, PushExchange, Wake, Die
    <3>6. CASE UNCHANGED poolVars
      BY <3>6, <1>8 DEF poolVars
    <3> QED
      BY <1>8, <3>1, <3>2, <3>3, <3>4, <3>5, <3>6 DEF PoolNext, Done, WaitAgain, Poppers
  <2>3. ASSUME stage'[Shutdown] \in {"pop", "exchange"}
        PROVE  seen'[Shutdown].top \in Idle' \cup {None}
    <3>1. Shutdown \in Poppers
      BY DEF Poppers
    <3>2. CASE seen'[Shutdown] = tip'
      BY <3>2, <1>6
    <3>3. CASE stage[Shutdown] \in {"pop", "exchange"} /\ seen'[Shutdown] = seen[Shutdown]
      <4>1. seen[Shutdown].top \in Idle \cup {None}
        BY <3>3, <1>8 DEF SafeInv, ShutdownAlone
      <4>2. Idle \subseteq Idle'
        BY <2>1, <2>3 DEF SetStep, Poppers
      <4> QED
        BY <3>3, <4>1, <4>2
    <3> QED
      BY <3>1, <3>2, <3>3, <2>3, <1>5
  <2> QED
    BY <1>3, <2>1, <2>2, <2>3 DEF SafeInv, NobodyDies, ShutdownAlone
<1> QED
  BY <1>7, <1>8

\* llamafile_task_shutdown deletes threads, and still nobody uses one that is deleted,
\* if no task was ever cancelled: only a cancelation can leave one in the stack.
THEOREM SafeWithoutCancel ==
    ASSUME Cancelers = {}
    PROVE  PoolSpec /\ [][TipIsNew]_poolVars => []NoUseAfterFree
<1>0. Cancelers = Endless
  BY PoolAssumption
<1>1. PoolInit => SafeInv
  BY PoolAssumption DEF PoolInit, SafeInv, NoUseAfterFree, NobodyDies, ShutdownAlone,
                        Poppers
<1>2. PoolInv /\ PoolInv' /\ SafeInv /\ [PoolNext]_poolVars /\ [SetStep]_poolVars => SafeInv'
  <2>1. UNCHANGED poolVars => SetStep
    BY IdleUnchanged DEF poolVars, SetStep
  <2> QED
    BY <2>1, NextSafe
<1>3. PoolSpec /\ [][TipIsNew]_poolVars => []PoolInv /\ [][SetStep]_poolVars
  BY <1>0, InvWhileNew, StackIsASet, PTL
<1>4. SafeInv => NoUseAfterFree
  BY DEF SafeInv
<1> QED
  BY <1>1, <1>2, <1>3, <1>4, PTL DEF PoolSpec

-----------------------------------------------------------------------------
\* The task pool: what makes the tips new.

\* An exchange takes the next tag.
LEMMA TipStep ==
    ASSUME PoolTypeOK, [PoolNext]_poolVars, tip' # tip
    PROVE  /\ tip'.tag = (tip.tag + 1) % Tags
           /\ \/ \E c \in Poppers : PopExchange(c) /\ tip = seen[c]
              \/ \E t \in PoolThread : PushExchange(t) /\ tip = seen[t]
<1>1. ASSUME NEW c \in Poppers, CallerStep(c)
      PROVE  PopExchange(c) /\ tip = seen[c] /\ tip'.tag = (tip.tag + 1) % Tags
  <2>1. PopExchange(c)
    BY <1>1 DEF CallerStep, PopRead, Assign, Spawn, Spawned, Publish, CancelLoad,
                CancelThread, JoinBegins, Join
  <2> QED
    BY <2>1 DEF PopExchange, Tagged
<1>2. ASSUME NEW t \in PoolThread, ThreadStep(t)
      PROVE  PushExchange(t) /\ tip = seen[t] /\ tip'.tag = (tip.tag + 1) % Tags
  <2>1. PushExchange(t)
    BY <1>2 DEF ThreadStep, Begin, Return, Report, PushLoad, Wake, Die
  <2> QED
    BY <2>1 DEF PushExchange, Tagged
<1> QED
  BY <1>1, <1>2 DEF PoolNext, Create, SpawnFails, ShutdownPops, ShutdownRetries, Done,
                    WaitAgain, poolVars

\* history: how often g_idle has changed since the copy of a caller in idle_pop was
\* the tip, with thread->next not read yet.
VARIABLE age

Ages ==
    age' = [c \in Poppers |->
               IF stage'[c] = "pop" /\ seen'[c] = tip' THEN 0
               ELSE IF tip' # tip THEN age[c] + 1
               ELSE age[c]]

AgedSpec ==
    /\ PoolInit /\ age = [c \in Poppers |-> 0]
    /\ [][PoolNext /\ Ages]_<<poolVars, age>>

\* Nobody is overtaken by as many exchanges as there are tags, within idle_pop.
NotLapped == \A c \in Poppers : stage[c] = "exchange" => age[c] < Tags

\* A copy and its age tell the tag of the tip.
AgeInv ==
    /\ age \in [Poppers -> Nat]
    /\ \A c \in Poppers :
           stage[c] \in {"pop", "exchange"} /\ age[c] < Tags =>
               \/ tip.tag = seen[c].tag + age[c]
               \/ tip.tag = seen[c].tag + age[c] - Tags

LEMMA TagsOf ==
    ASSUME PoolTypeOK
    PROVE  /\ tip.tag \in 0..(Tags - 1) /\ Tags \in Nat \ {0}
           /\ \A c \in Poppers : seen[c].tag \in 0..(Tags - 1)
           /\ (tip.tag + 1) % Tags = IF tip.tag + 1 = Tags THEN 0 ELSE tip.tag + 1
<1>1. /\ tip.tag \in 0..(Tags - 1) /\ Tags \in Nat \ {0}
      /\ \A c \in Poppers : seen[c].tag \in 0..(Tags - 1)
  BY PoolAssumption DEF PoolTypeOK
<1>2. ASSUME NEW m \in Nat \ {0}, NEW n \in 0..(m - 1)
      PROVE  (n + 1) % m = IF n + 1 = m THEN 0 ELSE n + 1
  BY <1>2
<1> QED
  BY <1>1, <1>2

LEMMA NextAge ==
    ASSUME PoolInv, AgeInv, [PoolNext]_poolVars, Ages
    PROVE  AgeInv'
<1>0. PoolTypeOK
  BY DEF PoolInv
<1>1. age' \in [Poppers -> Nat]
  BY DEF Ages, AgeInv
<1>2. ASSUME NEW c \in Poppers, stage'[c] \in {"pop", "exchange"}, age'[c] < Tags
      PROVE  \/ tip'.tag = seen'[c].tag + age'[c]
             \/ tip'.tag = seen'[c].tag + age'[c] - Tags
  <2>1. CASE stage'[c] = "pop" /\ seen'[c] = tip'
    <3>1. age'[c] = 0
      BY <2>1 DEF Ages
    <3>2. tip'.tag \in Nat
      BY <1>0, TipStep, TagsOf
    <3> QED
      BY <2>1, <3>1, <3>2
  <2>2. CASE ~(stage'[c] = "pop" /\ seen'[c] = tip')
    <3>1. stage[c] \in {"pop", "exchange"} /\ seen'[c] = seen[c]
      BY <1>0, <1>2, <2>2, CopyStep
    <3>2. age'[c] = IF tip' # tip THEN age[c] + 1 ELSE age[c]
      BY <2>2 DEF Ages
    <3>3. age[c] \in Nat /\ age[c] < Tags
      BY <1>0, <1>2, <3>2, TagsOf DEF AgeInv
    <3>4. \/ tip.tag = seen[c].tag + age[c]
          \/ tip.tag = seen[c].tag + age[c] - Tags
      BY <3>1, <3>3 DEF AgeInv
    <3>5. tip' # tip => tip'.tag = IF tip.tag + 1 = Tags THEN 0 ELSE tip.tag + 1
      BY <1>0, TipStep, TagsOf
    <3> QED
      BY <1>0, <3>1, <3>2, <3>3, <3>4, <3>5, <1>2, TagsOf
  <2> QED
    BY <2>1, <2>2
<1> QED
  BY <1>1, <1>2 DEF AgeInv

\* A tip that came back would be as many exchanges old as there are tags.
LEMMA AgeIsNew ==
    ASSUME PoolInv, AgeInv, [PoolNext]_poolVars, Ages, NotLapped'
    PROVE  TipIsNew
<1> SUFFICES ASSUME tip' # tip, NEW c \in Poppers, stage[c] = "exchange", tip' = seen[c]
             PROVE  FALSE
  BY DEF TipIsNew
<1>0. PoolTypeOK /\ AgeInv'
  BY NextAge DEF PoolInv
<1>1. stage'[c] = "exchange" /\ seen'[c] = seen[c]
  <2>1. CASE \E d \in Poppers : PopExchange(d) /\ tip = seen[d]
    <3>1. PICK d \in Poppers : PopExchange(d) /\ tip = seen[d]
      BY <2>1
    <3>2. d # c
      BY <3>1
    <3> QED
      BY <1>0, <3>1, <3>2 DEF PopExchange, Forget, PoolTypeOK
  <2>2. CASE \E t \in PoolThread : PushExchange(t) /\ tip = seen[t]
    BY <1>0, <2>2, PoolAssumption DEF PushExchange, Forget, PoolTypeOK, Poppers
  <2> QED
    BY <1>0, <2>1, <2>2, TipStep
<1>2. age'[c] = age[c] + 1
  BY <1>1 DEF Ages
<1>3. age[c] \in Nat /\ age'[c] < Tags
  BY <1>1 DEF NotLapped, AgeInv
<1>4. \/ tip'.tag = seen[c].tag + age'[c]
      \/ tip'.tag = seen[c].tag + age'[c] - Tags
  BY <1>0, <1>1, <1>3 DEF AgeInv
<1> QED
  BY <1>0, <1>2, <1>3, <1>4, TagsOf

\* The tag of g_idle does what it is for: its values are new for everybody who is
\* between the read of thread->next and the exchange, unless 4096 exchanges of others
\* pass in that window.
THEOREM TipIsNewUnlessLapped ==
    ASSUME Cancelers = Endless
    PROVE  AgedSpec /\ []NotLapped => PoolSpec /\ [][TipIsNew]_poolVars
<1>1. PoolInit /\ age = [c \in Poppers |-> 0] => PoolInv /\ AgeInv
  <2> SUFFICES ASSUME PoolInit, age = [c \in Poppers |-> 0] PROVE PoolInv /\ AgeInv
    OBVIOUS
  <2>1. age \in [Poppers -> Nat] /\ \A c \in Poppers : stage[c] \notin {"pop", "exchange"}
    BY DEF PoolInit
  <2> QED
    BY <2>1, InitPoolInv DEF AgeInv
<1>2. /\ PoolInv /\ AgeInv /\ [PoolNext /\ Ages]_<<poolVars, age>> /\ NotLapped'
      => PoolInv' /\ AgeInv' /\ [PoolNext]_poolVars /\ [TipIsNew]_poolVars
  <2> SUFFICES ASSUME PoolInv, AgeInv, [PoolNext /\ Ages]_<<poolVars, age>>, NotLapped'
               PROVE  PoolInv' /\ AgeInv' /\ [PoolNext]_poolVars /\ TipIsNew
    OBVIOUS
  <2>1. CASE PoolNext /\ Ages
    BY <2>1, NextAge, AgeIsNew, NextPoolInv
  <2>2. CASE UNCHANGED <<poolVars, age>>
    <3>1. UNCHANGED poolVars /\ age' = age
      BY <2>2
    <3>2. TipIsNew
      BY <3>1 DEF poolVars, TipIsNew
    <3>3. PoolInv'
      BY <3>1, <3>2, NextPoolInv
    <3>4. AgeInv'
      BY <3>1 DEF poolVars, AgeInv
    <3> QED
      BY <3>1, <3>2, <3>3, <3>4
  <2> QED
    BY <2>1, <2>2
<1> QED
  BY <1>1, <1>2, PTL DEF AgedSpec, PoolSpec

\* The stack loses no thread and gives none to two callers, unless somebody stays in
\* that window for 4096 exchanges.
THEOREM StackIsExactUnlessLapped ==
    ASSUME Cancelers = Endless
    PROVE  AgedSpec /\ []NotLapped => []StackExact
BY StackIsExact, TipIsNewUnlessLapped, PTL

-----------------------------------------------------------------------------
\* The task pool: as long as there are tags for all tasks.

\* The exchanges that a task is good for are two: its thread is popped, or was
\* pushed by an earlier task and is in the stack, and it is pushed.
Asking == {c \in Caller : stage[c] \in {"pop", "exchange", "popped"}}
Busy == {t \in PoolThread : Working(t) \/ doing[t] \in {"push", "pushing"}}

TagCounts ==
    /\ tip.tag + 2 * Cardinality(Asking) + 2 * Cardinality(Busy) + Cardinality(Idle)
           <= 2 * tasks
    /\ \A c \in Poppers : stage[c] \in {"pop", "exchange"} => seen[c].tag <= tip.tag

LEMMA PoolFinite ==
    /\ IsFiniteSet(Asking) /\ IsFiniteSet(Busy) /\ IsFiniteSet(Idle)
    /\ Cardinality(Asking) \in Nat /\ Cardinality(Busy) \in Nat /\ Cardinality(Idle) \in Nat
<1>1. Asking \in SUBSET Caller /\ Busy \in SUBSET PoolThread /\ Idle \in SUBSET PoolThread
  BY DEF Asking, Busy, Idle, From
<1> QED
  BY <1>1, PoolAssumption, FS_Subset, FS_CardinalityType

LEMMA NotEmpty ==
    ASSUME NEW S, NEW x \in S, IsFiniteSet(S)
    PROVE  Cardinality(S) \in Nat \ {0}
BY FS_EmptySet, FS_CardinalityType

LEMMA CountsAreNew ==
    ASSUME PoolInv, TagCounts, [PoolNext]_poolVars, 2 * MaxTasks < Tags
    PROVE  /\ TipIsNew
           /\ tip' # tip => tip'.tag = tip.tag + 1
<1> SUFFICES ASSUME tip' # tip
             PROVE  TipIsNew /\ tip'.tag = tip.tag + 1
  BY DEF TipIsNew
<1>0. PoolTypeOK /\ tasks \in Nat /\ tasks <= MaxTasks /\ MaxTasks \in Nat
  BY PoolAssumption DEF PoolInv, PoolTypeOK
<1>1. tip.tag + 1 <= 2 * tasks
  <2>1. CASE \E c \in Poppers : PopExchange(c) /\ tip = seen[c]
    <3>1. tip.top \in Idle
      BY <2>1, <1>0, IdleClosed, PoolAssumption DEF PopExchange, PoolInv, CopiesValid
    <3>2. Cardinality(Idle) \in Nat \ {0}
      BY <3>1, PoolFinite, NotEmpty
    <3>3. /\ tip.tag \in Nat /\ Cardinality(Asking) \in Nat /\ Cardinality(Busy) \in Nat
          /\ tip.tag + 2 * Cardinality(Asking) + 2 * Cardinality(Busy) + Cardinality(Idle)
                <= 2 * tasks
      BY <1>0, PoolFinite, TagsOf DEF TagCounts
    <3> QED
      BY <1>0, <3>2, <3>3
  <2>2. CASE \E t \in PoolThread : PushExchange(t) /\ tip = seen[t]
    <3>1. PICK t \in PoolThread : t \in Busy
      BY <2>2 DEF PushExchange, Busy
    <3>2. Cardinality(Busy) \in Nat \ {0}
      BY <3>1, PoolFinite, NotEmpty
    <3>3. /\ tip.tag \in Nat /\ Cardinality(Asking) \in Nat /\ Cardinality(Idle) \in Nat
          /\ tip.tag + 2 * Cardinality(Asking) + 2 * Cardinality(Busy) + Cardinality(Idle)
                <= 2 * tasks
      BY <1>0, PoolFinite, TagsOf DEF TagCounts
    <3> QED
      BY <1>0, <3>2, <3>3
  <2> QED
    BY <1>0, <2>1, <2>2, TipStep
<1>2. tip'.tag = tip.tag + 1
  BY <1>0, <1>1, TipStep, TagsOf
<1>3. \A c \in Poppers : stage[c] = "exchange" => seen[c].tag < tip'.tag
  BY <1>0, <1>2, TagsOf DEF TagCounts
<1> QED
  BY <1>0, <1>2, <1>3, TagsOf DEF TipIsNew

LEMMA NextTagCounts ==
    ASSUME Cancelers = Endless, 2 * MaxTasks < Tags,
           PoolInv, TagCounts, [PoolNext]_poolVars
    PROVE  TagCounts'
<1> USE PoolAssumption
<1> DEFINE nA == Cardinality(Asking)
           nB == Cardinality(Busy)
           nI == Cardinality(Idle)
<1>0. /\ PoolInv' /\ PoolTypeOK /\ TipIsNew
      /\ tip.tag \in Nat /\ tasks \in Nat
      /\ tip' = tip \/ tip'.tag = tip.tag + 1
      /\ tip.tag + 2 * nA + 2 * nB + nI <= 2 * tasks
  BY CountsAreNew, NextPoolInv, TagsOf DEF PoolInv, PoolTypeOK, TagCounts
<1>1. /\ stage \in [Poppers -> {"idle", "pop", "exchange", "popped", "spawning", "publish",
                                "created", "cancel", "join", "done"}]
      /\ doing \in [PoolThread -> {"none", "new", "run", "returned", "push", "pushing", "wait"}]
      /\ task \in [PoolThread -> Caller \cup {None}]
      /\ Caller \subseteq Poppers /\ Shutdown \in Poppers
  BY <1>0 DEF PoolTypeOK, Poppers
<1>f. /\ IsFiniteSet(Asking) /\ IsFiniteSet(Busy) /\ IsFiniteSet(Idle)
      /\ nA \in Nat /\ nB \in Nat /\ nI \in Nat
  BY PoolFinite
<1> DEFINE Bound == tip'.tag + 2 * nA' + 2 * nB' + nI' <= 2 * tasks'
<1>2. ASSUME UNCHANGED <<tip, tasks>>, Asking' = Asking, Idle' = Idle, Busy' = Busy
      PROVE  Bound
  BY <1>0, <1>2
<1>3. ASSUME NEW c \in Caller, Create(c) PROVE Bound
  <2>1. Asking' = Asking \cup {c} /\ c \notin Asking /\ Busy' = Busy /\ Idle' = Idle
    BY <1>1, <1>3, IdleUnchanged DEF Create, Asking, Busy, Working
  <2>2. nA' = nA + 1 /\ nB' = nB /\ nI' = nI
    BY <1>f, <2>1, FS_AddElement
  <2>3. tip' = tip /\ tasks' = tasks + 1
    BY <1>3 DEF Create
  <2> QED
    BY <1>0, <1>f, <2>2, <2>3
<1>4. ASSUME NEW c \in Caller, SpawnFails(c) PROVE Bound
  <2>1. Asking' = Asking \ {c} /\ c \in Asking /\ Busy' = Busy /\ Idle' = Idle
    BY <1>1, <1>4, IdleUnchanged DEF SpawnFails, Asking, Busy, Working
  <2>2. nA' = nA - 1 /\ nB' = nB /\ nI' = nI
    BY <1>f, <2>1, FS_RemoveElement
  <2>3. tip' = tip /\ tasks' = tasks
    BY <1>4 DEF SpawnFails
  <2> QED
    BY <1>0, <1>f, <2>2, <2>3
\* The task goes from its caller to a thread.
<1>5. ASSUME NEW c \in Caller, c \in Asking, Asking' = Asking \ {c},
             NEW t \in PoolThread, t \notin Busy, Busy' = Busy \cup {t},
             Idle' = Idle, UNCHANGED <<tip, tasks>>
      PROVE  Bound
  <2>1. nA' = nA - 1 /\ nB' = nB + 1 /\ nI' = nI
    BY <1>5, <1>f, FS_AddElement, FS_RemoveElement
  <2> QED
    BY <1>0, <1>5, <1>f, <2>1
<1>6. ASSUME NEW c \in Poppers, Assign(c) PROVE Bound
  <2>1. PICK t \in PoolThread : t = mine[c]
    BY <1>6 DEF Assign, PoolInv, Waiting
  <2>2. Waits(t) /\ c \in Caller
    BY <1>6, <2>1 DEF Assign, PoolInv, Waiting
  <2>3. c \in Asking /\ Asking' = Asking \ {c}
    BY <1>1, <1>6, <2>2 DEF Assign, Asking
  <2>4. t \notin Busy /\ Busy' = Busy \cup {t}
    BY <1>1, <1>6, <2>1, <2>2 DEF Assign, Busy, Working, Waits
  <2>5. UNCHANGED <<tip, tasks>> /\ Idle' = Idle
    BY <1>6, IdleUnchanged DEF Assign
  <2> QED
    BY <1>5, <2>2, <2>3, <2>4, <2>5
<1>7. ASSUME NEW c \in Poppers, NEW t \in PoolThread, Spawn(c, t) PROVE Bound
  <2>1. c \in Asking /\ Asking' = Asking \ {c}
    BY <1>1, <1>7 DEF Spawn, Asking
  <2>2. t \notin Busy /\ Busy' = Busy \cup {t}
    BY <1>1, <1>7 DEF Spawn, Busy, Working
  <2>3. UNCHANGED <<tip, tasks>> /\ Idle' = Idle /\ c \in Caller
    BY <1>7, SpawnInv DEF Spawn
  <2> QED
    BY <1>5, <2>1, <2>2, <2>3
<1>8. ASSUME NEW c \in Poppers, PopExchange(c) PROVE Bound
  <2>1. Asking' = Asking /\ Busy' = Busy /\ UNCHANGED tasks
    BY <1>1, <1>8 DEF PopExchange, Asking, Busy, Working
  <2>2. CASE tip = seen[c]
    <3>1. seen[c].top \in Idle /\ Idle' = Idle \ {seen[c].top}
      BY <1>0, <1>8, <2>2, PopSucceedsInv
    <3>2. PICK h : h \in Idle /\ Idle' = Idle \ {h}
      BY <3>1
    <3>3. nI' = nI - 1
      <4>1. Cardinality(Idle \ {h}) = Cardinality(Idle) - 1
        BY <3>2, <1>f, FS_RemoveElement
      <4> QED
        BY <3>2, <4>1
    <3> QED
      BY <1>0, <1>f, <2>1, <3>3
  <2>3. CASE tip # seen[c]
    <3>1. Idle' = Idle /\ tip' = tip
      BY <1>8, <2>3, PopFailsInv DEF PopExchange
    <3> QED
      BY <1>2, <2>1, <3>1
  <2> QED
    BY <2>2, <2>3
<1>9. ASSUME NEW t \in PoolThread, PushExchange(t) PROVE Bound
  <2>1. Asking' = Asking /\ UNCHANGED tasks
    BY <1>9 DEF PushExchange, Asking
  <2>2. CASE tip = seen[t]
    <3>1. t \notin Idle /\ Idle' = Idle \cup {t}
      BY <1>0, <1>9, <2>2, PushSucceedsInv
    <3>2. t \in Busy /\ Busy' = Busy \ {t}
      BY <1>1, <1>9, <2>2 DEF PushExchange, Busy, Working, PoolInv, TasksFollow
    <3>3. nI' = nI + 1 /\ nB' = nB - 1
      BY <3>1, <3>2, <1>f, FS_AddElement, FS_RemoveElement
    <3> QED
      BY <1>0, <1>f, <2>1, <3>3
  <2>3. CASE tip # seen[t]
    <3>1. Idle' = Idle /\ tip' = tip /\ Busy' = Busy
      BY <1>9, <2>3, PushFailsInv DEF PushExchange, Busy, Working
    <3> QED
      BY <1>2, <2>1, <3>1
  <2> QED
    BY <2>2, <2>3
<1>10. ASSUME NEW t \in PoolThread, Die(t) PROVE Bound
  <2>1. Asking' = Asking /\ UNCHANGED <<tip, tasks>> /\ Idle' = Idle
    BY <1>10, IdleUnchanged DEF Die, Asking
  <2>2. Busy' = Busy \ {t}
    BY <1>1, <1>10 DEF Die, Busy, Working
  <2>3. nB' <= nB /\ nB' \in Nat
    <3>1. IsFiniteSet(Busy \ {t}) /\ Cardinality(Busy \ {t}) \in Nat
      BY <1>f, FS_RemoveElement, FS_CardinalityType
    <3>2. Cardinality(Busy \ {t}) <= Cardinality(Busy)
      BY <1>f, FS_Subset
    <3> QED
      BY <2>2, <3>1, <3>2
  <2> QED
    BY <1>0, <1>f, <2>1, <2>3
<1>11. ASSUME NEW c \in Poppers,
              \/ PopRead(c) \/ Spawned(c) \/ Publish(c) \/ CancelLoad(c) \/ CancelThread(c)
              \/ JoinBegins(c) \/ Join(c)
       PROVE  Bound
  <2>1. Asking' = Asking /\ Busy' = Busy
    BY <1>1, <1>11 DEF PopRead, Spawned, Publish, CancelLoad, CancelThread, JoinBegins,
                       Join, Asking, Busy, Working
  <2>2. UNCHANGED <<tip, tasks>> /\ Idle' = Idle
    BY <1>11, IdleUnchanged DEF PopRead, Spawned, Publish, CancelLoad, CancelThread,
                                JoinBegins, Join
  <2> QED
    BY <1>2, <2>1, <2>2
<1>12. ASSUME ShutdownPops \/ ShutdownRetries \/ UNCHANGED poolVars PROVE Bound
  <2>1. Asking' = Asking /\ Busy' = Busy
    BY <1>1, <1>12 DEF ShutdownPops, ShutdownRetries, poolVars, Asking, Busy, Working
  <2>2. UNCHANGED <<tip, tasks>> /\ Idle' = Idle
    BY <1>12, IdleUnchanged DEF ShutdownPops, ShutdownRetries, poolVars
  <2> QED
    BY <1>2, <2>1, <2>2
<1>13. ASSUME NEW t \in PoolThread,
              Begin(t) \/ Return(t) \/ Report(t) \/ PushLoad(t) \/ Wake(t)
       PROVE  Bound
  <2>1. Asking' = Asking /\ Busy' = Busy
    BY <1>1, <1>13 DEF Begin, Return, Report, PushLoad, Wake, Asking, Busy, Working
  <2>2. UNCHANGED <<tip, tasks>> /\ Idle' = Idle
    BY <1>13, IdleUnchanged DEF Begin, Return, Report, PushLoad, Wake
  <2> QED
    BY <1>2, <2>1, <2>2
<1>14. Bound
  BY <1>3, <1>4, <1>6, <1>7, <1>8, <1>9, <1>10, <1>11, <1>12, <1>13
     DEF PoolNext, CallerStep, ThreadStep, Done, WaitAgain
<1>15. ASSUME NEW c \in Poppers, stage'[c] \in {"pop", "exchange"}
       PROVE  seen'[c].tag <= tip'.tag
  <2>1. tip'.tag \in Nat /\ tip'.tag >= tip.tag
    BY <1>0
  <2>2. CASE seen'[c] = tip'
    BY <2>1, <2>2
  <2>3. CASE stage[c] \in {"pop", "exchange"} /\ seen'[c] = seen[c]
    BY <1>0, <2>1, <2>3, TagsOf DEF TagCounts
  <2> QED
    BY <1>0, <1>15, <2>2, <2>3, CopyStep
<1> QED
  BY <1>14, <1>15 DEF TagCounts

\* Fewer tasks than half the tags: no assumption on the speed of callers is needed.
THEOREM TipIsNewForFewTasks ==
    ASSUME Cancelers = Endless, 2 * MaxTasks < Tags
    PROVE  PoolSpec => [][TipIsNew]_poolVars
<1>1. PoolInit => PoolInv /\ TagCounts
  <2> SUFFICES ASSUME PoolInit PROVE TagCounts
    BY InitPoolInv
  <2>1. Asking = {} /\ Busy = {} /\ Idle = {}
    BY IdleEmpty DEF PoolInit, Asking, Busy, Working, Poppers
  <2>2. Cardinality({}) = 0
    BY FS_EmptySet
  <2>3. tip.tag = 0 /\ tasks = 0 /\ \A c \in Poppers : stage[c] = "idle"
    BY DEF PoolInit
  <2> QED
    BY <2>1, <2>2, <2>3 DEF TagCounts
<1>2. PoolInv /\ TagCounts /\ [PoolNext]_poolVars => PoolInv' /\ TagCounts' /\ TipIsNew
  BY CountsAreNew, NextTagCounts, NextPoolInv
<1> QED
  BY <1>1, <1>2, PTL DEF PoolSpec

\* The stack is exact, in every behaviour, while tags are not used twice.
THEOREM StackIsExactForFewTasks ==
    ASSUME Cancelers = Endless, 2 * MaxTasks < Tags
    PROVE  PoolSpec => []StackExact
BY StackIsExact, TipIsNewForFewTasks, PTL

\* No thread is used after it was deleted, while no task is cancelled.
THEOREM SafeForFewTasks ==
    ASSUME Cancelers = {}, 2 * MaxTasks < Tags
    PROVE  PoolSpec => []NoUseAfterFree
<1>1. Cancelers = Endless
  BY PoolAssumption
<1> QED
  BY <1>1, SafeWithoutCancel, TipIsNewForFewTasks, PTL
=============================================================================
