--------------------------- MODULE SlotPoolProofs ---------------------------
(***************************************************************************)
(* The safety properties of SlotPool, for any number of workers and slots. *)
(*                                                                         *)
(* SlotAccounting is not inductive: take() writes Client::slot_, so the    *)
(* request must not have one, which SlotFollowsPc says.                    *)
(***************************************************************************)
EXTENDS SlotPool, SequenceLemmas, FiniteSetTheorems

\* A request has a slot only from take() to the cleanup, and the handler that
\* works in one has one.
SlotFollowsPc ==
    \A w \in Worker :
        /\ pc[w] \in {"idle", "take", "wait", "woken", "responding", "dead"}
             => slot[w] = NoSlot
        /\ pc[w] = "using" => slot[w] # NoSlot

IInv == TypeOK /\ SlotFollowsPc /\ SlotAccounting

LEMMA InitIInv == Init => IInv
<1> SUFFICES ASSUME Init PROVE IInv
  OBVIOUS
<1>1. TypeOK
  <2>1. Cardinality(Slot) \in Nat
    BY SlotAssumption, FS_CardinalityType
  <2>2. free \in Seq(Slot)
    BY <2>1 DEF Init
  <2> QED
    BY <2>2 DEF Init, TypeOK
<1>2. SlotFollowsPc
  BY DEF Init, SlotFollowsPc
<1>3. SlotAccounting
  BY SlotAssumption DEF Init, SlotAccounting
<1> QED
  BY <1>1, <1>2, <1>3 DEF IInv

\* What a cleanup leaves of slot_ and of the free list.
LEMMA CleanupSlots ==
    ASSUME IInv, NEW w \in Worker, NEW to, Cleanup(w, to)
    PROVE  /\ free' \in Seq(Slot)
           /\ slot' = [slot EXCEPT ![w] = NoSlot]
           /\ SlotAccounting'
<1>1. CASE slot[w] = NoSlot
  <2>1. slot' = slot /\ free' = free
    BY <1>1 DEF Cleanup
  <2>2. slot' = [slot EXCEPT ![w] = NoSlot]
    BY <1>1, <2>1 DEF IInv, TypeOK
  <2>3. SlotAccounting'
    BY <2>1 DEF IInv, SlotAccounting
  <2> QED
    BY <2>1, <2>2, <2>3 DEF IInv, TypeOK
<1>2. CASE slot[w] # NoSlot
  <2>1. slot[w] \in Slot /\ free \in Seq(Slot)
    BY <1>2 DEF IInv, TypeOK
  <2>2. /\ slot' = [slot EXCEPT ![w] = NoSlot]
        /\ free' = DllMakeFirst(free, slot[w])
    BY <1>2 DEF Cleanup
  <2>3. slot[w] \notin Members(free) /\ NoDuplicates(free)
    BY DEF IInv, SlotAccounting
  <2>4. /\ free' \in Seq(Slot)
        /\ Members(free') = Members(free) \cup {slot[w]}
        /\ NoDuplicates(free')
    BY <2>1, <2>2, <2>3, MakeFirstNew
  <2>6. \A u, v \in Worker : slot'[u] = slot'[v] /\ slot'[u] # NoSlot => u = v
    BY <2>2 DEF IInv, TypeOK, SlotAccounting
  <2>7. {slot'[u] : u \in Worker} \cup {slot[w]} \cup {NoSlot}
          = {slot[u] : u \in Worker} \cup {NoSlot}
    BY <2>2 DEF IInv, TypeOK
  <2>8. slot[w] \notin {slot'[u] : u \in Worker}
    BY <1>2, <2>2 DEF IInv, TypeOK, SlotAccounting
  <2>9. Members(free) = Slot \ {slot[u] : u \in Worker}
    BY DEF IInv, SlotAccounting
  <2>10. Members(free') = Slot \ {slot'[u] : u \in Worker}
    BY <2>1, <2>4, <2>7, <2>8, <2>9, SlotAssumption
  <2> QED
    BY <2>2, <2>4, <2>6, <2>10 DEF SlotAccounting
<1> QED
  BY <1>1, <1>2

\* A cleanup changes the place of its worker and wakes at most one waiter.
LEMMA CleanupPc ==
    ASSUME IInv, NEW w \in Worker, NEW to, Cleanup(w, to)
    PROVE  \/ pc' = [pc EXCEPT ![w] = to]
           \/ \E u \in Waiters : pc' = [pc EXCEPT ![w] = to, ![u] = "woken"]
BY DEF Cleanup

LEMMA NextIInv == IInv /\ [Next]_vars => IInv'
<1> SUFFICES ASSUME IInv, [Next]_vars PROVE IInv'
  OBVIOUS
<1>1. ASSUME NEW w \in Worker, NEW from, NEW to, LocalStep(w, from, to),
             to \in {"take", "woken", "leaving", "dtor"},
             to \in {"take", "woken"} => from \in {"idle", "wait"}
      PROVE  IInv'
  <2>1. TypeOK'
    BY <1>1 DEF IInv, TypeOK, LocalStep, Goto
  <2>2. SlotFollowsPc'
    BY <1>1 DEF IInv, TypeOK, SlotFollowsPc, LocalStep, Goto
  <2>3. SlotAccounting'
    BY <1>1 DEF IInv, SlotAccounting, LocalStep
  <2> QED
    BY <2>1, <2>2, <2>3 DEF IInv
<1>2. ASSUME NEW w \in Worker, NEW to \in {"responding", "idle", "dead"},
             Cleanup(w, to), pc[w] \in {"using", "leaving", "dtor"}
      PROVE  IInv'
  <2>1. free' \in Seq(Slot) /\ slot' = [slot EXCEPT ![w] = NoSlot] /\ SlotAccounting'
    BY <1>2, CleanupSlots
  <2>2. UNCHANGED <<pending, lockLost>>
    BY <1>2 DEF Cleanup
  <2>3. TypeOK'
    BY <1>2, <2>1, <2>2, CleanupPc DEF IInv, TypeOK, Waiters
  <2>4. SlotFollowsPc'
    BY <1>2, <2>1, CleanupPc DEF IInv, TypeOK, SlotFollowsPc, Waiters
  <2> QED
    BY <2>1, <2>3, <2>4 DEF IInv
<1>3. ASSUME NEW w \in Worker, Take(w) PROVE IInv'
  <2>1. PICK s \in Members(free) : /\ free' = DllRemove(free, s)
                                   /\ slot' = [slot EXCEPT ![w] = s]
    BY <1>3 DEF Take
  <2>2. free \in Seq(Slot) /\ NoDuplicates(free) /\ slot[w] = NoSlot
    BY <1>3 DEF Take, IInv, TypeOK, SlotAccounting, SlotFollowsPc
  <2>3. /\ free' \in Seq(Slot)
        /\ Members(free') = Members(free) \ {s}
        /\ NoDuplicates(free')
    BY <2>1, <2>2, RemoveProperties
  <2>4. Members(free) = Slot \ {slot[u] : u \in Worker}
    BY DEF IInv, SlotAccounting
  <2>5. s \in Slot /\ s # NoSlot
    BY <2>4, SlotAssumption
  <2>6. {slot'[u] : u \in Worker} \cup {NoSlot}
          = {slot[u] : u \in Worker} \cup {s, NoSlot}
    BY <2>1, <2>2 DEF IInv, TypeOK
  <2>7. Members(free') = Slot \ {slot'[u] : u \in Worker}
    BY <2>3, <2>4, <2>6, SlotAssumption
  <2>8. \A u, v \in Worker : slot'[u] = slot'[v] /\ slot'[u] # NoSlot => u = v
    BY <2>1, <2>4 DEF IInv, TypeOK, SlotAccounting
  <2>9. TypeOK'
    BY <1>3, <2>1, <2>3, <2>5 DEF Take, IInv, TypeOK
  <2>10. SlotFollowsPc'
    BY <1>3, <2>1, <2>5 DEF Take, IInv, TypeOK, SlotFollowsPc
  <2> QED
    BY <2>3, <2>7, <2>8, <2>9, <2>10 DEF IInv, SlotAccounting
<1>4. ASSUME NEW w \in Worker, TakeWaits(w) PROVE IInv'
  BY <1>4 DEF TakeWaits, IInv, TypeOK, SlotFollowsPc, SlotAccounting
<1>5. ASSUME NEW w \in Worker, Kill(w) PROVE IInv'
  BY <1>5 DEF Kill, IInv, TypeOK, SlotFollowsPc, SlotAccounting
<1>6. ASSUME NEW w \in Worker, CancelWait(w) PROVE IInv'
  BY <1>6 DEF CancelWait, Goto, IInv, TypeOK, SlotFollowsPc, SlotAccounting
<1>7. ASSUME NEW w \in Worker, Replace(w) PROVE IInv'
  BY <1>7 DEF Replace, Goto, IInv, TypeOK, SlotFollowsPc, SlotAccounting
<1>8. CASE UNCHANGED vars
  BY <1>8 DEF vars, IInv, TypeOK, SlotFollowsPc, SlotAccounting
<1> QED
  BY <1>1, <1>2, <1>3, <1>4, <1>5, <1>6, <1>7, <1>8
  DEF Next, Request, TakeStep, Finalize, Abandon, Respond, CleanupStep, Clear,
      DtorClose, CancelStep, ActOnCancel, Crash, SpuriousWakeup

\* The strengthened invariant holds in every reachable state.
THEOREM InductiveInvariant == Spec => []IInv
<1>1. Init => IInv
  BY InitIInv
<1>2. IInv /\ [Next]_vars => IInv'
  BY NextIInv
<1> QED
  BY <1>1, <1>2, PTL DEF Spec

\* Every variable of the slots and of the requests keeps its type.
THEOREM TypeInvariant == Spec => []TypeOK
<1>1. IInv => TypeOK
  BY DEF IInv
<1> QED
  BY <1>1, InductiveInvariant, PTL

\* Slots::take and Slots::give, with the cleanups of the handlers and of dying
\* workers, neither lose a slot nor share one.
THEOREM Accounting == Spec => []SlotAccounting
<1>1. IInv => SlotAccounting
  BY DEF IInv
<1> QED
  BY <1>1, InductiveInvariant, PTL

-----------------------------------------------------------------------------
\* Steps that wake nobody and add no free slot keep the promise.
LEMMA FewerWaiters ==
    ASSUME IInv, NoLostWakeup, Waiters' \subseteq Waiters, Woken' = Woken,
           Len(free') <= Len(free), Len(free') \in Nat
    PROVE  NoLostWakeup'
<1>1. Len(free) \in Nat /\ Cardinality(Woken) \in Nat
  BY SlotAssumption, FS_CardinalityType, FS_Subset DEF IInv, TypeOK, Woken
<1> QED
  BY <1>1 DEF NoLostWakeup

LEMMA WokenGrows ==
    ASSUME NEW u \in Worker, u \notin Woken, Woken' = Woken \cup {u}
    PROVE  /\ Cardinality(Woken) \in Nat
           /\ Cardinality(Woken') = Cardinality(Woken) + 1
<1>1. IsFiniteSet(Woken)
  BY SlotAssumption, FS_Subset DEF Woken
<1> QED
  BY <1>1, FS_AddElement, FS_CardinalityType

LEMMA WokenShrinks ==
    ASSUME NEW u \in Woken, Woken' = Woken \ {u}
    PROVE  /\ Cardinality(Woken) \in Nat
           /\ Cardinality(Woken') = Cardinality(Woken) - 1
<1>1. IsFiniteSet(Woken)
  BY SlotAssumption, FS_Subset DEF Woken
<1> QED
  BY <1>1, FS_RemoveElement, FS_CardinalityType

\* give() adds a free slot and, if anybody waits, a woken thread.
LEMMA CleanupWakes ==
    ASSUME IInv, NoLostWakeup, NEW w \in Worker,
           NEW to \in {"responding", "idle", "dead"},
           Cleanup(w, to), pc[w] \in {"using", "leaving", "dtor"}
    PROVE  NoLostWakeup'
<1>1. pc \in [Worker -> {"idle", "take", "wait", "woken", "using",
                         "responding", "leaving", "dtor", "dead"}]
  BY DEF IInv, TypeOK
<1>2. free \in Seq(Slot) /\ Len(free) \in Nat
  BY DEF IInv, TypeOK
<1>3. CASE slot[w] = NoSlot
  <2>1. pc' = [pc EXCEPT ![w] = to] /\ free' = free
    BY <1>3 DEF Cleanup
  <2>2. Waiters' = Waiters /\ Woken' = Woken
    BY <1>1, <2>1 DEF Waiters, Woken
  <2> QED
    BY <1>2, <2>1, <2>2, FewerWaiters
<1>4. CASE slot[w] # NoSlot
  <2>1. slot[w] \in Slot
    BY <1>4 DEF IInv, TypeOK
  <2>2. Len(DllMakeFirst(free, slot[w])) = Len(free) + 1
    BY <1>2, <2>1 DEF DllMakeFirst
  <2>3. Len(free') = Len(free) + 1
    BY <1>4, <2>2 DEF Cleanup
  <2>4. CASE Waiters = {}
    <3>1. pc' = [pc EXCEPT ![w] = to]
      BY <1>4, <2>4 DEF Cleanup
    <3>2. Waiters' = {}
      BY <1>1, <2>4, <3>1 DEF Waiters
    <3> QED
      BY <3>2 DEF NoLostWakeup
  <2>5. CASE Waiters # {}
    <3>1. PICK u \in Waiters : pc' = [pc EXCEPT ![w] = to, ![u] = "woken"]
      BY <1>4, <2>5 DEF Cleanup
    <3>2. u \in Worker /\ u \notin Woken /\ Woken' = Woken \cup {u}
      BY <1>1, <3>1 DEF Waiters, Woken
    <3>3. /\ Cardinality(Woken) \in Nat
          /\ Cardinality(Woken') = Cardinality(Woken) + 1
      BY <3>2, WokenGrows
    <3>4. Len(free) <= Cardinality(Woken)
      BY <2>5 DEF NoLostWakeup
    <3> QED
      BY <1>2, <2>3, <3>3, <3>4 DEF NoLostWakeup
  <2> QED
    BY <2>4, <2>5
<1> QED
  BY <1>3, <1>4

\* Whoever takes a slot was woken for it, or was not waiting at all.
LEMMA TakeUsesSignal ==
    ASSUME IInv, NoLostWakeup, NEW w \in Worker, Take(w)
    PROVE  NoLostWakeup'
<1>1. pc' = [pc EXCEPT ![w] = "using"] /\ pc[w] \in {"take", "woken"}
  BY DEF Take
<1>2. PICK s \in Members(free) : free' = DllRemove(free, s)
  BY DEF Take
<1>3. free \in Seq(Slot) /\ Len(free) \in Nat /\ NoDuplicates(free)
  BY DEF IInv, TypeOK, SlotAccounting
<1>4. Len(free') = Len(free) - 1
  BY <1>2, <1>3, RemoveProperties
<1>5. free' \in Seq(Slot) /\ Len(free') \in Nat
  <2>1. DllRemove(free, s) \in Seq(Slot)
    BY <1>3, RemoveProperties
  <2> QED
    BY <1>2, <2>1
<1>6. Waiters' = Waiters
  BY <1>1 DEF IInv, TypeOK, Waiters
<1>7. CASE pc[w] = "take"
  <2>1. Woken' = Woken
    BY <1>1, <1>7 DEF IInv, TypeOK, Woken
  <2> QED
    BY <1>3, <1>4, <1>5, <1>6, <2>1, FewerWaiters
<1>8. CASE pc[w] = "woken"
  <2>1. w \in Woken /\ Woken' = Woken \ {w}
    BY <1>1, <1>8 DEF IInv, TypeOK, Woken
  <2>2. /\ Cardinality(Woken) \in Nat
        /\ Cardinality(Woken') = Cardinality(Woken) - 1
    BY <2>1, WokenShrinks
  <2> QED
    BY <1>3, <1>4, <1>6, <2>2 DEF NoLostWakeup
<1> QED
  BY <1>1, <1>7, <1>8

LEMMA NextNoLostWakeup == IInv /\ NoLostWakeup /\ [Next]_vars => NoLostWakeup'
<1> SUFFICES ASSUME IInv, NoLostWakeup, [Next]_vars PROVE NoLostWakeup'
  OBVIOUS
<1>1. pc \in [Worker -> {"idle", "take", "wait", "woken", "using",
                         "responding", "leaving", "dtor", "dead"}]
  BY DEF IInv, TypeOK
<1>2. Len(free) \in Nat
  BY DEF IInv, TypeOK
<1>3. ASSUME NEW w \in Worker, NEW from, NEW to, Goto(w, from, to),
             UNCHANGED free,
             from # "woken", to \notin {"wait", "woken"}
      PROVE  NoLostWakeup'
  <2>1. Waiters' \subseteq Waiters /\ Woken' = Woken
    BY <1>1, <1>3 DEF Goto, Waiters, Woken
  <2> QED
    BY <1>2, <1>3, <2>1, FewerWaiters
<1>4. ASSUME NEW w \in Worker, TakeWaits(w) PROVE NoLostWakeup'
  <2>1. IsFiniteSet(Woken')
    BY SlotAssumption, FS_Subset DEF Woken
  <2>2. Cardinality(Woken') \in Nat
    BY <2>1, FS_CardinalityType
  <2>3. Len(free') = 0
    BY <1>4 DEF TakeWaits
  <2> QED
    BY <2>2, <2>3 DEF NoLostWakeup
<1>5. ASSUME NEW w \in Worker, SpuriousWakeup(w) PROVE NoLostWakeup'
  <2>1. Waiters' \subseteq Waiters /\ w \in Waiters
    BY <1>1, <1>5 DEF SpuriousWakeup, LocalStep, Goto, Waiters
  <2>2. w \notin Woken /\ Woken' = Woken \cup {w}
    BY <1>1, <1>5 DEF SpuriousWakeup, LocalStep, Goto, Woken
  <2>3. /\ Cardinality(Woken) \in Nat
        /\ Cardinality(Woken') = Cardinality(Woken) + 1
    BY <2>2, WokenGrows
  <2>4. free' = free
    BY <1>5 DEF SpuriousWakeup, LocalStep
  <2> QED
    BY <1>2, <2>1, <2>3, <2>4 DEF NoLostWakeup
<1>6. ASSUME NEW w \in Worker, Kill(w) PROVE NoLostWakeup'
  BY <1>6 DEF Kill, NoLostWakeup, Waiters, Woken
<1>7. CASE UNCHANGED vars
  BY <1>7 DEF vars, NoLostWakeup, Waiters, Woken
<1>8. ASSUME NEW w \in Worker,
             \/ Request(w) \/ Abandon(w) \/ Respond(w) \/ Replace(w)
             \/ ActOnCancel(w) \/ CancelWait(w) \/ Crash(w)
      PROVE  NoLostWakeup'
  BY <1>3, <1>8 DEF Request, Abandon, Respond, Replace, ActOnCancel, CancelWait,
                    Crash, LocalStep
<1>9. ASSUME NEW w \in Worker, Finalize(w) \/ Clear(w) \/ DtorClose(w)
      PROVE  NoLostWakeup'
  BY <1>9, CleanupWakes DEF Finalize, Clear, DtorClose
<1> QED
  BY <1>4, <1>5, <1>6, <1>7, <1>8, <1>9, TakeUsesSignal
  DEF Next, TakeStep, CleanupStep, CancelStep

\* Slots::give wakes one waiter per slot, and that is enough: no free slot is
\* left behind while requests wait, for any number of workers and slots.
THEOREM SignalsSuffice == Spec => []NoLostWakeup
<1>1. Init => NoLostWakeup
  BY DEF Init, NoLostWakeup, Waiters
<1>2. IInv /\ NoLostWakeup /\ [Next]_vars => NoLostWakeup'
  BY NextNoLostWakeup
<1> QED
  BY <1>1, <1>2, InductiveInvariant, PTL DEF Spec

-----------------------------------------------------------------------------
\* The holder of a slot is the worker whose slot_ it is.
LEMMA HolderIsUser ==
    ASSUME \A u, v \in Worker : slot[u] = slot[v] /\ slot[u] # NoSlot => u = v,
           NEW s \in Slot
    PROVE  /\ \A w \in Worker : slot[w] = s => holder[s] = w
           /\ (\A w \in Worker : slot[w] # s) => holder[s] = NoWorker
<1>1. s # NoSlot
  BY SlotAssumption
<1> QED
  BY <1>1 DEF holder

LEMMA HolderIsFunction ==
    /\ holder = [s \in Slot |-> holder[s]]
    /\ holder' = [s \in Slot |-> holder'[s]]
BY DEF holder

LEMMA CleanupIsGive ==
    ASSUME IInv, IInv', NEW w \in Worker, NEW to, Cleanup(w, to)
    PROVE  Pool!Next \/ holder' = holder
<1>1. slot' = [slot EXCEPT ![w] = NoSlot] /\ slot \in [Worker -> Slot \cup {NoSlot}]
  BY CleanupSlots DEF IInv, TypeOK
<1>2. CASE slot[w] = NoSlot
  <2>1. slot' = slot
    BY <1>2 DEF Cleanup
  <2> QED
    BY <2>1 DEF holder
<1>3. CASE slot[w] # NoSlot
  <2> DEFINE s == slot[w]
  <2>1. s \in Slot
    BY <1>1, <1>3
  <2>2. holder[s] = w /\ w # NoWorker
    BY <2>1, HolderIsUser, SlotAssumption DEF IInv, SlotAccounting
  <2>3. \A u \in Worker : slot'[u] # s
    BY <1>1, <1>3 DEF IInv, SlotAccounting
  <2>4. holder'[s] = NoWorker
    BY <2>1, <2>3 DEF holder
  <2>5. ASSUME NEW r \in Slot, r # s PROVE holder'[r] = holder[r]
    <3>1. \A u \in Worker : slot'[u] = r <=> slot[u] = r
      BY <1>1, <2>5, SlotAssumption
    <3> QED
      BY <3>1 DEF holder
  <2>6. holder' = [holder EXCEPT ![s] = NoWorker]
    BY <2>1, <2>4, <2>5, HolderIsFunction
  <2>7. Pool!Give(s)
    BY <2>2, <2>6 DEF Pool!Give
  <2> QED
    BY <2>1, <2>7 DEF Pool!Next
<1> QED
  BY <1>2, <1>3

LEMMA TakeIsTake ==
    ASSUME IInv, IInv', NEW w \in Worker, Take(w)
    PROVE  Pool!Next
<1>1. PICK s \in Members(free) : slot' = [slot EXCEPT ![w] = s]
  BY DEF Take
<1>2. slot[w] = NoSlot /\ slot \in [Worker -> Slot \cup {NoSlot}]
  BY DEF Take, IInv, TypeOK, SlotFollowsPc
<1>3. s \in Slot /\ \A u \in Worker : slot[u] # s
  BY DEF IInv, SlotAccounting
<1>4. holder[s] = NoWorker
  BY <1>3 DEF holder
<1>5. ~Pool!Has(w)
  <2>1. ASSUME NEW r \in Slot PROVE holder[r] # w
    <3>1. slot[w] # r /\ w # NoWorker
      BY <1>2, SlotAssumption
    <3> QED
      BY <3>1 DEF holder
  <2> QED
    BY <2>1 DEF Pool!Has
<1>6. slot'[w] = s
  BY <1>1, <1>2
<1>7. holder'[s] = w
  <2>1. \A u \in Worker : slot'[u] = s => u = w
    BY <1>1, <1>2, <1>3
  <2> QED
    BY <1>3, <1>6, <2>1 DEF holder
<1>8. ASSUME NEW r \in Slot, r # s PROVE holder'[r] = holder[r]
  <2>1. \A u \in Worker : slot'[u] = r <=> slot[u] = r
    BY <1>1, <1>2, <1>8, SlotAssumption
  <2> QED
    BY <2>1 DEF holder
<1>9. holder' = [holder EXCEPT ![s] = w]
  BY <1>3, <1>7, <1>8, HolderIsFunction
<1>10. Pool!Take(w, s)
  BY <1>4, <1>5, <1>9 DEF Pool!Take
<1> QED
  BY <1>3, <1>10 DEF Pool!Next

LEMMA StepIsPoolStep ==
    IInv /\ IInv' /\ [Next]_vars => [Pool!Next]_holder
<1> SUFFICES ASSUME IInv, IInv', [Next]_vars PROVE [Pool!Next]_holder
  OBVIOUS
<1>1. ASSUME UNCHANGED slot PROVE holder' = holder
  BY <1>1 DEF holder
<1>2. ASSUME NEW w \in Worker,
             \/ Request(w) \/ TakeWaits(w) \/ Abandon(w) \/ Respond(w)
             \/ Replace(w) \/ Kill(w) \/ ActOnCancel(w) \/ CancelWait(w)
             \/ Crash(w) \/ SpuriousWakeup(w)
      PROVE  UNCHANGED slot
  BY <1>2 DEF Request, TakeWaits, Abandon, Respond, Replace, Kill, ActOnCancel,
              CancelWait, Crash, SpuriousWakeup, LocalStep
<1>3. ASSUME NEW w \in Worker, Finalize(w) \/ Clear(w) \/ DtorClose(w)
      PROVE  Pool!Next \/ holder' = holder
  BY <1>3, CleanupIsGive DEF Finalize, Clear, DtorClose
<1>4. CASE UNCHANGED vars
  BY <1>1, <1>4 DEF vars
<1> QED
  BY <1>1, <1>2, <1>3, <1>4, TakeIsTake DEF Next, TakeStep, CleanupStep, CancelStep

\* The slots with their requests are a pool of resources: a slot goes from one
\* request to the next through the free list only.
THEOREM Refinement == Spec => IsResourcePool
<1>1. Init => Pool!Init
  <2> SUFFICES ASSUME Init PROVE Pool!Init
    OBVIOUS
  <2>1. \A s \in Slot : \A w \in Worker : slot[w] # s
    BY SlotAssumption DEF Init
  <2> QED
    BY <2>1 DEF Pool!Init, holder
<1>2. IInv /\ IInv' /\ [Next]_vars => [Pool!Next]_holder
  BY StepIsPoolStep
<1> QED
  BY <1>1, <1>2, InductiveInvariant, PTL DEF Spec, IsResourcePool, Pool!Spec
=============================================================================
