----------------------------- MODULE WorkerProofs ----------------------------
(***************************************************************************)
(* The safety properties of the worker threads of the server: of their     *)
(* pool, for any number of threads and any FLAG_workers, and of the token  *)
(* buckets that they take from, for any number of workers, any number of   *)
(* lanes in a word, counters of any width and any FLAG_token_burst.        *)
(*                                                                         *)
(* ListAccounting is not inductive: Worker::retire takes a worker out of   *)
(* the list its flag names, so the flag has to follow from where the       *)
(* thread is (FlagFollowsPc).  ShutdownMissesNobody needs that shutdown    *)
(* begins only once the flag is set, and DemotedLast that a worker which   *)
(* begins was not demoted in an earlier connection.                        *)
(*                                                                         *)
(* The second part is about TokenBucket.  The words are added and          *)
(* subtracted with carries and borrows that a recursion over the lanes     *)
(* defines; that there are none, where there are none, is shown by         *)
(* induction.  LowestLane and Alone say what races leave of the counters,  *)
(* and what is left of them without races.                                 *)
(***************************************************************************)
EXTENDS WorkerPool, TokenBucket, SequenceLemmas, FiniteSetTheorems

FlagFollowsPc ==
    \A t \in Thread :
        /\ pc[t] \in {"serving", "ending"} => working[t]
        /\ pc[t] \notin {"serving", "ending", "dtor"} => ~working[t]

\* A mutex held across steps is held by the one thread that is in between.
LockFollowsPc ==
    /\ owner = MainThread <=> mainPc \in {"locked", "toWait"}
    /\ \A t \in Thread : owner = t <=> pc[t] = "retiring"

ShutdownIsTerminated ==
    mainPc \in {"kill", "reap", "reapLock", "reapWait", "reapWoken", "close", "deleted"}
        => terminated

DemotedAreWorking == \A t \in demoted : working[t]

IInv ==
    /\ TypeOK
    /\ FlagFollowsPc
    /\ LockFollowsPc
    /\ ListAccounting
    /\ ShutdownIsTerminated
    /\ ShutdownMissesNobody
    /\ DemotedAreWorking
    /\ DemotedLast

-----------------------------------------------------------------------------
\* The elements of D come last in the list.
Trailing(list, D) ==
    \A i, j \in 1..Len(list) : list[i] \in D /\ i < j => list[j] \in D

\* Removing an element keeps the demoted ones last, whether it stays demoted or not.
LEMMA TrailingRemove ==
    ASSUME NEW S, NEW list \in Seq(S), NEW e \in Members(list),
           NoDuplicates(list), NEW D, Trailing(list, D)
    PROVE  Trailing(DllRemove(list, e), D) /\ Trailing(DllRemove(list, e), D \ {e})
<1> DEFINE rest == DllRemove(list, e)
<1> SUFFICES ASSUME NEW i \in 1..Len(rest), NEW j \in 1..Len(rest),
                    rest[i] \in D, i < j
             PROVE  rest[j] \in D /\ rest[j] # e
  BY DEF Trailing
<1>1. rest[j] # e
  <2>1. Members(rest) = Members(list) \ {e}
    BY RemoveProperties
  <2>2. rest[j] \in Members(rest)
    BY DEF Members
  <2> HIDE DEF rest
  <2> QED BY <2>1, <2>2
<1>2. \E a, b \in 1..Len(list) : a < b /\ rest[i] = list[a] /\ rest[j] = list[b]
  BY RemoveKeepsOrder
<1> QED BY <1>1, <1>2 DEF Trailing

\* A worker that is not demoted goes before those that are.
LEMMA TrailingMakeFirst ==
    ASSUME NEW S, NEW list \in Seq(S), NEW e \in S,
           NEW D, e \notin D, Trailing(list, D)
    PROVE  Trailing(DllMakeFirst(list, e), D)
<1> DEFINE more == DllMakeFirst(list, e)
<1> SUFFICES ASSUME NEW i \in 1..Len(more), NEW j \in 1..Len(more),
                    more[i] \in D, i < j
             PROVE  more[j] \in D
  BY DEF Trailing
<1>1. /\ Len(more) = Len(list) + 1 /\ more[1] = e
      /\ \A k \in 1..Len(list) : more[k + 1] = list[k]
  BY MakeFirstProperties
<1> HIDE DEF more
<1>2. i # 1 /\ Len(list) \in Nat
  BY <1>1
<1>3. i - 1 \in 1..Len(list) /\ j - 1 \in 1..Len(list)
  BY <1>1, <1>2
<1>4. more[i] = list[i - 1] /\ more[j] = list[j - 1]
  <2>1. more[(i - 1) + 1] = list[i - 1] /\ more[(j - 1) + 1] = list[j - 1]
    BY <1>1, <1>3
  <2>2. (i - 1) + 1 = i /\ (j - 1) + 1 = j
    OBVIOUS
  <2> QED BY <2>1, <2>2
<1> QED BY <1>3, <1>4 DEF Trailing

\* A worker that becomes demoted goes behind all others.
LEMMA TrailingMakeLast ==
    ASSUME NEW S, NEW list \in Seq(S), NEW e \in S, e \notin Members(list),
           NEW D, Trailing(list, D)
    PROVE  Trailing(DllMakeLast(list, e), D \cup {e})
<1> DEFINE more == DllMakeLast(list, e)
<1>1. /\ Len(more) = Len(list) + 1 /\ more[Len(list) + 1] = e
      /\ \A k \in 1..Len(list) : more[k] = list[k]
  BY MakeLastProperties
<1> HIDE DEF more
<1> SUFFICES ASSUME NEW i \in 1..Len(more), NEW j \in 1..Len(more),
                    more[i] \in D \cup {e}, i < j
             PROVE  more[j] \in D \cup {e}
  BY DEF Trailing, more
<1>2. i \in 1..Len(list) /\ more[i] = list[i]
  BY <1>1
<1>3. list[i] \in D
  BY <1>2 DEF Members
<1>4. CASE j = Len(list) + 1
  BY <1>1, <1>4
<1>5. CASE j \in 1..Len(list)
  BY <1>1, <1>3, <1>5 DEF Trailing
<1> QED BY <1>1, <1>4, <1>5

-----------------------------------------------------------------------------
LEMMA InitEstablishesIInv == Init => IInv
<1> SUFFICES ASSUME Init PROVE IInv
  OBVIOUS
<1>1. TypeOK
  <2>1. idle \in Seq(Thread) /\ active \in Seq(Thread)
    BY DEF Init
  <2>2. workerCount \in Nat /\ missing \in Int
    BY ThreadAssumption DEF Init
  <2> QED BY <2>1, <2>2 DEF Init, TypeOK, PcStates, MainStates
<1>2. FlagFollowsPc /\ LockFollowsPc /\ ShutdownIsTerminated
      /\ ShutdownMissesNobody /\ DemotedAreWorking
  BY ThreadAssumption DEF Init, FlagFollowsPc, LockFollowsPc,
        ShutdownIsTerminated, ShutdownMissesNobody, DemotedAreWorking
<1>3. Registrants = {} /\ Len(idle) = 0 /\ Len(active) = 0 /\ workerCount = 0
  BY DEF Init, Registrants
<1>4. ListAccounting /\ DemotedLast
  BY <1>3 DEF ListAccounting, NoDuplicates, Members, DemotedLast
<1> QED BY <1>1, <1>2, <1>4 DEF IInv

\* The invariant without the parts about the lists, their count and their order.
ControlInv ==
    /\ TypeOK
    /\ FlagFollowsPc
    /\ LockFollowsPc
    /\ ShutdownIsTerminated
    /\ ShutdownMissesNobody
    /\ DemotedAreWorking

ListInv == ListAccounting /\ DemotedLast

\* Who is listed, and where, only changes with the lists, the flags and the
\* places of the threads.
LEMMA ListsKept ==
    ASSUME ListInv, UNCHANGED <<poolVars, working, demoted>>,
           Registrants' = Registrants
    PROVE  ListInv'
BY DEF ListInv, ListAccounting, DemotedLast, poolVars, Members, NoDuplicates

\* A step of the main thread that only moves it on.
LEMMA MainGotoKeepsLists ==
    ASSUME IInv, NEW from, NEW to, MainGoto(from, to)
    PROVE  ListInv'
BY ListsKept DEF IInv, ListInv, MainGoto, workerVars, poolVars, Registrants

\* A step of a worker that touches nothing it shares.
LEMMA LocalStepKeepsLists ==
    ASSUME IInv, NEW t \in Thread, NEW from, NEW to, LocalStep(t, from, to),
           from \notin {"none", "spawned", "retiring"},
           to \in PcStates \ {"none", "spawned", "retiring"}
    PROVE  ListInv'
<1>1. Registrants' = Registrants
  BY DEF IInv, TypeOK, Registrants, LocalStep, Goto
<1> QED BY <1>1, ListsKept DEF IInv, ListInv, LocalStep

-----------------------------------------------------------------------------
\* The steps of the main thread that leave the workers and the lists alone.
LEMMA MainGotoKeepsControl ==
    ASSUME IInv, NEW from, NEW to \in MainStates, MainGoto(from, to),
           missing' \in Int,
           owner' \in {owner, MainThread, NoThread},
           owner \notin Thread \/ owner' = owner,
           owner' = MainThread <=> to \in {"locked", "toWait"},
           to \in {"kill", "reap", "reapLock", "reapWait", "reapWoken", "close", "deleted"}
               => terminated,
           to \in {"reap", "reapLock", "reapWait", "reapWoken", "close"}
               => from \in {"reap", "reapLock", "reapWait", "reapWoken", "close"}
    PROVE  ControlInv'
<1> USE ThreadAssumption DEF IInv, MainGoto, workerVars, poolVars, slotVars
<1>1. TypeOK'
  BY DEF TypeOK
<1>2. FlagFollowsPc' /\ DemotedAreWorking'
  BY DEF FlagFollowsPc, DemotedAreWorking
<1>3. LockFollowsPc'
  BY DEF LockFollowsPc
<1>4. ShutdownIsTerminated'
  BY DEF ShutdownIsTerminated
<1>5. ShutdownMissesNobody'
  BY DEF ShutdownMissesNobody
<1> QED BY <1>1, <1>2, <1>3, <1>4, <1>5 DEF ControlInv

LEMMA MainPreservesIInv ==
    ASSUME IInv, Main \/ SpuriousWakeup
    PROVE  IInv'
<1> USE ThreadAssumption DEF IInv, MainStates
<1> SUFFICES ControlInv' /\ ListInv'
  BY DEF ControlInv, ListInv
<1>1. ASSUME NEW t \in Thread, Spawn(t), mainPc \in {"boot", "spawn"}
      PROVE  ControlInv' /\ ListInv'
  <2> USE <1>1 DEF Spawn, Goto, poolVars, slotVars
  <2>1. ControlInv'
    <3>1. TypeOK'
      BY DEF TypeOK, PcStates
    <3>2. FlagFollowsPc' /\ LockFollowsPc'
      BY DEF TypeOK, FlagFollowsPc, LockFollowsPc
    <3>3. ShutdownIsTerminated' /\ ShutdownMissesNobody' /\ DemotedAreWorking'
      BY DEF TypeOK, ShutdownIsTerminated, ShutdownMissesNobody,
             DemotedAreWorking, FlagFollowsPc
    <3> QED BY <3>1, <3>2, <3>3 DEF ControlInv
  <2>2. ListInv'
    <3>1. working' = working
      BY DEF TypeOK, FlagFollowsPc
    <3>2. Registrants' = Registrants
      BY DEF TypeOK, Registrants
    <3> QED BY <3>1, <3>2, ListsKept DEF ListInv
  <2> QED BY <2>1, <2>2
<1>2. CASE BootDone
  BY <1>2, MainGotoKeepsControl, MainGotoKeepsLists
     DEF BootDone, TypeOK, MainGoto, LockFollowsPc, ShutdownIsTerminated
<1>3. CASE RunLoop
  BY <1>3, MainGotoKeepsControl, MainGotoKeepsLists
     DEF RunLoop, TypeOK, MainGoto, LockFollowsPc, ShutdownIsTerminated
<1>4. CASE RunLock
  BY <1>4, MainGotoKeepsControl, MainGotoKeepsLists
     DEF RunLock, Lockable, TypeOK, MainGoto, LockFollowsPc, ShutdownIsTerminated
<1>5. CASE RunTest
  BY <1>5, MainGotoKeepsControl, MainGotoKeepsLists
     DEF RunTest, TypeOK, MainGoto, LockFollowsPc, ShutdownIsTerminated
<1>6. CASE RunWait
  BY <1>6, MainGotoKeepsControl, MainGotoKeepsLists
     DEF RunWait, TypeOK, MainGoto, LockFollowsPc, ShutdownIsTerminated
<1>7. CASE RunWoken
  BY <1>7, MainGotoKeepsControl, MainGotoKeepsLists
     DEF RunWoken, TypeOK, MainGoto, LockFollowsPc, ShutdownIsTerminated
<1>8. CASE RunCount
  BY <1>8, MainGotoKeepsControl, MainGotoKeepsLists
     DEF RunCount, TypeOK, MainGoto, LockFollowsPc, ShutdownIsTerminated
<1>9. CASE RunSpawnFails
  BY <1>9, MainGotoKeepsControl, MainGotoKeepsLists
     DEF RunSpawnFails, TypeOK, MainGoto, LockFollowsPc, ShutdownIsTerminated
<1>10. CASE RunSpawned
  BY <1>10, MainGotoKeepsControl, MainGotoKeepsLists
     DEF RunSpawned, TypeOK, MainGoto, LockFollowsPc, ShutdownIsTerminated
<1>11. CASE ShutdownKill
  <2> USE <1>11 DEF ShutdownKill, Lockable, poolVars, slotVars
  <2>1. ListInv'
    BY ListsKept DEF ListInv, Registrants
  <2>2. TypeOK'
    BY DEF TypeOK, Members, ListAccounting
  <2>3. FlagFollowsPc' /\ LockFollowsPc' /\ ShutdownIsTerminated' /\ DemotedAreWorking'
    BY DEF FlagFollowsPc, LockFollowsPc, ShutdownIsTerminated, DemotedAreWorking
  <2>4. ShutdownMissesNobody'
    BY DEF ShutdownMissesNobody, ListAccounting, Registrants
  <2> QED BY <2>1, <2>2, <2>3, <2>4 DEF ControlInv
<1>12. CASE ReapLoop
  BY <1>12, MainGotoKeepsControl, MainGotoKeepsLists
     DEF ReapLoop, TypeOK, MainGoto, LockFollowsPc, ShutdownIsTerminated
<1>13. CASE ReapWait
  BY <1>13, MainGotoKeepsControl, MainGotoKeepsLists
     DEF ReapWait, TypeOK, MainGoto, LockFollowsPc, ShutdownIsTerminated
<1>14. CASE ReapWoken
  BY <1>14, MainGotoKeepsControl, MainGotoKeepsLists
     DEF ReapWoken, TypeOK, MainGoto, LockFollowsPc, ShutdownIsTerminated
<1>15. CASE DeleteServer
  BY <1>15, MainGotoKeepsControl, MainGotoKeepsLists
     DEF DeleteServer, TypeOK, MainGoto, LockFollowsPc, ShutdownIsTerminated
<1>16. CASE SpuriousWakeup
  BY <1>16, MainGotoKeepsControl, MainGotoKeepsLists
     DEF SpuriousWakeup, AfterSignal, TypeOK, MainGoto, LockFollowsPc, ShutdownIsTerminated
<1> QED
  BY <1>1, <1>2, <1>3, <1>4, <1>5, <1>6, <1>7, <1>8, <1>9, <1>10, <1>11,
     <1>12, <1>13, <1>14, <1>15, <1>16
     DEF Main, BootSpawn, RunSpawn

\* The termination signal changes the flag, and wakes the main thread.
LEMMA TerminatePreservesIInv ==
    ASSUME IInv, Terminate
    PROVE  IInv'
<1> USE DEF IInv, Terminate, AfterSignal, workerVars, poolVars, slotVars
<1>1. ListInv'
  BY ListsKept DEF ListInv, Registrants
<1>2. TypeOK'
  BY DEF TypeOK, MainStates
<1>3. FlagFollowsPc' /\ LockFollowsPc' /\ ShutdownIsTerminated' /\ DemotedAreWorking'
  BY DEF FlagFollowsPc, LockFollowsPc, ShutdownIsTerminated, DemotedAreWorking
<1>4. ShutdownMissesNobody'
  BY DEF ShutdownMissesNobody, HandlersInstalled
<1> QED BY <1>1, <1>2, <1>3, <1>4 DEF ListInv

-----------------------------------------------------------------------------
\* The steps of a worker that touch nothing the workers share, but for the slots.
LEMMA LocalStepPreservesIInv ==
    ASSUME IInv, NEW t \in Thread,
           \/ WorkerLoop(t) \/ Accept(t) \/ Finish(t) \/ ActOnCancel(t)
           \/ Crash(t) \/ DtorIdle(t) \/ TakeSlot(t) \/ SlotWoken(t) \/ GiveSlot(t)
    PROVE  IInv'
<1> DEFINE Listed == {"loop", "accept", "accepted", "serving", "ending", "dtor", "retire"}
           from == pc[t]
           to == pc'[t]
<1>1. /\ LocalStep(t, from, to) /\ from \in Listed /\ to \in Listed
      /\ from \in {"serving", "ending"} => to \in {"serving", "ending", "dtor"}
      /\ from \notin {"serving", "ending"} =>
            \/ to \notin {"serving", "ending"} /\ ~working[t]
            \/ from = "dtor" /\ ~working[t] /\ to = "retire"
      /\ to = "accept" => ~terminated
      /\ to \in {"accepted", "serving", "ending"}
           => from \in {"accept", "accepted", "serving", "ending"}
  BY DEF WorkerLoop, Accept, Finish, ActOnCancel, CancelInRequest, CancelInTake,
         Crash, DtorIdle, TakeSlot, SlotWoken, GiveSlot, SlotStep, LocalStep, Goto,
         IInv, TypeOK, FlagFollowsPc
<1> HIDE DEF from, to
<1>2. pc' = [pc EXCEPT ![t] = to] /\ pc[t] = from
  BY <1>1 DEF LocalStep, Goto, from
<1>3. ListInv'
  BY <1>1, LocalStepKeepsLists DEF PcStates
<1> USE <1>1, <1>2 DEF IInv, LocalStep, poolVars, mainVars
<1>4. TypeOK'
  <2>1. slot' \in [Thread -> {"none", "wait", "held", "stuck"}] /\ lockLost' \in BOOLEAN
    BY DEF WorkerLoop, Accept, Finish, ActOnCancel, CancelInRequest, CancelInTake,
           Crash, DtorIdle, TakeSlot, SlotWoken, GiveSlot, SlotStep, slotVars, TypeOK
  <2> QED
    BY <2>1 DEF TypeOK, PcStates
<1>5. FlagFollowsPc' /\ DemotedAreWorking'
  BY DEF FlagFollowsPc, DemotedAreWorking, TypeOK
<1>6. LockFollowsPc' /\ ShutdownIsTerminated'
  BY DEF LockFollowsPc, ShutdownIsTerminated, TypeOK
<1>7. ShutdownMissesNobody'
  BY DEF ShutdownMissesNobody, ShutdownIsTerminated, TypeOK
<1> QED BY <1>3, <1>4, <1>5, <1>6, <1>7 DEF ListInv

LEMMA RegisterPreservesIInv ==
    ASSUME IInv, NEW t \in Thread, Register(t)
    PROVE  IInv'
<1>1. t \notin Members(idle) /\ t \notin Members(active) /\ ~working[t]
  BY DEF IInv, Register, Goto, ListAccounting, Registrants, FlagFollowsPc
<1>2. Registrants' = Registrants \cup {t}
  BY DEF IInv, Register, Goto, TypeOK, Registrants
<1>3. /\ idle' \in Seq(Thread) /\ Len(idle') = Len(idle) + 1
      /\ Members(idle') = Members(idle) \cup {t}
      /\ NoDuplicates(idle')
  <2>1. idle \in Seq(Thread) /\ NoDuplicates(idle) /\ idle' = DllMakeFirst(idle, t)
    BY DEF IInv, TypeOK, ListAccounting, Register
  <2>2. /\ DllMakeFirst(idle, t) \in Seq(Thread)
        /\ Len(DllMakeFirst(idle, t)) = Len(idle) + 1
        /\ Members(DllMakeFirst(idle, t)) = Members(idle) \cup {t}
        /\ NoDuplicates(DllMakeFirst(idle, t))
    BY <1>1, <2>1, MakeFirstNew
  <2> QED BY <2>1, <2>2
<1> USE DEF IInv, Register, Lockable, Goto, mainVars, slotVars
<1>4. TypeOK'
  BY <1>3 DEF TypeOK, PcStates
<1>5. FlagFollowsPc' /\ LockFollowsPc' /\ ShutdownIsTerminated' /\ DemotedAreWorking'
  BY <1>1 DEF TypeOK, FlagFollowsPc, LockFollowsPc, ShutdownIsTerminated, DemotedAreWorking
<1>6. ShutdownMissesNobody'
  BY DEF ShutdownMissesNobody, TypeOK
<1>7. ListAccounting'
  <2>1. NoDuplicates(idle') /\ NoDuplicates(active')
    BY <1>3 DEF ListAccounting
  <2>2. Members(idle') = {u \in Registrants' : ~working'[u]}
    BY <1>1, <1>2, <1>3 DEF ListAccounting
  <2>3. Members(active') = {u \in Registrants' : working'[u]}
    BY <1>1, <1>2 DEF ListAccounting
  <2>4. workerCount' = Len(idle') + Len(active')
    BY <1>3 DEF ListAccounting, TypeOK
  <2> QED BY <2>1, <2>2, <2>3, <2>4 DEF ListAccounting
<1>8. DemotedLast'
  BY DEF DemotedLast
<1> QED BY <1>4, <1>5, <1>6, <1>7, <1>8

\* Worker::begin moves its worker from the idle to the active list.
LEMMA BeginPreservesIInv ==
    ASSUME IInv, NEW t \in Thread, NEW noTokens \in BOOLEAN, Begin(t, noTokens)
    PROVE  IInv'
<1>1. /\ t \in Members(idle) /\ t \notin Members(active) /\ ~working[t]
      /\ t \notin demoted
      /\ idle \in Seq(Thread) /\ NoDuplicates(idle)
      /\ active \in Seq(Thread) /\ NoDuplicates(active)
  BY DEF IInv, TypeOK, Begin, Goto, ListAccounting, Registrants, FlagFollowsPc,
         DemotedAreWorking
<1>2. Registrants' = Registrants
  BY DEF IInv, Begin, Goto, TypeOK, Registrants
<1>3. /\ idle' \in Seq(Thread) /\ Len(idle') = Len(idle) - 1
      /\ Members(idle') = Members(idle) \ {t}
      /\ NoDuplicates(idle')
  <2>1. /\ DllRemove(idle, t) \in Seq(Thread)
        /\ Len(DllRemove(idle, t)) = Len(idle) - 1
        /\ Members(DllRemove(idle, t)) = Members(idle) \ {t}
        /\ NoDuplicates(DllRemove(idle, t))
    BY <1>1, RemoveProperties
  <2>2. idle' = DllRemove(idle, t)
    BY DEF Begin
  <2> QED BY <2>1, <2>2
<1>4. /\ active' \in Seq(Thread) /\ Len(active') = Len(active) + 1
      /\ Members(active') = Members(active) \cup {t}
      /\ NoDuplicates(active')
      /\ Trailing(active', demoted')
  <2>1. CASE noTokens
    <3>1. active' = DllMakeLast(active, t) /\ demoted' = demoted \cup {t}
      BY <2>1 DEF Begin
    <3>2. /\ DllMakeLast(active, t) \in Seq(Thread)
          /\ Len(DllMakeLast(active, t)) = Len(active) + 1
          /\ Members(DllMakeLast(active, t)) = Members(active) \cup {t}
          /\ NoDuplicates(DllMakeLast(active, t))
      BY <1>1, MakeLastNew
    <3>3. Trailing(active, demoted)
      BY DEF IInv, DemotedLast, Trailing
    <3>4. Trailing(DllMakeLast(active, t), demoted \cup {t})
      BY <1>1, <3>3, TrailingMakeLast
    <3> QED BY <3>1, <3>2, <3>4
  <2>2. CASE ~noTokens
    <3>1. active' = DllMakeFirst(active, t) /\ demoted' = demoted
      BY <2>2 DEF Begin
    <3>2. /\ DllMakeFirst(active, t) \in Seq(Thread)
          /\ Len(DllMakeFirst(active, t)) = Len(active) + 1
          /\ Members(DllMakeFirst(active, t)) = Members(active) \cup {t}
          /\ NoDuplicates(DllMakeFirst(active, t))
      BY <1>1, MakeFirstNew
    <3>3. Trailing(active, demoted)
      BY DEF IInv, DemotedLast, Trailing
    <3>4. Trailing(DllMakeFirst(active, t), demoted)
      BY <1>1, <3>3, TrailingMakeFirst
    <3> QED BY <3>1, <3>2, <3>4
  <2> QED BY <2>1, <2>2
<1>5. active # <<>> => DllLast(active) \in Thread
  BY <1>1 DEF DllLast
<1> USE DEF IInv, Begin, Lockable, Goto, mainVars, slotVars
<1>6. TypeOK'
  BY <1>3, <1>4, <1>5 DEF TypeOK, PcStates
<1>7. FlagFollowsPc' /\ LockFollowsPc' /\ ShutdownIsTerminated' /\ DemotedAreWorking'
  BY <1>1 DEF TypeOK, FlagFollowsPc, LockFollowsPc, ShutdownIsTerminated, DemotedAreWorking
<1>8. ShutdownMissesNobody'
  BY DEF ShutdownMissesNobody, TypeOK
<1>9. ListAccounting'
  <2>1. Members(idle') = {u \in Registrants' : ~working'[u]}
    BY <1>1, <1>2, <1>3 DEF ListAccounting, TypeOK, Registrants
  <2>2. Members(active') = {u \in Registrants' : working'[u]}
    BY <1>1, <1>2, <1>4 DEF ListAccounting, TypeOK, Registrants
  <2>3. workerCount' = Len(idle') + Len(active')
    <3>1. workerCount' = Len(idle) + Len(active)
      BY DEF ListAccounting
    <3>2. Len(idle) \in Nat /\ Len(active) \in Nat
      BY <1>1
    <3> HIDE DEF IInv, Begin
    <3>3. Len(idle') = Len(idle) - 1 /\ Len(active') = Len(active) + 1
      BY <1>3, <1>4
    <3> QED BY <3>1, <3>2, <3>3
  <2> QED BY <1>3, <1>4, <2>1, <2>2, <2>3 DEF ListAccounting
<1>10. DemotedLast'
  BY <1>4 DEF DemotedLast, Trailing
<1> QED BY <1>6, <1>7, <1>8, <1>9, <1>10

\* Worker::deprioritize moves its worker to the end of the active list.
LEMMA DeprioritizePreservesIInv ==
    ASSUME IInv, NEW t \in Thread, Deprioritize(t)
    PROVE  IInv'
<1> DEFINE rest == DllRemove(active, t)
<1>1. /\ t \in Members(active) /\ working[t]
      /\ active \in Seq(Thread) /\ NoDuplicates(active) /\ Trailing(active, demoted)
  BY DEF IInv, TypeOK, Deprioritize, ListAccounting, Registrants, FlagFollowsPc,
         DemotedLast, Trailing
<1>2. /\ rest \in Seq(Thread) /\ Len(rest) = Len(active) - 1
      /\ Members(rest) = Members(active) \ {t}
      /\ NoDuplicates(rest)
  BY <1>1, RemoveProperties
<1>3. Trailing(rest, demoted)
  BY <1>1, TrailingRemove
<1> HIDE DEF rest
<1>4. t \notin Members(rest)
  BY <1>2
<1>5. /\ DllMakeLast(rest, t) \in Seq(Thread)
      /\ Len(DllMakeLast(rest, t)) = Len(rest) + 1
      /\ Members(DllMakeLast(rest, t)) = Members(rest) \cup {t}
      /\ NoDuplicates(DllMakeLast(rest, t))
  BY <1>2, <1>4, MakeLastNew
<1>6. Trailing(DllMakeLast(rest, t), demoted \cup {t})
  BY <1>2, <1>3, <1>4, TrailingMakeLast
<1>7. active' = DllMakeLast(rest, t) /\ demoted' = demoted \cup {t}
  BY DEF Deprioritize, rest
<1>8. /\ active' \in Seq(Thread) /\ Len(active') = Len(active)
      /\ Members(active') = Members(active) /\ NoDuplicates(active')
  <2>1. Len(DllMakeLast(rest, t)) = Len(active)
    <3>1. Len(active) \in Nat
      BY <1>1
    <3> QED BY <3>1, <1>2, <1>5
  <2>2. Members(DllMakeLast(rest, t)) = Members(active)
    BY <1>1, <1>2, <1>5
  <2> QED BY <2>1, <2>2, <1>5, <1>7
<1> USE DEF IInv, Deprioritize, Lockable, mainVars, slotVars
<1>9. TypeOK'
  BY <1>7, <1>8 DEF TypeOK
<1>10. FlagFollowsPc' /\ LockFollowsPc' /\ ShutdownIsTerminated' /\ DemotedAreWorking'
  BY <1>1 DEF FlagFollowsPc, LockFollowsPc, ShutdownIsTerminated, DemotedAreWorking
<1>11. ShutdownMissesNobody'
  BY DEF ShutdownMissesNobody
<1>12. Registrants' = Registrants
  BY DEF Registrants
<1>13. ListAccounting'
  <2>1. idle' = idle /\ working' = working /\ workerCount' = workerCount
    BY DEF poolVars
  <2> QED BY <1>8, <1>12, <2>1 DEF ListAccounting
<1>14. DemotedLast'
  BY <1>6, <1>7 DEF DemotedLast, Trailing
<1> QED BY <1>9, <1>10, <1>11, <1>13, <1>14

\* Worker::end moves its worker back to the idle list, in handle() or in the
\* destructor of a worker that was cancelled or that crashed.
LEMMA EndPreservesIInv ==
    ASSUME IInv, NEW t \in Thread, End(t) \/ DtorEnd(t)
    PROVE  IInv'
<1>1. /\ t \in Members(active) /\ t \notin Members(idle) /\ working[t]
      /\ active \in Seq(Thread) /\ NoDuplicates(active) /\ Trailing(active, demoted)
      /\ idle \in Seq(Thread) /\ NoDuplicates(idle)
  BY DEF IInv, TypeOK, End, DtorEnd, Goto, ListAccounting, Registrants, FlagFollowsPc,
         DemotedLast, Trailing
<1>2. EndSection(t) /\ pc' \in {[pc EXCEPT ![t] = "loop"], [pc EXCEPT ![t] = "retire"]}
      /\ pc[t] \in {"ending", "dtor"}
  BY DEF End, DtorEnd, Goto
<1>3. Registrants' = Registrants
  BY <1>2 DEF IInv, TypeOK, Registrants
<1>4. /\ active' \in Seq(Thread) /\ Len(active') = Len(active) - 1
      /\ Members(active') = Members(active) \ {t} /\ NoDuplicates(active')
      /\ Trailing(active', demoted')
  <2>1. /\ DllRemove(active, t) \in Seq(Thread)
        /\ Len(DllRemove(active, t)) = Len(active) - 1
        /\ Members(DllRemove(active, t)) = Members(active) \ {t}
        /\ NoDuplicates(DllRemove(active, t))
    BY <1>1, RemoveProperties
  <2>2. Trailing(DllRemove(active, t), demoted \ {t})
    BY <1>1, TrailingRemove
  <2>3. active' = DllRemove(active, t) /\ demoted' = demoted \ {t}
    BY <1>2 DEF EndSection
  <2> QED BY <2>1, <2>2, <2>3
<1>5. /\ idle' \in Seq(Thread) /\ Len(idle') = Len(idle) + 1
      /\ Members(idle') = Members(idle) \cup {t} /\ NoDuplicates(idle')
  <2>1. /\ DllMakeFirst(idle, t) \in Seq(Thread)
        /\ Len(DllMakeFirst(idle, t)) = Len(idle) + 1
        /\ Members(DllMakeFirst(idle, t)) = Members(idle) \cup {t}
        /\ NoDuplicates(DllMakeFirst(idle, t))
    BY <1>1, MakeFirstNew
  <2>2. idle' = DllMakeFirst(idle, t)
    BY <1>2 DEF EndSection
  <2> QED BY <2>1, <2>2
<1>6. /\ workerCount' = Len(idle) + Len(active)
      /\ Len(idle) \in Nat /\ Len(active) \in Nat
  BY <1>1, <1>2 DEF IInv, ListAccounting, EndSection
<1>7. workerCount' = Len(idle') + Len(active')
  BY <1>4, <1>5, <1>6
<1>8. working' = [working EXCEPT ![t] = FALSE]
  BY <1>2 DEF EndSection
<1>9. ListAccounting'
  <2>1. Members(idle') = {u \in Registrants' : ~working'[u]}
    BY <1>1, <1>3, <1>5, <1>8 DEF IInv, ListAccounting, TypeOK, Registrants
  <2>2. Members(active') = {u \in Registrants' : working'[u]}
    BY <1>1, <1>3, <1>4, <1>8 DEF IInv, ListAccounting, TypeOK, Registrants
  <2> QED BY <1>4, <1>5, <1>7, <2>1, <2>2 DEF ListAccounting
<1>10. DemotedLast'
  BY <1>4 DEF DemotedLast, Trailing
<1> USE <1>2, <1>8 DEF IInv, EndSection, Lockable, mainVars
<1>11. TypeOK'
  <2>1. slot' \in [Thread -> {"none", "wait", "held", "stuck"}] /\ lockLost' \in BOOLEAN
    BY DEF End, DtorEnd, slotVars, TypeOK
  <2> QED
    BY <1>4, <1>5, <2>1 DEF TypeOK, PcStates
<1>12. FlagFollowsPc' /\ LockFollowsPc' /\ ShutdownIsTerminated' /\ DemotedAreWorking'
  BY DEF TypeOK, FlagFollowsPc, LockFollowsPc, ShutdownIsTerminated, DemotedAreWorking
<1>13. ShutdownMissesNobody'
  BY DEF ShutdownMissesNobody, TypeOK
<1> QED BY <1>9, <1>10, <1>11, <1>12, <1>13

\* Worker::retire takes its worker out of the list its flag names: the idle one.
LEMMA RetirePreservesIInv ==
    ASSUME IInv, NEW t \in Thread, Retire(t)
    PROVE  IInv'
<1>1. /\ t \in Members(idle) /\ ~working[t]
      /\ idle \in Seq(Thread) /\ NoDuplicates(idle)
  BY DEF IInv, TypeOK, Retire, Goto, ListAccounting, Registrants, FlagFollowsPc
<1>2. /\ idle' = DllRemove(idle, t) /\ active' = active
      /\ working' = working /\ workerCount' = workerCount - 1
      /\ demoted' = demoted
  BY <1>1 DEF Retire
<1>3. Registrants' = Registrants \ {t}
  BY DEF IInv, TypeOK, Retire, Goto, Registrants
<1>4. /\ idle' \in Seq(Thread) /\ Len(idle') = Len(idle) - 1
      /\ Members(idle') = Members(idle) \ {t} /\ NoDuplicates(idle')
  <2>1. /\ DllRemove(idle, t) \in Seq(Thread)
        /\ Len(DllRemove(idle, t)) = Len(idle) - 1
        /\ Members(DllRemove(idle, t)) = Members(idle) \ {t}
        /\ NoDuplicates(DllRemove(idle, t))
    BY <1>1, RemoveProperties
  <2> QED BY <2>1, <1>2
<1>5. /\ workerCount = Len(idle) + Len(active)
      /\ Len(idle) \in Nat /\ Len(active) \in Nat /\ Len(idle') \in Nat
  BY <1>4 DEF IInv, TypeOK, ListAccounting
<1>6. workerCount' \in Nat /\ workerCount' = Len(idle') + Len(active')
  BY <1>2, <1>4, <1>5
<1>7. ListAccounting'
  <2>1. Members(idle') = {u \in Registrants' : ~working'[u]}
    BY <1>1, <1>2, <1>3, <1>4 DEF IInv, ListAccounting
  <2>2. Members(active') = {u \in Registrants' : working'[u]}
    BY <1>1, <1>2, <1>3 DEF IInv, ListAccounting
  <2>3. NoDuplicates(active')
    BY <1>2 DEF IInv, ListAccounting
  <2> QED BY <1>4, <1>6, <2>1, <2>2, <2>3 DEF ListAccounting
<1> USE <1>2 DEF IInv, Retire, Goto, Lockable, mainVars, slotVars
<1>8. TypeOK'
  BY <1>4, <1>6 DEF TypeOK, PcStates
<1>9. FlagFollowsPc' /\ LockFollowsPc' /\ ShutdownIsTerminated' /\ DemotedAreWorking'
  BY ThreadAssumption
     DEF TypeOK, FlagFollowsPc, LockFollowsPc, ShutdownIsTerminated, DemotedAreWorking
<1>10. ShutdownMissesNobody' /\ DemotedLast'
  BY DEF ShutdownMissesNobody, DemotedLast, TypeOK
<1> QED BY <1>7, <1>8, <1>9, <1>10

LEMMA RetireSignalPreservesIInv ==
    ASSUME IInv, NEW t \in Thread, RetireSignal(t)
    PROVE  IInv'
<1> USE DEF IInv, RetireSignal, Goto, poolVars, slotVars
<1>1. ListInv'
  <2>1. Registrants' = Registrants
    BY DEF TypeOK, Registrants
  <2> QED BY <2>1, ListsKept DEF ListInv
<1>2. TypeOK'
  BY DEF TypeOK, PcStates, AfterSignal, MainStates
<1>3. owner = t /\ mainPc \notin {"locked", "toWait"}
  BY ThreadAssumption DEF LockFollowsPc
<1>4. FlagFollowsPc' /\ LockFollowsPc' /\ ShutdownIsTerminated' /\ DemotedAreWorking'
  BY <1>3, ThreadAssumption
     DEF TypeOK, FlagFollowsPc, LockFollowsPc, ShutdownIsTerminated,
         DemotedAreWorking, AfterSignal
<1>5. ShutdownMissesNobody'
  BY DEF ShutdownMissesNobody, TypeOK, AfterSignal
<1> QED BY <1>1, <1>2, <1>4, <1>5 DEF ListInv

-----------------------------------------------------------------------------
LEMMA StutterPreservesIInv == IInv /\ UNCHANGED vars => IInv'
BY DEF IInv, vars, workerVars, poolVars, mainVars, slotVars, TypeOK, FlagFollowsPc,
       LockFollowsPc, ListAccounting, Registrants, ShutdownIsTerminated,
       ShutdownMissesNobody, DemotedAreWorking, DemotedLast, Members, NoDuplicates

LEMMA NextPreservesIInv == IInv /\ [Next]_vars => IInv'
<1> SUFFICES ASSUME IInv, [Next]_vars PROVE IInv'
  OBVIOUS
<1>1. CASE Main \/ SpuriousWakeup
  BY <1>1, MainPreservesIInv
<1>2. CASE Terminate
  BY <1>2, TerminatePreservesIInv
<1>3. ASSUME NEW t \in Thread,
             WorkerStep(t) \/ ClientStep(t) \/ ActOnCancel(t) \/ Crash(t)
      PROVE  IInv'
  BY <1>3, LocalStepPreservesIInv, RegisterPreservesIInv, BeginPreservesIInv,
     DeprioritizePreservesIInv, EndPreservesIInv, RetirePreservesIInv,
     RetireSignalPreservesIInv
     DEF WorkerStep, ClientStep
<1>4. CASE Exited \/ UNCHANGED vars
  BY <1>4, StutterPreservesIInv DEF Exited
<1> QED BY <1>1, <1>2, <1>3, <1>4 DEF Next

THEOREM InductiveInvariant == Spec => []IInv
<1> QED BY InitEstablishesIInv, NextPreservesIInv, PTL DEF Spec

\* Every variable keeps its type; worker_count never goes below zero.
THEOREM TypeInvariant == Spec => []TypeOK
<1>1. IInv => TypeOK
  BY DEF IInv
<1> QED BY <1>1, InductiveInvariant, PTL

\* Every registered worker is linked once, in the list its flag names, and counted.
THEOREM Accounting == Spec => []ListAccounting
<1>1. IInv => ListAccounting
  BY DEF IInv
<1> QED BY <1>1, InductiveInvariant, PTL

\* Demoted workers are the first to be preempted.
THEOREM PreemptionOrder == Spec => []DemotedLast
<1>1. IInv => DemotedLast
  BY DEF IInv
<1> QED BY <1>1, InductiveInvariant, PTL

\* The kill loop of shutdown() misses no worker that would wait for ever.
THEOREM ShutdownComplete == Spec => []ShutdownMissesNobody
<1>1. IInv => ShutdownMissesNobody
  BY DEF IInv
<1> QED BY <1>1, InductiveInvariant, PTL

-----------------------------------------------------------------------------
\* A counter goes up and down by one, unless it is at the end of its range.
LEMMA ByteBounds ==
    /\ TopBit \in Nat /\ TopBit >= 2 /\ Size = 2 * TopBit /\ Full = TopBit - 1
    /\ Size \in Nat /\ Full \in Nat /\ Full \in Byte /\ TopBit \in Byte
    /\ \A b \in Byte : b \in Nat /\ b < Size
BY TokenWordAssumption DEF Size, Full, Byte

LEMMA ByteOf ==
    ASSUME NEW x \in Int
    PROVE  /\ x % Size \in Byte
           /\ x \in Byte => x % Size = x /\ x \div Size = 0
           /\ x = -1 => x % Size = Size - 1
           /\ x = Size => x % Size = 0
<1>1. Size \in Int /\ Size > 0
  BY ByteBounds
<1>2. x % Size \in 0..(Size - 1)
  BY <1>1
<1>3. x \in Byte => 0 <= x /\ x < Size
  BY <1>1 DEF Byte
<1>4. x \in Byte => x % Size = x /\ x \div Size = 0
  BY <1>1, <1>3
<1>5. x = -1 => x % Size = Size - 1
  BY <1>1
<1>6. x = Size => x % Size = 0
  BY <1>1
<1> QED
  BY <1>2, <1>4, <1>5, <1>6 DEF Byte

LEMMA SignedIs ==
    ASSUME NEW b \in Byte
    PROVE  /\ Signed(b) \in -TopBit..Full
           /\ Signed(b) > 0 <=> b \in 1..Full
           /\ b <= Full <=> Signed(b) >= 0
           /\ b <= Full => Signed(b) = b
           /\ Signed(b) = Full <=> b = Full
BY ByteBounds DEF Signed

LEMMA Decrement ==
    ASSUME NEW b \in Byte
    PROVE  /\ (b - 1) % Size \in Byte
           /\ Signed(b) > -TopBit => Signed((b - 1) % Size) = Signed(b) - 1
<1>1. b \in Nat /\ b < Size /\ b - 1 \in Int
  BY ByteBounds
<1>2. CASE b = 0
  <2>1. (b - 1) % Size = Size - 1
    BY <1>1, <1>2, ByteOf
  <2> QED
    BY <1>2, <2>1, ByteBounds DEF Signed, Byte
<1>3. CASE b # 0
  <2>1. b - 1 \in Byte
    BY <1>1, <1>3, ByteBounds DEF Byte
  <2>2. (b - 1) % Size = b - 1
    BY <1>1, <2>1, ByteOf
  <2> QED
    BY <1>1, <1>3, <2>1, <2>2, ByteBounds DEF Signed
<1> QED
  BY <1>2, <1>3

LEMMA Increment ==
    ASSUME NEW b \in Byte, b # Full
    PROVE  (b + 1) % Size \in Byte /\ Signed((b + 1) % Size) = Signed(b) + 1
<1>1. b \in Nat /\ b < Size /\ b + 1 \in Int
  BY ByteBounds
<1>2. CASE b = Size - 1
  <2>1. (b + 1) % Size = 0
    <3>1. b + 1 = Size
      BY <1>2, ByteBounds
    <3> QED
      BY <1>1, <3>1, ByteOf
  <2> QED
    BY <1>2, <2>1, ByteBounds DEF Signed, Byte
<1>3. CASE b # Size - 1
  <2>1. b + 1 \in Byte
    BY <1>1, <1>3, ByteBounds DEF Byte
  <2>2. (b + 1) % Size = b + 1
    BY <1>1, <2>1, ByteOf
  <2> QED
    BY <1>1, <1>3, <2>1, <2>2, ByteBounds DEF Signed
<1> QED
  BY <1>2, <1>3

-----------------------------------------------------------------------------
\* The carries of an addition and the borrows of a subtraction, which AddWords
\* and SubWords define by recursion over the lanes.
CarryStep(a, d, c) ==
    [i \in 0..Lanes |-> IF i = 0 THEN 0 ELSE (a[i - 1] + d[i - 1] + c[i - 1]) \div Size]

BorrowStep(a, d, b) ==
    [i \in 0..Lanes |-> IF i = 0 \/ a[i - 1] - d[i - 1] >= b[i - 1] THEN 0 ELSE 1]

Carries(a, d) == CHOOSE c : c = CarryStep(a, d, c)
Borrows(a, d) == CHOOSE b : b = BorrowStep(a, d, b)

LEMMA LaneIndex ==
    /\ Lanes \in Nat /\ 0 \in Lane /\ Lanes >= 1
    /\ \A i \in Lane : i \in Nat /\ i \in 0..Lanes /\ i + 1 \in 1..Lanes
    /\ \A i \in 1..Lanes : i - 1 \in Lane /\ i - 1 \in 0..Lanes /\ i # 0 /\ i \in 0..Lanes
BY TokenWordAssumption DEF Lane

LEMMA CarriesAre ==
    ASSUME NEW a \in [Lane -> Int], NEW d \in [Lane -> Int]
    PROVE  /\ Carries(a, d) = CarryStep(a, d, Carries(a, d))
           /\ Carries(a, d) \in [0..Lanes -> Int]
           /\ AddWords(a, d) = [i \in Lane |-> (a[i] + d[i] + Carries(a, d)[i]) % Size]
<1> DEFINE step == [p \in (1..Lanes) \X Int |-> (a[p[1] - 1] + d[p[1] - 1] + p[2]) \div Size]
<1>1. step \in Steps(Lanes, Int)
  <2>1. ASSUME NEW p \in (1..Lanes) \X Int
        PROVE  (a[p[1] - 1] + d[p[1] - 1] + p[2]) \div Size \in Int
    <3>1. p[1] - 1 \in Lane /\ p[2] \in Int
      BY LaneIndex
    <3>2. a[p[1] - 1] \in Int /\ d[p[1] - 1] \in Int
      BY <3>1
    <3> QED
      BY <3>1, <3>2, ByteBounds
  <2> QED
    BY <2>1 DEF Steps
<1>2. PICK f : f \in Iterates(Lanes, Int, 0, step)
  <2>1. Lanes \in Nat /\ 0 \in Int
    BY LaneIndex
  <2> HIDE DEF step
  <2> QED
    BY <1>1, <2>1, Iteration
<1>3. f = CarryStep(a, d, f)
  <2>1. /\ f \in [0..Lanes -> Int] /\ f[0] = 0
        /\ \A i \in 1..Lanes : f[i] = step[<<i, f[i - 1]>>]
    BY <1>2 DEF Iterates
  <2>2. ASSUME NEW i \in 1..Lanes PROVE f[i] = (a[i - 1] + d[i - 1] + f[i - 1]) \div Size
    <3>1. <<i, f[i - 1]>> \in (1..Lanes) \X Int
      BY <2>1, LaneIndex
    <3> QED
      BY <2>1, <3>1
  <2>3. \A i \in 0..Lanes : i = 0 \/ i \in 1..Lanes
    BY LaneIndex
  <2> HIDE DEF step
  <2> QED
    BY <2>1, <2>2, <2>3 DEF CarryStep
<1> DEFINE c == Carries(a, d)
<1>4. c = CarryStep(a, d, c)
  BY <1>3 DEF Carries
<1>5. \A i \in 0..Lanes : c[i] = IF i = 0 THEN 0 ELSE (a[i - 1] + d[i - 1] + c[i - 1]) \div Size
  <2> HIDE DEF c
  <2> QED
    BY <1>4 DEF CarryStep
<1> HIDE DEF c
<1>6. \A i \in 0..Lanes : c[i] \in Int
  <2> DEFINE T == {n \in Nat : n \in 0..Lanes => c[n] \in Int}
  <2>1. 0 \in T
    BY <1>5, LaneIndex
  <2>2. ASSUME NEW n \in Nat, n \in T PROVE n + 1 \in T
    <3> SUFFICES ASSUME n + 1 \in 0..Lanes PROVE c[n + 1] \in Int
      OBVIOUS
    <3>1. n + 1 \in 1..Lanes /\ n \in 0..Lanes /\ (n + 1) - 1 = n /\ n \in Lane
      BY LaneIndex DEF Lane
    <3>2. c[n] \in Int /\ a[n] \in Int /\ d[n] \in Int
      BY <2>2, <3>1
    <3>3. c[n + 1] = (a[n] + d[n] + c[n]) \div Size
      BY <1>5, <3>1
    <3> QED
      BY <3>2, <3>3, ByteBounds
  <2>3. Nat \subseteq T
    <3> HIDE DEF T
    <3> QED
      BY <2>1, <2>2, SetInduction
  <2> QED
    BY <2>3
<1>7. c \in [0..Lanes -> Int]
  BY <1>4, <1>6 DEF CarryStep
<1>8. AddWords(a, d) = [i \in Lane |-> (a[i] + d[i] + Carries(a, d)[i]) % Size]
  BY DEF AddWords, Carries, CarryStep
<1> QED
  BY <1>4, <1>7, <1>8 DEF c

\* No lane of a sum reaches its neighbour if each fits.
LEMMA NoCarry ==
    ASSUME NEW a \in [Lane -> Int], NEW d \in [Lane -> Int],
           \A i \in Lane : a[i] + d[i] \in Byte
    PROVE  AddWords(a, d) = [i \in Lane |-> a[i] + d[i]]
<1> DEFINE c == Carries(a, d)
           T == {n \in Nat : n \in 0..Lanes => c[n] = 0}
<1>1. /\ c = CarryStep(a, d, c) /\ c \in [0..Lanes -> Int]
      /\ AddWords(a, d) = [i \in Lane |-> (a[i] + d[i] + c[i]) % Size]
  BY CarriesAre
<1> HIDE DEF c
<1>2. \A i \in 0..Lanes : c[i] = IF i = 0 THEN 0 ELSE (a[i - 1] + d[i - 1] + c[i - 1]) \div Size
  BY <1>1 DEF CarryStep
<1>3. 0 \in T
  BY <1>2, LaneIndex
<1>4. ASSUME NEW n \in Nat, n \in T PROVE n + 1 \in T
  <2> SUFFICES ASSUME n + 1 \in 0..Lanes PROVE c[n + 1] = 0
    OBVIOUS
  <2>1. n + 1 # 0 /\ n \in 0..Lanes /\ (n + 1) - 1 = n /\ n \in Lane
    BY LaneIndex DEF Lane
  <2>2. c[n] = 0 /\ a[n] + d[n] \in Byte /\ a[n] \in Int /\ d[n] \in Int
    BY <1>4, <2>1
  <2>3. c[n + 1] = (a[n] + d[n] + c[n]) \div Size
    BY <1>2, <2>1
  <2>4. a[n] + d[n] + c[n] = a[n] + d[n] /\ a[n] + d[n] \in Int
    BY <2>2
  <2> QED
    BY <2>2, <2>3, <2>4, ByteOf
<1>5. Nat \subseteq T
  <2> HIDE DEF T
  <2> QED
    BY <1>3, <1>4, SetInduction
<1>6. ASSUME NEW i \in Lane PROVE (a[i] + d[i] + c[i]) % Size = a[i] + d[i]
  <2>1. i \in Nat /\ i \in 0..Lanes
    BY LaneIndex
  <2>2. c[i] = 0 /\ a[i] \in Int /\ d[i] \in Int /\ a[i] + d[i] \in Byte
    BY <1>5, <2>1
  <2>3. a[i] + d[i] + c[i] = a[i] + d[i] /\ a[i] + d[i] \in Int
    BY <2>2
  <2> QED
    BY <2>2, <2>3, ByteOf
<1> QED
  BY <1>1, <1>6

\* No lane of a difference reaches its neighbour if each has enough.
LEMMA NoBorrow ==
    ASSUME NEW a \in [Lane -> Int], NEW d \in [Lane -> Int],
           \A i \in Lane : a[i] >= d[i]
    PROVE  SubWords(a, d) = [i \in Lane |-> (a[i] - d[i]) % Size]
<1> DEFINE none == [i \in 0..Lanes |-> 0]
           b == Borrows(a, d)
           T == {n \in Nat : n \in 0..Lanes => b[n] = 0}
<1>1. none = BorrowStep(a, d, none)
  <2>1. ASSUME NEW i \in 0..Lanes, i # 0 PROVE a[i - 1] - d[i - 1] >= none[i - 1]
    <3>1. i - 1 \in Lane /\ i - 1 \in 0..Lanes
      BY <2>1, LaneIndex DEF Lane
    <3>2. none[i - 1] = 0 /\ a[i - 1] \in Int /\ d[i - 1] \in Int /\ a[i - 1] >= d[i - 1]
      BY <3>1
    <3> QED
      BY <3>2
  <2> HIDE DEF none
  <2>2. \A i \in 0..Lanes : (IF i = 0 \/ a[i - 1] - d[i - 1] >= none[i - 1] THEN 0 ELSE 1) = 0
    BY <2>1
  <2> QED
    BY <2>2 DEF BorrowStep, none
<1>2. b = BorrowStep(a, d, b)
  <2> HIDE DEF none
  <2> QED
    BY <1>1 DEF Borrows
<1>3. SubWords(a, d) = [i \in Lane |-> (a[i] - d[i] - b[i]) % Size]
  BY DEF SubWords, Borrows, BorrowStep
<1> HIDE DEF b
<1>4. \A i \in 0..Lanes :
          b[i] = IF i = 0 \/ a[i - 1] - d[i - 1] >= b[i - 1] THEN 0 ELSE 1
  BY <1>2 DEF BorrowStep
<1>5. 0 \in T
  BY <1>4, LaneIndex
<1>6. ASSUME NEW n \in Nat, n \in T PROVE n + 1 \in T
  <2> SUFFICES ASSUME n + 1 \in 0..Lanes PROVE b[n + 1] = 0
    OBVIOUS
  <2>1. n \in 0..Lanes /\ (n + 1) - 1 = n /\ n \in Lane
    BY LaneIndex DEF Lane
  <2>2. b[n] = 0 /\ a[n] \in Int /\ d[n] \in Int /\ a[n] >= d[n]
    BY <1>6, <2>1
  <2>3. a[n] - d[n] >= b[n]
    BY <2>2
  <2> QED
    BY <1>4, <2>1, <2>3
<1>7. Nat \subseteq T
  <2> HIDE DEF T
  <2> QED
    BY <1>5, <1>6, SetInduction
<1>8. ASSUME NEW i \in Lane PROVE a[i] - d[i] - b[i] = a[i] - d[i]
  <2>1. i \in Nat /\ i \in 0..Lanes
    BY LaneIndex
  <2>2. b[i] = 0 /\ a[i] \in Int /\ d[i] \in Int
    BY <1>7, <2>1
  <2> QED
    BY <2>2
<1> QED
  BY <1>3, <1>8

\* The word that replenish_tokens adds, for every content of the lanes.
LEMMA AddendIs ==
    ASSUME NEW a \in [Lane -> Byte]
    PROVE  SwarAddend(a) = Addend(a) /\ Addend(a) \in [Lane -> {0, 1}]
<1> DEFINE c == Missing(a)
           up == [i \in Lane |-> TopBit + c[i] \div 2]
           d == [i \in Lane |-> (up[i] - c[i]) % Size]
<1>1. ASSUME NEW i \in Lane PROVE c[i] \in Byte /\ (c[i] = 0 <=> a[i] = Full)
  <2>1. c[i] = (Full - a[i]) % Size /\ a[i] \in Byte
    BY DEF Missing
  <2> HIDE DEF c
  <2>2. a[i] \in Nat /\ a[i] < Size /\ Full - a[i] \in Int
    <3>1. a[i] \in Nat /\ a[i] < Size
      BY <2>1, ByteBounds
    <3> QED
      BY <3>1, ByteBounds
  <2>3. CASE a[i] <= Full
    <3>1. Full - a[i] \in Byte
      BY <2>2, <2>3, ByteBounds DEF Byte
    <3>2. c[i] = Full - a[i]
      BY <2>1, <2>2, <3>1, ByteOf
    <3> QED
      BY <2>2, <3>1, <3>2, ByteBounds
  <2>4. CASE a[i] > Full
    <3>1. (Full - a[i]) % Size = (Full - a[i]) + Size
      BY <2>2, <2>4, ByteBounds
    <3>2. (Full - a[i]) + Size \in Byte /\ (Full - a[i]) + Size # 0
      BY <2>2, <2>4, ByteBounds DEF Byte
    <3> QED
      BY <2>1, <2>2, <2>4, <3>1, <3>2, ByteBounds
  <2> QED
    BY <2>2, <2>3, <2>4, ByteBounds
<1> HIDE DEF c
<1>2. ASSUME NEW i \in Lane
      PROVE  /\ up[i] \in Int /\ c[i] \in Int /\ up[i] >= c[i]
             /\ (up[i] - c[i]) % Size > Full <=> c[i] = 0
  <2>1. c[i] \in Nat /\ c[i] < 2 * TopBit /\ TopBit \in Nat /\ up[i] = TopBit + c[i] \div 2
    BY <1>1, ByteBounds
  <2>2. up[i] \in Int /\ up[i] >= c[i] /\ (up[i] - c[i] >= TopBit <=> c[i] = 0)
        /\ up[i] - c[i] <= TopBit
    BY <2>1
  <2>3. up[i] - c[i] \in Byte /\ up[i] - c[i] \in Int
    BY <2>1, <2>2, ByteBounds DEF Byte
  <2>4. (up[i] - c[i]) % Size = up[i] - c[i]
    BY <2>3, ByteOf
  <2> QED
    BY <2>1, <2>2, <2>3, <2>4, ByteBounds
<1>3. c \in [Lane -> Int] /\ up \in [Lane -> Int]
  <2>1. c = [i \in Lane |-> c[i]]
    BY DEF c, Missing
  <2> QED
    BY <1>2, <2>1
<1>4. SubWords(up, c) = d
  <2> HIDE DEF up
  <2>1. \A i \in Lane : up[i] >= c[i]
    BY <1>2
  <2> QED
    BY <1>3, <2>1, NoBorrow
<1>5. SwarAddend(a) = TopBitClear(d)
  BY <1>4 DEF SwarAddend, c
<1>6. \A i \in Lane : d[i] > Full <=> a[i] = Full
  <2> HIDE DEF up
  <2> QED
    BY <1>1, <1>2
<1>7. TopBitClear(d) = Addend(a)
  <2> HIDE DEF d
  <2> QED
    BY <1>6 DEF TopBitClear, Addend
<1> QED
  BY <1>5, <1>7 DEF Addend

-----------------------------------------------------------------------------
\* The workers that have found a token in the lowest lane and not taken it yet.
Takers == {w \in Worker : adding[w] = 0}

\* Each of them was counted when it found one; and what the replenisher is about
\* to add to the lowest lane still fits there.  With as many workers as a counter
\* can go below zero nothing is left to show.
LowestLane ==
    Cardinality(Worker) <= TopBit =>
        /\ Signed(bytes[0]) - Cardinality(Takers) >= 1 - Cardinality(Worker)
        /\ addend[0] = 1 => bytes[0] # Full

\* What a single worker finds and leaves: no counter is below zero, the token that
\* it has found is there until it takes it, the lanes to be replenished are not
\* full, and a lane with a token has lost one for each request of its streak.
Alone ==
    Cardinality(crowd) = 1 =>
        /\ \A w \in Worker \ crowd : adding[w] = NoLane
        /\ \A w \in crowd : adding[w] # NoLane => bytes[adding[w]] > 0
        /\ \A g \in Lane :
               /\ bytes[g] <= Full
               /\ addend[g] = 1 => bytes[g] < Full
               /\ bytes[g] = 0 \/ bytes[g] + streak[g] <= Full

BucketInv == BucketTypes /\ LowestLane /\ Alone

LEMMA WorkerCount ==
    /\ Cardinality(Worker) \in Nat
    /\ \A S \in SUBSET Worker : IsFiniteSet(S) /\ Cardinality(S) \in 0..Cardinality(Worker)
<1>1. IsFiniteSet(Worker)
  BY TokenAssumption
<1>2. Cardinality(Worker) \in Nat
  BY <1>1, FS_CardinalityType
<1>3. ASSUME NEW S \in SUBSET Worker
      PROVE  IsFiniteSet(S) /\ Cardinality(S) \in 0..Cardinality(Worker)
  <2>1. IsFiniteSet(S) /\ Cardinality(S) <= Cardinality(Worker)
    BY <1>1, FS_Subset
  <2>2. Cardinality(S) \in Nat
    BY <2>1, FS_CardinalityType
  <2> QED
    BY <1>2, <2>1, <2>2
<1> QED
  BY <1>2, <1>3

LEMMA Bounds ==
    /\ Burst \in Nat /\ Burst >= 1 /\ Burst <= Full /\ MaxStreak \in Nat /\ MaxStreak = Burst + 2
    /\ NoLane \notin Lane
BY TokenAssumption, ByteBounds DEF MaxStreak, NoLane, Lane

\* What acquire_token leaves of the history of the lanes.
LEMMA ReturnsTo ==
    ASSUME BucketTypes, NEW g \in Lane, NEW t, Returns(g, t)
    PROVE  /\ penalised' \in SUBSET Lane
           /\ streak' \in [Lane -> 0..MaxStreak]
           /\ streak'[g] = IF streak[g] = MaxStreak THEN MaxStreak ELSE streak[g] + 1
           /\ g \in penalised' <=> -t + Full > Burst
           /\ \A h \in Lane \ {g} : streak'[h] = streak[h]
           /\ \A h \in Lane \ {g} : h \in penalised' <=> h \in penalised
<1>1. /\ penalised' = IF -t + Full > Burst THEN penalised \cup {g} ELSE penalised \ {g}
      /\ streak' = [streak EXCEPT ![g] = IF @ = MaxStreak THEN @ ELSE @ + 1]
      /\ penalised \in SUBSET Lane /\ streak \in [Lane -> 0..MaxStreak]
  BY DEF Returns, BucketTypes
<1>2. (IF streak[g] = MaxStreak THEN streak[g] ELSE streak[g] + 1) \in 0..MaxStreak
  BY <1>1, Bounds
<1>3. penalised' \in SUBSET Lane
  BY <1>1
<1>4. streak' \in [Lane -> 0..MaxStreak]
  BY <1>1, <1>2
<1>5. streak'[g] = IF streak[g] = MaxStreak THEN MaxStreak ELSE streak[g] + 1
  BY <1>1
<1>6. g \in penalised' <=> -t + Full > Burst
  BY <1>1
<1>7. \A h \in Lane \ {g} : streak'[h] = streak[h] /\ (h \in penalised' <=> h \in penalised)
  BY <1>1
<1> QED
  BY <1>3, <1>4, <1>5, <1>6, <1>7

LEMMA TypesKept == BucketTypes /\ [BucketNext]_bucketVars => BucketTypes'
<1> SUFFICES ASSUME BucketTypes, [BucketNext]_bucketVars PROVE BucketTypes'
  OBVIOUS
<1>0. crowd \subseteq Worker
  BY DEF BucketTypes
<1>1. ASSUME NEW w \in crowd, AcquireAdd(w) PROVE BucketTypes'
  <2> DEFINE g == adding[w]
  <2>1. g \in Lane /\ bytes \in [Lane -> Byte]
    BY <1>0, <1>1 DEF AcquireAdd, BucketTypes
  <2>2. (bytes[g] - 1) % Size \in Byte
    BY <2>1, Decrement
  <2>3. bytes' \in [Lane -> Byte] /\ adding' \in [Worker -> Lane \cup {NoLane}]
    BY <1>1, <2>1, <2>2 DEF AcquireAdd, BucketTypes
  <2>4. Returns(g, Signed(bytes[g]))
    BY <1>1 DEF AcquireAdd
  <2>5. penalised' \in SUBSET Lane /\ streak' \in [Lane -> 0..MaxStreak]
    BY <2>1, <2>4, ReturnsTo
  <2> QED
    BY <1>1, <2>3, <2>5 DEF AcquireAdd, BucketTypes, replenisherVars
<1>2. ASSUME NEW w \in crowd, NEW g \in Lane, AcquireLoad(w, g) PROVE BucketTypes'
  BY <1>0, <1>2 DEF AcquireLoad, BucketTypes, replenisherVars
<1>3. ASSUME NEW w \in crowd, NEW g \in Lane, AcquireNone(w, g) PROVE BucketTypes'
  <2>1. penalised' \in SUBSET Lane /\ streak' \in [Lane -> 0..MaxStreak]
    BY <1>3, ReturnsTo DEF AcquireNone
  <2> QED
    BY <1>3, <2>1 DEF AcquireNone, BucketTypes, replenisherVars
<1>4. CASE ReplenishLoad
  <2>1. addend' \in [Lane -> {0, 1}]
    BY <1>4, AddendIs DEF ReplenishLoad, BucketTypes
  <2> QED
    BY <1>4, <2>1 DEF ReplenishLoad, BucketTypes, takerVars
<1>5. CASE ReplenishAdd
  <2>1. bytes \in [Lane -> Int] /\ addend \in [Lane -> Int]
    BY ByteBounds DEF BucketTypes, Byte
  <2>2. AddWords(bytes, addend) \in [Lane -> Byte]
    <3> DEFINE c == Carries(bytes, addend)
    <3>1. /\ c \in [0..Lanes -> Int]
          /\ AddWords(bytes, addend) = [i \in Lane |-> (bytes[i] + addend[i] + c[i]) % Size]
      BY <2>1, CarriesAre
    <3> HIDE DEF c
    <3>2. ASSUME NEW i \in Lane PROVE (bytes[i] + addend[i] + c[i]) % Size \in Byte
      <4>1. bytes[i] + addend[i] + c[i] \in Int
        <5>1. i \in 0..Lanes
          BY LaneIndex
        <5>2. bytes[i] \in Int /\ addend[i] \in Int /\ c[i] \in Int
          BY <2>1, <3>1, <5>1
        <5> QED
          BY <5>2
      <4> QED
        BY <4>1, ByteOf
    <3> QED
      BY <3>1, <3>2
  <2>3. addend' \in [Lane -> {0, 1}] /\ streak' \in [Lane -> 0..MaxStreak]
    BY <1>5, Bounds DEF ReplenishAdd
  <2> QED
    BY <1>5, <2>2, <2>3 DEF ReplenishAdd, BucketTypes
<1>6. CASE ClientsStop
  BY <1>6 DEF ClientsStop, BucketTypes, takerVars, replenisherVars
<1>7. CASE UNCHANGED bucketVars
  BY <1>7 DEF BucketTypes, bucketVars, takerVars, replenisherVars
<1> QED
  BY <1>1, <1>2, <1>3, <1>4, <1>5, <1>6, <1>7 DEF BucketNext, Replenisher, Quiescent

LEMMA InitBuckets == BucketInit => BucketInv
<1> SUFFICES ASSUME BucketInit PROVE BucketInv
  OBVIOUS
<1>1. BucketTypes
  <2>1. Full \in Byte /\ 0 \in 0..MaxStreak
    BY ByteBounds, Bounds
  <2>2. adding \in [Worker -> Lane \cup {NoLane}]
    BY DEF BucketInit
  <2> QED
    BY <2>1, <2>2 DEF BucketInit, BucketTypes
<1>2. LowestLane
  <2>1. Takers = {}
    BY Bounds, LaneIndex DEF BucketInit, Takers
  <2>2. Cardinality(Takers) = 0
    BY <2>1, FS_EmptySet
  <2>3. bytes[0] = Full /\ addend[0] = 0
    BY LaneIndex DEF BucketInit
  <2>4. Signed(bytes[0]) = Full
    BY <2>3, ByteBounds, SignedIs
  <2> QED
    BY <2>2, <2>3, <2>4, ByteBounds, WorkerCount DEF LowestLane
<1>3. Alone
  BY ByteBounds DEF BucketInit, Alone
<1> QED
  BY <1>1, <1>2, <1>3 DEF BucketInv

\* A worker takes the token that it has found.
LEMMA AddBuckets ==
    ASSUME BucketInv, BucketTypes', NEW w \in crowd, AcquireAdd(w)
    PROVE  LowestLane' /\ Alone'
<1> DEFINE g == adding[w]
<1>1. /\ g \in Lane /\ w \in Worker /\ bytes \in [Lane -> Byte]
      /\ bytes' = [bytes EXCEPT ![g] = (@ - 1) % Size]
      /\ adding' = [adding EXCEPT ![w] = NoLane] /\ adding \in [Worker -> Lane \cup {NoLane}]
      /\ addend' = addend /\ crowd' = crowd /\ crowd \subseteq Worker
      /\ Returns(g, Signed(bytes[g])) /\ BucketTypes /\ LowestLane /\ Alone
  BY DEF AcquireAdd, BucketInv, BucketTypes, replenisherVars
<1>2. ASSUME Cardinality(Worker) <= TopBit
      PROVE  /\ Signed(bytes'[0]) - Cardinality(Takers') >= 1 - Cardinality(Worker)
             /\ addend'[0] = 1 => bytes'[0] # Full
  <2>1. /\ Signed(bytes[0]) - Cardinality(Takers) >= 1 - Cardinality(Worker)
        /\ addend[0] = 1 => bytes[0] # Full
    BY <1>1, <1>2 DEF LowestLane
  <2>2. CASE g = 0
    <3>1. w \in Takers /\ Takers' = Takers \ {w} /\ Takers \in SUBSET Worker
      BY <1>1, <2>2, Bounds, LaneIndex DEF Takers
    <3>2. Cardinality(Takers') = Cardinality(Takers) - 1
      BY <3>1, WorkerCount, FS_RemoveElement
    <3>3. Cardinality(Takers') \in Nat /\ Cardinality(Takers) \in Nat /\ Cardinality(Worker) \in Nat
      <4>1. Takers' \in SUBSET Worker
        BY <3>1
      <4> QED
        BY <3>1, <4>1, WorkerCount
    <3>4. bytes'[0] = (bytes[0] - 1) % Size /\ bytes[0] \in Byte
      BY <1>1, <2>2
    <3>5. Signed(bytes[0]) \in -TopBit..Full
      BY <3>4, SignedIs
    <3>6. Signed(bytes[0]) > -TopBit
      BY <1>2, <2>1, <3>2, <3>3, <3>5, ByteBounds
    <3>7. Signed(bytes'[0]) = Signed(bytes[0]) - 1 /\ bytes'[0] \in Byte
      BY <3>4, <3>6, Decrement
    <3>8. bytes'[0] # Full
      BY <3>5, <3>7, SignedIs, ByteBounds
    <3> QED
      BY <2>1, <3>2, <3>3, <3>5, <3>7, <3>8, ByteBounds
  <2>3. CASE g # 0
    <3>1. bytes'[0] = bytes[0] /\ Takers' = Takers
      BY <1>1, <2>3, LaneIndex, Bounds DEF Takers
    <3> QED
      BY <1>1, <2>1, <3>1
  <2> QED
    BY <2>2, <2>3
<1>3. ASSUME Cardinality(crowd) = 1
      PROVE  /\ \A x \in Worker \ crowd : adding'[x] = NoLane
             /\ \A x \in crowd : adding'[x] = NoLane
             /\ \A h \in Lane :
                    /\ bytes'[h] <= Full
                    /\ addend'[h] = 1 => bytes'[h] < Full
                    /\ bytes'[h] = 0 \/ bytes'[h] + streak'[h] <= Full
  <2>1. /\ \A x \in Worker \ crowd : adding[x] = NoLane
        /\ bytes[g] > 0
        /\ \A h \in Lane :
               /\ bytes[h] <= Full
               /\ addend[h] = 1 => bytes[h] < Full
               /\ bytes[h] = 0 \/ bytes[h] + streak[h] <= Full
    BY <1>1, <1>3, Bounds DEF Alone
  <2>2. crowd = {w}
    <3>1. IsFiniteSet(crowd)
      BY <1>1, WorkerCount
    <3>2. \E x : crowd = {x}
      BY <1>3, <3>1, FS_Singleton
    <3> QED
      BY <3>2
  <2>3. \A x \in Worker : adding'[x] = NoLane
    BY <1>1, <2>1, <2>2
  <2>4. bytes[g] \in Nat /\ bytes[g] - 1 \in Byte
    <3>1. bytes[g] \in Byte /\ bytes[g] \in Nat /\ bytes[g] < Size
      BY <1>1, ByteBounds
    <3> QED
      BY <2>1, <3>1, ByteBounds DEF Byte
  <2>5. bytes'[g] = bytes[g] - 1
    <3>1. bytes'[g] = (bytes[g] - 1) % Size
      BY <1>1
    <3> QED
      BY <2>4, <3>1, ByteOf
  <2>6. ASSUME NEW h \in Lane
        PROVE  /\ bytes'[h] <= Full
               /\ addend'[h] = 1 => bytes'[h] < Full
               /\ bytes'[h] = 0 \/ bytes'[h] + streak'[h] <= Full
    <3>1. CASE h = g
      <4>1. /\ streak'[g] = IF streak[g] = MaxStreak THEN MaxStreak ELSE streak[g] + 1
            /\ streak[g] \in 0..MaxStreak
        <5>1. streak[g] \in 0..MaxStreak
          BY <1>1 DEF BucketTypes
        <5> HIDE DEF g
        <5> QED
          BY <1>1, <5>1, ReturnsTo
      <4>2. streak'[g] \in Nat /\ streak'[g] <= streak[g] + 1 /\ streak[g] \in Nat
        BY <4>1, Bounds
      <4> QED
        BY <1>1, <2>1, <2>4, <2>5, <3>1, <4>2, ByteBounds
    <3>2. CASE h # g
      <4>1. bytes'[h] = bytes[h]
        BY <1>1, <3>2
      <4>2. streak'[h] = streak[h]
        <5> HIDE DEF g
        <5> QED
          BY <1>1, <3>2, ReturnsTo
      <4> QED
        BY <1>1, <2>1, <4>1, <4>2
    <3> QED
      BY <3>1, <3>2
  <2> QED
    BY <1>1, <2>3, <2>6
<1> QED
  BY <1>1, <1>2, <1>3 DEF LowestLane, Alone

\* A worker finds a token ...
LEMMA LoadBuckets ==
    ASSUME BucketInv, NEW w \in crowd, NEW g \in Lane, AcquireLoad(w, g)
    PROVE  LowestLane' /\ Alone'
<1>1. /\ w \in Worker /\ bytes \in [Lane -> Byte] /\ Signed(bytes[g]) > 0
      /\ adding[w] = NoLane /\ adding \in [Worker -> Lane \cup {NoLane}]
      /\ adding' = [adding EXCEPT ![w] = g] /\ crowd \subseteq Worker
      /\ bytes' = bytes /\ addend' = addend /\ crowd' = crowd /\ streak' = streak
      /\ LowestLane /\ Alone
  BY DEF AcquireLoad, BucketInv, BucketTypes, replenisherVars
<1>2. ASSUME Cardinality(Worker) <= TopBit
      PROVE  /\ Signed(bytes[0]) - Cardinality(Takers') >= 1 - Cardinality(Worker)
             /\ addend[0] = 1 => bytes[0] # Full
  <2>1. /\ Signed(bytes[0]) - Cardinality(Takers) >= 1 - Cardinality(Worker)
        /\ addend[0] = 1 => bytes[0] # Full
    BY <1>1, <1>2 DEF LowestLane
  <2>2. CASE g = 0
    <3>1. Takers' \in SUBSET Worker
      BY <1>1 DEF Takers
    <3>2. Cardinality(Takers') \in 0..Cardinality(Worker) /\ Cardinality(Worker) \in Nat
      BY <3>1, WorkerCount
    <3>3. Signed(bytes[0]) > 0 /\ Signed(bytes[0]) \in Int
      <4>1. Signed(bytes[0]) > 0 /\ bytes[0] \in Byte
        BY <1>1, <2>2
      <4>2. Signed(bytes[0]) \in -TopBit..Full
        BY <4>1, SignedIs
      <4> QED
        BY <4>1, <4>2
    <3> QED
      BY <2>1, <3>2, <3>3
  <2>3. CASE g # 0
    <3>1. Takers' = Takers
      BY <1>1, <2>3, Bounds, LaneIndex DEF Takers
    <3> QED
      BY <2>1, <3>1
  <2> QED
    BY <2>2, <2>3
<1>3. bytes[g] > 0
  <2>1. bytes[g] \in 1..Full
    BY <1>1, SignedIs
  <2> QED
    BY <2>1, ByteBounds
<1> QED
  BY <1>1, <1>2, <1>3 DEF LowestLane, Alone

\* ... or none.
LEMMA NoneBuckets ==
    ASSUME BucketInv, BucketTypes', NEW w \in crowd, NEW g \in Lane, AcquireNone(w, g)
    PROVE  LowestLane' /\ Alone'
<1>1. /\ bytes \in [Lane -> Byte] /\ Signed(bytes[g]) <= 0
      /\ bytes' = bytes /\ addend' = addend /\ crowd' = crowd /\ adding' = adding
      /\ Returns(g, Signed(bytes[g])) /\ BucketTypes
      /\ LowestLane /\ Alone
  BY DEF AcquireNone, BucketInv, BucketTypes, replenisherVars
<1>2. LowestLane'
  BY <1>1 DEF LowestLane, Takers
<1>3. ASSUME Cardinality(crowd) = 1, NEW h \in Lane
      PROVE  bytes[h] = 0 \/ bytes[h] + streak'[h] <= Full
  <2>1. bytes[h] <= Full /\ (bytes[h] = 0 \/ bytes[h] + streak[h] <= Full)
    BY <1>1, <1>3 DEF Alone
  <2>2. CASE h = g
    <3>1. bytes[g] \in Byte /\ bytes[g] \in Nat
      BY <1>1, ByteBounds
    <3>2. ~(bytes[g] \in 1..Full)
      BY <1>1, <3>1, SignedIs, ByteBounds
    <3> QED
      BY <2>1, <2>2, <3>1, <3>2, ByteBounds
  <2>3. CASE h # g
    <3>1. streak'[h] = streak[h]
      BY <1>1, <2>3, ReturnsTo
    <3> QED
      BY <2>1, <3>1
  <2> QED
    BY <2>2, <2>3
<1> QED
  BY <1>1, <1>2, <1>3 DEF Alone

\* The replenisher loads the word ...
LEMMA ReplenishLoadBuckets ==
    ASSUME BucketInv, ReplenishLoad
    PROVE  LowestLane' /\ Alone'
<1>1. /\ bytes \in [Lane -> Byte] /\ addend' = Addend(bytes) /\ bytes' = bytes
      /\ crowd' = crowd /\ adding' = adding /\ streak' = streak
      /\ LowestLane /\ Alone
  BY AddendIs DEF ReplenishLoad, BucketInv, BucketTypes, takerVars
<1>2. \A h \in Lane : addend'[h] = 1 => bytes[h] # Full
  BY <1>1 DEF Addend
<1>3. LowestLane'
  BY <1>1, <1>2, LaneIndex DEF LowestLane, Takers
<1>4. \A h \in Lane : bytes[h] <= Full /\ addend'[h] = 1 => bytes[h] < Full
  <2> TAKE h \in Lane
  <2>1. bytes[h] \in Nat
    BY <1>1, ByteBounds
  <2> QED
    BY <1>2, <2>1, ByteBounds
<1> QED
  BY <1>1, <1>3, <1>4 DEF Alone

\* ... and adds to it, which with a single worker is an addition to each lane.
LEMMA SumOfLanes ==
    ASSUME BucketInv, Cardinality(crowd) = 1
    PROVE  /\ AddWords(bytes, addend) = [g \in Lane |-> bytes[g] + addend[g]]
           /\ \A g \in Lane : bytes[g] + addend[g] \in 0..Full
<1>1. ASSUME NEW g \in Lane PROVE bytes[g] + addend[g] \in 0..Full
  <2>1. bytes[g] \in Nat /\ addend[g] \in {0, 1}
    BY ByteBounds DEF BucketInv, BucketTypes
  <2>2. bytes[g] <= Full /\ (addend[g] = 1 => bytes[g] < Full)
    BY DEF BucketInv, Alone
  <2> QED
    BY <2>1, <2>2, ByteBounds
<1>2. \A g \in Lane : bytes[g] + addend[g] \in Byte
  <2>1. 0..Full \subseteq Byte
    BY ByteBounds DEF Byte
  <2> QED
    BY <1>1, <2>1
<1>3. bytes \in [Lane -> Int] /\ addend \in [Lane -> Int]
  BY ByteBounds DEF BucketInv, BucketTypes, Byte
<1> QED
  BY <1>1, <1>2, <1>3, NoCarry

LEMMA ReplenishAddBuckets ==
    ASSUME BucketInv, ReplenishAdd
    PROVE  LowestLane' /\ Alone'
<1>1. /\ bytes \in [Lane -> Byte] /\ addend \in [Lane -> {0, 1}]
      /\ bytes' = AddWords(bytes, addend) /\ addend' = [g \in Lane |-> 0]
      /\ crowd' = crowd /\ adding' = adding /\ streak' = [g \in Lane |-> 0]
      /\ LowestLane /\ Alone
  BY DEF ReplenishAdd, BucketInv, BucketTypes
<1>2. ASSUME Cardinality(Worker) <= TopBit
      PROVE  Signed(bytes'[0]) - Cardinality(Takers) >= 1 - Cardinality(Worker)
  <2>1. /\ Signed(bytes[0]) - Cardinality(Takers) >= 1 - Cardinality(Worker)
        /\ addend[0] = 1 => bytes[0] # Full
    BY <1>1, <1>2 DEF LowestLane
  <2> DEFINE c == Carries(bytes, addend)
  <2>2. bytes'[0] = (bytes[0] + addend[0] + c[0]) % Size /\ c[0] = 0
    <3>1. bytes \in [Lane -> Int] /\ addend \in [Lane -> Int]
      BY <1>1, ByteBounds DEF Byte
    <3>2. /\ c = CarryStep(bytes, addend, c)
          /\ AddWords(bytes, addend) = [i \in Lane |-> (bytes[i] + addend[i] + c[i]) % Size]
      BY <3>1, CarriesAre
    <3> HIDE DEF c
    <3> QED
      BY <1>1, <3>2, LaneIndex DEF CarryStep
  <2> HIDE DEF c
  <2>3. bytes[0] \in Byte /\ bytes[0] \in Nat /\ addend[0] \in {0, 1}
    BY <1>1, LaneIndex, ByteBounds
  <2>4. Cardinality(Takers) \in Nat /\ Cardinality(Worker) \in Nat
    <3>1. Takers \in SUBSET Worker
      BY DEF Takers
    <3> QED
      BY <3>1, WorkerCount
  <2>5. Signed(bytes[0]) \in Int
    BY <2>3, SignedIs, ByteBounds
  <2>6. CASE addend[0] = 0
    <3>1. bytes[0] + addend[0] + c[0] = bytes[0] /\ bytes[0] \in Int
      BY <2>2, <2>3, <2>6
    <3>2. bytes'[0] = bytes[0]
      BY <2>2, <2>3, <3>1, ByteOf
    <3> QED
      BY <2>1, <3>2
  <2>7. CASE addend[0] = 1
    <3>1. bytes[0] + addend[0] + c[0] = bytes[0] + 1
      BY <2>2, <2>3, <2>7
    <3>2. Signed(bytes'[0]) = Signed(bytes[0]) + 1
      BY <2>1, <2>2, <2>3, <2>7, <3>1, Increment
    <3> QED
      BY <2>1, <2>4, <2>5, <3>2
  <2> QED
    BY <2>3, <2>6, <2>7
<1>3. LowestLane'
  <2>1. addend'[0] = 0 /\ Takers' = Takers
    BY <1>1, LaneIndex DEF Takers
  <2> QED
    BY <1>2, <2>1 DEF LowestLane
<1>4. ASSUME Cardinality(crowd) = 1
      PROVE  /\ \A g \in Lane : bytes'[g] <= Full /\ bytes'[g] + streak'[g] <= Full
             /\ \A g \in Lane : bytes'[g] >= bytes[g]
  <2>1. ASSUME NEW g \in Lane
        PROVE  /\ bytes'[g] <= Full /\ bytes'[g] + streak'[g] <= Full
               /\ bytes'[g] >= bytes[g]
    <3>1. bytes'[g] = bytes[g] + addend[g] /\ bytes[g] + addend[g] \in 0..Full
      BY <1>1, <1>4, SumOfLanes
    <3>2. bytes[g] \in Nat /\ addend[g] \in {0, 1} /\ streak'[g] = 0
      BY <1>1, ByteBounds
    <3> QED
      BY <3>1, <3>2, ByteBounds
  <2> QED
    BY <2>1
<1>5. Alone'
  <2> SUFFICES ASSUME Cardinality(crowd) = 1
               PROVE  /\ \A w \in Worker \ crowd : adding[w] = NoLane
                      /\ \A w \in crowd : adding[w] # NoLane => bytes'[adding[w]] > 0
                      /\ \A g \in Lane :
                             /\ bytes'[g] <= Full
                             /\ addend'[g] = 1 => bytes'[g] < Full
                             /\ bytes'[g] = 0 \/ bytes'[g] + streak'[g] <= Full
    BY <1>1 DEF Alone
  <2>1. ASSUME NEW w \in crowd, adding[w] # NoLane PROVE bytes'[adding[w]] > 0
    <3>1. adding[w] \in Lane /\ bytes[adding[w]] > 0
      BY <1>1, <2>1 DEF Alone, BucketInv, BucketTypes
    <3>2. bytes'[adding[w]] = bytes[adding[w]] + addend[adding[w]]
      BY <1>1, <3>1, SumOfLanes
    <3>3. bytes[adding[w]] \in Nat /\ addend[adding[w]] \in {0, 1}
      BY <1>1, <3>1, ByteBounds
    <3> QED
      BY <3>1, <3>2, <3>3
  <2>2. \A g \in Lane : addend'[g] # 1
    BY <1>1
  <2> QED
    BY <1>1, <1>4, <2>1, <2>2 DEF Alone
<1> QED
  BY <1>3, <1>5

LEMMA NextBuckets == BucketInv /\ [BucketNext]_bucketVars => BucketInv'
<1> SUFFICES ASSUME BucketInv, [BucketNext]_bucketVars PROVE BucketInv'
  OBVIOUS
<1>1. BucketTypes'
  BY TypesKept DEF BucketInv
<1>2. LowestLane' /\ Alone'
  <2>1. ASSUME NEW w \in crowd, AcquireAdd(w) PROVE LowestLane' /\ Alone'
    BY <1>1, <2>1, AddBuckets
  <2>2. ASSUME NEW w \in crowd, NEW g \in Lane, AcquireLoad(w, g)
        PROVE  LowestLane' /\ Alone'
    BY <2>2, LoadBuckets
  <2>3. ASSUME NEW w \in crowd, NEW g \in Lane, AcquireNone(w, g)
        PROVE  LowestLane' /\ Alone'
    BY <1>1, <2>3, NoneBuckets
  <2>4. CASE ReplenishLoad
    BY <2>4, ReplenishLoadBuckets
  <2>5. CASE ReplenishAdd
    BY <2>5, ReplenishAddBuckets
  <2>6. CASE ClientsStop
    BY <2>6
    DEF ClientsStop, takerVars, replenisherVars, BucketInv, LowestLane, Alone, Takers
  <2>7. CASE UNCHANGED bucketVars
    BY <2>7
    DEF bucketVars, takerVars, replenisherVars, BucketInv, LowestLane, Alone, Takers
  <2> QED
    BY <2>1, <2>2, <2>3, <2>4, <2>5, <2>6, <2>7 DEF BucketNext, Replenisher, Quiescent
<1> QED
  BY <1>1, <1>2 DEF BucketInv

LEMMA BucketInvariant == BucketSpec => []BucketInv
BY InitBuckets, NextBuckets, PTL DEF BucketSpec

\* Whoever races with whom, the counters stay in their bytes, the word that
\* replenish_tokens computes adds one to each lane that is not full and to no other,
\* and no race overdraws the lowest lane by more than a token for each worker.
THEOREM BucketsSound == BucketSpec => []CountersSound
<1>1. BucketInv => CountersSound
  <2> SUFFICES ASSUME BucketInv PROVE CountersSound
    OBVIOUS
  <2>1. BucketTypes /\ bytes \in [Lane -> Byte]
    BY DEF BucketInv, BucketTypes
  <2>2. AddendCorrect
    BY <2>1, AddendIs DEF AddendCorrect
  <2>3. OverdrawBounded
    <3>1. Signed(bytes[0]) \in -TopBit..Full
      BY <2>1, SignedIs, LaneIndex
    <3>2. Cardinality(Worker) \in Nat /\ Cardinality(Takers) \in Nat
      <4>1. Takers \in SUBSET Worker
        BY DEF Takers
      <4> QED
        BY <4>1, WorkerCount
    <3>3. CASE Cardinality(Worker) <= TopBit
      <4>1. Signed(bytes[0]) - Cardinality(Takers) >= 1 - Cardinality(Worker)
        BY <3>3 DEF BucketInv, LowestLane
      <4> QED
        BY <3>1, <3>2, <4>1, ByteBounds DEF OverdrawBounded
    <3>4. CASE ~(Cardinality(Worker) <= TopBit)
      BY <3>1, <3>2, <3>4, ByteBounds DEF OverdrawBounded
    <3> QED
      BY <3>3, <3>4
  <2> QED
    BY <2>1, <2>2, <2>3 DEF CountersSound
<1> QED
  BY <1>1, BucketInvariant, PTL

\* --token-burst below 127: a single worker penalises whoever asks for more than
\* that between two replenishments.  With 127 it never does.
THEOREM BurstIsLimit == ASSUME Burst < Full PROVE BucketSpec => []RestrictionsKickIn
<1>1. BucketInit => RestrictionsKickIn
  BY Bounds DEF BucketInit, RestrictionsKickIn
<1>2. BucketInv /\ RestrictionsKickIn /\ [BucketNext]_bucketVars => RestrictionsKickIn'
  <2> SUFFICES ASSUME BucketInv, RestrictionsKickIn, [BucketNext]_bucketVars,
                      Cardinality(crowd') = 1, NEW h \in Lane, streak'[h] = MaxStreak
               PROVE  h \in penalised'
    BY DEF RestrictionsKickIn
  <2>1. crowd' = crowd
    BY DEF BucketNext, bucketVars, AcquireAdd, AcquireLoad, AcquireNone, Replenisher,
           ReplenishLoad, ReplenishAdd, ClientsStop, Quiescent
  <2>2. /\ Cardinality(crowd) = 1 /\ BucketTypes /\ bytes \in [Lane -> Byte]
        /\ streak[h] = MaxStreak => h \in penalised
    BY <2>1 DEF RestrictionsKickIn, BucketInv, BucketTypes
  <2>3. ASSUME NEW g \in Lane, Returns(g, Signed(bytes[g])) PROVE h \in penalised'
    <3>1. CASE h = g
      <4>1. bytes[g] <= Full /\ (bytes[g] = 0 \/ bytes[g] + streak[g] <= Full)
        BY <2>2 DEF BucketInv, Alone
      <4>2. bytes[g] \in Nat /\ streak[g] \in 0..MaxStreak /\ Signed(bytes[g]) = bytes[g]
        <5>1. bytes[g] \in Byte /\ streak[g] \in 0..MaxStreak
          BY <2>2 DEF BucketTypes
        <5> QED
          BY <4>1, <5>1, ByteBounds, SignedIs
      <4>3. /\ streak'[g] = IF streak[g] = MaxStreak THEN MaxStreak ELSE streak[g] + 1
            /\ g \in penalised' <=> -Signed(bytes[g]) + Full > Burst
        BY <2>2, <2>3, ReturnsTo
      <4>4. streak[g] >= Burst + 1
        BY <3>1, <4>2, <4>3, Bounds
      <4>5. -bytes[g] + Full > Burst
        BY <4>1, <4>2, <4>4, Bounds, ByteBounds
      <4> QED
        BY <3>1, <4>2, <4>3, <4>5
    <3>2. CASE h # g
      <4>1. streak'[h] = streak[h] /\ (h \in penalised' <=> h \in penalised)
        BY <2>2, <2>3, <3>2, ReturnsTo
      <4> QED
        BY <2>2, <4>1
    <3> QED
      BY <3>1, <3>2
  <2>4. ASSUME NEW w \in crowd, AcquireAdd(w) PROVE h \in penalised'
    <3>1. adding[w] \in Lane /\ Returns(adding[w], Signed(bytes[adding[w]]))
      BY <2>2, <2>4 DEF AcquireAdd, BucketTypes
    <3> QED
      BY <2>3, <3>1
  <2>5. ASSUME NEW w \in crowd, NEW g \in Lane, AcquireNone(w, g) PROVE h \in penalised'
    BY <2>3, <2>5 DEF AcquireNone
  <2>6. CASE ReplenishAdd
    BY <2>6, Bounds DEF ReplenishAdd
  <2>7. CASE UNCHANGED <<penalised, streak>>
    BY <2>2, <2>7
  <2> QED
    BY <2>4, <2>5, <2>6, <2>7
    DEF BucketNext, bucketVars, takerVars, AcquireLoad, Replenisher, ReplenishLoad,
        ClientsStop, Quiescent
<1> QED
  BY <1>1, <1>2, BucketInvariant, PTL DEF BucketSpec

\* A single worker and the replenisher, whatever the order of their steps, do to
\* the packed counters what TokenBuckets does to separate ones.
THEOREM BucketsAreSeparate == BucketSpec => IsTokenBuckets
<1>1. BucketInv /\ [BucketNext]_bucketVars
        => (Cardinality(crowd) = 1 => Ideal!Next \/ UNCHANGED tokens)
  <2> SUFFICES ASSUME BucketInv, [BucketNext]_bucketVars, Cardinality(crowd) = 1
               PROVE  Ideal!Next \/ UNCHANGED tokens
    OBVIOUS
  <2>1. BucketTypes /\ Alone /\ bytes \in [Lane -> Byte] /\ addend \in [Lane -> {0, 1}]
    BY DEF BucketInv, BucketTypes
  <2>2. ASSUME NEW w \in crowd, AcquireAdd(w) PROVE Ideal!Next
    <3> DEFINE g == adding[w]
    <3>1. /\ g \in Lane /\ bytes' = [bytes EXCEPT ![g] = (@ - 1) % Size]
          /\ bytes[g] > 0 /\ bytes[g] <= Full /\ bytes[g] \in Byte
      BY <2>1, <2>2, Bounds DEF AcquireAdd, BucketTypes, Alone
    <3> HIDE DEF g
    <3>2. Signed(bytes[g]) > 0 /\ Signed(bytes[g]) > -TopBit
      <4>1. Signed(bytes[g]) = bytes[g] /\ bytes[g] \in Nat
        BY <3>1, SignedIs, ByteBounds
      <4> QED
        BY <3>1, <4>1, ByteBounds
    <3>3. Signed(bytes'[g]) = Signed(bytes[g]) - 1
      BY <2>1, <3>1, <3>2, Decrement
    <3>4. \A h \in Lane \ {g} : bytes'[h] = bytes[h]
      BY <2>1, <3>1
    <3>5. tokens[g] > 0 /\ tokens' = [tokens EXCEPT ![g] = @ - 1]
      <4>1. \A h \in Lane : tokens[h] = Signed(bytes[h]) /\ tokens'[h] = Signed(bytes'[h])
        BY DEF tokens
      <4>2. tokens = [h \in Lane |-> tokens[h]] /\ tokens' = [h \in Lane |-> tokens'[h]]
        BY DEF tokens
      <4>3. tokens'[g] = tokens[g] - 1 /\ tokens[g] > 0
        BY <3>1, <3>2, <3>3, <4>1
      <4>4. \A h \in Lane \ {g} : tokens'[h] = tokens[h]
        BY <3>4, <4>1
      <4> QED
        BY <3>1, <4>2, <4>3, <4>4
    <3> QED
      BY <3>1, <3>5 DEF Ideal!Next, Ideal!Acquire
  <2>3. CASE ReplenishAdd
    <3> DEFINE some == {g \in Lane : addend[g] = 1}
    <3>1. ASSUME NEW g \in Lane
          PROVE  /\ Signed(bytes'[g]) = IF g \in some THEN Signed(bytes[g]) + 1
                                        ELSE Signed(bytes[g])
                 /\ g \in some => Signed(bytes[g]) < Full
      <4>1. bytes'[g] = bytes[g] + addend[g] /\ bytes[g] + addend[g] \in 0..Full
        BY <2>3, SumOfLanes DEF ReplenishAdd
      <4>2. /\ bytes[g] \in Byte /\ bytes[g] \in Nat /\ addend[g] \in {0, 1}
            /\ bytes[g] <= Full /\ (addend[g] = 1 => bytes[g] < Full)
        BY <2>1, ByteBounds DEF Alone
      <4>3. bytes'[g] \in Byte /\ bytes'[g] <= Full
        BY <4>1, ByteBounds DEF Byte
      <4>4. Signed(bytes'[g]) = bytes'[g] /\ Signed(bytes[g]) = bytes[g]
        BY <4>2, <4>3, SignedIs
      <4> QED
        BY <4>1, <4>2, <4>4, ByteBounds
    <3> HIDE DEF some
    <3>2. some \in SUBSET {g \in Lane : tokens[g] < Full}
      BY <3>1 DEF some, tokens
    <3>3. tokens' = [g \in Lane |-> IF g \in some THEN tokens[g] + 1 ELSE tokens[g]]
      BY <3>1 DEF tokens
    <3> QED
      BY <3>2, <3>3 DEF Ideal!Next, Ideal!Replenish
  <2>4. CASE UNCHANGED bytes
    BY <2>4 DEF tokens
  <2> QED
    BY <2>2, <2>3, <2>4
    DEF BucketNext, bucketVars, takerVars, AcquireLoad, AcquireNone, Replenisher,
        ReplenishLoad, ClientsStop, Quiescent
<1> QED
  BY <1>1, BucketInvariant, PTL DEF BucketSpec, IsTokenBuckets
=============================================================================
