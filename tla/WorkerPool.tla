----------------------------- MODULE WorkerPool -----------------------------
(***************************************************************************)
(* The HTTP worker threads of llamafiler and the main thread that keeps    *)
(* their number up (server.cpp, worker.cpp, signals.cpp, prog.cpp).        *)
(*                                                                         *)
(* A worker registers itself in the idle list, accepts a connection, moves *)
(* to the active list while it serves it, and moves back.  The worker that *)
(* takes the last idle place cancels the last active one.  A worker that   *)
(* is cancelled or that crashes runs the destructor of its thread key,     *)
(* which takes it out of the lists and signals the main thread, which      *)
(* spawns what is missing.  On a termination signal the main thread        *)
(* cancels every listed worker and waits until none is counted.            *)
(*                                                                         *)
(* A request may borrow a slot.  SlotPool says which one and from whom; of *)
(* that only remains here what can hold a worker up, the lock of the slots *)
(* that a waiter which is cancelled in Slots::take never releases.         *)
(*                                                                         *)
(* One action is one critical section, or one read or write outside of     *)
(* them.  The mutex is explicit because the count, the termination flag    *)
(* and the server's destructor are reached without it.                     *)
(***************************************************************************)
EXTENDS Dll, FiniteSets

CONSTANTS
    Thread,       \* the worker threads the OS lets the process have at once
    NumWorkers,   \* FLAG_workers
    MainThread,   \* the thread of main()
    NoThread,
    Spurious      \* whether a condition variable may wake for no reason

ASSUME ThreadAssumption ==
    /\ NumWorkers \in Nat \ {0}
    /\ MainThread \notin Thread
    /\ NoThread \notin Thread \cup {MainThread}
    /\ Spurious \in BOOLEAN

VARIABLES
    pc,           \* pc[t]: where worker thread t is, "none" if it does not exist
    working,      \* Worker::working_
    pending,      \* threads with a cancellation they have not acted upon
    demoted,      \* history: active workers put last since they began
    idle,         \* Server::idle_workers
    active,       \* Server::active_workers
    workerCount,  \* Server::worker_count
    terminated,   \* Server::terminated
    owner,        \* the thread that holds Server::lock_
    mainPc,       \* where the main thread is
    missing,      \* the spawns left to do in main() or Server::run()
    slot,         \* slot[t]: what t's request has of Slots; "stuck" is blocked on lock_
    lockLost      \* a thread died while it held Slots::lock_

workerVars == <<pc, working, pending, demoted>>
poolVars == <<idle, active, workerCount>>
mainVars == <<mainPc, missing>>
slotVars == <<slot, lockLost>>
vars == <<workerVars, poolVars, terminated, owner, mainVars, slotVars>>

Init ==
    /\ pc = [t \in Thread |-> "none"]
    /\ working = [t \in Thread |-> FALSE]
    /\ pending = {}
    /\ demoted = {}
    /\ idle = <<>>
    /\ active = <<>>
    /\ workerCount = 0
    /\ terminated = FALSE
    /\ owner = NoThread
    /\ mainPc = "boot"
    /\ missing = NumWorkers
    /\ slot = [t \in Thread |-> "none"]
    /\ lockLost = FALSE

-----------------------------------------------------------------------------
\* Past `delete g_server` a worker that still runs uses freed memory; such an
\* execution is not followed any further.
Alive == mainPc # "deleted"

\* Server::lock succeeds.
Lockable == owner = NoThread /\ Alive

\* Server::signal.  Only the main thread waits on cond_.
AfterSignal(at) ==
    CASE at = "wait"     -> "woken"
      [] at = "reapWait" -> "reapWoken"
      [] OTHER           -> at

\* The handlers are there from signals_init to signals_destroy.
HandlersInstalled ==
    mainPc \in {"run", "lock", "locked", "toWait", "wait", "woken", "count", "spawn"}

MainGoto(from, to) ==
    /\ mainPc = from
    /\ mainPc' = to
    /\ UNCHANGED <<workerVars, poolVars, terminated, slotVars>>

Goto(t, from, to) ==
    /\ pc[t] = from
    /\ pc' = [pc EXCEPT ![t] = to]

\* A step of a worker that touches nothing the workers share, but for the slots.
LocalStep(t, from, to) ==
    /\ Alive
    /\ Goto(t, from, to)
    /\ UNCHANGED <<working, pending, demoted, poolVars, terminated, owner, mainVars>>

\* A step inside of a request that leaves the slots of the other workers alone.
SlotStep(t, from, to) ==
    /\ LocalStep(t, "serving", "serving")
    /\ slot[t] = from
    /\ slot' = [slot EXCEPT ![t] = to]
    /\ UNCHANGED lockLost

-----------------------------------------------------------------------------
\* Faulty variants of actions below, which show what each property catches.

\* shutdown() that cancels the idle workers only.
ShutdownKillIdleOnly ==
    /\ mainPc = "kill" /\ Lockable
    /\ mainPc' = "reap"
    /\ pending' = pending \cup Members(idle)
    /\ UNCHANGED <<pc, working, demoted, poolVars, terminated, owner, missing, slotVars>>

\* run() that does not test the flag again under the lock.
RunTestDropped ==
    /\ MainGoto("locked", "toWait")
    /\ UNCHANGED <<owner, missing>>

\* deprioritize() that moves the worker to the wrong end.
DeprioritizeToFront(t) ==
    /\ pc[t] = "serving" /\ slot[t] = "none" /\ Lockable
    /\ active' = DllMakeFirst(DllRemove(active, t), t)
    /\ demoted' = demoted \cup {t}
    /\ UNCHANGED <<pc, working, pending, idle, workerCount, terminated, owner, mainVars, slotVars>>

\* end() that does not clear working_.
EndSectionStillWorking(t) ==
    /\ Lockable
    /\ active' = DllRemove(active, t)
    /\ idle' = DllMakeFirst(idle, t)
    /\ demoted' = demoted \ {t}
    /\ UNCHANGED <<working, pending, workerCount, terminated, owner, mainVars>>

\* A client that blocks cancellations.
ActOnCancelInAcceptOnly(t) ==
    t \in pending /\ LocalStep(t, "accept", "dtor") /\ UNCHANGED slotVars

-----------------------------------------------------------------------------
\* The main thread: main(), Server::run and Server::shutdown.

\* Server::spawn: new Worker, pthread_create.
Spawn(t) ==
    /\ missing > 0
    /\ Goto(t, "none", "spawned")
    /\ working' = [working EXCEPT ![t] = FALSE]
    /\ missing' = missing - 1
    /\ UNCHANGED <<pending, demoted, poolVars, terminated, owner, mainPc, slotVars>>

\* main() spawns FLAG_workers times, and requires that each works.
BootSpawn(t) == mainPc = "boot" /\ Spawn(t)

BootDone == missing = 0 /\ MainGoto("boot", "run") /\ UNCHANGED <<owner, missing>>

\* while (!terminated) ...
RunLoop ==
    /\ MainGoto("run", IF terminated THEN "kill" ELSE "lock")
    /\ UNCHANGED <<owner, missing>>

RunLock ==
    /\ Lockable
    /\ MainGoto("lock", "locked")
    /\ owner' = MainThread
    /\ UNCHANGED missing

\* if (!terminated) wait(): the test, and then the wait that gives up the lock.
RunTest ==
    /\ MainGoto("locked", IF terminated THEN "count" ELSE "toWait")
    /\ owner' = IF terminated THEN NoThread ELSE owner
    /\ UNCHANGED missing

RunWait ==
    /\ MainGoto("toWait", "wait")
    /\ owner' = NoThread
    /\ UNCHANGED missing

\* The wait ends: it takes the lock again, and unlock() releases it.
RunWoken == Lockable /\ MainGoto("woken", "count") /\ UNCHANGED <<owner, missing>>

\* if (terminated) break; missing = FLAG_workers - worker_count, unlocked.
RunCount ==
    /\ MainGoto("count", IF terminated THEN "kill" ELSE "spawn")
    /\ missing' = IF terminated THEN missing ELSE NumWorkers - workerCount
    /\ UNCHANGED owner

RunSpawn(t) == mainPc = "spawn" /\ Spawn(t)

\* pthread_create fails at the thread limit; run() ignores what spawn returns.
RunSpawnFails ==
    /\ missing > 0
    /\ \A t \in Thread : pc[t] # "none"
    /\ MainGoto("spawn", "spawn")
    /\ missing' = missing - 1
    /\ UNCHANGED owner

RunSpawned == missing <= 0 /\ MainGoto("spawn", "run") /\ UNCHANGED <<owner, missing>>

\* The locked section of shutdown() that cancels every listed worker.
ShutdownKill ==
    /\ mainPc = "kill" /\ Lockable
    /\ mainPc' = "reap"
    /\ pending' = pending \cup Members(idle) \cup Members(active)
    /\ UNCHANGED <<pc, working, demoted, poolVars, terminated, owner, missing, slotVars>>

\* while (worker_count > 0), read without the lock.
ReapLoop ==
    /\ MainGoto("reap", IF workerCount > 0 THEN "reapLock" ELSE "close")
    /\ UNCHANGED <<owner, missing>>

\* lock(); if (worker_count > 0) wait(); else unlock().
ReapWait ==
    /\ Lockable
    /\ MainGoto("reapLock", IF workerCount > 0 THEN "reapWait" ELSE "reap")
    /\ UNCHANGED <<owner, missing>>

ReapWoken == Lockable /\ MainGoto("reapWoken", "reap") /\ UNCHANGED <<owner, missing>>

\* Server::close and delete g_server.
DeleteServer == MainGoto("close", "deleted") /\ UNCHANGED <<owner, missing>>

Main ==
    \/ \E t \in Thread : BootSpawn(t) \/ RunSpawn(t)
    \/ BootDone \/ RunLoop \/ RunLock \/ RunTest \/ RunWait \/ RunWoken
    \/ RunCount \/ RunSpawnFails \/ RunSpawned
    \/ ShutdownKill \/ ReapLoop \/ ReapWait \/ ReapWoken \/ DeleteServer

SpuriousWakeup ==
    /\ Spurious
    /\ mainPc \in {"wait", "reapWait"}
    /\ MainGoto(mainPc, AfterSignal(mainPc))
    /\ UNCHANGED <<owner, missing>>

\* on_termination_signal.  It runs on the main thread, at any point of it and
\* without the lock: the other threads block SIGHUP, SIGINT and SIGTERM.
Terminate ==
    /\ HandlersInstalled
    /\ terminated' = TRUE
    /\ mainPc' = AfterSignal(mainPc)
    /\ UNCHANGED <<workerVars, poolVars, owner, missing, slotVars>>

-----------------------------------------------------------------------------
\* A worker thread: Worker::run, handle, begin, end, deprioritize, retire.

\* The locked section at the head of Worker::run.
Register(t) ==
    /\ Goto(t, "spawned", "loop")
    /\ Lockable
    /\ idle' = DllMakeFirst(idle, t)
    /\ workerCount' = workerCount + 1
    /\ UNCHANGED <<working, pending, demoted, active, terminated, owner, mainVars, slotVars>>

\* while (!terminated) handle(); past the loop the destructor is disarmed.
WorkerLoop(t) ==
    LocalStep(t, "loop", IF terminated THEN "retire" ELSE "accept") /\ UNCHANGED slotVars

\* accept() returns a connection, or fails and handle() returns.
Accept(t) ==
    /\ LocalStep(t, "accept", "accepted") \/ LocalStep(t, "accept", "loop")
    /\ UNCHANGED slotVars

\* Worker::begin.  Leaving the idle list empty cancels the last active worker.
\* A client without tokens puts its worker last instead of first.
Begin(t, noTokens) ==
    /\ Goto(t, "accepted", "serving")
    /\ Lockable
    /\ idle' = DllRemove(idle, t)
    /\ pending' = IF idle' = <<>> /\ active # <<>>
                  THEN pending \cup {DllLast(active)}
                  ELSE pending
    /\ working' = [working EXCEPT ![t] = TRUE]
    /\ active' = IF noTokens THEN DllMakeLast(active, t)
                             ELSE DllMakeFirst(active, t)
    /\ demoted' = IF noTokens THEN demoted \cup {t} ELSE demoted
    /\ UNCHANGED <<workerCount, terminated, owner, mainVars, slotVars>>

\* Worker::deprioritize, from Client::transport before it dispatches.
Deprioritize(t) ==
    /\ pc[t] = "serving" /\ slot[t] = "none" /\ Lockable
    /\ active' = DllMakeLast(DllRemove(active, t), t)
    /\ demoted' = demoted \cup {t}
    /\ UNCHANGED <<pc, working, pending, idle, workerCount, terminated, owner, mainVars, slotVars>>

\* Slots::take of a completion handler: whether a slot is free is left open.
\* Nothing ends the wait for a mutex whose owner is dead.
TakeSlot(t) ==
    \/ ~lockLost /\ (SlotStep(t, "none", "held") \/ SlotStep(t, "none", "wait"))
    \/ lockLost /\ SlotStep(t, "none", "stuck")

\* pthread_cond_wait in take() takes the lock again, and a slot is free.
SlotWoken(t) == ~lockLost /\ SlotStep(t, "wait", "held")

\* cleanup_slot, called by the handler, by clear() behind it or by close().
GiveSlot(t) == SlotStep(t, "held", IF lockLost THEN "stuck" ELSE "none")

\* Client::run has returned or thrown, and the client is closed.
Finish(t) == slot[t] = "none" /\ LocalStep(t, "serving", "ending") /\ UNCHANGED slotVars

\* Worker::end, which handle() and the destructor call.
EndSection(t) ==
    /\ Lockable
    /\ active' = DllRemove(active, t)
    /\ working' = [working EXCEPT ![t] = FALSE]
    /\ idle' = DllMakeFirst(idle, t)
    /\ demoted' = demoted \ {t}
    /\ UNCHANGED <<pending, workerCount, terminated, owner, mainVars>>

End(t) == Goto(t, "ending", "loop") /\ EndSection(t) /\ UNCHANGED slotVars

\* A cancellation acts at accept(), or anywhere in Client::run and close() ...
CancelInRequest(t) ==
    /\ t \in pending
    /\ slot[t] \in {"none", "held"}
    /\ LocalStep(t, "accept", "dtor") \/ LocalStep(t, "serving", "dtor")
    /\ UNCHANGED slotVars

\* ... but not in the wait for a mutex.  A wait on a condition variable takes
\* the mutex again before the thread is unwound, and nothing releases it.
CancelInTake(t) ==
    /\ t \in pending
    /\ slot[t] = "wait" /\ ~lockLost
    /\ LocalStep(t, "serving", "dtor")
    /\ slot' = [slot EXCEPT ![t] = "none"]
    /\ lockLost' = TRUE

ActOnCancel(t) == CancelInRequest(t) \/ CancelInTake(t)

\* on_crash_signal ends the thread, not the process, by pthread_exit.
Crash(t) ==
    /\ HandlersInstalled
    /\ slot[t] \in {"none", "held"}
    /\ LocalStep(t, "serving", "dtor")
    /\ UNCHANGED slotVars

\* The destructor: if (working_) { client_.close(); end(); } retire().  close()
\* runs cleanup_slot, and Slots::give does not return without lock_.
DtorEnd(t) ==
    /\ working[t]
    /\ slot[t] = "held" => ~lockLost
    /\ Goto(t, "dtor", "retire")
    /\ EndSection(t)
    /\ slot' = [slot EXCEPT ![t] = "none"]
    /\ UNCHANGED lockLost

DtorIdle(t) == ~working[t] /\ LocalStep(t, "dtor", "retire") /\ UNCHANGED slotVars

\* Worker::retire up to the decrement, which others see before the unlock ...
Retire(t) ==
    /\ Goto(t, "retire", "retiring")
    /\ Lockable
    /\ IF working[t]
       THEN active' = DllRemove(active, t) /\ UNCHANGED idle
       ELSE idle' = DllRemove(idle, t) /\ UNCHANGED active
    /\ workerCount' = workerCount - 1
    /\ owner' = t
    /\ UNCHANGED <<working, pending, demoted, terminated, mainVars, slotVars>>

\* ... then signal(), unlock() and delete this, and the thread is gone.
RetireSignal(t) ==
    /\ Alive
    /\ Goto(t, "retiring", "none")
    /\ mainPc' = AfterSignal(mainPc)
    /\ owner' = NoThread
    /\ pending' = pending \ {t}
    /\ UNCHANGED <<working, demoted, poolVars, terminated, missing, slotVars>>

\* What a worker does on its own, without a client, a crash or a cancellation.
WorkerStep(t) ==
    \/ Register(t) \/ WorkerLoop(t)
    \/ \E noTokens \in BOOLEAN : Begin(t, noTokens)
    \/ End(t) \/ DtorEnd(t) \/ DtorIdle(t) \/ Retire(t) \/ RetireSignal(t)

ClientStep(t) ==
    Accept(t) \/ Deprioritize(t) \/ TakeSlot(t) \/ SlotWoken(t) \/ GiveSlot(t) \/ Finish(t)

\* main() has deleted the server and leaves.
Exited == ~Alive /\ UNCHANGED vars

Next ==
    \/ Main
    \/ SpuriousWakeup
    \/ Terminate
    \/ \E t \in Thread : WorkerStep(t) \/ ClientStep(t) \/ ActOnCancel(t) \/ Crash(t)
    \/ Exited

Spec == Init /\ [][Next]_vars

\* The scheduler runs every thread, and a mutex is not withheld for ever from
\* a thread that asks for it again and again: hence strong fairness.  A
\* cancellation acts at the latest when its thread enters accept() again.
\* Nothing is assumed of clients, crashes, signals and spurious wakeups.
FairSpec ==
    /\ Spec
    /\ SF_vars(Main)
    /\ \A t \in Thread : SF_vars(WorkerStep(t)) /\ SF_vars(ActOnCancel(t))

-----------------------------------------------------------------------------
PcStates == {"none", "spawned", "loop", "accept", "accepted", "serving",
             "ending", "dtor", "retire", "retiring"}

MainStates == {"boot", "run", "lock", "locked", "toWait", "wait", "woken",
               "count", "spawn", "kill", "reap", "reapLock", "reapWait",
               "reapWoken", "close", "deleted"}

\* Every variable has the type of what it models; in particular worker_count
\* never goes below zero.
TypeOK ==
    /\ pc \in [Thread -> PcStates]
    /\ working \in [Thread -> BOOLEAN]
    /\ pending \in SUBSET Thread
    /\ demoted \in SUBSET Thread
    /\ idle \in Seq(Thread)
    /\ active \in Seq(Thread)
    /\ workerCount \in Nat
    /\ terminated \in BOOLEAN
    /\ owner \in Thread \cup {MainThread, NoThread}
    /\ mainPc \in MainStates
    /\ missing \in Int
    /\ slot \in [Thread -> {"none", "wait", "held", "stuck"}]
    /\ lockLost \in BOOLEAN

\* The threads between Worker::run's registration and retire()'s removal.
Registrants == {t \in Thread : pc[t] \notin {"none", "spawned", "retiring"}}

\* Every registered worker is linked exactly once, in the list its flag names,
\* and worker_count counts them, whichever way workers come and go
\* (Worker::begin, end, deprioritize, retire and the cleanup destructor).  So
\* what begin() and shutdown() find in a list is a live thread they may cancel.
ListAccounting ==
    /\ NoDuplicates(idle)
    /\ NoDuplicates(active)
    /\ Members(idle) = {t \in Registrants : ~working[t]}
    /\ Members(active) = {t \in Registrants : working[t]}
    /\ workerCount = Len(idle) + Len(active)

\* A demoted worker (a client without tokens, X-Priority: batch) is preempted
\* before any other: nobody behind it in the active list is not demoted, so
\* Worker::begin never drops an ordinary client while a demoted one runs.
DemotedLast ==
    \A i, j \in 1..Len(active) :
        active[i] \in demoted /\ i < j => active[j] \in demoted

\* Once shutdown() has passed its kill loop, each worker that may still sit in
\* accept() or in a client has a cancellation pending, and one that registers
\* late will see the flag: the single pass over the lists misses nobody.
ShutdownMissesNobody ==
    mainPc \in {"reap", "reapLock", "reapWait", "reapWoken", "close"} =>
        \A t \in Thread :
            pc[t] \in {"accept", "accepted", "serving", "ending"} => t \in pending

\* A termination signal ends the server, with two exceptions.  One that arrives
\* in the window of Server::run between the test of the flag and the wait is a
\* wakeup lost, and the server then stays up until some worker retires.  And
\* once a worker was cancelled while it waited in Slots::take, whoever takes or
\* gives a slot blocks, in the destructor of a worker too, and is waited for.
TerminationHonoured ==
    (terminated /\ mainPc \notin {"toWait", "wait"})
        ~> (mainPc = "deleted" \/ lockLost)

\* A cancelled worker (Worker::kill) gives up its place in the pool whatever its
\* client does, in a request, with a slot, in the wait for one, or in none, and
\* whoever crashes or is cancelled with it, as long as none of those was waiting
\* in Slots::take, for that one keeps the lock of the slots.
CancelledRetires ==
    \A t \in Thread :
        (t \in pending /\ Alive) ~> (t \notin pending \/ ~Alive \/ lockLost)

=============================================================================
