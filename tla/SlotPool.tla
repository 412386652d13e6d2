------------------------------ MODULE SlotPool ------------------------------
(***************************************************************************)
(* The context window slots of llamafiler (slots.cpp) and the completion   *)
(* requests that borrow them (v1_completions.cpp, v1_chat_completions.cpp).*)
(*                                                                         *)
(* A request takes a free slot, waiting on cond_ while there is none, runs *)
(* its prompt and its generation in it, and gives it back: by itself once  *)
(* the generation is over, else by the cleanup its handler deferred, which *)
(* runs when the handler has returned, or in the destructor of a worker    *)
(* that was cancelled or that crashed.                                     *)
(*                                                                         *)
(* The critical sections of lock_ are single actions.  The lock shows only *)
(* when a thread dies with it, which a cancelled wait brings about: it     *)
(* returns with the mutex locked and nothing then unlocks it.  Which of    *)
(* the free slots is the best one is left open.                            *)
(***************************************************************************)
EXTENDS Dll, FiniteSets

CONSTANTS
    Worker,
    Slot,       \* the slots that Slots::start could make
    NoSlot,
    NoWorker,
    Spurious    \* whether a condition variable may wake for no reason

ASSUME SlotAssumption ==
    /\ IsFiniteSet(Worker)
    /\ IsFiniteSet(Slot)
    /\ Slot # {}
    /\ NoSlot \notin Slot
    /\ NoWorker \notin Worker
    /\ Spurious \in BOOLEAN

VARIABLES
    pc,        \* pc[w]: where the worker is in its request
    slot,      \* Client::slot_
    pending,   \* workers with a cancellation they have not acted upon
    free,      \* Slots::free_slots_
    lockLost   \* a thread died while it held Slots::lock_

vars == <<pc, slot, pending, free, lockLost>>

\* main() stops if no slot can be made, and starts the workers afterwards.
Init ==
    /\ pc = [w \in Worker |-> "idle"]
    /\ slot = [w \in Worker |-> NoSlot]
    /\ pending = {}
    /\ free \in [1..Cardinality(Slot) -> Slot]
    /\ NoDuplicates(free)
    /\ Members(free) = Slot
    /\ lockLost = FALSE

Waiters == {w \in Worker : pc[w] = "wait"}
Woken == {w \in Worker : pc[w] = "woken"}

\* pthread_mutex_lock(&lock_) returns.
Lockable == ~lockLost

Goto(w, from, to) ==
    /\ pc[w] = from
    /\ pc' = [pc EXCEPT ![w] = to]

LocalStep(w, from, to) ==
    /\ Goto(w, from, to)
    /\ UNCHANGED <<slot, pending, free, lockLost>>

-----------------------------------------------------------------------------
\* Faulty variants of definitions below, which show what the properties catch.

\* cleanup_slot() that does not forget the slot.
CleanupKeepsSlot(w, to) ==
    /\ Lockable
    /\ free' = IF slot[w] = NoSlot THEN free ELSE DllMakeFirst(free, slot[w])
    /\ pc' = [pc EXCEPT ![w] = to]
    /\ UNCHANGED <<slot, pending, lockLost>>

\* give() that does not signal.
CleanupSilent(w, to) ==
    /\ slot[w] # NoSlot => Lockable
    /\ free' = IF slot[w] = NoSlot THEN free ELSE DllMakeFirst(free, slot[w])
    /\ slot' = [slot EXCEPT ![w] = NoSlot]
    /\ pc' = [pc EXCEPT ![w] = to]
    /\ UNCHANGED <<pending, lockLost>>

\* take() that leaves the slot in the list.
TakeWithoutRemove(w) ==
    /\ pc[w] \in {"take", "woken"} /\ Lockable
    /\ \E s \in Members(free) : slot' = [slot EXCEPT ![w] = s]
    /\ pc' = [pc EXCEPT ![w] = "using"]
    /\ UNCHANGED <<pending, free, lockLost>>

\* Inference that blocks cancellations.
ActOnCancelWhenIdle(w) == w \in pending /\ LocalStep(w, "idle", "dtor")

-----------------------------------------------------------------------------
\* cleanup_slot(): Slots::give, then slot_ = nullptr, which nobody else reads.
\* Nothing happens if the handler has given the slot back already.
Cleanup(w, to) ==
    IF slot[w] = NoSlot
    THEN /\ pc' = [pc EXCEPT ![w] = to]
         /\ UNCHANGED <<slot, pending, free, lockLost>>
    ELSE /\ Lockable
         /\ free' = DllMakeFirst(free, slot[w])
         /\ slot' = [slot EXCEPT ![w] = NoSlot]
         /\ IF Waiters = {}
            THEN pc' = [pc EXCEPT ![w] = to]
            ELSE \E u \in Waiters : pc' = [pc EXCEPT ![w] = to, ![u] = "woken"]
         /\ UNCHANGED <<pending, lockLost>>

\* A completion request arrives and its parameters are fine.
Request(w) == LocalStep(w, "idle", "take")

\* A round of the loop of Slots::take that finds a slot ...
Take(w) ==
    /\ pc[w] \in {"take", "woken"} /\ Lockable
    /\ \E s \in Members(free) :
          /\ free' = DllRemove(free, s)
          /\ slot' = [slot EXCEPT ![w] = s]
    /\ pc' = [pc EXCEPT ![w] = "using"]
    /\ UNCHANGED <<pending, lockLost>>

\* ... and one that finds none and waits.
TakeWaits(w) ==
    /\ pc[w] \in {"take", "woken"} /\ Lockable
    /\ free = <<>>
    /\ pc' = [pc EXCEPT ![w] = "wait"]
    /\ UNCHANGED <<slot, pending, free, lockLost>>

\* The generation ends: a stop, the token limit, or a full context window.
\* The handler gives the slot back before it sends what is left to send.
Finalize(w) == pc[w] = "using" /\ Cleanup(w, "responding")

\* The handler returns with the slot: no vision model, a message too long, no
\* sampler, a prefill that fails, a client that is gone, an exception.
Abandon(w) == LocalStep(w, "using", "leaving")

Respond(w) == LocalStep(w, "responding", "leaving")

\* Client::clear, at the next request of the connection or when it closes.
Clear(w) == pc[w] = "leaving" /\ Cleanup(w, "idle")

-----------------------------------------------------------------------------
\* Worker::kill, by Worker::begin of another worker or by Server::shutdown.
Kill(w) ==
    /\ w \notin pending
    /\ pending' = pending \cup {w}
    /\ UNCHANGED <<pc, slot, free, lockLost>>

\* The cancellation acts at a read, a write, an accept or a send_response.
\* A mutex is no such place, and neither is Client::clear.
ActOnCancel(w) ==
    /\ w \in pending
    /\ \E from \in {"idle", "using", "responding"} : LocalStep(w, from, "dtor")

\* It acts in pthread_cond_wait, which first locks the mutex again.
CancelWait(w) ==
    /\ w \in pending
    /\ Lockable
    /\ Goto(w, "wait", "dtor")
    /\ lockLost' = TRUE
    /\ UNCHANGED <<slot, pending, free>>

\* on_crash_signal: the thread exits, from the inference code or the handler.
Crash(w) == \E from \in {"using", "responding"} : LocalStep(w, from, "dtor")

\* The destructor of the worker closes its client.  Another thread replaces it.
DtorClose(w) ==
    /\ pc[w] = "dtor"
    /\ Cleanup(w, "dead")

Replace(w) ==
    /\ Goto(w, "dead", "idle")
    /\ pending' = pending \ {w}
    /\ UNCHANGED <<slot, free, lockLost>>

SpuriousWakeup(w) == Spurious /\ LocalStep(w, "wait", "woken")

\* The steps of Slots, which need no client and no cancellation.
TakeStep(w) == Take(w) \/ TakeWaits(w)
CleanupStep(w) == Clear(w) \/ DtorClose(w) \/ Replace(w)
CancelStep(w) == ActOnCancel(w) \/ CancelWait(w)

Next ==
    \E w \in Worker :
        \/ Request(w) \/ TakeStep(w) \/ Finalize(w) \/ Abandon(w) \/ Respond(w)
        \/ CleanupStep(w) \/ Kill(w) \/ CancelStep(w) \/ Crash(w)
        \/ SpuriousWakeup(w)

Spec == Init /\ [][Next]_vars

\* The scheduler runs every thread, the mutex is not withheld for ever from a
\* thread that asks for it again and again, and a cancellation acts at the
\* next read or write.  That a generation ends or a client reads what it is
\* sent is not assumed: sockets have no timeout.
FairSpec ==
    /\ Spec
    /\ \A w \in Worker :
          /\ SF_vars(TakeStep(w))
          /\ SF_vars(CleanupStep(w))
          /\ SF_vars(CancelStep(w))

-----------------------------------------------------------------------------
TypeOK ==
    /\ pc \in [Worker -> {"idle", "take", "wait", "woken", "using",
                          "responding", "leaving", "dtor", "dead"}]
    /\ slot \in [Worker -> Slot \cup {NoSlot}]
    /\ pending \in SUBSET Worker
    /\ free \in Seq(Slot)
    /\ lockLost \in BOOLEAN

\* A slot is in the free list exactly once, or borrowed by exactly one request,
\* never both and never neither: the explicit cleanup_slot of a handler, the
\* deferred one, and the destructor of a dying worker neither give a slot back
\* twice nor lose it.
SlotAccounting ==
    /\ NoDuplicates(free)
    /\ Members(free) = Slot \ {slot[w] : w \in Worker}
    /\ \A u, w \in Worker : slot[u] = slot[w] /\ slot[u] # NoSlot => u = w

\* No signal of Slots::give is lost, though each wakes a single waiter and a
\* late taker may get the slot first: while somebody waits, every free slot
\* has a woken thread that is on its way to it.
NoLostWakeup ==
    Waiters # {} => Len(free) <= Cardinality(Woken)

\* A slot has a single user at a time and goes through the free list from one
\* user to the next: the slots are a pool of resources.
holder ==
    [s \in Slot |-> IF \E w \in Worker : slot[w] = s
                    THEN CHOOSE w \in Worker : slot[w] = s
                    ELSE NoWorker]

Pool == INSTANCE ResourcePool WITH
            Resource <- Slot, Taker <- Worker, Nobody <- NoWorker
IsResourcePool == Pool!Spec

\* A cancelled worker (technical_details.md, "Cancelation") frees its slot for
\* the others however far its request has come, as long as lock_ is not lost.
CancelFreesSlot ==
    \A w \in Worker :
        (w \in pending /\ slot[w] # NoSlot) ~> (slot[w] = NoSlot \/ lockLost)

-----------------------------------------------------------------------------
\* technical_details.md, "Cancelation", of the job that is cancelled: "It ensures
\* that resources are freed up immediately for the other job."  A request that
\* is cancelled while it waits in Slots::take keeps lock_ for ever.
CancelReleasesLock == ~lockLost
=============================================================================
