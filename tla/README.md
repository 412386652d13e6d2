# A TLA+ development for llamafile

TLA+ models of the parts of this repository whose correctness depends on the
order of things: the server `llamafiler` (`llamafile/server`), the threads that
compute (`llamafile/pool.cpp`, `llamafile/core_manager.cpp`, and the patches to
`ggml.c` and `llama.cpp`), the loading of GPU modules (`llamafile/{cuda,metal,extract}.c`),
the chatbot of the `llamafile` command (`llamafile/chatbot_*.cpp`) and the syntax
highlighting of what it prints (`llamafile/highlight`).  TLC checks every model on a
small instance; TLAPS proves the safety properties of all but one of them (the
highlighting) for every value of the constants.

Paths in this file are relative to `src/`.

## 1. The system

### Parts, their state, and how they work together

| part | source | state | operations | module |
|---|---|---|---|---|
| worker pool | `server/{server,worker,signals,prog}.cpp` | lists of idle and active workers, `worker_count`, `terminated` | spawn, accept, begin, end, deprioritize, kill, retire, run, shutdown | `WorkerPool` |
| connection | `server/client.cpp` | buffer, message, payload, flags for cancelation, `g_http_cancel` | read a request, its payload, send, stream, synchronize, 503 | `HttpClient` |
| slots | `server/slots.cpp`, `v1_completions.cpp`, `v1_chat_completions.cpp` | the free list, `Client::slot_` | take, give, deferred cleanup | `SlotPool` |
| a slot | `server/slot.cpp` | history, KV cache | prefill, eval_tokens, eval_image, eval_token | `SlotCache` |
| token buckets | `server/tokenbucket.cpp` | signed bytes, eight to a word | acquire, replenish | `TokenBucket` |
| core manager | `core_manager.cpp`, `llama_graph_compute` | `used_` | acquire, release | `CoreManager`, `LlamaCompute` |
| task pool | `pool.cpp` | lock-free stack of idle threads, tasks | create, cancel, join, shutdown | `TaskPool` |
| graph computation | `ggml.c.patch` | barrier, abort flag, helpers | compute a node, barrier, cancel | `GraphCompute`, `LlamaCompute` |
| GPU module | `{cuda,metal,extract,is_file_newer_than}.c` | sources and libraries in a directory that processes share | compare, extract, compile, rename, link | `GpuModule` |
| chatbot | `chatbot_{repl,eval,hist,file}.cpp` | history, KV cache, undo marks, stack | say, reply, /undo, /forget, /push, /pop, /clear, /manual, /upload, Ctrl-C | `ChatHistory` |
| highlighting | `highlight/*.cpp` | the state of a machine per language, of Markdown, of the terminal's colors | feed, flush, restore | `Highlight` |

(`server/` is `llamafile/server/`, other names without a directory are in
`llamafile/` or `llama.cpp.patches/patches/`.)

A request meets most of them: the main thread spawns workers (`WorkerPool`); a
worker accepts a connection, takes a token for its address (`TokenBucket`) and
reads a request (`HttpClient`); a completion takes a slot (`SlotPool`), brings
its cache in line with the prompt (`SlotCache`), and for every `llama_decode`
acquires cores (`CoreManager`), gives tasks to the pool (`TaskPool`) and computes
the graph with them (`GraphCompute`).  `Worker::kill`, a crash signal and
`pthread_cancel` cut through all of these layers at any point, and each layer
cleans up in the destructor of a thread key or a `pthread_cleanup` handler of its
own.  The modules meet at these points: an action `Kill`, `Cancel` or `Crash` of
one is the same event as that of another.  `LlamaCompute` puts two of the layers
together, the cores and the graph that is computed on them.

Components that are not modelled are listed in `PROJECT.json` with the reason:
conversions and numeric kernels (no state, or floating point), terminal and file
I/O, the database that no handler calls, the benchmark, and everything vendored.  `llama.cpp` is a submodule that is not in the tree: its KV
cache is modelled from how the code here uses it, and marked external.

### What is hard in it, and what makes it correct

* **Cancelation at any cancellation point.**  `pthread_cancel` is how the server
  makes room, shuts down and ends a computation.  Correct: whatever the thread
  had (its place in the lists, slot, cores, helpers, socket) is given back once,
  and the thread does go away.  `ListAccounting`, `CancelledRetires`,
  `SlotAccounting`, `CancelFreesSlot`, `CoresAccounted`, `FrameOutlivesHelpers`,
  `CoresNotOversubscribed`, both `CancelEnds`.
* **Condition variables that are signalled once, or without the lock.**  Correct:
  nobody sleeps beside what he waits for.  `NoLostWakeup`, `WaitersHaveHope`,
  `TerminationHonoured`; the refilling of the worker pool is not so (section 5).
* **Lock-free code.**  The stack of `pool.cpp` with its tag, the barrier of
  `ggml.c`, the packed counters.  `StackExact`, `NodesInOrder`, `GraphEnds`,
  `IsTokenBuckets`, `CountersSound`, `Recovers`.
* **Two records of one thing.**  The history and the KV cache, in the server and
  in the chatbot, after failures and cancelations in the middle of an evaluation.
  `HistoryIsPrompt`, `HistoryIsCached`, `RecurrentCacheIsHistory`,
  `CacheIsHistory`, `WholeTurns`.
* **Positions that go stale.**  The marks of /undo, /push and the system prompt
  after a command has cut or moved the history; keep and relocation counts after
  an erasure was refused.  `PositionsValid`, `CommandsEraseTurns`, `HistoryIsPrompt`.
* **A stream of bytes that has to be cut up right.**  `InStep`, `WellFormed`,
  `HangupFrees`; and on its way out, by machines that hold back what they do not
  understand yet and are cut off anywhere, `TextKept`, `NoColorLeaks`,
  `LinesStandAlone`.
* **Files that processes share without a lock.**  Correct: what is linked is whole,
  new if it was to be new, and made of the right sources, whatever crashed before.
  `LinkedWhole`, `RecompileHonoured`, `MetalFresh`.

The list of hazards with their lines is in `PROJECT.json`.

## 2. The modules

Conventions.  A program counter names the place in the function; an action is a
critical section, or the code between two accesses to shared memory, or between
two cancellation points.  Variables have the names of the code.  A variable
marked *history* in its comment is not in the code; it records the past for a
property, and is read by no guard but those of the bounds.  Definitions marked
*faulty variant* or *mutant* are never used by a specification: each is the code with a plausible bug, and putting it in
the place of the definition it follows makes the property that `PROJECT.json`
names fail.

### `Dll`, `WorkerPool`

`Dll` has the operations of cosmocc's doubly linked lists, as sequences.
`WorkerPool` has `main()` and `Server::run` and `shutdown` as one process
(`mainPc`) and the workers (`pc[t]`).  The mutex is explicit (`owner`), since
`worker_count` is read, `terminated` is written and the server is deleted without
it: `AfterSignal`, `RunLoop`, `ReapLoop`, `RetireSignal` are the steps between
which the interesting orders lie.  `Begin` is all of `Worker::begin` (the move to
the active list, and the cancelation of the last active worker if nobody is
idle), `Deprioritize` and `EndSection` and `Retire` the others.  `ActOnCancel`
is the effect of `Worker::kill` and `Crash` that of `on_crash_signal`; both go to
the destructor of the worker's key (`DtorEnd`, `DtorIdle`).  Identities of
threads are used again once a thread is gone.

A request may borrow a slot (`TakeSlot`, `SlotWoken`, `GiveSlot`).  Which one, and
whether one is free, is the matter of `SlotPool`; here `slot[t]` says only whether
`t` waits for one, has one or is blocked on `Slots::lock_`, and `lockLost` that a
waiter was cancelled and took the lock with it (`CancelInTake`, finding 1).  The pool
needs that much because a worker that is cancelled with a slot returns it in its
destructor, before it leaves the lists: `DtorEnd` is not enabled while it has one and
the lock is lost.

### `ResourcePool`, `SlotPool`

`SlotPool` follows a completion request from `take()` over the explicit
`cleanup_slot` or an early return to the deferred one.  `ActOnCancel` and `Crash`
strike at any point; `CancelWait` is the cancelation in `pthread_cond_wait`, which
leaves `lock_` locked for ever (`lockLost`).  Which free slot scores best is left
open.  `ResourcePool` is what the slots promise: a resource passes from a taker to
the next only through the pool.  The refinement mapping reads the holder of a slot
off `Client::slot_`.

### `TokenWord`, `TokenBuckets`, `TokenBucket`

`TokenWord` has the arithmetic of a word of packed counters with its carries and
borrows, `SwarAddend` being the expression of `replenish_tokens`, and `Addend` what
it is to compute.  `TokenBucket` splits `acquire_token` and `replenish_tokens` at
their loads and additions.  `TokenBuckets` is the promise, separate counters.
`crowd`, the workers that ever ask, is chosen in the initial state, so that one
run has both the single worker, for whom the promise holds, and the race, for
which it does not.

### `CoreManager`

`acquire` in its two loops, the wait with its cleanup handler, `release` with its
single signal, and `llama_graph_compute` with the cleanup that releases after a
cancelation or a crash.

### `SlotCache`

One slot through the requests that use it.  `Plan` is the comparison in
`Slot::prefill` of the prompt with the history (common prefix, and the suffix to
relocate); `Prefill` erases, shifts and truncates; `EvalBegin`, `DecodeTokens`,
`DecodeImage`, `DecodeFails`, `DecodeCancelled` are a batch at a time;
`erasable` says whether the model can erase a part of its cache, as a recurrent
one can not.  A cell is a position with the piece of an atom that it was computed
for.

### `HttpClient`

One worker thread with its client.  A stream consists of units, each of which
names the request it belongs to, so "in step" can be said; `Receive` delivers any
number of them.  What an endpoint does is left open (respond, stream, fail,
throw), when it reads its payload is not.  `CancelActs` is enabled at the
cancellation points only, `Crash` everywhere; `Unavailable` is the destructor of
`g_http_cancel`.

### `TaskPool`

`idle_push` and `idle_pop` by single loads and compare-exchanges; an element of
`PoolThread` is an address that may be allocated again, which is what makes ABA
possible, and `thread->next` of a deleted thread is any value (`NextOf`).  `doing` is
where a thread is, `stage` where a caller, `doomed` the cancelation that waits for the
thread's next cancellation point.  `Spawned` is the store of `pthread_create` into
`thread->th`, which may come after the thread's whole function, and `Publish` copies it
to the task.  The weak exchange that fails without a reason, and the condition variable
that wakes without one (`WaitAgain`), repeat a loop; only the latter is an action.
`Idle` are the threads that the links lead to from the tip: the least set with the tip
that is closed under `next`, which TLC and the provers evaluate alike.

### `GraphCompute`, `LlamaCompute`

`GraphCompute` is one call of `ggml_graph_compute`: the barrier (`Arrive`, `Reset`,
`Release` of one thread after the other, `Spin`), the abort flag `ec`, creation,
cancelation and join of the helpers (`CleanupCancel`, `CleanupJoin`).  The tasks run
on the threads of `TaskPool`, whose property `JoinReturns` is what `Join` relies on.
Threads are numbered as by `ith`.

`LlamaCompute` composes it with `CoreManager`.  One of the threads, `Subject`,
computes its graph step by step, with as many threads as it got cores; the others
compute in one step.  `GraphCompute` is an instance whose variable `cancelled` is
the pending cancelation of `Subject` in `CoreManager`; the other variables are
its own.  The locals of a call are set when it begins and forgotten when it ends
(`Start`).  `SubjectReturns` clears the key and releases the cores; `SubjectEnds` is
the end of the thread after its cleanup handlers, and `SubjectDestructs` the
destructor of the key: cores are released after the helpers were joined because
cleanup handlers run before destructors.  `Mortal`, a bound, says who is cancelled.

### `GpuModule`

The processes of a user share a directory.  `Begin` is `llamafile_has_cuda`, which
asks `llamafile_has_metal` first.  A source is compared by its bytes (`Compare`),
copied under a temporary name (`Extract`) and put in its place (`Replace`); the
module is looked for (`Look`, `Bundle`), compared by its time (`Settle`), compiled
(`CompileBegins`, `CompileEnds`, `CompileAgain`) or extracted (`Unpack`), renamed
(`Rename`) and linked (`Link`).  Everything may fail (`SourceFails`, `SettleFails`,
`CompileFails`, `UnpackFails`, `LinkFails`), and a process may be killed anywhere;
`GiveUp` and `MoveOn` are the chain of fallbacks, Metal, ROCm, CUDA.  A file has the
build it is from and the time it was written; a module, what it was made of.  Of the
sources, all but the last of `srcs` are one: only the last one's time is looked at.
A compilation may read sources that another process replaces while it runs.
Processes of one build run, after an older build left its files.

### `ChatHistory`

`repl()` and the commands.  A token is the turn it belongs to and its place in
it, so that "whole turns" and "the oldest message" can be said.  A command is one
action with all it calls: `rewind`, `adjust_stacks`, `fix_stacks`, and the
`record_undo` at the next turn of the loop.  `Interrupt` is `on_sigint`; the flag
is tested and cleared where the code does it.

### `Highlighter`, `Highlight*`

`Highlighter` has what the highlighters share: characters, one of each kind that
some machine tells apart; colors, as the numbers of their codes; and tables.  The
`switch` of a `feed()` and of a `flush()` is a sequence of rows: in a state, on some
characters, under a condition on the register (a counter, a flag, a stack), what is
put out and what comes next; a `goto` is a row whose character is looked at again
(`Via`).  The first row that fits applies.  Words are not spelled: whether one is a
keyword is a choice.  `HighlightCurly`, `HighlightScripts`, `HighlightClassics`,
`HighlightNested` and `HighlightEmbedded` have the tables of the languages, and
`HighlightTables` collects them.  A page of HTML makes machines of its own for scripts,
styles and PHP and feeds them what it does not hold back as the beginning of the
closing tag (`Relayed`).  `Highlight` is what the chatbot prints: `ColorBleeder` over
`HighlightMarkdown`, an action for each of its states, over the machine of a
language that a fence names.  Two terminals show it (`Draw`): one that knows all
codes and carries colors over to the next line, and one that knows those of a VT100
and does not, as `less`.  Two history variables compare: `owed` is what was fed and
not shown yet, and `amiss` says whether the last call showed something else, or
showed it differently on the two terminals.

The code keeps neither all of the text nor all colors in order in four languages
(section 5).  These places are modelled as they are, and named: `Misprints` are the
characters that assembly and HTML show changed, `ForgetsColor` the states in which
`flush()` of D and of C leaves a color on.  The history variable `spoiled` says what
of them is still to be seen: a character that is misprinted in the last call, a color
until a code turns it off.  Nothing else may be wrong, and what follows a fault is
checked like anything else.

## 3. The runs

| run | configuration | size | shows |
|---|---|---|---|
| `worker_pool` | 2 wanted workers, 2 identities, a slot for a request or none, spurious wakeups | 62 thousand states, 70 s | lists and count exact, demoted clients are preempted first, nobody escapes shutdown; termination and cancelation take effect as long as the lock of the slots is not lost |
| `slot_pool` | 3 workers, 2 slots, spurious wakeups | 17 thousand states, 70 s | no slot lost, shared or left beside a sleeper; a cancelled request frees its slot |
| `llama_compute` | 3 threads that want 3, 2 and 1 of 3 cores; the first computes 2 nodes with the helpers it can get | 177 thousand states, 70 s | cores exact, no waiter forgotten, nodes in order; frame and cores outlive the helpers; a computation, and a cancelation, end |
| `token_bucket` | 2 lanes of 3 bits (`TopBit` 4), up to 3 workers, burst 1 | 142 thousand states, 20 to 30 s | alone: separate buckets, penalised past the burst; racing: bounded overdraft, and full again when quiet |
| `slot_cache` | 2 tokens, an image of 2 positions, context 4, batches of 2, prompts up to 4 | 116 thousand states, 80 to 180 s | the history becomes the prompt, and is cached |
| `http_client` | 2 connections of 2 requests, buffer 3, socket room 1 | 350 thousand states, 50 s | in step, one response each, ends when cancelled or hung up on |
| `task_pool` | 2 callers, 2 threads, 4 tasks, then shutdown | 32 thousand states, 15 s | stack exact, joins return, shutdown ends |
| `chat_history` | 3 turns, context 8, batches of 2, 2 pushes | 1.5 million states, 80 to 120 s | marks valid, whole turns, /undo and /forget exact |
| `highlight` | 42 languages and plain text, nesting up to 2, words of one letter | 30 thousand states, 2.5 min | text kept and no color leaks, but for four places that are named; lines stand alone |
| `gpu_module` | 2 processes, 3 runs on a Mac, 2 on a PC | 2.5 million states, 2 min | modules whole, recompiled on demand, Metal fresh |
| `slot_cancel_lock` | 2 workers, 1 slot | violation | finding 1 |
| `task_pool_uaf` | 2 callers, 2 threads, 3 tasks | violation | finding 2 |

**Why the bounds are enough to see something.**  Two workers are enough for a
preemption by the other, for a replacement to race with a retirement, and for a
list with an order; three requests on two slots for a late taker to overtake a
woken one.  A lane of three bits has all the cases of one of eight (full, one,
zero, negative, the lowest value); two lanes have a neighbour.  The context of
the slot holds an image and more than a batch, and prompts that share a prefix,
a suffix and both.  The buffer of the client is shorter than two requests.  Four
tasks on two threads make a thread be popped and pushed again while another
caller is between its loads and its exchange: without the tag `StackExact` fails.
Two nodes use the barrier again after its first reset.  The threads that share the
cores want different numbers of them, so that the graph has one, two or three
threads.  A word of one letter is held back as a longer one is, and counters,
stacks and delimiters beyond two have no case of their own.  Three runs on a Mac
let one crash after it extracted the sources while another compiles and a third
looks at what they left.  Three turns let a command act
between two others; the context is small enough to run out.  A bound that only
TLC needs is named so in its module (`MaxPrompt`, `MaxRequests`,
`MaxConnections`, `MaxPieces`, `MaxTasks`, `MaxTurns`, `MaxPushed`, `MaxDepth`,
`MaxWord`, `MaxRuns`, `Mortal`).
A variant of `Slots::give` that signals only when the list was empty needs four
requests to go wrong, one more than the run has; the proof covers any number.

**Fairness.**  Threads run: the steps of a thread that do not wait for anybody
are weakly fair.  Steps that take a mutex are strongly fair where others ask for
it again and again (`WorkerPool`, `SlotPool`): a mutex is not withheld for ever.
Nothing is assumed of clients, of signals, of crashes, of cancelations, or of the
length of a generation.  `LlamaCompute` assumes that the threads of a computation run,
that a helper that was cancelled ends, and that a thread whose computation is over
goes on; a computation has finitely many nodes.  The replenisher wakes up at its rate.  A cancelation acts at the latest at
the next cancellation point.

**Deadlock** is checked everywhere but in `SlotPool`, where the program itself stops
once `lock_` is lost (finding 1), and in `GpuModule`, where all runs may be used up.

**Conditions in the properties**, each because the code is otherwise not so:

* `TerminationHonoured` excepts the window between the test of `terminated` and
  the wait, in which `on_termination_signal` signals nobody.
* `TerminationHonoured` and `CancelledRetires` hold as long as no worker was cancelled
  while it waited in `Slots::take` (`lockLost`, finding 1): from then on whoever takes
  a slot, or gives one back, in the destructor of a worker too, blocks and can not be
  cancelled, so that it stays in the lists and `shutdown()` waits for it.
* `CancelFreesSlot` holds as long as `lock_` is not lost.
* `RestrictionsKickIn` and `IsTokenBuckets` speak of a single worker.
* `WellFormed` leaves out connections after one whose handler threw.
* `GraphEnds` leaves out crashes and aborts, `CancelEnds` of the graph the final
  join after an abort.
* `RecurrentCacheIsHistory` speaks of models that refuse a partial erasure, and
  the count of `PromptTokensCounted`, a part of `HistoryIsPrompt`, is exact only for
  the others.
* `ForgetsOldest`, a part of `CommandsEraseTurns`, requires the system prompt to be
  there.
* `MetalFresh` allows an old header where the update left `ggml-metal.m` as it was
  and this run extracted nothing (section 5).
* `StackExact` holds while tags do not wrap, which the run's four tasks do not make
  them; section 4 says what it takes when they do.
* `TextKept` excepts the characters that `Misprints` names: a letter beyond ASCII in a
  string of assembly, and the tag that closes a script or a style in HTML if it has
  capitals.  `NoColorLeaks` excepts the color that is left where `ForgetsColor` holds
  when a highlighter is given up: in a hexadecimal string of D, and outside of a
  directive in a `\u` or a name in angle brackets of C.  No reply is left out for it.
  (`Unseen` leaves out characters of Ruby only, that are as others that are seen: `s`
  stands for the letters of a percent literal, `-` for a tilde behind `<<`.)

## 4. The proofs

`tlapm` checks `SequenceLemmas`, `WorkerProofs`, `SlotPoolProofs`, `SlotCacheProofs`,
`HttpClientProofs`, `LlamaComputeProofs`, `GpuModuleProofs` and `ChatHistoryProofs`.
The only assumptions are the named ones on the constants, which TLC evaluates in the
runs, and what the statement of a theorem says: `BurstIsLimit` and those of the pool of
threads have such hypotheses.

* **`SequenceLemmas`**: what the proofs about sequences share.  Induction is by way of
  sets: a set of naturals with 0 and the successor of each of its elements has all of
  them, which follows from the well-foundedness of `<`; so it needs no induction
  theorem with an operator parameter.  From it come the existence of functions defined by recursion over a
  range (`Iteration`), `Max` of a bounded set, `FlattenSeq`, and the facts about
  prefixes, and about what is kept and dropped of a sequence.  For the lists of
  `Dll`: removing from a list without duplicates, and putting an element first or last,
  keeps it without duplicates, changes its members and length by that element, and keeps
  the order of the others.
* **`WorkerProofs`, the pool**: `TypeInvariant`, `Accounting`, `PreemptionOrder`,
  `ShutdownComplete`, for any number of threads and workers.  `ListAccounting` is
  not inductive, for `retire` takes a worker out of the list that its flag names:
  the invariant adds where a thread may be with its flag set (`FlagFollowsPc`),
  who holds the mutex (`LockFollowsPc`), that shutdown comes after the flag
  (`ShutdownIsTerminated`), and that only active workers are demoted.
  `DemotedLast` needs three lemmas on what list operations do to elements that
  come last.
* **`WorkerProofs`, the token buckets**: `BucketsSound`, `BurstIsLimit` and
  `BucketsAreSeparate`, for any number of workers and lanes and any width of a counter.
  The carries of `AddWords` and the borrows of `SubWords` are defined by recursion over
  the lanes; `NoBorrow` and `NoCarry` show by induction that there are none where each
  lane has enough or room, which makes `SwarAddend` what it is to be for every word
  (`AddendIs`).  `LowestLane` counts the workers between the load and the decrement, each
  of which was paid for by a token that it saw; it is needed only while a counter can hold
  that many below zero, else the bound is that of a byte.  `Alone` says what one worker
  leaves: no counter below zero, the token that it saw still there, room where the
  replenisher is about to add, and a lane with a token has lost one for each request of
  its streak.  `BucketsAreSeparate` maps every step to `Acquire`, `Replenish` or a
  stutter of `TokenBuckets`.  `BurstIsLimit` assumes `Burst < Full`: with
  `--token-burst 127` it is false (section 5).
* **`SlotPoolProofs`**: `TypeInvariant`, `Accounting`, `SignalsSuffice` and
  `Refinement`, for any number of workers and slots.  `SlotFollowsPc` makes
  `SlotAccounting` inductive.  `SignalsSuffice` counts: a give adds a free slot
  and wakes a waiter if there is one; a take removes one of each, or a slot only.
  `Refinement` maps each step to `Take`, `Give` or a stutter of `ResourcePool`.
* **`SlotCacheProofs`**: `PrefillYieldsPrompt`, `CacheBacksHistory` and
  `RecurrentCacheKept`, for every size of the context, of a batch and of an image, and
  every set of prompts.  `EvalInv`: history and work to do together are the prompt, and
  where in a batch the slot stands.  `CacheInv`: the cells hold the pieces of the history,
  and of the image that was begun, each at its position.  For a model that refuses to
  erase, the cache is exactly that for as long as a request runs, more than the property
  says: a cell left over above the history would be attended to once the history has
  grown past it.  `Plan` is where the choices of `prefill` are shown to be right: what it
  keeps and moves is the beginning of the prompt, and a model that refuses to erase
  refuses the relocation too.
* **`HttpClientProofs`**: `StreamIsInStep` and `TalkIsWellFormed`, for requests of any
  size and a buffer and socket of any size.  `StreamInv`: the buffer and the socket
  together are the stream from the present request on, or a beginning of it after a
  hangup; `i` and `unread` add up to the size of the request once `transport` has accepted
  it, which then fits the buffer; and `i` is at the end of the head until the body is
  read.  `TalkInv` has, for each place of the thread, how far the conversation has come,
  and that `g_http_cancel` and `should_send_error_if_canceled_` are both set only where
  a first response is due.  It needs `StreamInv` to know which request `transport`
  reads next.
* **`LlamaComputeProofs`, the core manager**: `TypeInvariant`, `Accounting`, `NoStall`,
  for any number of threads and cores.  The cores in use are a set of pairs, so that its
  cardinality replaces a sum.
* **`LlamaComputeProofs`, the graph**: `Composition` says that every step of the composed
  specification is a step of `CoreManager` or leaves its variables alone, so that
  `Accounting` holds in it too.  `FrameSafety` and `NoOversubscription` follow from one
  invariant: the graph has at most as many threads as `Subject` has cores, and the
  helpers that main has joined or not created yet are over (`HelpersJoined`).
  `BarrierSafety` is `NodesInOrder` for any number of threads and nodes: no thread
  begins a node before all are done with the one before.  Its invariant `BarrierInv`
  names the round that the barrier is in and who has arrived: every thread is in that
  round or waits to be let into it, `n_barrier` counts those that arrived, and at most
  one thread, the last, resets and releases (`OneReleases`).
* **`LlamaComputeProofs`, the pool of threads** (in the second half of the module, which
  shares nothing with the first).  The stack is correct as long as no exchange of
  `g_idle` brings back a value that a caller is about to compare it with, between its
  read of `thread->next` and its exchange (`TipIsNew`).  From this alone follow
  `StackExact` and `StackIsASet`: `idle_push` and `idle_pop` take effect at once, on a
  set.  The inductive invariant `PoolInv` says of the stack that its threads wait and that
  no two links meet (`Linked`), of a caller that if its copy is the tip then so is its
  copy of `next` the tip's (`CopiesValid`), and of threads and callers that each knows the
  other (`CallerKnows`, `CallersFollow`), so that a cancelation dooms a thread that is not
  in the stack (`DoomedFollow`).  The lemmas `FromPush` and `FromPop` say what an exchange
  does to the set that links lead to.

  How the tag makes tips new is proved twice.  `StackIsExactUnlessLapped`: if no caller is
  overtaken, in that window, by as many exchanges as there are tags (4096).  The history
  variable `age` counts what a caller was overtaken by; `Ages` defines its next value by
  the step and so forbids none.  `StackIsExactForFewTasks`: in every behaviour, while
  fewer tasks were created than half the tags; a task is good for two exchanges, which
  `TagCounts` counts by who still owes them.  The program creates more tasks than that, so
  that it is `NotLapped` it relies on, an assumption on scheduling that nothing in the
  code enforces.  Both theorems suppose that who cancels tasks does so with tasks
  that do not end by themselves (`Cancelers = Endless`, as in the run `task_pool`), because
  of finding 2.  `SafeForFewTasks` is the other side of that finding: without
  cancelations no deleted thread is used, although the shutdown deletes them all.
* **`GpuModuleProofs`**: `Atomicity` needs that a temporary file that is about to be
  renamed is whole; `Recompilation`, that under `--recompile` every way to the link goes
  through a rename of this run, and that what is placed stays.  `TypeCorrect` needs that a
  source, once there, stays, so that the compiler finds both (`Shape`).  The invariant of
  `Freshness` says what a module on disk may be: made of the new sources, or the one that
  the earlier build left, and then `ggml-metal.m` is either newer or of the same build as
  the module (`Modules`, `Times`); and what each process knows where it is (`OnMetal`).
  The step that could break it for others, the replacement of `ggml-metal.m` below a
  process that relies on its old time, is excluded because that file already had the new
  bytes (`Keeps`, `RestFresh`).
* **`ChatHistoryProofs`**: `MarksAreValid`, `CacheKeepsHistory`,
  `HistoryIsWholeTurns` and `TurnsAreErased`, for every size of the context and of a batch and all messages.
  That the history is whole turns is stated for neighbours (`InTurns`): a token
  is followed by the next of its turn, or ends it and is followed by the first of a later
  one; `WholeTurns` follows by induction over the turns.  It is not inductive
  without what the marks are: each is a place between two turns (`Places`), for that is
  where the commands cut, and those of /undo from the second on are not below the system
  prompt, for else /forget would move it.  During a turn (`Present`) the new tokens are
  numbered on from `before`, and the rest of a text or image of which some was evaluated
  fits.  `TurnsAreErased` is about the list of /undo, which must not skip a turn:
  `Listed` says that it ascends strictly and has every place between turns from its
  first entry on, that nothing a user said is before that entry, and that with a system
  prompt it is the end of the BOS token.  So its last two entries bound the last turn
  (`OneTurn`, `UndoErases`), and the second and third the oldest (`ForgetErases`).
  The hard step is what `adjust_stack` makes of the list when /forget closes the gap
  (`ForgottenMark`): it drops the second entry and moves those behind it down.

The type invariants of `WorkerPool`, `SlotPool`, `CoreManager`, `LlamaCompute`,
`TokenBucket` and `GpuModule` are proved as such or as conjuncts of `CountersSound`;
those of `ChatHistory`, `HttpClient`, `SlotCache` and `TaskPool` are conjuncts of
`PositionsValid`, `InStep`, `HistoryIsCached` and `StackExact`.

**Only model-checked**: all liveness (TLAPS has no proof rules for fairness
here).  Of safety, `Highlight`, whose machines are evaluated by RECURSIVE operators, for
which tlapm has no back end.

## 5. Findings

1. `slot_cancel_lock`: a request that is cancelled while it waits for a slot
   leaves `Slots::lock_` locked (`slots.cpp:138`); all completions stop.  If another
   worker that holds a slot is cancelled too, as `shutdown()` does with all of them, its
   destructor waits for that lock (`worker.cpp:168`, `slots.cpp:148`), so that the
   worker does not retire and the server does not end.
2. `task_pool_uaf`: a task is cancelled as it ends; the idle thread deletes itself
   while it is in the stack, and the next `idle_pop` reads it (`pool.cpp:208`).

Seen while modelling, without a run of its own:

* `Server::run` waits without looking at the count, so the signal of a worker that
  retires while the main thread is not waiting is lost, and its place stays empty
  until another one retires (`server.cpp:168`), though
  `server/doc/technical_details.md:130` says "A fresh new worker thread will then be
  spawned to take its place."
* Replacements are counted only once they register, so a burst of retirements
  spawns more than `-w` workers, and `begin()` drops a client though workers are
  coming (`server.cpp:174`, `worker.cpp:59`).  A worker may register after
  `shutdown()`, and the server may be deleted while the last worker has its mutex
  (`server.cpp:196`).
* Two threads that race for the last token leave -1, and the next replenishment
  carries into the neighbour, whose 127 becomes -128 (`tokenbucket.cpp:57`).  With
  `--token-burst 127` nobody is ever over it (`worker.cpp:65`).
* After a relocation that ends with the prompt, one cell stays in the cache at its
  old position (`slot.cpp:354,383`); it is why `RecurrentCacheIsHistory` has its
  condition.  After a refused erasure `prompt_tokens` counts the kept tokens twice
  (`slot.cpp:415`).
* An error response closes the connection without announcing it
  (`client.cpp:158`); a cancelation during the write of a response sends neither
  it nor a 503 (`client.cpp:398`); after an exception an idle connection may get a
  503 (`client.cpp:653`); the parameters of a form are read twice
  (`client.cpp:641`); the test of `parse_ip` for `--ip-header` is inverted
  (`client.cpp:217`).
* When main asks to abort while a helper has yet to test `ec` at the node before,
  or when a helper crashes, the others wait in the barrier until the thread is
  cancelled (`ggml.c.patch:1589,2321`); during the final join it can not be
  (`ggml.c.patch:2431`).
* In the chatbot, Ctrl-C ends a reply without its EOT token, since `eval_tokens`
  sees the flag first (`chatbot_eval.cpp:39`); Ctrl-C in the last batch of an
  upload or of manual mode breaks off the next line; without a system prompt,
  /forget skips the oldest message and /clear drops the BOS token; /undo of
  everything takes the system prompt with it.
* On a Mac, after an update that touched only headers, a run that extracts them and
  then crashes or fails to compile leaves nothing that tells the next one that the
  module is old: bytes agree, and only the time of `ggml-metal.m` is compared
  (`metal.c:106-135`).  A process that starts beside one that still compiles links the
  old module in the same way.  A failed compilation of `metal.c` leaves its temporary
  file.
* `cuda.c` links a module that is there without `--recompile`, even if it has just
  replaced the sources of it (`cuda.c:836`).  For NVIDIA a module that does not link is
  linked a second time and the one in the executable is not tried (`cuda.c:934`).
* `flush()` of D does not list the state of a hexadecimal string, whose color leaks
  (`highlight_d.cpp:464-521`).  Outside of a directive, `flush()` of C does not take back
  the color of a `\u` that is not finished, nor of the `<a` of `#include define<a`
  (`highlight_c.cpp:453-456`); the characters themselves are shown.  `*r += c` of a wide
  character in assembly strings keeps one byte of it (`highlight_asm.cpp:326`), and the
  closing tag of a script or a style in HTML is shown in lower case
  (`highlight_html.cpp:233-237`).  `highlight_test.cpp` says of such things "failed to
  reset color" (163-165) and "failed to preserve code" (172-174), but the random strings
  that it tries have no `x`, no `u`, no wide characters and no capitals but `Q` (line 27).
  All of these are in the run `highlight`, as exceptions of its properties.
* In Rust a character literal of more than a byte is broken up by a color, and the
  register of JavaScript is read before it is set.
* The flag that stops the thread of localscore's power sampler is not atomic
  (`localscore/powersampler.cpp:89`), and `/slotz` reads slots that others write
  (`server/slotz.cpp:37`).

## 6. Limits

* Memory is sequentially consistent; the barrier's relaxed stores followed by a
  fence are modelled as on x86-64.
* Locks are held for whole critical sections in one step, except where a thread
  may die, or read, in between.
* The tag of the task pool has 4096 values, as in the code; a wrap of it is out of
  the bounds of the run.
* The rate of replenishment, timeouts and sizes in bytes are not modelled.
* Each module has its own cancelations, but for the cores and the graph
  (`LlamaCompute`), and the lock of the slots in `WorkerPool`; that a request's
  connection, slot and cores unwind in an order that works is not checked beyond that.
* `GpuModule` has no clock that goes backwards and no times that are equal by its
  resolution, and processes of one build only.
* The search for a keyword in a perfect hash table (`is_keyword_*.gperf`), and the
  spelling of what ends a heredoc or a string, are not modelled: whether it ends is a
  choice.

## 7. Not modelled, and what is left

* Vendored code is four fifths of the lines of this repository (`miniaudio.h` alone
  is more than half), and tensor kernels most of the rest; they have no protocol that
  TLC could explore.  Conversions (JSON, base64, URLs, addresses) are pure functions
  with unit tests; SQL statements are executed by SQLite.
* In `ggml.c`, the barriers inside an operation and the chunk counter of the matrix
  product; in the server, the deltas and finish reasons of streamed completions, and
  the listing and scoring of slots; the connection and the slot of a cancelled
  request in one model.
* Worth proving next: that the stack stays exact for callers that cancel tasks which may
  end, once finding 2 is repaired.  Memory is sequentially consistent in the model;
  `idle_pop` reads `thread->next` after a relaxed load (`pool.cpp:75`), which is for other
  tools to judge.
