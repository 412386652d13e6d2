---------------------------- MODULE TokenBucket -----------------------------
(***************************************************************************)
(* The rate limiter of llamafiler (tokenbucket.cpp).  Worker threads take  *)
(* a token of the granule of a client's address, by a load and an atomic   *)
(* decrement of one byte; one background thread gives each granule a token *)
(* back, by a load and an atomic addition to eight bytes at once.  Words   *)
(* do not influence each other, so one word of granules is modelled.       *)
(***************************************************************************)
EXTENDS TokenWord, FiniteSets

CONSTANTS
    Worker,
    Burst      \* FLAG_token_burst

ASSUME TokenAssumption == IsFiniteSet(Worker) /\ Burst \in 1..Full

VARIABLES
    crowd,      \* the workers that ever take a token
    bytes,      \* g_tokens: the counters as unsigned bytes
    adding,     \* adding[w]: the granule worker w has found a token in, or -1
    addend,     \* what the replenisher is about to add
    loaded,     \* whether it has loaded the word already
    open,       \* whether clients still send requests
    penalised,  \* granules whose last request was over FLAG_token_burst
    streak      \* history: requests of a granule since the last replenishment

takerVars == <<adding, penalised, streak>>
replenisherVars == <<addend, loaded>>
bucketVars == <<crowd, bytes, takerVars, replenisherVars, open>>

\* A streak longer than this is counted as this long.
MaxStreak == Burst + 2

NoLane == -1

BucketInit ==
    /\ crowd \in (SUBSET Worker) \ {{}}
    /\ bytes = [g \in Lane |-> Full]
    /\ adding = [w \in Worker |-> NoLane]
    /\ addend = [g \in Lane |-> 0]
    /\ loaded = FALSE
    /\ open = TRUE
    /\ penalised = {}
    /\ streak = [g \in Lane |-> 0]

-----------------------------------------------------------------------------
\* Faulty variants of definitions below, which show what the properties catch.

\* acquire_token() that reports the tokens left instead of those spent.
ReturnsTokens(g, t) ==
    /\ penalised' = IF t > Burst THEN penalised \cup {g} ELSE penalised \ {g}
    /\ streak' = [streak EXCEPT ![g] = IF @ = MaxStreak THEN @ ELSE @ + 1]

\* acquire_token() that tests for a token the wrong way.
AcquireLoadAtZero(w, g) ==
    /\ open /\ adding[w] = NoLane
    /\ Signed(bytes[g]) >= 0
    /\ adding' = [adding EXCEPT ![w] = g]
    /\ UNCHANGED <<crowd, bytes, penalised, streak, replenisherVars, open>>

-----------------------------------------------------------------------------
\* acquire_token returns: Worker::begin and Client::transport deprioritize the
\* worker if the tokens spent exceed FLAG_token_burst.
Returns(g, t) ==
    /\ penalised' = IF -t + Full > Burst THEN penalised \cup {g}
                                         ELSE penalised \ {g}
    /\ streak' = [streak EXCEPT ![g] = IF @ = MaxStreak THEN @ ELSE @ + 1]

\* The load of acquire_token finds a token ...
AcquireLoad(w, g) ==
    /\ open /\ adding[w] = NoLane
    /\ Signed(bytes[g]) > 0
    /\ adding' = [adding EXCEPT ![w] = g]
    /\ UNCHANGED <<crowd, bytes, penalised, streak, replenisherVars, open>>

\* ... or finds none.
AcquireNone(w, g) ==
    /\ open /\ adding[w] = NoLane
    /\ Signed(bytes[g]) <= 0
    /\ Returns(g, Signed(bytes[g]))
    /\ UNCHANGED <<crowd, bytes, adding, replenisherVars, open>>

\* The atomic decrement takes one off whatever is there by then.
AcquireAdd(w) ==
    LET g == adding[w] IN
    /\ g # NoLane
    /\ bytes' = [bytes EXCEPT ![g] = (@ - 1) % Size]
    /\ adding' = [adding EXCEPT ![w] = NoLane]
    /\ Returns(g, Signed(bytes[g]))
    /\ UNCHANGED <<crowd, replenisherVars, open>>

\* replenish_tokens: the load of the word, and nothing else if it is full ...
ReplenishLoad ==
    /\ ~loaded
    /\ \E g \in Lane : bytes[g] # Full
    /\ addend' = SwarAddend(bytes)
    /\ loaded' = TRUE
    /\ UNCHANGED <<crowd, bytes, takerVars, open>>

\* ... and the atomic addition to the whole word.
ReplenishAdd ==
    /\ loaded
    /\ bytes' = AddWords(bytes, addend)
    /\ addend' = [g \in Lane |-> 0]
    /\ loaded' = FALSE
    /\ streak' = [g \in Lane |-> 0]
    /\ UNCHANGED <<crowd, adding, penalised, open>>

\* From some point on no client sends anything.
ClientsStop ==
    /\ open
    /\ open' = FALSE
    /\ UNCHANGED <<crowd, bytes, takerVars, replenisherVars>>

Quiescent ==
    /\ ~open /\ ~loaded
    /\ \A g \in Lane : bytes[g] = Full
    /\ \A w \in Worker : adding[w] = NoLane
    /\ UNCHANGED bucketVars

Replenisher == ReplenishLoad \/ ReplenishAdd

BucketNext ==
    \/ \E w \in crowd : AcquireAdd(w)
                         \/ \E g \in Lane : AcquireLoad(w, g) \/ AcquireNone(w, g)
    \/ Replenisher
    \/ ClientsStop
    \/ Quiescent

BucketSpec == BucketInit /\ [][BucketNext]_bucketVars

\* The replenisher wakes up at FLAG_token_rate, and a thread between its load
\* and its decrement is scheduled again.
FairBuckets ==
    /\ BucketSpec
    /\ WF_bucketVars(Replenisher)
    /\ \A w \in Worker : WF_bucketVars(AcquireAdd(w))

-----------------------------------------------------------------------------
BucketTypes ==
    /\ crowd \subseteq Worker
    /\ bytes \in [Lane -> Byte]
    /\ adding \in [Worker -> Lane \cup {NoLane}]
    /\ addend \in [Lane -> {0, 1}]
    /\ loaded \in BOOLEAN
    /\ open \in BOOLEAN
    /\ penalised \in SUBSET Lane
    /\ streak \in [Lane -> 0..MaxStreak]

tokens == [g \in Lane |-> Signed(bytes[g])]

Ideal == INSTANCE TokenBuckets WITH Granule <- Lane, Limit <- Full

\* With a single worker the packed counters are separate buckets: one addition
\* to the word neither overflows a byte nor reaches its neighbour, although the
\* word changes between the replenisher's load and its addition.
IsTokenBuckets ==
    [][Cardinality(crowd) = 1 => Ideal!Next \/ UNCHANGED tokens]_bucketVars

\* main.1, --token-burst: past the burst the restrictions apply.  With a single
\* worker, whoever asks for more than that without a replenishment is penalised,
\* also when the replenisher is between its load and its addition.
RestrictionsKickIn ==
    Cardinality(crowd) = 1 =>
        \A g \in Lane : streak[g] = MaxStreak => g \in penalised

\* The word that replenish_tokens adds has a one in each lane that is not full and
\* a zero in each that is, whatever the lanes hold, negative counters included: no
\* lane of the subtraction borrows from its neighbour.
AddendCorrect == SwarAddend(bytes) = Addend(bytes)

\* Threads that race for the last token overdraw a granule by one token each at
\* most.  This is so in the lowest byte of a word, which no carry reaches.
OverdrawBounded == Signed(bytes[0]) >= 1 - Cardinality(Worker)

\* The counters are what tokenbucket.cpp takes them for, whoever races with whom.
CountersSound == BucketTypes /\ AddendCorrect /\ OverdrawBounded

\* Once the clients are quiet, every granule has all of its tokens and keeps them,
\* whatever the races before that did to the counters.
Recovers == (<>~open) => <>[](\A g \in Lane : bytes[g] = Full)
=============================================================================
