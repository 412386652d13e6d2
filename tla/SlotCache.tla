------------------------------ MODULE SlotCache ------------------------------
(***************************************************************************)
(* The contents of one context window slot (slot.cpp): the history that    *)
(* llamafiler keeps of it and the KV cache that llama.cpp keeps, through   *)
(* the requests that use the slot one after the other.                     *)
(*                                                                         *)
(* Slot::prefill keeps what the prompt has in common with the history,     *)
(* moves what it has in common further back, and has the rest evaluated in *)
(* batches by eval_tokens and eval_image; then eval_token adds the         *)
(* generated tokens.  An evaluation may fail, and the thread may be        *)
(* cancelled or crash in the middle of llama_decode.                       *)
(*                                                                         *)
(* A cell of the cache is a position with the piece of an atom it was      *)
(* computed for.  Cells that agree in both are one here.  The cache itself *)
(* (llama_kv_cache_..., llama_decode) is modelled from how the slot uses it. *)
(***************************************************************************)
EXTENDS Integers, Sequences, SequencesExt

CONSTANTS
    Token, Image,
    ImageSize,     \* context positions that an image takes
    ContextSize,   \* Slot::ctx_size()
    Batch,         \* FLAG_batch
    HasClip,       \* whether the slot has a vision model
    MaxPrompt      \* bound: atoms of a prompt

ASSUME CacheAssumption ==
    /\ Token \cap Image = {}
    /\ {ImageSize, ContextSize, Batch, MaxPrompt} \subseteq Nat \ {0}
    /\ HasClip \in BOOLEAN

Atom == Token \cup Image

\* Atom::ctx_used of an atom in the history.
CtxUsed(atom) == IF atom \in Image THEN ImageSize ELSE 1

\* The pieces that atoms put into the cache, one for each position.
Pieces(atoms) ==
    FlattenSeq([i \in 1..Len(atoms) |-> [k \in 1..CtxUsed(atoms[i]) |-> <<atoms[i], k>>]])

VARIABLES
    erasable,   \* whether the model can erase a part of its cache
    history,    \* Slot::history_
    cells,      \* the KV cache: a set of <<position, piece>>
    pc,         \* what the slot is doing
    prompt,     \* the atoms of the request
    todo,       \* the atoms that eval_atoms has yet to evaluate
    left,       \* positions left to decode in eval_tokens or eval_image
    used,       \* the variable of that name in eval_tokens and eval_image
    total       \* what prefill has kept, relocated and evaluated so far

vars == <<erasable, history, cells, pc, prompt, todo, left, used, total>>

\* Slot::ctx_used.
ctxUsed == Len(Pieces(history))

\* remove_old_image_atoms leaves one image at most.
Prompts ==
    {atoms \in BoundedSeq(Atom, MaxPrompt) :
        \A i, j \in 1..Len(atoms) : atoms[i] \in Image /\ atoms[j] \in Image => i = j}

Init ==
    /\ erasable \in BOOLEAN
    /\ history = <<>>
    /\ cells = {}
    /\ pc = "free"
    /\ prompt = <<>>
    /\ todo = <<>>
    /\ left = 0
    /\ used = 0
    /\ total = 0

-----------------------------------------------------------------------------
\* Faulty variants of definitions below, which show what the properties catch.

\* A search that does not make sure that the match reaches the end.
MatchesLoose(p, h, keep) ==
    {i \in (keep + 1)..(Len(h) - 1) :
        Len(h) - i <= Len(p) - keep /\ h[i + 1] = p[keep + 1]}

\* llama_kv_cache_seq_add in the wrong direction.
ShiftedForward(set, by) == {<<c[1] + by, c[2]>> : c \in set}

-----------------------------------------------------------------------------
\* What prefill keeps and relocates of a history h for a prompt p.  Places are
\* counted from 0, as in the code; p0 = -1 means that nothing is relocated.

\* The longest common prefix.
CommonLength(p, h) ==
    LET same == {n \in 0..Len(h) : n <= Len(p) /\ SubSeq(p, 1, n) = SubSeq(h, 1, n)}
    IN  CHOOSE n \in same : \A m \in same : m <= n

\* The ends of the history that the prompt has right after the common prefix.
Matches(p, h, keep) ==
    {i \in (keep + 1)..(Len(h) - 1) :
        /\ Len(h) - i <= Len(p) - keep
        /\ SubSeq(h, i + 1, Len(h)) = SubSeq(p, keep + 1, keep + Len(h) - i)}

Plan(p, h) ==
    LET keep == CommonLength(p, h)
        ends == Matches(p, h, keep)
        p0 == IF ends = {} THEN -1 ELSE CHOOSE i \in ends : \A j \in ends : i <= j
        skipped == keep + (IF p0 = -1 THEN 0 ELSE Len(h) - p0)
        all == IF skipped = Len(p) THEN 1 ELSE 0   \* evaluate one at least
    IN  [keep    |-> IF p0 = -1 THEN keep - all ELSE keep,
         p0      |-> p0,
         p1      |-> IF p0 = -1 THEN -1 ELSE Len(h) - all,
         skipped |-> skipped - all]

-----------------------------------------------------------------------------
\* llama_kv_cache_seq_rm and llama_kv_cache_seq_add.
Below(n) == {c \in cells : c[1] < n}
From(n) == {c \in cells : c[1] >= n}
Shifted(set, by) == {<<c[1] - by, c[2]>> : c \in set}

\* A model with a recurrent state refuses to erase a part of it.
RemoveFails(from, to) ==
    ~erasable /\ Below(from) \cup From(to) # {} /\ Below(to) \ Below(from) # {}

\* (faulty variant of AfterRefusal) The refusal is taken for "nothing to erase".
NotCleared == cells

\* llama_kv_cache_clear, after a refusal.
AfterRefusal == {}

Done ==
    /\ pc' = "free"
    /\ todo' = <<>> /\ left' = 0 /\ used' = 0 /\ total' = 0
    /\ prompt' = <<>>

\* Slot::prefill of an empty prompt.
PrefillEmpty ==
    /\ pc = "free"
    /\ history' = <<>> /\ cells' = {}
    /\ pc' = "generate"
    /\ UNCHANGED <<prompt, todo, left, used, total>>

\* Slot::prefill until eval_atoms.
Prefill(p) ==
    LET plan == Plan(p, history)
        kept == Len(Pieces(SubSeq(history, 1, plan.keep)))
        from == Len(Pieces(SubSeq(history, 1, plan.p0)))
        to == Len(Pieces(SubSeq(history, 1, plan.p1)))
        moves == plan.p0 # -1
        end == IF moves THEN from ELSE ContextSize + 1
        refused == RemoveFails(kept, end)
    IN  /\ pc = "free" /\ p # <<>>
        /\ history' = IF refused THEN <<>>
                      ELSE SubSeq(history, 1, plan.keep) \o
                           (IF moves THEN SubSeq(history, plan.p0 + 1, plan.p1) ELSE <<>>)
        /\ cells' = IF refused THEN AfterRefusal
                    ELSE Below(kept) \cup
                         (IF moves THEN Shifted(From(from) \ From(to), from - kept) \cup From(to)
                                   ELSE {})
        /\ todo' = IF refused THEN p ELSE SubSeq(p, plan.skipped + 1, Len(p))
        /\ total' = kept + IF moves /\ ~refused THEN to - from ELSE 0
        /\ prompt' = p
        /\ pc' = "eval"
        /\ UNCHANGED <<left, used>>

-----------------------------------------------------------------------------
\* The length of the run of tokens that todo begins with.
RunLength ==
    LET heads == {n \in 0..Len(todo) : \A i \in 1..n : todo[i] \in Token}
    IN  CHOOSE n \in heads : \A m \in heads : m <= n

\* eval_atoms calls eval_tokens for a run of tokens, or eval_image.
EvalBegin(what, n) ==
    /\ pc = "eval" /\ todo # <<>>
    /\ IF what = "tokens" THEN n = RunLength /\ n > 0
                          ELSE n = ImageSize /\ todo[1] \in Image
    /\ ctxUsed + n <= ContextSize
    /\ what = "image" => HasClip
    /\ pc' = what
    /\ left' = n
    /\ used' = ctxUsed
    /\ UNCHANGED <<history, cells, prompt, todo, total>>

\* It is out of context, or there is no vision model, or the image is broken.
\* The request ends.
EvalRefused ==
    /\ pc = "eval" /\ todo # <<>>
    /\ \/ todo[1] \in Image
       \/ todo[1] \in Token /\ ctxUsed + RunLength > ContextSize
    /\ Done
    /\ UNCHANGED <<history, cells>>

\* eval_atoms and prefill return.
PrefillReturns ==
    /\ pc = "eval" /\ todo = <<>>
    /\ pc' = "generate"
    /\ UNCHANGED <<history, cells, prompt, todo, left, used, total>>

BatchSize == IF left < Batch THEN left ELSE Batch

\* The cells that llama_decode adds for the next batch.
NewCells ==
    LET done == IF pc = "image" THEN ImageSize - left ELSE 0
        pieces == SubSeq(Pieces(todo), done + 1, done + BatchSize)
    IN  {<<used + i - 1, pieces[i]>> : i \in 1..BatchSize}

\* A batch of eval_tokens.
DecodeTokens ==
    /\ pc = "tokens"
    /\ cells' = cells \cup NewCells
    /\ history' = history \o SubSeq(todo, 1, BatchSize)
    /\ todo' = SubSeq(todo, BatchSize + 1, Len(todo))
    /\ left' = left - BatchSize
    /\ used' = used + BatchSize
    /\ total' = total + BatchSize
    /\ pc' = IF left' = 0 THEN "eval" ELSE "tokens"
    /\ UNCHANGED prompt

\* A batch of eval_image, which adds to the history after the last one.
DecodeImage ==
    /\ pc = "image"
    /\ cells' = cells \cup NewCells
    /\ left' = left - BatchSize
    /\ used' = used + BatchSize
    /\ IF left' = 0
       THEN /\ history' = Append(history, todo[1])
            /\ todo' = Tail(todo)
            /\ total' = total + ImageSize
            /\ pc' = "eval"
       ELSE UNCHANGED <<history, todo, total, pc>>
    /\ UNCHANGED prompt

\* llama_decode fails without having taken any cell.
DecodeFails ==
    /\ pc \in {"tokens", "image"}
    /\ Done
    /\ UNCHANGED <<history, cells>>

\* The thread is cancelled or crashes in llama_decode, which has taken the
\* cells of the batch by then.
DecodeCancelled ==
    /\ pc \in {"tokens", "image"}
    /\ cells' = cells \cup NewCells
    /\ Done
    /\ UNCHANGED history

-----------------------------------------------------------------------------
\* eval_token of a generated token, or of the final one.
Generate(t) ==
    /\ pc \in {"generate", "generating"}
    /\ ctxUsed + 1 <= ContextSize
    /\ cells' = cells \cup {<<ctxUsed, <<t, 1>>>>}
    /\ history' = Append(history, t)
    /\ pc' = "generating"
    /\ UNCHANGED <<prompt, todo, left, used, total>>

GenerateCancelled(t) ==
    /\ pc \in {"generate", "generating"}
    /\ ctxUsed + 1 <= ContextSize
    /\ cells' = cells \cup {<<ctxUsed, <<t, 1>>>>}
    /\ Done
    /\ UNCHANGED history

\* The request is over, by a stop, the limit, a full context or an error.
GiveBack ==
    /\ pc \in {"generate", "generating"}
    /\ Done
    /\ UNCHANGED <<history, cells>>

Step ==
    \/ PrefillEmpty
    \/ \E p \in Prompts : Prefill(p)
    \/ EvalBegin("tokens", RunLength) \/ EvalBegin("image", ImageSize)
    \/ EvalRefused \/ PrefillReturns
    \/ DecodeTokens \/ DecodeImage \/ DecodeFails \/ DecodeCancelled
    \/ \E t \in Token : Generate(t) \/ GenerateCancelled(t)
    \/ GiveBack

Next == Step /\ UNCHANGED erasable

Spec == Init /\ [][Next]_vars

-----------------------------------------------------------------------------
TypeOK ==
    /\ erasable \in BOOLEAN
    /\ history \in Seq(Atom)
    /\ cells \subseteq Int \X (Atom \X Nat)
    /\ pc \in {"free", "eval", "tokens", "image", "generate", "generating"}
    /\ prompt \in Seq(Atom)
    /\ todo \in Seq(Atom)
    /\ left \in 0..ContextSize
    /\ used \in 0..ContextSize
    /\ total \in Nat

\* prefill returns the tokens of the prompt, which the response reports as
\* usage.prompt_tokens.  With a model that refuses to erase they may be more:
\* keep_tokens is not reset when everything is cleared.
PromptTokensCounted ==
    pc = "generate" => total >= ctxUsed /\ (erasable => total = ctxUsed)

\* When prefill returns without an error, the history is the prompt, atom for
\* atom, whatever the earlier requests left and however they ended, and its
\* tokens are counted.
HistoryIsPrompt == (pc = "generate" => history = prompt) /\ PromptTokensCounted

\* Every atom of the history has its cells in the cache, at its position: what
\* the slot believes to be evaluated is.  And no cell is outside of the context,
\* also when an evaluation that was broken off has left cells behind.
HistoryIsCached ==
    LET pieces == Pieces(history)
    IN  /\ TypeOK
        /\ \A i \in 1..Len(pieces) : <<i - 1, pieces[i]>> \in cells
        /\ \A c \in cells : c[1] \in 0..(ContextSize - 1)

\* With a model that refuses to erase a part of its cache, what a token attends
\* to, the cells up to its position, is the history and nothing else.  With other
\* models a relocation leaves a cell behind: when the history ends with the whole
\* rest of the prompt, its last atom is neither moved nor deleted.
RecurrentCacheIsHistory ==
    LET pieces == Pieces(history)
    IN  ~erasable => {c \in cells : c[1] < ctxUsed} = {<<i - 1, pieces[i]>> : i \in 1..Len(pieces)}
=============================================================================
