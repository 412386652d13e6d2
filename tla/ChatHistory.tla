----------------------------- MODULE ChatHistory -----------------------------
(***************************************************************************)
(* The conversation of the chatbot of the llamafile command (chatbot_*.cpp): *)
(* the history of tokens, the KV cache, the marks that /undo, /forget,     *)
(* /push and /pop go by, and Ctrl-C, which may come at any time.           *)
(*                                                                         *)
(* A turn is what one line or file adds: the message and, in the normal    *)
(* mode, the reply.  The first two turns are the BOS token and the system  *)
(* prompt.  A token is its turn and its place in it.                       *)
(***************************************************************************)
EXTENDS Integers, Sequences, SequencesExt, FiniteSetsExt

CONSTANTS
    Messages,      \* what is evaluated for a line or file: lengths of texts and images
    ContextSize,   \* llama_n_ctx
    Batch,         \* g_params.n_batch
    MaxTurns,      \* bound: turns
    MaxPushed      \* bound: entries of g_stack

ASSUME ChatAssumption ==
    /\ {ContextSize, Batch} \subseteq Nat \ {0} /\ {MaxTurns, MaxPushed} \subseteq Nat
    /\ \A m \in Messages : m \in Seq(Nat \ {0}) /\ m # <<>>

VARIABLES
    history,    \* g_history
    cells,      \* the KV cache: a set of <<position, token>>
    undo,       \* g_undo
    stack,      \* g_stack
    system,     \* g_system_prompt_tokens
    manual,     \* g_manual_mode
    sigint,     \* g_got_sigint
    pc,         \* what repl() is doing
    work,       \* whether it evaluates a line or a file
    parts,      \* what eval_string has yet to evaluate
    done,       \* the tokens of the first part that are evaluated
    before,     \* tokens_used_before
    said        \* history: the lengths of the turns when they ended

marks == <<undo, stack, system>>
evaluation == <<work, parts, done, before>>
vars == <<history, cells, marks, manual, sigint, pc, evaluation, said>>

used == Len(history)    \* tokens_used()
present == Len(said) + 1
Whole(t) == [k \in 1..said[t] |-> <<t, k>>]

\* The first prompt of repl().  record_undo is called after the BOS token and
\* before every line.
Init ==
    \E bos \in 0..1, prompt \in 0..2 :
        /\ bos + prompt <= ContextSize
        /\ said = <<bos, prompt>>
        /\ history = Whole(1) \o Whole(2)
        /\ cells = {<<i - 1, history[i]>> : i \in 1..used}
        /\ undo = IF prompt = 0 THEN <<bos>> ELSE <<bos, used>>
        /\ stack = <<>>
        /\ system = IF prompt = 0 THEN 0 ELSE used
        /\ manual = FALSE /\ sigint = FALSE
        /\ pc = "prompt"
        /\ work = "line" /\ parts = <<>> /\ done = 0 /\ before = 0

-----------------------------------------------------------------------------
\* A stack without what it has on top of its n-th entry.
Upto(marked, n) == SubSeq(marked, 1, n)

\* (faulty variant of RecordUndo) Only the first mark is recorded.
RecordUndoOnce(u, n) == IF u = <<>> THEN <<n>> ELSE u

\* record_undo
RecordUndo(u, n) == IF u = <<>> \/ Last(u) # n THEN Append(u, n) ELSE u

\* (faulty variant of FixStack) The stack is left as it is.
FixStackNot(marked, n) == marked

\* fix_stack
FixStack(marked, n) ==
    Upto(marked, Max({0} \cup {i \in 1..Len(marked) : marked[i] <= n}))

\* fix_stacks, and record_undo at the next turn of the loop.
FixStacks(u, s, n) ==
    /\ undo' = RecordUndo(FixStack(u, n), n)
    /\ stack' = FixStack(s, n)
    /\ system' = Min({system, n})

\* adjust_stack
AdjustStack(begin, end, marked) ==
    LET builder[i \in 0..Len(marked)] ==
            IF i = 0 THEN <<>>
            ELSE IF begin <= marked[i] /\ marked[i] < end THEN builder[i - 1]
            ELSE Append(builder[i - 1],
                        IF marked[i] >= end THEN marked[i] - (end - begin) ELSE marked[i])
    IN  builder[Len(marked)]

\* rewind
Rewind(pos) ==
    /\ cells' = {c \in cells : c[1] < pos}
    /\ history' = SubSeq(history, 1, pos)

\* (faulty variant of Erase) The cells behind what is erased stay where they are.
EraseUnshifted(begin, end) ==
    /\ cells' = {c \in cells : c[1] < begin \/ c[1] >= end}
    /\ history' = SubSeq(history, 1, begin) \o SubSeq(history, end + 1, used)

\* What /forget does to the cache and the history.
Erase(begin, end) ==
    /\ cells' = {c \in cells : c[1] < begin}
                \cup {<<c[1] - (end - begin), c[2]>> : c \in {d \in cells : d[1] >= end}}
    /\ history' = SubSeq(history, 1, begin) \o SubSeq(history, end + 1, used)

-----------------------------------------------------------------------------
Command == pc = "prompt" /\ UNCHANGED <<manual, sigint, pc, evaluation, said>>

\* on_undo
Undo ==
    LET earlier == Upto(undo, Max({0} \cup {i \in 1..Len(undo) : undo[i] # used}))
    IN  /\ Command
        /\ IF earlier = <<>>
           THEN undo' = <<used>> /\ UNCHANGED <<history, cells, stack, system>>
           ELSE Rewind(Last(earlier)) /\ FixStacks(Front(earlier), stack, Last(earlier))

\* on_forget
Forget ==
    LET begin == undo[2]
        end == IF Len(undo) > 2 THEN undo[3] ELSE used
    IN  /\ Command
        /\ Len(undo) >= 2 /\ end # begin
        /\ Erase(begin, end)
        /\ FixStacks(AdjustStack(begin, end, undo), AdjustStack(begin, end, stack),
                     used - (end - begin))

\* on_clear
Clear ==
    /\ Command
    /\ Rewind(system)
    /\ FixStacks(undo, <<>>, system)

Push ==
    /\ Command /\ Len(stack) < MaxPushed
    /\ stack' = Append(stack, used)
    /\ UNCHANGED <<history, cells, undo, system>>

Pop ==
    /\ Command /\ stack # <<>>
    /\ Rewind(Last(stack))
    /\ FixStacks(undo, Front(stack), Last(stack))

Manual ==
    /\ pc = "prompt"
    /\ manual' = ~manual
    /\ UNCHANGED <<history, cells, marks, sigint, pc, evaluation, said>>

-----------------------------------------------------------------------------
\* A line that is no command, or /upload.
Say(what, message) ==
    /\ pc = "prompt" /\ Len(said) < MaxTurns
    /\ work' = what /\ parts' = message /\ done' = 0 /\ before' = used
    /\ pc' = "eval"
    /\ UNCHANGED <<history, cells, marks, manual, sigint, said>>

\* The loop of repl() goes on, after a turn of so many tokens.
Prompt(length) ==
    /\ pc' = "prompt"
    /\ said' = Append(said, length)
    /\ undo' = RecordUndo(undo, Len(history'))
    /\ parts' = <<>> /\ done' = 0
    /\ UNCHANGED <<stack, system, manual, work, before>>

\* (faulty variant of EvalFails) What was evaluated until then is kept.
EvalFailsKeeps == UNCHANGED <<history, cells>> /\ Prompt(0)

\* eval_string has returned false.
EvalFails == Rewind(before) /\ Prompt(0)

Fits(n) == used + n <= ContextSize
Refused == done = 0 /\ ~Fits(Head(parts))

\* Out of context, a broken image, or llama_decode fails, whether Ctrl-C has come
\* meanwhile or not.
EvalRefused ==
    /\ pc = "eval" /\ parts # <<>>
    /\ EvalFails
    /\ UNCHANGED sigint

EvalInterrupted ==
    /\ pc = "eval" /\ parts # <<>> /\ ~Refused
    /\ sigint
    /\ sigint' = FALSE
    /\ EvalFails

\* llama_decode of n tokens.
Decode(n) ==
    LET new == [i \in 1..n |-> <<present, used - before + i>>]
    IN  /\ history' = history \o new
        /\ cells' = cells \cup {<<used + i - 1, new[i]>> : i \in 1..n}

\* A batch of eval_tokens or eval_image_embed.
EvalBatch ==
    LET left == Head(parts) - done
        n == Min({left, Batch})
    IN  /\ pc = "eval" /\ parts # <<>> /\ ~Refused
        /\ ~sigint
        /\ Decode(n)
        /\ IF n = left THEN parts' = Tail(parts) /\ done' = 0
                       ELSE done' = done + n /\ UNCHANGED parts
        /\ UNCHANGED <<marks, manual, sigint, pc, work, before, said>>

EvalReturns ==
    /\ pc = "eval" /\ parts = <<>>
    /\ UNCHANGED <<history, cells, sigint>>
    /\ IF work = "file" \/ manual
       THEN Prompt(used - before)
       ELSE pc' = "reply" /\ UNCHANGED <<marks, manual, evaluation, said>>

-----------------------------------------------------------------------------
\* The loop that generates the reply.
ReplyEnds == sigint' = FALSE /\ Prompt(Len(history') - before)

\* Its eval_token of the EOT token returns at once: for it the flag is still set.
ReplyInterrupted ==
    /\ pc = "reply" /\ sigint
    /\ UNCHANGED <<history, cells>>
    /\ ReplyEnds

Sample ==
    /\ pc = "reply" /\ ~sigint
    /\ pc' = "sampled"
    /\ UNCHANGED <<history, cells, marks, manual, sigint, evaluation, said>>

ReplyRefused ==
    /\ pc = "sampled"
    /\ UNCHANGED <<history, cells>>
    /\ ReplyEnds

ReplyToken ==
    /\ pc = "sampled" /\ Fits(1) /\ ~sigint
    /\ Decode(1)
    /\ \/ pc' = "reply" /\ UNCHANGED <<marks, manual, sigint, evaluation, said>>
       \/ ReplyEnds

\* on_sigint.  At the prompt Ctrl-C ends the program.
Interrupt ==
    /\ pc # "prompt" /\ ~sigint
    /\ sigint' = TRUE
    /\ UNCHANGED <<history, cells, marks, manual, pc, evaluation, said>>

Next ==
    \/ Undo \/ Forget \/ Clear \/ Push \/ Pop \/ Manual
    \/ \E what \in {"line", "file"}, message \in Messages : Say(what, message)
    \/ EvalRefused \/ EvalInterrupted \/ EvalBatch \/ EvalReturns
    \/ ReplyInterrupted \/ Sample \/ ReplyRefused \/ ReplyToken
    \/ Interrupt

Spec == Init /\ [][Next]_vars

-----------------------------------------------------------------------------
TypeOK ==
    /\ history \in Seq(Nat \X Nat)
    /\ cells \subseteq Nat \X (Nat \X Nat)
    /\ {undo, stack} \subseteq Seq(Nat)
    /\ system \in 0..ContextSize
    /\ {manual, sigint} \subseteq BOOLEAN
    /\ pc \in {"prompt", "eval", "reply", "sampled"}
    /\ work \in {"line", "file"}
    /\ parts \in Seq(Nat) /\ done \in Nat
    /\ before \in 0..ContextSize
    /\ said \in Seq(Nat)

Ascending(marked) == \A i, j \in 1..Len(marked) : i <= j => marked[i] <= marked[j]

\* All that /undo, /forget, /pop and /clear go back to is in the history and in
\* order, so the assertions of rewind, describe_position and describe_erasure
\* (unassert(pos <= tokens_used()), unassert(begin <= end)) cannot fail, after
\* any sequence of commands, failures and interruptions.  What /clear goes back to
\* has nothing in it but the BOS token and the system prompt.
PositionsValid ==
    /\ TypeOK
    /\ Ascending(undo) /\ Ascending(stack)
    /\ \A i \in 1..Len(undo) : undo[i] <= used
    /\ \A i \in 1..Len(stack) : stack[i] <= used
    /\ system <= used /\ \A i \in 1..system : history[i][1] <= 2

\* What the model attends to is the history, token for token.
CacheIsHistory == cells = {<<i - 1, history[i]>> : i \in 1..used}

\* At the prompt the history consists of whole turns in the order in which they
\* were said: nothing is left of a message that was interrupted or did not fit,
\* and no command cuts a turn in two.
WholeTurns ==
    LET kept == {history[i][1] : i \in 1..used}
        turn(t) == IF t \in kept THEN Whole(t) ELSE <<>>
    IN  pc = "prompt" => history = FlattenSeq([t \in 1..Len(said) |-> turn(t)])

\* The turns in the history, the BOS token and the system prompt left out.
Spoken == {history[i][1] : i \in 1..used} \ {1, 2}

\* One turn is erased, and all others stay as they are.
ErasesTurn(t) ==
    \E begin, end \in 0..used :
        /\ {i \in 1..used : history[i][1] = t} = begin + 1..end
        /\ history' = SubSeq(history, 1, begin) \o SubSeq(history, end + 1, used)

\* chatbot_help.cpp, /undo "erases last exchange in conversation": that one and
\* nothing else, whatever was forgotten, cleared, popped or interrupted before.
UndoErasesLast == [][Undo /\ Spoken # {} => ErasesTurn(Max(Spoken))]_vars

\* chatbot_help.cpp, /forget: "erase oldest chat message from context window",
\* "the oldest message excludes the original system prompt".  This is so while
\* the system prompt is there; without one the oldest message is taken for it.
ForgetsOldest ==
    [][Forget /\ (\E i \in 1..used : history[i][1] = 2) => ErasesTurn(Min(Spoken))]_vars

\* The two commands find the turns that their users mean, in any order of them.
CommandsEraseTurns == UndoErasesLast /\ ForgetsOldest
=============================================================================
