----------------------------- MODULE Highlighter -----------------------------
(***************************************************************************)
(* What the highlighters of llamafile/highlight have in common.  Each is a *)
(* machine that is fed characters and answers with the same characters     *)
(* between ANSI colors.  Its state is t_, the word_ it has not shown yet,  *)
(* and in some languages one more register.  The switch of feed() and of   *)
(* flush() is a table: a sequence of rows, of which the first that matches *)
(* the state, the character and the register applies.                      *)
(*                                                                         *)
(* Whether a word is a keyword is left open, so words need no spelling.    *)
(***************************************************************************)
EXTENDS Naturals, SequencesExt

CONSTANT MaxDepth      \* bound: how deep brackets and comments nest, and the size of nest_

ASSUME DepthAssumption == MaxDepth \in Nat \ {0}

-----------------------------------------------------------------------------
\* Characters: one of each kind that some highlighter tells apart.
\* A character that is not ASCII is one to the highlighters that decode UTF-8, and two
\* bytes to the others.
NonAscii == {"e-acute", "lead", "cont"}
Lower == {"a", "b", "c", "e", "f", "h", "i", "m", "p", "q", "r", "s", "t", "u", "x"}
Upper == {"A", "C", "D", "R", "S", "T", "U"}
Ascii == Lower \cup Upper                     \* isalpha(c)
Letter == NonAscii \cup Ascii                 \* !isascii(c) || isalpha(c)
Digit == {"0", "1"}
Space == {" ", "\t", "\n", "\r"}              \* isspace(c)
Hex == Digit \cup {"a", "b", "c", "e", "f", "A", "C", "D"}
Name == Letter \cup {"_"}
Alnum == Name \cup Digit
Tick == "tick"                                \* a backquote, which TLA+ cannot write in a string
All == Alnum \cup Space \cup {Tick} \cup
       {"'", "\"", "\\", "/", "*", "-", "+", "#", "<", ">", "=", "!", "?", ":", ";", ",", ".",
        "(", ")", "[", "]", "{", "}", "$", "@", "%", "&", "|", "^", "~"}

\* The HI_ colors, as the numbers between "\033[" and "m".
Codes ==
    "RESET" :> <<0>> @@ "BOLD" :> <<1>> @@ "UNBOLD" :> <<22>> @@ "ITALIC" :> <<7>>
    @@ "KEYWORD" :> <<1, 34>> @@ "STRING" :> <<32>> @@ "COMMENT" :> <<31>> @@ "VAR" :> <<1, 35>>
    @@ "MACRO" :> <<35>> @@ "ATTRIB" :> <<35>> @@ "LINENO" :> <<2>> @@ "CONTIN" :> <<33>>
    @@ "LABEL" :> <<33>> @@ "DEF" :> <<2, 33>> @@ "TYPE" :> <<36>> @@ "CLASS" :> <<1, 36>>
    @@ "SELECTOR" :> <<33>> @@ "PROPERTY" :> <<36>> @@ "TAG" :> <<33>> @@ "INCODE" :> <<1, 35>>
    @@ "BUILTIN" :> <<35>> @@ "CONSTANT" :> <<1, 35>> @@ "LISPKW" :> <<35>> @@ "ENTITY" :> <<36>>
    @@ "OPERATOR" :> <<36>> @@ "ESCAPE" :> <<33>> @@ "QUALIFIER" :> <<35>> @@ "IMMEDIATE" :> <<36>>
    @@ "REGISTER" :> <<1, 35>> @@ "DIRECTIVE" :> <<1, 31>> @@ "WARNING" :> <<1, 31>>
    @@ "MATH" :> <<1, 35>>

-----------------------------------------------------------------------------
(* Rows.  What a row puts out is a sequence of colors, characters, CHAR    *)
(* (the character at hand) and WORD (word_, which is then cleared); KEEP   *)
(* appends the character at hand to word_, DROP clears word_.              *)

\* What one may come to: an output, the next state, the change of the register, and
\* whether the character is looked at again in that state ("goto").
To(put, to) == [put |-> put, to |-> to, set |-> <<>>, same |-> TRUE, again |-> FALSE]
Via(put, to) == [To(put, to) EXCEPT !.again = TRUE]
Change(put, to, set) == [To(put, to) EXCEPT !.set = set, !.same = FALSE]
ChangeVia(put, to, set) == [Change(put, to, set) EXCEPT !.again = TRUE]
Row(at, on, choices) == [at |-> at, on |-> on, choices |-> choices, if |-> {}, always |-> TRUE]

C == <<"CHAR">>
Keep == <<"KEEP">>
On(at, on, put, to) == Row({at}, on, {To(put, to)})
Again(at, on, put, via) == Row({at}, on, {Via(put, via)})
\* The word ends: it is shown in the color of its kind, or as it is.
Painted(colors) == {<<"WORD">>} \cup {<<color, "WORD", "RESET">> : color \in colors}
EndWord(at, on, colors, via) == Row({at}, on, {Via(put, via) : put \in Painted(colors)})
\* flush() in one of some states; a state without a row puts out nothing.
Flush(at, put) == Row(at, {"FLUSH"}, {To(put, "NORMAL")})
FlushWord(at, colors) == Row(at, {"FLUSH"}, {To(put, "NORMAL") : put \in Painted(colors)})
\* What the code decides by data that is left out goes either way.
Or(row, other) == [row EXCEPT !.choices = @ \cup other.choices]
\* A row that applies to some values of the register, one that changes it.
If(row, values) == [row EXCEPT !.if = values, !.always = FALSE]
Set(row, change) == [row EXCEPT !.choices = {[x EXCEPT !.set = change, !.same = FALSE] : x \in row.choices}]

\* The register as a counter.
Nested == 1..MaxDepth
Deeper == [n \in 0..(MaxDepth - 1) |-> n + 1]
Shallower == [n \in 1..MaxDepth |-> n - 1]
\* The register as nest_, the states that brackets go back to.
Nest(states) == BoundedSeq(states, MaxDepth)
NotFull(states) == {nest \in Nest(states) : Len(nest) < MaxDepth}
Push(states, s) == [nest \in NotFull(states) |-> Append(nest, s)]
Becomes(values, n) == [x \in values |-> n]
Copies(c, n) == [i \in 1..n |-> c]

\* Rows that many languages share.
Opens(c, color, s) == On("NORMAL", {c}, <<color, "CHAR">>, s)    \* what c begins is colored
Holds(c, s) == On("NORMAL", {c}, <<>>, s)                        \* c is not shown yet
Plainly == <<On("NORMAL", All, C, "NORMAL")>>
Words(first, rest, colors) ==
    <<On("NORMAL", first, Keep, "WORD"), On("WORD", rest, Keep, "WORD"),
      EndWord("WORD", All, colors, "NORMAL")>>
Quoted(q, s) ==        \* until the quote q, which a backslash protects
    <<On(s, {q}, <<"CHAR", "RESET">>, "NORMAL"), On(s, {"\\"}, C, s \o "_BACKSLASH"),
      On(s, All, C, s), On(s \o "_BACKSLASH", All, C, s)>>
Until(end, s) ==       \* until a character, as a comment until the end of the line
    <<On(s, {end}, <<"CHAR", "RESET">>, "NORMAL"), On(s, All, C, s)>>
Block(s, end) ==       \* until a star and another character
    <<On(s, {"*"}, C, s \o "_STAR"), On(s, All, C, s),
      On(s \o "_STAR", {end}, <<"CHAR", "RESET">>, "NORMAL"),
      On(s \o "_STAR", {"*"}, C, s \o "_STAR"), On(s \o "_STAR", All, C, s)>>
Else(s, text) == <<Again(s, All, text, "NORMAL")>>       \* it was nothing special
Second(s, c1, c2, color, to) ==      \* c1 is held back in s: c2 makes it special
    <<On(s, {c2}, <<color, c1, c2>>, to)>> \o Else(s, <<c1>>)
Brackets(states, open, close) ==     \* in what a string contains
    LET inside == Nest(states) \ {<<>>}
        leave(s) == [nest \in {n \in inside : Last(n) = s} |-> Front(nest)]
        out(s) == IF s = "NORMAL" THEN C ELSE <<"STRING", "CHAR">>
    IN  <<If(Set(On("NORMAL", {open}, C, "NORMAL"), Push(states, "NORMAL")), NotFull(states) \ {<<>>}),
          If(Row({"NORMAL"}, {close}, {Change(out(s), s, leave(s)) : s \in states}), inside)>>
\* until three quotes, from the state s3 behind the first three
Triple(q, s3, s31, s32) ==
    <<On(s3, {q}, C, s31), On(s31, {q}, C, s32), On(s32, {q}, <<"CHAR", "RESET">>, "NORMAL")>>
    \o FlattenSeq([i \in 1..3 |-> LET s == <<s3, s31, s32>>[i] IN
                   <<On(s, {"\\"}, C, s3 \o "_BACKSLASH"), On(s, All, C, s3)>>])
    \o <<On(s3 \o "_BACKSLASH", All, C, s3)>>

\* a string between single or triple quotes, from the state s behind the first
Strings(q, s) ==
    LET str == s \o "STR"
        two == s \o "2"
    IN  <<On(s, {q}, C, two), On(s, {"\\"}, C, str \o "_BACKSLASH"), On(s, All, C, str),
          On(two, {q}, C, s \o "3"), Again(two, All, <<"RESET">>, "NORMAL")>>
        \o Quoted(q, str) \o Triple(q, s \o "3", s \o "31", s \o "32")

-----------------------------------------------------------------------------
Fresh(register) == [t |-> "NORMAL", word |-> <<>>, n |-> register]

\* FoldLeft, as a function that TLC computes faster.
Fold(op(_, _), base, seq) ==
    LET upTo[i \in 0..Len(seq)] == IF i = 0 THEN base ELSE op(upTo[i - 1], seq[i])
    IN  upTo[Len(seq)]

\* What is put out, and word_ afterwards.
Shown(put, word, c) ==
    Fold(LAMBDA out, x : out \o (CASE x = "WORD" -> word
                                    [] x = "CHAR" -> <<c>>
                                    [] x \in {"KEEP", "DROP"} -> <<>>
                                    [] OTHER -> <<x>>),
         <<>>, put)
Kept(put, word, c) ==
    (IF \E i \in 1..Len(put) : put[i] \in {"WORD", "DROP"} THEN <<>> ELSE word)
    \o (IF \E i \in 1..Len(put) : put[i] = "KEEP" THEN <<c>> ELSE <<>>)

\* The rows of each state and character.
ByState(rows) ==
    [s \in UNION {rows[i].at : i \in 1..Len(rows)} |->
        LET mine == SelectSeq(rows, LAMBDA r : s \in r.at)
        IN  [c \in All \cup {"FLUSH"} |-> SelectSeq(mine, LAMBDA r : c \in r.on)]]

\* The first row for the register, 0 if there is none.
First(rows, n) ==
    IF rows # <<>> /\ rows[1].always THEN 1
    ELSE SelectInSeq(rows, LAMBDA r : r.always \/ n \in r.if)

\* feed() of one character: what the machine may become and put out.
RECURSIVE Moves(_, _, _)
Moves(table, h, c) ==
    LET rows == table[h.t][c]
        row == First(rows, h.n)
        After(x) == [t |-> x.to, word |-> Kept(x.put, h.word, c),
                     n |-> IF x.same THEN h.n ELSE x.set[h.n]]
        Step(x) ==
            IF x.again
            THEN {[m EXCEPT !.out = Shown(x.put, h.word, c) \o @] : m \in Moves(table, After(x), c)}
            ELSE {[h |-> After(x), out |-> Shown(x.put, h.word, c)]}
    IN  UNION {Step(x) : x \in {y \in rows[row].choices : y.same \/ h.n \in DOMAIN y.set}}

\* flush(): what it may put out.
Flushed(table, h) ==
    LET rows == table[h.t]["FLUSH"]
        row == First(rows, h.n)
    IN  IF row = 0 THEN {<<>>}
        ELSE {Shown(x.put, h.word, "FLUSH") : x \in rows[row].choices}
=============================================================================
