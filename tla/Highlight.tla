------------------------------ MODULE Highlight ------------------------------
(***************************************************************************)
(* What the chatbot prints of a reply (chatbot_repl.cpp): ColorBleeder over *)
(* HighlightMarkdown, which hands the text between fences to a highlighter *)
(* of the language the fence names, made when the name ends and deleted at *)
(* the closing fence or at flush().  The reply comes in pieces and may end *)
(* anywhere, and the next one is shown by the same two objects.            *)
(*                                                                         *)
(* Two terminals show the text: one that knows every code, and one that    *)
(* knows only those of a VT100 and forgets its colors at the end of a line,*)
(* which is what less does.                                                *)
(***************************************************************************)
EXTENDS HighlightTables

CONSTANTS
    Languages,    \* the languages of the code blocks
    Unseen,       \* for each of them, characters that the replies do not contain
    MaxWord       \* bound: letters of a word

ASSUME HighlightAssumption ==
    /\ Languages \subseteq DOMAIN Rows /\ MaxWord \in Nat \ {0}
    /\ Unseen \in [Languages -> SUBSET All]

VARIABLES
    t, bol, tail,     \* t_, bol_ and tail_ of HighlightMarkdown
    lang, inner,      \* what highlighter_ is an object of, "none" for null, and its state
    pen,              \* the attributes ColorBleeder has seen
    tty, less,        \* the attributes of the two terminals
    owed,             \* history: the characters that were fed and not shown yet
    amiss,            \* history: what was wrong with the text of the last call
    spoiled           \* history: what a known fault of a highlighter has made of it

markdown == <<t, bol, tail>>
code == <<lang, inner>>
vars == <<markdown, code, pen, tty, less, owed, amiss, spoiled>>

-----------------------------------------------------------------------------
Plain == [intensity |-> 0, inverted |-> 0, foreground |-> 0, background |-> 0]

\* The meaning of one number of a code.
Sgr(p, g) ==
    CASE g = 0 -> Plain
      [] g \in {1, 2} -> [p EXCEPT !.intensity = g]
      [] g = 22 -> [p EXCEPT !.intensity = 0]
      [] g = 7 -> [p EXCEPT !.inverted = 7]
      [] g = 27 -> [p EXCEPT !.inverted = 0]
      [] g \in 30..37 -> [p EXCEPT !.foreground = g]
      [] g = 39 -> [p EXCEPT !.foreground = 0]
      [] g \in 40..47 -> [p EXCEPT !.background = g]
      [] OTHER -> p
NewCodes == {22, 27, 39, 49}      \* a VT100 does not know them

Char(c) == [char |-> c, codes |-> <<>>]
Color(codes) == [char |-> "", codes |-> codes]
IsColor(x) == x.char = ""

\* restore: the codes for some attributes.
Restore(p) ==
    IF p = Plain THEN <<>>
    ELSE <<Color(SelectSeq(<<p.intensity, p.inverted, p.foreground, p.background>>,
                           LAMBDA g : g # 0))>>

\* Mutant: the colors are not restored behind the end of a line.
RelayUnrestored(out) ==
    Fold(LAMBDA b, x :
        IF x \in All THEN [b EXCEPT !.out = Append(@, Char(x))]
        ELSE [pen |-> Fold(Sgr, b.pen, Codes[x]), out |-> Append(b.out, Color(Codes[x]))],
        [pen |-> pen, out |-> <<>>], out)

\* relay: what ColorBleeder makes of what a highlighter puts out.
Relay(out) ==
    Fold(LAMBDA b, x :
        IF x \in All
        THEN [b EXCEPT !.out = @ \o <<Char(x)>> \o (IF x = "\n" THEN Restore(b.pen) ELSE <<>>)]
        ELSE LET p == Fold(Sgr, b.pen, Codes[x])
                 dirty == \E i \in 1..Len(Codes[x]) : Codes[x][i] \in NewCodes
             IN  [pen |-> p,
                  out |-> b.out \o <<Color(Codes[x])>> \o
                          (IF dirty THEN <<Color(Codes["RESET"])>> \o Restore(p) ELSE <<>>)],
        [pen |-> pen, out |-> <<>>], out)

\* What the terminals show of it.
Draw(out) ==
    Fold(LAMBDA d, x :
        IF IsColor(x)
        THEN [d EXCEPT !.tty = Fold(Sgr, @, x.codes),
                       !.less = Fold(Sgr, @, SelectSeq(x.codes, LAMBDA g : g \notin NewCodes))]
        ELSE [d EXCEPT !.text = Append(@, x.char), !.alike = @ /\ d.tty = d.less,
                       !.less = IF x.char = "\n" THEN Plain ELSE @],
        [tty |-> tty, less |-> less, text |-> <<>>, alike |-> TRUE], out)

Bytes(text) ==
    Fold(LAMBDA bytes, c : bytes \o (IF c = "e-acute" THEN <<"lead", "cont">> ELSE <<c>>),
         <<>>, text)

-----------------------------------------------------------------------------
(* Four places where the highlighters do not keep to what is stated below.  They *)
(* are modelled as they are, and what they spoil is told from anything else.     *)

\* A wide character in a string of an assembler is truncated to one byte
\* (highlight_asm.cpp:326), and the tag that closes a script or a style is shown
\* in small letters whatever it was in (highlight_html.cpp:233-237).
Misprints(name, h, text) ==
    \/ /\ name = "asm" /\ Last(text) = "e-acute"
       /\ h.t \in {"QUOTE", "QUOTE_BACKSLASH", "DQUOTE", "DQUOTE_BACKSLASH"}
    \/ /\ h.t = "RELAY"
       /\ LET tag == h.n.pending \o text
              small == [i \in 1..Len(tag) |-> ToLower(tag[i])]
          IN  small # tag /\ small = Closer[h.n.name]

\* flush() turns the color off in every state but these: a hexadecimal string of D
\* (highlight_d.cpp:515), and outside of a directive a \u and a name in angle
\* brackets of C (highlight_c.cpp:453-456).
ForgetsColor(name, h) ==
    \/ name = "d" /\ h.t = "X_DQUOTE"
    \/ name = "c" /\ h.t \in {"UNIVERSAL", "CPP_LT"} /\ "cpp" \notin h.n

-----------------------------------------------------------------------------
\* Fed some characters, feed() or flush() returns a string, on its way to the terminals.
\* Behind a character that a fault changes nothing is held back, so that owed begins
\* anew; a color that a fault leaves lasts until a code turns it off.
PutFaulty(fed, out, faults) ==
    \E relayed \in {Relay(Bytes(out))} : \E drawn \in {Draw(relayed.out)} :
        LET due == owed \o Bytes(fed)
            kept == IF "text" \in faults THEN drawn.text = due ELSE IsPrefix(drawn.text, due)
        IN  /\ pen' = relayed.pen /\ tty' = drawn.tty /\ less' = drawn.less
            /\ owed' = IF "text" \in faults THEN <<>>
                       ELSE SubSeq(due, Len(drawn.text) + 1, Len(due))
            /\ amiss' = (IF kept THEN {} ELSE {"text"}) \cup
                        (IF drawn.alike THEN {} ELSE {"color"})
            /\ spoiled' = IF drawn.tty = Plain THEN faults \ {"color"}
                          ELSE faults \cup (spoiled \ {"text"})

Put(fed, out) == PutFaulty(fed, out, {})

-----------------------------------------------------------------------------
Init ==
    /\ t = "NORMAL" /\ bol = TRUE /\ tail = FALSE
    /\ lang = "none" /\ inner = Fresh(0)
    /\ pen = Plain /\ tty = Plain /\ less = Plain
    /\ owed = <<>> /\ amiss = {} /\ spoiled = {}

\* One character in state s: what is put out, and the next state.
In(s, c, out, to) == t = s /\ Put(<<c>>, out) /\ t' = to
Outside == UNCHANGED code

Normal(c, out) ==
    /\ CASE c = Tick -> Put(<<c>>, out) /\ t' = "TICK"
         [] c = "*" -> Put(<<c>>, out) /\ t' = "STAR"
         [] c = "\\" -> Put(<<c>>, out \o <<c>>) /\ t' = "BACKSLASH"
         [] OTHER -> Put(<<c>>, out \o <<c>>) /\ t' = "NORMAL"
    /\ IF c \in {Tick, "*"} THEN UNCHANGED <<bol, tail>>
       ELSE tail' = (c # "\n") /\ bol' = (c = "\n" \/ (bol /\ c \in {" ", "\t"}))

FeedNormal(c) == t = "NORMAL" /\ Normal(c, <<>>) /\ Outside

FeedBackslash(c) == In("BACKSLASH", c, <<c>>, "NORMAL") /\ UNCHANGED <<bol, tail>> /\ Outside

FeedStar(c) ==
    /\ CASE c = "*" -> In("STAR", c, <<"BOLD", "*", "*">>, "STRONG")
         [] bol /\ c \in {" ", "\t"} -> In("STAR", c, <<"*", c>>, "NORMAL")
         [] OTHER -> In("STAR", c, <<"*", "ITALIC", c>>,
                        IF c = "\\" THEN "EMPHASIS_BACKSLASH" ELSE "EMPHASIS")
    /\ bol' = FALSE /\ UNCHANGED tail /\ Outside

FeedEmphasis(c) ==
    /\ \/ c = "*" /\ In("EMPHASIS", c, <<"RESET", c>>, "NORMAL")
       \/ c = "\\" /\ In("EMPHASIS", c, <<c>>, "EMPHASIS_BACKSLASH")
       \/ c \notin {"*", "\\"} /\ In("EMPHASIS", c, <<c>>, "EMPHASIS")
       \/ In("EMPHASIS_BACKSLASH", c, <<c>>, "EMPHASIS")
    /\ UNCHANGED <<bol, tail>> /\ Outside

FeedStrong(c) ==
    /\ \/ In("STRONG", c, <<c>>, CASE c = "*" -> "STRONG_STAR"
                                   [] c = "\\" -> "STRONG_BACKSLASH"
                                   [] OTHER -> "STRONG")
       \/ In("STRONG_BACKSLASH", c, <<c>>, "STRONG")
       \/ IF c = "*" \/ (c = "\n" /\ ~tail)
          THEN In("STRONG_STAR", c, <<c, "RESET">>, "NORMAL")
          ELSE In("STRONG_STAR", c, <<c>>, IF c = "\\" THEN "STRONG_BACKSLASH" ELSE "STRONG")
    /\ UNCHANGED <<bol, tail>> /\ Outside

FeedTick(c) ==
    /\ CASE c = Tick /\ bol -> In("TICK", c, <<>>, "TICK_TICK")
         [] c = Tick /\ ~bol -> In("TICK", c, <<"INCODE", Tick, Tick>>, "INCODE2")
         [] OTHER -> In("TICK", c, <<"INCODE", Tick, c>>, "INCODE")
    /\ bol' = FALSE /\ UNCHANGED tail /\ Outside

FeedInCode(c) ==
    /\ \/ IF c = Tick THEN In("INCODE", c, <<c, "RESET">>, "NORMAL")
                      ELSE In("INCODE", c, <<c>>, "INCODE")
       \/ In("INCODE2", c, <<c>>, IF c = Tick THEN "INCODE2_TICK" ELSE "INCODE2")
       \/ In("INCODE2_TICK", c, <<c>>, IF c = Tick THEN "INCODE2_TICK2" ELSE "INCODE2")
       \/ c = Tick /\ In("INCODE2_TICK2", c, <<c>>, "INCODE2_TICK2")
    /\ UNCHANGED <<bol, tail>> /\ Outside

FeedInCodeEnd(c) ==
    /\ t = "INCODE2_TICK2" /\ c # Tick
    /\ Normal(c, <<"RESET">>) /\ Outside

FeedTickTick(c) ==
    /\ IF c = Tick THEN In("TICK_TICK", c, <<c, c, c>>, "LANG")
                   ELSE In("TICK_TICK", c, <<"INCODE", Tick, Tick, c>>, "INCODE2")
    /\ UNCHANGED <<bol, tail>> /\ Outside

-----------------------------------------------------------------------------
FeedLang(c) ==
    /\ c \notin Space
    /\ In("LANG", c, <<c>>, "LANG") /\ UNCHANGED <<bol, tail>> /\ Outside

\* Mutant: the second of the ticks that are held back is forgotten.
TicksForgotten == [CODE |-> <<>>, CODE_TICK |-> <<Tick>>, CODE_TICK_TICK |-> <<Tick>>]

\* The ticks that may begin a closing fence are held back.
Ticks == [CODE |-> <<>>, CODE_TICK |-> <<Tick>>, CODE_TICK_TICK |-> <<Tick, Tick>>]

\* A call of feed() of the highlighter of the code.
Inside(l, h, text, c) ==
    \E m \in Feed(l, h, text) :
        /\ Len(WordOf(m.h)) <= MaxWord
        /\ PutFaulty(IF c \in DroppedIn(l, h) THEN <<>> ELSE <<c>>, m.out,
                     IF Misprints(l, h, text) THEN {"text"} ELSE {})
        /\ t' = "CODE"
        /\ lang' = l /\ inner' = m.h /\ UNCHANGED <<bol, tail>>

\* The name of the language ends: Highlight::create.
FeedFence(c) ==
    /\ t = "LANG" /\ c \in Space
    /\ \E l \in Languages : Inside(l, Create(l), <<c>>, c)

FeedCode(c) ==
    /\ t \in DOMAIN Ticks /\ c # Tick
    /\ Inside(lang, inner, Append(Ticks[t], c), c)

FeedCodeTick(c) ==
    /\ c = Tick
    /\ \/ In("CODE", c, <<>>, "CODE_TICK")
       \/ In("CODE_TICK", c, <<>>, "CODE_TICK_TICK")
    /\ UNCHANGED <<bol, tail, code>>

\* A highlighter is deleted.
GivenUp == IF ForgetsColor(lang, inner) THEN {"color"} ELSE {}

\* The closing fence.
FeedUnfence(c) ==
    /\ c = Tick /\ t = "CODE_TICK_TICK"
    /\ \E out \in FlushOf(lang, inner) : PutFaulty(<<c>>, out \o <<Tick, Tick, Tick>>, GivenUp)
    /\ t' = "NORMAL"
    /\ lang' = "none" /\ inner' = Fresh(0) /\ UNCHANGED <<bol, tail>>

\* flush(): what each state leaves behind.
Flushing(out) ==
    CASE t = "STAR" -> out = <<"*">>
      [] t = "TICK" -> out = <<Tick>>
      [] t = "TICK_TICK" -> out = <<Tick, Tick>>
      [] t \in {"INCODE", "INCODE2", "INCODE2_TICK", "INCODE2_TICK2", "STRONG", "STRONG_BACKSLASH",
                "STRONG_STAR", "EMPHASIS", "EMPHASIS_BACKSLASH"} -> out = <<"RESET">>
      [] OTHER -> out = <<>>

\* The reply ends, or Ctrl-C ends it.
FlushMarkdown ==
    /\ IF t \in DOMAIN Ticks
       THEN \E out \in FlushOf(lang, inner) : PutFaulty(<<>>, out \o Ticks[t], GivenUp)
       ELSE \E out \in {<<"*">>, <<Tick>>, <<Tick, Tick>>, <<"RESET">>, <<>>} :
                Flushing(out) /\ Put(<<>>, out)
    /\ lang' = "none" /\ inner' = Fresh(0)
    /\ t' = "NORMAL" /\ bol' = TRUE /\ tail' = FALSE

-----------------------------------------------------------------------------
Next ==
    \/ \E c \in {"a", " ", "\n", Tick, "*", "\\"} :
          \/ FeedNormal(c) \/ FeedBackslash(c) \/ FeedStar(c) \/ FeedEmphasis(c) \/ FeedStrong(c)
          \/ FeedTick(c) \/ FeedInCode(c) \/ FeedInCodeEnd(c) \/ FeedTickTick(c)
          \/ FeedLang(c) \/ FeedFence(c)
    \/ lang # "none" /\ \E c \in Keys[lang] \ Unseen[lang] :
          FeedCode(c) \/ FeedCodeTick(c) \/ FeedUnfence(c)
    \/ FlushMarkdown

Spec == Init /\ [][Next]_vars

-----------------------------------------------------------------------------
\* The characters of the reply are shown unchanged and in their order, whatever
\* machine holds them back for a while, and none is left when the reply or a
\* construct of Markdown has ended (highlight_test.cpp).  The exceptions are the
\* characters that Misprints names, and no character before or behind them.
TextKept ==
    /\ "text" \in amiss => "text" \in spoiled
    /\ t = "NORMAL" => owed = <<>>

\* Outside of a construct of Markdown nothing is colored: a highlighter that is
\* given up in the middle of a string, a comment or a word has taken its color
\* back, except in the states that ForgetsColor names, and what those leave
\* behind is all that is ever colored there.
NoColorLeaks ==
    t \in {"NORMAL", "BACKSLASH", "STAR", "TICK", "TICK_TICK", "LANG"} =>
        tty = Plain \/ "color" \in spoiled

\* A line is shown alike by a terminal that carries colors over to the next line
\* and by one that does not, and by one that cannot turn off a single attribute.
LinesStandAlone == less = tty /\ "color" \notin amiss
=============================================================================
