--------------------------- MODULE HighlightTables ---------------------------
(***************************************************************************)
(* Every language that is modelled: its table and the first value of its   *)
(* register (Highlight::create).                                           *)
(***************************************************************************)
EXTENDS HighlightCurly, HighlightScripts, HighlightClassics, HighlightEmbedded

Rows ==
    "txt" :> <<On("NORMAL", All, C, "NORMAL")>>
    @@ "java" :> JavaCode \o JavaString \o JavaEnd
    @@ "go" :> GoFeed \o GoFlush
    @@ "zig" :> ZigFeed \o ZigFlush
    @@ "c" :> CNormal \o CWord \o CQuoted \o CFlush
    @@ "ld" :> LdFeed \o LdFlush
    @@ "kotlin" :> KotlinCode \o KotlinString \o KotlinEnd
    @@ "scala" :> ScalaCode \o ScalaString \o ScalaEnd
    @@ "js" :> JsFeed \o JsFlush
    @@ "typescript" :> TypescriptCode \o TypescriptStrings \o TypescriptFlush
    @@ "swift" :> SwiftCode \o SwiftStrings \o SwiftFlush
    @@ "shell" :> ShellCode \o ShellStrings \o ShellFlush
    @@ "perl" :> PerlCode \o PerlStrings \o PerlHeredoc \o PerlFlush
    @@ "asm" :> AsmNormal \o AsmFeed \o AsmQuoted \o AsmFlush
    @@ "d" :> DCode \o DStrings \o DDelimited \o DFlush
    @@ "python" :> PythonFeed \o PythonStrings \o PythonFlush
    @@ "lua" :> LuaCode \o LuaStrings \o LuaFlush
    @@ "m4" :> M4Feed \o M4Flush
    @@ "pascal" :> PascalFeed \o PascalFlush
    @@ "sql" :> SqlFeed \o SqlFlush
    @@ "tcl" :> TclFeed \o TclFlush
    @@ "make" :> MakeFeed \o MakeVariable \o MakeFlush
    @@ "tex" :> TexFeed \o TexFlush
    @@ "r" :> RFeed \o ROperators \o RFlush
    @@ "matlab" :> MatlabFeed \o MatlabFlush
    @@ "julia" :> JuliaCode \o JuliaStrings \o JuliaFlush
    @@ "cmake" :> CmakeCode \o CmakeVariables \o CmakeFlush
    @@ "lisp" :> LispFeed \o LispFlush
    @@ "php" :> PhpFeed \o PhpFlush
    @@ "csharp" :> CsharpCode \o CsharpStrings \o CsharpFlush
    @@ "css" :> CssNormal \o CssUnder("SELECTOR") \o CssUnder("PROPERTY") \o CssUnder("VALUE") \o CssFlush
    @@ "ada" :> AdaFeed \o AdaFlush
    @@ "basic" :> BasicFeed \o BasicFlush
    @@ "bnf" :> BnfFeed \o BnfFlush
    @@ "cobol" :> CobolFeed \o CobolFlush
    @@ "fortran" :> FortranFeed \o FortranFlush
    @@ "forth" :> ForthFeed \o ForthFlush
    @@ "haskell" :> HaskellCode \o HaskellQuoted \o HaskellFlush
    @@ "ocaml" :> OcamlCode \o OcamlQuoted \o OcamlFlush
    @@ "rust" :> RustCode \o RustAttribute \o RustFlush
    @@ "ruby" :> RubyNormal \o RubyEqual \o RubySigils \o RubyQuestion
                   \o RubyQuotes \o RubyPercent \o RubyHeredoc \o RubyFlush
    @@ "html" :> HtmlFeed \o HtmlQuestion \o HtmlFlush

Table == [name \in DOMAIN Rows |-> ByState(Rows[name])]

\* The first value of the register.
Create(name) ==
    Fresh(CASE name \in {"c", "ld"} -> {"bol"}
            [] name \in {"kotlin", "scala", "js", "typescript", "swift"} -> <<>>
            [] name \in {"lua", "csharp"} -> <<0, 0>>
            [] name \in {"ada", "perl"} -> FALSE
            [] name = "shell" -> <<0, FALSE>>
            [] name = "ruby" -> <<<<>>, FALSE>>
            [] name = "html" -> "none"
            [] name = "asm" -> "bol"
            [] name = "basic" -> TRUE
            [] name = "forth" -> "none"
            [] OTHER -> 0)

\* What is brought up to date with every character.
Settle(name, h, c) ==
    CASE name \in {"c", "ld"} -> CSettle(h, c)
      [] name = "ada" -> AdaSettle(h, c)
      [] name = "asm" -> AsmSettle(h, c)
      [] name = "basic" -> BasicSettle(h, c)
      [] name \in {"cobol", "fortran"} -> ColumnSettle(h, c)
      [] OTHER -> h

\* The languages whose highlighters decode UTF-8, and those that drop carriage returns.
\* (HTML hands bytes on one by one, which comes to the same.)
Wide == {"asm", "cmake", "d", "js", "html", "make", "perl", "ruby", "shell", "swift", "tcl", "tex",
         "typescript", "zig"}
Dropped(name) == IF name \in {"c", "d", "js", "ruby"} THEN {"\r"} ELSE {}

\* The characters that a highlighter makes of a text.
Decoded(name, text) ==
    LET one(c) == IF c = "e-acute" /\ name \notin Wide THEN <<"lead", "cont">> ELSE <<c>>
    IN  SelectSeq(Fold(LAMBDA some, c : some \o one(c), <<>>, text), LAMBDA c : c \notin Dropped(name))

-----------------------------------------------------------------------------
\* highlighter_ and closer_ of HighlightHtml.
Embedded == [script |-> "js", style |-> "css", php |-> "php"]
Closer == [script |-> <<"<", "/", "s", ">">>, style |-> <<"<", "/", "t", ">">>, php |-> <<"?", ">">>]
\* What is shown of the closer.
Closing == [script |-> <<"<", "/", "TAG", "s", "RESET", ">">>,
            style |-> <<"<", "/", "TAG", "t", "RESET", ">">>, php |-> <<"?", ">">>]
ToLower(c) == IF c = "S" THEN "s" ELSE IF c = "T" THEN "t" ELSE c

\* State RELAY is entered.
Relaying(h) ==
    IF h.t # "RELAY" THEN h
    ELSE [h EXCEPT !.n = [name |-> @, inner |-> Create(Embedded[@]), pending |-> <<>>]]

RECURSIVE Feed(_, _, _), FlushOf(_, _)

\* In state RELAY what may begin the closer is held back in pending_ (i_ is its length).
Relayed(h, c) ==
    LET closer == Closer[h.n.name]
        pending == Append(h.n.pending, c)
    IN  IF ToLower(c) # closer[Len(pending)]
        THEN {[h |-> [h EXCEPT !.n.pending = <<>>, !.n.inner = m.h], out |-> m.out]
                : m \in Feed(Embedded[h.n.name], h.n.inner, pending)}
        ELSE IF Len(pending) < Len(closer)
        THEN {[h |-> [h EXCEPT !.n.pending = pending], out |-> <<>>]}
        ELSE {[h |-> Create("html"), out |-> out \o Closing[h.n.name]]
                : out \in FlushOf(Embedded[h.n.name], h.n.inner)}

\* What a highlighter becomes with one character, and with some in a row: feed().
Step(name, h, c) ==
    IF h.t = "RELAY" THEN Relayed(h, c)
    ELSE {[h |-> Relaying(Settle(name, m.h, c)), out |-> m.out] : m \in Moves(Table[name], h, c)}
Feed(name, h, text) ==
    Fold(LAMBDA sofar, c :
             UNION {{[h |-> m.h, out |-> s.out \o m.out] : m \in Step(name, s.h, c)} : s \in sofar},
         {[h |-> h, out |-> <<>>]}, Decoded(name, text))

\* flush().
FlushOf(name, h) ==
    IF h.t # "RELAY" THEN Flushed(Table[name], h)
    ELSE UNION {{m.out \o out : out \in FlushOf(Embedded[h.n.name], m.h)}
                : m \in Feed(Embedded[h.n.name], h.n.inner, h.n.pending)}

\* word_, and the characters that are not shown, of the innermost highlighter.
WordOf(h) == IF h.t = "RELAY" THEN h.n.inner.word ELSE h.word
DroppedIn(name, h) == Dropped(IF h.t = "RELAY" THEN Embedded[h.n.name] ELSE name)

\* The characters that a language tells apart.
Keys == [name \in DOMAIN Rows |->
            {"a", "1", " ", "\n", ".", Tick, "e-acute"} \cup (IF name = "html" THEN {"/"} ELSE {}) \cup
            UNION {row.on \cap All : row \in {Rows[name][i] : i \in
                {j \in 1..Len(Rows[name]) : Cardinality(Rows[name][j].on) <= 6}}}]
=============================================================================
