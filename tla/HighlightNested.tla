--------------------------- MODULE HighlightNested ---------------------------
(***************************************************************************)
(* The highlighters of languages whose strings contain code or end in ways *)
(* that they choose themselves, as tables of rows (see Highlighter).  What *)
(* ends such a string (a name, a number of hashes, a bracket), and whether *)
(* a slash divides or begins a regular expression, is left open.           *)
(***************************************************************************)
EXTENDS Highlighter

Comments(line, star) ==      \* what a slash may begin
    <<On("SLASH", {"/"}, <<"COMMENT", "/", "/">>, line),
      On("SLASH", {"*"}, <<"COMMENT", "/", "*">>, star)>> \o Block(star, "/")

-----------------------------------------------------------------------------
\* The register is nest_.
JsWords == {"KEYWORD", "BUILTIN", "CONSTANT"}
JsNest == {"NORMAL", "TICK"}
JsCode(colors) ==
    <<Holds("/", "SLASH"), Opens("'", "STRING", "QUOTE"), Opens("\"", "STRING", "DQUOTE"),
      Opens(Tick, "STRING", "TICK")>>
    \o Brackets(JsNest, "{", "}") \o Words(Name, Alnum, colors) \o Plainly
    \o Comments("SLASH_SLASH", "SLASH_STAR") \o Until("\n", "SLASH_SLASH")
JsStrings ==
    LET regex(c) == CASE c = "\\" -> "REGEX_BACKSLASH" [] c = "[" -> "REGEX_SQUARE" [] OTHER -> "REGEX"
        begins == [i \in 1..3 |-> LET on == <<{"\\"}, {"["}, All>>[i] IN
                      Or(On("SLASH", on, <<"STRING", "/", "CHAR">>, regex(<<"\\", "[", "">>[i])),
                         Again("SLASH", on, <<"/">>, "NORMAL"))]
    IN  begins
        \o <<On("REGEX", {"["}, C, "REGEX_SQUARE"), On("REGEX_SQUARE", {"]"}, C, "REGEX"),
             On("REGEX_SQUARE", {"\\"}, C, "REGEX_SQUARE_BACKSLASH"), On("REGEX_SQUARE", All, C, "REGEX_SQUARE"),
             On("REGEX_SQUARE_BACKSLASH", All, C, "REGEX_SQUARE"),
             On("TICK", {"$"}, <<>>, "TICK_DOLLAR"),
             If(Set(On("TICK_DOLLAR", {"{"}, <<"BOLD", "$", "UNBOLD", "STRING", "{", "RESET">>, "NORMAL"),
                    Push(JsNest, "TICK")), NotFull(JsNest)),
             Again("TICK_DOLLAR", All, <<"WARNING", "$", "UNBOLD", "STRING">>, "TICK")>>
        \o Quoted("/", "REGEX") \o Quoted("'", "QUOTE") \o Quoted("\"", "DQUOTE") \o Quoted(Tick, "TICK")
JsEnd(colors) ==
    <<FlushWord({"WORD"}, colors), Flush({"SLASH"}, <<"/">>), Flush({"TICK_DOLLAR"}, <<"$", "RESET">>),
      Flush({"TICK", "TICK_BACKSLASH", "QUOTE", "QUOTE_BACKSLASH", "DQUOTE", "DQUOTE_BACKSLASH",
             "SLASH_SLASH", "SLASH_STAR", "SLASH_STAR_STAR", "REGEX", "REGEX_BACKSLASH",
             "REGEX_SQUARE", "REGEX_SQUARE_BACKSLASH"}, <<"RESET">>)>>

JsFeed == JsCode(JsWords) \o JsStrings
JsFlush == JsEnd(JsWords)

\* HighlightTypescript also knows types.
TypescriptCode == JsCode(JsWords \cup {"TYPE"})
TypescriptStrings == JsStrings
TypescriptFlush == JsEnd(JsWords \cup {"TYPE"})

-----------------------------------------------------------------------------
\* The register is nest_; the hashes that hash1_ counts are kept in word_ while they are
\* held back.
SwiftWords == {"KEYWORD", "TYPE", "BUILTIN", "CONSTANT"}
SwiftNest == {"NORMAL", "DQUOTESTR", "DQUOTE3"}
SwiftCode ==
    <<Holds("/", "SLASH"), Opens("\"", "STRING", "DQUOTE"), On("NORMAL", {"#"}, Keep, "HASH")>>
    \o Brackets(SwiftNest, "(", ")") \o Words(Name, Alnum, SwiftWords) \o Plainly
    \o Comments("SLASH_SLASH", "SLASH_STAR") \o Quoted("\n", "SLASH_SLASH")
    \o <<Or(Again("SLASH", All, <<"STRING", "/">>, "REGEX"), Again("SLASH", All, <<"/">>, "NORMAL")),
         On("HASH", {"#"}, Keep, "HASH"), On("HASH", {"\""}, <<"STRING", "WORD", "CHAR">>, "DQUOTE"),
         On("HASH", {"/"}, <<"STRING", "WORD", "CHAR">>, "REGEX"), Again("HASH", All, <<"WORD">>, "NORMAL")>>
\* Behind the quote or the slash that may end a string, perhaps after some hashes.
SwiftAfter(end, s) ==
    LET ends == Or(Again(end, All, <<"RESET">>, "NORMAL"), Again(end, All, <<>>, s))
    IN  <<Or(On(end, {"#"}, C, end), Again(end, {"#"}, <<"RESET">>, "NORMAL")), ends>>
SwiftStrings ==
    LET backslash(s) ==
            <<Or(On(s \o "_BACKSLASH", {"#"}, C, s \o "_BACKSLASH"), Again(s \o "_BACKSLASH", {"#"}, <<>>, s)),
              Or(Set(If(On(s \o "_BACKSLASH", {"("}, <<"CHAR", "RESET">>, "NORMAL"), NotFull(SwiftNest)),
                     Push(SwiftNest, s)),
                 Again(s \o "_BACKSLASH", {"("}, <<>>, s)),
              Again(s \o "_BACKSLASH", All, <<>>, s)>>
        in(s, end, ended) ==
            <<On(s, {end}, C, ended), On(s, {"\\"}, C, s \o "_BACKSLASH"), On(s, All, C, s)>>
        three(s, next) == <<On(s, {"\""}, C, next), Again(s, All, <<>>, "DQUOTE3")>>
    IN  <<On("DQUOTE", {"\""}, C, "DQUOTE2"), On("DQUOTE", {"\\"}, C, "DQUOTESTR_BACKSLASH"),
          On("DQUOTE", All, C, "DQUOTESTR"), On("DQUOTE2", {"\""}, C, "DQUOTE3")>>
        \o SwiftAfter("DQUOTE2", "DQUOTESTR")
        \o in("DQUOTESTR", "\"", "DQUOTESTR_END") \o backslash("DQUOTESTR")
        \o SwiftAfter("DQUOTESTR_END", "DQUOTESTR")
        \o in("DQUOTE3", "\"", "DQUOTE31") \o backslash("DQUOTE3")
        \o three("DQUOTE31", "DQUOTE32") \o three("DQUOTE32", "DQUOTESTR_END")
        \o in("REGEX", "/", "REGEX_END") \o SwiftAfter("REGEX_END", "REGEX")
        \o <<On("REGEX_BACKSLASH", All, C, "REGEX")>>
SwiftFlush ==
    <<FlushWord({"WORD"}, SwiftWords), Flush({"SLASH"}, <<"/">>), Flush({"HASH"}, <<"WORD">>),
      Flush({"SLASH_SLASH", "SLASH_SLASH_BACKSLASH", "SLASH_STAR", "SLASH_STAR_STAR", "DQUOTE",
             "DQUOTESTR", "DQUOTESTR_BACKSLASH", "DQUOTESTR_END", "DQUOTE2", "DQUOTE3",
             "DQUOTE3_BACKSLASH", "DQUOTE31", "DQUOTE32", "REGEX", "REGEX_END", "REGEX_BACKSLASH"},
            <<"RESET">>)>>

-----------------------------------------------------------------------------
\* The register is depth_ of comments; that of strings is left open, like opener_,
\* closer_, heredoc_ and heredoc2_.  The r, q or x before a string is kept in word_.
DWords == {"KEYWORD", "CONSTANT"}
DCode ==
    <<On("NORMAL", {"r"}, Keep, "R"), On("NORMAL", {"q"}, Keep, "Q"), On("NORMAL", {"x"}, Keep, "X"),
      Opens(Tick, "STRING", "BACKTICK"), Holds("/", "SLASH"), Opens("'", "STRING", "QUOTE"),
      Opens("\"", "STRING", "DQUOTE")>>
    \o Words(Name, Alnum, DWords) \o Plainly
    \o Comments("SLASH_SLASH", "SLASH_STAR") \o Until("\n", "SLASH_SLASH")
    \o <<Set(On("SLASH", {"+"}, <<"COMMENT", "/", "+">>, "SLASH_PLUS"), Becomes(0..MaxDepth, 1))>>
    \o Else("SLASH", <<"/">>)
    \o <<On("SLASH_PLUS", {"+"}, C, "SLASH_PLUS_PLUS"), On("SLASH_PLUS", {"/"}, C, "SLASH_PLUS_SLASH"),
         On("SLASH_PLUS", All, C, "SLASH_PLUS"),
         Set(If(On("SLASH_PLUS_PLUS", {"/"}, <<"CHAR", "RESET">>, "NORMAL"), {1}), Shallower),
         Set(On("SLASH_PLUS_PLUS", {"/"}, C, "SLASH_PLUS"), Shallower),
         On("SLASH_PLUS_PLUS", {"+"}, C, "SLASH_PLUS_PLUS"), On("SLASH_PLUS_PLUS", All, C, "SLASH_PLUS"),
         Set(On("SLASH_PLUS_SLASH", {"+"}, C, "SLASH_PLUS"), Deeper),
         On("SLASH_PLUS_SLASH", {"/"}, C, "SLASH_PLUS_SLASH"), On("SLASH_PLUS_SLASH", All, C, "SLASH_PLUS")>>
DPrefix(s) ==
    <<On(s, {"\""}, <<"WORD", "STRING", "CHAR">>, s \o "_DQUOTE"), Again(s, All, <<>>, "WORD")>>
DStrings ==
    Quoted("'", "QUOTE") \o Quoted("\"", "DQUOTE") \o DPrefix("R") \o DPrefix("Q")
    \o Until("\"", "R_DQUOTE") \o Until(Tick, "BACKTICK")
    \o <<On("Q_DQUOTE", Name, C, "Q_DQUOTE_IDENT"), On("Q_DQUOTE", All, C, "Q_DQUOTE_STRING")>>
DDelimited ==
    LET string == "Q_DQUOTE_STRING"
        heredoc == "Q_DQUOTE_HEREDOC"
        line == "Q_DQUOTE_HEREDOC_BOL"
        warning == <<"RESET", "WARNING">>
        ending(end, s) == <<On(end, {"\""}, <<"CHAR", "RESET">>, "NORMAL"), Again(end, All, warning, s)>>
    IN  <<On(string, Name, C, string),
          Row({string}, All, {To(C, string), To(C, string \o "_END"), To(warning \o C, string \o "_END")})>>
        \o ending(string \o "_END", string)
        \o <<On("Q_DQUOTE_IDENT", {"\n"}, C, line), On("Q_DQUOTE_IDENT", Name, C, "Q_DQUOTE_IDENT"),
             On("Q_DQUOTE_IDENT", All, warning \o C, line),
             Row({heredoc, line}, {"\n"}, {To(C, line)}), On(heredoc, All, C, heredoc),
             Row({line}, Name, {To(C, line), To(C, heredoc \o "_END"), To(C, heredoc)}),
             On(line, All, C, heredoc)>>
        \o ending(heredoc \o "_END", heredoc) \o DPrefix("X")
        \o <<On("X_DQUOTE", Hex \cup Space, C, "X_DQUOTE"),
             On("X_DQUOTE", {"\""}, <<"CHAR", "RESET">>, "NORMAL"),
             On("X_DQUOTE", All, warning \o <<"CHAR", "RESET", "STRING">>, "X_DQUOTE")>>
\* Nothing is reset in state X_DQUOTE.
DFlush ==
    <<FlushWord({"WORD"}, DWords), Flush({"SLASH"}, <<"/">>), Flush({"R", "Q", "X"}, <<"WORD">>),
      Flush({"QUOTE", "QUOTE_BACKSLASH", "DQUOTE", "DQUOTE_BACKSLASH", "SLASH_SLASH", "SLASH_STAR",
             "SLASH_STAR_STAR", "SLASH_PLUS", "SLASH_PLUS_PLUS", "SLASH_PLUS_SLASH", "BACKTICK",
             "R_DQUOTE", "Q_DQUOTE", "Q_DQUOTE_STRING", "Q_DQUOTE_STRING_END", "Q_DQUOTE_IDENT",
             "Q_DQUOTE_HEREDOC", "Q_DQUOTE_HEREDOC_BOL", "Q_DQUOTE_HEREDOC_END"}, <<"RESET">>)>>
-----------------------------------------------------------------------------
(* Shell and Perl.  Which names end a heredoc, and whether its variables   *)
(* count, is left open, and which # begins a comment in a shell.           *)

\* The register is curl_ and pending_heredoc_.
ShellWords == {"KEYWORD", "BUILTIN"}
ShellVar == {"!", "#", "$", "*", "-", "?", "@", "\\", "^"}
ShellRegister == (0..MaxDepth) \X BOOLEAN
Await(heredoc) == [n \in ShellRegister |-> <<n[1], heredoc>>]
OneCurl == [n \in ShellRegister |-> <<1, n[2]>>]
MoreCurls == [n \in (0..(MaxDepth - 1)) \X BOOLEAN |-> <<n[1] + 1, n[2]>>]
FewerCurls == [n \in (1..MaxDepth) \X BOOLEAN |-> <<n[1] - 1, n[2]>>]
LastCurl == {1} \X BOOLEAN
ShellCode ==
    LET curl == <<"RESET", "CHAR", "VAR">>
    IN  <<Opens("'", "STRING", "QUOTE"), Opens("\\", "ESCAPE", "BACKSLASH"), Opens("\"", "STRING", "DQUOTE"),
          Opens(Tick, "STRING", "TICK"), On("NORMAL", {"$"}, C, "VAR"), On("NORMAL", {"<"}, C, "LT"),
          Or(Opens("#", "COMMENT", "COMMENT"), On("NORMAL", {"#"}, C, "NORMAL")),
          Set(If(On("NORMAL", {"\n"}, <<"CHAR", "STRING">>, "HEREDOC_BOL"), (0..MaxDepth) \X {TRUE}), Await(FALSE))>>
        \o Words(Name, Alnum, ShellWords) \o Plainly
        \o <<On("BACKSLASH", All, <<"CHAR", "RESET">>, "NORMAL"),
             On("VAR", ShellVar, <<"VAR", "CHAR", "RESET">>, "NORMAL"),
             Set(On("VAR", {"{"}, <<"CHAR", "VAR">>, "CURL"), OneCurl), Again("VAR", All, <<"VAR">>, "VAR2"),
             On("VAR2", Alnum, C, "VAR2"), Again("VAR2", All, <<"RESET">>, "NORMAL"),
             On("CURL", {"\\"}, <<"RESET", "ESCAPE", "CHAR">>, "CURL_BACKSLASH"),
             Set(On("CURL", {"{"}, curl, "CURL"), MoreCurls),
             Set(If(On("CURL", {"}"}, <<"RESET", "CHAR">>, "NORMAL"), LastCurl), FewerCurls),
             Set(On("CURL", {"}"}, <<"RESET", "CHAR">>, "CURL"), FewerCurls),
             On("CURL", Letter \cup Digit \cup Space, C, "CURL"), On("CURL", All, <<"RESET", "CHAR">>, "CURL"),
             On("CURL_BACKSLASH", All, <<"CHAR", "RESET">>, "CURL")>>
        \o Until("\n", "COMMENT") \o Until("'", "QUOTE") \o Quoted(Tick, "TICK")
\* Behind a dollar in a string or a heredoc.
ShellVariable(s) ==
    LET var == s \o "_VAR"
        curl == s \o "_CURL"
    IN  <<On(var, ShellVar, <<"BOLD", "$", "CHAR", "UNBOLD">>, s),
          Set(On(var, {"{"}, <<"BOLD", "$", "CHAR">>, curl), OneCurl),
          Again(var, {"("}, <<"$">>, var \o "2"), Again(var, All, <<"BOLD", "$">>, var \o "2"),
          On(var \o "2", Alnum, C, var \o "2"), Again(var \o "2", All, <<"UNBOLD">>, s),
          On(curl, {"\\"}, C, curl \o "_BACKSLASH"), Set(On(curl, {"{"}, C, curl), MoreCurls),
          Set(If(On(curl, {"}"}, <<"CHAR", "UNBOLD">>, s), LastCurl), FewerCurls),
          Set(On(curl, {"}"}, C, curl), FewerCurls),
          On(curl, All, C, curl), On(curl \o "_BACKSLASH", All, C, curl)>>
\* The name behind << and the lines up to it; a change of the register says that a
\* heredoc is due, or is not.
Heredoc(isdue, notdue, quotes, other) ==
    <<Set(On("LT", {"<"}, C, "LT_LT"), notdue), Again("LT", All, <<>>, "NORMAL"),
      On("LT_LT", other, C, "LT_LT"), On("LT_LT", quotes, <<"STRING", "CHAR">>, "LT_LT_QNAME"),
      On("LT_LT", Ascii \cup {"_"}, C, "LT_LT_NAME"), Again("LT_LT", All, <<>>, "NORMAL"),
      On("LT_LT_NAME", Ascii \cup Digit \cup {"_"}, C, "LT_LT_NAME"),
      On("LT_LT_NAME", {"\n"}, <<"CHAR", "STRING">>, "HEREDOC_BOL"),
      Set(Again("LT_LT_NAME", All, <<>>, "NORMAL"), isdue),
      Or(Set(On("LT_LT_QNAME", quotes, <<"CHAR", "RESET">>, "NORMAL"), isdue),
         Row({"LT_LT_QNAME"}, quotes, IF Cardinality(quotes) = 1 THEN {} ELSE {To(C, "LT_LT_QNAME")})),
      On("LT_LT_QNAME", All, C, "LT_LT_QNAME"),
      Or(On("HEREDOC_BOL", {"\n"}, <<"CHAR", "RESET">>, "NORMAL"), On("HEREDOC_BOL", {"\n"}, C, "HEREDOC_BOL")),
      Or(On("HEREDOC_BOL", All, C, "HEREDOC_BOL"), On("HEREDOC_BOL", All, C, "HEREDOC")),
      On("HEREDOC", {"\n"}, C, "HEREDOC_BOL")>>
ShellStrings ==
    Heredoc(Await(TRUE), Await(FALSE), {"'"}, {"-", "\\", " ", "\t"})
    \o <<Or(On("HEREDOC", {"$"}, <<>>, "HEREDOC_VAR"), On("HEREDOC", {"$"}, C, "HEREDOC")),
         On("HEREDOC", All, C, "HEREDOC"), On("DQUOTE", {"$"}, <<>>, "DQUOTE_VAR")>>
    \o Quoted("\"", "DQUOTE") \o ShellVariable("DQUOTE") \o ShellVariable("HEREDOC")
ShellFlush ==
    LET variable(s) == {s \o "_VAR2", s \o "_CURL", s \o "_CURL_BACKSLASH"}
    IN  <<FlushWord({"WORD"}, ShellWords), Flush({"DQUOTE_VAR", "HEREDOC_VAR"}, <<"$", "RESET">>),
          Flush({"VAR2", "CURL", "CURL_BACKSLASH", "TICK", "TICK_BACKSLASH", "QUOTE", "DQUOTE",
                 "DQUOTE_BACKSLASH", "COMMENT", "HEREDOC_BOL", "HEREDOC", "LT_LT_QNAME", "BACKSLASH"}
                \cup variable("DQUOTE") \cup variable("HEREDOC"), <<"RESET">>)>>

-----------------------------------------------------------------------------
\* The register is pending_heredoc_.  What is a regular expression, and what ends it, is
\* left open, and whether an equals sign begins a line.
PerlWords == {"KEYWORD"}
PerlMagic == {"!", "\"", "#", "&", "-", "/", "<", "=", ">", "?", "@", "'", "\\", "^", "_", Tick}
PerlDelimiter == {"!", "\"", "#", "%", "&", "(", "*", ",", "-", ".", "/", ":", ";", "<", "=", "@", "[", "'", "^",
                  Tick, "{", "|", "~"}
PerlCode ==
    LET regex(on) == Row({"WORD"}, on, {To(<<"WORD", "STRING", "CHAR">>, s) : s \in {"REGEX", "S_REGEX"}})
    IN  <<Opens("'", "STRING", "QUOTE"), Opens("\"", "STRING", "DQUOTE"),
          Or(Holds("=", "EQUAL"), On("NORMAL", {"="}, C, "NORMAL")),
          Opens("\\", "ESCAPE", "BACKSLASH"), Opens(Tick, "STRING", "TICK"), On("NORMAL", {"$"}, C, "VAR"),
          On("NORMAL", {"@", "%"}, <<"CHAR", "VAR">>, "VAR2"), Opens("#", "COMMENT", "COMMENT"),
          On("NORMAL", {"<"}, C, "LT"), Or(Opens("/", "STRING", "REGEX"), On("NORMAL", {"/"}, C, "NORMAL")),
          Set(If(On("NORMAL", {"\n"}, <<"CHAR", "STRING">>, "HEREDOC_BOL"), {TRUE}), Becomes(BOOLEAN, FALSE)),
          On("WORD", Alnum, Keep, "WORD"), Or(EndWord("WORD", PerlDelimiter, PerlWords, "NORMAL"), regex(PerlDelimiter)),
          EndWord("WORD", All, PerlWords, "NORMAL"), On("NORMAL", Name, Keep, "WORD")>> \o Plainly
        \o <<On("BACKSLASH", All, <<"CHAR", "RESET">>, "NORMAL"),
             On("VAR", Digit \cup PerlMagic, <<"VAR", "CHAR", "RESET">>, "NORMAL"),
             On("VAR", {"{"}, <<"CHAR", "VAR">>, "VAR2"), Again("VAR", All, <<"VAR">>, "VAR2"),
             On("VAR2", Alnum, C, "VAR2"), Again("VAR2", All, <<"RESET">>, "NORMAL")>>
PerlStrings ==
    LET ended(s) == IF s = "S_REGEX" THEN <<C, "S_REGEX_S">> ELSE <<<<"CHAR", "RESET">>, "NORMAL">>
        until(s) ==
            <<On(s, {"\\"}, C, s \o "_BACKSLASH"),
              Or(On(s, All, C, s), On(s, All, ended(s)[1], ended(s)[2])), On(s \o "_BACKSLASH", All, C, s)>>
    IN  Until("\n", "COMMENT") \o until("REGEX") \o until("S_REGEX") \o until("S_REGEX_S")
        \o Quoted("'", "QUOTE") \o Quoted("\"", "DQUOTE") \o Quoted(Tick, "TICK")
        \o <<On("EQUAL", Ascii, <<"COMMENT", "=", "CHAR">>, "HEREDOC"), Again("EQUAL", All, <<"=">>, "NORMAL")>>
PerlHeredoc ==
    Heredoc(Becomes(BOOLEAN, TRUE), Becomes(BOOLEAN, FALSE), {"\"", "'"}, {"-", " ", "\t"})
    \o <<On("HEREDOC", All, C, "HEREDOC")>>
PerlFlush ==
    <<FlushWord({"WORD"}, PerlWords), Flush({"EQUAL"}, <<"=">>),
      Flush({"VAR2", "TICK", "TICK_BACKSLASH", "QUOTE", "QUOTE_BACKSLASH", "DQUOTE", "DQUOTE_BACKSLASH",
             "COMMENT", "HEREDOC_BOL", "HEREDOC", "LT_LT_QNAME", "REGEX", "REGEX_BACKSLASH", "S_REGEX",
             "S_REGEX_BACKSLASH", "S_REGEX_S", "S_REGEX_S_BACKSLASH", "BACKSLASH"}, <<"RESET">>)>>
=============================================================================
