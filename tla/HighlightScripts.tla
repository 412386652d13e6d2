---------------------------- MODULE HighlightScripts ----------------------------
(***************************************************************************)
(* The highlighters of scripting languages, as tables of rows (see         *)
(* Highlighter).                                                           *)
(***************************************************************************)
EXTENDS Highlighter

PythonWords == {"KEYWORD", "BUILTIN", "CONSTANT"}
PythonFeed ==
    <<Opens("#", "COMMENT", "COM"), Opens("'", "STRING", "SQUOTE"), Opens("\"", "STRING", "DQUOTE")>>
    \o Words(Name, Alnum, PythonWords) \o Plainly \o Until("\n", "COM")
PythonStrings == Strings("'", "SQUOTE") \o Strings("\"", "DQUOTE")
PythonFlush ==
    <<FlushWord({"WORD"}, PythonWords),
      Flush({"COM", "SQUOTE", "SQUOTESTR", "SQUOTESTR_BACKSLASH", "SQUOTE2", "SQUOTE3",
             "SQUOTE3_BACKSLASH", "SQUOTE31", "SQUOTE32", "DQUOTE", "DQUOTESTR",
             "DQUOTESTR_BACKSLASH", "DQUOTE2", "DQUOTE3", "DQUOTE3_BACKSLASH", "DQUOTE31",
             "DQUOTE32"}, <<"RESET">>)>>

-----------------------------------------------------------------------------
\* The register is level1_ and level2_, the equals signs between brackets.
LuaWords == {"KEYWORD", "CONSTANT", "BUILTIN"}
Levels == (0..MaxDepth) \X (0..MaxDepth)
Level(i, change(_)) == [n \in {m \in Levels : change(m[i]) <= MaxDepth} |-> [n EXCEPT ![i] = change(@)]]
Zero(i) == Level(i, LAMBDA n : 0)
Count(i) == Level(i, LAMBDA n : n + 1)
\* One row for each level1_, and what was held back of the opening bracket.
PerLevel(row(_)) ==
    [i \in 1..(MaxDepth + 1) |->
        If(row(<<"[">> \o Copies("=", i - 1)), {n \in Levels : n[1] = i - 1})]

LuaCode ==
    <<Holds("-", "HYPHEN"), Opens("'", "STRING", "QUOTE"), Opens("\"", "STRING", "DQUOTE"),
      Set(Holds("[", "LSB"), Zero(1))>>
    \o Words(Name, Alnum, LuaWords) \o Plainly
    \o Second("HYPHEN", "-", "-", "COMMENT", "HYPHEN_HYPHEN")
    \o <<Set(On("HYPHEN_HYPHEN", {"["}, C, "HYPHEN_HYPHEN_LSB"), Zero(1)),
         Again("HYPHEN_HYPHEN", All, <<>>, "COMMENT"),
         Set(On("HYPHEN_HYPHEN_LSB", {"="}, C, "HYPHEN_HYPHEN_LSB"), Count(1)),
         On("HYPHEN_HYPHEN_LSB", {"["}, C, "LITERAL"),
         Again("HYPHEN_HYPHEN_LSB", All, <<>>, "COMMENT")>>
LuaStrings ==
    Until("\n", "COMMENT") \o Quoted("'", "QUOTE") \o Quoted("\"", "DQUOTE")
    \o <<Set(On("LSB", {"="}, <<>>, "LSB"), Count(1))>>
    \o PerLevel(LAMBDA held : On("LSB", {"["}, <<"STRING">> \o held \o C, "LITERAL"))
    \o PerLevel(LAMBDA held : Again("LSB", All, held, "NORMAL"))
    \o <<Set(On("LITERAL", {"]"}, C, "LITERAL_RSB"), Zero(2)), On("LITERAL", All, C, "LITERAL"),
         Set(On("LITERAL_RSB", {"="}, C, "LITERAL_RSB"), Count(2)),
         If(On("LITERAL_RSB", {"]"}, <<"CHAR", "RESET">>, "NORMAL"), {n \in Levels : n[1] = n[2]}),
         Set(On("LITERAL_RSB", {"]"}, C, "LITERAL_RSB"), Zero(2)),
         On("LITERAL_RSB", All, C, "LITERAL")>>
LuaFlush ==
    <<FlushWord({"WORD"}, LuaWords)>> \o PerLevel(LAMBDA held : Flush({"LSB"}, held))
    \o <<Flush({"HYPHEN"}, <<"-">>),
         Flush({"QUOTE", "QUOTE_BACKSLASH", "DQUOTE", "DQUOTE_BACKSLASH", "COMMENT", "LITERAL",
                "LITERAL_RSB", "HYPHEN_HYPHEN", "HYPHEN_HYPHEN_LSB"}, <<"RESET">>)>>

-----------------------------------------------------------------------------
\* The word dnl begins a comment.
M4Feed ==
    <<Opens("#", "COMMENT", "COMMENT"), Holds("$", "DOLLAR"),
      On("NORMAL", Name, Keep, "WORD"), On("WORD", Alnum, Keep, "WORD"),
      Or(EndWord("WORD", All, {"KEYWORD"}, "NORMAL"), Again("WORD", All, <<"COMMENT", "WORD">>, "COMMENT")),
      On("DOLLAR", Digit \cup {"*", "#", "@"}, <<"$", "VAR", "CHAR", "RESET">>, "NORMAL")>>
    \o Else("DOLLAR", <<"$">>) \o Plainly \o Until("\n", "COMMENT")
M4Flush ==
    <<FlushWord({"WORD"}, {"KEYWORD"}), Flush({"DOLLAR"}, <<"$">>), Flush({"COMMENT"}, <<"RESET">>)>>

-----------------------------------------------------------------------------
PascalWords == {"KEYWORD", "TYPE", "BUILTIN"}
PascalFeed ==
    <<Holds("/", "SLASH"), Holds("(", "PAREN"), Opens("'", "STRING", "QUOTE"),
      Opens("\"", "STRING", "DQUOTE"), Opens("{", "COMMENT", "CURLY")>>
    \o Words(Name, Alnum, PascalWords) \o Plainly
    \o Second("SLASH", "/", "/", "COMMENT", "SLASH_SLASH") \o Until("\n", "SLASH_SLASH")
    \o Until("'", "QUOTE") \o Until("\"", "DQUOTE") \o Until("}", "CURLY")
    \o Second("PAREN", "(", "*", "COMMENT", "PAREN_STAR") \o Block("PAREN_STAR", ")")
PascalFlush ==
    <<FlushWord({"WORD"}, PascalWords), Flush({"SLASH"}, <<"/">>), Flush({"PAREN"}, <<"(">>),
      Flush({"QUOTE", "DQUOTE", "SLASH_SLASH", "CURLY", "PAREN_STAR", "PAREN_STAR_STAR"}, <<"RESET">>)>>

-----------------------------------------------------------------------------
SqlWords == {"KEYWORD", "TYPE"}
SqlFeed ==
    <<Holds("/", "SLASH"), Holds("-", "HYPHEN"), Opens("'", "STRING", "QUOTE"),
      Opens("\"", "STRING", "DQUOTE")>>
    \o Words(Name, Alnum \cup {"-"}, SqlWords) \o Plainly
    \o Second("SLASH", "/", "*", "COMMENT", "SLASH_STAR") \o Block("SLASH_STAR", "/")
    \o Quoted("'", "QUOTE") \o Quoted("\"", "DQUOTE")
    \o Second("HYPHEN", "-", "-", "COMMENT", "HYPHEN_HYPHEN") \o Until("\n", "HYPHEN_HYPHEN")
SqlFlush ==
    <<FlushWord({"WORD"}, SqlWords), Flush({"SLASH"}, <<"/">>), Flush({"HYPHEN"}, <<"-">>),
      Flush({"QUOTE", "QUOTE_BACKSLASH", "DQUOTE", "DQUOTE_BACKSLASH", "SLASH_STAR",
             "SLASH_STAR_STAR", "HYPHEN_HYPHEN"}, <<"RESET">>)>>

-----------------------------------------------------------------------------
TclWords == {"KEYWORD", "TYPE", "BUILTIN"}
TclFeed ==
    <<Opens("\"", "STRING", "DQUOTE"), On("NORMAL", {"$"}, C, "VAR"), Opens("#", "COMMENT", "COMMENT"),
      Opens("\\", "ESCAPE", "BACKSLASH")>>
    \o Words(Name, All \ (Space \cup {";"}), TclWords) \o Plainly
    \o <<On("BACKSLASH", All, <<"CHAR", "RESET">>, "NORMAL"),
         On("VAR", {"{"}, <<"CHAR", "VAR">>, "VAR_CURLY"), Again("VAR", All, <<"VAR">>, "VAR2"),
         On("VAR2", Alnum, C, "VAR2"), Again("VAR2", All, <<"RESET">>, "NORMAL"),
         On("VAR_CURLY", {"}"}, <<"RESET", "CHAR">>, "NORMAL"), On("VAR_CURLY", All, C, "VAR_CURLY")>>
    \o Quoted("\n", "COMMENT") \o Quoted("\"", "DQUOTE")
TclFlush ==
    <<FlushWord({"WORD"}, TclWords),
      Flush({"VAR2", "VAR_CURLY", "DQUOTE", "DQUOTE_BACKSLASH", "COMMENT", "COMMENT_BACKSLASH",
             "BACKSLASH"}, <<"RESET">>)>>

-----------------------------------------------------------------------------
MakeName == {"_", "-", "."}
MakeFeed ==
    <<Opens("#", "COMMENT", "COMMENT"), On("NORMAL", {"$"}, C, "DOLLAR"),
      Opens("\\", "ESCAPE", "BACKSLASH")>>
    \o Words(Letter \cup MakeName, Letter \cup Digit \cup MakeName, {"KEYWORD"}) \o Plainly
    \o <<On("BACKSLASH", All, <<"CHAR", "RESET">>, "NORMAL"),
         On("DOLLAR", Digit \cup {"@", "%", "<", "?", "^", "+", "|", "*"}, <<"VAR", "CHAR", "RESET">>, "NORMAL"),
         On("DOLLAR", {"$"}, C, "DOLLAR2"), On("DOLLAR", {"("}, C, "VARIABLE")>>
    \o Else("DOLLAR", <<>>) \o <<On("DOLLAR2", {"("}, C, "VARIABLE")>> \o Else("DOLLAR2", <<>>)
    \o Quoted("\n", "COMMENT")
\* VARIABLE is left for VARIABLE_WORD when word_ is not empty.
MakeVariable ==
    LET at == {"VARIABLE", "VARIABLE_WORD"}
    IN  <<Row(at, Ascii \cup Digit \cup {"%", "*", "+", "-", ".", "<", "?", "@", "_"},
              {To(Keep, "VARIABLE_WORD")}),
          On("VARIABLE", {"$"}, C, "DOLLAR"),
          Row(at, {")", ":"}, {To(<<"VAR", "WORD", "RESET", "CHAR">>, "NORMAL")}),
          Row(at, All, {Via(put, "NORMAL") : put \in Painted({"BUILTIN"})})>>
MakeFlush ==
    <<FlushWord({"WORD"}, {"KEYWORD"}), FlushWord({"VARIABLE", "VARIABLE_WORD"}, {"BUILTIN"}),
      Flush({"COMMENT", "COMMENT_BACKSLASH", "BACKSLASH"}, <<"RESET">>)>>

-----------------------------------------------------------------------------
TexFeed ==
    <<Holds("\\", "BACKSLASH"), Holds("$", "DOLLAR"), Holds(Tick, "BACKTICK"),
      Opens("%", "COMMENT", "COMMENT")>> \o Plainly
    \o <<On("BACKSLASH", {"\\"}, <<"WARNING", "\\", "\\", "RESET">>, "NORMAL"),
         Again("BACKSLASH", Space, <<"\\">>, "NORMAL"),
         On("BACKSLASH", Ascii \cup {"@"}, <<"KEYWORD", "\\", "CHAR">>, "COMMAND"),
         On("BACKSLASH", All, <<"ESCAPE", "\\", "CHAR", "RESET">>, "NORMAL"),
         On("COMMAND", Ascii \cup {"@"}, C, "COMMAND"), Again("COMMAND", All, <<"RESET">>, "NORMAL"),
         On("DOLLAR", {"$"}, <<"$", "$">>, "NORMAL"),
         On("DOLLAR", {"\\"}, <<"MATH", "$", "\\">>, "MATH_BACKSLASH"),
         On("DOLLAR", All, <<"MATH", "$", "CHAR">>, "MATH")>>
    \o Quoted("$", "MATH") \o Until("\n", "COMMENT")
    \o Second("BACKTICK", Tick, Tick, "STRING", "STRING")
    \o <<On("STRING", {"'"}, C, "STRING_QUOTE"), On("STRING", All, C, "STRING"),
         On("STRING_QUOTE", {"'"}, <<"CHAR", "RESET">>, "NORMAL"), On("STRING_QUOTE", All, C, "STRING")>>
TexFlush ==
    <<Flush({"BACKTICK"}, <<Tick>>), Flush({"DOLLAR"}, <<"$">>), Flush({"BACKSLASH"}, <<"\\">>),
      Flush({"COMMAND", "COMMENT", "MATH", "MATH_BACKSLASH", "STRING", "STRING_QUOTE"}, <<"RESET">>)>>

-----------------------------------------------------------------------------
RWords == {"KEYWORD", "BUILTIN", "CONSTANT"}
RFeed ==
    <<Opens("#", "COMMENT", "COMMENT"), Opens("'", "STRING", "QUOTE"), Opens("\"", "STRING", "DQUOTE"),
      Holds("-", "HYPHEN"), Holds("<", "LT"), Holds(":", "COLON"),
      On("NORMAL", {"$", "@"}, <<"OPERATOR", "CHAR", "RESET">>, "NORMAL")>>
    \o Words(Letter, Alnum \cup {"."}, RWords) \o Plainly
    \o Until("\n", "COMMENT") \o Quoted("'", "QUOTE") \o Quoted("\"", "DQUOTE")
ROperators ==
    <<On("COLON", {":"}, <<"OPERATOR", ":", ":", "RESET">>, "NORMAL"),
      On("LT", {"<"}, <<>>, "LT_LT"),
      On("LT", {"-"}, <<"OPERATOR", "<", "-", "RESET">>, "NORMAL"),
      On("HYPHEN", {">"}, <<>>, "HYPHEN_GT"),
      On("LT_LT", {"-"}, <<"OPERATOR", "<", "<", "-", "RESET">>, "NORMAL"),
      On("HYPHEN_GT", {">"}, <<"OPERATOR", "-", ">", ">", "RESET">>, "NORMAL")>>
    \o Else("COLON", <<":">>) \o Else("LT", <<"<">>) \o Else("HYPHEN", <<"-">>)
    \o Else("LT_LT", <<"<", "<">>) \o Else("HYPHEN_GT", <<"OPERATOR", "-", ">", "RESET">>)
RFlush ==
    <<FlushWord({"WORD"}, RWords), Flush({"HYPHEN"}, <<"-">>), Flush({"HYPHEN_GT"}, <<"-", ">">>),
      Flush({"LT"}, <<"<">>), Flush({"LT_LT"}, <<"<", "<">>), Flush({"COLON"}, <<":">>),
      Flush({"QUOTE", "QUOTE_BACKSLASH", "DQUOTE", "DQUOTE_BACKSLASH", "COMMENT"}, <<"RESET">>)>>

-----------------------------------------------------------------------------
MatlabWords == {"KEYWORD", "BUILTIN", "CONSTANT"}
MatlabFeed ==
    <<Opens("%", "COMMENT", "COMMENT"), Opens("'", "STRING", "QUOTE"), Opens("\"", "STRING", "DQUOTE")>>
    \o Words(Name, Alnum, MatlabWords) \o Plainly
    \o Until("\n", "COMMENT") \o Quoted("'", "QUOTE") \o Quoted("\"", "DQUOTE")
MatlabFlush ==
    <<FlushWord({"WORD"}, MatlabWords),
      Flush({"QUOTE", "QUOTE_BACKSLASH", "DQUOTE", "DQUOTE_BACKSLASH", "COMMENT"}, <<"RESET">>)>>

-----------------------------------------------------------------------------
JuliaCode ==
    <<Opens("#", "COMMENT", "COMMENT"), Opens("'", "STRING", "QUOTE"), Opens("\"", "STRING", "DQUOTE"),
      Holds("@", "ANNOTATION")>>
    \o Words(Name, Alnum, {"KEYWORD"}) \o Plainly
    \o Until("\n", "COMMENT") \o Quoted("'", "QUOTE")
JuliaStrings ==
    Strings("\"", "DQUOTE")
    \o <<On("ANNOTATION", Name, <<"ATTRIB", "@", "CHAR">>, "ANNOTATION2"),
         On("ANNOTATION2", Alnum, C, "ANNOTATION2")>>
    \o Else("ANNOTATION", <<"@">>) \o Else("ANNOTATION2", <<"RESET">>)
JuliaFlush ==
    <<FlushWord({"WORD"}, {"KEYWORD"}), Flush({"ANNOTATION"}, <<"@">>),
      Flush({"COMMENT", "QUOTE", "QUOTE_BACKSLASH", "DQUOTE", "DQUOTESTR", "DQUOTESTR_BACKSLASH",
             "DQUOTE2", "DQUOTE3", "DQUOTE3_BACKSLASH", "DQUOTE31", "DQUOTE32", "ANNOTATION2"},
            <<"RESET">>)>>

-----------------------------------------------------------------------------
\* The register is spaces_, the spaces behind a word that are held back with it.
PerSpace(row(_)) == [i \in 1..(MaxDepth + 1) |-> If(row(Copies(" ", i - 1)), {i - 1})]

CmakeCode ==
    <<On("NORMAL", Name, Keep, "WORD"), Opens("#", "COMMENT", "COMMENT"),
      Opens("\"", "STRING", "DQUOTE"), Holds("$", "DOLLAR"), Opens("\\", "ESCAPE", "BACKSLASH")>>
    \o Plainly
    \o <<On("BACKSLASH", All, <<"CHAR", "RESET">>, "NORMAL"),
         On("WORD", Alnum, Keep, "WORD"),
         Set(Again("WORD", All, <<>>, "WORD_SPACE"), Becomes(0..MaxDepth, 0)),
         Set(On("WORD_SPACE", {" "}, <<>>, "WORD_SPACE"), Deeper)>>
    \o PerSpace(LAMBDA held : Row({"WORD_SPACE"}, {"("}, {Via(<<color, "WORD", "RESET">> \o held, "NORMAL")
                                  : color \in {"KEYWORD", "BUILTIN"}}))
    \o PerSpace(LAMBDA held : Again("WORD_SPACE", All, <<"WORD">> \o held, "NORMAL"))
    \o Until("\n", "COMMENT")
CmakeVariables ==
    LET variable(dollar, var, in, color) ==
            <<On(dollar, {"{"}, <<>>, var), On(dollar, {"$"}, <<"$">>, dollar),
              Again(dollar, All, <<"$">>, in),
              On(var, Ascii \cup Digit \cup {"_"}, Keep, var),
              On(var, {"}"}, <<"$", "{", "VAR", "WORD", "RESET">> \o color \o <<"}">>, in),
              Again(var, All, <<"$", "{", "WORD">>, in)>>
    IN  variable("DOLLAR", "VAR", "NORMAL", <<>>)
        \o variable("DQUOTE_DOLLAR", "DQUOTE_VAR", "DQUOTE", <<"STRING">>)
        \o <<On("DQUOTE", {"$"}, <<>>, "DQUOTE_DOLLAR")>> \o Quoted("\"", "DQUOTE")
CmakeFlush ==
    <<Flush({"WORD"}, <<"WORD">>), Flush({"DOLLAR"}, <<"$">>), Flush({"DQUOTE_DOLLAR"}, <<"$", "RESET">>),
      Flush({"DQUOTE_VAR"}, <<"$", "{", "WORD", "RESET">>), Flush({"VAR"}, <<"$", "{", "WORD">>),
      Flush({"DQUOTE", "COMMENT", "BACKSLASH", "DQUOTE_BACKSLASH"}, <<"RESET">>)>>
    \o PerSpace(LAMBDA held : Flush({"WORD_SPACE"}, <<"WORD">> \o held))

-----------------------------------------------------------------------------
\* is_first_ only tells which symbols are keywords.
LispEnd == Space \cup {"(", ")", "[", "]", ",", "#", Tick, "\"", "'"}
LispFeed ==
    <<Opens(";", "COMMENT", "COMMENT"), On("NORMAL", {"["}, C, "SYMBOL"),
      Opens("\"", "STRING", "DQUOTE"), On("NORMAL", LispEnd, C, "NORMAL"),
      On("NORMAL", All, Keep, "SYMBOL"),
      EndWord("SYMBOL", LispEnd, {"KEYWORD", "LISPKW"}, "NORMAL"), On("SYMBOL", All, Keep, "SYMBOL")>>
    \o Quoted("\"", "DQUOTE") \o Until("\n", "COMMENT")
LispFlush ==
    <<FlushWord({"SYMBOL"}, {"KEYWORD", "LISPKW"}),
      Flush({"DQUOTE", "DQUOTE_BACKSLASH", "COMMENT"}, <<"RESET">>)>>
=============================================================================
