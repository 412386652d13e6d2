---------------------------- MODULE HighlightClassics ----------------------------
(***************************************************************************)
(* The highlighters of older languages, of Haskell and of grammars, as     *)
(* tables of rows (see Highlighter).                                       *)
(***************************************************************************)
EXTENDS Highlighter

\* The register is whether the last character was a closing parenthesis.
AdaWords == {"KEYWORD", "CONSTANT"}
AdaFeed ==
    <<On("NORMAL", Letter, Keep, "SYMBOL"), Holds("-", "HYPHEN"),
      If(Opens("'", "STRING", "QUOTE"), {FALSE}), Opens("\"", "STRING", "DQUOTE")>>
    \o Plainly
    \o <<On("SYMBOL", Alnum \cup {"'"}, Keep, "SYMBOL"), EndWord("SYMBOL", All, AdaWords, "NORMAL")>>
    \o Second("HYPHEN", "-", "-", "COMMENT", "COMMENT")
    \o Until("\n", "COMMENT") \o Until("'", "QUOTE") \o Until("\"", "DQUOTE")
AdaFlush ==
    <<FlushWord({"SYMBOL"}, AdaWords), Flush({"HYPHEN"}, <<"-">>),
      Flush({"QUOTE", "DQUOTE", "COMMENT"}, <<"RESET">>)>>
AdaSettle(h, c) == [h EXCEPT !.n = (c = ")")]

-----------------------------------------------------------------------------
\* The register is is_bol_.
BasicWords == {"KEYWORD", "TYPE", "BUILTIN", "CONSTANT"}
BasicFeed ==
    <<On("NORMAL", Name, Keep, "WORD"), Opens("'", "COMMENT", "COMMENT"),
      Opens("\"", "STRING", "DQUOTE"), If(Opens("#", "DIRECTIVE", "DIRECTIVE"), {TRUE}),
      If(On("NORMAL", Digit, <<"LINENO", "CHAR">>, "LINENO"), {TRUE})>>
    \o Plainly
    \o <<On("WORD", Alnum, Keep, "WORD"),
         Or(EndWord("WORD", All, BasicWords, "NORMAL"), Again("WORD", All, <<"COMMENT", "WORD">>, "COMMENT")),
         On("DQUOTE", {"\"", "\n"}, <<"CHAR", "RESET">>, "NORMAL"), On("DQUOTE", All, C, "DQUOTE"),
         On("LINENO", Digit, C, "LINENO"), Again("LINENO", All, <<"RESET">>, "NORMAL")>>
    \o Until("\n", "COMMENT") \o Until("\n", "DIRECTIVE")
BasicFlush ==
    <<FlushWord({"WORD"}, BasicWords), Flush({"LINENO", "DQUOTE", "COMMENT", "DIRECTIVE"}, <<"RESET">>)>>
BasicSettle(h, c) == [h EXCEPT !.n = (c = "\n" \/ (@ /\ c \in Space))]

-----------------------------------------------------------------------------
BnfOperator == {"!", "$", "%", "&", "'", "*", "+", ",", "-", ".", "/", ":", "=", "?", "@", "^", "_",
                Tick, "|", "~"}
BnfFeed ==
    <<Opens("#", "COMMENT", "COMMENT"), Opens(";", "COMMENT", "COMMENT"),
      Opens("\"", "STRING", "DQUOTE"), Opens("\\", "ESCAPE", "ESCAPE"),
      On("NORMAL", BnfOperator, Keep, "OPERATOR")>> \o Plainly
    \o <<On("OPERATOR", BnfOperator, Keep, "OPERATOR"),
         EndWord("OPERATOR", All, {"OPERATOR"}, "NORMAL"),
         On("ESCAPE", {"x"}, C, "ESCAPE_HEX"), On("ESCAPE", All, <<"CHAR", "RESET">>, "NORMAL"),
         On("ESCAPE_HEX", Hex, C, "ESCAPE_HEX1"), Again("ESCAPE_HEX", All, <<"RESET">>, "NORMAL"),
         On("ESCAPE_HEX1", Hex, <<"CHAR", "RESET">>, "NORMAL"),
         Again("ESCAPE_HEX1", All, <<"RESET">>, "NORMAL")>>
    \o Until("\n", "COMMENT") \o Quoted("\"", "DQUOTE")
BnfFlush ==
    <<FlushWord({"OPERATOR"}, {"OPERATOR"}),
      Flush({"DQUOTE", "COMMENT", "DQUOTE_BACKSLASH", "ESCAPE", "ESCAPE_HEX", "ESCAPE_HEX1"}, <<"RESET">>)>>

-----------------------------------------------------------------------------
(* Cobol and Fortran.  The register is the column of the next character,   *)
(* col_ + 1, and 7 stands for those further right.  A column is looked at  *)
(* in state NORMAL, but not behind the label Normal, which is LABEL here.  *)
Columns == 0..7
ColumnSettle(h, c) == [h EXCEPT !.n = IF c = "\n" THEN 0 ELSE IF @ = 7 THEN 7 ELSE @ + 1]
Label == "LABEL"
InLabel(row) == [row EXCEPT !.at = {Label}]
Colored(color) == <<color, "CHAR", "RESET">>

CobolFeed ==
    <<If(Again("NORMAL", {"*"}, <<"COMMENT">>, "COMMENT"), {6}),
      If(On("NORMAL", {"-"}, Colored("CONTIN"), "NORMAL"), {6}),
      If(On("NORMAL", Digit, Colored("LINENO"), "NORMAL"), 0..5), Again("NORMAL", All, <<>>, Label),
      InLabel(On("NORMAL", Name \cup {"-"}, Keep, "WORD")), InLabel(Opens("!", "COMMENT", "COMMENT")),
      InLabel(Opens("'", "STRING", "QUOTE")), InLabel(Opens("\"", "STRING", "DQUOTE")),
      On(Label, All, C, "NORMAL"),
      On("WORD", Alnum \cup {"-"}, Keep, "WORD"), EndWord("WORD", All, {"KEYWORD"}, Label)>>
    \o Until("\n", "COMMENT") \o Quoted("'", "QUOTE") \o Quoted("\"", "DQUOTE")
CobolFlush ==
    <<FlushWord({"WORD"}, {"KEYWORD"}),
      Flush({"QUOTE", "QUOTE_BACKSLASH", "DQUOTE", "DQUOTE_BACKSLASH", "COMMENT"}, <<"RESET">>)>>

\* WORD is left for DOTTED when word_ begins with a dot.
FortranWords == {"KEYWORD", "TYPE", "BUILTIN"}
FortranFeed ==
    LET end(s) == EndWord(s, All, FortranWords, Label)
    IN  <<If(Again("NORMAL", {"*", "c", "C"}, <<"COMMENT">>, "COMMENT"), {0}),
          If(On("NORMAL", All \ {" ", "\n"}, Colored("CONTIN"), "NORMAL"), {5}),
          If(On("NORMAL", Digit, Colored("LABEL"), "NORMAL"), 0..4), Again("NORMAL", All, <<>>, Label),
          InLabel(On("NORMAL", Name, Keep, "WORD")), InLabel(On("NORMAL", {"."}, Keep, "DOTTED")),
          InLabel(Opens("!", "COMMENT", "COMMENT")),
          InLabel(Opens("'", "STRING", "QUOTE")), InLabel(Opens("\"", "STRING", "DQUOTE")),
          On(Label, All, C, "NORMAL"),
          On("WORD", Alnum, Keep, "WORD"), On("DOTTED", Alnum, Keep, "DOTTED"),
          Row({"DOTTED"}, {"."}, {To(<<"KEYWORD", "WORD", "CHAR", "RESET">>, "NORMAL"),
                                  To(<<"WORD", "CHAR">>, "NORMAL")}),
          end("WORD"), end("DOTTED")>>
        \o Until("\n", "COMMENT") \o Quoted("'", "QUOTE") \o Quoted("\"", "DQUOTE")
FortranFlush ==
    <<FlushWord({"WORD", "DOTTED"}, FortranWords),
      Flush({"QUOTE", "QUOTE_BACKSLASH", "DQUOTE", "DQUOTE_BACKSLASH", "COMMENT"}, <<"RESET">>)>>

-----------------------------------------------------------------------------
\* The register is "label" while is_label_ is set, and closer_ in state SYNTAX.
\* NORMAL is left for WORD when word_ is not empty.
ForthModes == {"none", "label", "\n", ")", "\""}
ForthMode(mode) == Becomes(ForthModes, mode)
ForthFeed ==
    <<On("NORMAL", Space, C, "NORMAL"), Row({"NORMAL", "WORD"}, All \ Space, {To(Keep, "WORD")}),
      If(Set(On("WORD", All, <<"WORD", "RESET", "CHAR">>, "NORMAL"), ForthMode("none")), {"label"}),
      Row({"WORD"}, All,
          {Change(<<"COMMENT", "WORD", "CHAR">>, "SYNTAX", ForthMode(end)) : end \in {"\n", ")"}}
          \cup {Change(<<"STRING", "WORD", "CHAR">>, "SYNTAX", ForthMode("\"")),
                Change(<<"KEYWORD", "WORD", "DEF", "CHAR">>, "NORMAL", ForthMode("label")),
                To(<<"KEYWORD", "WORD", "RESET", "CHAR">>, "NORMAL"), To(<<"WORD", "CHAR">>, "NORMAL")}),
      If(On("SYNTAX", {"\n"}, <<"CHAR", "RESET">>, "NORMAL"), {"\n"}),
      If(On("SYNTAX", {")"}, <<"CHAR", "RESET">>, "NORMAL"), {")"}),
      If(On("SYNTAX", {"\""}, <<"CHAR", "RESET">>, "NORMAL"), {"\""}),
      On("SYNTAX", All, C, "SYNTAX")>>
ForthFlush ==
    <<If(Flush({"NORMAL", "WORD"}, <<"WORD", "RESET">>), {"label"}), FlushWord({"WORD"}, {"KEYWORD"}),
      Flush({"SYNTAX"}, <<"RESET">>)>>

-----------------------------------------------------------------------------
\* The register is level_, how deep comments nest.  word_ is symbol_ in the code.
HaskellCode ==
    LET operator(text) == <<"OPERATOR">> \o text \o <<"RESET">>
    IN  <<Holds("-", "HYPHEN"), Holds("{", "CURL"), Opens("\"", "STRING", "DQUOTE"),
          Opens(Tick, "OPERATOR", "TICK"),
          On("NORMAL", {"!", "#", "$", "*", ",", ">", "?", "@", "|", "~"}, operator(C), "NORMAL"),
          Holds("=", "EQUAL"), Holds(":", "COLON"), Holds("<", "LT")>>
        \o Words(Name, Alnum, {"KEYWORD"}) \o Plainly
        \o <<On("LT", {"-"}, operator(<<"<", "-">>), "NORMAL"),
             On("COLON", {":"}, operator(<<":", ":">>), "NORMAL"),
             On("EQUAL", {">"}, operator(<<"=", ">">>), "NORMAL"),
             On("HYPHEN", {"-"}, <<"COMMENT", "-", "-">>, "HYPHEN_HYPHEN"),
             On("HYPHEN", {"<"}, <<>>, "HYPHEN_LT"),
             On("HYPHEN", {">"}, operator(<<"-", ">">>), "NORMAL"),
             On("HYPHEN_LT", {"<"}, operator(<<"-", "<", "<">>), "NORMAL")>>
        \o Else("LT", <<"<">>) \o Else("COLON", <<":">>) \o Else("EQUAL", operator(<<"=">>))
        \o Else("HYPHEN", <<"-">>) \o Else("HYPHEN_LT", operator(<<"-", "<">>))
HaskellQuoted ==
    LET dash == "CURL_HYPHEN_HYPHEN"
    IN  Until("\n", "HYPHEN_HYPHEN")
        \o <<Set(On("CURL", {"-"}, <<"COMMENT", "{", "-">>, "CURL_HYPHEN"), Becomes(0..MaxDepth, 1))>>
        \o Else("CURL", <<"{">>)
        \o <<On("CURL_HYPHEN", {"-"}, C, dash), On("CURL_HYPHEN", {"{"}, C, "CURL_HYPHEN_CURL"),
             On("CURL_HYPHEN", All, C, "CURL_HYPHEN"),
             Set(On("CURL_HYPHEN_CURL", {"-"}, C, "CURL_HYPHEN"), Deeper),
             On("CURL_HYPHEN_CURL", {"{"}, C, "CURL_HYPHEN_CURL"),
             On("CURL_HYPHEN_CURL", All, C, "CURL_HYPHEN"),
             Set(If(On(dash, {"}"}, <<"CHAR", "RESET">>, "NORMAL"), {1}), Shallower),
             Set(On(dash, {"}"}, C, dash), Shallower),
             On(dash, {"-"}, C, dash), On(dash, All, C, "CURL_HYPHEN")>>
        \o Quoted("\"", "DQUOTE") \o Quoted(Tick, "TICK")
HaskellFlush ==
    <<FlushWord({"WORD"}, {"KEYWORD"}), Flush({"CURL"}, <<"{">>), Flush({"HYPHEN"}, <<"-">>),
      Flush({"EQUAL"}, <<"=">>), Flush({"COLON"}, <<":">>), Flush({"LT"}, <<"<">>),
      Flush({"HYPHEN_LT"}, <<"OPERATOR", "-", "<", "RESET">>),
      Flush({"TICK", "TICK_BACKSLASH", "DQUOTE", "DQUOTE_BACKSLASH", "HYPHEN_HYPHEN", "CURL_HYPHEN",
             "CURL_HYPHEN_HYPHEN", "CURL_HYPHEN_CURL"}, <<"RESET">>)>>

-----------------------------------------------------------------------------
\* The register is nest_, how deep comments nest.  word2_ is left out: which name ends
\* a string is left open.  LCURLY is left for LCURLY_WORD when word_ is not empty.
OcamlWords == {"KEYWORD", "BUILTIN", "CONSTANT"}
OcamlName == Alnum \cup {"'", "~"}
OcamlCode ==
    <<Again("NORMAL", Name \cup {"~"}, <<>>, "WORD"), Holds("(", "LPAREN"), Holds("{", "LCURLY"),
      Opens("'", "STRING", "QUOTE"), Opens("\"", "STRING", "DQUOTE")>>
    \o Plainly
    \o <<On("WORD", OcamlName, Keep, "WORD"), EndWord("WORD", All, OcamlWords \cup {"PROPERTY"}, "NORMAL"),
         Set(On("LPAREN", {"*"}, <<"COMMENT", "(", "*">>, "COMMENT"), Becomes(0..MaxDepth, 1))>>
    \o Else("LPAREN", <<"(">>)
OcamlQuoted ==
    <<On("COMMENT", {"*"}, C, "COMMENT_STAR"),
      Row({"COMMENT", "COMMENT_STAR", "COMMENT_LPAREN"}, {"("}, {To(C, "COMMENT_LPAREN")}),
      On("COMMENT", All, C, "COMMENT"),
      Set(If(On("COMMENT_STAR", {")"}, <<"CHAR", "RESET">>, "NORMAL"), {1}), Shallower),
      Set(On("COMMENT_STAR", {")"}, C, "COMMENT_STAR"), Shallower),
      On("COMMENT_STAR", {"*"}, C, "COMMENT_STAR"), On("COMMENT_STAR", All, C, "COMMENT"),
      Set(On("COMMENT_LPAREN", {"*"}, C, "COMMENT"), Deeper), On("COMMENT_LPAREN", All, C, "COMMENT"),
      Row({"LCURLY", "LCURLY_WORD"}, {"|"}, {To(<<"STRING", "{", "WORD", "CHAR">>, "RAWSTR")}),
      Row({"LCURLY", "LCURLY_WORD"}, Ascii \cup {"_"}, {To(Keep, "LCURLY_WORD")}),
      Again("LCURLY", All, <<"{">>, "NORMAL"), Again("LCURLY_WORD", All, <<"{">>, "WORD"),
      On("RAWSTR", {"|"}, C, "RAWSTR_PIPE"), On("RAWSTR", All, C, "RAWSTR"),
      Or(On("RAWSTR_PIPE", {"}"}, <<"CHAR", "RESET">>, "NORMAL"), On("RAWSTR_PIPE", {"}"}, C, "RAWSTR")),
      On("RAWSTR_PIPE", Ascii \cup {"_", "|"}, C, "RAWSTR_PIPE"), On("RAWSTR_PIPE", All, C, "RAWSTR")>>
    \o Quoted("'", "QUOTE") \o Quoted("\"", "DQUOTE")
OcamlFlush ==
    <<FlushWord({"WORD"}, OcamlWords), Flush({"LPAREN"}, <<"(">>),
      Flush({"LCURLY", "LCURLY_WORD"}, <<"{", "WORD">>),
      Flush({"RAWSTR", "RAWSTR_PIPE", "QUOTE", "QUOTE_BACKSLASH", "DQUOTE", "DQUOTE_BACKSLASH",
             "COMMENT", "COMMENT_STAR", "COMMENT_LPAREN"}, <<"RESET">>)>>
-----------------------------------------------------------------------------
\* The register is where the next character stands: at the beginning of a line, behind a
\* space, or elsewhere.
AsmWords == {"KEYWORD", "BUILTIN", "LABEL", "QUALIFIER", "CONSTANT"}
AsmImmediate == Ascii \cup Digit \cup {"&", "*", "+", "-", "/", "<", ">", "^", "_", "|"}
AsmNormal ==
    <<On("NORMAL", Alnum \cup {"-", ".", "@"}, Keep, "WORD"), If(On("NORMAL", {"#"}, Keep, "WORD"), {"bol"}),
      If(On("NORMAL", {"#"}, Keep, "HASH"), {"space"}),
      If(On("NORMAL", {";", "!"}, <<"COMMENT", "CHAR">>, "COMMENT"), {"bol", "space"}),
      If(Opens("/", "COMMENT", "SLASH0"), {"bol"}), Holds("/", "SLASH"), On("NORMAL", {"$"}, C, "DOLLAR"),
      Holds("%", "REG0"), Opens("\\", "ESCAPE", "BACKSLASH"), Opens("'", "STRING", "QUOTE"),
      Opens("\"", "STRING", "DQUOTE")>> \o Plainly
AsmFeed ==
    LET quote == "IMMEDIATE_QUOTE"
    IN  <<Again("DOLLAR", AsmImmediate \cup {"'"}, <<"IMMEDIATE">>, "IMMEDIATE"), Again("DOLLAR", All, <<>>, "NORMAL"),
          On("IMMEDIATE", AsmImmediate, C, "IMMEDIATE"), On("IMMEDIATE", {"'"}, C, quote),
          Again("IMMEDIATE", All, <<"RESET">>, "NORMAL"),
          On(quote, {"\\"}, C, quote \o "_BACKSLASH"), Again(quote, {"\n"}, <<"RESET">>, "NORMAL"),
          On(quote, All, C, quote \o "_FINISH"), On(quote \o "_BACKSLASH", All, C, quote \o "_FINISH"),
          On(quote \o "_FINISH", {"'"}, C, "IMMEDIATE"), Again(quote \o "_FINISH", All, <<>>, "IMMEDIATE"),
          On("BACKSLASH", All, <<"CHAR", "RESET">>, "NORMAL"),
          Again("HASH", Space, <<"COMMENT", "WORD">>, "COMMENT"), Again("HASH", All, <<>>, "WORD"),
          On("WORD", Alnum \cup {"$", "-", "."}, Keep, "WORD"),
          Or(EndWord("WORD", All, AsmWords, "NORMAL"), Again("WORD", All, <<"COMMENT", "WORD">>, "COMMENT"))>>
AsmQuoted ==
    LET narrow(s, to) == <<On(s, {"e-acute"}, <<"lead">>, to)>>      \* its other bits are lost
    IN  <<Again("REG0", Ascii \cup {"(", ")"}, <<"REGISTER", "%">>, "REG"), Again("REG0", All, <<"%">>, "NORMAL"),
          On("REG", Ascii \cup Digit, C, "REG"), Again("REG", All, <<"RESET">>, "NORMAL"),
          On("QUOTE", {"\n"}, <<"CHAR", "RESET">>, "NORMAL")>>
        \o narrow("QUOTE", "QUOTE") \o narrow("QUOTE_BACKSLASH", "QUOTE")
        \o narrow("DQUOTE", "DQUOTE") \o narrow("DQUOTE_BACKSLASH", "DQUOTE")
        \o Quoted("'", "QUOTE") \o Quoted("\"", "DQUOTE")
        \o <<On("SLASH0", {"*"}, C, "SLASH_STAR"), Again("SLASH0", All, <<>>, "COMMENT"),
             On("SLASH", {"/"}, <<"COMMENT", "/", "/">>, "SLASH_SLASH"),
             On("SLASH", {"*"}, <<"COMMENT", "/", "*">>, "SLASH_STAR")>>
        \o Else("SLASH", <<"/">>) \o Block("SLASH_STAR", "/") \o Until("\n", "COMMENT") \o Until("\n", "SLASH_SLASH")
AsmFlush ==
    <<Flush({"WORD", "HASH"}, <<"WORD">>), Flush({"REG0"}, <<"%">>), Flush({"SLASH"}, <<"/">>),
      Flush({"REG", "SLASH0", "COMMENT", "BACKSLASH", "SLASH_SLASH", "SLASH_STAR", "SLASH_STAR_STAR",
             "QUOTE", "QUOTE_BACKSLASH", "DQUOTE", "DQUOTE_BACKSLASH", "IMMEDIATE", "IMMEDIATE_QUOTE",
             "IMMEDIATE_QUOTE_BACKSLASH", "IMMEDIATE_QUOTE_FINISH"}, <<"RESET">>)>>
AsmSettle(h, c) == [h EXCEPT !.n = IF c = "\n" THEN "bol" ELSE IF c \in Space THEN "space" ELSE "in"]
=============================================================================
