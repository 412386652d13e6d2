---------------------------- MODULE HighlightCurly ----------------------------
(***************************************************************************)
(* The highlighters of languages with the lexical structure of C, as       *)
(* tables of rows (see Highlighter).                                       *)
(***************************************************************************)
EXTENDS Highlighter

Slash(line, star) ==   \* behind a slash
    <<On("SLASH", {"/"}, <<"COMMENT", "/", "/">>, line),
      On("SLASH", {"*"}, <<"COMMENT", "/", "*">>, star)>> \o Else("SLASH", <<"/">>)

-----------------------------------------------------------------------------
JavaWords == {"KEYWORD", "CONSTANT"}

JavaCode ==
    <<On("NORMAL", Name, Keep, "WORD"),
      On("NORMAL", {"/"}, <<>>, "SLASH"),
      On("NORMAL", {"'"}, <<"STRING", "CHAR">>, "QUOTE"),
      On("NORMAL", {"\""}, <<"STRING", "CHAR">>, "DQUOTE"),
      On("NORMAL", {"@"}, <<>>, "ANNOTATION"),
      On("NORMAL", All, C, "NORMAL"),
      On("WORD", Alnum, Keep, "WORD"),
      EndWord("WORD", All, JavaWords, "NORMAL")>>
    \o Slash("SLASH_SLASH", "SLASH_STAR")
    \o Until("\n", "SLASH_SLASH") \o Block("SLASH_STAR", "/") \o Quoted("'", "QUOTE")

JavaString == Strings("\"", "DQUOTE")

JavaEnd ==
    <<On("ANNOTATION", Name, <<"ATTRIB", "@", "CHAR">>, "ANNOTATION2"),
      Again("ANNOTATION", All, <<"@">>, "NORMAL"),
      On("ANNOTATION2", Alnum, C, "ANNOTATION2"),
      Again("ANNOTATION2", All, <<"RESET">>, "NORMAL"),
      FlushWord({"WORD"}, JavaWords), Flush({"SLASH"}, <<"/">>), Flush({"ANNOTATION"}, <<"@">>),
      Flush({"QUOTE", "QUOTE_BACKSLASH", "SLASH_SLASH", "SLASH_STAR", "SLASH_STAR_STAR",
             "DQUOTE", "DQUOTESTR", "DQUOTESTR_BACKSLASH", "DQUOTE2", "DQUOTE3",
             "DQUOTE3_BACKSLASH", "DQUOTE31", "DQUOTE32", "ANNOTATION2"}, <<"RESET">>)>>

-----------------------------------------------------------------------------
\* The register is nest_, what the brackets go back to that are open.
KotlinWords == {"KEYWORD", "CONSTANT", "TYPE"}
KotlinNest == {"NORMAL", "DQUOTESTR", "DQUOTE3"}

KotlinCode ==
    <<Holds("/", "SLASH"), Opens("'", "STRING", "QUOTE"), Opens("\"", "STRING", "DQUOTE"),
      Holds("@", "ANNOTATION")>>
    \o Brackets(KotlinNest, "{", "}") \o Words(Name, Alnum, KotlinWords) \o Plainly
    \o Slash("SLASH_SLASH", "SLASH_STAR")
    \o Until("\n", "SLASH_SLASH") \o Block("SLASH_STAR", "/") \o Quoted("'", "QUOTE")

KotlinString ==
    LET variable(s, other) ==
            <<If(Set(On(s \o "_DOLLAR", {"{"}, <<"CHAR", "RESET">>, "NORMAL"), Push(KotlinNest, s)),
                 NotFull(KotlinNest)),
              On(s \o "_DOLLAR", Name, <<"BOLD", "CHAR">>, s \o "_VAR"), other,
              On(s \o "_VAR", Name, C, s \o "_VAR"), Again(s \o "_VAR", All, <<"UNBOLD">>, s)>>
    IN  <<Row({"DQUOTE", "DQUOTESTR"}, {"$"}, {To(C, "DQUOTESTR_DOLLAR")}),
          Row({"DQUOTE3", "DQUOTE31", "DQUOTE32"}, {"$"}, {To(C, "DQUOTE3_DOLLAR")})>>
        \o Strings("\"", "DQUOTE")
        \o variable("DQUOTESTR", Again("DQUOTESTR_DOLLAR", All, <<>>, "DQUOTESTR"))
        \o variable("DQUOTE3", On("DQUOTE3_DOLLAR", All, C, "DQUOTE3"))

KotlinEnd ==
    <<On("ANNOTATION", Name, <<"ATTRIB", "@", "CHAR">>, "ANNOTATION2"),
      Again("ANNOTATION", All, <<"@">>, "NORMAL"),
      On("ANNOTATION2", Alnum, C, "ANNOTATION2"),
      Again("ANNOTATION2", All, <<"RESET">>, "NORMAL"),
      FlushWord({"WORD"}, KotlinWords), Flush({"SLASH"}, <<"/">>), Flush({"ANNOTATION"}, <<"@">>),
      Flush({"QUOTE", "QUOTE_BACKSLASH", "SLASH_SLASH", "SLASH_STAR", "SLASH_STAR_STAR", "DQUOTE",
             "DQUOTESTR", "DQUOTESTR_BACKSLASH", "DQUOTESTR_DOLLAR", "DQUOTESTR_VAR", "DQUOTE2",
             "DQUOTE3", "DQUOTE3_BACKSLASH", "DQUOTE31", "DQUOTE32", "ANNOTATION2",
             "DQUOTE3_DOLLAR", "DQUOTE3_VAR"}, <<"RESET">>)>>

\* HighlightScala differs in its keywords only.
ScalaCode == KotlinCode
ScalaString == KotlinString
ScalaEnd == KotlinEnd

-----------------------------------------------------------------------------
GoWords == {"KEYWORD", "TYPE"}

GoFeed ==
    <<On("NORMAL", Name, Keep, "WORD"),
      On("NORMAL", {"/"}, <<>>, "SLASH"),
      On("NORMAL", {"'"}, <<"STRING", "CHAR">>, "QUOTE"),
      On("NORMAL", {"\""}, <<"STRING", "CHAR">>, "DQUOTE"),
      On("NORMAL", {Tick}, <<"STRING", "CHAR">>, "TICK"),
      On("NORMAL", All, C, "NORMAL"),
      On("WORD", Alnum, Keep, "WORD"),
      EndWord("WORD", All, GoWords, "NORMAL")>>
    \o Slash("SLASH_SLASH", "SLASH_STAR")
    \o Until("\n", "SLASH_SLASH") \o Block("SLASH_STAR", "/")
    \o Quoted("'", "QUOTE") \o Quoted("\"", "DQUOTE") \o Quoted(Tick, "TICK")

\* Mutant: two states are missing.
GoFlushShort ==
    <<FlushWord({"WORD"}, GoWords), Flush({"SLASH"}, <<"/">>),
      Flush({"QUOTE", "QUOTE_BACKSLASH", "DQUOTE", "DQUOTE_BACKSLASH", "SLASH_SLASH",
             "SLASH_STAR", "SLASH_STAR_STAR"}, <<"RESET">>)>>

GoFlush ==
    <<FlushWord({"WORD"}, GoWords), Flush({"SLASH"}, <<"/">>),
      Flush({"QUOTE", "QUOTE_BACKSLASH", "DQUOTE", "DQUOTE_BACKSLASH", "SLASH_SLASH",
             "SLASH_STAR", "SLASH_STAR_STAR", "TICK", "TICK_BACKSLASH"}, <<"RESET">>)>>

-----------------------------------------------------------------------------
ZigWords == {"KEYWORD", "TYPE", "BUILTIN", "CONSTANT"}

ZigFeed ==
    <<On("NORMAL", Name \cup {"@"}, Keep, "WORD"),
      On("NORMAL", {"/"}, <<>>, "SLASH"),
      On("NORMAL", {"\\"}, <<>>, "BACKSLASH"),
      On("NORMAL", {"'"}, <<"STRING", "CHAR">>, "QUOTE"),
      On("NORMAL", {"\""}, <<"STRING", "CHAR">>, "DQUOTE"),
      On("NORMAL", All, C, "NORMAL"),
      On("WORD", Alnum, Keep, "WORD"),
      EndWord("WORD", All, ZigWords, "NORMAL"),
      On("BACKSLASH", {"\\"}, <<"STRING", "\\", "\\">>, "BACKSLASH_BACKSLASH"),
      Again("BACKSLASH", All, <<"\\">>, "NORMAL"),
      On("SLASH", {"/"}, <<"COMMENT", "/", "/">>, "SLASH_SLASH"),
      Again("SLASH", All, <<"/">>, "NORMAL")>>
    \o Until("\n", "SLASH_SLASH") \o Until("\n", "BACKSLASH_BACKSLASH")
    \o Quoted("'", "QUOTE") \o Quoted("\"", "DQUOTE")

ZigFlush ==
    <<FlushWord({"WORD"}, ZigWords), Flush({"SLASH"}, <<"/">>), Flush({"BACKSLASH"}, <<"\\">>),
      Flush({"QUOTE", "QUOTE_BACKSLASH", "DQUOTE", "DQUOTE_BACKSLASH", "SLASH_SLASH",
             "BACKSLASH_BACKSLASH"}, <<"RESET">>)>>

-----------------------------------------------------------------------------
\* The register is nest_, the brackets that are open in an attribute.
RustWords == {"KEYWORD", "MACRO", "TYPE", "CONSTANT"}

RustCode ==
    <<On("NORMAL", Name \cup {"!"}, Keep, "WORD"),
      On("NORMAL", {"/"}, <<>>, "SLASH"),
      On("NORMAL", {"#"}, <<>>, "HASH"),
      On("NORMAL", {"'"}, <<"STRING", "CHAR">>, "QUOTE"),
      On("NORMAL", {"\""}, <<"STRING", "CHAR">>, "DQUOTE"),
      On("NORMAL", All, C, "NORMAL"),
      On("WORD", Alnum \cup {"!"}, Keep, "WORD"),
      EndWord("WORD", All, RustWords, "NORMAL")>>
    \o Slash("SLASH_SLASH", "SLASH_STAR")
    \o Until("\n", "SLASH_SLASH") \o Block("SLASH_STAR", "/")
    \o <<On("QUOTE", {"'"}, <<"CHAR", "RESET">>, "NORMAL"),
         On("QUOTE", {"\\"}, C, "QUOTE_BACKSLASH"),
         On("QUOTE", All, C, "QUOTE2"),
         On("QUOTE_BACKSLASH", All, C, "QUOTE2"),
         On("QUOTE2", {"'"}, <<"CHAR", "RESET">>, "NORMAL"),
         On("QUOTE2", All, <<"RESET", "CHAR">>, "NORMAL")>>
    \o Quoted("\"", "DQUOTE")

RustAttribute ==
    <<On("HASH", {"!"}, <<>>, "HASH_EXCLAIM"),
      On("HASH", {"["}, <<"ATTRIB", "#", "[">>, "ATTRIB")>> \o Else("HASH", <<"#">>)
    \o <<On("HASH_EXCLAIM", {"["}, <<"ATTRIB", "#", "!", "[">>, "ATTRIB")>>
    \o Else("HASH_EXCLAIM", <<"#", "!">>)
    \o <<Set(On("ATTRIB", {"["}, C, "ATTRIB"), Deeper),
         Set(If(On("ATTRIB", {"]"}, C, "ATTRIB"), Nested), Shallower),
         On("ATTRIB", {"]"}, <<"CHAR", "RESET">>, "NORMAL"),
         On("ATTRIB", All, C, "ATTRIB")>>

RustFlush ==
    <<FlushWord({"WORD"}, RustWords), Flush({"SLASH"}, <<"/">>),
      Flush({"QUOTE", "QUOTE_BACKSLASH", "QUOTE2", "DQUOTE", "DQUOTE_BACKSLASH", "ATTRIB",
             "SLASH_SLASH", "SLASH_STAR", "SLASH_STAR_STAR"}, <<"RESET">>),
      Flush({"HASH"}, <<"#">>), Flush({"HASH_EXCLAIM"}, <<"#", "!">>)>>

-----------------------------------------------------------------------------
(* HighlightC, for C and C++.  The register is the set of the flags is_bol_, *)
(* is_cpp_, is_define_, is_include_ and is_pod_ that are set.  The contents  *)
(* of heredoc_ and the digits that i_ counts are left out.                   *)
CFlags == SUBSET {"bol", "cpp", "define", "include", "pod"}
With(flag) == {f \in CFlags : flag \in f}
Without(flag) == CFlags \ With(flag)
Clear(flags) == [f \in CFlags |-> f \ flags]
Raise(flag) == [f \in CFlags |-> f \cup {flag}]
CHash == With("bol") \ (With("cpp") \cup With("define"))      \* a directive begins

CNormal ==
    <<On("NORMAL", {"R"}, Keep, "R"),
      On("NORMAL", Name, Keep, "WORD"),
      Set(If(On("NORMAL", {"#"}, <<"BUILTIN", "CHAR">>, "NORMAL"), CHash), Raise("cpp")),
      If(On("NORMAL", {"<"}, <<"STRING", "CHAR">>, "CPP_LT"), With("include")),
      On("NORMAL", {"\\"}, <<>>, "BACKSLASH"),
      On("NORMAL", {"/"}, <<>>, "SLASH"),
      On("NORMAL", {"?"}, <<>>, "QUESTION"),
      On("NORMAL", {"'"}, <<"STRING", "CHAR">>, "QUOTE"),
      On("NORMAL", {"\""}, <<"STRING", "CHAR">>, "DQUOTE"),
      Set(If(On("NORMAL", {"\n"}, <<"CHAR", "RESET">>, "NORMAL"), With("cpp")),
          Clear({"include", "cpp", "define"})),
      Set(On("NORMAL", {"\n"}, C, "NORMAL"), Clear({"define"})),
      On("NORMAL", All, C, "NORMAL")>>

CDirective ==          \* what a word of a directive may be
    LET builtin == <<"BUILTIN", "WORD", "RESET", "RESET">>
    IN  {Via(<<"WORD">>, "NORMAL"), Via(<<"CONSTANT", "WORD", "RESET">>, "NORMAL"), Via(builtin, "NORMAL"),
         ChangeVia(builtin, "NORMAL", Raise("include")),
         ChangeVia(builtin, "NORMAL", [f \in CFlags |-> (f \ {"cpp"}) \cup {"define"}])}
CKeyword ==
    LET keyword == <<"KEYWORD", "WORD", "RESET">>
    IN  {Via(keyword, "NORMAL"), ChangeVia(keyword, "NORMAL", Raise("pod"))}

CWord ==
    <<On("WORD", Alnum \cup {"$"}, Keep, "WORD"),
      If(Row({"WORD"}, All, CDirective), With("cpp")),
      If(Row({"WORD"}, All, CKeyword \cup
             {ChangeVia(<<"TYPE", "WORD", "RESET">>, "NORMAL", Clear({"pod"}))}), With("pod")),
      Row({"WORD"}, All, CKeyword \cup
          {ChangeVia(put, "NORMAL", Clear({"pod"})) : put \in Painted({"TYPE", "BUILTIN", "CONSTANT"})}),
      On("BACKSLASH", {"u", "U"}, <<"ESCAPE", "\\", "CHAR">>, "UNIVERSAL"),
      On("BACKSLASH", All, <<"\\", "CHAR">>, "NORMAL"),
      Or(On("UNIVERSAL", Hex, C, "UNIVERSAL"), On("UNIVERSAL", Hex, <<"CHAR", "RESET">>, "NORMAL")),
      Again("UNIVERSAL", All, <<"RESET">>, "NORMAL"),
      On("QUESTION", {"?"}, <<>>, "TRIGRAPH"),
      Again("QUESTION", All, <<"?">>, "NORMAL"),
      On("TRIGRAPH", {"=", "(", "/", ")", "'", "<", "!", ">", "-"},
         <<"ESCAPE", "?", "?", "CHAR", "RESET">>, "NORMAL"),
      Again("TRIGRAPH", All, <<"?", "?">>, "NORMAL")>>

CQuoted ==
    Slash("SLASH_SLASH", "SLASH_STAR")
    \o <<On("SLASH_SLASH", {"\\"}, C, "SLASH_SLASH_BACKSLASH"),
         On("SLASH_SLASH_BACKSLASH", All, C, "SLASH_SLASH")>>
    \o Until("\n", "SLASH_SLASH") \o Block("SLASH_STAR", "/")
    \o Quoted("'", "QUOTE") \o Until(">", "CPP_LT") \o Quoted("\"", "DQUOTE")
    \o <<On("R", {"\""}, <<"WORD", "STRING", "CHAR">>, "R_DQUOTE"),
         Again("R", All, <<>>, "WORD"),
         On("R_DQUOTE", {"("}, C, "RAW"),
         On("R_DQUOTE", All, C, "R_DQUOTE"),
         Or(On("RAW", {"\""}, C, "RAW"), On("RAW", {"\""}, <<"CHAR", "RESET">>, "NORMAL")),
         On("RAW", All, C, "RAW")>>

\* What a directive has colored is reset by flush() in nearly every state.
CFlush ==
    LET half(s, text) == <<If(Flush({s}, text \o <<"RESET">>), With("cpp")), Flush({s}, text)>>
    IN  <<If(Row({"WORD"}, {"FLUSH"}, {To(<<"BUILTIN", "WORD", "RESET">>, "NORMAL"),
                 To(<<"CONSTANT", "WORD", "RESET">>, "NORMAL"), To(<<"WORD", "RESET">>, "NORMAL")}),
             With("cpp")),
          FlushWord({"WORD"}, {"KEYWORD", "TYPE", "BUILTIN", "CONSTANT"})>>
        \o half("SLASH", <<"/">>) \o half("QUESTION", <<"?">>) \o half("TRIGRAPH", <<"?", "?">>)
        \o half("R", <<"WORD">>) \o half("BACKSLASH", <<"\\">>)
        \o <<Flush({"QUOTE", "QUOTE_BACKSLASH", "DQUOTE", "DQUOTE_BACKSLASH", "SLASH_SLASH",
                   "SLASH_SLASH_BACKSLASH", "SLASH_STAR", "SLASH_STAR_STAR", "R_DQUOTE", "RAW"},
                  <<"RESET">>),
             If(Flush({"NORMAL", "CPP_LT", "UNIVERSAL"}, <<"RESET">>), With("cpp"))>>

\* is_bol_ is brought up to date behind every character.
CSettle(h, c) ==
    [h EXCEPT !.n = IF c \notin Space THEN @ \ {"bol"} ELSE IF c = "\n" THEN @ \cup {"bol"} ELSE @]

-----------------------------------------------------------------------------
\* Linker scripts.  The register is the set of the flags is_bol_ and is_cpp_ (see
\* HighlightC).  A slash is kept in word_ already, where it belongs before a D.
LdWords == {"KEYWORD", "BUILTIN", "WARNING"}
LdName == {"_", ".", ":"}
LdFeed ==
    <<On("NORMAL", {"/"}, Keep, "SLASH"), Opens("\"", "STRING", "DQUOTE"),
      Set(If(Opens("#", "BUILTIN", "NORMAL"), With("bol")), Raise("cpp")),
      Set(If(On("NORMAL", {"\n"}, <<"CHAR", "RESET">>, "NORMAL"), With("cpp")), Clear({"cpp"}))>>
    \o <<On("NORMAL", Letter \cup LdName, Keep, "WORD"), On("WORD", Alnum \cup LdName \cup {"/"}, Keep, "WORD"),
         If(EndWord("WORD", All, {"BUILTIN", "CONSTANT"}, "NORMAL"), With("cpp")),
         EndWord("WORD", All, LdWords, "NORMAL")>> \o Plainly
    \o <<On("SLASH", {"/"}, <<"COMMENT", "WORD", "CHAR">>, "SLASH_SLASH"), On("SLASH", {"D"}, Keep, "WORD"),
         On("SLASH", {"*"}, <<"COMMENT", "WORD", "CHAR">>, "SLASH_STAR")>>
    \o Else("SLASH", <<"WORD">>)
    \o <<Set(On("SLASH_SLASH", {"\n"}, <<"CHAR", "RESET">>, "NORMAL"), Clear({"cpp"})),
         On("SLASH_SLASH", All, C, "SLASH_SLASH")>>
    \o Block("SLASH_STAR", "/") \o Quoted("\"", "DQUOTE")
LdFlush ==
    <<If(Row({"WORD"}, {"FLUSH"}, {To(put \o <<"RESET">>, "NORMAL") :
             put \in {<<"BUILTIN", "WORD">>, <<"CONSTANT", "WORD">>, <<"WORD">>}}), With("cpp")),
      FlushWord({"WORD"}, LdWords),
      If(Flush({"SLASH"}, <<"WORD", "RESET">>), With("cpp")), Flush({"SLASH"}, <<"WORD">>),
      Flush({"DQUOTE", "DQUOTE_BACKSLASH", "SLASH_SLASH", "SLASH_STAR", "SLASH_STAR_STAR"}, <<"RESET">>),
      If(Flush({"NORMAL"}, <<"RESET">>), With("cpp"))>>

-----------------------------------------------------------------------------
PhpWords == {"KEYWORD", "TYPE"}
PhpFeed ==
    <<Holds("/", "SLASH"), Opens("'", "STRING", "QUOTE"), Opens("\"", "STRING", "DQUOTE"),
      Opens(Tick, "STRING", "TICK"), On("NORMAL", {"$"}, <<"CHAR", "VAR">>, "VAR")>>
    \o Words(Name, Alnum, PhpWords) \o Plainly
    \o <<On("VAR", Alnum, C, "VAR"), Again("VAR", All, <<"RESET">>, "NORMAL")>>
    \o Slash("SLASH_SLASH", "SLASH_STAR")
    \o Until("\n", "SLASH_SLASH") \o Block("SLASH_STAR", "/")
    \o Quoted("'", "QUOTE") \o Quoted("\"", "DQUOTE") \o Quoted(Tick, "TICK")
PhpFlush ==
    <<FlushWord({"WORD"}, PhpWords), Flush({"SLASH"}, <<"/">>),
      Flush({"VAR", "TICK", "TICK_BACKSLASH", "QUOTE", "QUOTE_BACKSLASH", "DQUOTE",
             "DQUOTE_BACKSLASH", "SLASH_SLASH", "SLASH_STAR", "SLASH_STAR_STAR"}, <<"RESET">>)>>

-----------------------------------------------------------------------------
\* The register is trips1_ and trips2_, the quotes that opened a raw string and those
\* in a row that may end it.
CsharpWords == {"KEYWORD", "CONSTANT"}
Trips == (0..6) \X (0..6)
CsharpCode ==
    <<Holds("/", "SLASH"), Opens("'", "STRING", "QUOTE"), Opens("\"", "STRING", "DQUOTE")>>
    \o Words(Name \cup {"#"}, Alnum \cup {"$", "#"}, CsharpWords) \o Plainly
    \o Slash("SLASH_SLASH", "SLASH_STAR")
    \o Until("\n", "SLASH_SLASH") \o Block("SLASH_STAR", "/") \o Quoted("'", "QUOTE")
CsharpStrings ==
    LET two == "DQUOTE_DQUOTE"
        three == "DQUOTE_DQUOTE_DQUOTE"
        another == [n \in (3..5) \X (0..2) |-> <<n[1] + 1, n[2] + 1>>]
        second(k) == [n \in Trips |-> <<n[1], k>>]
    IN  <<On("DQUOTE", {"\""}, C, two), On("DQUOTE", {"\\"}, C, "STR_BACKSLASH"),
          On("DQUOTE", All, C, "STR")>>
        \o Quoted("\"", "STR")
        \o <<Set(On(two, {"\""}, C, three), Becomes(Trips, <<3, 0>>)),
             Again(two, All, <<"RESET">>, "NORMAL"),
             If(Set(On(three, {"\""}, <<"CHAR", "RESET">>, "NORMAL"), another), {n \in Trips : n[2] = 2}),
             Set(On(three, {"\""}, C, three), another),
             Set(On(three, All, C, "TRIPS"), second(0)),
             Set(On("TRIPS", {"\""}, C, "TRIPS_DQUOTE"), second(1)), On("TRIPS", All, C, "TRIPS"),
             If(On("TRIPS_DQUOTE", {"\""}, <<"CHAR", "RESET">>, "NORMAL"),
                {n \in Trips : n[2] + 1 = n[1]}),
             Set(On("TRIPS_DQUOTE", {"\""}, C, "TRIPS_DQUOTE"),
                 [n \in Trips |-> <<n[1], n[2] + 1>>]),
             On("TRIPS_DQUOTE", All, C, "TRIPS")>>
CsharpFlush ==
    <<FlushWord({"WORD"}, CsharpWords), Flush({"SLASH"}, <<"/">>),
      Flush({"QUOTE", "QUOTE_BACKSLASH", "DQUOTE", "STR", "STR_BACKSLASH", "DQUOTE_DQUOTE",
             "DQUOTE_DQUOTE_DQUOTE", "TRIPS", "TRIPS_DQUOTE", "SLASH_SLASH", "SLASH_STAR",
             "SLASH_STAR_STAR"}, <<"RESET">>)>>

-----------------------------------------------------------------------------
\* t_ keeps the state to go back to in its higher bits: Under(s, x) is s << 8 | x.
Under(s, x) == s \o "<<" \o x
CssColor == [SELECTOR |-> <<"SELECTOR">>, PROPERTY |-> <<"PROPERTY">>, VALUE |-> <<>>]
Css == DOMAIN CssColor

CssNormal ==
    LET common(s) ==
            <<On(s, {"/"}, <<>>, Under(s, "SLASH")), On(s, {"'"}, <<"STRING", "CHAR">>, Under(s, "QUOTE")),
              On(s, {"\""}, <<"STRING", "CHAR">>, Under(s, "DQUOTE"))>>
    IN  <<Again("NORMAL", All, <<"SELECTOR">>, "SELECTOR"),
          On("SELECTOR", {"{"}, <<"RESET", "CHAR", "PROPERTY">>, "PROPERTY"),
          On("SELECTOR", {","}, <<"RESET", "CHAR", "SELECTOR">>, "SELECTOR"),
          On("SELECTOR", {"@"}, <<>>, Under("SELECTOR", "AT"))>>
        \o common("SELECTOR") \o <<On("SELECTOR", All, C, "SELECTOR"),
          Row({"PROPERTY", "VALUE"}, {"@"}, {To(<<>>, Under("VALUE", "AT"))}),
          On("PROPERTY", {":"}, <<"RESET", "CHAR">>, "VALUE"),
          On("PROPERTY", {"}"}, <<"RESET", "CHAR", "SELECTOR">>, "SELECTOR")>>
        \o common("PROPERTY") \o <<On("PROPERTY", All, C, "PROPERTY"),
          On("VALUE", {"!"}, <<>>, Under("VALUE", "BANG")),
          On("VALUE", {";"}, <<"CHAR", "PROPERTY">>, "PROPERTY"),
          On("VALUE", {"}"}, <<"CHAR", "SELECTOR">>, "SELECTOR")>>
        \o common("VALUE") \o <<On("VALUE", All, C, "VALUE")>>

CssUnder(s) ==
    LET word(x, mark, color) ==      \* what begins with a mark, perhaps a keyword
            <<On(Under(s, x), Ascii \cup {"-"}, Keep, Under(s, x)),
              Row({Under(s, x)}, All, {Via(put \o CssColor[s], s)
                  : put \in {<<mark, "WORD">>, <<color, mark, "WORD", "RESET">>}})>>
        quoted(q, x) ==
            <<On(Under(s, x), {q}, <<"CHAR", "RESET">> \o CssColor[s], s),
              On(Under(s, x), {"\\"}, C, Under(s, x \o "_BACKSLASH")),
              On(Under(s, x), All, C, Under(s, x)),
              On(Under(s, x \o "_BACKSLASH"), All, C, Under(s, x))>>
        star == Under(s, "SLASH_STAR")
    IN  word("AT", "@", "BUILTIN") \o word("BANG", "!", "WARNING")
        \o quoted("'", "QUOTE") \o quoted("\"", "DQUOTE")
        \o <<On(Under(s, "SLASH"), {"*"}, <<"COMMENT", "/", "*">>, star),
             Again(Under(s, "SLASH"), All, <<"/">>, s),
             On(star \o "_STAR", {"/"}, <<"CHAR", "RESET">> \o CssColor[s], s)>> \o Block(star, "/")

\* flush() takes one state after the other off t_.
CssFlush ==
    LET off(s) == IF s = "VALUE" THEN <<"RESET">> ELSE <<"RESET", "RESET">>
        under(s) ==
            <<Flush({Under(s, "AT")}, <<"@", "WORD">> \o off(s)),
              Flush({Under(s, "BANG")}, <<"!", "WORD">> \o off(s)),
              Flush({Under(s, "SLASH")}, <<"/">> \o off(s)),
              Flush({Under(s, "DQUOTE"), Under(s, "DQUOTE_BACKSLASH")}, <<"RESET">> \o off(s)),
              Flush({Under(s, "QUOTE"), Under(s, "QUOTE_BACKSLASH"), Under(s, "SLASH_STAR"),
                     Under(s, "SLASH_STAR_STAR")}, off(s)),
              Flush({s}, off(s))>>
    IN  <<Flush({"NORMAL"}, <<"RESET">>)>> \o under("SELECTOR") \o under("PROPERTY") \o under("VALUE")
=============================================================================
