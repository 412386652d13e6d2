-------------------------- MODULE HighlightEmbedded -------------------------
(***************************************************************************)
(* Two highlighters that hold code of their own or of others, as tables of *)
(* rows (see Highlighter).  In Ruby, what ends a string or a heredoc is    *)
(* left open, and whether an operator, a value or a name is expected.      *)
(* HTML makes highlighters for scripts, styles and PHP; its state RELAY is *)
(* in HighlightTables.  Here "script" is spelled s, and "style" t.         *)
(***************************************************************************)
EXTENDS HighlightNested

\* The register is nest_ and pending_heredoc_.
RubyWords == {"KEYWORD", "BUILTIN", "CONSTANT", "CLASS"}
RubyNest == {"NORMAL", "DQUOTE", "REGEX", "PERCENT_STRING"}
RubyRegister == Nest(RubyNest) \X BOOLEAN
RubyAwait(heredoc) == [n \in RubyRegister |-> <<n[1], heredoc>>]
RubyPush(s) == [n \in NotFull(RubyNest) \X BOOLEAN |-> <<Append(n[1], s), n[2]>>]
RubyInside == (Nest(RubyNest) \ {<<>>}) \X BOOLEAN
RubyPop(s) == [n \in {x \in RubyInside : Last(x[1]) = s} |-> <<Front(n[1]), n[2]>>]
\* isident, ispunct_overridable, is_dollar_one, is_percent_literal and ispunct.
RubyIdent == Alnum \cup {"!", "$", "%", "&", "-", "/", "=", "?", "@", "^"}
RubyOverridable == {"%", "&", "*", "+", "-", "/", "<", ">", "^", Tick, "|", "~"}
RubyMagic == Digit \cup {"!", "\"", "#", "$", "&", "-", "/", "<", "=", ">", "@", "'", "\\", "^", "_", Tick}
RubyLiteral == {"q", "r", "s", "x", "i"}
RubyPunct == All \ (Letter \cup Digit \cup Space)

RubyNormal ==
    LET or(row, c) == Or(row, On("NORMAL", {c}, C, "NORMAL"))
        \* behind `def' it is a name
        named(row, c) == Or(row, On("NORMAL", {c}, Keep, "WORD"))
    IN  <<Holds(":", "COLON"), Holds("@", "AT"), Holds("=", "EQUAL"), Holds("?", "QUESTION"),
          Holds("$", "DOLLAR"), named(Holds("%", "PERCENT"), "%"), Opens("'", "STRING", "QUOTE"),
          Opens("\"", "STRING", "DQUOTE"), named(Opens(Tick, "STRING", "TICK"), Tick),
          Opens("#", "COMMENT", "COMMENT"), named(or(On("NORMAL", {"<"}, C, "LT"), "<"), "<"),
          named(or(Opens("/", "STRING", "REGEX"), "/"), "/"),
          Or(On("NORMAL", RubyOverridable, Keep, "WORD"), On("NORMAL", RubyOverridable, C, "NORMAL")),
          If(Set(On("NORMAL", {"{"}, C, "NORMAL"), RubyPush("NORMAL")), DOMAIN RubyPush("NORMAL") \cap RubyInside),
          If(Row({"NORMAL"}, {"}"},
                 {Change(IF s = "NORMAL" THEN C ELSE <<"STRING", "CHAR">>, s, RubyPop(s)) : s \in RubyNest}),
             RubyInside),
          Set(If(On("NORMAL", {"\n"}, <<"CHAR", "STRING">>, "HEREDOC_BOL"), Nest(RubyNest) \X {TRUE}),
              RubyAwait(FALSE))>>
        \o Words(Name, RubyIdent, RubyWords) \o Plainly
\* An equals sign may begin a comment of many lines.
RubyEqual ==
    LET begin == <<"COMMENT", "=", "WORD", "CHAR">>
        other == Again("EQUAL_WORD", All, <<"=">>, "WORD")
    IN  <<On("EQUAL", Name, Keep, "EQUAL_WORD")>> \o Else("EQUAL", <<"=">>)
        \o <<On("EQUAL_WORD", RubyIdent, Keep, "EQUAL_WORD"),
             Or(On("EQUAL_WORD", {"\n"}, begin, "MULTICOM_BOL"), other),
             Or(On("EQUAL_WORD", All, begin, "MULTICOM"), other),
             On("MULTICOM", {"\n"}, C, "MULTICOM_BOL"), On("MULTICOM", All, C, "MULTICOM"),
             Row({"MULTICOM_BOL"}, Ascii \cup {"="},
                 {To(C, "MULTICOM_BOL"), To(<<"CHAR", "RESET">>, "NORMAL"), To(C, "MULTICOM")}),
             On("MULTICOM_BOL", All, C, "MULTICOM")>>
\* Symbols and variables.
RubySigils ==
    LET sigil(s, c, color) ==
            <<On(s, RubyIdent, <<color, c, "CHAR">>, s \o "_WORD")>> \o Else(s, <<c>>)
        name(s) == <<On(s \o "_WORD", RubyIdent, C, s \o "_WORD"),
                     Again(s \o "_WORD", All, <<"RESET">>, "NORMAL")>>
    IN  <<On("COLON", {":"}, <<":", ":">>, "NORMAL")>>
        \o sigil("COLON", ":", "LISPKW") \o name("COLON") \o sigil("AT", "@", "VAR") \o name("AT")
        \o <<On("DOLLAR", RubyMagic, <<"VAR", "$", "CHAR", "RESET">>, "NORMAL"),
             On("DOLLAR", Ascii, <<"VAR", "$", "CHAR">>, "DOLLAR_WORD")>>
        \o Else("DOLLAR", <<"$">>) \o name("DOLLAR")
\* A character, written behind a question mark.
RubyQuestion ==
    <<On("QUESTION", {"\\"}, <<>>, "QUESTION_BACKSLASH"), Again("QUESTION", Space, <<"?">>, "NORMAL"),
      On("QUESTION", All, <<"ESCAPE", "?", "CHAR", "RESET">>, "NORMAL"),
      On("QUESTION_BACKSLASH", All, <<"ESCAPE", "?", "\\", "CHAR", "RESET">>, "NORMAL")>>
\* Behind a hash in a string.
RubyHash(s, put) ==
    LET hash == s \o "_HASH"
        dollar == hash \o "_DOLLAR"
        word == dollar \o "_WORD"
    IN  <<Set(If(On(hash, {"{"}, put, "NORMAL"), DOMAIN RubyPush(s)), RubyPush(s)), On(hash, {"$"}, <<>>, dollar),
          Again(hash, All, <<"#">>, s), On(dollar, RubyMagic, <<"#", "BOLD", "$", "CHAR", "UNBOLD">>, s),
          On(dollar, Ascii, <<"#", "BOLD", "$", "CHAR">>, word), Again(dollar, All, <<"#", "$">>, s),
          On(word, RubyIdent, C, word), Again(word, All, <<"UNBOLD">>, s)>>
RubyQuotes ==
    LET hash(s) == <<On(s, {"#"}, <<>>, s \o "_HASH")>>
                   \o RubyHash(s, <<"BOLD", "#", "UNBOLD", "STRING", "{", "RESET">>)
    IN  hash("REGEX") \o Quoted("/", "REGEX") \o hash("DQUOTE") \o Quoted("\"", "DQUOTE")
        \o Quoted("'", "QUOTE") \o Quoted(Tick, "TICK") \o Until("\n", "COMMENT")
RubyPercent ==
    LET string == "PERCENT_STRING"
        literal(s) == On(s, RubyPunct, <<"STRING", "%", "WORD", "CHAR">>, string)
        closes == On(string, RubyPunct, <<"CHAR", "RESET">>, "NORMAL")
    IN  <<On("PERCENT", RubyLiteral, Keep, "PERCENT2"), literal("PERCENT")>> \o Else("PERCENT", <<"%">>)
        \o <<literal("PERCENT2"), Again("PERCENT2", All, <<"%">>, "WORD"),
             Or(On(string, {"#"}, <<>>, string \o "_HASH"), closes),
             Or(On(string, RubyPunct, C, string), closes), On(string, All, C, string)>>
        \o RubyHash(string, <<"BOLD", "#", "UNBOLD", "{", "RESET">>)
RubyHeredoc ==
    Heredoc(RubyAwait(TRUE), RubyAwait(FALSE), {"'", Tick, "\""}, {"-", "~"})
    \o <<On("HEREDOC", All, C, "HEREDOC")>>
RubyFlush ==
    LET held(hashes, put) == Flush({s \o hashes : s \in RubyNest \ {"NORMAL"}}, put \o <<"RESET">>)
    IN  <<Row({"EQUAL_WORD"}, {"FLUSH"}, {To(<<"=">> \o put, "NORMAL") : put \in Painted(RubyWords)}),
          FlushWord({"WORD"}, RubyWords), Flush({"AT"}, <<"@">>), Flush({"EQUAL"}, <<"=">>),
          Flush({"COLON"}, <<":">>), Flush({"DOLLAR"}, <<"$">>), Flush({"PERCENT"}, <<"%">>),
          Flush({"PERCENT2"}, <<"%", "WORD">>), Flush({"QUESTION"}, <<"?">>),
          Flush({"QUESTION_BACKSLASH"}, <<"?", "\\">>),
          held("_HASH", <<"#">>), held("_HASH_DOLLAR", <<"#", "$">>), held("_HASH_DOLLAR_WORD", <<>>),
          Flush({"REGEX", "REGEX_BACKSLASH", "PERCENT_STRING", "AT_WORD", "DOLLAR_WORD", "TICK",
                 "TICK_BACKSLASH", "QUOTE", "QUOTE_BACKSLASH", "DQUOTE", "DQUOTE_BACKSLASH", "COMMENT",
                 "HEREDOC_BOL", "HEREDOC", "LT_LT_QNAME", "COLON_WORD", "MULTICOM", "MULTICOM_BOL"},
                <<"RESET">>)>>

-----------------------------------------------------------------------------
\* The register is name_, and what is embedded in state RELAY.
HtmlName == {"none", "script", "style", "other"}
Named(n) == Becomes(HtmlName, n)
HtmlFeed ==
    LET onTag(s, put) == <<If(On(s, {">"}, put, "RELAY"), {"script", "style"}), On(s, {">"}, put, "NORMAL")>>
        name(c, n) == Set(On("TAG", c, <<"<", "TAG", "CHAR">>, "TAG2"), Named(n))
        comment(s, to, end) == <<On(s, {"-"}, C, to)>> \o end \o <<On(s, All, C, "COMMENT")>>
    IN  <<Set(Holds("<", "TAG"), Named("none")), Opens("&", "ENTITY", "ENTITY")>> \o Plainly
        \o Until(";", "ENTITY")
        \o <<On("TAG", {"!"}, <<>>, "TAG_EXCLAIM"), On("TAG", {"?"}, <<>>, "TAG_QUESTION"),
             On("TAG", {">"} \cup Space, <<"<", "CHAR">>, "NORMAL"),
             name({"s", "S"}, "script"), name({"t", "T"}, "style"), name(All, "other")>>
        \o onTag("TAG2", <<"RESET", "CHAR">>)
        \o <<On("TAG2", Space, <<"CHAR", "ATTRIB">>, "KEY"), Set(On("TAG2", All, C, "TAG2"), Named("other")),
             On("TAG_EXCLAIM", {"-"}, <<>>, "TAG_EXCLAIM_HYPHEN"),
             On("TAG_EXCLAIM", All, <<"<", "!", "CHAR">>, "NORMAL"),
             On("TAG_EXCLAIM_HYPHEN", {"-"}, <<"COMMENT", "<", "!", "-", "-">>, "COMMENT"),
             On("TAG_EXCLAIM_HYPHEN", All, <<"<", "!", "-", "CHAR">>, "NORMAL")>>
        \o comment("COMMENT", "COMMENT_HYPHEN", <<>>)
        \o comment("COMMENT_HYPHEN", "COMMENT_HYPHEN_HYPHEN", <<>>)
        \o comment("COMMENT_HYPHEN_HYPHEN", "COMMENT_HYPHEN_HYPHEN",
                   <<On("COMMENT_HYPHEN_HYPHEN", {">"}, <<"CHAR", "RESET">>, "NORMAL")>>)
        \o <<On("KEY", {"="}, <<"RESET", "CHAR">>, "VAL")>> \o onTag("KEY", <<"RESET", "CHAR">>)
        \o <<On("KEY", All, C, "KEY"), On("VAL", Space, <<"CHAR", "ATTRIB">>, "KEY"),
             On("VAL", {"'"}, <<"STRING", "CHAR">>, "QUOTE"), On("VAL", {"\""}, <<"STRING", "CHAR">>, "DQUOTE")>>
        \o onTag("VAL", C)
        \o <<On("VAL", All, C, "VAL"), On("QUOTE", {"'"}, <<"CHAR", "RESET">>, "VAL"), On("QUOTE", All, C, "QUOTE"),
             On("DQUOTE", {"\""}, <<"CHAR", "RESET">>, "VAL"), On("DQUOTE", All, C, "DQUOTE")>>
HtmlQuestion ==
    LET relay(s, c, put) == Set(On(s, {c}, put, "RELAY"), Becomes(HtmlName, "php"))
        letter(s, c, held) == <<On(s, {c}, <<>>, s \o "_" \o c), On(s, All, held \o C, "NORMAL")>>
        end == "TAG_QUESTION_p_h"
    IN  <<relay("TAG_QUESTION", "=", <<"TAG", "<", "?", "=", "RESET">>)>>
        \o letter("TAG_QUESTION", "p", <<"<", "?">>) \o letter("TAG_QUESTION_p", "h", <<"<", "?", "p">>)
        \o <<relay(end, "p", <<"<", "TAG", "?", "p", "h", "p", "RESET">>),
             On(end, All, <<"<", "?", "p", "h", "CHAR">>, "NORMAL")>>
HtmlFlush ==
    <<Flush({"TAG"}, <<"<">>), Flush({"TAG_EXCLAIM"}, <<"<", "!">>),
      Flush({"TAG_EXCLAIM_HYPHEN"}, <<"<", "!", "-">>), Flush({"TAG_QUESTION"}, <<"<", "?">>),
      Flush({"TAG_QUESTION_p"}, <<"<", "?", "p">>), Flush({"TAG_QUESTION_p_h"}, <<"<", "?", "p", "h">>),
      Flush({"COMMENT", "COMMENT_HYPHEN", "COMMENT_HYPHEN_HYPHEN", "ENTITY", "DQUOTE", "QUOTE", "TAG2",
             "KEY"}, <<"RESET">>)>>
=============================================================================
