----------------------------- MODULE MCHighlight -----------------------------
EXTENDS Highlight

McLanguages == DOMAIN Rows
\* Those of Ruby that are left out are treated as others that are seen.
McUnseen == [name \in McLanguages |->
                IF name = "ruby" THEN {"a", "i", "q", "r", "x", "1", ".", "~", "\t"} ELSE {}]
=============================================================================
