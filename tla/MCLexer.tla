------------------------------- MODULE MCLexer -------------------------------
(***************************************************************************)
(* Commands of two kinds: every text of up to three characters, one or two *)
(* of each class, and every sequence of three fragments, pieces of    *)
(* commands chosen for what is hard about them: a word of every kind of    *)
(* keyword, quotes that enclose a word, a keyword, a blank or nothing, or  *)
(* are not closed, a comment, numbers that touch other characters.         *)
(***************************************************************************)
EXTENDS Lexer

MCLetters == {"o", "r", "n", "i", "f"}
MCDigits == {"1"}
MCBlanks == {"blank", "newline"}
MCLineEnds == {"newline"}
MCClauses == {<<"i", "n">>}
MCReserved == {<<"o", "n">>}
MCOperators == {<<"o", "r">>, <<"-">>, <<">">>, <<">", "=">>, <<"=">>, <<"*">>}
MCFunctions == {<<"f">>}
MCAggrFunctions == {<<"n">>}

MCChars == {"o", "r", "1", ".", "quote", "dquote", "-", ">", "=", "blank",
            "newline", "?", "i", "(", ";", "*", "#", "n", "s", "f"}
MCFragments ==
  {<<"o", "r">>, <<"i", "n">>, <<"f">>, <<"r", "1">>, <<"1", ".">>, <<".", "1">>,
   <<"blank">>, <<"newline">>, <<"-">>, <<">", "=">>, <<".">>, <<"?", "i">>,
   <<"quote", "o", "blank", "quote">>, <<"quote", "quote">>, <<"quote">>,
   <<"dquote", "o", "n", "dquote">>, <<"dquote", "1", "blank", "dquote">>,
   <<"-", "-", "o", "newline">>}
MCTexts ==
  UNION {[1..n -> MCChars] : n \in 0..3}
    \cup {f \o g \o h : f, g, h \in MCFragments}
=============================================================================
