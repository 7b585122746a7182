------------------------- MODULE MCExpressionParser -------------------------
(* A small instance of ExpressionParser for TLC.  99 is above MaxInt, "d" is *)
(* no variable, "m" is a date and the other string needs escapes.  The first  *)
(* stray character stands for any that begins no token (so does an underscore *)
(* after a name: start_hour is three tokens' worth of text, and refused), the *)
(* second is an unpaired quote.                                               *)
EXTENDS ExpressionParser

MCCharacters == Alnum \cup Operators \cup {Quote, Backslash, Space, "."}
Five == Token("INTEGER", <<"5">>)
MCCore == {Five, Op(<<"<">>), Op(<<"&">>), Op(<<"|">>), Open, Close}
MCAlphabet ==
    {Five, Token("INTEGER", <<"9", "9">>), Token("STRING", <<Quote, Backslash>>),
     Token("STRING", <<"m">>), Token("IDENTIFIER", <<"d">>),
     Token("IDENTIFIER", <<"n">>), Op(<<"<", "=">>), Op(<<"<">>), Op(<<"=">>),
     Token("STRAY", <<".">>), Token("STRAY", <<Quote>>)} \cup MCCore
MCVariables == {<<"n">>}
MCDates == {<<"m">>}
=============================================================================
