----------------------------- MODULE Tokenizer -----------------------------
(***************************************************************************)
(* src/wtcommon/tokenizer.cc: the text of a filter to its tokens.  A text  *)
(* is a sequence of characters; a token has a type and the characters of   *)
(* its value.  The steps back of the stream (move_back) put the reader on  *)
(* the last character it used, so each read_ operator returns how far it   *)
(* came, and from goes on after that.                                      *)
(***************************************************************************)
EXTENDS Integers, Sequences, SequencesExt

CONSTANTS
    Characters, \* what can be typed
    MaxInt      \* INT_MAX, as a number of at most two digits

Digits == {"0", "1", "2", "3", "4", "5", "6", "7", "8", "9"}
Letters == {"d", "e", "h", "m", "n", "x"}
Alnum == Digits \cup Letters
Quote == "\""
Backslash == "\\"
Space == " "
Operators == {"=", "~", ">", "<", "|", "&", "(", ")"}

ASSUME CharactersAssumption == Alnum \cup Operators \cup {Quote, Backslash, Space} \subseteq Characters
ASSUME MaxIntAssumption == MaxInt \in 0..99

Token(type, value) == [type |-> type, value |-> value]
Types == {"INTEGER", "IDENTIFIER", "STRING", "DATE", "OPERATOR", "STRAY", "error"}
OperatorValues == {<<c>> : c \in Operators} \cup {<<"<", "=">>, <<">", "=">>}
Tokens == {t \in [type : Types, value : Seq(Characters)] :
              t.type = "OPERATOR" => t.value \in OperatorValues}

\* What get_tokens throws.
TokenizerError == <<Token("error", << >>)>>
Failed(tokens) == tokens # << >> /\ Last(tokens) = Last(TokenizerError)

\* The last place of the run of characters of a class that starts at i.
RunEnd(text, i, class) ==
    CHOOSE j \in i..Len(text) :
        /\ \A k \in i..j : text[k] \in class
        /\ j < Len(text) => text[j + 1] \notin class

DigitValue == [c \in Digits |->
    CHOOSE n \in 0..9 : <<"0", "1", "2", "3", "4", "5", "6", "7", "8", "9">>[n + 1] = c]
Value(digits) ==
    LET value[i \in 0..Len(digits)] ==
            IF i = 0 THEN 0 ELSE 10 * value[i - 1] + DigitValue[digits[i]]
    IN  value[Len(digits)]

\* std::to_string, for a number below 100.
Decimal(n) ==
    LET digit(k) == CHOOSE c \in Digits : DigitValue[c] = k
    IN  IF n < 10 THEN <<digit(n)>> ELSE <<digit(n \div 10), digit(n % 10)>>

\* The string literal whose characters begin at i: the place of its closing quote
\* and the characters meant; no place if it is malformed.
NoLiteral == [end |-> 0, value |-> << >>]
read_string(text, i) ==
    LET read[j \in 1..Len(text) + 1] ==
            LET k == IF text[j] = Backslash THEN j + 1 ELSE j
            IN  IF j > Len(text) THEN NoLiteral
                ELSE IF text[j] = Quote THEN [end |-> j, value |-> << >>]
                ELSE IF k # j /\ (k > Len(text) \/ text[k] \notin {Backslash, Quote}) THEN NoLiteral
                ELSE [end |-> read[k + 1].end, value |-> <<text[k]>> \o read[k + 1].value]
    IN  read[i]

\* Variant: ">=" and "<=" are two operators each.
OperatorEndOne(text, i) == i

OperatorEnd(text, i) ==
    IF text[i] \in {"<", ">"} /\ i < Len(text) /\ text[i + 1] = "=" THEN i + 1 ELSE i

\* from[i] are the tokens from place i on.  A number above MaxInt fails the
\* stream, which then looks like the end of the text.
get_tokens(text) ==
    LET from[i \in 1..Len(text) + 1] ==
            LET run(class) == RunEnd(text, i, class)
                number == Value(SubSeq(text, i, run(Digits)))
                string == read_string(text, i + 1)
            IN  IF i > Len(text) THEN << >>
                ELSE IF text[i] \in Digits
                THEN IF number > MaxInt THEN <<Token("INTEGER", Decimal(MaxInt))>>
                     ELSE <<Token("INTEGER", Decimal(number))>> \o from[run(Digits) + 1]
                ELSE IF text[i] \in Letters
                THEN <<Token("IDENTIFIER", SubSeq(text, i, run(Alnum)))>> \o from[run(Alnum) + 1]
                ELSE IF text[i] = Quote
                THEN IF string.end = 0 THEN TokenizerError
                     ELSE <<Token("STRING", string.value)>> \o from[string.end + 1]
                ELSE IF text[i] \in Operators
                THEN <<Token("OPERATOR", SubSeq(text, i, OperatorEnd(text, i)))>>
                     \o from[OperatorEnd(text, i) + 1]
                ELSE IF text[i] = Space THEN from[i + 1] ELSE TokenizerError
    IN  from[1]
=============================================================================
