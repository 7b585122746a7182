-------------------------- MODULE ExpressionParser --------------------------
(***************************************************************************)
(* A filter expression from the keyboard to SQL: Tokenizer, the stacks of  *)
(* BinaryExpressionParser (binaryexpressionparser.cc, precedences from     *)
(* binaryexpressiontree.cc) and SQLiteDataAccess::load_expression_         *)
(* condition.  A BinaryExpression is written in Polish notation, operator, *)
(* left, right, as a sequence of tokens, an operand as a sequence of one.  *)
(***************************************************************************)
EXTENDS Tokenizer, FiniteSets

CONSTANTS
    Alphabet,       \* what a user types: tokens, and characters of no token
                    \* (type "STRAY")...
    ShortLength,    \* ...in expressions of at most so many tokens
    Core,           \* tokens of longer expressions...
    LongLength,     \* ...of at most so many
    Variables,      \* names of DataAccess::get_variables()
    Dates           \* strings that std::get_time accepts

ASSUME AlphabetAssumption == Alphabet \subseteq Tokens

\* Tokens as the language writes them: numbers without leading zeros, strings of
\* any characters; and strays, one character each.
Legible(t) ==
    LET digitsOnly == \A i \in 1..Len(t.value) : t.value[i] \in Digits
        name == \A i \in 1..Len(t.value) : t.value[i] \in Alnum
    IN  /\ t.type \in {"INTEGER", "IDENTIFIER", "STRING", "OPERATOR", "STRAY"}
        /\ t.type = "INTEGER" =>
             t.value # << >> /\ digitsOnly /\ (Len(t.value) > 1 => t.value[1] # "0")
        /\ t.type = "IDENTIFIER" => t.value # << >> /\ name /\ t.value[1] \in Letters
        /\ t.type = "STRAY" =>
             Len(t.value) = 1 /\ t.value[1] \notin Alnum \cup Operators \cup {Space}

ASSUME LegibleAssumption == \A t \in Alphabet : Legible(t)

VARIABLES
    phase,      \* "typing", "parsing", then "accepted", "queried", "refused" (an
                \* exception) or "undefined" (pop of an empty stack)
    typed,      \* history: the tokens meant
    text,       \* the characters typed
    tokens,     \* the tokens read
    pos,        \* current_token
    operands, operators,    \* the two stacks, the top last
    sql         \* the WHERE condition, as tokens

vars == <<phase, typed, text, tokens, pos, operands, operators, sql>>

Op(c) == Token("OPERATOR", c)
Open == Op(<<"(">>)
Close == Op(<<")">>)

Init ==
    /\ phase = "typing" /\ typed = << >> /\ text = << >>
    /\ tokens = << >> /\ pos = 1 /\ operands = << >> /\ operators = << >>
    /\ sql = << >>

-----------------------------------------------------------------------------
(***************************************************************************)
(* The user.                                                               *)
(***************************************************************************)

Spelled(t) ==
    IF t.type = "STRING"
    THEN <<Quote>> \o FlattenSeq([i \in 1..Len(t.value) |->
            IF t.value[i] \in {Quote, Backslash} THEN <<Backslash, t.value[i]>>
                                           ELSE <<t.value[i]>>]) \o <<Quote>>
    ELSE t.value

\* A space where two tokens would read as one.
Joined(s, t) ==
    IF s # << >> /\ (\/ Last(s) \in Alnum /\ Head(t) \in Alnum
                     \/ Last(s) \in {"<", ">"} /\ Head(t) = "=")
    THEN s \o <<Space>> \o t ELSE s \o t

Type(t) ==
    /\ phase = "typing"
    /\ \/ Len(typed) < ShortLength
       \/ Len(typed) < LongLength /\ ToSet(typed) \cup {t} \subseteq Core
    /\ typed' = Append(typed, t)
    /\ text' = Joined(text, Spelled(t))
    /\ UNCHANGED <<phase, tokens, pos, operands, operators, sql>>

Submit ==
    /\ phase = "typing"
    /\ LET read == get_tokens(text)
       IN  IF Failed(read) THEN phase' = "refused" /\ tokens' = << >>
           ELSE phase' = "parsing" /\ tokens' = read
    /\ UNCHANGED <<typed, text, pos, operands, operators, sql>>

-----------------------------------------------------------------------------
(***************************************************************************)
(* parse().                                                                *)
(***************************************************************************)

AtEnd == pos > Len(tokens)
Current == tokens[pos]
Top == Last(operators)

\* Variant: "&" binds tighter than "|".
PrecedenceAndFirst(op) ==
    CASE op.value \in {<<"(">>, <<")">>} -> 0
      [] op.value = <<"|">> -> 1
      [] op.value = <<"&">> -> 2
      [] OTHER -> 3

\* Comparisons are implemented for strings, times or integers, the
\* connectives for booleans.
precedence(op) ==
    CASE op.value \in {<<"(">>, <<")">>} -> 0
      [] op.value \in {<<"|">>, <<"&">>} -> 1
      [] OTHER -> 2

IsBinary(t) == t.type = "OPERATOR" /\ t \notin {Open, Close}

\* The conditions of the three loops around make_binary_expression.
MustMake ==
    /\ operators # << >>
    /\ \/ AtEnd
       \/ ~AtEnd /\ Current = Close /\ Top # Open
       \/ ~AtEnd /\ IsBinary(Current) /\ precedence(Current) <= precedence(Top)

Parsing == phase = "parsing"

\* Variant: the operands change sides.
MakeSwapped ==
    /\ Parsing /\ MustMake
    /\ IF Len(operands) < 2 THEN phase' = "refused" /\ UNCHANGED <<operands, operators>>
       ELSE LET n == Len(operands)
            IN  /\ operands' = Append(SubSeq(operands, 1, n - 2),
                                      <<Top>> \o operands[n] \o operands[n - 1])
                /\ operators' = Front(operators) /\ UNCHANGED phase
    /\ UNCHANGED <<typed, text, tokens, pos, sql>>

\* make_binary_expression; top_pop throws when an operand is missing.
Make ==
    /\ Parsing /\ MustMake
    /\ IF Len(operands) < 2 THEN phase' = "refused" /\ UNCHANGED <<operands, operators>>
       ELSE LET n == Len(operands)
            IN  /\ operands' = Append(SubSeq(operands, 1, n - 2),
                                      <<Top>> \o operands[n - 1] \o operands[n])
                /\ operators' = Front(operators) /\ UNCHANGED phase
    /\ UNCHANGED <<typed, text, tokens, pos, sql>>

Operand(t, used) ==
    /\ operands' = Append(operands, <<t>>) /\ pos' = pos + used
    /\ UNCHANGED <<phase, typed, text, tokens, operators, sql>>

Refuse ==
    /\ phase' = "refused"
    /\ UNCHANGED <<typed, text, tokens, pos, operands, operators, sql>>

ReadInteger == Parsing /\ ~AtEnd /\ Current.type = "INTEGER" /\ Operand(Current, 1)

ReadIdentifier ==
    /\ Parsing /\ ~AtEnd /\ Current.type = "IDENTIFIER"
    /\ IF Current.value \in Variables THEN Operand(Current, 1) ELSE Refuse

Suffix(i) == i < Len(tokens) /\ tokens[i + 1] = Token("IDENTIFIER", <<"d">>)

\* A string followed by the identifier d is a date.
ReadString ==
    /\ Parsing /\ ~AtEnd /\ Current.type = "STRING"
    /\ IF ~Suffix(pos) THEN Operand(Current, 1)
       ELSE IF Current.value \in Dates THEN Operand(Token("DATE", Current.value), 2)
       ELSE Refuse

\* operators.pop() after the loop, also when nothing is left to pop.
ReadClose ==
    /\ Parsing /\ ~AtEnd /\ Current = Close /\ ~MustMake
    /\ IF operators = << >> THEN phase' = "undefined" /\ UNCHANGED <<pos, operators>>
       ELSE /\ operators' = Front(operators)
            /\ pos' = pos + 1 /\ UNCHANGED phase
    /\ UNCHANGED <<typed, text, tokens, operands, sql>>

\* Variant: a closing parenthesis may take the last branch of read_operator too.
ReadAnyOperator ==
    /\ Parsing /\ ~AtEnd /\ Current.type = "OPERATOR" /\ ~MustMake
    /\ operators' = Append(operators, Current) /\ pos' = pos + 1
    /\ UNCHANGED <<phase, typed, text, tokens, operands, sql>>

ReadOpenOrBinary ==
    /\ Parsing /\ ~AtEnd /\ Current.type = "OPERATOR" /\ Current # Close /\ ~MustMake
    /\ operators' = Append(operators, Current) /\ pos' = pos + 1
    /\ UNCHANGED <<phase, typed, text, tokens, operands, sql>>

\* A single operand is no BinaryExpression: the result is a null pointer.
Finish ==
    /\ Parsing /\ AtEnd /\ operators = << >>
    /\ phase' = IF Len(operands) = 1 THEN "accepted" ELSE "refused"
    /\ UNCHANGED <<typed, text, tokens, pos, operands, operators, sql>>

Result == IF IsBinary(operands[1][1]) \/ operands[1][1] = Open THEN operands[1] ELSE << >>

-----------------------------------------------------------------------------
(***************************************************************************)
(* load_expression_condition.                                              *)
(***************************************************************************)

\* The tokens of a kind, in their order.
Only(kind, s) ==
    LET only[r \in Seq(Tokens)] ==
            IF r = << >> THEN << >>
            ELSE IF Head(r) \in kind THEN <<Head(r)>> \o only[Tail(r)] ELSE only[Tail(r)]
    IN  only[s]
Occurrences(kind, s) == Len(Only(kind, s))

OperatorTokens == {t \in Tokens : t.type = "OPERATOR"}
OperandTokens == {t \in Tokens : t.type # "OPERATOR"}

\* Where the operand that starts at place i of a Polish sequence ends.
EndOf(p, i) ==
    Min({j \in i..Len(p) : Occurrences(OperandTokens, SubSeq(p, i, j)) >
                              Occurrences(OperatorTokens, SubSeq(p, i, j))} \cup {Len(p)})

Left(p) == SubSeq(p, 2, EndOf(p, 2))
Right(p) == SubSeq(p, EndOf(p, 2) + 1, Len(p))

\* Variant: without the parentheses.
ConditionBare(p) ==
    LET condition[q \in Seq(Tokens)] ==
            IF Len(q) <= 1 THEN q
            ELSE condition[Left(q)] \o <<q[1]>> \o condition[Right(q)]
    IN  condition[p]

Condition(p) ==
    LET condition[q \in Seq(Tokens)] ==
            IF Len(q) <= 1 THEN q
            ELSE <<Open>> \o condition[Left(q)] \o <<q[1]>> \o condition[Right(q)] \o <<Close>>
    IN  condition[p]

\* Variant: a parenthesis is translated like any other operator.
QueryAny ==
    /\ phase = "accepted" /\ phase' = "queried"
    /\ sql' = IF Result = << >> THEN << >> ELSE Condition(Result)
    /\ UNCHANGED <<typed, text, tokens, pos, operands, operators>>

\* translate_operator throws on a parenthesis; a null expression has no WHERE.
Query ==
    /\ phase = "accepted"
    /\ IF Open \in ToSet(Result) THEN phase' = "refused" /\ sql' = sql
       ELSE /\ phase' = "queried"
            /\ sql' = IF Result = << >> THEN << >> ELSE Condition(Result)
    /\ UNCHANGED <<typed, text, tokens, pos, operands, operators>>

-----------------------------------------------------------------------------
Next ==
    \/ \E t \in Alphabet : Type(t)
    \/ Submit
    \/ Make \/ ReadInteger \/ ReadIdentifier \/ ReadString
    \/ ReadClose \/ ReadOpenOrBinary \/ Finish
    \/ Query

Spec == Init /\ [][Next]_vars

-----------------------------------------------------------------------------
\* The grammar the parser is meant for, on a sequence of operands, binary
\* operators and balanced parentheses: the expression in Polish notation, or
\* nothing.  The operator applied last is the rightmost of the weakest that
\* stand outside all parentheses.
Depth(s, i) == Occurrences({Open}, SubSeq(s, 1, i)) - Occurrences({Close}, SubSeq(s, 1, i))
Outside(s) == {i \in 1..Len(s) : IsBinary(s[i]) /\ Depth(s, i) = 0}

\* Where the operator is that is applied last.
LastApplied(s, prec) ==
    CHOOSE i \in Outside(s) : \A j \in Outside(s) :
        \/ prec[s[i].value] < prec[s[j].value]
        \/ prec[s[i].value] = prec[s[j].value] /\ j <= i

Grammar(s, prec) ==
    LET tree[r \in Seq(Tokens)] ==
            LET i == LastApplied(r, prec)
                left == tree[SubSeq(r, 1, i - 1)]
                right == tree[SubSeq(r, i + 1, Len(r))]
            IN  IF Len(r) <= 1 THEN Only(OperandTokens, r)
                ELSE IF Outside(r) # {}
                THEN IF left = << >> \/ right = << >> THEN << >>
                     ELSE <<r[i]>> \o left \o right
                ELSE IF Head(r) = Open /\ Last(r) = Close THEN tree[SubSeq(r, 2, Len(r) - 1)]
                ELSE << >>
    IN  tree[s]

\* The precedences of the language, and those SQL gives to AND and OR.
BinaryValues == OperatorValues \ {<<"(">>, <<")">>}
Precedence == [v \in BinaryValues |-> IF v \in {<<"|">>, <<"&">>} THEN 1 ELSE 2]
SqlPrecedence ==
    [v \in BinaryValues |-> IF v = <<"|">> THEN 1 ELSE IF v = <<"&">> THEN 2 ELSE 3]

\* What was typed, dates put together.
Meant(s) ==
    LET meant[r \in Seq(Tokens)] ==
            IF r = << >> THEN << >>
            ELSE IF Len(r) > 1 /\ r[1].type = "STRING" /\ r[1].value \in Dates
                               /\ r[2] = Token("IDENTIFIER", <<"d">>)
            THEN <<Token("DATE", r[1].value)>> \o meant[Tail(Tail(r))]
            ELSE <<r[1]>> \o meant[Tail(r)]
    IN  meant[s]

TooBig(t) == t.type = "INTEGER" /\ Value(t.value) > MaxInt

TypeOK ==
    /\ phase \in {"typing", "parsing", "accepted", "queried", "refused", "undefined"}
    /\ text \in Seq(Characters)
    /\ {typed, tokens, sql} \subseteq Seq(Tokens)
    /\ pos \in 1..Len(tokens) + 1
    /\ operands \in Seq(Seq(Tokens) \ {<< >>})
    /\ operators \in Seq(OperatorTokens \ {Close})

\* Spacing, escapes and operators of two characters lose nothing: the tokens
\* read are the tokens meant, and a character of no token is refused; but the
\* first number above INT_MAX becomes INT_MAX and hides the rest of the text.
ReadsBack ==
    phase # "typing" /\ Token("STRAY", <<Quote>>) \notin ToSet(typed) =>
        LET stop == {i \in 1..Len(typed) : TooBig(typed[i]) \/ typed[i].type = "STRAY"}
            i == CHOOSE i \in stop : \A j \in stop : i <= j
        IN  IF stop = {} THEN tokens = typed
            ELSE IF typed[i].type = "STRAY" THEN phase = "refused"
            ELSE tokens = SubSeq(typed, 1, i - 1) \o
                          <<Token("INTEGER", Decimal(MaxInt))>>

\* An expression of the grammar, of known names, is accepted and queried, and
\* means what the grammar says.
Goal == Grammar(Meant(tokens), Precedence)
Known(s) == \A i \in 1..Len(s) : s[i].type = "IDENTIFIER" => s[i].value \in Variables
GrammarIsParsed ==
    phase \notin {"typing", "parsing"} /\ Goal # << >> /\ Known(Meant(tokens)) =>
        phase \in {"accepted", "queried"} /\ operands = <<Goal>>

\* On any input, whatever order the stacks work in, the operands read so far
\* stand in the expressions in the order they were written.
OperandsInOrder ==
    phase \in {"parsing", "accepted", "undefined"} =>
        Only(OperandTokens, FlattenSeq(operands)) =
            Only(OperandTokens, Meant(SubSeq(tokens, 1, pos - 1)))

\* Every parenthesis has its partner.
Paired(s) == Depth(s, Len(s)) = 0 /\ \A i \in 1..Len(s) : Depth(s, i) >= 0

\* The part of the text that is read: what follows a number above INT_MAX is
\* dropped, and an unpaired quote makes other tokens of the rest.
Heard ==
    LET lost == {i \in 1..Len(typed) : TooBig(typed[i])}
    IN  IF Token("STRAY", <<Quote>>) \in ToSet(typed) THEN tokens
        ELSE SubSeq(typed, 1, Min(lost \cup {Len(typed) + 1}) - 1)

\* parse() accepts "5 ( 6" and pops an empty stack at "5 )", but of an unpaired
\* text nothing is queried, and a paired one empties no stack.  Of "5 < 99 )"
\* this says only that "5 <" is paired: with 99 above INT_MAX, it is queried.
UnbalancedNeverQueried ==
    /\ phase = "queried" => Paired(Heard)
    /\ phase = "undefined" => ~Paired(Heard)

\* SQL, which binds AND tighter than OR, reads the condition as the expression
\* that was parsed.
SqlMeansTheSame ==
    phase = "queried" => Grammar(sql, SqlPrecedence) = Result
=============================================================================
