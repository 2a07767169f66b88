---------------------------- MODULE OperandLexer ----------------------------
(***************************************************************************)
(* How omplexer.ll cuts the list of a clause into operands.                *)
(*                                                                         *)
(* Behind the word of a clause the lexer is in a start condition of the    *)
(* clause, here FIRSTPRIVATE_STATE; the first character of an operand      *)
(* pushes EXPR_STATE, which reads one character per rule, counts brackets  *)
(* and emits the operand when a delimiter ends it.  An operand is returned *)
(* as the part of original_input between expression_begin_offset and the   *)
(* delimiter, so all hangs on offsets.  They are counted by the actions of *)
(* the rules, and have to follow flex where it takes characters back: a    *)
(* delimiter is unput when it ends an operand, and all that was looked at  *)
(* to tell a modifier from a variable of the same name.                    *)
(*                                                                         *)
(* Texts are typed while they are read.  A word that a rule looks for is   *)
(* one character: do stands for the modifiers.                             *)
(***************************************************************************)
EXTENDS TopLevel, Integers

CONSTANTS
    Starts, Typed,      \* texts start with one of these and go on with these
    MaxMore,            \* how far they go on
    MaxPeek             \* longest look-ahead (256 in the code)

VARIABLES
    original_input,     \* what was typed so far
    more,               \* how much may still be typed
    rest,               \* what flex will read next: typed, or pushed back
    location,           \* lexer_location_state, with lexer_position_history
    states,             \* the stack of start conditions, the top last
    current_string,
    counters,           \* of brackets and conditionals in the operand
    quote,              \* the literal that is being read
    expression_begin_offset,
    tokens,             \* what the lexer returned
    status              \* "running", "ended" or "aborted"
capture == <<current_string, counters, quote, expression_begin_offset>>
vars == <<original_input, more, rest, location, states, capture, tokens, status>>

End == "end of input"
Letters == Characters \cup {"\t"}
LexerAssumption ==
    /\ MaxMore \in Nat /\ MaxPeek \in Nat \ {0}
    /\ Starts \subseteq Seq(Letters) /\ Typed \subseteq Letters /\ End \notin Letters
Invalid == -1
\* isspace, and what [[:blank:]] and echoing drop between operands.
White == Space \cup {"\t"}
Brackets == DOMAIN Opens \cup DOMAIN Closes
Word == {"do"}

FreshCounters == [local |-> 0, global |-> 1, bracket |-> 0, brace |-> 0, ternary |-> 0]
NoQuote == [inside |-> FALSE, active |-> "none", escape |-> FALSE, raw |-> FALSE,
            body |-> FALSE, delimiter |-> <<>>]

Init ==
    /\ original_input \in Starts /\ rest = original_input /\ more = MaxMore
    /\ location = [line |-> 1, column |-> 1, offset |-> 0, last_token_offset |-> 0,
                   history |-> <<>>]
    /\ states = <<"FIRSTPRIVATE_STATE">>
    /\ current_string = <<>> /\ counters = FreshCounters /\ quote = NoQuote
    /\ expression_begin_offset = Invalid
    /\ tokens = <<>> /\ status = "running"

-----------------------------------------------------------------------------
\* Positions.
Position(l) == [line |-> l.line, column |-> l.column, offset |-> l.offset]
Advance(l, character) ==
    [l EXCEPT !.history = Append(@, Position(l)),
              !.line = IF character = "\n" THEN @ + 1 ELSE @,
              !.column = IF character = "\n" THEN 1 ELSE @ + 1,
              !.offset = @ + 1]
Advanced(l, text) ==
    LET behind[i \in 0 .. Len(text)] ==
            IF i = 0 THEN l ELSE Advance(behind[i - 1], text[i])
    IN behind[Len(text)]
\* YY_USER_ACTION.
UpdateTokenLocation(l, matched) ==
    [Advanced(l, matched) EXCEPT !.last_token_offset = l.offset]
\* (a slip for the checks: the position is counted back)
RewindCounting(l, character) ==
    LET newline == character = "\n" IN
    [l EXCEPT !.history = SubSeq(@, 1, Len(@) - 1),
              !.line = IF newline THEN @ - 1 ELSE @,
              !.column = IF newline THEN 1 ELSE @ - 1,
              !.offset = @ - 1]
\* The history never runs out: no more is pushed back than was read.
RewindLexerPositionForUnput(l, character) ==
    LET previous == l.history[Len(l.history)] IN
    [l EXCEPT !.history = SubSeq(@, 1, Len(@) - 1), !.line = previous.line,
              !.column = previous.column, !.offset = previous.offset]

-----------------------------------------------------------------------------
\* What flex reads.  More is typed as long as the next rule is not decided.
Top == states[Len(states)]
Pop == SubSeq(states, 1, Len(states) - 1)
Stops == {":", ")", "\n", End}
Decided ==
    /\ rest # <<>>
    /\ rest[1] = ":" => Len(rest) > 1
    /\ (rest[1] \in Word /\ Top = "FIRSTPRIVATE_STATE") =>
        \/ Len(rest) > MaxPeek + 1 \/ \E i \in 2 .. Len(rest) : rest[i] \in Stops
Type(character) ==
    /\ status = "running" /\ states # <<>> /\ ~Decided
    /\ rest' = Append(rest, character)
    /\ IF character = End THEN UNCHANGED <<original_input, more>>
       ELSE /\ more > 0 /\ more' = more - 1
            /\ original_input' = Append(original_input, character)
    /\ UNCHANGED <<location, states, capture, tokens, status>>

\* The longest match in EXPR_STATE: "::" is one.
Matched ==
    IF Top = "EXPR_STATE" /\ OccursAt(<<":", ":">>, rest, 1) THEN <<":", ":">>
    ELSE SubSeq(rest, 1, 1)
Ready(state) ==
    /\ status = "running" /\ states # <<>> /\ Top = state /\ Decided /\ rest[1] # End
Here == UpdateTokenLocation(location, Matched)
Consume == location' = Here /\ rest' = SubSeq(rest, Len(Matched) + 1, Len(rest))
Token(kind, begin, end) == [kind |-> kind, begin |-> begin, end |-> end]
Return(kind) == tokens' = Append(tokens, Token(kind, Here.last_token_offset, Here.offset))

-----------------------------------------------------------------------------
\* FIRSTPRIVATE_STATE.
SkipBlanks(t, i) == Least({j \in i .. Len(t) + 1 : At(t, j) # " "})
\* Modifiers, divided by commas, up to a colon.
ModifierListFollows(t) ==
    LET follows[i \in 1 .. Len(t) + 2] ==
            \/ At(t, i) = ":"
            \/ /\ At(t, i) = ","
               /\ LET word == SkipBlanks(t, i + 1) IN
                  /\ At(t, word) \in Word /\ At(t, word + 1) \notin IdentifierChar \cup Word
                  /\ follows[SkipBlanks(t, word + 1)]
    IN follows[SkipBlanks(t, 1)]
\* How many characters tracked_yyinput reads behind the word.
Peeked ==
    LET stop == Min({i \in 2 .. Len(rest) : rest[i] \in Stops} \cup {MaxPeek + 1})
    IN IF At(rest, stop) = End THEN stop - 2 ELSE stop - 1
LookAhead == SubSeq(rest, 2, Peeked + 1)
\* They are read, and pushed back from the last to the first.
LookedAhead ==
    LET back[i \in 0 .. Peeked] ==
            IF i = Peeked THEN Advanced(Here, LookAhead)
            ELSE RewindLexerPositionForUnput(back[i + 1], LookAhead[i + 1])
    IN back[0]
PushedBack ==
    LET back[i \in 0 .. Peeked] ==
            IF i = Peeked THEN SubSeq(rest, Peeked + 2, Len(rest))
            ELSE <<LookAhead[i + 1]>> \o back[i + 1]
    IN back[0]

PrepareExpressionCapture(initial) ==
    /\ states' = Append(states, "EXPR_STATE")
    /\ counters' = FreshCounters
    /\ expression_begin_offset' = Here.last_token_offset
    /\ current_string' = <<initial>>
    /\ quote' = [quote EXCEPT !.inside = initial \in Quote, !.escape = FALSE,
                              !.active = IF initial \in Quote THEN initial ELSE "none"]

ClausePunctuation ==
    /\ Ready("FIRSTPRIVATE_STATE") /\ rest[1] \in {"(", ")", ":", ","}
    /\ Consume /\ Return(rest[1])
    /\ states' = IF rest[1] = ")" THEN Pop ELSE states
    /\ UNCHANGED <<original_input, more, capture, status>>
ClauseSpace ==
    /\ Ready("FIRSTPRIVATE_STATE") /\ rest[1] \in White
    /\ Consume
    /\ UNCHANGED <<original_input, more, states, capture, tokens, status>>
ClauseWord ==
    /\ Ready("FIRSTPRIVATE_STATE") /\ rest[1] \in Word
    /\ location' = LookedAhead /\ rest' = PushedBack
    /\ \/ /\ ModifierListFollows(LookAhead)
          /\ Return(rest[1]) /\ UNCHANGED <<states, capture>>
       \/ /\ ~ModifierListFollows(LookAhead)
          /\ PrepareExpressionCapture(rest[1]) /\ UNCHANGED tokens
    /\ UNCHANGED <<original_input, more, status>>
ClauseOther ==
    /\ Ready("FIRSTPRIVATE_STATE")
    /\ rest[1] \notin {"(", ")", ":", ","} \cup White \cup Word
    /\ Consume /\ PrepareExpressionCapture(rest[1])
    /\ UNCHANGED <<original_input, more, tokens, status>>

-----------------------------------------------------------------------------
\* EXPR_STATE.
\* (a slip for the checks: a delimiter begins the operand behind it)
BeginAtDelimiter(character) ==
    IF expression_begin_offset # Invalid \/ current_string # <<>> \/ character \in White
    THEN expression_begin_offset
    ELSE Here.last_token_offset
\* start_expression_at_current_token_if_needed.
Begin(character) ==
    IF \/ expression_begin_offset # Invalid \/ current_string # <<>>
       \/ character \in White \cup DOMAIN Closes \cup {",", ":"}
    THEN expression_begin_offset
    ELSE Here.last_token_offset
StartExpression == expression_begin_offset' = Begin(rest[1])
\* One more character of the operand.
Push(c) == current_string' = Append(current_string, c) /\ StartExpression
Go == Consume /\ UNCHANGED <<original_input, more, tokens, status>>

ClearExpressionBuffer ==
    /\ current_string' = <<>> /\ counters' = FreshCounters
    /\ quote' = [quote EXCEPT !.inside = FALSE, !.active = "none", !.escape = FALSE]
\* store_lexeme aborts the process when no offset was kept.
StoreLexeme(begin, end) ==
    \/ /\ begin = Invalid
       /\ status' = "aborted" /\ UNCHANGED <<tokens, capture>>
    \/ /\ begin # Invalid
       /\ tokens' = Append(tokens, Token("operand", begin, end))
       /\ expression_begin_offset' = Invalid /\ ClearExpressionBuffer /\ UNCHANGED status
\* emit_expr_string_and_unput: the delimiter is pushed back.
EmitAndUnput ==
    /\ StoreLexeme(Begin(rest[1]), Here.last_token_offset)
    /\ location' = RewindLexerPositionForUnput(Here, rest[1])
    /\ UNCHANGED <<original_input, more, rest>>

Scope ==
    /\ Ready("EXPR_STATE") /\ Len(Matched) = 2
    /\ StartExpression /\ current_string' = current_string \o Matched
    /\ Go /\ UNCHANGED <<states, counters, quote>>
Reads(c) == Ready("EXPR_STATE") /\ Len(Matched) = 1 /\ rest[1] = c
\* A rule that reads c outside a literal.
Plain(c) == Reads(c) /\ ~quote.inside

\* consume_quoted_character.
RawTerminates(string) ==
    LET terminator == Terminator(quote.delimiter)
    IN IsSuffix(terminator, string)
Quoted(c) ==
    /\ Reads(c) /\ quote.inside /\ c # "\n"
    /\ Push(c) /\ Go /\ UNCHANGED <<states, counters>>
    /\ quote' =
        CASE quote.raw /\ ~quote.body /\ c = "(" -> [quote EXCEPT !.body = TRUE]
          [] quote.raw /\ ~quote.body /\ c # "(" ->
                [quote EXCEPT !.delimiter = Append(@, c)]
          [] quote.raw /\ quote.body /\ RawTerminates(Append(current_string, c)) -> NoQuote
          [] ~quote.raw /\ quote.escape -> [quote EXCEPT !.escape = FALSE]
          [] ~quote.raw /\ ~quote.escape /\ c = "\\" -> [quote EXCEPT !.escape = TRUE]
          [] ~quote.raw /\ ~quote.escape /\ c = quote.active ->
                [quote EXCEPT !.inside = FALSE, !.active = "none"]
          [] OTHER -> quote
\* A dot matches no line end, which flex echoes.
Newline ==
    /\ Reads("\n")
    /\ Go /\ UNCHANGED <<states, capture>>
OpenParenthesis ==
    /\ Plain("(") /\ Push("(") /\ Go
    /\ counters' = [counters EXCEPT !.local = @ + 1, !.global = @ + 1]
    /\ UNCHANGED <<states, quote>>
CloseParenthesis ==
    LET closed == [counters EXCEPT !.local = @ - 1, !.global = @ - 1] IN
    /\ Plain(")")
    /\ \/ /\ closed.global = 0 /\ current_string # <<>>
          /\ states' = Pop /\ EmitAndUnput
       \/ /\ closed.global = 0 /\ current_string = <<>>
          /\ states' = Pop /\ StartExpression /\ counters' = closed
          /\ Go /\ UNCHANGED <<current_string, quote>>
       \/ /\ closed.global # 0
          /\ Push(")") /\ counters' = closed /\ Go /\ UNCHANGED <<states, quote>>
Even(up, down) ==
    Cardinality({i \in DOMAIN current_string : current_string[i] = up})
    = Cardinality({i \in DOMAIN current_string : current_string[i] = down})
Comma ==
    LET divides ==
        /\ counters.local = 0 /\ counters.brace = 0 /\ counters.bracket = 0
        /\ Even("(", ")") /\ Even("{", "}") /\ Even("[", "]")
    IN
    /\ Plain(",")
    /\ \/ /\ current_string = <<>>
          /\ ClearExpressionBuffer /\ StartExpression /\ Return(",") /\ Consume
          /\ UNCHANGED <<original_input, more, states, status>>
       \/ /\ current_string # <<>> /\ divides
          /\ EmitAndUnput /\ UNCHANGED states
       \/ /\ current_string # <<>> /\ ~divides
          /\ Push(",") /\ Go /\ UNCHANGED <<states, counters, quote>>
Bracket ==
    \E c \in {"[", "]", "{"} :
        /\ Plain(c) /\ Push(c) /\ Go /\ UNCHANGED <<states, quote>>
        /\ counters' = IF c = "{" THEN [counters EXCEPT !.brace = @ + 1]
                       ELSE [counters EXCEPT !.bracket = IF c = "[" THEN @ + 1 ELSE @ - 1]
\* The brace that closes the last one ends the operand, and is not part of it.
CloseBrace ==
    /\ Plain("}")
    /\ \/ /\ counters.brace = 1
          /\ states' = Pop /\ EmitAndUnput
       \/ /\ counters.brace # 1
          /\ counters' = [counters EXCEPT !.brace = @ - 1]
          /\ Push("}") /\ Go /\ UNCHANGED <<states, quote>>
Question ==
    /\ Plain("?") /\ Push("?") /\ Go
    /\ counters' = [counters EXCEPT !.ternary = @ + 1] /\ UNCHANGED <<states, quote>>
Colon ==
    LET inner == counters.local > 0 \/ counters.brace > 0 \/ counters.bracket # 0 IN
    /\ Plain(":")
    /\ \/ /\ current_string = <<>>
          /\ ClearExpressionBuffer /\ StartExpression /\ Return(":") /\ Consume
          /\ UNCHANGED <<original_input, more, states, status>>
       \/ /\ current_string # <<>> /\ (counters.ternary > 0 \/ inner)
          /\ counters' = IF counters.ternary > 0 THEN [counters EXCEPT !.ternary = @ - 1]
                         ELSE counters
          /\ Push(":") /\ Go /\ UNCHANGED <<states, quote>>
       \/ /\ current_string # <<>> /\ counters.ternary = 0 /\ ~inner
          /\ states' = Pop /\ EmitAndUnput
Blank ==
    /\ Plain(" ") /\ StartExpression
    /\ Go /\ UNCHANGED <<states, current_string, counters, quote>>
BeginQuoted ==
    \E c \in Quote :
        /\ Plain(c) /\ Push(c) /\ Go /\ UNCHANGED <<states, counters>>
        /\ quote' = [NoQuote EXCEPT
                        !.inside = TRUE, !.active = c,
                        !.raw = c = "\"" /\ current_string # <<>>
                                /\ current_string[Len(current_string)] = "R"]
Other ==
    /\ \E c \in Letters
                 \ ({"\n", ",", ":", "?", " "} \cup Brackets \cup Quote) :
            Plain(c) /\ Push(c)
    /\ Go /\ UNCHANGED <<states, counters, quote>>

\* At the end an operand is emitted first.
EndOfInput ==
    /\ status = "running" /\ states # <<>> /\ rest = <<End>>
    /\ \/ /\ current_string # <<>>
          /\ StoreLexeme(expression_begin_offset, location.offset)
          /\ location' = [location EXCEPT !.last_token_offset = location.offset]
       \/ /\ current_string = <<>>
          /\ status' = "ended" /\ UNCHANGED <<location, capture, tokens>>
    /\ UNCHANGED <<original_input, more, rest, states>>

Next ==
    \/ \E c \in Typed \cup {End} : Type(c)
    \/ ClausePunctuation \/ ClauseSpace \/ ClauseWord \/ ClauseOther
    \/ Scope \/ \E c \in Letters : Quoted(c)
    \/ Newline \/ OpenParenthesis \/ CloseParenthesis \/ Comma \/ Bracket \/ CloseBrace
    \/ Question \/ Colon \/ Blank \/ BeginQuoted \/ Other \/ EndOfInput
Spec == Init /\ [][Next]_vars

-----------------------------------------------------------------------------
\* Whatever was taken back, the position is that of what flex reads next: the
\* rest of the text, the line and the column it is in, with a history that goes
\* back to the beginning.
Unread == IF rest # <<>> /\ Last(rest) = End THEN Front(rest) ELSE rest
LineEnds(offset) == {i \in 1 .. offset : original_input[i] = "\n"}
PositionAt(offset) ==
    [line |-> 1 + Cardinality(LineEnds(offset)),
     column |-> 1 + offset - Max(LineEnds(offset) \cup {0}),
     offset |-> offset]
LocationExact ==
    /\ Unread = SubSeq(original_input, location.offset + 1, Len(original_input))
    /\ Position(location) = PositionAt(location.offset)
    /\ location.history = [n \in 1 .. location.offset |-> PositionAt(n - 1)]

\* Tokens stand behind each other, and at the end all that is in none of them
\* is white, or a parenthesis that closes the list behind a comma or colon.
Spelling(token) == SubSeq(original_input, token.begin + 1, token.end)
Stopped == status # "running" \/ states = <<>>
Covered == UNION {tokens[n].begin + 1 .. tokens[n].end : n \in DOMAIN tokens}
TokensPartition ==
    /\ \A n \in DOMAIN tokens :
        /\ tokens[n].begin < tokens[n].end /\ tokens[n].end <= location.offset
        /\ n > 1 => tokens[n - 1].end <= tokens[n].begin
    /\ (Stopped /\ status # "aborted") =>
        \A i \in (1 .. location.offset) \ Covered :
            \/ original_input[i] \in White
            \/ /\ original_input[i] = ")"
               /\ \E divider \in 1 .. i - 1 :
                    /\ original_input[divider] \in {",", ":"}
                    /\ \A j \in divider + 1 .. i - 1 : original_input[j] \in White

\* A list in parentheses without braces and colons outside of literals, of
\* which the literals hold no brackets, is cut where splitTopLevelCommaSeparated
\* of OpenMPIR.cpp cuts it, though the lexer counts on its own.
Operands ==
    LET operands == SelectSeq(tokens, LAMBDA token : token.kind = "operand")
    IN [n \in DOMAIN operands |-> TrimWhitespace(Spelling(operands[n]))]
Simple(list) ==
    /\ ToSet(list) \cap {":", "{", "}", "\t"} = {}
    /\ \A i \in DOMAIN list : list[i] \in Brackets => i \in ToSet(Unquoted(list))
CutsAgree ==
    status = "running" /\ states = <<>> =>
        \A list \in {SubSeq(original_input, 2, location.offset - 1)} :
        \A parts \in {SplitTopLevelCommaSeparated(list)} \ {<<>>} :
            (Simple(list) /\ \A n \in DOMAIN parts : TrimWhitespace(parts[n]) # <<>>)
            => Operands = [n \in DOMAIN parts |-> TrimWhitespace(parts[n])]

\* Where a modifier was returned, only modifiers come before the colon, though
\* every word was looked at anew.
ModifiersLeadToColon ==
    \A n \in DOMAIN tokens : tokens[n].kind \in Word =>
        \E colon \in {Find(<<":">>, original_input, tokens[n].end + 1)} :
            /\ colon # 0
            /\ ToSet(SubSeq(original_input, tokens[n].end + 1, colon - 1))
                \subseteq Word \cup {",", " "}

\* The process is aborted only on an operand that begins, behind a comma or colon, with
\* "::", a tab or a closing bracket, for which
\* start_expression_at_current_token_if_needed keeps no offset.
AbortedUnanchored ==
    status = "aborted" =>
        /\ tokens # <<>> /\ tokens[Len(tokens)].kind \in {",", ":"}
        /\ \E begin \in {tokens[Len(tokens)].end + 1} :
           \E operand \in {TrimWhitespace(SubSeq(original_input, begin, Len(original_input)))} :
            \/ OccursAt(<<":", ":">>, operand, 1)
            \/ At(operand, 1) \in {"\t", "]", "}"}
=============================================================================
