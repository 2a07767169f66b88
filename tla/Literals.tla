------------------------------ MODULE Literals ------------------------------
(***************************************************************************)
(* Quoted literals and brackets in the text of expressions.                *)
(*                                                                         *)
(* Expressions are kept as text, and every scanner of OpenMPIR.cpp has to  *)
(* step over what is quoted.  Three of them were written separately:       *)
(* parseCxxQuotedLiteralAt for lists and names, skipQuotedLiteral for      *)
(* array sections, and consumeQuoted for iterators and mappers, which      *)
(* reads one character at a time.  They are modelled here, on the          *)
(* characters a scanner can tell apart.  Positions count from 1.           *)
(***************************************************************************)
EXTENDS Naturals, Sequences, SequencesExt, FiniteSetsExt

CONSTANTS
    Characters,         \* the characters texts are made of
    MaxDelimiter        \* longest delimiter of a raw string (16 in the code)

DelimiterAssumption == MaxDelimiter \in Nat

Space == {" ", "\n"}
Quote == {"'", "\""}
Punctuation ==
    {"(", ")", "[", "]", "{", "}", "<", ">", ",", ":", "=", "?", ".", "-", "%", "/", "*",
     "+", "\\"}
\* Letters, digits and the underscore.
IdentifierChar == Characters \ (Space \cup Quote \cup Punctuation)
\* isOpenMPIdentifierSpelling: 8 stands for the digits.
IsIdentifierSpelling(text) ==
    /\ text # <<>> /\ text[1] # "8"
    /\ \A i \in DOMAIN text : text[i] \in IdentifierChar
EncodingPrefix == {"u", "U", "L"}

Least(S) == IF S = {} THEN 0 ELSE Min(S)
At(text, i) == IF i \in DOMAIN text THEN text[i] ELSE "end"
OccursAt(part, text, i) ==
    /\ i + Len(part) - 1 <= Len(text)
    /\ SubSeq(text, i, i + Len(part) - 1) = part
\* std::string::find, 0 for npos.
Find(part, text, from) == Least({i \in from .. Len(text) : OccursAt(part, text, i)})

TrimWhitespace(text) ==
    LET black == {i \in DOMAIN text : text[i] \notin Space} IN
    IF black = {} THEN <<>> ELSE SubSeq(text, Min(black), Max(black))

\* Brackets: the kinds are counted separately.
Opens == [c \in {"(", "[", "{"} |->
            CASE c = "(" -> "paren" [] c = "[" -> "bracket" [] c = "{" -> "brace"]
Closes == [c \in {")", "]", "}"} |->
            CASE c = ")" -> "paren" [] c = "]" -> "bracket" [] c = "}" -> "brace"]
Flat == [paren |-> 0, bracket |-> 0, brace |-> 0]
Nest(up, down, depth, character) ==
    CASE character \in DOMAIN up -> [depth EXCEPT ![up[character]] = @ + 1]
      [] character \in DOMAIN down -> [depth EXCEPT ![down[character]] = @ - 1]
      [] OTHER -> depth
Negative(depth) == \E kind \in DOMAIN depth : depth[kind] < 0

-----------------------------------------------------------------------------
\* The positions of a body whose character a backslash escapes.
Escaped(text, quote) ==
    LET escaped[j \in quote .. Len(text)] ==
            j > quote + 1 /\ text[j - 1] = "\\" /\ ~escaped[j - 1]
    IN {j \in quote + 1 .. Len(text) : escaped[j]}
ClosingQuote(text, quote) ==
    Least({j \in quote + 1 .. Len(text) : text[j] = text[quote]} \ Escaped(text, quote))

\* A raw string of which the quote stands at the given position.
RawDelimiter(text, quote) ==
    LET open == Find(<<"(">>, text, quote + 1) IN
    IF open = 0 THEN <<"(">> ELSE SubSeq(text, quote + 1, open - 1)
DelimiterLegal(delimiter) ==
    /\ Len(delimiter) <= MaxDelimiter
    /\ \A i \in DOMAIN delimiter : delimiter[i] \notin Space \cup {"(", ")", "\\"}
Terminator(delimiter) == <<")">> \o delimiter \o <<"\"">>
RawEnd(text, quote) ==
    LET delimiter == RawDelimiter(text, quote)
        close == Find(Terminator(delimiter), text, quote + Len(delimiter) + 2)
    IN IF close = 0 THEN 0 ELSE close + Len(delimiter) + 2

NoLiteral == [content |-> 0, close |-> 0, end |-> 0, raw |-> FALSE]
\* The literal that begins at a position: its content is content .. close - 1
\* and the text goes on at end.  An identifier does not end in a literal.
ParseCxxQuotedLiteralAt(text, begin) ==
    LET plain(quote, closing) ==
            IF closing = 0 THEN NoLiteral
            ELSE [content |-> quote + 1, close |-> closing, end |-> closing + 1, raw |-> FALSE]
        rawString(quote, delimiter, end) ==
            IF ~DelimiterLegal(delimiter) \/ end = 0 THEN NoLiteral
            ELSE [content |-> quote + Len(delimiter) + 2, raw |-> TRUE,
                  close |-> end - Len(delimiter) - 2, end |-> end]
        from(quote, raw) ==
            IF \/ begin > Len(text) \/ At(text, begin - 1) \in IdentifierChar
               \/ At(text, quote) \notin (IF raw THEN {"\""} ELSE Quote)
            THEN NoLiteral
            ELSE IF raw
            THEN rawString(quote, RawDelimiter(text, quote), RawEnd(text, quote))
            ELSE plain(quote, ClosingQuote(text, quote))
        behind(i) == IF At(text, i) = "R" THEN from(i + 1, TRUE) ELSE from(i, FALSE)
    IN behind(begin + (CASE OccursAt(<<"u", "8">>, text, begin) -> 2
                         [] ~OccursAt(<<"u", "8">>, text, begin)
                            /\ At(text, begin) \in EncodingPrefix -> 1
                         [] OTHER -> 0))

\* A quote that is doubled does not close a Fortran literal.
ParseFortranQuotedLiteralAt(text, begin) ==
    LET doubled[j \in begin .. Len(text)] ==    \* the second of two
            j > begin + 1 /\ text[j] = text[begin] /\ text[j - 1] = text[begin]
                /\ ~doubled[j - 1]
        closing == Least({j \in begin + 1 .. Len(text) :
                            /\ text[j] = text[begin] /\ ~doubled[j]
                            /\ At(text, j + 1) # text[begin]})
    IN IF At(text, begin) \notin Quote \/ closing = 0
       THEN NoLiteral
       ELSE [content |-> begin + 1, close |-> closing, end |-> closing + 1, raw |-> FALSE]

-----------------------------------------------------------------------------
\* skipQuotedLiteral: where the text goes on, 0 when nothing is quoted here.
\* What is not closed extends to the end of the text.
RawPrefixLength(text, i) ==
    CASE At(text, i - 1) \in IdentifierChar -> 0
      [] At(text, i - 1) \notin IdentifierChar /\ OccursAt(<<"R", "\"">>, text, i) -> 1
      [] At(text, i - 1) \notin IdentifierChar /\ At(text, i) \in EncodingPrefix
            /\ OccursAt(<<"R", "\"">>, text, i + 1) -> 2
      [] At(text, i - 1) \notin IdentifierChar
            /\ OccursAt(<<"u", "8", "R", "\"">>, text, i) -> 3
      [] OTHER -> 0
SkipRawStringLiteral(text, i) ==
    LET prefix == RawPrefixLength(text, i) IN
    CASE prefix = 0 \/ ~DelimiterLegal(RawDelimiter(text, i + prefix)) -> 0
      [] prefix # 0 /\ DelimiterLegal(RawDelimiter(text, i + prefix)) ->
            IF RawEnd(text, i + prefix) = 0 THEN Len(text) + 1
            ELSE RawEnd(text, i + prefix)
SkipQuotedLiteral(text, i) ==
    IF SkipRawStringLiteral(text, i) # 0 THEN SkipRawStringLiteral(text, i)
    ELSE IF At(text, i) \notin Quote THEN 0
    ELSE IF ClosingQuote(text, i) = 0 THEN Len(text) + 1
    ELSE ClosingQuote(text, i) + 1

-----------------------------------------------------------------------------
\* consumeQuoted: the literal the reader of iterators is in.
Outside ==
    [quote |-> "none", escaped |-> FALSE, raw |-> FALSE, body |-> FALSE,
     delimiter |-> <<>>]
\* (a slip for the checks: the first quote closes a raw string)
ConsumeQuotedAnyDelimiter(state, text, i) ==
    LET character == text[i] IN
    IF state.quote = "none"
    THEN IF character \in Quote
         THEN [Outside EXCEPT !.quote = character,
                               !.raw = character = "\"" /\ At(text, i - 1) = "R"]
         ELSE state
    ELSE IF character = state.quote /\ ~state.escaped THEN Outside
    ELSE [state EXCEPT !.escaped = character = "\\" /\ ~@ /\ ~state.raw]
ConsumeQuoted(state, text, i) ==
    LET character == text[i]
        terminator == Terminator(state.delimiter)
    IN CASE state.quote = "none" ->
                IF character \in Quote
                THEN [Outside EXCEPT !.quote = character,
                                      !.raw = character = "\"" /\ At(text, i - 1) = "R"]
                ELSE state
         [] state.raw /\ ~state.body ->
                IF character = "(" THEN [state EXCEPT !.body = TRUE]
                ELSE [state EXCEPT !.delimiter = Append(@, character)]
         [] state.raw /\ state.body ->
                IF i >= Len(terminator) /\ OccursAt(terminator, text, i + 1 - Len(terminator))
                THEN Outside
                ELSE state
         [] state.quote # "none" /\ ~state.raw ->
                IF character = state.quote /\ ~state.escaped THEN Outside
                ELSE [state EXCEPT !.escaped = character = "\\" /\ ~@]
=============================================================================
