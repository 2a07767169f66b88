---------------------------- MODULE LiteralTexts ----------------------------
(***************************************************************************)
(* What the scanners of literals owe each other, on every short text.      *)
(***************************************************************************)
EXTENDS Literals

CONSTANTS
    Starts,             \* what the tried texts begin with
    MaxMore             \* bound on the number of further characters
LengthAssumption == MaxMore \in Nat

\* Every text with one of the beginnings is tried, up to the bound.
VARIABLES text, start
vars == <<text, start>>
Init == text \in Starts /\ start = Len(text)
Type(character) ==
    /\ Len(text) < start + MaxMore
    /\ text' = Append(text, character) /\ UNCHANGED start
Next == \E character \in Characters : Type(character)
Spec == Init /\ [][Next]_vars

\* What follows a literal has no part in it: a literal that the parser has
\* recognised lies in the text, and stays the same when the text goes on.
LiteralsAreStable ==
    \A i \in 1 .. Len(text) - 1 :
        LET literal == ParseCxxQuotedLiteralAt(Front(text), i) IN
        literal # NoLiteral =>
            /\ i < literal.content /\ literal.content <= literal.close
            /\ literal.close < literal.end /\ literal.end <= Len(text)
            /\ ParseCxxQuotedLiteralAt(text, i) = literal

\* The three scanners agree: a literal that the parser recognises is stepped
\* over to the same place by skipQuotedLiteral, begun at its first character
\* or, when the scanner has already read an encoding prefix, at its quote, and
\* consumeQuoted is inside it exactly from its quote to its closing quote.
ConsumedFrom(i, end) ==
    LET state[j \in i - 1 .. end] ==
            IF j = i - 1 THEN Outside ELSE ConsumeQuoted(state[j - 1], text, j)
    IN state
QuoteOf(i) == Min({j \in i .. Len(text) : text[j] \in Quote})
ScannersAgree ==
    \A i \in DOMAIN text :
        LET literal == ParseCxxQuotedLiteralAt(text, i) IN
        literal # NoLiteral =>
            /\ SkipQuotedLiteral(text, IF literal.raw THEN i ELSE QuoteOf(i)) = literal.end
            /\ \A j \in i .. literal.end - 1 :
                (ConsumedFrom(i, literal.end - 1)[j].quote # "none")
                    = (j \in QuoteOf(i) .. literal.end - 2)
=============================================================================
