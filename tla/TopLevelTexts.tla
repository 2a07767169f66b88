--------------------------- MODULE TopLevelTexts ---------------------------
(***************************************************************************)
(* What the scanners of TopLevel promise, on every short text.             *)
(***************************************************************************)
EXTENDS TopLevel, LiteralTexts

Joined(parts) ==
    FlattenSeq([n \in DOMAIN parts |-> IF n = 1 THEN parts[n] ELSE <<",">> \o parts[n]])

\* A list is cut without loss and once for all: the parts, with the commas
\* between them, are the text again, and none of them would be cut further or
\* refused on its own.
SplitIsExact ==
    \A parts \in {SplitTopLevelCommaSeparated(text)} \ {<<>>} :
        /\ Joined(parts) = text
        /\ \A n \in DOMAIN parts : SplitTopLevelCommaSeparated(parts[n]) = <<parts[n]>>

\* The texts in which brackets nest: what was opened last is closed first.
Broken == <<"broken">>
Stack(open, character) ==
    CASE open = Broken \/ character \in Quote -> Broken
      [] open # Broken /\ character \in DOMAIN Opens -> <<Opens[character]>> \o open
      [] open # Broken /\ character \in DOMAIN Closes ->
            IF open # <<>> /\ Head(open) = Closes[character] THEN Tail(open) ELSE Broken
      [] OTHER -> open
Nests(t) ==
    LET step(open, i) == Stack(open, t[i]) IN FoldLeft(step, <<>>, Unquoted(t)) = <<>>
\* Counting the kinds separately loses no text in which brackets nest, and a
\* comma divides it exactly when what stands on either side of it nests.
NestedTextsSplit ==
    Nests(text) =>
        /\ Balanced(text)
        /\ TopLevelCommas(text) =
            {i \in DOMAIN text :
                /\ text[i] = "," /\ i \in ToSet(Unquoted(text))
                /\ Nests(SubSeq(text, 1, i - 1)) /\ Nests(SubSeq(text, i + 1, Len(text)))}

\* The backward scan agrees with the forward one: base, dist_data, arguments
\* are the text but for spaces; the base is balanced; the arguments have as
\* many closing as opening brackets of each kind, and nest when the text does.
\* (They need not be balanced: dist_data([)(]) is cut, and refused later.)
Bare(t) == SelectSeq(t, LAMBDA character : character \notin Space)
IsEven(t) ==
    LET step(depth, i) == Nest(Opens, Closes, depth, t[i])
    IN FoldLeft(step, Flat, Unquoted(t)) = Flat
HasLooseQuote(t) == \E i \in ToSet(Unquoted(t)) : t[i] \in Quote
SuffixIsExact ==
    \A suffix \in {SplitMapExpressionDistDataSuffix(text)} \ {NoSuffix} :
        /\ Bare(suffix.base) \o <<"dist_data", "(">> \o Bare(suffix.arguments) \o <<")">>
            = Bare(text)
        /\ Balanced(suffix.base)
        /\ HasLooseQuote(suffix.arguments) \/ IsEven(suffix.arguments)
        /\ Nests(text) => Nests(suffix.base) /\ Nests(suffix.arguments)
=============================================================================
