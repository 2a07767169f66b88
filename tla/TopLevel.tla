------------------------------ MODULE TopLevel ------------------------------
(***************************************************************************)
(* Commas and dist_data suffixes at the top level of a text.               *)
(*                                                                         *)
(* splitTopLevelCommaSeparated cuts a list at the commas that no bracket   *)
(* encloses; splitMapExpressionDistDataSuffix finds, from the end of a MAP *)
(* item, the parenthesised arguments of dist_data and what they apply to.  *)
(* Both count the three kinds of brackets separately and step over what    *)
(* is quoted, one forwards and one backwards.                              *)
(***************************************************************************)
EXTENDS Literals

\* The positions the scanners read, in order: what is not in a literal.
Unquoted(t) ==
    LET from[i \in 1 .. Len(t) + 1] ==
            IF i = Len(t) + 1 THEN <<>>
            ELSE LET literal == ParseCxxQuotedLiteralAt(t, i) IN
                 IF literal = NoLiteral THEN <<i>> \o from[i + 1] ELSE from[literal.end]
    IN from[1]
\* No quote is left over, and every bracket has its partner.
Balanced(t) ==
    LET step(depth, i) ==
            IF t[i] \in Quote \/ Negative(depth) THEN [depth EXCEPT !.paren = -1]
            ELSE Nest(Opens, Closes, depth, t[i])
    IN FoldLeft(step, Flat, Unquoted(t)) = Flat
\* (a slip for the checks: a comma in brackets divides)
TopLevelCommasInBrackets(t) ==
    LET at(s, depth, i) ==
            [depth |-> depth,
             commas |-> IF t[i] = "," /\ depth.paren = 0 THEN s.commas \cup {i} ELSE s.commas]
        step(s, i) == at(s, Nest(Opens, Closes, s.depth, t[i]), i)
    IN FoldLeft(step, [depth |-> Flat, commas |-> {}], Unquoted(t)).commas
TopLevelCommas(t) ==
    LET at(s, depth, i) ==
            [depth |-> depth,
             commas |-> IF t[i] = "," /\ depth = Flat THEN s.commas \cup {i} ELSE s.commas]
        step(s, i) == at(s, Nest(Opens, Closes, s.depth, t[i]), i)
    IN FoldLeft(step, [depth |-> Flat, commas |-> {}], Unquoted(t)).commas
CutAt(t, cuts) ==
    LET ends == SelectSeq([i \in 1 .. Len(t) + 1 |-> i],
                          LAMBDA i : i \in cuts \/ i = Len(t) + 1)
    IN [n \in DOMAIN ends |->
            SubSeq(t, IF n = 1 THEN 1 ELSE ends[n - 1] + 1, ends[n] - 1)]
\* The parts, none when the text is not balanced.
SplitTopLevelCommaSeparated(t) ==
    IF Balanced(t) THEN CutAt(t, TopLevelCommas(t)) ELSE <<>>

-----------------------------------------------------------------------------
HasIncompleteTrailingOperator(t) ==
    LET last == t[Len(t)] IN
    \/ last \in {"+", "-"} /\ At(t, Len(t) - 1) # last
    \/ last \in {".", "*", "/", "%", "=", "<", ">", "?", ":"}
IsValidDistDataBaseExpression(t) ==
    LET trimmed == TrimWhitespace(t) IN
    /\ trimmed # <<>> /\ Balanced(trimmed)
    /\ trimmed[Len(trimmed)] \notin {",", "(", "[", "{"}
    /\ ~HasIncompleteTrailingOperator(trimmed)

\* The parenthesis that the last one of the text closes: the first, from the
\* end, with no bracket open; 0 when one is closed before it was opened.
OpenParen(t) ==
    LET at(depth, i) ==
            [depth |-> depth, open |-> IF t[i] = "(" /\ depth = Flat THEN i ELSE 0]
        step(s, i) == IF s.open # 0 \/ Negative(s.depth) THEN s
                      ELSE at(Nest(Closes, Opens, s.depth, t[i]), i)
    IN FoldLeft(step, [depth |-> Flat, open |-> 0], Reverse(Unquoted(t))).open
\* The last identifier of a text, for which dist_data is one letter here.
LastToken(t) ==
    LET begin == Max({i \in 0 .. Len(t) : i = 0 \/ t[i] \notin IdentifierChar}) + 1
    IN [begin |-> begin, name |-> SubSeq(t, begin, Len(t))]

NoSuffix == [base |-> <<>>, arguments |-> <<>>]
\* The suffix opens at a parenthesis, behind a prefix that ends in a token.
SuffixAt(trimmed, open, prefix, token) ==
    LET base == TrimWhitespace(SubSeq(prefix, 1, token.begin - 1))
    IN IF \/ At(trimmed, Len(trimmed)) # ")" \/ open = 0
          \/ token.name # <<"dist_data">> \/ At(prefix, token.begin - 1) \in {".", ">", ":"}
          \/ ~IsValidDistDataBaseExpression(base)
       THEN NoSuffix
       ELSE [base |-> base,
             arguments |-> TrimWhitespace(SubSeq(trimmed, open + 1, Len(trimmed) - 1))]
SplitMapExpressionDistDataSuffix(t) ==
    LET behind(trimmed, open, prefix) == SuffixAt(trimmed, open, prefix, LastToken(prefix))
        opening(trimmed, open) ==
            behind(trimmed, open, TrimWhitespace(SubSeq(trimmed, 1, open - 1)))
        within(trimmed) == opening(trimmed, OpenParen(trimmed))
    IN within(TrimWhitespace(t))
=============================================================================
