------------------------------ MODULE Iterators ------------------------------
(***************************************************************************)
(* Iterator lists and declare mapper specifications.                       *)
(*                                                                         *)
(* Both are captured by the lexer as one text and taken apart afterwards:  *)
(* type name = begin : end : step, ... and name : type variable.  The      *)
(* scanners look for an assignment, a comma or a colon that nothing        *)
(* encloses; < and > enclose in types, and are operators in expressions.   *)
(* The place of each piece in the text is found again by searching for its *)
(* spelling.                                                               *)
(***************************************************************************)
EXTENDS Literals, Integers

\* IteratorDelimiterState and consumeIteratorDelimiter.
NoDelimiters == [depth |-> Flat, angles |-> 0, literal |-> Outside]
StructuralTopLevel(d) == d.depth = Flat
FullyTopLevel(d) == StructuralTopLevel(d) /\ d.angles = 0
BalancedDelimiters(d) == FullyTopLevel(d) /\ d.literal.quote = "none"
InLiteral(d) == d.literal.quote # "none"
Consume(d, t, i, angles) ==
    CASE InLiteral(d) \/ t[i] \in Quote -> [d EXCEPT !.literal = ConsumeQuoted(@, t, i)]
      [] ~InLiteral(d) /\ t[i] = "<" /\ angles /\ StructuralTopLevel(d) ->
            [d EXCEPT !.angles = @ + 1]
      [] ~InLiteral(d) /\ t[i] = ">" /\ angles /\ StructuralTopLevel(d) /\ d.angles > 0 ->
            [d EXCEPT !.angles = @ - 1]
      [] OTHER -> [d EXCEPT !.depth = Nest(Opens, Closes, @, t[i])]
Unmatched(d) == Negative(d.depth)
\* The scanners act on a character that is outside of literals.
Acts(d, t, i, set) == t[i] \in set /\ ~InLiteral(d)
\* A colon of "::", which only names a scope; from: where the scan began.
ScopeColon(t, i, from) == (i > from /\ t[i - 1] = ":") \/ At(t, i + 1) = ":"
Piece(t, from, to) == TrimWhitespace(SubSeq(t, from, to))
Positions(from, t) == [k \in 1 .. Len(t) - from + 1 |-> from + k - 1]

\* remainderBeginsIterator: "yes", "no" or "error".
RemainderBeginsIterator(t, begin) ==
    LET answer(d, i) ==
            IF Unmatched(d) THEN "error"
            ELSE IF ~FullyTopLevel(d) THEN "none"
            ELSE IF Acts(d, t, i, {"="})
            THEN IF Piece(t, begin, i - 1) = <<>> THEN "no" ELSE "yes"
            ELSE IF Acts(d, t, i, {","}) \/ (Acts(d, t, i, {":"}) /\ ~ScopeColon(t, i, begin))
            THEN "no" ELSE "none"
        step(s, i) ==
            LET d == Consume(s.d, t, i, TRUE)
            IN IF s.answer # "none" THEN s ELSE [d |-> d, answer |-> answer(d, i)]
        conclude(s) == IF s.answer # "none" THEN s.answer
                       ELSE IF BalancedDelimiters(s.d) THEN "no" ELSE "error"
    IN conclude(FoldLeft(step, [d |-> NoDelimiters, answer |-> "none"], Positions(begin, t)))

\* splitIteratorItems; no items when there is an error.
SplitIteratorItems(t) ==
    LET fresh == [d |-> NoDelimiters, begin |-> 1, assigned |-> FALSE, items |-> <<>>,
                  error |-> FALSE]
        read(s, d, i, item, remainder) ==
            IF s.error \/ Unmatched(d) THEN [s EXCEPT !.error = TRUE]
            ELSE IF Acts(d, t, i, {"="}) /\ FullyTopLevel(d)
            THEN [s EXCEPT !.d = d, !.assigned = TRUE]
            ELSE IF ~(Acts(d, t, i, {","}) /\ FullyTopLevel(d) /\ s.assigned)
                    \/ remainder = "no"
            THEN [s EXCEPT !.d = d]
            ELSE IF remainder = "error" \/ item = <<>> THEN [s EXCEPT !.error = TRUE]
            ELSE [fresh EXCEPT !.begin = i + 1, !.items = Append(s.items, item)]
        step(s, i) == read(s, Consume(s.d, t, i, ~s.assigned), i, Piece(t, s.begin, i - 1),
                           RemainderBeginsIterator(t, i + 1))
        conclude(s, last) ==
            IF s.error \/ ~BalancedDelimiters(s.d) \/ ~s.assigned \/ last = <<>> THEN <<>>
            ELSE Append(s.items, last)
        whole(s) == conclude(s, Piece(t, s.begin, Len(t)))
    IN whole(FoldLeft(step, fresh, Positions(1, t)))

\* findIteratorAssignment: 0 when there is none.
FindIteratorAssignment(item) ==
    LET step(s, i) ==
            LET d == Consume(s.d, item, i, TRUE) IN
            IF s.at # 0 \/ Unmatched(s.d) THEN s
            ELSE [d |-> d, at |-> IF Acts(d, item, i, {"="}) /\ FullyTopLevel(d) THEN i ELSE 0]
    IN FoldLeft(step, [d |-> NoDelimiters, at |-> 0], Positions(1, item)).at

\* splitIteratorRange: begin, end and perhaps step; none when there is an error.
SplitIteratorRange(t) ==
    LET fresh == [d |-> NoDelimiters, begin |-> 1, ternary |-> 0, fields |-> <<>>,
                  error |-> FALSE]
        top(d, i, set) == Acts(d, t, i, set) /\ StructuralTopLevel(d)
        read(s, d, i, field) ==
            IF s.error \/ Unmatched(d) THEN [s EXCEPT !.error = TRUE]
            ELSE IF top(d, i, {"?"}) THEN [s EXCEPT !.d = d, !.ternary = @ + 1]
            ELSE IF ~top(d, i, {":"}) \/ ScopeColon(t, i, 1) THEN [s EXCEPT !.d = d]
            ELSE IF s.ternary > 0 THEN [s EXCEPT !.d = d, !.ternary = @ - 1]
            ELSE IF field = <<>> THEN [s EXCEPT !.error = TRUE]
            ELSE [s EXCEPT !.d = d, !.fields = Append(@, field), !.begin = i + 1]
        step(s, i) == read(s, Consume(s.d, t, i, FALSE), i, Piece(t, s.begin, i - 1))
        conclude(s, fields) ==
            IF \/ s.error \/ ~BalancedDelimiters(s.d) \/ s.ternary # 0
               \/ fields[Len(fields)] = <<>> \/ Len(fields) \notin {2, 3}
            THEN <<>> ELSE fields
        whole(s) == conclude(s, Append(s.fields, Piece(t, s.begin, Len(t))))
    IN whole(FoldLeft(step, fresh, Positions(1, t)))

-----------------------------------------------------------------------------
\* A piece with the place it is given: text[from .. to - 1]; an empty one has
\* none.
Placed(spelling, from) ==
    IF spelling = <<>> THEN [spelling |-> <<>>, from |-> 0, to |-> 0]
    ELSE [spelling |-> spelling, from |-> from, to |-> from + Len(spelling)]
LastIdentifier(t) ==
    Max({i \in 0 .. Len(t) : i = 0 \/ t[i] \notin IdentifierChar}) + 1

NoIterator == [error |-> TRUE]
\* What is declared, found at a place of the text, and the range.
DeclarationOf(declaration, at, nameBegin) ==
    LET qualifier == Piece(declaration, 1, nameBegin - 1) IN
    [qualifier |-> Placed(qualifier, at + Find(qualifier, declaration, 1) - 1),
     variable |-> Placed(SubSeq(declaration, nameBegin, Len(declaration)),
                         at + nameBegin - 1)]
RangeOf(fields, range, at) ==
    LET place[n \in DOMAIN fields] ==
            Find(fields[n], range, IF n = 1 THEN 1 ELSE place[n - 1] + Len(fields[n - 1]))
        field(n) == IF n \in DOMAIN fields THEN Placed(fields[n], at + place[n] - 1)
                    ELSE Placed(<<>>, 0)
    IN [begin |-> field(1), end |-> field(2), step |-> field(3)]
\* One item, found at a place of the text.
IteratorOf(item, at) ==
    LET made(declaration, range, fields, nameBegin, assignment) ==
            IF \/ assignment = 0 \/ fields = <<>>
               \/ ~IsIdentifierSpelling(SubSeq(declaration, nameBegin, Len(declaration)))
            THEN NoIterator
            ELSE [error |-> FALSE]
                 @@ DeclarationOf(declaration, at + Find(declaration, item, 1) - 1, nameBegin)
                 @@ RangeOf(fields, range, at + Find(range, item, assignment + 1) - 1)
        parted(declaration, range, assignment) ==
            made(declaration, range, SplitIteratorRange(range), LastIdentifier(declaration),
                 assignment)
        assigned(assignment) ==
            parted(Piece(item, 1, assignment - 1), Piece(item, assignment + 1, Len(item)),
                   assignment)
    IN assigned(FindIteratorAssignment(item))
\* (a slip for the checks: each item is searched from the start of the text)
PlacesFromStart(t, items) == [n \in DOMAIN items |-> Find(items[n], t, 1)]
\* Each item is searched after the end of the one before.
PlacesOf(t, items) ==
    LET place[n \in DOMAIN items] ==
            Find(items[n], t, IF n = 1 THEN 1 ELSE place[n - 1] + Len(items[n - 1]))
    IN [n \in DOMAIN items |-> place[n]]
\* parseOpenMPIteratorDefinitions; no iterators when there is an error.
ParseOpenMPIteratorDefinitions(t) ==
    LET each(items, places) == [n \in DOMAIN items |-> IteratorOf(items[n], places[n])]
        sound(result) == IF \E n \in DOMAIN result : result[n].error THEN <<>> ELSE result
        all(items) == sound(each(items, PlacesOf(t, items)))
    IN all(SplitIteratorItems(t))

-----------------------------------------------------------------------------
\* findTopLevelMapperColon: 0 for none, -1 for an error.
FindTopLevelMapperColon(t) ==
    LET read(s, d, i) ==
            IF s.error THEN s
            ELSE [d |-> d, error |-> Unmatched(d), colons |->
                    IF Acts(d, t, i, {":"}) /\ ~ScopeColon(t, i, 1) /\ FullyTopLevel(d)
                    THEN Append(s.colons, i) ELSE s.colons]
        step(s, i) == read(s, Consume(s.d, t, i, TRUE), i)
        conclude(s) ==
            IF s.error \/ ~BalancedDelimiters(s.d) \/ Len(s.colons) > 1 THEN -1
            ELSE IF s.colons = <<>> THEN 0 ELSE s.colons[1]
    IN conclude(FoldLeft(step, [d |-> NoDelimiters, error |-> FALSE, colons |-> <<>>],
                         Positions(1, t)))

\* The type and the variable that a mapper declares, and where the variable
\* stands in the declaration; no type when there is an error.
FortranMapped(declaration) ==
    LET placed(separator, variable) ==
            [type |-> Piece(declaration, 1, separator - 1), variable |-> variable,
             at |-> Find(variable, declaration, separator + 2), spaced |-> TRUE]
        split(separator) ==
            IF separator = 0 \/ Find(<<":", ":">>, declaration, separator + 2) # 0
            THEN [type |-> <<>>, variable |-> <<>>, at |-> 0, spaced |-> TRUE]
            ELSE placed(separator, Piece(declaration, separator + 2, Len(declaration)))
    IN split(Find(<<":", ":">>, declaration, 1))
Mapped(declaration) ==
    LET split(name) ==
            [type |-> Piece(declaration, 1, name - 1),
             variable |-> SubSeq(declaration, name, Len(declaration)), at |-> name,
             spaced |-> At(declaration, name - 1) \in Space]
    IN split(LastIdentifier(declaration))
\* OpenMPDeclareMapperDirective::setSpecification, of a directive that has none.
\* "default" is one letter here.
NoMapper == [error |-> TRUE]
SetSpecification(t, language) ==
    LET begin == Min({i \in DOMAIN t : t[i] \notin Space} \cup {Len(t) + 1})
        made(text, colon, identifier, declaration, mapped, at) ==
            IF \/ text = <<>> \/ colon < 0 \/ declaration = <<>>
               \/ colon > 0 /\ ~IsIdentifierSpelling(identifier)
               \/ mapped.type = <<>> \/ ~IsIdentifierSpelling(mapped.variable)
            THEN NoMapper
            ELSE [error |-> FALSE, explicit |-> colon > 0, spaced |-> mapped.spaced,
                  identifier |->
                    IF colon = 0 \/ identifier = <<"default">> THEN Placed(<<>>, 0)
                    ELSE Placed(identifier, begin + Find(identifier, text, 1) - 1),
                  type |-> Placed(mapped.type, at + Find(mapped.type, declaration, 1) - 1),
                  variable |-> Placed(mapped.variable, at + mapped.at - 1)]
        named(text, colon, identifier, declaration) ==
            made(text, colon, identifier, declaration,
                 IF language = "fortran" THEN FortranMapped(declaration)
                 ELSE Mapped(declaration),
                 begin + Find(declaration, text, colon + 1) - 1)
        parted(text, colon) ==
            named(text, colon, Piece(text, 1, colon - 1), Piece(text, colon + 1, Len(text)))
        whole(text) == parted(text, FindTopLevelMapperColon(text))
    IN whole(TrimWhitespace(t))
=============================================================================
