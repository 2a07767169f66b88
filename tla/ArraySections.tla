---------------------------- MODULE ArraySections ----------------------------
(***************************************************************************)
(* Is a list item an array section or an expression?                       *)
(*                                                                         *)
(* Items of DEPEND and AFFINITY are kept as text with a parse mode that    *)
(* tells the host how to read them; isArraySectionDesignator decides it in *)
(* one pass over the characters, counting brackets and question marks.     *)
(* The reference is a grammar: the items are generated together with the   *)
(* answer.                                                                 *)
(***************************************************************************)
EXTENDS Literals

CONSTANTS MaxNesting        \* of the generated subscripts
NestingAssumption == MaxNesting \in Nat

\* skipComment: where the text goes on, 0 when no comment begins here.
SkipComment(text, i) ==
    CASE OccursAt(<<"/", "/">>, text, i) ->
            IF Find(<<"\n">>, text, i + 2) = 0 THEN Len(text) + 1
            ELSE Find(<<"\n">>, text, i + 2)
      [] OccursAt(<<"/", "*">>, text, i) ->
            IF Find(<<"*", "/">>, text, i + 2) = 0 THEN Len(text) + 1
            ELSE Find(<<"*", "/">>, text, i + 2) + 2
      [] OTHER -> 0
Skipped(text, i) ==
    IF SkipQuotedLiteral(text, i) # 0 THEN SkipQuotedLiteral(text, i)
    ELSE SkipComment(text, i)

Fresh == [at |-> 1, brackets |-> 0, parens |-> 0, questions |-> 0, colon |-> FALSE,
          square |-> FALSE, no |-> FALSE]
\* In a subscript; parentheses hold subscripts as long as no bracket was seen.
InSubscript(s) == s.brackets > 0 \/ (~s.square /\ s.parens > 0)
Outer(text, s, i) ==
    CASE text[i] \in Space \cup IdentifierChar \cup {"."} -> s
      [] OccursAt(<<":", ":">>, text, i) \/ OccursAt(<<"-", ">">>, text, i) ->
            [s EXCEPT !.at = i + 2]
      [] text[i] = "%" /\ ~s.square -> s
      [] OTHER -> [s EXCEPT !.no = TRUE]
\* (a slip for the checks: the colon of a conditional is one of a section)
SubscriptSlip(text, s, i) ==
    CASE OccursAt(<<":", ":">>, text, i) -> [s EXCEPT !.at = i + 2]
      [] text[i] = ":" /\ At(text, i + 1) # ":" -> [s EXCEPT !.colon = TRUE]
      [] OTHER -> s
Subscript(text, s, i) ==
    CASE text[i] = "?" -> [s EXCEPT !.questions = @ + 1]
      [] OccursAt(<<":", ":">>, text, i) -> [s EXCEPT !.at = i + 2]
      [] text[i] = ":" /\ At(text, i + 1) # ":" ->
            IF s.questions > 0 THEN [s EXCEPT !.questions = @ - 1]
            ELSE [s EXCEPT !.colon = TRUE]
      [] OTHER -> s
Read(text, s, i) ==
    CASE text[i] = "[" -> [s EXCEPT !.square = TRUE, !.brackets = @ + 1]
      [] text[i] = "]" -> IF s.brackets = 0 THEN [s EXCEPT !.no = TRUE]
                          ELSE [s EXCEPT !.brackets = @ - 1]
      [] text[i] = "(" -> [s EXCEPT !.parens = @ + 1]
      [] text[i] = ")" -> IF s.parens = 0 THEN [s EXCEPT !.no = TRUE]
                          ELSE [s EXCEPT !.parens = @ - 1]
      [] OTHER -> IF InSubscript(s) THEN Subscript(text, s, i) ELSE Outer(text, s, i)

IsArraySectionDesignator(text) ==
    LET step(s, i) ==
            IF s.no \/ i < s.at THEN s
            ELSE IF Skipped(text, i) # 0 THEN [s EXCEPT !.at = Skipped(text, i)]
            ELSE Read(text, s, i)
        end == FoldLeft(step, Fresh, [i \in DOMAIN text |-> i])
    IN /\ ~end.no /\ end.colon
       /\ end.brackets = 0 /\ end.parens = 0 /\ end.questions = 0

ResolveClauseExpressionParseMode(clause, mode, text) ==
    IF mode # "variable_list" \/ clause \notin {"depend", "affinity"} THEN mode
    ELSE IF IsArraySectionDesignator(text) THEN "array_section" ELSE "expression"

-----------------------------------------------------------------------------
\* The items.  A subscript grows from the inside out; the item is a name with
\* one or two subscripts, in the brackets of C or the parentheses of Fortran.
VARIABLES
    subscript,      \* an expression, or "a:b" when sectioned
    depth,          \* of its nesting
    item,           \* the text so far
    sectioned       \* an outer subscript of the item is a section
vars == <<subscript, depth, item, sectioned>>

Name == <<"a">>
Literal == {<<"\"", ":", "[", "\"">>, <<"'", "]", "'">>}
Init == /\ subscript \in {Name} \cup Literal /\ depth = 0
        /\ item = Name /\ sectioned = FALSE

Wrapped(t) == {
    <<"(">> \o t \o <<")">>,                            \* ( t )
    <<"a", "[">> \o t \o <<"]">>,                       \* a[ t ]
    <<"a", ":", ":", "a", "(">> \o t \o <<")">>,        \* a::a( t )
    <<"a", "?">> \o t \o <<":", "a">>,                  \* a ? t : a
    t \o <<"?", "a", ":", "a">>,                        \* t ? a : a
    <<"/", "*", "]", "*", "/">> \o t}                   \* a comment
Enclose ==
    /\ depth < MaxNesting
    /\ subscript' \in Wrapped(subscript) /\ depth' = depth + 1
    /\ UNCHANGED <<item, sectioned>>
Sections(t) == {t \o <<":", "a">>, <<":">> \o t, t \o <<":">>, t \o <<":", "a", ":", "a">>}
\* C brackets and then member access; only C items mix the two brackets.
Brackets == {<<<<"[">>, <<"]">>>>, <<<<".", "a", "[">>, <<"]">>>>,
             <<<<"-", ">", "a", "[">>, <<"]">>>>, <<<<"(">>, <<")">>>>,
             <<<<"%", "a", "(">>, <<")">>>>}
Fortran(b) == b[2] = <<")">>
SquareIn(t) == \E i \in DOMAIN t : t[i] = "["
Close(inner, section) ==
    \E b \in Brackets :
        /\ Fortran(b) => ~SquareIn(item) /\ ~SquareIn(inner)
        /\ ~Fortran(b) => At(item, Len(item)) # ")"
        /\ item' = item \o b[1] \o inner \o b[2]
        /\ sectioned' = (sectioned \/ section)
        /\ subscript' = Name /\ depth' = MaxNesting
CloseIndex == Len(item) < 6 /\ Close(subscript, FALSE)
CloseSection == Len(item) < 6 /\ \E inner \in Sections(subscript) : Close(inner, TRUE)
Next == Enclose \/ CloseIndex \/ CloseSection
Spec == Init /\ [][Next]_vars

\* The classification is the grammar's: an item is an array section exactly
\* when one of its own subscripts has a colon that is not a conditional's, a
\* qualified name's, or in a literal or comment.
SectionsRecognised ==
    \A clause \in {"depend", "affinity"} :
        ResolveClauseExpressionParseMode(clause, "variable_list", item) =
            IF sectioned THEN "array_section" ELSE "expression"
=============================================================================
