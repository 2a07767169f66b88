------------------------------ MODULE Fragments ------------------------------
(***************************************************************************)
(* Host fragments: pieces of the source text with the place they stand at. *)
(*                                                                         *)
(* Expressions, names and types of the host language are handed to the     *)
(* host as fragments.  The lexer knows the range of the lexeme a fragment  *)
(* was read as; the range of a piece of it, after spaces are trimmed or a  *)
(* list is split, is found by walking over the characters in between.      *)
(***************************************************************************)
EXTENDS Literals

\* (a slip for the checks: the column goes on over a line end)
AdvanceSourcePositionSlip(position, text, begin, end) ==
    FoldLeft(LAMBDA p, i :
                [offset |-> p.offset + 1, column |-> p.column + 1,
                 line |-> p.line + IF text[i] = "\n" THEN 1 ELSE 0],
             position, [k \in 1 .. end - begin |-> begin + k - 1])
AdvanceSourcePosition(position, text, begin, end) ==
    FoldLeft(LAMBDA p, i :
                IF text[i] = "\n"
                THEN [offset |-> p.offset + 1, line |-> p.line + 1, column |-> 1]
                ELSE [p EXCEPT !.offset = @ + 1, !.column = @ + 1],
             position, [k \in 1 .. end - begin |-> begin + k - 1])
\* The range of text[begin .. end - 1], given where the text begins.
SubRange(origin, text, begin, end) ==
    LET from == AdvanceSourcePosition(origin, text, 1, begin)
    IN [begin |-> from, end |-> AdvanceSourcePosition(from, text, begin, end)]

\* A fragment that is trimmed to nothing stands at the end of its lexeme.
TrimHostFragment(fragment) ==
    LET black == {i \in DOMAIN fragment.spelling : fragment.spelling[i] \notin Space}
        begin == Min(black \cup {Len(fragment.spelling) + 1})
        end == Max(black \cup {0}) + 1
    IN [fragment EXCEPT
            !.spelling = TrimWhitespace(@),
            !.range = SubRange(@.begin, fragment.spelling, begin,
                               IF black = {} THEN begin ELSE end)]

Role == {"variable", "locator", "verbatim", "expression", "condition", "type",
         "declarator", "initializer"}
DefaultMode(role) ==
    CASE role = "variable" -> "variable_list"
      [] role = "locator" -> "array_section"
      [] role = "verbatim" -> "verbatim"
      [] OTHER -> "expression"
\* Only expressions keep their spaces, context names excepted.
MakeHostFragment(lexeme, range, role, mode) ==
    LET fragment == [spelling |-> lexeme, range |-> range, role |-> role,
                     mode |-> IF mode = "none" THEN DefaultMode(role) ELSE mode]
    IN IF role # "expression" \/ fragment.mode = "context_name"
       THEN TrimHostFragment(fragment)
       ELSE fragment

\* assignSubfragmentRange: the range of a piece found at a place in the lexeme.
AssignSubfragmentRange(piece, lexeme, range, begin, end) ==
    IF begin > end \/ end > Len(lexeme) + 1 THEN piece
    ELSE [piece EXCEPT !.range = SubRange(range.begin, lexeme, begin, end)]
\* setFragmentSourceSubrange: likewise, when the piece does occur there.
SetFragmentSourceSubrange(piece, lexeme, range, begin) ==
    IF begin > Len(lexeme) + 1 \/ ~OccursAt(piece.spelling, lexeme, begin) THEN piece
    ELSE [piece EXCEPT !.range =
            SubRange(range.begin, lexeme, begin, begin + Len(piece.spelling))]
=============================================================================
