--------------------------- MODULE FragmentTexts ---------------------------
(***************************************************************************)
(* Fragments of every short source file are located where they stand.      *)
(***************************************************************************)
EXTENDS Fragments, FiniteSets

\* A source file is typed, character by character.
CONSTANTS MaxLength
LengthAssumption == MaxLength \in Nat
VARIABLE source
Init == source = <<>>
Type(character) == Len(source) < MaxLength /\ source' = Append(source, character)
Next == \E character \in Characters : Type(character)
Spec == Init /\ [][Next]_source

\* The place of a character, without walking: lines are counted and the last
\* line end is found.
PositionOf(i) ==
    LET ends == {j \in 1 .. i - 1 : source[j] = "\n"}
    IN [offset |-> i - 1, line |-> Cardinality(ends) + 1, column |-> i - Max(ends \cup {0})]
RangeOf(i, j) == [begin |-> PositionOf(i), end |-> PositionOf(j)]
\* The pieces of the source that may be lexemes.
Lexemes == {<<i, j>> \in (1 .. Len(source) + 1) \X (1 .. Len(source) + 1) : i <= j}

\* Whatever lexeme a fragment is made from, the range it gets is that of its
\* own spelling in the source file: what the source has there is the spelling.
FragmentsLocated ==
    \A l \in Lexemes, role \in {"variable", "expression"} :
        LET fragment == MakeHostFragment(SubSeq(source, l[1], l[2] - 1),
                                         RangeOf(l[1], l[2]), role, "none")
            begin == fragment.range.begin.offset + 1
            end == fragment.range.end.offset + 1
        IN /\ SubSeq(source, begin, end - 1) = fragment.spelling
           /\ fragment.range = RangeOf(begin, end)

\* A piece of a lexeme gets the range it has in the source file, however many
\* lines the lexeme spans.
Unplaced(t) == [spelling |-> t, range |-> RangeOf(1, 1), role |-> "variable", mode |-> "none"]
PiecesLocated ==
    \A l \in Lexemes : \A p \in {q \in Lexemes : l[1] <= q[1] /\ q[2] <= l[2]} :
        LET lexeme == SubSeq(source, l[1], l[2] - 1)
            range == RangeOf(l[1], l[2])
            piece == Unplaced(SubSeq(source, p[1], p[2] - 1))
            at == p[1] - l[1] + 1
        IN /\ AssignSubfragmentRange(piece, lexeme, range, at, at + Len(piece.spelling)).range
                = RangeOf(p[1], p[2])
           /\ SetFragmentSourceSubrange(piece, lexeme, range, at).range = RangeOf(p[1], p[2])
=============================================================================
