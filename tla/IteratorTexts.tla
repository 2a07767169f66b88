--------------------------- MODULE IteratorTexts ---------------------------
(***************************************************************************)
(* Iterator lists and mapper specifications are taken apart as written.    *)
(*                                                                         *)
(* Texts are generated from the grammar together with the pieces they are  *)
(* made of and the places where each was put.                              *)
(***************************************************************************)
EXTENDS Iterators

CONSTANTS
    Types, Names, Expressions,      \* pieces, as sequences of characters
    OtherExpressions, Steps,        \* but at the end of the first range
    MaxItems

VARIABLES
    text,
    expected,       \* the iterators, or the one mapper
    language        \* "none" for an iterator list
vars == <<text, expected, language>>

Init == text = <<>> /\ expected = <<>> /\ language \in {"none", "c", "fortran"}

\* The text of pieces after what is there, and where the n-th piece stands.
TextOf(pieces) == text \o FlattenSeq(pieces)
PlaceOf(pieces, n) == Len(TextOf(SubSeq(pieces, 1, n - 1))) + 1
PlacedPiece(pieces, n) == Placed(pieces[n], PlaceOf(pieces, n))
None == <<>>
Gap == <<" ">>

AddIterator(type, name, begin, end, step, gap) ==
    LET comma == IF text = <<>> THEN <<>> ELSE <<",">>
        pieces == <<comma, gap, type, IF type = None THEN None ELSE Gap, name, gap, <<"=">>,
                    gap, begin, gap, <<":">>, gap, end, gap,
                    IF step = None THEN None ELSE <<":">>, gap, step>>
    IN /\ language = "none" /\ Len(expected) < MaxItems
       /\ text' = TextOf(pieces)
       /\ expected' = Append(expected,
            [error |-> FALSE, qualifier |-> PlacedPiece(pieces, 3),
             variable |-> PlacedPiece(pieces, 5), begin |-> PlacedPiece(pieces, 9),
             end |-> PlacedPiece(pieces, 13), step |-> PlacedPiece(pieces, 17)])
       /\ UNCHANGED language

SpecifyMapper(identifier, type, variable, gap) ==
    LET separator == IF language = "fortran" THEN gap \o <<":", ":">> \o gap ELSE Gap
        pieces == <<gap, identifier, gap, IF identifier = None THEN None ELSE <<":">>, gap,
                    type, separator, variable, gap>>
    IN /\ language \in {"c", "fortran"} /\ expected = <<>>
       /\ language = "fortran" => Find(<<":", ":">>, type, 1) = 0
       /\ text' = TextOf(pieces)
       /\ expected' = <<[
            error |-> FALSE, explicit |-> identifier # None,
            identifier |-> IF identifier = <<"default">> THEN Placed(None, 0)
                           ELSE PlacedPiece(pieces, 2),
            type |-> PlacedPiece(pieces, 6), variable |-> PlacedPiece(pieces, 8),
            spaced |-> TRUE]>>
       /\ UNCHANGED language

Next ==
    \/ \E type \in Types \cup {None}, name \in Names,
          gap \in IF text = None THEN {None, Gap} ELSE {Gap} :
        \E end \in IF text = None THEN Expressions ELSE OtherExpressions :
            \E begin \in OtherExpressions, step \in Steps \cup {None} :
                AddIterator(type, name, begin, end, step, gap)
    \/ \E identifier \in Names \cup {None, <<"default">>}, type \in Types,
          variable \in Names, gap \in {None, Gap} :
        SpecifyMapper(identifier, type, variable, gap)
Spec == Init /\ [][Next]_vars

\* A list of iterators is divided into the items, types, names and bounds it
\* was written with, whatever commas, colons and assignments their types and
\* expressions enclose, and each piece is given the place where it stands.
IteratorsRecognised ==
    language = "none" /\ expected # <<>> =>
        ParseOpenMPIteratorDefinitions(text) = expected

\* So is a mapper specification, in either base language.
MapperRecognised ==
    language # "none" /\ expected # <<>> =>
        <<SetSpecification(text, language)>> = expected
=============================================================================
