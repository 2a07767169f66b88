--------------------------- MODULE ReductionNames ---------------------------
(***************************************************************************)
(* The identifiers of reductions, in C, C++ and Fortran.                   *)
(*                                                                         *)
(* A reduction names a predefined operator or a declared one.  Declared    *)
(* names are kept as text and scanned when the directive is validated: a   *)
(* C++ name may be qualified, a Fortran operator stands between dots.      *)
(***************************************************************************)
EXTENDS Literals

CONSTANTS MaxLength         \* bound on the length of a name
LengthAssumption == MaxLength \in Nat

Languages == {"C", "Cplusplus", "Fortran", "unknown"}
Symbols == {"plus", "bitand", "bitor", "bitxor", "eqv", "neqv", "user", "unknown"}
COnly == {"bitand", "bitor", "bitxor"}
FortranOnly == {"eqv", "neqv"}

\* isOpenMPIdentifier of the validator, written again beside the builder's.
IsOpenMPIdentifier(text) == IsIdentifierSpelling(text)
\* Letters only: 8 stands for the digits.
IsFortranDefinedOperator(text) ==
    /\ Len(text) >= 3 /\ text[1] = "." /\ text[Len(text)] = "."
    /\ \A i \in 2 .. Len(text) - 1 : text[i] \in IdentifierChar \ {"8", "_"}

\* One component after the other, each ended by the next "::".
IsCxxReductionIdExpression(text) ==
    LET scan[offset \in 1 .. Len(text) + 2] ==
            IF offset > Len(text) THEN FALSE
            ELSE LET separator == Find(<<":", ":">>, text, offset) IN
                 IF separator = 0 THEN IsOpenMPIdentifier(SubSeq(text, offset, Len(text)))
                 ELSE /\ IsOpenMPIdentifier(SubSeq(text, offset, separator - 1))
                      /\ scan[separator + 2]
    IN IF OccursAt(<<":", ":">>, text, 1) THEN scan[3] ELSE scan[1]

ValidSpelling(language, text) ==
    CASE language = "Cplusplus" -> IsCxxReductionIdExpression(text)
      [] language = "Fortran" -> IsOpenMPIdentifier(text) \/ IsFortranDefinedOperator(text)
      [] OTHER -> IsOpenMPIdentifier(text)

\* What validateReductionIdentifier and its three callers report; typed: the
\* fragment has the role and the mode setUserDefinedIdentifier gives it.
Errors(language, symbol, text, typed) ==
    {e \in {"unknown", "no language", "C only", "Fortran only", "name", "payload"} :
        \/ e = "unknown" /\ symbol = "unknown"
        \/ e = "no language" /\ language = "unknown"
        \/ e = "C only" /\ symbol \in COnly /\ language = "Fortran"
        \/ e = "Fortran only" /\ symbol \in FortranOnly /\ language # "Fortran"
        \/ e = "name" /\ symbol = "user" /\ ~(ValidSpelling(language, text) /\ typed)
        \/ e = "payload" /\ symbol # "user" /\ text # <<>>}
Accepted(language, symbol, text) == Errors(language, symbol, text, TRUE) = {}

-----------------------------------------------------------------------------
\* Every text up to the bound: the run appends one character at a time.
VARIABLE text
Init == text = <<>>
Type(character) == Len(text) < MaxLength /\ text' = Append(text, character)
Next == \E character \in Characters : Type(character)
Spec == Init /\ [][Next]_text

\* The scan recognises qualified names: colons come in pairs, none at the end,
\* and what stands between two pairs is a name.
Colons == {i \in DOMAIN text : text[i] = ":"}
Runs(S) == {<<i, j>> \in S \X S :
                i <= j /\ i .. j \subseteq S /\ i - 1 \notin S /\ j + 1 \notin S}
IsQualifiedName ==
    /\ text # <<>> /\ Len(text) \notin Colons
    /\ \A run \in Runs(Colons) : run[2] = run[1] + 1
    /\ \A run \in Runs((DOMAIN text) \ Colons) :
        IsIdentifierSpelling(SubSeq(text, run[1], run[2]))
QualifiedNamesRecognised == IsCxxReductionIdExpression(text) <=> IsQualifiedName

\* A reduction of C is one of C++, whatever it names.
CIsCxx ==
    \A symbol \in Symbols :
        Accepted("C", symbol, text) => Accepted("Cplusplus", symbol, text)
=============================================================================
