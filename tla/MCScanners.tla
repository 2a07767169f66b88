----------------------------- MODULE MCScanners -----------------------------
(***************************************************************************)
(* Instances of the scanners for TLC, side by side.                        *)
(*                                                                         *)
(* No two scanners touch: each behaviour belongs to one of them, and what  *)
(* it does not use stays as it was.  The properties say, for each scanner, *)
(* what its module says of it.                                             *)
(***************************************************************************)
EXTENDS Naturals, Sequences

VARIABLES
    scanner,            \* whose behaviour this is
    text,               \* what is scanned
    said,               \* what the generated text says
    inner, number, sectioned, language
others == <<said, inner, number, sectioned, language>>
vars == <<scanner, text, others>>

-----------------------------------------------------------------------------
\* Each scanner with the characters it can tell apart.  A word that a scanner
\* looks for is one character.
Punctuation ==
    {"(", ")", "[", "]", "{", "}", "<", ">", ",", ":", "=", "?", ".", "-", "%", "/", "*",
     "+", "\\"}

\* R, u and 8 make the prefixes of raw strings; 8 also stands for a letter.
Literals == INSTANCE LiteralTexts WITH
    Characters <- {"R", "u", "8", "\"", "\\", "(", ")"}, MaxDelimiter <- 1,
    Starts <- {<<>>, <<"R", "\"">>, <<"u", "8", "R", "\"", "8">>}, MaxMore <- 5,
    start <- number
Lists == INSTANCE TopLevelTexts WITH
    Characters <- {"a", ",", "(", ")", "[", "]", "\""}, MaxDelimiter <- 0,
    Starts <- {<<>>}, MaxMore <- 6, start <- number
Suffixes == INSTANCE TopLevelTexts WITH
    Characters <- {"a", "dist_data", " ", "(", ")", "[", "]", "'"}, MaxDelimiter <- 0,
    Starts <- {<<>>, <<"a", " ", "dist_data", "(">>, <<"a", "[", "(">>}, MaxMore <- 5,
    start <- number

\* \x, \u and \U, with digits that are far from the limits and close to them;
\* then the digits 0, 1, D and f.
Numbers == INSTANCE NameIdentity WITH
    Starts <- {<<92, 120>>, <<92, 117>>, <<92, 85, 48, 48>>, <<92, 85, 102, 102>>},
    Bytes <- {48, 49, 68, 102}, MaxMore <- 6, content <- text, start <- number
\* Quotes, a backslash, a letter of an escape, an octal digit and a line end.
Quoted == INSTANCE NameIdentity WITH
    Starts <- {<<>>}, Bytes <- {34, 39, 92, 110, 55, 13, 10}, MaxMore <- 6,
    content <- text, start <- number

Fragments == INSTANCE FragmentTexts WITH
    Characters <- {"a", "b", " ", "\n"}, MaxLength <- 5, MaxDelimiter <- 1, source <- text

\* Pieces that enclose separators.
Iterators == INSTANCE IteratorTexts WITH
    Characters <- {"a", "i", "T", "R", "default", " ", "\"", "'"} \cup Punctuation,
    MaxDelimiter <- 1, MaxItems <- 2, expected <- said,
    Types <- {<<"T">>, <<"T", ":", ":", "T">>,
              <<"T", "<", "a", ",", "i", "=", "a", ">">>,
              <<"T", "(", "a", ":", "i", ",", "a", "=", "a", ")">>},
    Names <- {<<"i", "a">>},
    Expressions <-
        {<<"i">>, <<"a", "?", "a", ":", "i">>, <<"a", ":", ":", "i">>, <<"a", "<", "i">>,
         <<"a", "(", "i", ",", "a", "=", "i", ":", "a", ")">>,
         <<"\"", ",", "a", "=", "\\", "\"", "\"">>, <<"R", "\"", "(", "\"", ":", ")", "\"">>,
         <<"a", "<", "a", ",", "i", ">", "(", "i", ")">>, <<"a", "=", "=", "i">>},
    OtherExpressions <- {<<"i">>, <<"a", "?", "i", ":", "a">>},
    Steps <- {<<"i">>}
Sections == INSTANCE ArraySections WITH
    Characters <- {"a", " ", "\""} \cup Punctuation, MaxDelimiter <- 1, MaxNesting <- 3,
    item <- text, subscript <- inner, depth <- number

\* Names, sections, literals that hold parentheses, and calls of a member that
\* has the name of the suffix.
Policy(spelling, kind, argument, offset) ==
    [text |-> spelling, kind |-> kind, argument |-> argument, offset |-> offset]
Items == INSTANCE MapItems WITH
    Characters <- {"a", "8", "dist_data", "block", "cyclic", "duplicate", "BLOCK",
                   " ", "\"", "'"} \cup Punctuation,
    MaxDelimiter <- 1, MaxItems <- 1, MaxPolicies <- 3,
    expressions <- text, dist_data_policies <- inner,
    Locators <- {
        <<"a">>, <<" ", "a", " ">>, <<"a", "[", "'", ")", "'", "]">>, <<"block">>,
        <<"a", ".", "dist_data", "(", "8", ")">>, <<"a", "[", "block", "(", "8", ")", "]">>},
    Policies <- {
        Policy(<<"duplicate">>, "duplicate", <<>>, 0),
        Policy(<<"block", "(", "8", ")">>, "block", <<"8">>, 3),
        Policy(<<" ", "BLOCK", " ", "(", " ", "8", " ", ")">>, "block", <<"8">>, 6),
        Policy(<<"cyclic", "(", "a", "(", "8", ",", "8", ")", ")", " ">>, "cyclic",
            <<"a", "(", "8", ",", "8", ")">>, 3),
        Policy(<<"block", "(", "\"", ",", "\"", ")">>, "block", <<"\"", ",", "\"">>, 3),
        Policy(<<"block", "(", "8", ")", "8">>, "unknown", <<>>, 0)}
Reductions == INSTANCE ReductionNames WITH
    Characters <- {"a", "8", "_", ":", ".", "+"}, MaxLength <- 6, MaxDelimiter <- 0

ASSUME Literals!LengthAssumption /\ Literals!DelimiterAssumption /\ Numbers!BytesAssumption
ASSUME Sections!NestingAssumption /\ Items!ItemsAssumption /\ Reductions!LengthAssumption

-----------------------------------------------------------------------------
Scanners == {"literals", "lists", "suffixes", "numbers", "quoted", "fragments", "iterators",
             "sections", "items", "reductions"}
Init ==
    /\ scanner \in Scanners
    /\ scanner = "literals" => Literals!Init
    /\ scanner = "lists" => Lists!Init
    /\ scanner = "suffixes" => Suffixes!Init
    /\ scanner \in {"fragments", "reductions"} => text = <<>>
    /\ scanner = "numbers" => Numbers!Init
    /\ scanner = "quoted" => Quoted!Init
    /\ scanner = "iterators" => Iterators!Init
    /\ scanner = "sections" => Sections!Init
    /\ scanner = "items" => Items!Init
    /\ scanner \notin {"iterators", "items"} => said = <<>>
    /\ scanner \notin {"sections", "items"} => inner = <<>>
    /\ scanner \in {"fragments", "iterators", "items", "reductions"} => number = 0
    /\ scanner # "sections" => sectioned = FALSE
    /\ scanner # "iterators" => language = "none"

\* A step of one scanner, which leaves some of the variables alone.
Step(of, unused) == scanner = of /\ UNCHANGED <<scanner, unused>>
Next ==
    \/ Step("literals", <<said, inner, sectioned, language>>) /\ Literals!Next
    \/ Step("lists", <<said, inner, sectioned, language>>) /\ Lists!Next
    \/ Step("suffixes", <<said, inner, sectioned, language>>) /\ Suffixes!Next
    \/ Step("numbers", <<said, inner, sectioned, language>>) /\ Numbers!Next
    \/ Step("quoted", <<said, inner, sectioned, language>>) /\ Quoted!Next
    \/ Step("fragments", others) /\ Fragments!Next
    \/ Step("iterators", <<inner, number, sectioned>>) /\ Iterators!Next
    \/ Step("sections", <<said, language>>) /\ Sections!Next
    \/ Step("items", <<number, sectioned, language>>) /\ Items!Next
    \/ Step("reductions", others) /\ Reductions!Next
Spec == Init /\ [][Next]_vars

-----------------------------------------------------------------------------
\* The three scanners of quoted literals agree on where a literal ends, and it
\* ends there whatever follows it.
ScannersAgree ==
    scanner = "literals" => Literals!ScannersAgree /\ Literals!LiteralsAreStable

\* Lists are cut without loss at the commas that no bracket encloses, and the
\* suffix dist_data(..) is found from the end where a scan from the front
\* finds it.
CutsAreExact ==
    /\ scanner = "lists" => Lists!SplitIsExact /\ Lists!NestedTextsSplit
    /\ scanner = "suffixes" => Suffixes!SuffixIsExact

\* The name that a literal stands for is the one that was written as it:
\* numeric escapes are exact up to their limits and refused beyond, and what
\* each language escapes is undone.
NamesReadBack ==
    /\ scanner = "numbers" => Numbers!ByteEscapesExact /\ Numbers!ScalarEscapesExact
    /\ scanner = "quoted" => Quoted!NamesHaveLiterals

\* Iterators, mappers and the items of MAP are taken apart into the pieces
\* they were written with, and each piece has the place where it stands in the
\* text, as a fragment has the range where the source file has it.
PiecesLocated ==
    /\ scanner = "iterators" => Iterators!IteratorsRecognised /\ Iterators!MapperRecognised
    /\ scanner = "items" => Items!PoliciesRecognised
    /\ scanner = "fragments" => Fragments!FragmentsLocated /\ Fragments!PiecesLocated

\* Array sections and qualified names are told from other texts as a grammar
\* tells them.
KindsRecognised ==
    /\ scanner = "sections" => Sections!SectionsRecognised
    /\ scanner = "reductions" => Reductions!QualifiedNamesRecognised /\ Reductions!CIsCxx
=============================================================================
