---------------------------- MODULE SchemaLookup ----------------------------
(***************************************************************************)
(* isClauseAllowedOnDirective: is a clause allowed on a directive?         *)
(*                                                                         *)
(* The answer is searched by bisection in a table of keys, one per allowed *)
(* pair, that the preprocessor builds from OpenMPApplicability.def.  The   *)
(* compiler refuses a table that is not strictly increasing.  The table is *)
(* data, so it is a parameter here: every table that compiles is tried.    *)
(***************************************************************************)
EXTENDS Integers, Sequences

CONSTANTS
    DirectiveCount, ClauseCount,    \* enumerators: OMPD_*, OMPC_* with unknown
    MaxTable                        \* longest table

CountsAssumption ==
    DirectiveCount \in Nat /\ ClauseCount \in Nat \ {0} /\ MaxTable \in Nat

Directives == 0 .. DirectiveCount - 1
Clauses == 0 .. ClauseCount - 1

\* (a slip for the checks: the last enumerator, unknown, is not counted)
KeyWithoutUnknown(d, c) == d * (ClauseCount - 1) + c
Key(d, c) == d * ClauseCount + c
IsStrictlyIncreasing(values) ==
    \A i \in 1 .. Len(values) - 1 : values[i] < values[i + 1]

Keys(allowed) == [i \in 1 .. Len(allowed) |-> Key(allowed[i][1], allowed[i][2])]
\* The tables that compile, as sequences of allowed pairs.
Tables ==
    {allowed \in UNION {[1 .. n -> Directives \X Clauses] : n \in 0 .. MaxTable} :
        IsStrictlyIncreasing(Keys(allowed))}

VARIABLES
    allowed,            \* the entries of the .def file
    directive, clause,  \* the question
    first, count,       \* the half-open range still searched, from 1
    found               \* "no answer", "yes" or "no"
vars == <<allowed, directive, clause, first, count, found>>

AllowedDirectiveClauses == Keys(allowed)
key == Key(directive, clause)

Init ==
    /\ allowed \in Tables
    /\ directive \in Directives /\ clause \in Clauses
    /\ first = 1 /\ count = Len(allowed)
    /\ found = "no answer"

\* One turn of std::lower_bound, which std::binary_search calls.
Halve ==
    LET half == count \div 2 IN
    /\ found = "no answer" /\ count > 0
    /\ IF AllowedDirectiveClauses[first + half] < key
       THEN first' = first + half + 1 /\ count' = count - half - 1
       ELSE count' = half /\ UNCHANGED first
    /\ UNCHANGED <<allowed, directive, clause, found>>
Answer ==
    /\ found = "no answer" /\ count = 0
    /\ found' = IF first <= Len(allowed) /\ ~(key < AllowedDirectiveClauses[first])
                THEN "yes" ELSE "no"
    /\ UNCHANGED <<allowed, directive, clause, first, count>>

Next == Halve \/ Answer
Spec == Init /\ [][Next]_vars

-----------------------------------------------------------------------------
\* The range searched lies in the table.
TypeOK ==
    /\ allowed \in Seq(Directives \X Clauses)
    /\ directive \in Directives /\ clause \in Clauses
    /\ first \in 1 .. Len(allowed) + 1
    /\ count \in 0 .. Len(allowed) + 1 - first
    /\ found \in {"no answer", "yes", "no"}

\* Everything before the range is smaller than the key and nothing after it is.
Bracketed ==
    /\ \A i \in 1 .. first - 1 : AllowedDirectiveClauses[i] < key
    /\ \A i \in first + count .. Len(allowed) : AllowedDirectiveClauses[i] >= key

\* The answer is yes exactly for the pairs the table lists: no other pair has
\* the key of a listed one, and the search misses none.
AnswerIsMembership ==
    found # "no answer" =>
        (found = "yes" <=> \E i \in 1 .. Len(allowed) : allowed[i] = <<directive, clause>>)

\* Every turn at least halves the range, so the search ends.
HalvesRange == 2 * count' <= count
RangeHalves == [][HalvesRange]_<<first, count>>
=============================================================================
