---------------------------- MODULE ApplyNesting ----------------------------
(***************************************************************************)
(* The APPLY clause, whose transformations may be APPLY clauses again.     *)
(*                                                                         *)
(* The semantic actions build the tree while the text is read: the clause  *)
(* under construction and the separator before the next transformation are *)
(* single variables, saved on two thread-local stacks around a nested      *)
(* clause.  A text may be rejected after any token; what the stacks hold   *)
(* then stays until the next text is begun.                                *)
(*                                                                         *)
(* The grammar has one more form of a parameter, a label and an argument   *)
(* in parentheses of their own.  It is left out because no text reaches    *)
(* it: the lexer takes the parentheses of an expression into its token     *)
(* (`grid(1)' is one label), so none is ever followed by `('.              *)
(***************************************************************************)
EXTENDS Naturals, Sequences, SequencesExt

CONSTANTS
    Transformations,    \* reverse, nothing, tile sizes(..), an expression ...
    Labels,
    MaxTokens, MaxTexts
ApplyAssumption == MaxTokens \in Nat /\ MaxTexts \in Nat

VARIABLES
    clauses,        \* [label, transforms] of the clauses made, the first is the root's
    current_clause, \* index, 0 for none
    current_apply_transform_separator,
    apply_clause_stack, apply_clause_separator_stack,
    unowned,        \* nested clauses that no other clause owns yet
    tokens,         \* of the text, as far as it has been read
    expect,         \* what may follow: "parameter", "after label", "next", "end"
    sequenced,      \* for each open clause: the parameter has a label
    texts
parser == <<current_clause, current_apply_transform_separator, apply_clause_stack,
            apply_clause_separator_stack>>
vars == <<clauses, parser, unowned, tokens, expect, sequenced, texts>>

NoLabel == "none"
Clause == [label |-> NoLabel, transforms |-> <<>>]

Init ==
    /\ clauses = <<>> /\ current_clause = 0
    /\ current_apply_transform_separator = "comma"
    /\ apply_clause_stack = <<>> /\ apply_clause_separator_stack = <<>>
    /\ unowned = {} /\ tokens = <<>> /\ expect = "end" /\ sequenced = <<>> /\ texts = 0

Read(token) == Len(tokens) < MaxTokens /\ tokens' = tokens \o token

-----------------------------------------------------------------------------
\* resetParserState at the first token of a text, then apply_clause.
Begin ==
    /\ texts < MaxTexts /\ texts' = texts + 1
    /\ clauses' = <<Clause>> /\ current_clause' = 1 /\ unowned' = {}
    /\ current_apply_transform_separator' = "comma"
    /\ apply_clause_stack' = <<>> /\ apply_clause_separator_stack' = <<>>
    /\ tokens' = <<"apply(">> /\ expect' = "parameter" /\ sequenced' = <<FALSE>>
\* A syntax error: the actions already run are not undone.
Rejected ==
    /\ expect # "end"
    /\ expect' = "end" /\ tokens' = <<>> /\ clauses' = <<>>
    /\ UNCHANGED <<parser, unowned, sequenced, texts>>

\* EXPR_STRING ':' -- OpenMP has one label, before the first transformation; the
\* grammar takes one in every parameter, and the last one stays.
Label(label) ==
    /\ expect = "parameter"
    /\ Read(<<label, ":">>)
    /\ clauses' = [clauses EXCEPT ![current_clause].label = label]
    /\ expect' = "after label" /\ sequenced' = <<TRUE>> \o Tail(sequenced)
    /\ UNCHANGED <<parser, unowned, texts>>
\* apply_parameter_list ',': the next parameter may have a label again.
Comma ==
    /\ expect = "next" /\ Read(<<",">>)
    /\ current_apply_transform_separator' = "comma"
    /\ expect' = "parameter" /\ sequenced' = <<FALSE>> \o Tail(sequenced)
    /\ UNCHANGED <<clauses, current_clause, apply_clause_stack,
                   apply_clause_separator_stack, unowned, texts>>

\* The separator before a transformation: the grammar sets it to a space when
\* it goes on with a sequence.  Mutant: it does not.
SeparatorKept == current_apply_transform_separator
Separator == IF expect = "next" THEN "space" ELSE current_apply_transform_separator
Space == IF expect = "next" THEN <<" ">> ELSE <<>>
MayTransform == expect \in {"parameter", "after label"} \/ (expect = "next" /\ Head(sequenced))
Transform(name, child, separator) ==
    [name |-> name, child |-> child, separator |-> separator]
AddTransformation(name) ==
    /\ MayTransform /\ Read(Space \o <<name>>)
    /\ current_apply_transform_separator' = Separator
    /\ clauses' = [clauses EXCEPT ![current_clause].transforms =
                    Append(@, Transform(name, 0, Separator))]
    /\ expect' = "next"
    /\ UNCHANGED <<current_clause, apply_clause_stack, apply_clause_separator_stack,
                   unowned, sequenced, texts>>

\* nested_apply_transformation, its first action ...
OpenNested ==
    /\ MayTransform /\ Read(Space \o <<"apply(">>)
    /\ apply_clause_stack' = <<current_clause>> \o apply_clause_stack
    /\ apply_clause_separator_stack' = <<Separator>> \o apply_clause_separator_stack
    /\ clauses' = Append(clauses, Clause)
    /\ current_clause' = Len(clauses) + 1 /\ unowned' = unowned \cup {Len(clauses) + 1}
    /\ current_apply_transform_separator' = "comma"
    /\ expect' = "parameter" /\ sequenced' = <<FALSE>> \o sequenced
    /\ UNCHANGED texts
\* ... and its second, where the grammar's nesting is that of the stacks.
CloseNested ==
    LET outer == Head(apply_clause_stack)
        separator == Head(apply_clause_separator_stack)
    IN
    /\ expect = "next" /\ Len(sequenced) > 1 /\ tokens' = Append(tokens, ")")
    /\ clauses' = [clauses EXCEPT ![outer].transforms =
                    Append(@, Transform("apply", current_clause, separator))]
    /\ current_clause' = outer /\ unowned' = unowned \ {current_clause}
    /\ current_apply_transform_separator' = separator
    /\ apply_clause_stack' = Tail(apply_clause_stack)
    /\ apply_clause_separator_stack' = Tail(apply_clause_separator_stack)
    /\ sequenced' = Tail(sequenced) /\ UNCHANGED <<expect, texts>>
Close ==
    /\ expect = "next" /\ Len(sequenced) = 1 /\ tokens' = Append(tokens, ")")
    /\ expect' = "end"
    /\ UNCHANGED <<clauses, parser, unowned, sequenced, texts>>

Next ==
    \/ Begin \/ Rejected \/ Comma \/ OpenNested \/ CloseNested \/ Close
    \/ \E label \in Labels : Label(label)
    \/ \E name \in Transformations : AddTransformation(name)
Spec == Init /\ [][Next]_vars

-----------------------------------------------------------------------------
\* toString: a nested clause is always younger than the one that owns it.
Printed ==
    LET inside[i \in DOMAIN clauses] ==
            LET one(transform) == IF transform.child = 0 THEN <<transform.name>>
                                  ELSE inside[transform.child]
                separator(t) == IF t.separator = "space" THEN <<" ">> ELSE <<",">>
                list == clauses[i].transforms
            IN <<"apply(">>
                \o (IF clauses[i].label = NoLabel THEN <<>>
                    ELSE <<clauses[i].label>> \o (IF list = <<>> THEN <<>> ELSE <<":">>))
                \o FlattenSeq([n \in DOMAIN list |->
                        (IF n = 1 THEN <<>> ELSE separator(list[n])) \o one(list[n])])
                \o <<")">>
    IN inside[1]

Accepted == expect = "end" /\ tokens # <<>>
\* Every label in the text is that of the first parameter of its clause.
LabelLeads == \A n \in DOMAIN tokens : tokens[n] = ":" => n > 2 /\ tokens[n - 2] = "apply("
\* A text that is accepted is printed again token by token.  This is not so of
\* every text: a label of a later parameter is printed before the first one, over
\* the label that stood there.
PrintedAsWritten == Accepted => Printed = tokens
\* Where the labels lead, it is so, whatever was nested in the text and whichever
\* text before it was rejected in whichever place.
LedPrintedAsWritten == LabelLeads => PrintedAsWritten
\* Of every text, nothing but labels is moved or lost: without them, what is
\* printed is what was written.
Unlabelled(text) ==
    LET labelled(n) == \E colon \in {n, n + 1} \cap DOMAIN text : text[colon] = ":"
    IN FlattenSeq([n \in DOMAIN text |-> IF labelled(n) THEN <<>> ELSE <<text[n]>>])
OnlyLabelsMove == Accepted => Unlabelled(Printed) = Unlabelled(tokens)
\* Of every text, nothing is left over: every nested clause has one owner, and what the
\* stacks save is what is open.
SavedIsOpen ==
    expect # "end" \/ Accepted =>
        /\ Len(apply_clause_stack) = Len(sequenced) - 1
        /\ Len(apply_clause_separator_stack) = Len(sequenced) - 1
        /\ unowned = ToSet(IF Len(sequenced) = 1 THEN <<>>
                           ELSE <<current_clause>> \o Front(apply_clause_stack))
=============================================================================
