--------------------------- MODULE InductionClause ---------------------------
(***************************************************************************)
(* The INDUCTION clause: three containers and one order.                   *)
(*                                                                         *)
(* Steps, bindings and other items are kept in containers of their own; a  *)
(* sequence of references, a kind and an index, keeps the source order.    *)
(* Visitors follow the references and throw logic_error at one that names  *)
(* nothing.  The grammar adds items that have a text; host programs may    *)
(* also pass a null pointer or an empty text.                              *)
(***************************************************************************)
EXTENDS Naturals, Sequences, FiniteSets

CONSTANTS
    Texts,              \* spellings that are not empty
    Empty, Null,        \* the empty spelling, and no string at all
    MaxCalls            \* bound on the calls
InductionAssumption ==
    MaxCalls \in Nat /\ Empty \notin Texts /\ Null \notin Texts /\ Empty # Null

VARIABLES
    step_expression,    \* Empty until there is one
    bindings,           \* [label, expression]
    passthrough_items,
    sequence,           \* [kind, index], index from 1
    given               \* what the calls asked for, in their order
vars == <<step_expression, bindings, passthrough_items, sequence, given>>

Init ==
    /\ step_expression = Empty /\ bindings = <<>> /\ passthrough_items = <<>>
    /\ sequence = <<>> /\ given = <<>>

Item(kind, index) == [kind |-> kind, index |-> index]
Spelled(text) == IF text = Null THEN Empty ELSE text
Asked(item) == Len(given) < MaxCalls /\ given' = Append(given, item)

\* (a slip for the checks: the index taken for the size after the append)
PassThroughLate(expression) ==
    /\ passthrough_items' = Append(passthrough_items, expression)
    /\ sequence' = Append(sequence, Item("passthrough", Len(passthrough_items) + 2))
    /\ UNCHANGED <<step_expression, bindings>>
PassThrough(expression) ==
    /\ passthrough_items' = Append(passthrough_items, expression)
    /\ sequence' = Append(sequence, Item("passthrough", Len(passthrough_items) + 1))
    /\ UNCHANGED <<step_expression, bindings>>

\* A second step is passed through.
AddStepExpression(expression) ==
    /\ expression # Null
    /\ IF step_expression = Empty
       THEN /\ Asked(<<"step", expression>>)
            /\ step_expression' = expression
            /\ sequence' = Append(sequence, Item("step", 1))
            /\ UNCHANGED <<bindings, passthrough_items>>
       ELSE Asked(<<expression>>) /\ PassThrough(expression)
AddBinding(label, expression) ==
    /\ expression # Null
    /\ Asked(<<Spelled(label), expression>>)
    /\ bindings' = Append(bindings, [label |-> Spelled(label), expression |-> expression])
    /\ sequence' = Append(sequence, Item("binding", Len(bindings) + 1))
    /\ UNCHANGED <<step_expression, passthrough_items>>
AddPassthroughItem(expression) ==
    /\ expression # Null
    /\ Asked(<<expression>>) /\ PassThrough(expression)
\* A call without an expression returns at once.
Next == \E expression \in Texts \cup {Empty, Null} :
    \/ AddStepExpression(expression) \/ AddPassthroughItem(expression)
    \/ \E label \in Texts \cup {Empty, Null} : AddBinding(label, expression)
Spec == Init /\ [][Next]_vars

-----------------------------------------------------------------------------
\* Whether a visitor throws at a reference, and what it is called with.
Names(item) ==
    CASE item.kind = "step" -> item.index = 1 /\ step_expression # Empty
      [] item.kind = "binding" ->
            /\ item.index \in DOMAIN bindings
            /\ bindings[item.index].label # Empty /\ bindings[item.index].expression # Empty
      [] item.kind = "passthrough" ->
            item.index \in DOMAIN passthrough_items /\ passthrough_items[item.index] # Empty
Visited(item) ==
    CASE item.kind = "step" -> <<"step", step_expression>>
      [] item.kind = "binding" ->
            <<bindings[item.index].label, bindings[item.index].expression>>
      [] item.kind = "passthrough" -> <<passthrough_items[item.index]>>
VisitThrows == \E i \in DOMAIN sequence : ~Names(sequence[i])
VisitSpecificationItems == [i \in DOMAIN sequence |-> Visited(sequence[i])]

\* References name every element of the containers, each once.
Of(kind) == {i \in DOMAIN sequence : sequence[i].kind = kind}
Indexes(kind) == {sequence[i].index : i \in Of(kind)}
ReferencesResolve ==
    /\ Indexes("binding") = DOMAIN bindings /\ Cardinality(Of("binding")) = Len(bindings)
    /\ Indexes("passthrough") = DOMAIN passthrough_items
    /\ Cardinality(Of("passthrough")) = Len(passthrough_items)
    /\ Indexes("step") = {} => step_expression = Empty
\* As long as every text given is a text, a visitor never throws and is called
\* with what was given, in that order.
AllTexts == \A i \in DOMAIN given : \A j \in DOMAIN given[i] : given[i][j] # Empty
VisitsWhatWasGiven == AllTexts => ~VisitThrows /\ VisitSpecificationItems = given
=============================================================================
