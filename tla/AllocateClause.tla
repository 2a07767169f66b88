--------------------------- MODULE AllocateClause ---------------------------
(***************************************************************************)
(* The ALLOCATE clause: three setters, two syntaxes, one printed form.     *)
(*                                                                         *)
(* The older syntax names an allocator, the newer one has the modifiers    *)
(* allocator(..) and align(..), in any order; they exclude each other.     *)
(* The setters refuse what does not fit by recording an error; validation  *)
(* reports it, and tests that the enumerator and the text agree.  Host     *)
(* programs call the same setters as the grammar, in any order.            *)
(***************************************************************************)
EXTENDS Naturals, Sequences, FiniteSets

CONSTANTS
    Texts,          \* spellings of allocators and alignments
    Empty,          \* the empty or absent one
    MaxCalls        \* bound on the calls of setters
AllocateAssumption == MaxCalls \in Nat /\ Empty \notin Texts

\* One enumerator stands for the eight predefined allocators.
Allocators == {"unspecified", "predefined", "user"}
Modifiers == {"allocator", "align"}

VARIABLES
    allocator,                  \* the enumerator
    user_defined_allocator, alignment,
    modifier_order,             \* the modifiers in source order
    construction_errors,        \* how many
    calls,
    written                     \* nothing but the grammar called
payload == <<allocator, user_defined_allocator, alignment, modifier_order>>
vars == <<payload, construction_errors, calls, written>>

\* Made by addAllocateClause: for "user" it also sets the text.
Init ==
    /\ allocator \in Allocators
    /\ user_defined_allocator \in
        (IF allocator = "user" THEN Texts \cup {Empty} ELSE {Empty})
    /\ construction_errors =
        (IF allocator = "user" /\ user_defined_allocator = Empty THEN 1 ELSE 0)
    /\ alignment = Empty /\ modifier_order = <<>>
    /\ calls = 0 /\ written = TRUE

Call == calls < MaxCalls /\ calls' = calls + 1
Refuse(n) == construction_errors' = construction_errors + n /\ UNCHANGED payload

SetUserDefinedAllocator(text) ==
    /\ Call /\ written' = FALSE         \* the grammar calls it no second time
    /\ \/ /\ text = Empty \/ user_defined_allocator # Empty
          /\ Refuse(1)
       \/ /\ text # Empty /\ user_defined_allocator = Empty
          /\ user_defined_allocator' = text
          /\ UNCHANGED <<allocator, alignment, modifier_order, construction_errors>>

\* The grammar reaches it only in a clause made for modifiers.
SetAllocatorModifier(text) ==
    /\ Call /\ written' = (written /\ (allocator = "unspecified" \/ modifier_order # <<>>))
    /\ \/ /\ \/ text = Empty \/ allocator # "unspecified"
             \/ user_defined_allocator # Empty
             \/ \E i \in DOMAIN modifier_order : modifier_order[i] = "allocator"
          /\ Refuse(1)
       \/ /\ text # Empty /\ allocator = "unspecified" /\ user_defined_allocator = Empty
          /\ \A i \in DOMAIN modifier_order : modifier_order[i] # "allocator"
          /\ user_defined_allocator' = text
          /\ allocator' = "user"
          /\ modifier_order' = Append(modifier_order, "allocator")
          /\ UNCHANGED <<alignment, construction_errors>>

SetAlignModifier(text) ==
    /\ Call /\ written' = (written /\ (allocator = "unspecified" \/ modifier_order # <<>>))
    /\ \/ /\ text = Empty \/ alignment # Empty \/ allocator = "predefined"
          /\ Refuse(1)
       \/ /\ text # Empty /\ alignment = Empty /\ allocator # "predefined"
          /\ alignment' = text
          /\ modifier_order' = Append(modifier_order, "align")
          /\ UNCHANGED <<allocator, user_defined_allocator, construction_errors>>

Next == \E text \in Texts \cup {Empty} :
    SetUserDefinedAllocator(text) \/ SetAllocatorModifier(text) \/ SetAlignModifier(text)
Spec == Init /\ [][Next]_vars

-----------------------------------------------------------------------------
UsesAllocatorModifierSyntax == \E i \in DOMAIN modifier_order : modifier_order[i] = "allocator"
\* The rule of validateOpenMPStructure.
Agrees ==
    /\ (user_defined_allocator # Empty) = (allocator = "user")
    /\ UsesAllocatorModifierSyntax => allocator = "user"
Accepted == construction_errors = 0 /\ Agrees

\* toString: the parameters it prints, each a word with its text.
Parameters ==
    IF UsesAllocatorModifierSyntax \/ alignment # Empty
    THEN [i \in DOMAIN modifier_order |->
            <<modifier_order[i],
              IF modifier_order[i] = "allocator" THEN user_defined_allocator ELSE alignment>>]
    ELSE (IF allocator = "predefined" THEN <<<<"predefined", Empty>>>> ELSE <<>>)
        \o (IF user_defined_allocator = Empty THEN <<>>
            ELSE <<<<"user", user_defined_allocator>>>>)
\* allocate_parameter: the payload of the clause that is parsed from them.
TextOf(parameters, word) ==
    IF \E i \in DOMAIN parameters : parameters[i][1] = word
    THEN parameters[CHOOSE i \in DOMAIN parameters : parameters[i][1] = word][2]
    ELSE Empty
Parsed(parameters) ==
    CASE parameters = <<>> -> <<"unspecified", Empty, Empty, <<>>>>
      [] parameters # <<>> /\ parameters[1][1] \in {"predefined", "user"} ->
            <<parameters[1][1], parameters[1][2], Empty, <<>>>>
      [] OTHER ->
            <<IF TextOf(parameters, "allocator") = Empty THEN "unspecified" ELSE "user",
              TextOf(parameters, "allocator"), TextOf(parameters, "align"),
              [i \in DOMAIN parameters |-> parameters[i][1]]>>

-----------------------------------------------------------------------------
\* The order lists each modifier once, exactly those that were given, and a
\* clause with a predefined allocator has none.
OrderMatchesPayload ==
    /\ \A i, j \in DOMAIN modifier_order : modifier_order[i] = modifier_order[j] => i = j
    /\ (alignment # Empty) = (\E i \in DOMAIN modifier_order : modifier_order[i] = "align")
    /\ UsesAllocatorModifierSyntax => allocator = "user" /\ user_defined_allocator # Empty
    /\ allocator = "predefined" => modifier_order = <<>>

\* What the grammar builds without an error agrees: the rule of the validator
\* can only fail on a clause that a host program built.
WrittenClausesAgree == written /\ construction_errors = 0 => Agrees

\* A call that changes nothing says so, and what was given is never replaced.
KeepsOrReports ==
    /\ payload' = payload => construction_errors' > construction_errors
    /\ user_defined_allocator # Empty => user_defined_allocator' = user_defined_allocator
    /\ alignment # Empty => alignment' = alignment
RefusalsAreReported == [][KeepsOrReports]_vars

\* A clause that is accepted is printed so that it is parsed as what it was.
PrintedAsItIs == Accepted => Parsed(Parameters) = payload
\* For the clauses the grammar builds, this holds.
WrittenPrintedAsItIs == written => PrintedAsItIs
=============================================================================
