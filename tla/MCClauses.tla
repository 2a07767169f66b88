------------------------------ MODULE MCClauses ------------------------------
(***************************************************************************)
(* Instances, for TLC, of what builds one clause or judges its directive.  *)
(*                                                                         *)
(* The parts do not touch: each behaviour belongs to one of them.  They    *)
(* take turns in the same slots, s1, s2 and so on, of which each part uses *)
(* as many as it has variables; the others are 0.                          *)
(***************************************************************************)
EXTENDS Integers, Sequences, MCRuleScope

VARIABLES part, s1, s2, s3, s4, s5, s6, s7, s8, s9, s10, s11, s12, s13
vars == <<part, s1, s2, s3, s4, s5, s6, s7, s8, s9, s10, s11, s12, s13>>
CONSTANTS
    NULL,
    DirectiveCount, ClauseCount, MaxTable,      \* of the schema's tables
    MaxArguments,                               \* of a call
    MaxClauses, MaxModifiers,                   \* of a directive, of one INIT
    Texts, NoText, MaxCalls,                    \* of setters
    MaxTokens, MaxTexts,                        \* of APPLY clauses
    MaxMore, MaxPeek                            \* of an operand list

-----------------------------------------------------------------------------
\* Context selectors: calls in any order on a small alphabet, and the audit on
\* richer ones.  quoted_any is the literal of the word, one_plus_one is
\* neither an identifier nor a literal.
IdentityOf ==
    [any |-> "any", quoted_any |-> "any", host |-> "host", amd |-> "amd",
     quoted_amd |-> "amd", one_plus_one |-> NULL]
Protocol == INSTANCE VariantSelector WITH
    trait_sets <- s1, active_trait_set <- s2, active_trait_selector <- s3, misused <- s4,
    sane <- s5, open <- s6, spoken <- s7,
    Otherwise <- FALSE, SetKinds <- {"construct", "user"},
    TraitKinds <- {"condition", "construct"}, Scores <- {FALSE}, ImplementationNames <- {},
    ConstructKinds <- {"parallel", "simd"}, Spellings <- {NULL, "x"},
    Modes <- {"expression"}, ContextKinds <- {}, Vendors <- {}, Orders <- {},
    Requirements <- {}, IdentityOf <- [s \in {NULL, "x"} |-> s],
    MaxSets <- 2, MaxSelectors <- 3, MaxProperties <- 2
Device == INSTANCE VariantSelector WITH
    trait_sets <- s1, active_trait_set <- s2, active_trait_selector <- s3, misused <- s4,
    sane <- s5, open <- s6, spoken <- s7,
    Otherwise <- FALSE, SetKinds <- {"device", "target_device"},
    TraitKinds <- {"kind", "arch", "device_num"}, Scores <- {FALSE}, ImplementationNames <- {},
    ConstructKinds <- {}, Spellings <- {"any", "quoted_any", "host"},
    Modes <- {"context_name"}, ContextKinds <- {"any", "host", "unknown"}, Vendors <- {},
    Orders <- {}, Requirements <- {}, IdentityOf <- IdentityOf,
    MaxSets <- 2, MaxSelectors <- 2, MaxProperties <- 2
Implementation == INSTANCE VariantSelector WITH
    trait_sets <- s1, active_trait_set <- s2, active_trait_selector <- s3, misused <- s4,
    sane <- s5, open <- s6, spoken <- s7,
    Otherwise <- TRUE, SetKinds <- {"implementation"},
    TraitKinds <- {"vendor", "requires", "implementation_user"}, Scores <- {FALSE, TRUE},
    ImplementationNames <- {NULL, "", "x"}, ConstructKinds <- {},
    Spellings <- {"amd", "quoted_amd", "one_plus_one"}, Modes <- {"context_name"},
    ContextKinds <- {}, Vendors <- {"amd", "unspecified"}, Orders <- {"seq_cst"},
    Requirements <- {[kind |-> "device_safesync", expression |-> "good"],
                     [kind |-> "device_safesync", expression |-> "bad"],
                     [kind |-> "private", expression |-> "none"]},
    IdentityOf <- IdentityOf, MaxSets <- 1, MaxSelectors <- 2, MaxProperties <- 2

\* One call of addOpenMPClauseWithArguments, for every kind.
Call == INSTANCE ClauseArguments WITH
    kind <- s1, arguments <- s2, pc <- s3, why <- s4, taken <- s5, text <- s6, class <- s7,
    payload <- s8, registered <- s9, indexed <- s10, placed <- s11, comma <- s12,
    separator <- s13
\* One question to the schema, for every table up to a length.
Lookup == INSTANCE SchemaLookup WITH
    allowed <- s1, directive <- s2, clause <- s3, first <- s4, count <- s5, found <- s6
\* The clauses of one directive, and the modifiers of one INIT.
Rules == INSTANCE StructureRules WITH
    directive <- s1, clauses <- s2, Directives <- ScopeDirectives,
    Clauses <- ScopeClauses, Allowed <- ScopeAllowed, Unique <- ScopeUnique
Modifiers == INSTANCE InitModifiers WITH modifiers <- s1

\* Clauses with a payload that several calls fill.
Allocate == INSTANCE AllocateClause WITH
    allocator <- s1, user_defined_allocator <- s2, alignment <- s3, modifier_order <- s4,
    construction_errors <- s5, calls <- s6, written <- s7,
    Empty <- NoText
Induction == INSTANCE InductionClause WITH
    step_expression <- s1, bindings <- s2, passthrough_items <- s3, sequence <- s4,
    given <- s5, Empty <- NoText, Null <- NULL
Apply == INSTANCE ApplyNesting WITH
    clauses <- s1, current_clause <- s2, current_apply_transform_separator <- s3,
    apply_clause_stack <- s4, apply_clause_separator_stack <- s5, unowned <- s6,
    tokens <- s7, expect <- s8, sequenced <- s9, texts <- s10,
    Transformations <- Texts, Labels <- {"l"}

\* The list of a firstprivate clause, read character by character: do is a
\* modifier. The texts start with each kind of bracket, conditional and literal.
Operand == INSTANCE OperandLexer WITH
    original_input <- s1, rest <- s2, location <- s3, states <- s4, current_string <- s5,
    counters <- s6, quote <- s7, expression_begin_offset <- s8, tokens <- s9, status <- s10,
    more <- s11,
    Starts <- {<<"(">>, <<"(", "a", ",", "\t">>, <<"(", "a", "?", "[">>, <<"(", "do", ",">>,
               <<"(", "R", "\"", "(">>, <<"(", "a", "{", "{", ",", "}", "}">>},
    Typed <- {"a", ",", ":", "(", ")", "do", " ", "\"", "\n", "]"},
    Characters <- {"a", "do", "R", "(", ")", "[", "]", "{", "}", ",", ":", "?", " ", "\n",
                   "\"", "'", "\\"},
    MaxDelimiter <- 1

ASSUME ProtocolAssumption ==
       /\ Protocol!ArgumentsAssumption /\ Protocol!IdentityAssumption
       /\ Protocol!NamesAssumption /\ Protocol!NullAssumption
ASSUME DeviceAssumption ==
       /\ Device!ArgumentsAssumption /\ Device!IdentityAssumption
       /\ Device!NamesAssumption /\ Device!NullAssumption
ASSUME ImplementationAssumption ==
       /\ Implementation!ArgumentsAssumption /\ Implementation!IdentityAssumption
       /\ Implementation!NamesAssumption /\ Implementation!NullAssumption
ASSUME LookupAssumption == Lookup!CountsAssumption
ASSUME CallAssumption == Call!BoundAssumption
ASSUME RulesAssumption == Rules!StructureAssumption
ASSUME ModifiersAssumption == Modifiers!ModifiersAssumption
ASSUME PayloadsAssumption ==
       Allocate!AllocateAssumption /\ Induction!InductionAssumption /\ Apply!ApplyAssumption
ASSUME OperandAssumption == Operand!LexerAssumption

-----------------------------------------------------------------------------
\* How many slots each part uses.
Slots == [protocol |-> 7, device |-> 7, implementation |-> 7, call |-> 13, lookup |-> 6,
          rules |-> 2, modifiers |-> 1, allocate |-> 7, induction |-> 5, apply |-> 10,
          operand |-> 11]
Init ==
    /\ part \in DOMAIN Slots
    /\ part = "protocol" => Protocol!Init
    /\ part = "device" => Device!Init
    /\ part = "implementation" => Implementation!Init
    /\ part = "call" => Call!Init
    /\ part = "lookup" => Lookup!Init
    /\ part = "rules" => Rules!Init
    /\ part = "modifiers" => Modifiers!Init
    /\ part = "allocate" => Allocate!Init
    /\ part = "induction" => Induction!Init
    /\ part = "apply" => Apply!Init
    /\ part = "operand" => Operand!Init
    /\ Slots[part] < 2 => s2 = 0
    /\ Slots[part] < 3 => s3 = 0 /\ s4 = 0 /\ s5 = 0
    /\ Slots[part] < 6 => s6 = 0
    /\ Slots[part] < 7 => s7 = 0
    /\ Slots[part] < 8 => s8 = 0 /\ s9 = 0 /\ s10 = 0
    /\ Slots[part] < 11 => s11 = 0
    /\ Slots[part] < 13 => s12 = 0 /\ s13 = 0

\* A step of one part, which leaves the last slots alone.
After10 == <<s11, s12, s13>>
After7 == <<s8, s9, s10, After10>>
After5 == <<s6, s7, After7>>
Step(of, unused) == part = of /\ UNCHANGED <<part, unused>>
Next ==
    \/ Step("protocol", After7) /\ Protocol!Next
    \/ Step("device", After7) /\ Device!Next
    \/ Step("implementation", After7) /\ Implementation!Next
    \/ Step("call", <<>>) /\ Call!Next
    \/ Step("lookup", <<s7, After7>>) /\ Lookup!Next
    \/ Step("rules", <<s3, s4, s5, After5>>) /\ Rules!Next
    \/ Step("modifiers", <<s2, s3, s4, s5, After5>>) /\ Modifiers!Next
    \/ Step("allocate", After7) /\ Allocate!Next
    \/ Step("induction", After5) /\ Induction!Next
    \/ Step("apply", After10) /\ Apply!Next
    \/ Step("operand", <<s12, s13>>) /\ Operand!Next
Spec == Init /\ [][Next]_vars

-----------------------------------------------------------------------------
\* The two optional indexes of the selector builder never dangle; calls that
\* follow the grammar build the tree they say; calls that do not, never make a
\* selector that is accepted.
SelectorFaithful ==
    part = "protocol" =>
        /\ Protocol!CursorsInRange
        /\ Protocol!FaithfulWhileSane /\ Protocol!AcceptedIsSane

\* What the audit of a selector accepts says nothing twice, has kind(any)
\* alone in its set, and does not depend on how names are represented.
SelectorVerdict ==
    /\ part = "device" => Device!AnyStandsAlone /\ Device!RepresentationIndependent
    /\ part = "implementation" =>
        Implementation!SaidOnce /\ Implementation!RepresentationIndependent

\* A call that throws has changed nothing, for the first switch admits just
\* what the second takes; a call that returns has made an object of the class
\* the grammar casts it to, and keeps no empty text.
CallIsAtomic ==
    part = "call" =>
        /\ Call!TypeOK /\ Call!PreflightIsExact /\ Call!AllOrNothing
        /\ Call!ClassFits /\ Call!EmptyTextIsRefused

\* A clause is allowed on a directive exactly if the table lists the pair.
AnswerIsMembership ==
    part = "lookup" => Lookup!TypeOK /\ Lookup!Bracketed /\ Lookup!AnswerIsMembership

\* The verdict on a directive depends neither on the order of its clauses nor
\* on the counters it is computed with: it is that of rules on each clause and
\* each pair, and for INIT that of the role of the list.
VerdictsAreByRule ==
    /\ part = "rules" => Rules!VerdictIsOrderFree /\ Rules!AcceptedPairwise
    /\ part = "modifiers" => Modifiers!AcceptedByRole

\* However a clause with a payload of several parts was filled, what it prints
\* or shows a visitor is what was given, and its order and its containers
\* agree.
PayloadsPrintedAsBuilt ==
    /\ part = "allocate" => /\ Allocate!OrderMatchesPayload /\ Allocate!WrittenClausesAgree
                            /\ Allocate!WrittenPrintedAsItIs
    /\ part = "induction" => Induction!ReferencesResolve /\ Induction!VisitsWhatWasGiven

\* What is read inside brackets is kept as it was written.  Of APPLY clauses, an
\* accepted text whose labels lead their clauses is printed as it stands, and of
\* every text the saved clauses are the open ones, whatever was rejected before.
\* Of operand lists, however far the lexer looked ahead and took back: it knows
\* the place it reads; it returns all of the list, cut where its commas divide
\* it; it aborts only where it keeps no offset.
NestedTextsKept ==
    /\ part = "apply" => Apply!LedPrintedAsWritten /\ Apply!SavedIsOpen
    /\ part = "operand" =>
        /\ Operand!LocationExact /\ Operand!TokensPartition
        /\ Operand!ModifiersLeadToColon /\ Operand!AbortedUnanchored

\* What is read inside brackets keeps its place.  The operands of a list are those
\* into which the splitter of the clauses cuts it, although the lexer counts
\* brackets on its own.  Of the APPLY clauses of every text, with labels in
\* whichever parameters, all but the labels is printed where it stood, and a
\* nested clause between its neighbours.
PiecesInPlace ==
    /\ part = "operand" => Operand!CutsAgree
    /\ part = "apply" => Apply!OnlyLabelsMove

\* No call takes back what earlier ones said: closed sets of a selector,
\* errors of a directive, texts of a clause stay, and the search loses no
\* more than half its range.
NothingTakenBack ==
    [][/\ part = "protocol" => Protocol!KeepsClosedSets
       /\ part = "lookup" /\ s5' # s5 => Lookup!HalvesRange
       /\ part = "rules" => Rules!KeepsErrors
       /\ part = "modifiers" => Modifiers!KeepsErrors
       /\ part = "allocate" => Allocate!KeepsOrReports]_vars
=============================================================================
