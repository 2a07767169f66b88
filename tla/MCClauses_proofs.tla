--------------------------- MODULE MCClauses_proofs ---------------------------
(***************************************************************************)
(* The invariants of the composition of the parts that build one clause    *)
(* or judge its directive, from the invariants of the parts.               *)
(*                                                                         *)
(* A part's proofs are about its own variables and constants: an instance  *)
(* of them with the slots the part uses is about the part as it takes its  *)
(* turns here.  The first lemma on each part says that the instance has    *)
(* the part's behaviours and its properties.                               *)
(***************************************************************************)
EXTENDS ClauseParts_proofs

-----------------------------------------------------------------------------
(* The parts, with their proofs. *)

ProtocolProofs == INSTANCE VariantSelector_proofs WITH
    trait_sets <- s1, active_trait_set <- s2, active_trait_selector <- s3, misused <- s4,
    sane <- s5, open <- s6, spoken <- s7,
    Otherwise <- FALSE, SetKinds <- {"construct", "user"},
    TraitKinds <- {"condition", "construct"}, Scores <- {FALSE}, ImplementationNames <- {},
    ConstructKinds <- {"parallel", "simd"}, Spellings <- {NULL, "x"},
    Modes <- {"expression"}, ContextKinds <- {}, Vendors <- {}, Orders <- {},
    Requirements <- {}, IdentityOf <- [s \in {NULL, "x"} |-> s],
    MaxSets <- 2, MaxSelectors <- 3, MaxProperties <- 2
DeviceProofs == INSTANCE VariantSelector_proofs WITH
    trait_sets <- s1, active_trait_set <- s2, active_trait_selector <- s3, misused <- s4,
    sane <- s5, open <- s6, spoken <- s7,
    Otherwise <- FALSE, SetKinds <- {"device", "target_device"},
    TraitKinds <- {"kind", "arch", "device_num"}, Scores <- {FALSE}, ImplementationNames <- {},
    ConstructKinds <- {}, Spellings <- {"any", "quoted_any", "host"},
    Modes <- {"context_name"}, ContextKinds <- {"any", "host", "unknown"}, Vendors <- {},
    Orders <- {}, Requirements <- {}, IdentityOf <- IdentityOf,
    MaxSets <- 2, MaxSelectors <- 2, MaxProperties <- 2
ImplementationProofs == INSTANCE VariantSelector_proofs WITH
    trait_sets <- s1, active_trait_set <- s2, active_trait_selector <- s3, misused <- s4,
    sane <- s5, open <- s6, spoken <- s7,
    Otherwise <- TRUE, SetKinds <- {"implementation"},
    TraitKinds <- {"vendor", "requires", "implementation_user"}, Scores <- {FALSE, TRUE},
    ImplementationNames <- {NULL, "", "x"}, ConstructKinds <- {},
    Spellings <- {"amd", "quoted_amd", "one_plus_one"}, Modes <- {"context_name"},
    ContextKinds <- {}, Vendors <- {"amd", "unspecified"}, Orders <- {"seq_cst"},
    Requirements <- {[kind |-> "device_safesync", expression |-> "good"],
                     [kind |-> "device_safesync", expression |-> "bad"],
                     [kind |-> "private", expression |-> "none"]},
    IdentityOf <- IdentityOf, MaxSets <- 1, MaxSelectors <- 2, MaxProperties <- 2
CallProofs == INSTANCE ClauseArguments_proofs WITH
    kind <- s1, arguments <- s2, pc <- s3, why <- s4, taken <- s5, text <- s6, class <- s7,
    payload <- s8, registered <- s9, indexed <- s10, placed <- s11, comma <- s12,
    separator <- s13
OperandProofs == INSTANCE OperandLexer_proofs WITH
    original_input <- s1, rest <- s2, location <- s3, states <- s4, current_string <- s5,
    counters <- s6, quote <- s7, expression_begin_offset <- s8, tokens <- s9, status <- s10,
    more <- s11,
    Starts <- {<<"(">>, <<"(", "a", ",", "\t">>, <<"(", "a", "?", "[">>, <<"(", "do", ",">>,
               <<"(", "R", "\"", "(">>, <<"(", "a", "{", "{", ",", "}", "}">>},
    Typed <- {"a", ",", ":", "(", ")", "do", " ", "\"", "\n", "]"},
    Characters <- {"a", "do", "R", "(", ")", "[", "]", "{", "}", ",", ":", "?", " ", "\n",
                   "\"", "'", "\\"},
    MaxDelimiter <- 1

-----------------------------------------------------------------------------
(* They are the parts of MCClauses. *)

\* The selector builder, called in any order.
LEMMA ProtocolAlike ==
    /\ Protocol!Init <=> ProtocolProofs!Init
    /\ Protocol!Next <=> ProtocolProofs!Next
    /\ Protocol!ArgumentsAssumption <=> ProtocolProofs!ArgumentsAssumption
    /\ ProtocolProofs!CursorsInRange => Protocol!CursorsInRange
    /\ ProtocolProofs!FaithfulWhileSane => Protocol!FaithfulWhileSane
    /\ ProtocolProofs!AcceptedIsSane => Protocol!AcceptedIsSane
<1>1. Protocol!Init <=> ProtocolProofs!Init
    BY DEF
        Protocol!Init, ProtocolProofs!Init
<1>2. Protocol!Next <=> ProtocolProofs!Next
    BY DEF
        Protocol!PlainRequirement, ProtocolProofs!PlainRequirement, Protocol!cursors,
        ProtocolProofs!cursors, Protocol!tree, ProtocolProofs!tree, Protocol!Say,
        ProtocolProofs!Say, Protocol!ToLastSet, ProtocolProofs!ToLastSet,
        Protocol!ToLastSelector, ProtocolProofs!ToLastSelector, Protocol!InSet,
        ProtocolProofs!InSet, Protocol!InSelector, ProtocolProofs!InSelector,
        Protocol!HasActiveSet, ProtocolProofs!HasActiveSet, Protocol!HasActiveSelector,
        ProtocolProofs!HasActiveSelector, Protocol!Misuse, ProtocolProofs!Misuse,
        Protocol!TotalOf, ProtocolProofs!TotalOf, Protocol!SelectorCount,
        ProtocolProofs!SelectorCount, Protocol!PropertyCount, ProtocolProofs!PropertyCount,
        Protocol!NewSelector, ProtocolProofs!NewSelector, Protocol!BeginTraitSet,
        ProtocolProofs!BeginTraitSet, Protocol!EndTraitSet, ProtocolProofs!EndTraitSet,
        Protocol!BeginTraitSelector, ProtocolProofs!BeginTraitSelector,
        Protocol!EndTraitSelector, ProtocolProofs!EndTraitSelector,
        Protocol!AddConstructDirective, ProtocolProofs!AddConstructDirective,
        Protocol!AddProperty, ProtocolProofs!AddProperty, Protocol!RefuseProperty,
        ProtocolProofs!RefuseProperty, Protocol!AddExpressionProperty,
        ProtocolProofs!AddExpressionProperty, Protocol!AddContextKindProperty,
        ProtocolProofs!AddContextKindProperty, Protocol!AddContextVendorProperty,
        ProtocolProofs!AddContextVendorProperty, Protocol!AddAtomicDefaultMemOrderProperty,
        ProtocolProofs!AddAtomicDefaultMemOrderProperty, Protocol!AddRequiresProperty,
        ProtocolProofs!AddRequiresProperty, Protocol!AddRequiresAtomicDefaultMemOrderProperty,
        ProtocolProofs!AddRequiresAtomicDefaultMemOrderProperty,
        Protocol!AddRequiresExtensionProperty, ProtocolProofs!AddRequiresExtensionProperty,
        Protocol!Next, ProtocolProofs!Next
<1>3. /\ Protocol!ArgumentsAssumption <=> ProtocolProofs!ArgumentsAssumption
    BY DEF
        Protocol!SetKind, ProtocolProofs!SetKind, Protocol!LegalSets, ProtocolProofs!LegalSets,
        Protocol!TraitKind, ProtocolProofs!TraitKind, Protocol!ParseMode,
        ProtocolProofs!ParseMode, Protocol!ArgumentsAssumption,
        ProtocolProofs!ArgumentsAssumption
<1>4. ProtocolProofs!CursorsInRange => Protocol!CursorsInRange
    BY DEF
        Protocol!CursorsInRange, ProtocolProofs!CursorsInRange
<1>5. ProtocolProofs!FaithfulWhileSane => Protocol!FaithfulWhileSane
    BY DEF
        Protocol!FaithfulWhileSane, ProtocolProofs!FaithfulWhileSane
<1>6. ProtocolProofs!AcceptedIsSane => Protocol!AcceptedIsSane
    BY DEF
        Protocol!LegalSets, ProtocolProofs!LegalSets, Protocol!NameListKind,
        ProtocolProofs!NameListKind, Protocol!KnownKind, ProtocolProofs!KnownKind,
        Protocol!KnownVendor, ProtocolProofs!KnownVendor, Protocol!PlainRequirement,
        ProtocolProofs!PlainRequirement, Protocol!ExpectedMode, ProtocolProofs!ExpectedMode,
        Protocol!Identity, ProtocolProofs!Identity, Protocol!RequirementSound,
        ProtocolProofs!RequirementSound, Protocol!PropertySound, ProtocolProofs!PropertySound,
        Protocol!Repeated, ProtocolProofs!Repeated, Protocol!Cardinal, ProtocolProofs!Cardinal,
        Protocol!SelectorLegal, ProtocolProofs!SelectorLegal, Protocol!ConstructSound,
        ProtocolProofs!ConstructSound, Protocol!SelectorSound, ProtocolProofs!SelectorSound,
        Protocol!SelectorKey, ProtocolProofs!SelectorKey, Protocol!IsAny, ProtocolProofs!IsAny,
        Protocol!AnyAlone, ProtocolProofs!AnyAlone, Protocol!SetSound, ProtocolProofs!SetSound,
        Protocol!SetKindOf, ProtocolProofs!SetKindOf, Protocol!ValidateSelectorInvariants,
        ProtocolProofs!ValidateSelectorInvariants, Protocol!Accepted, ProtocolProofs!Accepted,
        Protocol!AcceptedIsSane, ProtocolProofs!AcceptedIsSane
<1> QED
    BY <1>1, <1>2, <1>3, <1>4, <1>5, <1>6

\* The selectors of a device set.
LEMMA DeviceAlike ==
    /\ Device!Init <=> DeviceProofs!Init
    /\ Device!Next <=> DeviceProofs!Next
    /\ Device!ArgumentsAssumption <=> DeviceProofs!ArgumentsAssumption
    /\ Device!NullAssumption <=> DeviceProofs!NullAssumption
    /\ Device!NamesAssumption <=> DeviceProofs!NamesAssumption
    /\ DeviceProofs!AnyStandsAlone => Device!AnyStandsAlone
    /\ DeviceProofs!RepresentationIndependent => Device!RepresentationIndependent
<1>1. Device!Init <=> DeviceProofs!Init
    BY DEF
        Device!Init, DeviceProofs!Init
<1>2. Device!Next <=> DeviceProofs!Next
    BY DEF
        Device!PlainRequirement, DeviceProofs!PlainRequirement, Device!cursors,
        DeviceProofs!cursors, Device!tree, DeviceProofs!tree, Device!Say, DeviceProofs!Say,
        Device!ToLastSet, DeviceProofs!ToLastSet, Device!ToLastSelector,
        DeviceProofs!ToLastSelector, Device!InSet, DeviceProofs!InSet, Device!InSelector,
        DeviceProofs!InSelector, Device!HasActiveSet, DeviceProofs!HasActiveSet,
        Device!HasActiveSelector, DeviceProofs!HasActiveSelector, Device!Misuse,
        DeviceProofs!Misuse, Device!TotalOf, DeviceProofs!TotalOf, Device!SelectorCount,
        DeviceProofs!SelectorCount, Device!PropertyCount, DeviceProofs!PropertyCount,
        Device!NewSelector, DeviceProofs!NewSelector, Device!BeginTraitSet,
        DeviceProofs!BeginTraitSet, Device!EndTraitSet, DeviceProofs!EndTraitSet,
        Device!BeginTraitSelector, DeviceProofs!BeginTraitSelector, Device!EndTraitSelector,
        DeviceProofs!EndTraitSelector, Device!AddConstructDirective,
        DeviceProofs!AddConstructDirective, Device!AddProperty, DeviceProofs!AddProperty,
        Device!RefuseProperty, DeviceProofs!RefuseProperty, Device!AddExpressionProperty,
        DeviceProofs!AddExpressionProperty, Device!AddContextKindProperty,
        DeviceProofs!AddContextKindProperty, Device!AddContextVendorProperty,
        DeviceProofs!AddContextVendorProperty, Device!AddAtomicDefaultMemOrderProperty,
        DeviceProofs!AddAtomicDefaultMemOrderProperty, Device!AddRequiresProperty,
        DeviceProofs!AddRequiresProperty, Device!AddRequiresAtomicDefaultMemOrderProperty,
        DeviceProofs!AddRequiresAtomicDefaultMemOrderProperty,
        Device!AddRequiresExtensionProperty, DeviceProofs!AddRequiresExtensionProperty,
        Device!Next, DeviceProofs!Next
<1>3. /\ Device!ArgumentsAssumption <=> DeviceProofs!ArgumentsAssumption
      /\ Device!NullAssumption <=> DeviceProofs!NullAssumption
      /\ Device!NamesAssumption <=> DeviceProofs!NamesAssumption
    BY DEF
        Device!SetKind, DeviceProofs!SetKind, Device!LegalSets, DeviceProofs!LegalSets,
        Device!TraitKind, DeviceProofs!TraitKind, Device!ParseMode, DeviceProofs!ParseMode,
        Device!KnownKind, DeviceProofs!KnownKind, Device!KnownVendor, DeviceProofs!KnownVendor,
        Device!ArgumentsAssumption, DeviceProofs!ArgumentsAssumption, Device!NamesAssumption,
        DeviceProofs!NamesAssumption, Device!NullAssumption, DeviceProofs!NullAssumption
<1>4. DeviceProofs!AnyStandsAlone => Device!AnyStandsAlone
    BY DEF
        Device!LegalSets, DeviceProofs!LegalSets, Device!NameListKind,
        DeviceProofs!NameListKind, Device!KnownKind, DeviceProofs!KnownKind, Device!KnownVendor,
        DeviceProofs!KnownVendor, Device!PlainRequirement, DeviceProofs!PlainRequirement,
        Device!ExpectedMode, DeviceProofs!ExpectedMode, Device!Identity, DeviceProofs!Identity,
        Device!RequirementSound, DeviceProofs!RequirementSound, Device!PropertySound,
        DeviceProofs!PropertySound, Device!Repeated, DeviceProofs!Repeated, Device!Cardinal,
        DeviceProofs!Cardinal, Device!SelectorLegal, DeviceProofs!SelectorLegal,
        Device!ConstructSound, DeviceProofs!ConstructSound, Device!SelectorSound,
        DeviceProofs!SelectorSound, Device!SelectorKey, DeviceProofs!SelectorKey, Device!IsAny,
        DeviceProofs!IsAny, Device!AnyAlone, DeviceProofs!AnyAlone, Device!SetSound,
        DeviceProofs!SetSound, Device!SetKindOf, DeviceProofs!SetKindOf,
        Device!ValidateSelectorInvariants, DeviceProofs!ValidateSelectorInvariants,
        Device!Accepted, DeviceProofs!Accepted, Device!AllProperties,
        DeviceProofs!AllProperties, Device!AnyStandsAlone, DeviceProofs!AnyStandsAlone
<1>5. DeviceProofs!RepresentationIndependent => Device!RepresentationIndependent
    BY DEF
        Device!LegalSets, DeviceProofs!LegalSets, Device!NameListKind,
        DeviceProofs!NameListKind, Device!KnownKind, DeviceProofs!KnownKind, Device!KnownVendor,
        DeviceProofs!KnownVendor, Device!PlainRequirement, DeviceProofs!PlainRequirement,
        Device!ExpectedMode, DeviceProofs!ExpectedMode, Device!Identity, DeviceProofs!Identity,
        Device!RequirementSound, DeviceProofs!RequirementSound, Device!PropertySound,
        DeviceProofs!PropertySound, Device!Repeated, DeviceProofs!Repeated, Device!Cardinal,
        DeviceProofs!Cardinal, Device!SelectorLegal, DeviceProofs!SelectorLegal,
        Device!ConstructSound, DeviceProofs!ConstructSound, Device!SelectorSound,
        DeviceProofs!SelectorSound, Device!SelectorKey, DeviceProofs!SelectorKey, Device!IsAny,
        DeviceProofs!IsAny, Device!AnyAlone, DeviceProofs!AnyAlone, Device!SetSound,
        DeviceProofs!SetSound, Device!SetKindOf, DeviceProofs!SetKindOf,
        Device!ValidateSelectorInvariants, DeviceProofs!ValidateSelectorInvariants,
        Device!Spelled, DeviceProofs!Spelled, Device!SpelledSelector,
        DeviceProofs!SpelledSelector, Device!SpelledSet, DeviceProofs!SpelledSet,
        Device!SpelledOut, DeviceProofs!SpelledOut, Device!RepresentationIndependent,
        DeviceProofs!RepresentationIndependent
<1> QED
    BY <1>1, <1>2, <1>3, <1>4, <1>5

\* The selectors of an implementation set.
LEMMA ImplementationAlike ==
    /\ Implementation!Init <=> ImplementationProofs!Init
    /\ Implementation!Next <=> ImplementationProofs!Next
    /\ Implementation!ArgumentsAssumption <=> ImplementationProofs!ArgumentsAssumption
    /\ Implementation!NullAssumption <=> ImplementationProofs!NullAssumption
    /\ Implementation!NamesAssumption <=> ImplementationProofs!NamesAssumption
    /\ ImplementationProofs!SaidOnce => Implementation!SaidOnce
    /\ ImplementationProofs!RepresentationIndependent => Implementation!RepresentationIndependent
<1>1. Implementation!Init <=> ImplementationProofs!Init
    BY DEF
        Implementation!Init, ImplementationProofs!Init
<1>2. Implementation!Next <=> ImplementationProofs!Next
    BY DEF
        Implementation!PlainRequirement, ImplementationProofs!PlainRequirement,
        Implementation!cursors, ImplementationProofs!cursors, Implementation!tree,
        ImplementationProofs!tree, Implementation!Say, ImplementationProofs!Say,
        Implementation!ToLastSet, ImplementationProofs!ToLastSet, Implementation!ToLastSelector,
        ImplementationProofs!ToLastSelector, Implementation!InSet, ImplementationProofs!InSet,
        Implementation!InSelector, ImplementationProofs!InSelector, Implementation!HasActiveSet,
        ImplementationProofs!HasActiveSet, Implementation!HasActiveSelector,
        ImplementationProofs!HasActiveSelector, Implementation!Misuse,
        ImplementationProofs!Misuse, Implementation!TotalOf, ImplementationProofs!TotalOf,
        Implementation!SelectorCount, ImplementationProofs!SelectorCount,
        Implementation!PropertyCount, ImplementationProofs!PropertyCount,
        Implementation!NewSelector, ImplementationProofs!NewSelector,
        Implementation!BeginTraitSet, ImplementationProofs!BeginTraitSet,
        Implementation!EndTraitSet, ImplementationProofs!EndTraitSet,
        Implementation!BeginTraitSelector, ImplementationProofs!BeginTraitSelector,
        Implementation!EndTraitSelector, ImplementationProofs!EndTraitSelector,
        Implementation!AddConstructDirective, ImplementationProofs!AddConstructDirective,
        Implementation!AddProperty, ImplementationProofs!AddProperty,
        Implementation!RefuseProperty, ImplementationProofs!RefuseProperty,
        Implementation!AddExpressionProperty, ImplementationProofs!AddExpressionProperty,
        Implementation!AddContextKindProperty, ImplementationProofs!AddContextKindProperty,
        Implementation!AddContextVendorProperty, ImplementationProofs!AddContextVendorProperty,
        Implementation!AddAtomicDefaultMemOrderProperty,
        ImplementationProofs!AddAtomicDefaultMemOrderProperty,
        Implementation!AddRequiresProperty, ImplementationProofs!AddRequiresProperty,
        Implementation!AddRequiresAtomicDefaultMemOrderProperty,
        ImplementationProofs!AddRequiresAtomicDefaultMemOrderProperty,
        Implementation!AddRequiresExtensionProperty,
        ImplementationProofs!AddRequiresExtensionProperty, Implementation!Next,
        ImplementationProofs!Next
<1>3. /\ Implementation!ArgumentsAssumption <=> ImplementationProofs!ArgumentsAssumption
      /\ Implementation!NullAssumption <=> ImplementationProofs!NullAssumption
      /\ Implementation!NamesAssumption <=> ImplementationProofs!NamesAssumption
    BY DEF
        Implementation!SetKind, ImplementationProofs!SetKind, Implementation!LegalSets,
        ImplementationProofs!LegalSets, Implementation!TraitKind,
        ImplementationProofs!TraitKind, Implementation!ParseMode,
        ImplementationProofs!ParseMode, Implementation!KnownKind,
        ImplementationProofs!KnownKind, Implementation!KnownVendor,
        ImplementationProofs!KnownVendor, Implementation!ArgumentsAssumption,
        ImplementationProofs!ArgumentsAssumption, Implementation!NamesAssumption,
        ImplementationProofs!NamesAssumption, Implementation!NullAssumption,
        ImplementationProofs!NullAssumption
<1>4. ImplementationProofs!SaidOnce => Implementation!SaidOnce
    BY DEF
        Implementation!LegalSets, ImplementationProofs!LegalSets, Implementation!NameListKind,
        ImplementationProofs!NameListKind, Implementation!KnownKind,
        ImplementationProofs!KnownKind, Implementation!KnownVendor,
        ImplementationProofs!KnownVendor, Implementation!PlainRequirement,
        ImplementationProofs!PlainRequirement, Implementation!ExpectedMode,
        ImplementationProofs!ExpectedMode, Implementation!Identity,
        ImplementationProofs!Identity, Implementation!RequirementSound,
        ImplementationProofs!RequirementSound, Implementation!PropertySound,
        ImplementationProofs!PropertySound, Implementation!Repeated,
        ImplementationProofs!Repeated, Implementation!Cardinal, ImplementationProofs!Cardinal,
        Implementation!SelectorLegal, ImplementationProofs!SelectorLegal,
        Implementation!ConstructSound, ImplementationProofs!ConstructSound,
        Implementation!SelectorSound, ImplementationProofs!SelectorSound,
        Implementation!SelectorKey, ImplementationProofs!SelectorKey, Implementation!IsAny,
        ImplementationProofs!IsAny, Implementation!AnyAlone, ImplementationProofs!AnyAlone,
        Implementation!SetSound, ImplementationProofs!SetSound, Implementation!SetKindOf,
        ImplementationProofs!SetKindOf, Implementation!ValidateSelectorInvariants,
        ImplementationProofs!ValidateSelectorInvariants, Implementation!Accepted,
        ImplementationProofs!Accepted, Implementation!AllProperties,
        ImplementationProofs!AllProperties, Implementation!MeaningAt,
        ImplementationProofs!MeaningAt, Implementation!SaidOnce, ImplementationProofs!SaidOnce
<1>5. ImplementationProofs!RepresentationIndependent => Implementation!RepresentationIndependent
    BY DEF
        Implementation!LegalSets, ImplementationProofs!LegalSets, Implementation!NameListKind,
        ImplementationProofs!NameListKind, Implementation!KnownKind,
        ImplementationProofs!KnownKind, Implementation!KnownVendor,
        ImplementationProofs!KnownVendor, Implementation!PlainRequirement,
        ImplementationProofs!PlainRequirement, Implementation!ExpectedMode,
        ImplementationProofs!ExpectedMode, Implementation!Identity,
        ImplementationProofs!Identity, Implementation!RequirementSound,
        ImplementationProofs!RequirementSound, Implementation!PropertySound,
        ImplementationProofs!PropertySound, Implementation!Repeated,
        ImplementationProofs!Repeated, Implementation!Cardinal, ImplementationProofs!Cardinal,
        Implementation!SelectorLegal, ImplementationProofs!SelectorLegal,
        Implementation!ConstructSound, ImplementationProofs!ConstructSound,
        Implementation!SelectorSound, ImplementationProofs!SelectorSound,
        Implementation!SelectorKey, ImplementationProofs!SelectorKey, Implementation!IsAny,
        ImplementationProofs!IsAny, Implementation!AnyAlone, ImplementationProofs!AnyAlone,
        Implementation!SetSound, ImplementationProofs!SetSound, Implementation!SetKindOf,
        ImplementationProofs!SetKindOf, Implementation!ValidateSelectorInvariants,
        ImplementationProofs!ValidateSelectorInvariants, Implementation!Spelled,
        ImplementationProofs!Spelled, Implementation!SpelledSelector,
        ImplementationProofs!SpelledSelector, Implementation!SpelledSet,
        ImplementationProofs!SpelledSet, Implementation!SpelledOut,
        ImplementationProofs!SpelledOut, Implementation!RepresentationIndependent,
        ImplementationProofs!RepresentationIndependent
<1> QED
    BY <1>1, <1>2, <1>3, <1>4, <1>5

\* One call that adds a clause with arguments.
LEMMA CallAlike ==
    /\ Call!Init <=> CallProofs!Init
    /\ Call!Next <=> CallProofs!Next
    /\ Call!BoundAssumption <=> CallProofs!BoundAssumption
    /\ CallProofs!TypeOK => Call!TypeOK
    /\ CallProofs!PreflightIsExact => Call!PreflightIsExact
    /\ CallProofs!AllOrNothing => Call!AllOrNothing
    /\ CallProofs!ClassFits => Call!ClassFits
    /\ CallProofs!EmptyTextIsRefused => Call!EmptyTextIsRefused
<1>1. Call!Init <=> CallProofs!Init
    BY DEF
        Call!Bare, CallProofs!Bare, Call!BareByHelper, CallProofs!BareByHelper, Call!OneInteger,
        CallProofs!OneInteger, Call!Named, CallProofs!Named, Call!Kinds, CallProofs!Kinds,
        Call!Integer, CallProofs!Integer, Call!Text, CallProofs!Text, Call!Refusing,
        CallProofs!Refusing, Call!Values, CallProofs!Values, Call!Longer, CallProofs!Longer,
        Call!Arguments, CallProofs!Arguments, Call!Init, CallProofs!Init
<1>2. Call!Next <=> CallProofs!Next
    BY DEF
        Call!Bare, CallProofs!Bare, Call!BareByHelper, CallProofs!BareByHelper, Call!OneInteger,
        CallProofs!OneInteger, Call!Named, CallProofs!Named, Call!Integer, CallProofs!Integer,
        Call!Text, CallProofs!Text, Call!Refusing, CallProofs!Refusing, Call!object,
        CallProofs!object, Call!containers, CallProofs!containers, Call!Goto, CallProofs!Goto,
        Call!Throw, CallProofs!Throw, Call!ExpectedIntegers, CallProofs!ExpectedIntegers,
        Call!Asking, CallProofs!Asking, Call!ExpectedArguments, CallProofs!ExpectedArguments,
        Call!Preflight, CallProofs!Preflight, Call!TextAsked, CallProofs!TextAsked,
        Call!IntegersTaken, CallProofs!IntegersTaken, Call!NextTaken, CallProofs!NextTaken,
        Call!TakeArgument, CallProofs!TakeArgument, Call!OwnClass, CallProofs!OwnClass,
        Call!MakeClause, CallProofs!MakeClause, Call!Refused, CallProofs!Refused,
        Call!StoredText, CallProofs!StoredText, Call!Construct, CallProofs!Construct,
        Call!Index, CallProofs!Index, Call!Finish, CallProofs!Finish, Call!Next, CallProofs!Next
<1>3. /\ Call!BoundAssumption <=> CallProofs!BoundAssumption
    BY DEF
        Call!BoundAssumption, CallProofs!BoundAssumption
<1>4. CallProofs!TypeOK => Call!TypeOK
    BY DEF
        Call!Bare, CallProofs!Bare, Call!BareByHelper, CallProofs!BareByHelper, Call!OneInteger,
        CallProofs!OneInteger, Call!Named, CallProofs!Named, Call!Kinds, CallProofs!Kinds,
        Call!Text, CallProofs!Text, Call!TypeOK, CallProofs!TypeOK
<1>5. CallProofs!PreflightIsExact => Call!PreflightIsExact
    BY DEF
        Call!PreflightIsExact, CallProofs!PreflightIsExact
<1>6. CallProofs!AllOrNothing => Call!AllOrNothing
    BY DEF
        Call!AllOrNothing, CallProofs!AllOrNothing
<1>7. CallProofs!ClassFits => Call!ClassFits
    BY DEF
        Call!Downcast, CallProofs!Downcast, Call!ClassFits, CallProofs!ClassFits
<1>8. CallProofs!EmptyTextIsRefused => Call!EmptyTextIsRefused
    BY DEF
        Call!Asking, CallProofs!Asking, Call!Audited, CallProofs!Audited, Call!Agrees,
        CallProofs!Agrees, Call!EmptyTextIsRefused, CallProofs!EmptyTextIsRefused, Call!ToSet,
        CallProofs!ToSet
<1> QED
    BY <1>1, <1>2, <1>3, <1>4, <1>5, <1>6, <1>7, <1>8

\* The list of a firstprivate clause, read character by character.
LEMMA OperandAlike ==
    /\ Operand!Init <=> OperandProofs!Init
    /\ Operand!Next <=> OperandProofs!Next
    /\ Operand!vars = OperandProofs!vars
    /\ Operand!LexerAssumption <=> OperandProofs!LexerAssumption
    /\ OperandProofs!LocationExact => Operand!LocationExact
    /\ OperandProofs!TokensPartition => Operand!TokensPartition
    /\ OperandProofs!ModifiersLeadToColon => Operand!ModifiersLeadToColon
    /\ OperandProofs!AbortedUnanchored => Operand!AbortedUnanchored
<1> USE DEF
        Operand!Least, OperandProofs!Least, Operand!At, OperandProofs!At, Operand!OccursAt,
        OperandProofs!OccursAt, Operand!Front, OperandProofs!Front, Operand!IsSuffix,
        OperandProofs!IsSuffix, Operand!Terminator, OperandProofs!Terminator,
        Operand!Opens, OperandProofs!Opens, Operand!Max, OperandProofs!Max, Operand!Quote,
        OperandProofs!Quote, Operand!TrimWhitespace, OperandProofs!TrimWhitespace,
        Operand!ToSet, OperandProofs!ToSet, Operand!IdentifierChar,
        OperandProofs!IdentifierChar, Operand!Reverse, OperandProofs!Reverse,
        Operand!IsPrefix, OperandProofs!IsPrefix, Operand!Space, OperandProofs!Space,
        Operand!Find, OperandProofs!Find, Operand!Cardinality, OperandProofs!Cardinality,
        Operand!Last, OperandProofs!Last, Operand!Closes, OperandProofs!Closes,
        Operand!Punctuation, OperandProofs!Punctuation, Operand!Min, OperandProofs!Min,
        Operand!capture, OperandProofs!capture, Operand!End, OperandProofs!End,
        Operand!Letters, OperandProofs!Letters, Operand!Invalid, OperandProofs!Invalid,
        Operand!White, OperandProofs!White, Operand!Brackets, OperandProofs!Brackets,
        Operand!Word, OperandProofs!Word, Operand!FreshCounters,
        OperandProofs!FreshCounters, Operand!NoQuote, OperandProofs!NoQuote,
        Operand!Position, OperandProofs!Position, Operand!Advance, OperandProofs!Advance,
        Operand!Advanced, OperandProofs!Advanced, Operand!UpdateTokenLocation,
        OperandProofs!UpdateTokenLocation, Operand!RewindLexerPositionForUnput,
        OperandProofs!RewindLexerPositionForUnput, Operand!Top, OperandProofs!Top,
        Operand!Pop, OperandProofs!Pop, Operand!Stops, OperandProofs!Stops,
        Operand!Decided, OperandProofs!Decided, Operand!Matched, OperandProofs!Matched,
        Operand!Ready, OperandProofs!Ready, Operand!Here, OperandProofs!Here,
        Operand!Consume, OperandProofs!Consume, Operand!Token, OperandProofs!Token,
        Operand!Return, OperandProofs!Return, Operand!SkipBlanks, OperandProofs!SkipBlanks,
        Operand!ModifierListFollows, OperandProofs!ModifierListFollows, Operand!Peeked,
        OperandProofs!Peeked, Operand!LookAhead, OperandProofs!LookAhead,
        Operand!LookedAhead, OperandProofs!LookedAhead, Operand!PushedBack,
        OperandProofs!PushedBack, Operand!PrepareExpressionCapture,
        OperandProofs!PrepareExpressionCapture, Operand!Begin, OperandProofs!Begin,
        Operand!StartExpression, OperandProofs!StartExpression, Operand!Push,
        OperandProofs!Push, Operand!Go, OperandProofs!Go, Operand!ClearExpressionBuffer,
        OperandProofs!ClearExpressionBuffer, Operand!StoreLexeme,
        OperandProofs!StoreLexeme, Operand!EmitAndUnput, OperandProofs!EmitAndUnput,
        Operand!Reads, OperandProofs!Reads, Operand!Plain, OperandProofs!Plain,
        Operand!RawTerminates, OperandProofs!RawTerminates, Operand!Even,
        OperandProofs!Even, Operand!Unread, OperandProofs!Unread, Operand!LineEnds,
        OperandProofs!LineEnds, Operand!PositionAt, OperandProofs!PositionAt,
        Operand!Stopped, OperandProofs!Stopped, Operand!Covered, OperandProofs!Covered
<1>1. Operand!Init <=> OperandProofs!Init
    BY DEF Operand!Init, OperandProofs!Init
<1>2. \A c : Operand!Type(c) <=> OperandProofs!Type(c)
    BY DEF Operand!Type, OperandProofs!Type
<1>3. \A c : Operand!Quoted(c) <=> OperandProofs!Quoted(c)
    BY DEF Operand!Quoted, OperandProofs!Quoted
<1>4. Operand!ClausePunctuation <=> OperandProofs!ClausePunctuation
    BY DEF Operand!ClausePunctuation, OperandProofs!ClausePunctuation
<1>5. Operand!ClauseSpace <=> OperandProofs!ClauseSpace
    BY DEF Operand!ClauseSpace, OperandProofs!ClauseSpace
<1>6. Operand!ClauseWord <=> OperandProofs!ClauseWord
    BY DEF Operand!ClauseWord, OperandProofs!ClauseWord
<1>7. Operand!ClauseOther <=> OperandProofs!ClauseOther
    BY DEF Operand!ClauseOther, OperandProofs!ClauseOther
<1>8. Operand!Scope <=> OperandProofs!Scope
    BY DEF Operand!Scope, OperandProofs!Scope
<1>9. Operand!Newline <=> OperandProofs!Newline
    BY DEF Operand!Newline, OperandProofs!Newline
<1>10. Operand!OpenParenthesis <=> OperandProofs!OpenParenthesis
    BY DEF Operand!OpenParenthesis, OperandProofs!OpenParenthesis
<1>11. Operand!CloseParenthesis <=> OperandProofs!CloseParenthesis
    BY DEF Operand!CloseParenthesis, OperandProofs!CloseParenthesis
<1>12. Operand!Comma <=> OperandProofs!Comma
    BY DEF Operand!Comma, OperandProofs!Comma
<1>13. Operand!Bracket <=> OperandProofs!Bracket
    BY DEF Operand!Bracket, OperandProofs!Bracket
<1>14. Operand!CloseBrace <=> OperandProofs!CloseBrace
    BY DEF Operand!CloseBrace, OperandProofs!CloseBrace
<1>15. Operand!Question <=> OperandProofs!Question
    BY DEF Operand!Question, OperandProofs!Question
<1>16. Operand!Colon <=> OperandProofs!Colon
    BY DEF Operand!Colon, OperandProofs!Colon
<1>17. Operand!Blank <=> OperandProofs!Blank
    BY DEF Operand!Blank, OperandProofs!Blank
<1>18. Operand!BeginQuoted <=> OperandProofs!BeginQuoted
    BY DEF Operand!BeginQuoted, OperandProofs!BeginQuoted
<1>19. Operand!Other <=> OperandProofs!Other
    BY DEF Operand!Other, OperandProofs!Other
<1>20. Operand!EndOfInput <=> OperandProofs!EndOfInput
    BY DEF Operand!EndOfInput, OperandProofs!EndOfInput
<1>21. Operand!Next <=> OperandProofs!Next
    BY <1>2, <1>3, <1>4, <1>5, <1>6, <1>7, <1>8, <1>9, <1>10, <1>11, <1>12, <1>13, <1>14, <1>15,
        <1>16, <1>17, <1>18, <1>19, <1>20
    DEF Operand!Next, OperandProofs!Next
<1>22. Operand!vars = OperandProofs!vars
    BY DEF Operand!vars, OperandProofs!vars
<1>23. Operand!LexerAssumption <=> OperandProofs!LexerAssumption
    BY DEF Operand!LexerAssumption, OperandProofs!LexerAssumption
<1>24. OperandProofs!LocationExact => Operand!LocationExact
    BY DEF Operand!LocationExact, OperandProofs!LocationExact
<1>25. OperandProofs!TokensPartition => Operand!TokensPartition
    BY DEF Operand!TokensPartition, OperandProofs!TokensPartition
<1>26. OperandProofs!ModifiersLeadToColon => Operand!ModifiersLeadToColon
    BY DEF Operand!ModifiersLeadToColon, OperandProofs!ModifiersLeadToColon
<1>27. OperandProofs!AbortedUnanchored => Operand!AbortedUnanchored
    BY DEF Operand!AbortedUnanchored, OperandProofs!AbortedUnanchored
<1> QED
    BY <1>1, <1>21, <1>22, <1>23, <1>24, <1>25, <1>26, <1>27
-----------------------------------------------------------------------------
(* The invariant: that of the part whose turn it is. *)

PartsInv ==
    /\ part = "protocol" => ProtocolProofs!SelectorInv
    /\ part = "device" => DeviceProofs!SelectorInv
    /\ part = "implementation" => ImplementationProofs!SelectorInv
    /\ part = "call" => CallProofs!CallInv
    /\ part = "lookup" => LookupInv
    /\ part = "rules" => s2 \in Seq(ScopeClauses(s1))
    /\ part = "modifiers" => s1 \in Seq(Modifiers!Modifier)
    /\ part = "allocate" => AllocateInv
    /\ part = "induction" => InductionInv
    /\ part = "apply" => ApplyInv
    /\ part = "operand" => OperandProofs!FullInv

\* The invariant holds where a part starts.
LEMMA PartsInit == Init => PartsInv
<1> SUFFICES ASSUME Init PROVE PartsInv
    OBVIOUS
<1>1. part = "protocol" => ProtocolProofs!SelectorInv
    BY ProtocolAlike, ProtocolProofs!SelectorInit DEF Init
<1>2. part = "device" => DeviceProofs!SelectorInv
    BY DeviceAlike, DeviceProofs!SelectorInit DEF Init
<1>3. part = "implementation" => ImplementationProofs!SelectorInv
    BY ImplementationAlike, ImplementationProofs!SelectorInit DEF Init
<1>4. part = "call" => CallProofs!CallInv
    BY CallAlike, CallAssumption, CallProofs!CallInit DEF Init
<1>5. part = "lookup" => LookupInv
    BY LookupAssumption, LookupInit DEF Init
<1>6. \A S : <<>> \in Seq(S)
    OBVIOUS
<1>7. part = "rules" => s2 \in Seq(ScopeClauses(s1))
    BY <1>6 DEF Init, Rules!Init
<1>8. part = "modifiers" => s1 \in Seq(Modifiers!Modifier)
    BY <1>6 DEF Init, Modifiers!Init
<1>9. part = "allocate" => AllocateInv
    BY AllocateInit DEF Init
<1>10. part = "induction" => InductionInv
    BY InductionInit DEF Init
<1>11. part = "apply" => ApplyInv
    BY ApplyStart DEF Init
<1>12. part = "operand" => OperandProofs!FullInv
    BY OperandAlike, OperandAssumption, OperandProofs!FullStart DEF Init
<1> QED
    BY <1>1, <1>2, <1>3, <1>4, <1>5, <1>7, <1>8, <1>9, <1>10, <1>11, <1>12 DEF PartsInv

\* Only the part whose turn it is takes steps.
LEMMA TurnsAreKept ==
    ASSUME [Next]_vars
    PROVE  /\ part' = part
           /\ UNCHANGED vars
              \/ /\ part = "protocol" => Protocol!Next
                 /\ part = "device" => Device!Next
                 /\ part = "implementation" => Implementation!Next
                 /\ part = "call" => Call!Next
                 /\ part = "lookup" => Lookup!Next
                 /\ part = "rules" => Rules!Next
                 /\ part = "modifiers" => Modifiers!Next
                 /\ part = "allocate" => Allocate!Next
                 /\ part = "induction" => Induction!Next
                 /\ part = "apply" => Apply!Next
                 /\ part = "operand" => Operand!Next
<1>1. CASE UNCHANGED vars
    BY <1>1 DEF vars
<1>2. CASE Next
    BY <1>2 DEF Next, Step
<1> QED
    BY <1>1, <1>2

\* A step of a part keeps the part's invariant.
LEMMA PartsStep == PartsInv /\ [Next]_vars => PartsInv'
<1> SUFFICES ASSUME PartsInv, [Next]_vars PROVE PartsInv'
    OBVIOUS
<1>1. ASSUME part = "protocol" PROVE ProtocolProofs!SelectorInv'
    <2>1. [ProtocolProofs!Next]_(ProtocolProofs!vars)
        BY <1>1, TurnsAreKept, ProtocolAlike
        DEF vars, ProtocolProofs!vars, ProtocolProofs!tree, ProtocolProofs!ghosts
    <2> QED
        BY <1>1, <2>1, ProtocolAlike, ProtocolAssumption, ProtocolProofs!SelectorKept
        DEF PartsInv
<1>2. ASSUME part = "device" PROVE DeviceProofs!SelectorInv'
    <2>1. [DeviceProofs!Next]_(DeviceProofs!vars)
        BY <1>2, TurnsAreKept, DeviceAlike
        DEF vars, DeviceProofs!vars, DeviceProofs!tree, DeviceProofs!ghosts
    <2> QED
        BY <1>2, <2>1, DeviceAlike, DeviceAssumption, DeviceProofs!SelectorKept DEF PartsInv
<1>3. ASSUME part = "implementation" PROVE ImplementationProofs!SelectorInv'
    <2>1. [ImplementationProofs!Next]_(ImplementationProofs!vars)
        BY <1>3, TurnsAreKept, ImplementationAlike
        DEF vars, ImplementationProofs!vars, ImplementationProofs!tree,
            ImplementationProofs!ghosts
    <2> QED
        BY <1>3, <2>1, ImplementationAlike, ImplementationAssumption,
            ImplementationProofs!SelectorKept DEF PartsInv
<1>4. ASSUME part = "call" PROVE CallProofs!CallInv'
    <2>1. [CallProofs!Next]_(CallProofs!vars)
        BY <1>4, TurnsAreKept, CallAlike
        DEF vars, CallProofs!vars, CallProofs!object, CallProofs!containers
    <2> QED
        BY <1>4, <2>1, CallProofs!CallStep DEF PartsInv
<1>5. ASSUME part = "lookup" PROVE LookupInv'
    <2>1. [Lookup!Next]_(Lookup!vars)
        BY <1>5, TurnsAreKept DEF vars, Lookup!vars
    <2> QED
        BY <1>5, <2>1, LookupAssumption, LookupStep DEF PartsInv
<1>6. ASSUME part = "rules" PROVE (s2 \in Seq(ScopeClauses(s1)))'
    <2>1. s2 \in Seq(ScopeClauses(s1))
        BY <1>6 DEF PartsInv
    <2>2. CASE UNCHANGED vars
        BY <2>1, <2>2 DEF vars
    <2>3. CASE ~UNCHANGED vars
        BY <1>6, <2>1, <2>3, TurnsAreKept, RuleStep, LongerList
    <2> QED
        BY <2>2, <2>3
<1>7. ASSUME part = "modifiers" PROVE (s1 \in Seq(Modifiers!Modifier))'
    <2>1. s1 \in Seq(Modifiers!Modifier)
        BY <1>7 DEF PartsInv
    <2>2. CASE UNCHANGED vars
        BY <2>1, <2>2 DEF vars
    <2>3. CASE ~UNCHANGED vars
        BY <1>7, <2>1, <2>3, TurnsAreKept, ModifierAdded, LongerList
    <2> QED
        BY <2>2, <2>3
<1>8. ASSUME part = "allocate" PROVE AllocateInv'
    <2>1. AllocateInv
        BY <1>8 DEF PartsInv
    <2>2. CASE UNCHANGED vars
        BY <2>1, <2>2 DEF vars, AllocateInv, AllocateType, MadeForModifiers,
            Allocate!OrderMatchesPayload, Allocate!WrittenClausesAgree, Allocate!Agrees,
            Allocate!UsesAllocatorModifierSyntax
    <2>3. CASE ~UNCHANGED vars
        BY <1>8, <2>1, <2>3, TurnsAreKept, AllocateSteps
    <2> QED
        BY <2>2, <2>3
<1>9. ASSUME part = "induction" PROVE InductionInv'
    <2>1. InductionInv
        BY <1>9 DEF PartsInv
    <2>2. CASE UNCHANGED vars
        <3>1. s1' = s1 /\ s2' = s2 /\ s3' = s3 /\ s4' = s4 /\ s5' = s5
            BY <2>2 DEF vars
        <3>2. InductionType' /\ Induction!ReferencesResolve'
            BY <2>1, <3>1 DEF InductionInv, InductionType, Induction!ReferencesResolve,
                Induction!Indexes, Induction!Of
        <3>3. Shown'
            BY <2>1, <3>1 DEF InductionInv, Shown, Induction!AllTexts, Induction!Names,
                Induction!Visited
        <3> QED
            BY <3>2, <3>3 DEF InductionInv
    <2>3. CASE ~UNCHANGED vars
        BY <1>9, <2>1, <2>3, TurnsAreKept, InductionSteps
    <2> QED
        BY <2>2, <2>3
<1>10. ASSUME part = "apply" PROVE ApplyInv'
    <2>1. ApplyInv
        BY <1>10 DEF PartsInv
    <2>2. CASE UNCHANGED vars
        <3>1. UNCHANGED <<s1, s2, s3, s4, s5, s6, s7, s8, s9>>
            BY <2>2 DEF vars
        <3> QED
            BY <2>1, <3>1, ApplyAlone
    <2>3. CASE ~UNCHANGED vars
        BY <1>10, <2>1, <2>3, TurnsAreKept, ApplyStep
    <2> QED
        BY <2>2, <2>3
<1>11. ASSUME part = "operand" PROVE OperandProofs!FullInv'
    <2>1. [OperandProofs!Next]_(OperandProofs!vars)
        BY <1>11, TurnsAreKept, OperandAlike DEF vars, OperandProofs!vars, OperandProofs!capture
    <2> QED
        BY <1>11, <2>1, OperandAlike, OperandAssumption, OperandProofs!FullStep DEF PartsInv
<1> QED
    BY <1>1, <1>2, <1>3, <1>4, <1>5, <1>6, <1>7, <1>8, <1>9, <1>10, <1>11, TurnsAreKept
    DEF PartsInv

\* What the invariants of the parts say of them.
LEMMA PartsSay ==
    PartsInv => /\ SelectorFaithful /\ SelectorVerdict /\ CallIsAtomic /\ AnswerIsMembership
                /\ VerdictsAreByRule /\ PayloadsPrintedAsBuilt /\ NestedTextsKept
<1> SUFFICES ASSUME PartsInv
             PROVE  /\ SelectorFaithful /\ SelectorVerdict
                    /\ CallIsAtomic /\ AnswerIsMembership /\ VerdictsAreByRule
                    /\ PayloadsPrintedAsBuilt /\ NestedTextsKept
    OBVIOUS
<1>1. SelectorFaithful
    BY ProtocolAlike, ProtocolProofs!InvGivesFaithful, ProtocolProofs!InvGivesSane
    DEF PartsInv, SelectorFaithful
<1>2. part = "device" => Device!AnyStandsAlone /\ Device!RepresentationIndependent
    BY DeviceAlike, DeviceAssumption, DeviceProofs!InvGivesAnyAlone,
        DeviceProofs!InvGivesIndependent DEF PartsInv
<1>3. part = "implementation" =>
        Implementation!SaidOnce /\ Implementation!RepresentationIndependent
    BY ImplementationAlike, ImplementationAssumption,
        ImplementationProofs!InvGivesSaidOnce, ImplementationProofs!InvGivesIndependent
    DEF PartsInv
<1>4. CallIsAtomic
    BY CallAlike, CallProofs!InvGivesAtomic, CallProofs!InvGivesClass,
        CallProofs!InvGivesEmptyRefused DEF PartsInv, CallIsAtomic
<1>5. AnswerIsMembership
    BY DEF PartsInv, AnswerIsMembership, LookupInv
<1>6. VerdictsAreByRule
    BY RulesByPairs, RulesInAnyOrder, ModifiersByRole DEF PartsInv, VerdictsAreByRule
<1>7. PayloadsPrintedAsBuilt
    BY AllocateSays, InductionSays DEF PartsInv, PayloadsPrintedAsBuilt
<1>8. part = "apply" => Apply!LedPrintedAsWritten /\ Apply!SavedIsOpen
    BY PrintedSays, SavedSays DEF PartsInv
<1>9. ASSUME part = "operand"
      PROVE  /\ Operand!LocationExact /\ Operand!TokensPartition
             /\ Operand!ModifiersLeadToColon /\ Operand!AbortedUnanchored
    <2>1. OperandProofs!FullInv /\ OperandProofs!LexerAssumption
        BY <1>9, OperandAlike, OperandAssumption DEF PartsInv
    <2>2. OperandProofs!LocationExact /\ OperandProofs!TokensPartition
        BY <2>1, OperandProofs!LocationSays, OperandProofs!TokensSay DEF OperandProofs!FullInv
    <2>3. OperandProofs!ModifiersLeadToColon /\ OperandProofs!AbortedUnanchored
        BY <2>1, OperandProofs!ModifiersSay, OperandProofs!AbortedSays
        DEF OperandProofs!FullInv
    <2> QED
        BY <2>2, <2>3, OperandAlike
<1>10. NestedTextsKept
    BY <1>8, <1>9 DEF NestedTextsKept
<1> QED
    BY <1>1, <1>2, <1>3, <1>4, <1>5, <1>6, <1>7, <1>10 DEF SelectorVerdict

\* What no step of a part does.
LEMMA PartsTakeNothingBack ==
    ASSUME PartsInv, [Next]_vars, ~UNCHANGED vars
    PROVE  /\ part = "protocol" => Protocol!KeepsClosedSets
           /\ part = "lookup" /\ s5' # s5 => Lookup!HalvesRange
           /\ part = "rules" => Rules!KeepsErrors
           /\ part = "modifiers" => Modifiers!KeepsErrors
           /\ part = "allocate" => Allocate!KeepsOrReports
<1>1. ASSUME part = "protocol" PROVE Protocol!KeepsClosedSets
    <2>1. [ProtocolProofs!Next]_(ProtocolProofs!vars)
        BY <1>1, TurnsAreKept, ProtocolAlike
    <2>2. [ProtocolProofs!KeepsClosedSets]_(ProtocolProofs!vars)
        BY <1>1, <2>1, ProtocolAlike, ProtocolAssumption, ProtocolProofs!SelectorKept
        DEF PartsInv
    <2>3. UNCHANGED ProtocolProofs!vars => ProtocolProofs!KeepsClosedSets
        <3>1. ProtocolProofs!SelectorInv
            BY <1>1 DEF PartsInv
        <3>2. Len(s1) \in Nat
            BY <3>1 DEF ProtocolProofs!SelectorInv, ProtocolProofs!TreeType
        <3> QED
            BY <3>2 DEF ProtocolProofs!vars, ProtocolProofs!tree,
                ProtocolProofs!KeepsClosedSets
    <2> QED
        BY <2>2, <2>3 DEF ProtocolProofs!KeepsClosedSets, Protocol!KeepsClosedSets
<1>2. ASSUME part = "lookup", s5' # s5 PROVE Lookup!HalvesRange
    <2>1. [Lookup!Next]_(Lookup!vars)
        BY <1>2, TurnsAreKept
    <2> QED
        BY <1>2, <2>1, TurnHalves DEF PartsInv
<1>3. ASSUME part = "rules" PROVE Rules!KeepsErrors
    BY <1>3, TurnsAreKept, RuleStep, RulesKeepErrors DEF PartsInv
<1>4. ASSUME part = "modifiers" PROVE Modifiers!KeepsErrors
    BY <1>4, TurnsAreKept, ModifierAdded, ModifiersKeepErrors DEF PartsInv
<1>5. ASSUME part = "allocate" PROVE Allocate!KeepsOrReports
    BY <1>5, TurnsAreKept, AllocateSteps DEF PartsInv
<1> QED
    BY <1>1, <1>2, <1>3, <1>4, <1>5

-----------------------------------------------------------------------------
(* The theorems. *)

\* The optional indexes of the selector builder never dangle; calls that
\* follow the grammar build the tree they say; calls that do not, never make a
\* selector that is accepted.
THEOREM SelectorsAreFaithful == Spec => []SelectorFaithful
    BY PartsInit, PartsStep, PartsSay, PTL DEF Spec

\* What the audit of a selector accepts says nothing twice, has kind(any)
\* alone in its set, and does not depend on how names are represented.
THEOREM VerdictsAreByMeaning == Spec => []SelectorVerdict
    BY PartsInit, PartsStep, PartsSay, PTL DEF Spec

\* A call that adds a clause, of any kind and with any list of arguments up to
\* any length, changes nothing if it throws, and if it returns has made what
\* the grammar takes it for.
THEOREM EveryCallIsAtomic == Spec => []CallIsAtomic
    BY PartsInit, PartsStep, PartsSay, PTL DEF Spec

\* The schema answers yes exactly to the pairs its table lists, for tables of
\* any length over any number of directives and clauses.
THEOREM AnswersAreMembership == Spec => []AnswerIsMembership
    BY PartsInit, PartsStep, PartsSay, PTL DEF Spec

\* The verdict on a directive with clauses of the kinds tried, however many,
\* does not depend on their order: it is accepted exactly if each clause and
\* each pair of clauses is and nothing is missing.  So it is for INIT, whose
\* list is accepted in a role exactly if it has the sorts of that role.
THEOREM VerdictsByRule == Spec => []VerdictsAreByRule
    BY PartsInit, PartsStep, PartsSay, PTL DEF Spec

\* However many setters of an ALLOCATE or INDUCTION clause are called, in
\* whatever order: order and containers of the clause agree; what the grammar
\* built of an ALLOCATE clause without an error is parsed again as what it is;
\* visitors of an INDUCTION clause are shown what was given, unless one of the
\* texts was empty.
THEOREM PayloadsAreFaithful == Spec => []PayloadsPrintedAsBuilt
    BY PartsInit, PartsStep, PartsSay, PTL DEF Spec

\* What is read inside brackets is kept as it was written.  An accepted text
\* of APPLY clauses in which no parameter but the first of a clause has a
\* label, nested however deep and after whatever rejected ones, is printed as
\* it stands; and of every text, late labels or not, what the two stacks save
\* is what is open and no nested clause is without its owner.  The
\* lexer of operand lists, on any text the characters tried can make and
\* however far it looked ahead and took back: knows the line, column and
\* offset it reads at; returns all of the list but blanks, in order and once; takes a
\* word for a modifier only on the way to a colon; and aborts only where it
\* keeps no offset of a blank operand.
THEOREM NestedTextsAreKept == Spec => []NestedTextsKept
    BY PartsInit, PartsStep, PartsSay, PTL DEF Spec

\* No call takes back what earlier ones said: closed sets of a selector stay,
\* errors of a directive and of a list of modifiers stay unless something was
\* missing, a setter of ALLOCATE that changes nothing counts an error, and a
\* turn of the search halves its range.
THEOREM NothingIsTakenBack == Spec => NothingTakenBack
<1> DEFINE Kept ==
        /\ part = "protocol" => Protocol!KeepsClosedSets
        /\ part = "lookup" /\ s5' # s5 => Lookup!HalvesRange
        /\ part = "rules" => Rules!KeepsErrors
        /\ part = "modifiers" => Modifiers!KeepsErrors
        /\ part = "allocate" => Allocate!KeepsOrReports
<1>1. PartsInv /\ [Next]_vars => [Kept]_vars
    BY PartsTakeNothingBack
<1>2. NothingTakenBack <=> [][Kept]_vars
    BY DEF NothingTakenBack
<1> QED
    BY <1>1, <1>2, PartsInit, PartsStep, PTL DEF Spec
=============================================================================
