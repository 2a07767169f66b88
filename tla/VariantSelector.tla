--------------------------- MODULE VariantSelector ---------------------------
(***************************************************************************)
(* The context selector of one variant clause (WHEN, OTHERWISE, MATCH).    *)
(*                                                                         *)
(* OpenMPVariantClause is built by a sequence of calls: begin and end of a *)
(* trait set, begin and end of a trait selector, one call per property and *)
(* one per construct trait.  Where the next piece goes is held in two      *)
(* optional indexes.  A call out of place is not an exception: it records  *)
(* a construction error and leaves the tree alone, or, for a construct     *)
(* trait inside an open selector, records nothing.  validateSelector-      *)
(* Invariants audits the finished tree; the clause is accepted when        *)
(* neither reports anything.                                               *)
(*                                                                         *)
(* The ghosts sane, open and spoken follow the calls by the grammar a      *)
(* caller has to follow, without any index.                                *)
(***************************************************************************)
EXTENDS Naturals, Sequences, FiniteSets

CONSTANTS
    NULL,
    Otherwise,      \* the clause is OTHERWISE, which may have no selector
    SetKinds, TraitKinds, Scores,       \* arguments the callers use
    ImplementationNames, ConstructKinds,
    Spellings, Modes, ContextKinds, Vendors, Orders, Requirements,
    IdentityOf,     \* normalizeOpenMPNamePropertyIdentity, NULL: not a name
    MaxSets, MaxSelectors, MaxProperties    \* bounds on the whole tree

SetKind == {"user", "construct", "device", "target_device", "implementation"}
\* The sets in which a trait selector of each kind is legal.
LegalSets ==
    [condition |-> {"user"}, construct |-> {"construct"},
     kind |-> {"device", "target_device"}, arch |-> {"device", "target_device"},
     isa |-> {"device", "target_device"}, device_num |-> {"target_device"},
     uid |-> {"target_device"}, vendor |-> {"implementation"},
     extension |-> {"implementation"}, requires |-> {"implementation"},
     atomic_default_mem_order |-> {"implementation"},
     implementation_user |-> {"implementation"}]
TraitKind == DOMAIN LegalSets
\* The traits whose properties are names: an identifier or a string literal.
NameListKind == {"kind", "arch", "isa", "uid", "vendor", "extension"}
ParseMode == {"expression", "context_name", "verbatim"}
KnownKind == {"host", "nohost", "any", "cpu", "gpu", "fpga"}
KnownVendor == {"amd", "arm", "bsc", "cray", "fujitsu", "gnu", "ibm", "intel", "llvm",
                "nvidia", "pgi", "ti", "user", "unknown"}
PlainRequirement == {"reverse_offload", "unified_address", "unified_shared_memory",
                     "dynamic_allocators", "self_maps", "device_safesync"}

ArgumentsAssumption ==
    /\ Otherwise \in BOOLEAN
    /\ SetKinds \subseteq SetKind
    /\ TraitKinds \subseteq TraitKind
    /\ Scores \subseteq BOOLEAN
    /\ Modes \subseteq ParseMode
    /\ MaxSets \in Nat /\ MaxSelectors \in Nat /\ MaxProperties \in Nat
\* The empty spelling and the empty name are "".
IdentityAssumption == Spellings \subseteq DOMAIN IdentityOf
\* The name of an enumerator is its own identity, whoever normalizes it.
NamesAssumption ==
    \A name \in (ContextKinds \cap KnownKind) \cup (Vendors \cap KnownVendor) :
        IdentityOf[name] = name
\* NULL, the null pointer, is no enumerator, no name and no key of a selector.
NullAssumption ==
    /\ NULL \notin SetKind \cup KnownKind \cup KnownVendor
    /\ NULL \notin TraitKind \X (ImplementationNames \cup {""}) \X (ConstructKinds \cup {NULL})

VARIABLES
    trait_sets,             \* sets of selectors, in the order of the calls
    active_trait_set,       \* 0: the optional index is empty
    active_trait_selector,
    misused,                \* construction_errors is not empty
    sane, open, spoken      \* ghosts

cursors == <<active_trait_set, active_trait_selector>>
tree == <<trait_sets, active_trait_set, active_trait_selector>>
ghosts == <<sane, open, spoken>>
vars == <<tree, misused, ghosts>>

Init ==
    /\ trait_sets = <<>> /\ active_trait_set = 0 /\ active_trait_selector = 0
    /\ misused = FALSE
    /\ sane = TRUE /\ open = "idle" /\ spoken = <<>>

-----------------------------------------------------------------------------
\* The ghosts.  A call the grammar does not have here ends the sane part.
Say(where, next, said) ==
    IF sane /\ open = where
    THEN sane' = TRUE /\ open' = next /\ spoken' = said
    ELSE sane' = FALSE /\ UNCHANGED <<open, spoken>>
ToLastSet(sets, selector) ==
    [sets EXCEPT ![Len(sets)].selectors = Append(@, selector)]
ToLastSelector(sets, property) ==
    [sets EXCEPT ![Len(sets)].selectors[Len(sets[Len(sets)].selectors)].properties =
        Append(@, property)]
\* What the last set of the spoken tree has; arguments of Say only matter
\* where the ghost state admits the call.
InSet == open = "set"
InSelector == open = "selector"

-----------------------------------------------------------------------------
\* The checks of activeTraitSet and activeTraitSelector.
HasActiveSet == active_trait_set \in 1 .. Len(trait_sets)
HasActiveSelector ==
    /\ HasActiveSet
    /\ active_trait_selector \in 1 .. Len(trait_sets[active_trait_set].selectors)
\* recordVariantError, and nothing else.
Misuse == misused' = TRUE /\ UNCHANGED tree

TotalOf(sets, Size(_)) ==
    LET sum[i \in 0 .. Len(sets)] == IF i = 0 THEN 0 ELSE sum[i - 1] + Size(sets[i])
    IN sum[Len(sets)]
SelectorCount == TotalOf(trait_sets, LAMBDA s : Len(s.selectors))
PropertyCount ==
    TotalOf(trait_sets, LAMBDA s : TotalOf(s.selectors, LAMBDA t : Len(t.properties)))

NewSelector(kind, score, name, directive) ==
    [kind |-> kind, score |-> score, name |-> name, construct |-> directive,
     properties |-> <<>>]

BeginTraitSet(kind) ==
    LET set == [kind |-> kind, selectors |-> <<>>] IN
    /\ IF active_trait_set # 0
       THEN Misuse
       ELSE /\ Len(trait_sets) < MaxSets
            /\ trait_sets' = Append(trait_sets, set)
            /\ active_trait_set' = Len(trait_sets) + 1
            /\ active_trait_selector' = 0
            /\ UNCHANGED misused
    /\ Say("idle", "set", Append(spoken, set))

\* (a slip for the checks: an open selector survives its set)
EndTraitSetSelectorKept ==
    /\ IF active_trait_set = 0
       THEN Misuse
       ELSE active_trait_set' = 0 /\ UNCHANGED <<trait_sets, active_trait_selector, misused>>
    /\ Say("set", "idle", spoken)
EndTraitSet ==
    /\ IF active_trait_set = 0
       THEN Misuse
       ELSE /\ active_trait_set' = 0
            /\ active_trait_selector' = 0
            /\ misused' = (misused \/ active_trait_selector # 0)
            /\ UNCHANGED trait_sets
    /\ Say("set", "idle", spoken)

BeginTraitSelector(kind, score, name) ==
    LET selector == NewSelector(kind, score, name, NULL) IN
    /\ IF ~HasActiveSet \/ active_trait_selector # 0
       THEN Misuse
       ELSE /\ SelectorCount < MaxSelectors
            /\ trait_sets' = [trait_sets EXCEPT ![active_trait_set].selectors =
                                Append(@, selector)]
            /\ active_trait_selector' = Len(trait_sets[active_trait_set].selectors) + 1
            /\ UNCHANGED <<active_trait_set, misused>>
    /\ Say("set", "selector", IF InSet THEN ToLastSet(spoken, selector) ELSE spoken)

EndTraitSelector ==
    /\ IF ~HasActiveSelector
       THEN Misuse
       ELSE /\ active_trait_selector' = 0
            /\ UNCHANGED <<trait_sets, active_trait_set, misused>>
    /\ Say("selector", "set", spoken)

\* (a slip for the checks: the first set is taken instead of the active one)
AddConstructToFront(score, directive) ==
    /\ HasActiveSet /\ SelectorCount < MaxSelectors
    /\ trait_sets' = [trait_sets EXCEPT ![1].selectors =
                        Append(@, NewSelector("construct", score, "", directive))]
    /\ UNCHANGED <<cursors, misused, ghosts>>
\* The construct trait is appended whether or not a selector is open.
AddConstructDirective(score, directive) ==
    LET selector == NewSelector("construct", score, "", directive) IN
    /\ IF ~HasActiveSet
       THEN Misuse
       ELSE /\ SelectorCount < MaxSelectors
            /\ trait_sets' = [trait_sets EXCEPT ![active_trait_set].selectors =
                                Append(@, selector)]
            /\ UNCHANGED <<cursors, misused>>
    /\ Say("set", "set", IF InSet THEN ToLastSet(spoken, selector) ELSE spoken)

AddProperty(property) ==
    /\ IF ~HasActiveSelector
       THEN Misuse
       ELSE /\ PropertyCount < MaxProperties
            /\ trait_sets' =
                [trait_sets EXCEPT
                    ![active_trait_set].selectors[active_trait_selector].properties =
                        Append(@, property)]
            /\ UNCHANGED <<cursors, misused>>
    /\ Say("selector", "selector",
           IF InSelector THEN ToLastSelector(spoken, property) ELSE spoken)
\* A null expression or identifier, or a kind that is no requirement.
RefuseProperty == Misuse /\ sane' = FALSE /\ UNCHANGED <<open, spoken>>

AddExpressionProperty(spelling, mode) ==
    IF spelling = NULL
    THEN RefuseProperty
    ELSE AddProperty([payload |-> "expression", id |-> spelling, mode |-> mode])
AddContextKindProperty(kind) == AddProperty([payload |-> "kind", id |-> kind])
AddContextVendorProperty(vendor) == AddProperty([payload |-> "vendor", id |-> vendor])
AddAtomicDefaultMemOrderProperty(order) ==
    AddProperty([payload |-> "order", id |-> order])
\* A requirement of a plain kind may carry an expression: "none", "good", or
\* one that is empty or of another parse mode, "bad".
AddRequiresProperty(kind, expression) ==
    IF kind \notin PlainRequirement
    THEN RefuseProperty
    ELSE AddProperty([payload |-> "requirement", kind |-> kind, id |-> "",
                      expression |-> expression])
AddRequiresAtomicDefaultMemOrderProperty(order) ==
    AddProperty([payload |-> "requirement", kind |-> "atomic_default_mem_order",
                 id |-> order, expression |-> "none"])
AddRequiresExtensionProperty(identifier) ==
    IF identifier = NULL
    THEN RefuseProperty
    ELSE AddProperty([payload |-> "requirement",
                      kind |-> "ext_implementation_defined_requirement",
                      id |-> identifier, expression |-> "none"])

Next ==
    \/ \E kind \in SetKinds : BeginTraitSet(kind)
    \/ EndTraitSet
    \/ \E kind \in TraitKinds, score \in Scores :
        \E name \in IF kind = "implementation_user" THEN ImplementationNames \ {NULL} ELSE {""} :
            BeginTraitSelector(kind, score, name)
    \/ EndTraitSelector
    \/ \E score \in Scores, directive \in ConstructKinds :
        AddConstructDirective(score, directive)
    \/ \E spelling \in Spellings, mode \in Modes : AddExpressionProperty(spelling, mode)
    \/ \E kind \in ContextKinds : AddContextKindProperty(kind)
    \/ \E vendor \in Vendors : AddContextVendorProperty(vendor)
    \/ \E order \in Orders : AddAtomicDefaultMemOrderProperty(order)
    \/ \E r \in Requirements : AddRequiresProperty(r.kind, r.expression)
    \/ \E order \in Orders : AddRequiresAtomicDefaultMemOrderProperty(order)
    \/ \E name \in ImplementationNames : AddRequiresExtensionProperty(name)

Spec == Init /\ [][Next]_vars

-----------------------------------------------------------------------------
\* validateSelectorInvariants, from the inside out.
ExpectedMode(kind) ==
    CASE kind \in {"condition", "device_num"} -> "expression"
      [] kind \in NameListKind -> "context_name"
      [] OTHER -> "verbatim"

\* (a slip for the checks: an enumerator is not the name it stands for)
IdentityByPayload(kind, p) == <<p.payload, p.id>>
\* What duplicates are recognised by; NULL where the audit reports the
\* property and goes on to the next.  A name is the same whether it was given
\* as an enumerator, an identifier or a literal.
Identity(kind, p) ==
    CASE p.payload = "expression" ->
            IF p.id = "" \/ (kind \in NameListKind /\ IdentityOf[p.id] = NULL) THEN NULL
            ELSE <<"name", IF kind \in NameListKind THEN IdentityOf[p.id] ELSE p.id>>
      [] p.payload = "kind" -> IF p.id \in KnownKind THEN <<"name", p.id>> ELSE NULL
      [] p.payload = "vendor" -> IF p.id \in KnownVendor THEN <<"name", p.id>> ELSE NULL
      [] p.payload = "order" -> <<"order", p.id>>
      [] p.payload = "requirement" ->
            <<"requirement", p.kind,
              IF p.kind = "ext_implementation_defined_requirement" THEN p.id ELSE "">>

RequirementSound(p) ==
    CASE p.kind = "atomic_default_mem_order" -> TRUE
      [] p.kind = "ext_implementation_defined_requirement" -> p.id # ""
      [] OTHER -> p.kind \in PlainRequirement /\ p.expression # "bad"

PropertySound(kind, p) ==
    /\ Identity(kind, p) # NULL
    /\ p.payload = "expression" =>
        /\ p.mode = ExpectedMode(kind)
        /\ kind = "kind" => IdentityOf[p.id] \in KnownKind
        /\ kind = "vendor" => IdentityOf[p.id] \in KnownVendor
    /\ p.payload = "kind" => kind = "kind"
    /\ p.payload = "vendor" => kind = "vendor"
    /\ p.payload = "order" => kind = "atomic_default_mem_order"
    /\ p.payload = "requirement" => kind = "requires" /\ RequirementSound(p)

\* An entry that an earlier one of the list equals, NULL entries aside.
Repeated(Key(_), list) ==
    \E i, j \in DOMAIN list :
        i < j /\ Key(list[i]) = Key(list[j]) /\ Key(list[i]) # NULL

Cardinal(t) ==
    LET n == Len(t.properties) IN
    /\ t.kind \in {"condition", "device_num", "uid", "atomic_default_mem_order"} => n = 1
    /\ t.kind \in {"kind", "arch", "isa", "vendor", "extension", "requires"} => n # 0
    /\ t.kind = "construct" => n = 0
    /\ t.kind = "implementation_user" /\ t.score => n # 0

SelectorLegal(setKind, t) == setKind \in LegalSets[t.kind]
ConstructSound(t) == t.kind = "construct" => t.construct # NULL
SelectorSound(setKind, t) ==
    /\ SelectorLegal(setKind, t)
    /\ ~(setKind \in {"construct", "device", "target_device"} /\ t.score)
    /\ t.kind = "implementation_user" => t.name # ""
    /\ Cardinal(t)
    /\ ConstructSound(t)
    /\ \A i \in DOMAIN t.properties : PropertySound(t.kind, t.properties[i])
    /\ ~Repeated(LAMBDA p : Identity(t.kind, p), t.properties)

SelectorKey(t) == <<t.kind, t.name, t.construct>>
IsAny(kind, p) ==
    \/ kind = "kind" /\ p.payload = "expression" /\ Identity(kind, p) = <<"name", "any">>
    \/ p.payload = "kind" /\ p.id = "any"
AnyAlone(selectors) ==
    (\E t \in {selectors[i] : i \in DOMAIN selectors} :
        \E i \in DOMAIN t.properties : IsAny(t.kind, t.properties[i]))
    => Len(selectors) = 1 /\ Len(selectors[1].properties) = 1

SetSound(set) ==
    /\ set.selectors # <<>>
    /\ \A i \in DOMAIN set.selectors : SelectorSound(set.kind, set.selectors[i])
    /\ ~Repeated(SelectorKey, set.selectors)
    /\ AnyAlone(set.selectors)

SetKindOf(set) == set.kind
ValidateSelectorInvariants(sets) ==
    /\ active_trait_set = 0 /\ active_trait_selector = 0
    /\ Otherwise \/ sets # <<>>
    /\ ~Repeated(SetKindOf, sets)
    /\ \A i \in DOMAIN sets : SetSound(sets[i])

\* Neither the construction nor the audit reports an error.
Accepted == ~misused /\ ValidateSelectorInvariants(trait_sets)

-----------------------------------------------------------------------------
\* The tree, the indexes and the ghosts have their types.
TypeOK ==
    /\ \A i \in DOMAIN trait_sets :
        /\ trait_sets[i].kind \in SetKind
        /\ \A j \in DOMAIN trait_sets[i].selectors :
            trait_sets[i].selectors[j].kind \in TraitKind
    /\ active_trait_set \in 0 .. Len(trait_sets)
    /\ active_trait_selector \in Nat
    /\ misused \in BOOLEAN /\ sane \in BOOLEAN
    /\ open \in {"idle", "set", "selector"}

\* The optional indexes never go stale: an active set is the last one, an
\* active selector exists in it, and all that follows it are construct traits.
\* (The range checks of activeTraitSet and activeTraitSelector never fire.)
CursorsInRange ==
    /\ active_trait_set \in {0, Len(trait_sets)}
    /\ active_trait_selector # 0 =>
        /\ active_trait_set # 0
        /\ active_trait_selector \in DOMAIN trait_sets[active_trait_set].selectors
        /\ \A i \in DOMAIN trait_sets[active_trait_set].selectors :
            i > active_trait_selector =>
                trait_sets[active_trait_set].selectors[i].construct # NULL
                \/ trait_sets[active_trait_set].selectors[i].kind = "construct"

\* Calls that follow the grammar build the tree they say, without an error.
FaithfulWhileSane ==
    sane =>
        /\ trait_sets = spoken
        /\ ~misused
        /\ (active_trait_set # 0) = (open # "idle")
        /\ (active_trait_selector # 0) = (open = "selector")

\* Calls that break the grammar never make a clause that is accepted: what
\* the builder lets pass in silence (a construct trait in an open selector)
\* the audit reports.
AcceptedIsSane == Accepted => sane /\ open = "idle" /\ trait_sets = spoken

\* What an accepted clause requires is said once: no two of its properties, in
\* whatever sets and selectors they stand and however they are spelled, are
\* the same requirement of the same trait.
AllProperties ==
    {at \in (1 .. MaxSets) \X (1 .. MaxSelectors) \X (1 .. MaxProperties) :
        /\ at[1] \in DOMAIN trait_sets /\ at[2] \in DOMAIN trait_sets[at[1]].selectors
        /\ at[3] \in DOMAIN trait_sets[at[1]].selectors[at[2]].properties}
MeaningAt(at) ==
    LET t == trait_sets[at[1]].selectors[at[2]] IN
    <<trait_sets[at[1]].kind, t.kind, t.name, Identity(t.kind, t.properties[at[3]])>>
SaidOnce ==
    Accepted =>
        \A a, b \in AllProperties : MeaningAt(a) = MeaningAt(b) => a = b

\* kind(any) is the only requirement of its set.
AnyStandsAlone ==
    Accepted =>
        \A a, b \in AllProperties :
            (a[1] = b[1] /\ a # b) =>
                Identity("kind", trait_sets[a[1]].selectors[a[2]].properties[a[3]])
                    # <<"name", "any">>
                \/ trait_sets[a[1]].selectors[a[2]].kind # "kind"

\* Acceptance depends on the names, not on how a name was given: replacing
\* each enumerator by the identifier of its name changes nothing.
Spelled(kind, p) ==
    IF (kind = "kind" /\ p.payload = "kind" /\ p.id \in KnownKind)
        \/ (kind = "vendor" /\ p.payload = "vendor" /\ p.id \in KnownVendor)
    THEN [payload |-> "expression", id |-> p.id, mode |-> "context_name"]
    ELSE p
SpelledSelector(t) ==
    [t EXCEPT !.properties = [k \in DOMAIN t.properties |-> Spelled(t.kind, t.properties[k])]]
SpelledSet(set) ==
    [set EXCEPT !.selectors =
        [j \in DOMAIN set.selectors |-> SpelledSelector(set.selectors[j])]]
SpelledOut(sets) == [i \in DOMAIN sets |-> SpelledSet(sets[i])]
RepresentationIndependent ==
    ValidateSelectorInvariants(trait_sets) = ValidateSelectorInvariants(SpelledOut(trait_sets))

\* A set that was closed is never changed again, and no call forgets an error
\* or takes a piece of the tree away.
KeepsClosedSets ==
    /\ Len(trait_sets') >= Len(trait_sets)
    /\ \A i \in DOMAIN trait_sets :
        i < Len(trait_sets) \/ active_trait_set = 0 => trait_sets'[i] = trait_sets[i]
    /\ \A i \in DOMAIN trait_sets :
        Len(trait_sets'[i].selectors) >= Len(trait_sets[i].selectors)
    /\ misused => misused'
ClosedSetsFrozen == [][KeepsClosedSets]_vars
==============================================================================
