---------------------------- MODULE InitModifiers ----------------------------
(***************************************************************************)
(* The modifiers of INIT and of the operations of APPEND_ARGS.             *)
(*                                                                         *)
(* One list serves three directives: the grammar, or a host program, adds  *)
(* modifiers one by one, and validateInitModifiers reads the finished list *)
(* either for an interop object or for a depobj.                           *)
(***************************************************************************)
EXTENDS Naturals, Sequences, FiniteSets, Functions

CONSTANTS MaxModifiers      \* bound on the length of a list
ModifiersAssumption == MaxModifiers \in Nat

\* value: the enumerator, "unknown" for any that names nothing here; argument:
\* "none" for the categories without one, else the spelling is empty or not.
InteropTypes == {"target", "targetsync", "unknown"}
DirectiveNames == {"depobj", "interop", "unknown"}
\* Five types of DEPEND are known; "in" and "out" stand for them.
DependenceTypes == {"in", "out", "unknown"}
Modifier == [category : {"InteropType"}, value : InteropTypes, argument : {"none"}]
       \cup [category : {"DirectiveName"}, value : DirectiveNames, argument : {"none"}]
       \cup [category : {"PreferType"}, value : {"prefer_type"}, argument : {"empty", "text"}]
       \cup [category : {"Depinfo"}, value : DependenceTypes, argument : {"empty", "text"}]

VARIABLE modifiers
Init == modifiers = <<>>
Add(category, value, argument) ==
    /\ Len(modifiers) < MaxModifiers
    /\ modifiers' = Append(modifiers, [category |-> category, value |-> value,
                                       argument |-> argument])
AddInteropType == \E value \in InteropTypes : Add("InteropType", value, "none")
AddDirectiveName == \E value \in DirectiveNames : Add("DirectiveName", value, "none")
AddPreferType == \E argument \in {"empty", "text"} : Add("PreferType", "prefer_type", argument)
AddDepinfo == \E value \in DependenceTypes, argument \in {"empty", "text"} :
    Add("Depinfo", value, argument)
Next == AddInteropType \/ AddDirectiveName \/ AddPreferType \/ AddDepinfo
Spec == Init /\ [][Next]_modifiers

-----------------------------------------------------------------------------
Count(list, value) == Cardinality({i \in DOMAIN list : list[i].value = value})
CountDepinfo(list) == Cardinality({i \in DOMAIN list : list[i].category = "Depinfo"})
CountTypes(list) == Count(list, "target") + Count(list, "targetsync")

Repeated(list) ==
    \/ \E value \in {"prefer_type", "target", "targetsync"} : Count(list, value) > 1
    \/ CountDepinfo(list) > 1
    \/ Count(list, "depobj") + Count(list, "interop") > 1

\* The two errors that say that something is missing.
Missing == {"interop type required", "depinfo required"}
ModifierErrors(list, on) ==
    {e \in Missing \cup {"argument", "kind", "repeated", "interop type", "depinfo",
                         "prefer_type", "depobj name", "interop name"} :
        \/ e = "argument" /\ \E i \in DOMAIN list : list[i].argument = "empty"
        \/ e = "kind" /\ Count(list, "unknown") > 0
        \/ e = "repeated" /\ Repeated(list)
        \/ e = "interop type required" /\ on = "interop" /\ CountTypes(list) = 0
        \/ e = "interop type" /\ on # "interop" /\ CountTypes(list) # 0
        \/ e = "depinfo required" /\ on = "depobj" /\ CountDepinfo(list) = 0
        \/ e = "depinfo" /\ on # "depobj" /\ CountDepinfo(list) # 0
        \/ e = "prefer_type" /\ on # "interop" /\ Count(list, "prefer_type") # 0
        \/ e = "depobj name" /\ on = "interop" /\ Count(list, "depobj") # 0
        \/ e = "interop name" /\ on # "interop" /\ Count(list, "interop") # 0}

-----------------------------------------------------------------------------
Directives == {"interop", "depobj"}
Accepted(on) == ModifierErrors(modifiers, on) = {}
Values == {modifiers[i].value : i \in DOMAIN modifiers}

\* A list is accepted for an interop object exactly when no two of its
\* modifiers are of one sort and it has a type; for a depobj exactly when it
\* has one dependence with a locator and at most the name besides: so no list
\* is accepted for both.
Sort(m) == IF m.category \in {"Depinfo", "DirectiveName"} THEN m.category ELSE m.value
Sound == /\ IsInjective([i \in DOMAIN modifiers |-> Sort(modifiers[i])])
         /\ \A i \in DOMAIN modifiers : modifiers[i].argument # "empty"
AcceptedByRole ==
    /\ Accepted("interop") <=>
        Sound /\ Values \subseteq {"target", "targetsync", "interop", "prefer_type"}
              /\ Values \cap {"target", "targetsync"} # {}
    /\ Accepted("depobj") <=>
        Sound /\ Values \subseteq {"in", "out", "depobj"} /\ Values # {"depobj"} /\ Values # {}

\* A modifier that was added cannot be taken back, so nothing added later may
\* hide an error, unless it is that something was missing.
KeepsErrors ==
    \A on \in Directives :
        ModifierErrors(modifiers, on) \ Missing \subseteq ModifierErrors(modifiers', on)
ErrorsStay == [][KeepsErrors]_modifiers
=============================================================================
