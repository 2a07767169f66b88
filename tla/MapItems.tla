------------------------------ MODULE MapItems ------------------------------
(***************************************************************************)
(* The items of a MAP clause and their dist_data policies.                 *)
(*                                                                         *)
(* The lexer hands an item over as one text.  addItemWithRange cuts the    *)
(* policies off, reads each of them, and looks the pieces up in the text   *)
(* again, to know where in the source they stand.  The clause keeps the    *)
(* locators and the lists of policies in two vectors, side by side.        *)
(* Here items are generated together with what they say.                   *)
(***************************************************************************)
EXTENDS TopLevel

CONSTANTS
    Locators, Policies,     \* what is generated: see the instance
    MaxItems, MaxPolicies
ItemsAssumption == MaxItems \in Nat /\ MaxPolicies \in Nat

\* [kind, argument, at]: at is the place of the argument in the item, 0 if none.
Policy(kind, argument, at) == [kind |-> kind, argument |-> argument, at |-> at]
Unknown == Policy("unknown", <<>>, 0)

\* The parenthesis that closes the one at open; quotes are not looked at.
Closing(t, open) ==
    LET depth[i \in open - 1 .. Len(t)] ==
            IF i = open - 1 THEN 0
            ELSE CASE t[i] = "(" -> depth[i - 1] + 1
                   [] t[i] = ")" -> depth[i - 1] - 1
                   [] OTHER -> depth[i - 1]
    IN Least({i \in open .. Len(t) : depth[i] = 0})
\* The words are single characters here, as are their capital forms.
KindOf(name) ==
    CASE name \in {<<"duplicate">>, <<"DUPLICATE">>} -> "duplicate"
      [] name \in {<<"block">>, <<"BLOCK">>} -> "block"
      [] name \in {<<"cyclic">>, <<"CYCLIC">>} -> "cyclic"
      [] OTHER -> "unknown"
\* t: the trimmed text of a policy; begin: its place in the item, 0 if not found.
PolicyOf(t, begin) ==
    LET made(open, argument) ==
            Policy(KindOf(TrimWhitespace(SubSeq(t, 1, open - 1))), argument,
                   IF argument = <<>> \/ begin = 0 THEN 0
                   ELSE begin + Find(argument, t, open + 1) - 1)
        parted(open, close) ==
            CASE t = <<>> -> Unknown
              [] t # <<>> /\ open = 0 -> Policy(KindOf(t), <<>>, 0)
              [] t # <<>> /\ open # 0
                    /\ (close = 0 \/ TrimWhitespace(SubSeq(t, close + 1, Len(t))) # <<>>) ->
                    Unknown
              [] OTHER -> made(open, TrimWhitespace(SubSeq(t, open + 1, close - 1)))
        opening(open) == parted(open, Closing(t, open))
    IN opening(Find(<<"(">>, t, 1))
\* Each policy is looked for behind the one before it.
PoliciesOf(item, texts, from) ==
    LET add(s, t, begin) ==
            [policies |-> Append(s.policies, PolicyOf(t, begin)),
             from |-> IF begin = 0 THEN s.from ELSE begin + Len(t)]
        step(s, t) == add(s, t, IF t = <<>> THEN 0 ELSE Find(t, item, s.from))
    IN FoldLeft(step, [policies |-> <<>>, from |-> from],
                [n \in DOMAIN texts |-> TrimWhitespace(texts[n])]).policies

VARIABLES
    expressions,            \* [text, at] of the locators
    dist_data_policies,     \* a list of policies for each
    said                    \* what the items said
vars == <<expressions, dist_data_policies, said>>

Init == expressions = <<>> /\ dist_data_policies = <<>> /\ said = <<>>

AddItemWithRange(item) ==
    \E suffix \in {SplitMapExpressionDistDataSuffix(item)} :
    \E locator \in {IF suffix = NoSuffix THEN TrimWhitespace(item) ELSE suffix.base} :
    \E at \in {Find(locator, item, 1)} :
    \E texts \in {SplitTopLevelCommaSeparated(suffix.arguments)} :
        /\ expressions' = Append(expressions, [text |-> locator, at |-> at])
        /\ dist_data_policies' = Append(dist_data_policies,
                CASE suffix = NoSuffix -> <<>>
                  [] suffix # NoSuffix /\ texts = <<>> -> <<Unknown>>
                  [] OTHER -> PoliciesOf(item, texts, at + Len(locator)))

-----------------------------------------------------------------------------
\* The generated items: a locator, then policies, each [text, kind, argument,
\* offset] with the offset of its argument in its text.
ItemText(locator, policies) ==
    locator \o (IF policies = <<>> THEN <<>>
                ELSE <<" ", "dist_data", "(">> \o
                     FlattenSeq([n \in DOMAIN policies |->
                        IF n = 1 THEN policies[n].text ELSE <<",">> \o policies[n].text])
                     \o <<")">>)
PlaceOf(locator, policies, n) ==
    Len(ItemText(locator, SubSeq(policies, 1, n))) - Len(policies[n].text)
Says(locator, policies) ==
    [text |-> TrimWhitespace(locator),
     policies |-> [n \in DOMAIN policies |->
        Policy(policies[n].kind, policies[n].argument,
               IF policies[n].argument = <<>> THEN 0
               ELSE PlaceOf(locator, policies, n) + policies[n].offset - 1)]]
AddItem(locator, policies) ==
    /\ Len(said) < MaxItems
    /\ \E item \in {ItemText(locator, policies)} : AddItemWithRange(item)
    /\ said' = Append(said, Says(locator, policies))
Next == \E locator \in Locators :
    \E policies \in UNION {[1 .. n -> Policies] : n \in 0 .. MaxPolicies} :
        AddItem(locator, policies)
Spec == Init /\ [][Next]_vars

\* Every locator stands beside its own policies, each with the kind and the
\* argument it was written with, and placed where that argument stands, even
\* when the same text occurs earlier in the item.
PoliciesRecognised ==
    /\ Len(expressions) = Len(said) /\ Len(dist_data_policies) = Len(said)
    /\ \A i \in DOMAIN said :
        /\ expressions[i].text = said[i].text
        /\ dist_data_policies[i] = said[i].policies
=============================================================================
