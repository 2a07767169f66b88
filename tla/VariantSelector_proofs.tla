------------------------ MODULE VariantSelector_proofs ------------------------
(***************************************************************************)
(* Proofs about VariantSelector, for every alphabet of arguments and every *)
(* bound on the tree: the two optional indexes never go stale, calls by    *)
(* the grammar build what they say, calls against it never build a clause  *)
(* that is accepted, and nothing that was closed is changed.               *)
(*                                                                         *)
(* A call changes the tree in one of three ways, or not at all: it adds a  *)
(* set, a selector of the active set or a property of the active selector. *)
(* The first part says what each of these leaves alone; the rest is about  *)
(* these facts and never about the update itself.                          *)
(***************************************************************************)
EXTENDS VariantSelector, SequenceTheorems, TLAPS

-----------------------------------------------------------------------------
(* The tree and its updates. *)

ExpressionProperty ==
    {[payload |-> "expression", id |-> s, mode |-> m] : s \in Spellings, m \in Modes}
KindProperty == {[payload |-> "kind", id |-> k] : k \in ContextKinds}
VendorProperty == {[payload |-> "vendor", id |-> v] : v \in Vendors}
OrderProperty == {[payload |-> "order", id |-> o] : o \in Orders}
RequiresProperty ==
    {[payload |-> "requirement", kind |-> r.kind, id |-> "", expression |-> r.expression] :
        r \in Requirements}
RequiresOrderProperty ==
    {[payload |-> "requirement", kind |-> "atomic_default_mem_order", id |-> o,
      expression |-> "none"] : o \in Orders}
RequiresExtensionProperty ==
    {[payload |-> "requirement", kind |-> "ext_implementation_defined_requirement",
      id |-> n, expression |-> "none"] : n \in ImplementationNames}
Property ==
    ExpressionProperty \cup KindProperty \cup VendorProperty \cup OrderProperty
        \cup RequiresProperty \cup RequiresOrderProperty \cup RequiresExtensionProperty
SelectorName == ImplementationNames \cup {""}
SelectorConstruct == ConstructKinds \cup {NULL}
SelectorRecord == [kind : TraitKind, score : Scores, name : SelectorName,
                   construct : SelectorConstruct, properties : Seq(Property)]
\* Only construct traits have a construct.
Selector == {t \in SelectorRecord : t.kind # "construct" => t.construct = NULL}
TraitSet == [kind : SetKind, selectors : Seq(Selector)]

\* What was there and what is there now, when selectors may have been added
\* to one set, and properties to one selector.
SameSelector(t, u) == t.kind = u.kind /\ t.construct = u.construct

WithSelector(sets, a, t) == [sets EXCEPT ![a].selectors = Append(@, t)]
WithProperty(sets, a, b, p) == [sets EXCEPT ![a].selectors[b].properties = Append(@, p)]

\* Appending a selector to a set changes no other set, and none of its
\* selectors.
LEMMA SelectorAppended ==
    ASSUME NEW sets \in Seq(TraitSet), NEW a \in 1 .. Len(sets), NEW t \in Selector,
           NEW after, after = WithSelector(sets, a, t)
    PROVE  /\ after \in Seq(TraitSet)
           /\ Len(after) = Len(sets)
           /\ \A i \in 1 .. Len(sets) : i # a => after[i] = sets[i]
           /\ after[a].kind = sets[a].kind
           /\ Len(after[a].selectors) = Len(sets[a].selectors) + 1
           /\ \A j \in 1 .. Len(sets[a].selectors) :
                after[a].selectors[j] = sets[a].selectors[j]
           /\ after[a].selectors[Len(sets[a].selectors) + 1] = t
<1> DEFINE n == Len(sets[a].selectors)
<1>1. sets[a] \in TraitSet /\ DOMAIN sets = 1 .. Len(sets) /\ Len(sets) \in Nat
    OBVIOUS
<1>2. PICK old : old = sets[a].selectors
    OBVIOUS
<1>3. old \in Seq(Selector) /\ n = Len(old)
    BY <1>1, <1>2 DEF TraitSet
<1>4. PICK new : new = Append(old, t)
    OBVIOUS
<1>5. /\ new \in Seq(Selector) /\ Len(new) = n + 1 /\ new[n + 1] = t
      /\ \A j \in 1 .. n : new[j] = old[j]
    BY <1>3, <1>4
<1>6. PICK set : set = [sets[a] EXCEPT !.selectors = new]
    OBVIOUS
<1>7. set \in TraitSet /\ set.kind = sets[a].kind /\ set.selectors = new
    BY <1>1, <1>5, <1>6 DEF TraitSet
<1>8. after = [sets EXCEPT ![a] = set]
    BY <1>2, <1>4, <1>6 DEF WithSelector
<1> HIDE DEF n
<1>9. /\ after \in Seq(TraitSet) /\ Len(after) = Len(sets) /\ after[a] = set
      /\ \A i \in 1 .. Len(sets) : i # a => after[i] = sets[i]
    BY <1>1, <1>7, <1>8
<1>10. /\ after[a].kind = sets[a].kind
       /\ Len(after[a].selectors) = n + 1
       /\ after[a].selectors[n + 1] = t
       /\ \A j \in 1 .. n : after[a].selectors[j] = sets[a].selectors[j]
    BY <1>2, <1>5, <1>7, <1>9
<1> QED
    BY <1>9, <1>10 DEF n

\* Appending a property to a selector changes no other set and no other
\* selector, and neither kind nor construct of the one it is appended to.
LEMMA PropertyAppended ==
    ASSUME NEW sets \in Seq(TraitSet), NEW a \in 1 .. Len(sets),
           NEW b \in 1 .. Len(sets[a].selectors), NEW p \in Property,
           NEW after, after = WithProperty(sets, a, b, p)
    PROVE  /\ after \in Seq(TraitSet)
           /\ Len(after) = Len(sets)
           /\ \A i \in 1 .. Len(sets) : i # a => after[i] = sets[i]
           /\ after[a].kind = sets[a].kind
           /\ Len(after[a].selectors) = Len(sets[a].selectors)
           /\ \A j \in 1 .. Len(sets[a].selectors) :
                SameSelector(after[a].selectors[j], sets[a].selectors[j])
<1> DEFINE n == Len(sets[a].selectors)
<1>1. sets[a] \in TraitSet /\ DOMAIN sets = 1 .. Len(sets) /\ Len(sets) \in Nat
    OBVIOUS
<1>2. PICK old : old = sets[a].selectors
    OBVIOUS
<1>3. old \in Seq(Selector) /\ n = Len(old) /\ b \in 1 .. Len(old)
    BY <1>1, <1>2 DEF TraitSet
<1>4. PICK t : t = [old[b] EXCEPT !.properties = Append(@, p)]
    OBVIOUS
<1>5. t \in Selector /\ SameSelector(t, old[b])
    <2>1. old[b] \in Selector
        BY <1>3
    <2>2. old[b] \in SelectorRecord /\ (old[b].kind # "construct" => old[b].construct = NULL)
        BY <2>1 DEF Selector
    <2>3. Append(old[b].properties, p) \in Seq(Property)
        BY <2>2 DEF SelectorRecord
    <2>4. t \in SelectorRecord /\ SameSelector(t, old[b])
        BY <1>4, <2>2, <2>3 DEF SelectorRecord, SameSelector
    <2> QED
        BY <2>2, <2>4 DEF Selector, SameSelector
<1>6. PICK new : new = [old EXCEPT ![b] = t]
    OBVIOUS
<1>7. /\ new \in Seq(Selector) /\ Len(new) = n /\ new[b] = t
      /\ \A j \in 1 .. n : j # b => new[j] = old[j]
    BY <1>3, <1>5, <1>6
<1>8. PICK set : set = [sets[a] EXCEPT !.selectors = new]
    OBVIOUS
<1>9. set \in TraitSet /\ set.kind = sets[a].kind /\ set.selectors = new
    BY <1>1, <1>7, <1>8 DEF TraitSet
<1>10. after = [sets EXCEPT ![a] = set]
    BY <1>2, <1>4, <1>6, <1>8 DEF WithProperty
<1> HIDE DEF n
<1>11. /\ after \in Seq(TraitSet) /\ Len(after) = Len(sets) /\ after[a] = set
       /\ \A i \in 1 .. Len(sets) : i # a => after[i] = sets[i]
    BY <1>1, <1>9, <1>10
<1>12. \A j \in 1 .. n : SameSelector(after[a].selectors[j], sets[a].selectors[j])
    BY <1>2, <1>5, <1>7, <1>9, <1>11 DEF SameSelector
<1> QED
    BY <1>7, <1>9, <1>11, <1>12 DEF n

-----------------------------------------------------------------------------
(* The inductive invariant. *)

\* The tree has its shape.
TreeType ==
    /\ trait_sets \in Seq(TraitSet)
    /\ misused \in BOOLEAN /\ sane \in BOOLEAN
    /\ open \in {"idle", "set", "selector"}

\* An active set is the last one.  An active selector was begun, not added as
\* a construct trait, and only construct traits follow it.
Cursors ==
    /\ active_trait_set \in {0, Len(trait_sets)}
    /\ active_trait_selector \in Nat
    /\ active_trait_selector # 0 =>
        /\ active_trait_set # 0
        /\ active_trait_selector \in 1 .. Len(trait_sets[active_trait_set].selectors)
        /\ trait_sets[active_trait_set].selectors[active_trait_selector].construct = NULL
        /\ \A j \in 1 .. Len(trait_sets[active_trait_set].selectors) :
            j > active_trait_selector =>
                trait_sets[active_trait_set].selectors[j].kind = "construct"

\* As long as the calls follow the grammar, the indexes stand where it does.
GhostsMatch ==
    sane =>
        /\ trait_sets = spoken /\ ~misused
        /\ open = "idle" <=> active_trait_set = 0
        /\ open = "selector" <=> active_trait_selector # 0
        /\ open = "selector" =>
            active_trait_selector = Len(trait_sets[active_trait_set].selectors)

\* A selector no audit passes: in a set of another kind, or a construct trait
\* without its construct.
Flaw ==
    \E i \in 1 .. Len(trait_sets) : \E j \in 1 .. Len(trait_sets[i].selectors) :
        \/ ~SelectorLegal(trait_sets[i].kind, trait_sets[i].selectors[j])
        \/ ~ConstructSound(trait_sets[i].selectors[j])
\* What leaves the grammar leaves a trace: an error or a flaw.
Marked == sane \/ misused \/ Flaw

SelectorInv == TreeType /\ Cursors /\ GhostsMatch /\ Marked

\* The range checks on the indexes never fire: an index that is there is in
\* range.
LEMMA ActiveIsThere ==
    ASSUME SelectorInv
    PROVE  /\ HasActiveSet <=> active_trait_set # 0
           /\ HasActiveSelector <=> active_trait_selector # 0
           /\ DOMAIN trait_sets = 1 .. Len(trait_sets) /\ Len(trait_sets) \in Nat
           /\ \A i \in 1 .. Len(trait_sets) :
                /\ trait_sets[i] \in TraitSet
                /\ trait_sets[i].selectors \in Seq(Selector)
                /\ DOMAIN trait_sets[i].selectors = 1 .. Len(trait_sets[i].selectors)
                /\ Len(trait_sets[i].selectors) \in Nat
<1>1. DOMAIN trait_sets = 1 .. Len(trait_sets) /\ Len(trait_sets) \in Nat
    BY DEF SelectorInv, TreeType
<1>2. HasActiveSet <=> active_trait_set # 0
    <2>1. active_trait_set \in {0, Len(trait_sets)}
        BY DEF SelectorInv, Cursors
    <2>2. PICK n : n = Len(trait_sets)
        OBVIOUS
    <2>3. n \in Nat /\ (active_trait_set = 0 \/ active_trait_set = n)
        BY <1>1, <2>1, <2>2
    <2>4. active_trait_set \in 1 .. n <=> active_trait_set # 0
        BY <2>3
    <2> QED
        BY <2>2, <2>4 DEF HasActiveSet
<1>3. HasActiveSelector <=> active_trait_selector # 0
    BY <1>2 DEF SelectorInv, Cursors, HasActiveSelector
<1>4. \A i \in 1 .. Len(trait_sets) : trait_sets[i] \in TraitSet
    BY DEF SelectorInv, TreeType
<1>5. \A i \in 1 .. Len(trait_sets) : trait_sets[i].selectors \in Seq(Selector)
    BY <1>4 DEF TraitSet
<1> QED
    BY <1>1, <1>2, <1>3, <1>4, <1>5

\* Sets and selectors that are there stay, with their kinds and constructs.
Grows ==
    /\ Len(trait_sets') >= Len(trait_sets)
    /\ \A i \in 1 .. Len(trait_sets) :
        /\ trait_sets'[i].kind = trait_sets[i].kind
        /\ Len(trait_sets'[i].selectors) >= Len(trait_sets[i].selectors)
        /\ \A j \in 1 .. Len(trait_sets[i].selectors) :
            SameSelector(trait_sets'[i].selectors[j], trait_sets[i].selectors[j])

\* A flaw stays in a tree that grows.
LEMMA FlawStays ==
    ASSUME SelectorInv, TreeType', Grows, Flaw
    PROVE  Flaw'
<1>1. PICK i \in 1 .. Len(trait_sets) : \E j \in 1 .. Len(trait_sets[i].selectors) :
        \/ ~SelectorLegal(trait_sets[i].kind, trait_sets[i].selectors[j])
        \/ ~ConstructSound(trait_sets[i].selectors[j])
    BY DEF Flaw
<1>2. PICK j \in 1 .. Len(trait_sets[i].selectors) :
        \/ ~SelectorLegal(trait_sets[i].kind, trait_sets[i].selectors[j])
        \/ ~ConstructSound(trait_sets[i].selectors[j])
    BY <1>1
<1>3. /\ trait_sets' \in Seq(TraitSet) /\ Len(trait_sets') \in Nat
      /\ Len(trait_sets) \in Nat /\ Len(trait_sets[i].selectors) \in Nat
    BY ActiveIsThere DEF TreeType
<1>4. i \in 1 .. Len(trait_sets')
    BY <1>3 DEF Grows
<1>5. trait_sets'[i].selectors \in Seq(Selector)
    <2>1. trait_sets'[i] \in TraitSet
        BY <1>3, <1>4
    <2> QED
        BY <2>1 DEF TraitSet
<1>6. Len(trait_sets'[i].selectors) \in Nat
    BY <1>5
<1>7. j \in 1 .. Len(trait_sets'[i].selectors)
    BY <1>3, <1>6 DEF Grows
<1>8. SameSelector(trait_sets'[i].selectors[j], trait_sets[i].selectors[j])
      /\ trait_sets'[i].kind = trait_sets[i].kind
    BY DEF Grows
<1>9. \/ ~SelectorLegal(trait_sets'[i].kind, trait_sets'[i].selectors[j])
      \/ ~ConstructSound(trait_sets'[i].selectors[j])
    BY <1>2, <1>8 DEF SameSelector, SelectorLegal, ConstructSound
<1> QED
    BY <1>4, <1>7, <1>9 DEF Flaw

\* A call that is out of place records an error and leaves the tree alone.
LEMMA MisuseStep ==
    ASSUME SelectorInv, Misuse, sane' = FALSE, UNCHANGED <<open, spoken>>
    PROVE  SelectorInv' /\ KeepsClosedSets
<1>1. trait_sets' = trait_sets /\ active_trait_set' = active_trait_set
      /\ active_trait_selector' = active_trait_selector /\ misused'
    BY DEF Misuse, tree
<1>2. TreeType' /\ Cursors' /\ GhostsMatch' /\ Marked'
    BY <1>1 DEF SelectorInv, TreeType, Cursors, GhostsMatch, Marked, Misuse
<1>3. KeepsClosedSets
    BY <1>1, ActiveIsThere DEF KeepsClosedSets
<1> QED
    BY <1>2, <1>3 DEF SelectorInv

-----------------------------------------------------------------------------
(* One call at a time. *)

\* beginTraitSet: the new set is the last one and the active one.
LEMMA BeginTraitSetStep ==
    ASSUME ArgumentsAssumption, SelectorInv, NEW kind \in SetKinds, BeginTraitSet(kind)
    PROVE  SelectorInv' /\ KeepsClosedSets
<1> DEFINE set == [kind |-> kind, selectors |-> <<>>]
<1>1. CASE active_trait_set # 0
    <2>1. Misuse
        BY <1>1 DEF BeginTraitSet
    <2>2. sane' = FALSE /\ UNCHANGED <<open, spoken>>
        BY <1>1 DEF BeginTraitSet, Say, SelectorInv, GhostsMatch
    <2> QED
        BY <2>1, <2>2, MisuseStep
<1>2. CASE active_trait_set = 0
    <2>1. /\ trait_sets' = Append(trait_sets, set)
          /\ active_trait_set' = Len(trait_sets) + 1
          /\ active_trait_selector' = 0
          /\ misused' = misused
        BY <1>2 DEF BeginTraitSet
    <2>2. Say("idle", "set", Append(spoken, set))
        BY DEF BeginTraitSet
    <2>3. trait_sets \in Seq(TraitSet) /\ Len(trait_sets) \in Nat
        BY DEF SelectorInv, TreeType
    <2>4. set \in TraitSet
        <3>1. kind \in SetKind
            BY DEF ArgumentsAssumption
        <3>2. <<>> \in Seq(Selector)
            OBVIOUS
        <3> QED
            BY <3>1, <3>2 DEF TraitSet
    <2> HIDE DEF set
    <2>5. /\ trait_sets' \in Seq(TraitSet) /\ Len(trait_sets') = Len(trait_sets) + 1
          /\ \A i \in 1 .. Len(trait_sets) : trait_sets'[i] = trait_sets[i]
        BY <2>1, <2>3, <2>4
    <2>6. sane' = (sane /\ open = "idle")
          /\ open' \in {"idle", "set", "selector"}
        BY <2>2 DEF Say, SelectorInv, TreeType
    <2>7. TreeType'
        BY <2>1, <2>5, <2>6 DEF SelectorInv, TreeType
    <2>8. Cursors'
        BY <2>1, <2>3, <2>5 DEF Cursors
    <2>9. sane => open = "idle"
        BY <1>2 DEF SelectorInv, GhostsMatch
    <2>10. GhostsMatch'
        <3> SUFFICES ASSUME sane' PROVE GhostsMatch'
            BY DEF GhostsMatch
        <3>1. sane /\ open = "idle" /\ open' = "set" /\ spoken' = Append(spoken, set)
            BY <2>2, <2>6 DEF Say
        <3>2. spoken = trait_sets /\ ~misused
            BY <3>1 DEF SelectorInv, GhostsMatch
        <3> QED
            BY <2>1, <2>3, <3>1, <3>2 DEF GhostsMatch
    <2>11. Grows
        BY <2>3, <2>5, ActiveIsThere DEF Grows, SameSelector
    <2>12. Marked'
        BY <2>1, <2>6, <2>7, <2>9, <2>11, FlawStays DEF SelectorInv, Marked
    <2>13. KeepsClosedSets
        BY <2>1, <2>3, <2>5, ActiveIsThere DEF KeepsClosedSets
    <2> QED
        BY <2>7, <2>8, <2>10, <2>12, <2>13 DEF SelectorInv
<1> QED
    BY <1>1, <1>2

\* endTraitSet: a selector that is still open is reported and closed with it.
LEMMA EndTraitSetStep ==
    ASSUME SelectorInv, EndTraitSet
    PROVE  SelectorInv' /\ KeepsClosedSets
<1>1. CASE active_trait_set = 0
    <2>1. Misuse
        BY <1>1 DEF EndTraitSet
    <2>2. sane' = FALSE /\ UNCHANGED <<open, spoken>>
        BY <1>1 DEF EndTraitSet, Say, SelectorInv, GhostsMatch
    <2> QED
        BY <2>1, <2>2, MisuseStep
<1>2. CASE active_trait_set # 0
    <2>1. /\ trait_sets' = trait_sets
          /\ active_trait_set' = 0 /\ active_trait_selector' = 0
          /\ misused' = (misused \/ active_trait_selector # 0)
        BY <1>2 DEF EndTraitSet
    <2>2. Say("set", "idle", spoken)
        BY DEF EndTraitSet
    <2>3. sane' = (sane /\ open = "set") /\ open' \in {"idle", "set", "selector"}
        BY <2>2 DEF Say, SelectorInv, TreeType
    <2>4. TreeType'
        BY <2>1, <2>3 DEF SelectorInv, TreeType
    <2>5. Cursors'
        BY <2>1 DEF Cursors
    <2>6. sane /\ open # "set" => active_trait_selector # 0
        BY <1>2 DEF SelectorInv, GhostsMatch, TreeType
    <2>7. GhostsMatch'
        BY <2>1, <2>2 DEF SelectorInv, GhostsMatch, Say
    <2>8. Marked'
        BY <2>1, <2>3, <2>6 DEF SelectorInv, Marked, Flaw
    <2>9. KeepsClosedSets
        <3>1. misused => misused'
            BY <2>1 DEF SelectorInv, TreeType
        <3>2. trait_sets' = trait_sets
            BY <2>1
        <3> QED
            BY <3>1, <3>2, ActiveIsThere DEF KeepsClosedSets
    <2> QED
        BY <2>4, <2>5, <2>7, <2>8, <2>9 DEF SelectorInv
<1> QED
    BY <1>1, <1>2

\* endTraitSelector: the set stays open.
LEMMA EndTraitSelectorStep ==
    ASSUME SelectorInv, EndTraitSelector
    PROVE  SelectorInv' /\ KeepsClosedSets
<1>1. CASE ~HasActiveSelector
    <2>1. Misuse
        BY <1>1 DEF EndTraitSelector
    <2>2. active_trait_selector = 0
        BY <1>1, ActiveIsThere
    <2>3. sane' = FALSE /\ UNCHANGED <<open, spoken>>
        BY <2>2 DEF EndTraitSelector, Say, SelectorInv, GhostsMatch
    <2> QED
        BY <2>1, <2>3, MisuseStep
<1>2. CASE HasActiveSelector
    <2>1. /\ trait_sets' = trait_sets /\ active_trait_set' = active_trait_set
          /\ active_trait_selector' = 0 /\ misused' = misused
        BY <1>2 DEF EndTraitSelector
    <2>2. active_trait_selector # 0 /\ active_trait_set # 0
        BY <1>2, ActiveIsThere DEF SelectorInv, Cursors
    <2>3. Say("selector", "set", spoken)
        BY DEF EndTraitSelector
    <2>4. sane => open = "selector"
        BY <2>2 DEF SelectorInv, GhostsMatch
    <2>5. sane' = sane /\ open' \in {"idle", "set", "selector"}
        BY <2>3, <2>4 DEF Say, SelectorInv, TreeType
    <2>6. TreeType'
        BY <2>1, <2>5 DEF SelectorInv, TreeType
    <2>7. Cursors'
        BY <2>1 DEF SelectorInv, Cursors
    <2>8. GhostsMatch'
        BY <2>1, <2>2, <2>3 DEF SelectorInv, GhostsMatch, Say
    <2>9. Marked'
        BY <2>1, <2>5 DEF SelectorInv, Marked, Flaw
    <2>10. KeepsClosedSets
        BY <2>1, ActiveIsThere DEF KeepsClosedSets
    <2> QED
        BY <2>6, <2>7, <2>8, <2>9, <2>10 DEF SelectorInv
<1> QED
    BY <1>1, <1>2

\* What adding a selector to the active set does: the tree grows, closed sets
\* stay, and an open selector stays where it was.
LEMMA SelectorAddedStep ==
    ASSUME SelectorInv, HasActiveSet, NEW t \in Selector,
           trait_sets' = WithSelector(trait_sets, active_trait_set, t),
           active_trait_set' = active_trait_set, misused' = misused
    PROVE  LET n == Len(trait_sets[active_trait_set].selectors)
               now == trait_sets'[active_trait_set].selectors
           IN  /\ trait_sets' \in Seq(TraitSet) /\ Len(trait_sets') = Len(trait_sets)
               /\ active_trait_set \in 1 .. Len(trait_sets)
               /\ active_trait_set = Len(trait_sets)
               /\ n \in Nat /\ Len(now) = n + 1 /\ now[n + 1] = t
               /\ \A j \in 1 .. n : now[j] = trait_sets[active_trait_set].selectors[j]
               /\ trait_sets'[active_trait_set].kind = trait_sets[active_trait_set].kind
               /\ Grows /\ KeepsClosedSets
<1> DEFINE n == Len(trait_sets[active_trait_set].selectors)
           now == trait_sets'[active_trait_set].selectors
<1>1. PICK a : a = active_trait_set
    OBVIOUS
<1>2. /\ a \in 1 .. Len(trait_sets) /\ a = Len(trait_sets) /\ a # 0
      /\ Len(trait_sets) \in Nat /\ n \in Nat
    BY <1>1, ActiveIsThere DEF SelectorInv, Cursors, HasActiveSet
<1>3. trait_sets \in Seq(TraitSet)
    BY DEF SelectorInv, TreeType
<1>4. trait_sets' = WithSelector(trait_sets, a, t)
    BY <1>1 DEF WithSelector
<1>5. /\ trait_sets' \in Seq(TraitSet)
      /\ Len(trait_sets') = Len(trait_sets)
      /\ \A i \in 1 .. Len(trait_sets) : i # a => trait_sets'[i] = trait_sets[i]
      /\ trait_sets'[a].kind = trait_sets[a].kind
      /\ Len(now) = n + 1
      /\ \A j \in 1 .. n : now[j] = trait_sets[a].selectors[j]
      /\ now[n + 1] = t
    BY <1>1, <1>2, <1>3, <1>4, SelectorAppended
<1> HIDE DEF n, now
<1>6. \A i \in 1 .. Len(trait_sets) :
        /\ trait_sets'[i].kind = trait_sets[i].kind
        /\ Len(trait_sets'[i].selectors) >= Len(trait_sets[i].selectors)
        /\ \A j \in 1 .. Len(trait_sets[i].selectors) :
            trait_sets'[i].selectors[j] = trait_sets[i].selectors[j]
    <2> TAKE i \in 1 .. Len(trait_sets)
    <2>1. CASE i = a
        BY <1>1, <1>2, <1>5, <2>1 DEF n, now
    <2>2. CASE i # a
        <3>1. Len(trait_sets[i].selectors) \in Nat
            BY ActiveIsThere
        <3> QED
            BY <1>5, <2>2, <3>1
    <2> QED
        BY <2>1, <2>2
<1>7. Grows
    BY <1>2, <1>5, <1>6 DEF Grows, SameSelector
<1>8. KeepsClosedSets
    <2>1. \A i \in DOMAIN trait_sets :
            i < Len(trait_sets) \/ active_trait_set = 0 => trait_sets'[i] = trait_sets[i]
        BY <1>1, <1>2, <1>5, ActiveIsThere
    <2>2. \A i \in DOMAIN trait_sets :
            Len(trait_sets'[i].selectors) >= Len(trait_sets[i].selectors)
        BY <1>6, ActiveIsThere
    <2>3. Len(trait_sets') >= Len(trait_sets)
        BY <1>2, <1>5
    <2> QED
        BY <2>1, <2>2, <2>3 DEF KeepsClosedSets
<1> QED
    BY <1>1, <1>2, <1>5, <1>7, <1>8 DEF n, now

\* beginTraitSelector: the new selector is the last of the active set and the
\* active one.
LEMMA BeginTraitSelectorStep ==
    ASSUME ArgumentsAssumption, SelectorInv, NEW kind \in TraitKinds, NEW score \in Scores,
           NEW name \in SelectorName, BeginTraitSelector(kind, score, name)
    PROVE  SelectorInv' /\ KeepsClosedSets
<1> DEFINE t == NewSelector(kind, score, name, NULL)
<1>1. CASE ~HasActiveSet \/ active_trait_selector # 0
    <2>1. Misuse
        BY <1>1 DEF BeginTraitSelector
    <2>2. active_trait_set = 0 \/ active_trait_selector # 0
        BY <1>1, ActiveIsThere
    <2>3. sane => open # "set"
        BY <2>2 DEF SelectorInv, GhostsMatch
    <2>4. sane' = FALSE /\ UNCHANGED <<open, spoken>>
        BY <2>3 DEF BeginTraitSelector, Say
    <2> QED
        BY <2>1, <2>4, MisuseStep
<1>2. CASE HasActiveSet /\ active_trait_selector = 0
    <2>1. /\ trait_sets' = WithSelector(trait_sets, active_trait_set, t)
          /\ active_trait_selector' = Len(trait_sets[active_trait_set].selectors) + 1
          /\ active_trait_set' = active_trait_set /\ misused' = misused
        BY <1>2 DEF BeginTraitSelector, WithSelector
    <2>2. t \in Selector /\ t.construct = NULL
        <3>1. kind \in TraitKind
            BY DEF ArgumentsAssumption
        <3>2. <<>> \in Seq(Property)
            OBVIOUS
        <3> QED
            BY <3>1, <3>2 DEF Selector, SelectorRecord, SelectorConstruct, NewSelector
    <2>3. Say("set", "selector", IF InSet THEN ToLastSet(spoken, t) ELSE spoken)
        BY DEF BeginTraitSelector
    <2> HIDE DEF t
    <2>4. active_trait_set # 0
        BY <1>2, ActiveIsThere
    <2>5. sane => open = "set"
        BY <1>2, <2>4 DEF SelectorInv, GhostsMatch, TreeType
    <2>6. sane' = sane /\ open' \in {"idle", "set", "selector"}
          /\ (sane => open' = "selector" /\ spoken' = ToLastSet(spoken, t))
        BY <2>3, <2>5 DEF Say, SelectorInv, TreeType, InSet
    <2> DEFINE n == Len(trait_sets[active_trait_set].selectors)
               now == trait_sets'[active_trait_set].selectors
    <2>7. /\ trait_sets' \in Seq(TraitSet) /\ Len(trait_sets') = Len(trait_sets)
          /\ active_trait_set = Len(trait_sets)
          /\ n \in Nat /\ Len(now) = n + 1 /\ now[n + 1] = t
          /\ Grows /\ KeepsClosedSets
        BY <1>2, <2>1, <2>2, SelectorAddedStep
    <2>8. active_trait_selector' = n + 1
        BY <2>1
    <2> HIDE DEF n, now
    <2>9. TreeType'
        BY <2>1, <2>6, <2>7 DEF SelectorInv, TreeType
    <2>10. Cursors'
        <3>1. /\ active_trait_set' = Len(trait_sets') /\ active_trait_set' # 0
              /\ n + 1 \in Nat /\ n + 1 \in 1 .. Len(now)
              /\ now[n + 1].construct = NULL
              /\ ~ \E j \in 1 .. Len(now) : j > n + 1
            BY <2>1, <2>2, <2>4, <2>7
        <3>2. trait_sets'[active_trait_set'].selectors = now
            BY <2>1 DEF now
        <3> QED
            BY <2>8, <3>1, <3>2 DEF Cursors
    <2>11. GhostsMatch'
        <3> SUFFICES ASSUME sane' PROVE GhostsMatch'
            BY DEF GhostsMatch
        <3>1. sane /\ open' = "selector" /\ spoken' = ToLastSet(spoken, t)
            BY <2>6
        <3>2. spoken = trait_sets /\ ~misused
            BY <3>1 DEF SelectorInv, GhostsMatch
        <3>3. ToLastSet(spoken, t) = WithSelector(trait_sets, active_trait_set, t)
            BY <2>7, <3>2 DEF ToLastSet, WithSelector
        <3>4. trait_sets' = spoken' /\ ~misused'
            BY <2>1, <3>1, <3>2, <3>3
        <3>5. /\ active_trait_set' # 0 /\ active_trait_selector' # 0
              /\ active_trait_selector' = Len(trait_sets'[active_trait_set'].selectors)
            BY <2>1, <2>4, <2>7, <2>8 DEF now
        <3> QED
            BY <3>1, <3>4, <3>5 DEF GhostsMatch
    <2>12. Marked'
        BY <2>1, <2>6, <2>7, <2>9, FlawStays DEF SelectorInv, Marked
    <2> QED
        BY <2>7, <2>9, <2>10, <2>11, <2>12 DEF SelectorInv
<1> QED
    BY <1>1, <1>2

\* A construct trait added while a selector is open is a flaw: in a set of
\* another kind it is out of place; in a construct set the open selector is,
\* or it has no construct.
LEMMA ConstructInOpenSelector ==
    ASSUME SelectorInv, active_trait_selector # 0, NEW t \in Selector,
           t.kind = "construct", TreeType',
           trait_sets' = WithSelector(trait_sets, active_trait_set, t),
           active_trait_set' = active_trait_set, misused' = misused
    PROVE  Flaw'
<1> DEFINE n == Len(trait_sets[active_trait_set].selectors)
           now == trait_sets'[active_trait_set].selectors
           open_selector == trait_sets[active_trait_set].selectors[active_trait_selector]
           kind == trait_sets[active_trait_set].kind
<1>1. HasActiveSet
    BY ActiveIsThere DEF SelectorInv, Cursors
<1>2. /\ Len(trait_sets') = Len(trait_sets) /\ active_trait_set \in 1 .. Len(trait_sets)
      /\ n \in Nat /\ Len(now) = n + 1 /\ now[n + 1] = t
      /\ \A j \in 1 .. n : now[j] = trait_sets[active_trait_set].selectors[j]
      /\ trait_sets'[active_trait_set].kind = kind
    BY <1>1, SelectorAddedStep
<1>3. active_trait_selector \in 1 .. n /\ open_selector.construct = NULL
    BY DEF SelectorInv, Cursors
<1>4. open_selector \in Selector
    BY <1>2, <1>3, ActiveIsThere
<1>5. now[active_trait_selector] = open_selector
    BY <1>2, <1>3
<1>6. n + 1 \in 1 .. Len(now) /\ active_trait_selector \in 1 .. Len(now)
    BY <1>2, <1>3
<1> HIDE DEF n, now, open_selector, kind
<1>7. CASE kind # "construct"
    <2>1. ~SelectorLegal(kind, t)
        BY <1>7 DEF SelectorLegal, LegalSets
    <2> QED
        BY <1>2, <1>6, <2>1 DEF Flaw, now
<1>8. CASE kind = "construct" /\ open_selector.kind # "construct"
    <2>1. open_selector.kind \in TraitKind
        BY <1>4 DEF Selector, SelectorRecord
    <2>2. ~SelectorLegal(kind, open_selector)
        BY <1>8, <2>1 DEF SelectorLegal, LegalSets, TraitKind
    <2> QED
        BY <1>2, <1>5, <1>6, <2>2 DEF Flaw, now
<1>9. CASE kind = "construct" /\ open_selector.kind = "construct"
    <2>1. ~ConstructSound(open_selector)
        BY <1>3, <1>9 DEF ConstructSound
    <2> QED
        BY <1>2, <1>5, <1>6, <2>1 DEF Flaw, now
<1> QED
    BY <1>7, <1>8, <1>9

\* addConstructDirective: the construct trait is the last selector of the
\* active set; an open selector stays open, and the tree is flawed.
LEMMA AddConstructDirectiveStep ==
    ASSUME SelectorInv, NEW score \in Scores, NEW directive \in ConstructKinds,
           AddConstructDirective(score, directive)
    PROVE  SelectorInv' /\ KeepsClosedSets
<1> DEFINE t == NewSelector("construct", score, "", directive)
<1>1. CASE ~HasActiveSet
    <2>1. Misuse
        BY <1>1 DEF AddConstructDirective
    <2>2. active_trait_set = 0
        BY <1>1, ActiveIsThere
    <2>3. sane => open # "set"
        BY <2>2 DEF SelectorInv, GhostsMatch
    <2>4. sane' = FALSE /\ UNCHANGED <<open, spoken>>
        BY <2>3 DEF AddConstructDirective, Say
    <2> QED
        BY <2>1, <2>4, MisuseStep
<1>2. CASE HasActiveSet
    <2>1. /\ trait_sets' = WithSelector(trait_sets, active_trait_set, t)
          /\ active_trait_selector' = active_trait_selector
          /\ active_trait_set' = active_trait_set /\ misused' = misused
        BY <1>2 DEF AddConstructDirective, WithSelector, cursors
    <2>2. t \in Selector /\ t.kind = "construct"
        <3>1. "construct" \in TraitKind
            BY DEF TraitKind, LegalSets
        <3>2. <<>> \in Seq(Property)
            OBVIOUS
        <3> QED
            BY <3>1, <3>2
            DEF Selector, SelectorRecord, SelectorConstruct, SelectorName, NewSelector
    <2>3. Say("set", "set", IF InSet THEN ToLastSet(spoken, t) ELSE spoken)
        BY DEF AddConstructDirective
    <2> HIDE DEF t
    <2>4. active_trait_set # 0
        BY <1>2, ActiveIsThere
    <2>5. sane' = (sane /\ open = "set") /\ open' \in {"idle", "set", "selector"}
          /\ (sane' => open' = "set" /\ spoken' = ToLastSet(spoken, t))
        BY <2>3 DEF Say, SelectorInv, TreeType, InSet
    <2>6. sane /\ open # "set" => active_trait_selector # 0
        BY <2>4 DEF SelectorInv, GhostsMatch, TreeType
    <2> DEFINE n == Len(trait_sets[active_trait_set].selectors)
               now == trait_sets'[active_trait_set].selectors
    <2>7. /\ trait_sets' \in Seq(TraitSet) /\ Len(trait_sets') = Len(trait_sets)
          /\ active_trait_set = Len(trait_sets)
          /\ n \in Nat /\ Len(now) = n + 1 /\ now[n + 1] = t
          /\ \A j \in 1 .. n : now[j] = trait_sets[active_trait_set].selectors[j]
          /\ Grows /\ KeepsClosedSets
        BY <1>2, <2>1, <2>2, SelectorAddedStep
    <2>8. TreeType'
        BY <2>1, <2>5, <2>7 DEF SelectorInv, TreeType
    <2>9. active_trait_selector \in Nat
        BY DEF SelectorInv, Cursors
    <2>10. active_trait_selector # 0 =>
            /\ active_trait_selector \in 1 .. n
            /\ trait_sets[active_trait_set].selectors[active_trait_selector].construct = NULL
            /\ \A j \in 1 .. n : j > active_trait_selector =>
                    trait_sets[active_trait_set].selectors[j].kind = "construct"
        BY DEF SelectorInv, Cursors
    <2>11. Cursors'
        <3>1. trait_sets'[active_trait_set'].selectors = now
            BY <2>1
        <3> HIDE DEF n, now
        <3>2. ASSUME active_trait_selector # 0
              PROVE  /\ active_trait_selector \in 1 .. Len(now)
                     /\ now[active_trait_selector].construct = NULL
                     /\ \A j \in 1 .. Len(now) : j > active_trait_selector =>
                            now[j].kind = "construct"
            <4>1. active_trait_selector \in 1 .. n /\ active_trait_selector \in 1 .. Len(now)
                BY <2>7, <2>10, <3>2
            <4>2. now[active_trait_selector].construct = NULL
                BY <2>7, <2>10, <3>2, <4>1
            <4>3. \A j \in 1 .. Len(now) : j \in 1 .. n \/ j = n + 1
                BY <2>7
            <4>4. \A j \in 1 .. Len(now) : j > active_trait_selector =>
                        now[j].kind = "construct"
                BY <2>2, <2>7, <2>10, <3>2, <4>3
            <4> QED
                BY <4>1, <4>2, <4>4
        <3> QED
            BY <2>1, <2>4, <2>7, <2>9, <3>1, <3>2 DEF Cursors
    <2> HIDE DEF n, now
    <2>12. GhostsMatch'
        <3> SUFFICES ASSUME sane' PROVE GhostsMatch'
            BY DEF GhostsMatch
        <3>1. sane /\ open = "set" /\ open' = "set" /\ spoken' = ToLastSet(spoken, t)
            BY <2>5
        <3>2. spoken = trait_sets /\ ~misused /\ active_trait_selector = 0
            BY <3>1 DEF SelectorInv, GhostsMatch
        <3>3. ToLastSet(spoken, t) = WithSelector(trait_sets, active_trait_set, t)
            BY <2>7, <3>2 DEF ToLastSet, WithSelector
        <3>4. trait_sets' = spoken' /\ ~misused'
            BY <2>1, <3>1, <3>2, <3>3
        <3>5. active_trait_set' # 0 /\ active_trait_selector' = 0
            BY <2>1, <2>4, <3>2
        <3> QED
            BY <3>1, <3>4, <3>5 DEF GhostsMatch
    <2>13. Marked'
        <3>1. CASE sane /\ open = "set"
            BY <2>5, <3>1 DEF Marked
        <3>2. CASE sane /\ open # "set"
            <4>1. Flaw'
                BY <2>1, <2>2, <2>6, <2>8, <3>2, ConstructInOpenSelector
            <4> QED
                BY <4>1 DEF Marked
        <3>3. CASE ~sane
            BY <2>1, <2>7, <2>8, <3>3, FlawStays DEF SelectorInv, Marked
        <3> QED
            BY <3>1, <3>2, <3>3
    <2> QED
        BY <2>7, <2>8, <2>11, <2>12, <2>13 DEF SelectorInv
<1> QED
    BY <1>1, <1>2

\* The add...Property calls: the property is the last of the active selector.
LEMMA AddPropertyStep ==
    ASSUME SelectorInv, NEW property \in Property, AddProperty(property)
    PROVE  SelectorInv' /\ KeepsClosedSets
<1>1. CASE ~HasActiveSelector
    <2>1. Misuse
        BY <1>1 DEF AddProperty
    <2>2. active_trait_selector = 0
        BY <1>1, ActiveIsThere
    <2>3. sane => open # "selector"
        BY <2>2 DEF SelectorInv, GhostsMatch
    <2>4. sane' = FALSE /\ UNCHANGED <<open, spoken>>
        BY <2>3 DEF AddProperty, Say
    <2> QED
        BY <2>1, <2>4, MisuseStep
<1>2. CASE HasActiveSelector
    <2> DEFINE n == Len(trait_sets[active_trait_set].selectors)
               now == trait_sets'[active_trait_set].selectors
    <2>1. /\ trait_sets' = WithProperty(trait_sets, active_trait_set,
                                        active_trait_selector, property)
          /\ active_trait_selector' = active_trait_selector
          /\ active_trait_set' = active_trait_set /\ misused' = misused
        BY <1>2 DEF AddProperty, WithProperty, cursors
    <2>2. Say("selector", "selector",
              IF InSelector THEN ToLastSelector(spoken, property) ELSE spoken)
        BY DEF AddProperty
    <2>3. /\ active_trait_selector # 0 /\ active_trait_set # 0
          /\ active_trait_set = Len(trait_sets)
          /\ active_trait_set \in 1 .. Len(trait_sets) /\ Len(trait_sets) \in Nat
        BY <1>2, ActiveIsThere DEF SelectorInv, Cursors, HasActiveSet
    <2>4. /\ active_trait_selector \in 1 .. n /\ n \in Nat /\ active_trait_selector \in Nat
          /\ trait_sets[active_trait_set].selectors[active_trait_selector].construct = NULL
          /\ \A j \in 1 .. n : j > active_trait_selector =>
                trait_sets[active_trait_set].selectors[j].kind = "construct"
        BY <2>3, ActiveIsThere DEF SelectorInv, Cursors
    <2>5. trait_sets \in Seq(TraitSet)
        BY DEF SelectorInv, TreeType
    <2>6. /\ trait_sets' \in Seq(TraitSet)
          /\ Len(trait_sets') = Len(trait_sets)
          /\ \A i \in 1 .. Len(trait_sets) :
                i # active_trait_set => trait_sets'[i] = trait_sets[i]
          /\ trait_sets'[active_trait_set].kind = trait_sets[active_trait_set].kind
          /\ Len(now) = n
          /\ \A j \in 1 .. n :
                SameSelector(now[j], trait_sets[active_trait_set].selectors[j])
        BY <2>1, <2>3, <2>4, <2>5, PropertyAppended
    <2> HIDE DEF n, now
    <2>7. sane => open = "selector"
        BY <2>3 DEF SelectorInv, GhostsMatch
    <2>8. sane' = sane /\ open' \in {"idle", "set", "selector"}
          /\ (sane => open' = "selector" /\ spoken' = ToLastSelector(spoken, property))
        BY <2>2, <2>7 DEF Say, SelectorInv, TreeType, InSelector
    <2>9. TreeType'
        BY <2>1, <2>6, <2>8 DEF SelectorInv, TreeType
    <2>10. Cursors'
        <3>1. trait_sets'[active_trait_set'].selectors = now
            BY <2>1 DEF now
        <3>2. now[active_trait_selector].construct = NULL
              /\ \A j \in 1 .. Len(now) : j > active_trait_selector =>
                    now[j].kind = "construct"
            BY <2>4, <2>6 DEF SameSelector
        <3> QED
            BY <2>1, <2>3, <2>4, <2>6, <3>1, <3>2 DEF Cursors
    <2>11. GhostsMatch'
        <3> SUFFICES ASSUME sane' PROVE GhostsMatch'
            BY DEF GhostsMatch
        <3>1. sane /\ open = "selector" /\ open' = "selector"
              /\ spoken' = ToLastSelector(spoken, property)
            BY <2>7, <2>8
        <3>2. spoken = trait_sets /\ ~misused /\ active_trait_selector = n
            BY <3>1 DEF SelectorInv, GhostsMatch, n
        <3>3. ToLastSelector(spoken, property)
                = WithProperty(trait_sets, active_trait_set, active_trait_selector, property)
            BY <2>3, <3>2 DEF ToLastSelector, WithProperty, n
        <3>4. trait_sets' = spoken' /\ ~misused'
            BY <2>1, <3>1, <3>2, <3>3
        <3>5. /\ active_trait_set' # 0 /\ active_trait_selector' # 0
              /\ active_trait_selector' = Len(trait_sets'[active_trait_set'].selectors)
            BY <2>1, <2>3, <2>6, <3>2 DEF now
        <3> QED
            BY <3>1, <3>4, <3>5 DEF GhostsMatch
    <2>12. \A i \in 1 .. Len(trait_sets) :
            /\ trait_sets'[i].kind = trait_sets[i].kind
            /\ Len(trait_sets'[i].selectors) >= Len(trait_sets[i].selectors)
            /\ \A j \in 1 .. Len(trait_sets[i].selectors) :
                SameSelector(trait_sets'[i].selectors[j], trait_sets[i].selectors[j])
        <3> TAKE i \in 1 .. Len(trait_sets)
        <3>1. CASE i = active_trait_set
            BY <2>4, <2>6, <3>1 DEF n, now
        <3>2. CASE i # active_trait_set
            <4>1. Len(trait_sets[i].selectors) \in Nat
                BY ActiveIsThere
            <4> QED
                BY <2>6, <3>2, <4>1 DEF SameSelector
        <3> QED
            BY <3>1, <3>2
    <2>13. Grows
        <3>1. Len(trait_sets') >= Len(trait_sets)
            BY <2>3, <2>6
        <3> QED
            BY <2>12, <3>1 DEF Grows
    <2>14. Marked'
        BY <2>1, <2>8, <2>9, <2>13, FlawStays DEF SelectorInv, Marked
    <2>15. KeepsClosedSets
        <3>1. \A i \in DOMAIN trait_sets :
                i < Len(trait_sets) \/ active_trait_set = 0 => trait_sets'[i] = trait_sets[i]
            BY <2>3, <2>6, ActiveIsThere
        <3>2. \A i \in DOMAIN trait_sets :
                Len(trait_sets'[i].selectors) >= Len(trait_sets[i].selectors)
            BY <2>12, ActiveIsThere
        <3>3. Len(trait_sets') >= Len(trait_sets) /\ (misused => misused')
            BY <2>1, <2>3, <2>6
        <3> QED
            BY <3>1, <3>2, <3>3 DEF KeepsClosedSets
    <2> QED
        BY <2>9, <2>10, <2>11, <2>14, <2>15 DEF SelectorInv
<1> QED
    BY <1>1, <1>2

\* A property with a null expression or of no known kind is reported.
LEMMA RefusePropertyStep ==
    ASSUME SelectorInv, RefuseProperty
    PROVE  SelectorInv' /\ KeepsClosedSets
BY MisuseStep DEF RefuseProperty

\* Every call.
LEMMA SelectorStep ==
    ASSUME ArgumentsAssumption, SelectorInv, Next
    PROVE  SelectorInv' /\ KeepsClosedSets
<1>1. ASSUME NEW kind \in SetKinds, BeginTraitSet(kind)
      PROVE  SelectorInv' /\ KeepsClosedSets
    BY <1>1, BeginTraitSetStep
<1>2. CASE EndTraitSet
    BY <1>2, EndTraitSetStep
<1>3. ASSUME NEW kind \in TraitKinds, NEW score \in Scores,
             NEW name \in IF kind = "implementation_user"
                          THEN ImplementationNames \ {NULL} ELSE {""},
             BeginTraitSelector(kind, score, name)
      PROVE  SelectorInv' /\ KeepsClosedSets
    <2>1. name \in SelectorName
        BY DEF SelectorName
    <2> QED
        BY <1>3, <2>1, BeginTraitSelectorStep
<1>4. CASE EndTraitSelector
    BY <1>4, EndTraitSelectorStep
<1>5. ASSUME NEW score \in Scores, NEW directive \in ConstructKinds,
             AddConstructDirective(score, directive)
      PROVE  SelectorInv' /\ KeepsClosedSets
    BY <1>5, AddConstructDirectiveStep
<1>6. ASSUME NEW spelling \in Spellings, NEW mode \in Modes,
             AddExpressionProperty(spelling, mode)
      PROVE  SelectorInv' /\ KeepsClosedSets
    <2>1. CASE spelling = NULL
        BY <1>6, <2>1, RefusePropertyStep DEF AddExpressionProperty
    <2>2. CASE spelling # NULL
        <3>1. [payload |-> "expression", id |-> spelling, mode |-> mode] \in ExpressionProperty
            BY <1>6 DEF ExpressionProperty
        <3> QED
            BY <1>6, <2>2, <3>1, AddPropertyStep DEF AddExpressionProperty, Property
    <2> QED
        BY <2>1, <2>2
<1>7. ASSUME NEW kind \in ContextKinds, AddContextKindProperty(kind)
      PROVE  SelectorInv' /\ KeepsClosedSets
    <2>1. [payload |-> "kind", id |-> kind] \in KindProperty
        BY <1>7 DEF KindProperty
    <2> QED
        BY <1>7, <2>1, AddPropertyStep DEF AddContextKindProperty, Property
<1>8. ASSUME NEW vendor \in Vendors, AddContextVendorProperty(vendor)
      PROVE  SelectorInv' /\ KeepsClosedSets
    <2>1. [payload |-> "vendor", id |-> vendor] \in VendorProperty
        BY <1>8 DEF VendorProperty
    <2> QED
        BY <1>8, <2>1, AddPropertyStep DEF AddContextVendorProperty, Property
<1>9. ASSUME NEW order \in Orders, AddAtomicDefaultMemOrderProperty(order)
      PROVE  SelectorInv' /\ KeepsClosedSets
    <2>1. [payload |-> "order", id |-> order] \in OrderProperty
        BY <1>9 DEF OrderProperty
    <2> QED
        BY <1>9, <2>1, AddPropertyStep DEF AddAtomicDefaultMemOrderProperty, Property
<1>10. ASSUME NEW r \in Requirements, AddRequiresProperty(r.kind, r.expression)
       PROVE  SelectorInv' /\ KeepsClosedSets
    <2>1. CASE r.kind \notin PlainRequirement
        BY <1>10, <2>1, RefusePropertyStep DEF AddRequiresProperty
    <2>2. CASE r.kind \in PlainRequirement
        <3>1. [payload |-> "requirement", kind |-> r.kind, id |-> "",
               expression |-> r.expression] \in RequiresProperty
            BY <1>10 DEF RequiresProperty
        <3> QED
            BY <1>10, <2>2, <3>1, AddPropertyStep DEF AddRequiresProperty, Property
    <2> QED
        BY <2>1, <2>2
<1>11. ASSUME NEW order \in Orders, AddRequiresAtomicDefaultMemOrderProperty(order)
       PROVE  SelectorInv' /\ KeepsClosedSets
    <2>1. [payload |-> "requirement", kind |-> "atomic_default_mem_order",
           id |-> order, expression |-> "none"] \in RequiresOrderProperty
        BY <1>11 DEF RequiresOrderProperty
    <2> QED
        BY <1>11, <2>1, AddPropertyStep DEF AddRequiresAtomicDefaultMemOrderProperty, Property
<1>12. ASSUME NEW name \in ImplementationNames, AddRequiresExtensionProperty(name)
       PROVE  SelectorInv' /\ KeepsClosedSets
    <2>1. CASE name = NULL
        BY <1>12, <2>1, RefusePropertyStep DEF AddRequiresExtensionProperty
    <2>2. CASE name # NULL
        <3>1. [payload |-> "requirement", kind |-> "ext_implementation_defined_requirement",
               id |-> name, expression |-> "none"] \in RequiresExtensionProperty
            BY <1>12 DEF RequiresExtensionProperty
        <3> QED
            BY <1>12, <2>2, <3>1, AddPropertyStep DEF AddRequiresExtensionProperty, Property
    <2> QED
        BY <2>1, <2>2
<1> QED
    BY <1>1, <1>2, <1>3, <1>4, <1>5, <1>6, <1>7, <1>8, <1>9, <1>10, <1>11, <1>12 DEF Next

-----------------------------------------------------------------------------
(* The invariant, and what follows from it. *)

\* Before the first call there is no tree.
LEMMA SelectorInit == Init => SelectorInv
<1> SUFFICES ASSUME Init PROVE SelectorInv
    OBVIOUS
<1>1. trait_sets \in Seq(TraitSet) /\ Len(trait_sets) = 0
    BY DEF Init
<1>2. TreeType
    BY <1>1 DEF Init, TreeType
<1>3. Cursors /\ GhostsMatch /\ Marked
    BY <1>1 DEF Init, Cursors, GhostsMatch, Marked
<1> QED
    BY <1>2, <1>3 DEF SelectorInv

\* Every call keeps the invariant, and so does no call.
LEMMA SelectorKept ==
    ASSUME ArgumentsAssumption, SelectorInv, [Next]_vars
    PROVE  SelectorInv' /\ [KeepsClosedSets]_vars
<1>1. CASE Next
    BY <1>1, SelectorStep
<1>2. CASE UNCHANGED vars
    BY <1>2 DEF vars, tree, ghosts, SelectorInv, TreeType, Cursors, GhostsMatch, Marked, Flaw
<1> QED
    BY <1>1, <1>2

\* The invariant gives the types.
LEMMA InvGivesType == SelectorInv => TypeOK
<1> SUFFICES ASSUME SelectorInv PROVE TypeOK
    OBVIOUS
<1>1. \A i \in DOMAIN trait_sets :
        /\ trait_sets[i].kind \in SetKind
        /\ \A j \in DOMAIN trait_sets[i].selectors :
            trait_sets[i].selectors[j].kind \in TraitKind
    <2> TAKE i \in DOMAIN trait_sets
    <2>1. /\ trait_sets[i] \in TraitSet /\ trait_sets[i].selectors \in Seq(Selector)
          /\ DOMAIN trait_sets[i].selectors = 1 .. Len(trait_sets[i].selectors)
        BY ActiveIsThere
    <2>2. \A j \in DOMAIN trait_sets[i].selectors : trait_sets[i].selectors[j] \in Selector
        BY <2>1
    <2> QED
        BY <2>1, <2>2 DEF TraitSet, Selector, SelectorRecord
<1>2. active_trait_set \in 0 .. Len(trait_sets)
    BY ActiveIsThere DEF SelectorInv, Cursors
<1> QED
    BY <1>1, <1>2 DEF TypeOK, SelectorInv, TreeType, Cursors

\* It gives the range of the indexes and the agreement with the grammar.
LEMMA InvGivesFaithful == SelectorInv => CursorsInRange /\ FaithfulWhileSane
<1> SUFFICES ASSUME SelectorInv PROVE CursorsInRange /\ FaithfulWhileSane
    OBVIOUS
<1>1. active_trait_selector # 0 =>
        DOMAIN trait_sets[active_trait_set].selectors
            = 1 .. Len(trait_sets[active_trait_set].selectors)
    BY ActiveIsThere DEF SelectorInv, Cursors, HasActiveSet
<1>2. CursorsInRange
    BY <1>1 DEF SelectorInv, Cursors, CursorsInRange
<1>3. FaithfulWhileSane
    BY DEF SelectorInv, TreeType, GhostsMatch, FaithfulWhileSane
<1> QED
    BY <1>2, <1>3

\* No flaw passes the audit, so that what was accepted followed the grammar.
LEMMA InvGivesSane == SelectorInv => AcceptedIsSane
<1> SUFFICES ASSUME SelectorInv, Accepted
             PROVE  sane /\ open = "idle" /\ trait_sets = spoken
    BY DEF AcceptedIsSane
<1>1. /\ ~misused /\ active_trait_set = 0
      /\ \A i \in DOMAIN trait_sets : SetSound(trait_sets[i])
    BY DEF Accepted, ValidateSelectorInvariants
<1>2. ASSUME NEW i \in 1 .. Len(trait_sets), NEW j \in 1 .. Len(trait_sets[i].selectors)
      PROVE  SelectorSound(trait_sets[i].kind, trait_sets[i].selectors[j])
    BY <1>1, ActiveIsThere DEF SetSound
<1>3. ~Flaw
    BY <1>2 DEF Flaw, SelectorSound
<1>4. sane
    BY <1>1, <1>3 DEF SelectorInv, Marked
<1> QED
    BY <1>1, <1>4 DEF SelectorInv, GhostsMatch

-----------------------------------------------------------------------------
(* What the audit accepts. *)

\* A position of the tree, and what stands there.
LEMMA PropertyAt ==
    ASSUME SelectorInv, NEW at \in AllProperties
    PROVE  /\ at = <<at[1], at[2], at[3]>>
           /\ at[1] \in 1 .. Len(trait_sets) /\ at[1] \in DOMAIN trait_sets
           /\ at[1] \in Nat
           /\ trait_sets[at[1]].kind \in SetKind
           /\ at[2] \in DOMAIN trait_sets[at[1]].selectors /\ at[2] \in Nat
           /\ trait_sets[at[1]].selectors[at[2]] \in Selector
           /\ at[3] \in DOMAIN trait_sets[at[1]].selectors[at[2]].properties
           /\ at[3] \in Nat
           /\ trait_sets[at[1]].selectors[at[2]].properties \in Seq(Property)
           /\ trait_sets[at[1]].selectors[at[2]].properties[at[3]] \in Property
<1> DEFINE t == trait_sets[at[1]].selectors[at[2]]
<1>1. /\ at \in (1 .. MaxSets) \X (1 .. MaxSelectors) \X (1 .. MaxProperties)
      /\ at[1] \in DOMAIN trait_sets /\ at[2] \in DOMAIN trait_sets[at[1]].selectors
      /\ at[3] \in DOMAIN t.properties
    BY DEF AllProperties
<1>2. at = <<at[1], at[2], at[3]>>
    BY <1>1
<1>3. /\ at[1] \in 1 .. Len(trait_sets) /\ trait_sets[at[1]] \in TraitSet
      /\ at[1] \in Nat /\ at[2] \in Nat
      /\ trait_sets[at[1]].selectors \in Seq(Selector)
    BY <1>1, ActiveIsThere
<1>4. trait_sets[at[1]].kind \in SetKind /\ t \in Selector
    BY <1>1, <1>3 DEF TraitSet
<1>5. t.properties \in Seq(Property)
    BY <1>4 DEF Selector, SelectorRecord
<1>6. t.properties[at[3]] \in Property /\ at[3] \in Nat
    BY <1>1, <1>5
<1> QED
    BY <1>1, <1>2, <1>3, <1>4, <1>5, <1>6

\* An accepted clause has one set of each kind, and each set is sound.
LEMMA AcceptedSets ==
    ASSUME SelectorInv, NullAssumption, Accepted,
           NEW i \in DOMAIN trait_sets
    PROVE  /\ SetSound(trait_sets[i])
           /\ \A m \in DOMAIN trait_sets :
                trait_sets[m].kind = trait_sets[i].kind => m = i
<1>1. SetSound(trait_sets[i])
    BY DEF Accepted, ValidateSelectorInvariants
<1>2. ~Repeated(SetKindOf, trait_sets)
    BY DEF Accepted, ValidateSelectorInvariants
<1>3. \A m \in DOMAIN trait_sets : m \in Nat /\ trait_sets[m].kind # NULL
    <2> TAKE m \in DOMAIN trait_sets
    <2>1. m \in Nat /\ trait_sets[m] \in TraitSet
        BY ActiveIsThere
    <2> QED
        BY <2>1 DEF TraitSet, NullAssumption
<1>4. \A m, n \in DOMAIN trait_sets :
        ~(m < n /\ trait_sets[m].kind = trait_sets[n].kind)
    BY <1>2, <1>3 DEF Repeated, SetKindOf
<1>5. \A m \in DOMAIN trait_sets : trait_sets[m].kind = trait_sets[i].kind => m = i
    BY <1>3, <1>4
<1> QED
    BY <1>1, <1>5

\* A sound set has one selector of each key, and each selector is sound.
LEMMA SoundSelectors ==
    ASSUME SelectorInv, NullAssumption, NEW i \in DOMAIN trait_sets,
           SetSound(trait_sets[i]), NEW j \in DOMAIN trait_sets[i].selectors
    PROVE  /\ SelectorSound(trait_sets[i].kind, trait_sets[i].selectors[j])
           /\ \A m \in DOMAIN trait_sets[i].selectors :
                SelectorKey(trait_sets[i].selectors[m])
                    = SelectorKey(trait_sets[i].selectors[j]) => m = j
<1> DEFINE selectors == trait_sets[i].selectors
<1>1. selectors \in Seq(Selector)
    BY ActiveIsThere
<1>2. SelectorSound(trait_sets[i].kind, selectors[j]) /\ ~Repeated(SelectorKey, selectors)
    BY DEF SetSound
<1> HIDE DEF selectors
<1>3. \A m \in DOMAIN selectors : m \in Nat /\ SelectorKey(selectors[m]) # NULL
    <2> TAKE m \in DOMAIN selectors
    <2>1. m \in Nat /\ selectors[m] \in Selector
        BY <1>1
    <2>2. SelectorKey(selectors[m])
            \in TraitKind \X (ImplementationNames \cup {""}) \X (ConstructKinds \cup {NULL})
        BY <2>1 DEF Selector, SelectorRecord, SelectorKey, SelectorName, SelectorConstruct
    <2> QED
        BY <2>1, <2>2 DEF NullAssumption
<1>4. \A m, n \in DOMAIN selectors :
        ~(m < n /\ SelectorKey(selectors[m]) = SelectorKey(selectors[n]))
    BY <1>2, <1>3 DEF Repeated
<1>5. j \in DOMAIN selectors
    BY DEF selectors
<1>6. \A m \in DOMAIN selectors :
        SelectorKey(selectors[m]) = SelectorKey(selectors[j]) => m = j
    BY <1>3, <1>4, <1>5
<1> QED
    BY <1>2, <1>6 DEF selectors

\* A sound selector has one property of each identity.
LEMMA SoundProperties ==
    ASSUME NEW setKind, NEW t, SelectorSound(setKind, t), t.properties \in Seq(Property),
           NEW k \in DOMAIN t.properties
    PROVE  /\ PropertySound(t.kind, t.properties[k])
           /\ \A m \in DOMAIN t.properties :
                Identity(t.kind, t.properties[m]) = Identity(t.kind, t.properties[k])
                    => m = k
<1> DEFINE Id(p) == Identity(t.kind, p)
<1>1. /\ \A m \in DOMAIN t.properties : PropertySound(t.kind, t.properties[m])
      /\ ~Repeated(Id, t.properties)
    BY DEF SelectorSound
<1>2. \A m \in DOMAIN t.properties : m \in Nat /\ Identity(t.kind, t.properties[m]) # NULL
    BY <1>1 DEF PropertySound
<1>3. \A m, n \in DOMAIN t.properties :
        ~(m < n /\ Identity(t.kind, t.properties[m]) = Identity(t.kind, t.properties[n]))
    BY <1>1, <1>2 DEF Repeated
<1>4. \A m \in DOMAIN t.properties :
        Identity(t.kind, t.properties[m]) = Identity(t.kind, t.properties[k]) => m = k
    BY <1>2, <1>3
<1> QED
    BY <1>1, <1>4

\* An accepted clause says nothing twice.
LEMMA InvGivesSaidOnce == SelectorInv /\ NullAssumption => SaidOnce
<1> SUFFICES ASSUME SelectorInv, NullAssumption, Accepted,
                    NEW a \in AllProperties, NEW b \in AllProperties,
                    MeaningAt(a) = MeaningAt(b)
             PROVE  a = b
    BY DEF SaidOnce
<1> DEFINE s == trait_sets[a[1]].selectors[a[2]]
           t == trait_sets[b[1]].selectors[b[2]]
<1>1. /\ trait_sets[a[1]].kind = trait_sets[b[1]].kind
      /\ s.kind = t.kind /\ s.name = t.name
      /\ Identity(s.kind, s.properties[a[3]]) = Identity(t.kind, t.properties[b[3]])
    BY DEF MeaningAt
<1>2. a[1] = b[1]
    BY <1>1, PropertyAt, AcceptedSets
<1>3. /\ SelectorSound(trait_sets[a[1]].kind, s) /\ SelectorSound(trait_sets[b[1]].kind, t)
      /\ SetSound(trait_sets[b[1]])
    <2>1. SetSound(trait_sets[a[1]]) /\ SetSound(trait_sets[b[1]])
        BY PropertyAt, AcceptedSets
    <2> QED
        BY <2>1, PropertyAt, SoundSelectors
<1>4. s.kind # "construct"
    <2> SUFFICES ASSUME s.kind = "construct" PROVE FALSE
        OBVIOUS
    <2>1. Len(s.properties) = 0
        BY <1>3 DEF SelectorSound, Cardinal
    <2>2. s.properties \in Seq(Property) /\ a[3] \in DOMAIN s.properties
        BY PropertyAt
    <2> HIDE DEF s
    <2> QED
        BY <2>1, <2>2
<1>5. s.construct = NULL /\ t.construct = NULL
    <2>1. s \in Selector /\ t \in Selector
        BY PropertyAt
    <2> HIDE DEF s, t
    <2> QED
        BY <1>1, <1>4, <2>1 DEF Selector
<1>6. SelectorKey(s) = SelectorKey(t)
    BY <1>1, <1>5 DEF SelectorKey
<1>7. a[2] = b[2]
    BY <1>2, <1>3, <1>6, PropertyAt, SoundSelectors
<1>8. s = t
    BY <1>2, <1>7
<1>9. a[3] = b[3]
    <2>1. /\ s.properties \in Seq(Property)
          /\ a[3] \in DOMAIN s.properties /\ b[3] \in DOMAIN s.properties
        BY <1>8, PropertyAt
    <2>2. Identity(s.kind, s.properties[a[3]]) = Identity(s.kind, s.properties[b[3]])
        BY <1>1, <1>8
    <2> HIDE DEF s, t
    <2> QED
        BY <1>3, <2>1, <2>2, SoundProperties
<1>10. a = <<a[1], a[2], a[3]>> /\ b = <<b[1], b[2], b[3]>>
    BY PropertyAt
<1> QED
    BY <1>2, <1>7, <1>9, <1>10

\* The payload of a property tells which call added it.
LEMMA PayloadTells ==
    ASSUME NEW p \in Property
    PROVE  /\ p \in ExpressionProperty => p.payload = "expression"
           /\ p \in KindProperty <=> p.payload = "kind"
           /\ p \in VendorProperty <=> p.payload = "vendor"
           /\ p \in OrderProperty <=> p.payload = "order"
           /\ p \in RequiresProperty \cup RequiresOrderProperty \cup RequiresExtensionProperty
                => p.payload = "requirement"
<1>1. p \in ExpressionProperty => p.payload = "expression"
    BY DEF ExpressionProperty
<1>2. p \in KindProperty => p.payload = "kind"
    BY DEF KindProperty
<1>3. p \in VendorProperty => p.payload = "vendor"
    BY DEF VendorProperty
<1>4. p \in OrderProperty => p.payload = "order"
    BY DEF OrderProperty
<1>5. p \in RequiresProperty => p.payload = "requirement"
    <2> SUFFICES ASSUME p \in RequiresProperty PROVE p.payload = "requirement"
        OBVIOUS
    <2>1. PICK r \in Requirements :
            p = [payload |-> "requirement", kind |-> r.kind, id |-> "",
                 expression |-> r.expression]
        BY Zenon DEF RequiresProperty
    <2> QED
        BY <2>1
<1>6. p \in RequiresOrderProperty => p.payload = "requirement"
    BY DEF RequiresOrderProperty
<1>7. p \in RequiresExtensionProperty => p.payload = "requirement"
    BY DEF RequiresExtensionProperty
<1> QED
    BY <1>1, <1>2, <1>3, <1>4, <1>5, <1>6, <1>7 DEF Property

\* A sound property whose identity is the name any is the any of the audit: it
\* is an identifier or a literal, or the enumerator.
LEMMA AnyIsFound ==
    ASSUME NullAssumption, NEW p \in Property, PropertySound("kind", p),
           Identity("kind", p) = <<"name", "any">>
    PROVE  IsAny("kind", p)
<1>1. Identity("kind", p) # NULL
    BY DEF PropertySound
<1>2. CASE p \in ExpressionProperty
    <2>1. p.payload = "expression"
        BY <1>2 DEF ExpressionProperty
    <2> QED
        BY <2>1 DEF IsAny
<1>3. CASE p \in KindProperty
    <2>1. p.payload = "kind"
        BY <1>3 DEF KindProperty
    <2>2. Identity("kind", p) = IF p.id \in KnownKind THEN <<"name", p.id>> ELSE NULL
        BY <2>1 DEF Identity
    <2>3. p.id = "any"
        BY <1>1, <2>2
    <2> QED
        BY <2>1, <2>3 DEF IsAny
<1>4. CASE p \in VendorProperty
    <2>1. p.payload = "vendor"
        BY <1>4 DEF VendorProperty
    <2> QED
        BY <2>1 DEF PropertySound
<1>5. CASE p \in OrderProperty
    <2>1. p.payload = "order"
        BY <1>5 DEF OrderProperty
    <2> QED
        BY <2>1 DEF PropertySound
<1>6. CASE p \in RequiresProperty \cup RequiresOrderProperty \cup RequiresExtensionProperty
    <2>1. p.payload = "requirement"
        BY <1>6, PayloadTells
    <2> QED
        BY <2>1 DEF PropertySound
<1> QED
    BY <1>2, <1>3, <1>4, <1>5, <1>6 DEF Property

\* kind(any) has its set for itself.
LEMMA InvGivesAnyAlone == SelectorInv /\ NullAssumption => AnyStandsAlone
<1> SUFFICES ASSUME SelectorInv, NullAssumption, Accepted,
                    NEW a \in AllProperties, NEW b \in AllProperties, a[1] = b[1],
                    Identity("kind", trait_sets[a[1]].selectors[a[2]].properties[a[3]])
                        = <<"name", "any">>,
                    trait_sets[a[1]].selectors[a[2]].kind = "kind"
             PROVE  a = b
    BY DEF AnyStandsAlone
<1> DEFINE selectors == trait_sets[a[1]].selectors
           t == selectors[a[2]]
<1>1. SetSound(trait_sets[a[1]])
    BY PropertyAt, AcceptedSets
<1>2. SelectorSound(trait_sets[a[1]].kind, t)
    BY <1>1, PropertyAt, SoundSelectors
<1>3. a[2] \in DOMAIN selectors /\ a[3] \in DOMAIN t.properties
      /\ t.properties \in Seq(Property) /\ t.properties[a[3]] \in Property
      /\ selectors \in Seq(Selector)
    BY PropertyAt, ActiveIsThere
<1>4. PropertySound("kind", t.properties[a[3]])
    BY <1>2, <1>3, SoundProperties
<1>5. IsAny(t.kind, t.properties[a[3]])
    BY <1>3, <1>4, AnyIsFound
<1>6. Len(selectors) = 1 /\ Len(selectors[1].properties) = 1
    BY <1>1, <1>3, <1>5 DEF SetSound, AnyAlone
<1>7. a[2] = 1 /\ b[2] = 1
    <2>1. b[2] \in DOMAIN selectors
        BY PropertyAt
    <2> HIDE DEF selectors
    <2> QED
        BY <1>3, <1>6, <2>1
<1>8. a[3] = 1 /\ b[3] = 1
    <2>1. b[3] \in DOMAIN t.properties /\ Len(t.properties) = 1
        BY <1>6, <1>7, PropertyAt
    <2> HIDE DEF t
    <2> QED
        BY <1>3, <2>1
<1>9. a = <<a[1], a[2], a[3]>> /\ b = <<b[1], b[2], b[3]>>
    BY PropertyAt
<1> QED
    BY <1>7, <1>8, <1>9

\* Spelling an enumerator out as the identifier of its name changes neither
\* the identity of the property nor its verdict.
LEMMA SpelledAlike ==
    ASSUME NullAssumption, NamesAssumption, NEW kind \in TraitKind, NEW p \in Property
    PROVE  /\ Identity(kind, Spelled(kind, p)) = Identity(kind, p)
           /\ PropertySound(kind, Spelled(kind, p)) = PropertySound(kind, p)
           /\ IsAny(kind, Spelled(kind, p)) = IsAny(kind, p)
<1> DEFINE q == [payload |-> "expression", id |-> p.id, mode |-> "context_name"]
<1>0. q.payload = "expression" /\ q.id = p.id /\ q.mode = "context_name"
    OBVIOUS
<1>1. CASE kind = "kind" /\ p.payload = "kind" /\ p.id \in KnownKind
    <2>1. Spelled(kind, p) = q
        BY <1>1 DEF Spelled
    <2>2. p.id \in ContextKinds
        <3>1. p \in KindProperty
            BY <1>1, PayloadTells
        <3> QED
            BY <3>1 DEF KindProperty
    <2>3. IdentityOf[p.id] = p.id /\ p.id # NULL /\ p.id # ""
        BY <1>1, <2>2 DEF NamesAssumption, NullAssumption, KnownKind
    <2> HIDE DEF q
    <2>4. Identity(kind, q) = <<"name", p.id>>
        BY <1>0, <1>1, <2>3 DEF Identity, NameListKind
    <2>5. Identity(kind, p) = <<"name", p.id>>
        BY <1>1 DEF Identity
    <2>6. PropertySound(kind, q) = (<<"name", p.id>> # NULL)
        BY <1>0, <1>1, <2>3, <2>4 DEF PropertySound, ExpectedMode, NameListKind
    <2>7. PropertySound(kind, p) = (<<"name", p.id>> # NULL)
        BY <1>1, <2>5 DEF PropertySound
    <2>8. IsAny(kind, q) = (p.id = "any")
        <3>1. Identity(kind, q) = <<"name", "any">> <=> p.id = "any"
            BY <2>4
        <3> QED
            BY <1>0, <1>1, <3>1 DEF IsAny
    <2>9. IsAny(kind, p) = (p.id = "any")
        BY <1>1 DEF IsAny
    <2> QED
        BY <2>1, <2>4, <2>5, <2>6, <2>7, <2>8, <2>9
<1>2. CASE kind = "vendor" /\ p.payload = "vendor" /\ p.id \in KnownVendor
    <2>1. Spelled(kind, p) = q
        BY <1>2 DEF Spelled
    <2>2. p.id \in Vendors
        <3>1. p \in VendorProperty
            BY <1>2, PayloadTells
        <3> QED
            BY <3>1 DEF VendorProperty
    <2>3. IdentityOf[p.id] = p.id /\ p.id # NULL /\ p.id # ""
        BY <1>2, <2>2 DEF NamesAssumption, NullAssumption, KnownVendor
    <2> HIDE DEF q
    <2>4. Identity(kind, q) = <<"name", p.id>>
        BY <1>0, <1>2, <2>3 DEF Identity, NameListKind
    <2>5. Identity(kind, p) = <<"name", p.id>>
        BY <1>2 DEF Identity
    <2>6. PropertySound(kind, q) = (<<"name", p.id>> # NULL)
        BY <1>0, <1>2, <2>3, <2>4 DEF PropertySound, ExpectedMode, NameListKind
    <2>7. PropertySound(kind, p) = (<<"name", p.id>> # NULL)
        BY <1>2, <2>5 DEF PropertySound
    <2>8. IsAny(kind, q) = FALSE /\ IsAny(kind, p) = FALSE
        BY <1>0, <1>2 DEF IsAny
    <2> QED
        BY <2>1, <2>4, <2>5, <2>6, <2>7, <2>8
<1>3. CASE ~(kind = "kind" /\ p.payload = "kind" /\ p.id \in KnownKind)
           /\ ~(kind = "vendor" /\ p.payload = "vendor" /\ p.id \in KnownVendor)
    <2>1. Spelled(kind, p) = p
        BY <1>3 DEF Spelled
    <2> QED
        BY <2>1
<1> QED
    BY <1>1, <1>2, <1>3

\* A selector spelled out has the same parts, one property for each.
LEMMA SpelledSelectorParts ==
    ASSUME NEW t \in Selector
    PROVE  LET u == SpelledSelector(t)
           IN  /\ u.kind = t.kind /\ u.score = t.score /\ u.name = t.name
               /\ u.construct = t.construct
               /\ DOMAIN u.properties = DOMAIN t.properties
               /\ Len(u.properties) = Len(t.properties)
               /\ \A k \in DOMAIN t.properties :
                    u.properties[k] = Spelled(t.kind, t.properties[k])
<1> DEFINE u == SpelledSelector(t)
<1>1. t \in SelectorRecord
    BY DEF Selector
<1>2. PICK new : new = [k \in DOMAIN t.properties |-> Spelled(t.kind, t.properties[k])]
    OBVIOUS
<1>3. u = [t EXCEPT !.properties = new]
    BY <1>2 DEF SpelledSelector
<1> HIDE DEF u
<1>4. /\ u.kind = t.kind /\ u.score = t.score /\ u.name = t.name
      /\ u.construct = t.construct /\ u.properties = new
    BY <1>1, <1>3 DEF SelectorRecord
<1>5. DOMAIN new = DOMAIN t.properties
      /\ \A k \in DOMAIN t.properties : new[k] = Spelled(t.kind, t.properties[k])
    BY <1>2
<1>6. t.properties \in Seq(Property)
    BY <1>1 DEF SelectorRecord
<1>7. Len(new) = Len(t.properties)
    <2>1. PICK n \in Nat : n = Len(t.properties)
        BY <1>6
    <2>2. DOMAIN t.properties = 1 .. n
        BY <1>6, <2>1
    <2>3. PICK V : V = {Spelled(t.kind, p) : p \in Property}
        OBVIOUS
    <2>4. \A k \in 1 .. n : t.properties[k] \in Property
        BY <1>6, <2>1
    <2>5. \A k \in 1 .. n : Spelled(t.kind, t.properties[k]) \in V
        BY <2>3, <2>4
    <2>6. new = [k \in 1 .. n |-> Spelled(t.kind, t.properties[k])]
        BY <1>2, <2>2
    <2>7. new \in Seq(V) /\ Len(new) = n
        BY <2>1, <2>5, <2>6
    <2> QED
        BY <2>1, <2>7
<1> QED
    BY <1>4, <1>5, <1>7 DEF u

\* The audit gives both the same verdict.
LEMMA SpelledSelectorAlike ==
    ASSUME NullAssumption, NamesAssumption, NEW setKind, NEW t \in Selector
    PROVE  /\ SelectorSound(setKind, SpelledSelector(t)) <=> SelectorSound(setKind, t)
           /\ SelectorKey(SpelledSelector(t)) = SelectorKey(t)
           /\ \A k \in DOMAIN t.properties :
                IsAny(t.kind, SpelledSelector(t).properties[k])
                    <=> IsAny(t.kind, t.properties[k])
<1> DEFINE u == SpelledSelector(t)
<1>1. /\ u.kind = t.kind /\ u.score = t.score /\ u.name = t.name
      /\ u.construct = t.construct
      /\ DOMAIN u.properties = DOMAIN t.properties
      /\ Len(u.properties) = Len(t.properties)
      /\ \A k \in DOMAIN t.properties : u.properties[k] = Spelled(t.kind, t.properties[k])
    BY SpelledSelectorParts
<1>2. t.kind \in TraitKind /\ \A k \in DOMAIN t.properties : t.properties[k] \in Property
    BY DEF Selector, SelectorRecord
<1> HIDE DEF u
<1>3. \A k \in DOMAIN t.properties :
        /\ Identity(t.kind, u.properties[k]) = Identity(t.kind, t.properties[k])
        /\ PropertySound(t.kind, u.properties[k]) = PropertySound(t.kind, t.properties[k])
        /\ IsAny(t.kind, u.properties[k]) = IsAny(t.kind, t.properties[k])
    BY <1>1, <1>2, SpelledAlike
<1>4. SelectorKey(u) = SelectorKey(t)
    BY <1>1 DEF SelectorKey
<1>5. Cardinal(u) <=> Cardinal(t)
    BY <1>1 DEF Cardinal
<1>6. (\A k \in DOMAIN u.properties : PropertySound(u.kind, u.properties[k]))
        <=> (\A k \in DOMAIN t.properties : PropertySound(t.kind, t.properties[k]))
    BY <1>1, <1>3
<1>7. Repeated(LAMBDA p : Identity(u.kind, p), u.properties)
        <=> Repeated(LAMBDA p : Identity(t.kind, p), t.properties)
    BY <1>1, <1>3 DEF Repeated
<1>8. SelectorLegal(setKind, u) <=> SelectorLegal(setKind, t)
    BY <1>1 DEF SelectorLegal
<1>9. ConstructSound(u) <=> ConstructSound(t)
    BY <1>1 DEF ConstructSound
<1>10. SelectorSound(setKind, u) <=> SelectorSound(setKind, t)
    BY <1>1, <1>5, <1>6, <1>7, <1>8, <1>9 DEF SelectorSound
<1> QED
    BY <1>3, <1>4, <1>10 DEF u

\* A set spelled out has the same kind, and one selector for each.
LEMMA SpelledSetParts ==
    ASSUME NEW set \in TraitSet
    PROVE  LET w == SpelledSet(set)
           IN  /\ w.kind = set.kind
               /\ DOMAIN w.selectors = DOMAIN set.selectors
               /\ Len(w.selectors) = Len(set.selectors)
               /\ w.selectors = <<>> <=> set.selectors = <<>>
               /\ \A j \in DOMAIN set.selectors :
                    w.selectors[j] = SpelledSelector(set.selectors[j])
<1> DEFINE w == SpelledSet(set)
<1>1. PICK new : new = [j \in DOMAIN set.selectors |-> SpelledSelector(set.selectors[j])]
    OBVIOUS
<1>2. w = [set EXCEPT !.selectors = new]
    BY <1>1 DEF SpelledSet
<1> HIDE DEF w
<1>3. w.kind = set.kind /\ w.selectors = new
    BY <1>2 DEF TraitSet
<1>4. DOMAIN new = DOMAIN set.selectors
      /\ \A j \in DOMAIN set.selectors : new[j] = SpelledSelector(set.selectors[j])
    BY <1>1
<1>5. set.selectors \in Seq(Selector)
    BY DEF TraitSet
<1>6. PICK n \in Nat : n = Len(set.selectors)
    BY <1>5
<1>7. PICK V : V = {SpelledSelector(t) : t \in Selector}
    OBVIOUS
<1>8. new \in Seq(V) /\ Len(new) = n
    <2>1. DOMAIN set.selectors = 1 .. n
        BY <1>5, <1>6
    <2>2. \A j \in 1 .. n : set.selectors[j] \in Selector
        BY <1>5, <1>6
    <2>3. \A j \in 1 .. n : SpelledSelector(set.selectors[j]) \in V
        BY <1>7, <2>2
    <2>4. new = [j \in 1 .. n |-> SpelledSelector(set.selectors[j])]
        BY <1>1, <2>1
    <2> QED
        BY <1>6, <2>3, <2>4
<1>9. new = <<>> <=> set.selectors = <<>>
    BY <1>5, <1>6, <1>8, EmptySeq
<1> QED
    BY <1>3, <1>4, <1>6, <1>8, <1>9 DEF w

\* The audit gives both the same verdict.
LEMMA SpelledSetAlike ==
    ASSUME NullAssumption, NamesAssumption, NEW set \in TraitSet
    PROVE  SetSound(SpelledSet(set)) <=> SetSound(set)
<1> DEFINE w == SpelledSet(set)
<1>1. /\ w.kind = set.kind
      /\ DOMAIN w.selectors = DOMAIN set.selectors
      /\ Len(w.selectors) = Len(set.selectors)
      /\ w.selectors = <<>> <=> set.selectors = <<>>
      /\ \A j \in DOMAIN set.selectors : w.selectors[j] = SpelledSelector(set.selectors[j])
    BY SpelledSetParts
<1>2. set.selectors \in Seq(Selector)
    BY DEF TraitSet
<1>3. \A j \in DOMAIN set.selectors : set.selectors[j] \in Selector
    BY <1>2
<1> HIDE DEF w
<1>4. \A j \in DOMAIN set.selectors :
        /\ SelectorSound(w.kind, w.selectors[j]) <=> SelectorSound(set.kind, set.selectors[j])
        /\ SelectorKey(w.selectors[j]) = SelectorKey(set.selectors[j])
    BY <1>1, <1>3, SpelledSelectorAlike
<1>5. \A j \in DOMAIN set.selectors :
        /\ w.selectors[j].kind = set.selectors[j].kind
        /\ DOMAIN w.selectors[j].properties = DOMAIN set.selectors[j].properties
        /\ Len(w.selectors[j].properties) = Len(set.selectors[j].properties)
    BY <1>1, <1>3, SpelledSelectorParts
<1>6. \A j \in DOMAIN set.selectors : \A k \in DOMAIN set.selectors[j].properties :
        IsAny(w.selectors[j].kind, w.selectors[j].properties[k])
            <=> IsAny(set.selectors[j].kind, set.selectors[j].properties[k])
    BY <1>1, <1>3, <1>5, SpelledSelectorAlike
<1>7. Repeated(SelectorKey, w.selectors) <=> Repeated(SelectorKey, set.selectors)
    BY <1>1, <1>4 DEF Repeated
<1>8. AnyAlone(w.selectors) <=> AnyAlone(set.selectors)
    <2> DEFINE AnyIn(selectors) ==
            \E j \in DOMAIN selectors : \E k \in DOMAIN selectors[j].properties :
                IsAny(selectors[j].kind, selectors[j].properties[k])
    <2>1. AnyIn(w.selectors) <=> AnyIn(set.selectors)
        BY <1>1, <1>5, <1>6
    <2>2. \A selectors : AnyAlone(selectors) <=>
            (AnyIn(selectors) => Len(selectors) = 1 /\ Len(selectors[1].properties) = 1)
        BY DEF AnyAlone
    <2>3. Len(set.selectors) = 1 => 1 \in DOMAIN set.selectors
        BY <1>2
    <2> HIDE DEF AnyIn
    <2> QED
        BY <1>1, <1>5, <2>1, <2>2, <2>3
<1> QED
    BY <1>1, <1>4, <1>7, <1>8 DEF SetSound, w

\* Acceptance depends on the names, not on how a name was given.
LEMMA InvGivesIndependent ==
    SelectorInv /\ NullAssumption /\ NamesAssumption => RepresentationIndependent
<1> SUFFICES ASSUME SelectorInv, NullAssumption, NamesAssumption
             PROVE  RepresentationIndependent
    OBVIOUS
<1> DEFINE after == SpelledOut(trait_sets)
<1>1. /\ DOMAIN after = DOMAIN trait_sets
      /\ \A i \in DOMAIN trait_sets : after[i] = SpelledSet(trait_sets[i])
    BY DEF SpelledOut
<1>2. after = <<>> <=> trait_sets = <<>>
    <2>1. DOMAIN <<>> = {}
        OBVIOUS
    <2>2. trait_sets \in Seq(TraitSet)
        BY DEF SelectorInv, TreeType
    <2>3. ASSUME trait_sets = <<>> PROVE after = <<>>
        BY <2>1, <2>3 DEF SpelledOut
    <2>4. ASSUME after = <<>> PROVE trait_sets = <<>>
        <3>1. DOMAIN trait_sets = {}
            BY <1>1, <2>1, <2>4
        <3>2. Len(trait_sets) = 0
            BY <2>2, <3>1
        <3> QED
            BY <2>2, <3>2, EmptySeq
    <2> QED
        BY <2>3, <2>4
<1> HIDE DEF after
<1>3. \A i \in DOMAIN trait_sets : trait_sets[i] \in TraitSet
    BY ActiveIsThere
<1>4. \A i \in DOMAIN trait_sets :
        /\ after[i].kind = trait_sets[i].kind
        /\ SetSound(after[i]) <=> SetSound(trait_sets[i])
    BY <1>1, <1>3, SpelledSetParts, SpelledSetAlike
<1>5. Repeated(SetKindOf, after) <=> Repeated(SetKindOf, trait_sets)
    BY <1>1, <1>4 DEF Repeated, SetKindOf
<1>6. ValidateSelectorInvariants(after) <=> ValidateSelectorInvariants(trait_sets)
    BY <1>1, <1>2, <1>4, <1>5 DEF ValidateSelectorInvariants
<1>7. ValidateSelectorInvariants(after) \in BOOLEAN
      /\ ValidateSelectorInvariants(trait_sets) \in BOOLEAN
    BY DEF ValidateSelectorInvariants
<1> QED
    BY <1>6, <1>7 DEF RepresentationIndependent, after

\* The builder's two optional indexes never go stale, and calls by the grammar
\* build the tree they say without an error.
THEOREM BuilderFollowsGrammar ==
    ASSUME ArgumentsAssumption
    PROVE  Spec => [](TypeOK /\ CursorsInRange /\ FaithfulWhileSane)
<1>1. SelectorInv /\ [Next]_vars => SelectorInv'
    BY SelectorKept
<1> QED
    BY SelectorInit, <1>1, InvGivesType, InvGivesFaithful, PTL DEF Spec

\* However the calls come, a clause that neither the builder nor the audit
\* complains about was built by calls that follow the grammar.
THEOREM AcceptedSelectorsAreSane ==
    ASSUME ArgumentsAssumption
    PROVE  Spec => []AcceptedIsSane
<1>1. SelectorInv /\ [Next]_vars => SelectorInv'
    BY SelectorKept
<1> QED
    BY SelectorInit, <1>1, InvGivesSane, PTL DEF Spec

\* What the audit accepts says nothing twice, and kind(any) is the only
\* requirement of its set.
THEOREM AcceptedSelectorsSayOnce ==
    ASSUME ArgumentsAssumption, NullAssumption
    PROVE  Spec => [](SaidOnce /\ AnyStandsAlone)
<1>1. SelectorInv /\ [Next]_vars => SelectorInv'
    BY SelectorKept
<1>2. SelectorInv => SaidOnce /\ AnyStandsAlone
    BY InvGivesSaidOnce, InvGivesAnyAlone
<1> QED
    BY SelectorInit, <1>1, <1>2, PTL DEF Spec

\* The verdict does not depend on whether a name was given as an enumerator or
\* as an identifier.
THEOREM VerdictByName ==
    ASSUME ArgumentsAssumption, NullAssumption, NamesAssumption
    PROVE  Spec => []RepresentationIndependent
<1>1. SelectorInv /\ [Next]_vars => SelectorInv'
    BY SelectorKept
<1>2. SelectorInv => RepresentationIndependent
    BY InvGivesIndependent
<1> QED
    BY SelectorInit, <1>1, <1>2, PTL DEF Spec

\* A closed set is never changed, and no call forgets an error.
THEOREM ClosedSetsStayFrozen ==
    ASSUME ArgumentsAssumption
    PROVE  Spec => ClosedSetsFrozen
<1>1. SelectorInv /\ [Next]_vars => SelectorInv'
    BY SelectorKept
<1>2. SelectorInv /\ [Next]_vars => [KeepsClosedSets]_vars
    BY SelectorKept
<1> QED
    BY SelectorInit, <1>1, <1>2, PTL DEF Spec, ClosedSetsFrozen
=============================================================================
