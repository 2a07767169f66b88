------------------------- MODULE DirectiveTree_proofs -------------------------
(***************************************************************************)
(* Proofs about DirectiveTree, for every set of directives, every graph on *)
(* it and every set of attachments.                                        *)
(***************************************************************************)
EXTENDS DirectiveTree, TLAPS, SequenceTheorems, FiniteSetTheorems,
        WellFoundedInduction

-----------------------------------------------------------------------------
(* Sequences and frames. *)

LEMMA AppendFacts ==
    ASSUME NEW S, NEW s \in Seq(S), NEW e \in S
    PROVE  /\ Append(s, e) \in Seq(S)
           /\ Len(Append(s, e)) = Len(s) + 1
           /\ \A i \in 1 .. Len(s) : Append(s, e)[i] = s[i]
           /\ Append(s, e)[Len(s) + 1] = e
           /\ Range(Append(s, e)) = Range(s) \cup {e}
<1>1. /\ Append(s, e) \in Seq(S)
      /\ Len(Append(s, e)) = Len(s) + 1
      /\ \A i \in 1 .. Len(s) : Append(s, e)[i] = s[i]
      /\ Append(s, e)[Len(s) + 1] = e
      /\ DOMAIN Append(s, e) = 1 .. Len(s) + 1
      /\ DOMAIN s = 1 .. Len(s)
      /\ Len(s) \in Nat
    OBVIOUS
<1>2. Range(Append(s, e)) = Range(s) \cup {e}
    <2>1. ASSUME NEW x \in Range(Append(s, e)) PROVE x \in Range(s) \cup {e}
        <3>1. PICK i \in 1 .. Len(s) + 1 : x = Append(s, e)[i] BY <1>1 DEF Range
        <3>2. i = Len(s) + 1 \/ i \in 1 .. Len(s) BY <1>1
        <3> QED BY <1>1, <3>1, <3>2 DEF Range
    <2>2. ASSUME NEW x \in Range(s) PROVE x \in Range(Append(s, e))
        <3>1. PICK i \in 1 .. Len(s) : x = s[i] BY <1>1 DEF Range
        <3>2. i \in 1 .. Len(s) + 1 BY <1>1
        <3> QED BY <1>1, <3>1, <3>2 DEF Range
    <2>3. e \in Range(Append(s, e))
        <3>1. Len(s) + 1 \in 1 .. Len(s) + 1 BY <1>1
        <3> QED BY <1>1, <3>1 DEF Range
    <2> QED BY <2>1, <2>2, <2>3
<1> QED BY <1>1, <1>2

LEMMA InjectiveAppend ==
    ASSUME NEW S, NEW s \in Seq(S), NEW e \in S, e \notin Range(s), IsInjective(s)
    PROVE  IsInjective(Append(s, e))
<1>1. /\ DOMAIN Append(s, e) = 1 .. Len(s) + 1
      /\ DOMAIN s = 1 .. Len(s)
      /\ Len(s) \in Nat
      /\ \A i \in 1 .. Len(s) : Append(s, e)[i] = s[i] /\ s[i] # e
      /\ Append(s, e)[Len(s) + 1] = e
    BY AppendFacts DEF Range
<1>2. SUFFICES ASSUME NEW a \in 1 .. Len(s) + 1, NEW b \in 1 .. Len(s) + 1,
                      Append(s, e)[a] = Append(s, e)[b]
               PROVE  a = b
    BY <1>1 DEF IsInjective
<1>3. (a = Len(s) + 1 \/ a \in 1 .. Len(s)) /\ (b = Len(s) + 1 \/ b \in 1 .. Len(s))
    BY <1>1
<1> QED BY <1>1, <1>2, <1>3 DEF IsInjective

\* The three traversals order the nested directives differently, but each
\* lists what is attached.
LEMMA ChildrenFacts ==
    ASSUME TypeOK, NEW d \in Directive, NEW w
    PROVE  /\ Children(w, d) \in Seq(Directive)
           /\ Len(Children(w, d)) \in Nat
           /\ Range(Children(w, d)) = Attached(d)
           /\ Attached(d) \subseteq Directive
           /\ \A k \in 1 .. Len(Children(w, d)) :
                 Children(w, d)[k] \in Directive /\ Children(w, d)[k] \in Attached(d)
<1>1. nested[d] \in Seq(Directive) BY AttachmentsAssumption DEF TypeOK
<1>2. CompletePair(d) \in Seq(Directive) BY DEF TypeOK, CompletePair
<1>3. Range(CompletePair(d)) =
          IF paired[d] # NULL /\ role[d] = "Complete" THEN {paired[d]} ELSE {}
    BY DEF CompletePair, Range
<1>4. ASSUME NEW s \in Seq(Directive), NEW t \in Seq(Directive)
      PROVE  s \o t \in Seq(Directive) /\ Range(s \o t) = Range(s) \cup Range(t)
    <2>1. /\ s \o t \in Seq(Directive)
          /\ Len(s \o t) = Len(s) + Len(t)
          /\ Len(s) \in Nat /\ Len(t) \in Nat
          /\ DOMAIN s = 1 .. Len(s) /\ DOMAIN t = 1 .. Len(t)
          /\ DOMAIN (s \o t) = 1 .. Len(s) + Len(t)
          /\ \A i \in 1 .. Len(s) + Len(t) :
                (s \o t)[i] = IF i <= Len(s) THEN s[i] ELSE t[i - Len(s)]
        OBVIOUS
    <2>2. ASSUME NEW x \in Range(s \o t) PROVE x \in Range(s) \cup Range(t)
        <3>1. PICK i \in 1 .. Len(s) + Len(t) : x = (s \o t)[i] BY <2>1 DEF Range
        <3>2. CASE i <= Len(s) BY <2>1, <3>1, <3>2 DEF Range
        <3>3. CASE i > Len(s)
            <4>1. i - Len(s) \in 1 .. Len(t) BY <2>1, <3>3
            <4> QED BY <2>1, <3>1, <3>3, <4>1 DEF Range
        <3> QED BY <2>1, <3>2, <3>3
    <2>3. ASSUME NEW x \in Range(s) PROVE x \in Range(s \o t)
        <3>1. PICK i \in 1 .. Len(s) : x = s[i] BY <2>1 DEF Range
        <3>2. i \in 1 .. Len(s) + Len(t) BY <2>1
        <3> QED BY <2>1, <3>1, <3>2 DEF Range
    <2>4. ASSUME NEW x \in Range(t) PROVE x \in Range(s \o t)
        <3>1. PICK i \in 1 .. Len(t) : x = t[i] BY <2>1 DEF Range
        <3>2. Len(s) + i \in 1 .. Len(s) + Len(t) BY <2>1
        <3>3. (s \o t)[Len(s) + i] = t[i] BY <2>1, <3>2
        <3> QED BY <2>1, <3>1, <3>2, <3>3 DEF Range
    <2> QED BY <2>1, <2>2, <2>3, <2>4
<1>5. Children(w, d) \in Seq(Directive) /\ Range(Children(w, d)) = Attached(d)
    BY <1>1, <1>2, <1>3, <1>4
    DEF Children, FragmentHolders, ImmediateNested, Attached
<1>6. /\ Len(Children(w, d)) \in Nat
      /\ DOMAIN Children(w, d) = 1 .. Len(Children(w, d))
    BY <1>5
<1>7. \A k \in 1 .. Len(Children(w, d)) :
          Children(w, d)[k] \in Range(Children(w, d)) /\ Children(w, d)[k] \in Directive
    BY <1>5, <1>6 DEF Range
<1>8. Attached(d) \subseteq Directive
    BY <1>5, <1>6, <1>7 DEF Range
<1> QED BY <1>5, <1>6, <1>7, <1>8

LEMMA TopFacts ==
    ASSUME TypeOK, ~Idle
    PROVE  /\ Len(stack) \in Nat /\ Len(stack) >= 1
           /\ DOMAIN stack = 1 .. Len(stack)
           /\ Top \in Frame /\ Top.dir \in Directive /\ Top.done \in Nat
           /\ Len(stack) \in 1 .. Len(stack)
           /\ Top.dir \in Active
           /\ \A i \in 1 .. Len(stack) : stack[i] \in Frame /\ stack[i].dir \in Directive
                                           /\ stack[i].done \in Nat
<1>1. stack \in Seq(Frame) /\ stack # <<>> BY DEF TypeOK, Idle
<1>2. Len(stack) \in Nat /\ Len(stack) >= 1 /\ DOMAIN stack = 1 .. Len(stack)
    BY <1>1, EmptySeq
<1>3. \A i \in 1 .. Len(stack) : stack[i] \in Frame BY <1>1
<1>4. Len(stack) \in 1 .. Len(stack) BY <1>2
<1> QED BY <1>2, <1>3, <1>4 DEF Top, Frame, Active

LEMMA SkipFacts ==
    ASSUME TypeOK, ~Idle, Skip
    PROVE  /\ stack' \in Seq(Frame)
           /\ Len(stack') = Len(stack)
           /\ \A i \in 1 .. Len(stack) :
                 /\ stack'[i].dir = stack[i].dir
                 /\ stack'[i].done = IF i = Len(stack) THEN stack[i].done + 1
                                     ELSE stack[i].done
           /\ Active' = Active
           /\ ~Idle'
<1>1. stack \in Seq(Frame) BY DEF TypeOK
<1>2. Len(stack) \in Nat /\ Len(stack) >= 1 /\ Len(stack) \in 1 .. Len(stack)
      /\ DOMAIN stack = 1 .. Len(stack)
      /\ \A i \in 1 .. Len(stack) : stack[i] \in Frame
    BY TopFacts
<1>3. stack' = [stack EXCEPT ![Len(stack)] = [stack[Len(stack)] EXCEPT !.done = @ + 1]]
    BY DEF Skip
<1>4. [stack[Len(stack)] EXCEPT !.done = @ + 1]
          = [dir |-> stack[Len(stack)].dir, done |-> stack[Len(stack)].done + 1]
    BY <1>2 DEF Frame
<1>5. [dir |-> stack[Len(stack)].dir, done |-> stack[Len(stack)].done + 1] \in Frame
    BY <1>2 DEF Frame
<1>6. /\ stack' \in Seq(Frame)
      /\ Len(stack') = Len(stack)
      /\ \A i \in 1 .. Len(stack) :
            stack'[i] = IF i = Len(stack)
                        THEN [dir |-> stack[Len(stack)].dir,
                              done |-> stack[Len(stack)].done + 1]
                        ELSE stack[i]
    BY <1>1, <1>2, <1>3, <1>4, <1>5, ExceptSeq
<1>7. /\ \A i \in 1 .. Len(stack) : stack'[i].dir = stack[i].dir
      /\ \A i \in 1 .. Len(stack) :
            stack'[i].done = IF i = Len(stack) THEN stack[i].done + 1 ELSE stack[i].done
    BY <1>6
<1>8. DOMAIN stack' = 1 .. Len(stack) BY <1>6
<1>9. Active' = Active BY <1>2, <1>7, <1>8 DEF Active
<1>10. ~Idle'
    <2>1. Len(stack) \in Nat /\ Len(stack) >= 1 BY <1>2
    <2>2. Len(stack') = Len(stack) BY <1>6
    <2>3. Len(stack') # 0 BY <2>1, <2>2
    <2> QED BY <2>3 DEF Idle
<1> QED BY <1>6, <1>7, <1>9, <1>10

LEMMA CallFacts ==
    ASSUME TypeOK, ~Idle, NEW d \in Directive, Call(d)
    PROVE  /\ stack' \in Seq(Frame)
           /\ Len(stack') = Len(stack) + 1
           /\ \A i \in 1 .. Len(stack) :
                 /\ stack'[i].dir = stack[i].dir
                 /\ stack'[i].done = IF i = Len(stack) THEN stack[i].done + 1
                                     ELSE stack[i].done
           /\ stack'[Len(stack) + 1].dir = d
           /\ stack'[Len(stack) + 1].done = 0
           /\ Active' = Active \cup {d}
           /\ ~Idle'
<1>1. stack \in Seq(Frame) BY DEF TypeOK
<1>2. Len(stack) \in Nat /\ Len(stack) >= 1 /\ Len(stack) \in 1 .. Len(stack)
      /\ DOMAIN stack = 1 .. Len(stack)
      /\ \A i \in 1 .. Len(stack) : stack[i] \in Frame
    BY TopFacts
<1> DEFINE adv == [stack EXCEPT ![Len(stack)] = [stack[Len(stack)] EXCEPT !.done = @ + 1]]
<1>3. stack' = Append(adv, [dir |-> d, done |-> 0]) BY DEF Call
<1>4. [stack[Len(stack)] EXCEPT !.done = @ + 1]
          = [dir |-> stack[Len(stack)].dir, done |-> stack[Len(stack)].done + 1]
    BY <1>2 DEF Frame
<1>5. [dir |-> stack[Len(stack)].dir, done |-> stack[Len(stack)].done + 1] \in Frame
      /\ [dir |-> d, done |-> 0] \in Frame
    BY <1>2 DEF Frame
<1>6. /\ adv \in Seq(Frame)
      /\ Len(adv) = Len(stack)
      /\ \A i \in 1 .. Len(stack) :
            adv[i] = IF i = Len(stack)
                     THEN [dir |-> stack[Len(stack)].dir,
                           done |-> stack[Len(stack)].done + 1]
                     ELSE stack[i]
    BY <1>1, <1>2, <1>4, <1>5, ExceptSeq
<1> HIDE DEF adv
<1>7. /\ stack' \in Seq(Frame)
      /\ Len(stack') = Len(stack) + 1
      /\ \A i \in 1 .. Len(stack) : stack'[i] = adv[i]
      /\ stack'[Len(stack) + 1] = [dir |-> d, done |-> 0]
    BY <1>3, <1>5, <1>6, AppendFacts
<1>8. /\ \A i \in 1 .. Len(stack) : stack'[i].dir = stack[i].dir
      /\ \A i \in 1 .. Len(stack) :
            stack'[i].done = IF i = Len(stack) THEN stack[i].done + 1 ELSE stack[i].done
    BY <1>6, <1>7
<1>9. stack'[Len(stack) + 1].dir = d /\ stack'[Len(stack) + 1].done = 0
    BY <1>7
<1>10. DOMAIN stack' = 1 .. Len(stack) + 1 BY <1>7
<1>11. Active' = Active \cup {d}
    <2>1. ASSUME NEW x \in Active' PROVE x \in Active \cup {d}
        <3>1. PICK i \in 1 .. Len(stack) + 1 : x = stack'[i].dir BY <1>10, <2>1 DEF Active
        <3>2. i = Len(stack) + 1 \/ i \in 1 .. Len(stack) BY <1>2
        <3> QED BY <1>2, <1>7, <1>8, <3>1, <3>2 DEF Active
    <2>2. ASSUME NEW x \in Active PROVE x \in Active'
        <3>1. PICK i \in 1 .. Len(stack) : x = stack[i].dir BY <1>2, <2>2 DEF Active
        <3>2. i \in 1 .. Len(stack) + 1 BY <1>2
        <3> QED BY <1>8, <1>10, <3>1, <3>2 DEF Active
    <2>3. d \in Active'
        <3>1. Len(stack) + 1 \in 1 .. Len(stack) + 1 BY <1>2
        <3> QED BY <1>7, <1>10, <3>1 DEF Active
    <2> QED BY <2>1, <2>2, <2>3
<1>12. ~Idle'
    <2>1. Len(stack) \in Nat BY <1>2
    <2>2. Len(stack') = Len(stack) + 1 BY <1>7
    <2>3. Len(stack') # 0 BY <2>1, <2>2
    <2> QED BY <2>3 DEF Idle
<1> QED BY <1>7, <1>8, <1>9, <1>11, <1>12

LEMMA ReturnFacts ==
    ASSUME TypeOK, Return
    PROVE  /\ stack' \in Seq(Frame)
           /\ Len(stack') = Len(stack) - 1
           /\ \A i \in 1 .. Len(stack) - 1 : stack'[i] = stack[i]
           /\ Active = Active' \cup {Top.dir}
           /\ DOMAIN stack' = 1 .. Len(stack) - 1
<1>1. stack \in Seq(Frame) BY DEF TypeOK
<1>2. ~Idle BY DEF Return
<1>3. Len(stack) \in Nat /\ Len(stack) >= 1 /\ Len(stack) \in 1 .. Len(stack)
      /\ DOMAIN stack = 1 .. Len(stack)
      /\ \A i \in 1 .. Len(stack) : stack[i] \in Frame
    BY <1>2, TopFacts
<1>4. stack' = SubSeq(stack, 1, Len(stack) - 1) BY DEF Return
<1>5. /\ stack' \in Seq(Frame)
      /\ Len(stack') = Len(stack) - 1
      /\ \A i \in 1 .. Len(stack) - 1 : stack'[i] = stack[i]
    <2>1. \A i \in 1 .. Len(stack) - 1 : stack[i] \in Frame BY <1>3
    <2>2. Len(stack) - 1 \in Int /\ 1 \in Int BY <1>3
    <2>3. /\ stack' \in Seq(Frame)
          /\ Len(stack') = IF 1 <= Len(stack) - 1 THEN Len(stack) - 1 - 1 + 1 ELSE 0
          /\ \A i \in 1 .. Len(stack) - 1 - 1 + 1 : stack'[i] = stack[1 + i - 1]
        BY <1>4, <2>1, <2>2, SubSeqProperties
    <2>4. Len(stack) - 1 - 1 + 1 = Len(stack) - 1 BY <1>3
    <2>5. \A i \in 1 .. Len(stack) - 1 : 1 + i - 1 = i BY <1>3
    <2>6. Len(stack') = Len(stack) - 1
        <3>1. 1 <= Len(stack) - 1 \/ Len(stack) - 1 = 0 BY <1>3
        <3> QED BY <1>3, <2>3, <2>4, <3>1
    <2>7. \A i \in 1 .. Len(stack) - 1 : stack'[i] = stack[i]
        <3>1. \A i \in 1 .. Len(stack) - 1 : stack'[i] = stack[1 + i - 1]
            BY <2>3, <2>4
        <3> QED BY <2>5, <3>1
    <2> QED BY <2>3, <2>6, <2>7
<1>6. DOMAIN stack' = 1 .. Len(stack) - 1 BY <1>5
<1>7. Active = Active' \cup {Top.dir}
    <2>1. ASSUME NEW x \in Active PROVE x \in Active' \cup {Top.dir}
        <3>1. PICK i \in 1 .. Len(stack) : x = stack[i].dir BY <1>3, <2>1 DEF Active
        <3>2. i = Len(stack) \/ i \in 1 .. Len(stack) - 1
            <4>1. Len(stack) \in Nat BY <1>3
            <4> QED BY <4>1
        <3> QED BY <1>5, <1>6, <3>1, <3>2 DEF Active, Top
    <2>2. ASSUME NEW x \in Active' PROVE x \in Active
        <3>1. PICK i \in 1 .. Len(stack) - 1 : x = stack'[i].dir BY <1>6, <2>2 DEF Active
        <3>2. i \in 1 .. Len(stack) BY <1>3
        <3> QED BY <1>3, <1>5, <3>1, <3>2 DEF Active
    <2>3. Top.dir \in Active BY <1>3 DEF Active, Top
    <2> QED BY <2>1, <2>2, <2>3
<1> QED BY <1>5, <1>6, <1>7

LEMMA RangeType ==
    ASSUME NEW S, NEW s \in Seq(S)
    PROVE  Range(s) \subseteq S /\ Range(<<>>) = {}
BY DEF Range

\* No action touches the graph, so whatever is said of it stays.
LEMMA GraphFixed ==
    ASSUME UNCHANGED graphVars
    PROVE  /\ \A w, d : Children(w, d)' = Children(w, d)
           /\ \A d : Attached(d)' = Attached(d)
           /\ \A d : FragmentHolders(d)' = FragmentHolders(d)
           /\ Reachable' = Reachable
           /\ HasCycle' = HasCycle
           /\ Owned' = Owned
<1>1. /\ \A w, d : Children(w, d)' = Children(w, d)
      /\ \A d : FragmentHolders(d)' = FragmentHolders(d)
    BY DEF Children, FragmentHolders, ImmediateNested, CompletePair, graphVars
<1>2. \A d : Attached(d)' = Attached(d)
    BY DEF Attached, graphVars
<1>3. Reachable' = Reachable BY <1>2 DEF Reachable, Closed
<1>4. HasCycle' = HasCycle BY <1>2, <1>3 DEF HasCycle, Cyclic
<1>5. Owned' = Owned BY <1>1 DEF Owned
<1> QED BY <1>1, <1>2, <1>3, <1>4, <1>5

LEMMA VisitFacts ==
    ASSUME TypeOK, NEW w, NEW d \in Directive, Visits(w, d)
    PROVE  /\ ~Idle
           /\ Top.done + 1 \in 1 .. Len(Children(walk, Top.dir))
           /\ Top.done < Len(Children(walk, Top.dir))
           /\ d = Children(walk, Top.dir)[Top.done + 1]
           /\ d \in Attached(Top.dir)
<1>1. ~Idle /\ walk = w /\ Top.done < Len(Children(walk, Top.dir))
      /\ d = Children(walk, Top.dir)[Top.done + 1]
    BY DEF Visits
<1>2. Top.dir \in Directive /\ Top.done \in Nat BY <1>1, TopFacts
<1>3. Len(Children(walk, Top.dir)) \in Nat BY <1>2, ChildrenFacts
<1>4. Top.done + 1 \in 1 .. Len(Children(walk, Top.dir)) BY <1>1, <1>2, <1>3
<1> QED BY <1>1, <1>2, <1>4, ChildrenFacts
-----------------------------------------------------------------------------
(* Type correctness. *)

LEMMA CallRootFacts ==
    ASSUME CallRoot
    PROVE  /\ stack' \in Seq(Frame)
           /\ Len(stack') = 1
           /\ stack'[1] = [dir |-> Root, done |-> 0]
           /\ Active' = {Root}
           /\ DOMAIN stack' = {1}
<1>1. stack' = <<[dir |-> Root, done |-> 0]>> BY DEF CallRoot
<1>2. [dir |-> Root, done |-> 0] \in Frame BY RootAssumption DEF Frame
<1> QED BY <1>1, <1>2 DEF Active

LEMMA TypeStep == TypeOK /\ [Next]_vars => TypeOK'
<1> SUFFICES ASSUME TypeOK, [Next]_vars PROVE TypeOK'
    OBVIOUS
<1> USE DEF TypeOK
<1>1. CASE StartHooks
    BY <1>1, CallRootFacts, RootAssumption DEF StartHooks, graphVars, Walk
<1>2. CASE StartAudit
    BY <1>2, CallRootFacts, RootAssumption DEF StartAudit, graphVars, Walk
<1>3. CASE StartPolicy
    BY <1>3, CallRootFacts, RootAssumption DEF StartPolicy, graphVars, Walk
<1>4. CASE HookNested
    <2>1. PICK d \in Directive : Visits("hooks", d) /\ Call(d) /\ hooked' = Append(hooked, d)
        BY <1>4 DEF HookNested
    <2>2. stack' \in Seq(Frame) BY <2>1, VisitFacts, CallFacts
    <2>3. hooked' \in Seq(Directive) BY <2>1
    <2> QED BY <1>4, <2>2, <2>3 DEF HookNested, graphVars
<1>5. CASE AuditActive
    <2>1. PICK d \in Directive : Visits("audit", d) /\ Skip /\ cycles' = cycles \cup {d}
        BY <1>5 DEF AuditActive
    <2>2. stack' \in Seq(Frame) BY <2>1, VisitFacts, SkipFacts
    <2> QED BY <1>5, <2>1, <2>2 DEF AuditActive, graphVars
<1>6. CASE AuditValidated
    <2>1. PICK d \in Directive : Visits("audit", d) /\ Skip
        BY <1>6 DEF AuditValidated
    <2>2. stack' \in Seq(Frame) BY <2>1, VisitFacts, SkipFacts
    <2> QED BY <1>6, <2>1, <2>2 DEF AuditValidated, graphVars
<1>7. CASE AuditNested
    <2>1. PICK d \in Directive : Visits("audit", d) /\ Call(d) /\ audited' = Append(audited, d)
        BY <1>7 DEF AuditNested
    <2>2. stack' \in Seq(Frame) BY <2>1, VisitFacts, CallFacts
    <2>3. audited' \in Seq(Directive) BY <2>1
    <2> QED BY <1>7, <2>2, <2>3 DEF AuditNested, graphVars
<1>8. CASE PolicyVisited
    <2>1. PICK d \in Directive : Visits("policy", d) /\ Skip
        BY <1>8 DEF PolicyVisited
    <2>2. stack' \in Seq(Frame) BY <2>1, VisitFacts, SkipFacts
    <2> QED BY <1>8, <2>1, <2>2 DEF PolicyVisited, graphVars
<1>9. CASE PolicyNested
    <2>1. PICK d \in Directive : Visits("policy", d) /\ Call(d) /\ visited' = Append(visited, d)
        BY <1>9 DEF PolicyNested
    <2>2. stack' \in Seq(Frame) BY <2>1, VisitFacts, CallFacts
    <2>3. visited' \in Seq(Directive) BY <2>1
    <2> QED BY <1>9, <2>2, <2>3 DEF PolicyNested, graphVars
<1>10. CASE Return
    <2>1. stack' \in Seq(Frame) BY <1>10, ReturnFacts
    <2>2. Top.dir \in Directive BY <1>10, TopFacts DEF Return
    <2>3. validated' \in Seq(Directive) BY <1>10, <2>2 DEF Return
    <2> QED BY <1>10, <2>1, <2>3 DEF Return, graphVars
<1>11. CASE UNCHANGED vars BY <1>11 DEF vars, graphVars
<1> QED BY <1>1, <1>2, <1>3, <1>4, <1>5, <1>6, <1>7, <1>8, <1>9, <1>10, <1>11
    DEF Next, Step

LEMMA TypeInit == Init => TypeOK
BY DEF Init, InitGraph, TypeOK, Walk, Role

(* The walks keep to their types: a null pair is never walked into. *)
THEOREM TreeTypeCorrect == Spec => []TypeOK
<1> QED BY TypeInit, TypeStep, PTL DEF Spec
-----------------------------------------------------------------------------
(* The invariant.  Met is what the walk under way has come to. *)

Met == CASE walk = "hooks"  -> Range(hooked)
         [] walk = "audit"  -> Range(audited)
         [] walk = "policy" -> Range(visited)
         [] walk = "none"   -> {}

\* A frame waits for the call above it.
StackLinked ==
    /\ \A i \in 1 .. Len(stack) : stack[i].done <= Len(Children(walk, stack[i].dir))
    /\ \A i \in 1 .. Len(stack) - 1 :
          /\ stack[i].done >= 1
          /\ Children(walk, stack[i].dir)[stack[i].done] = stack[i + 1].dir

StackDistinct ==
    \A i, j \in 1 .. Len(stack) : stack[i].dir = stack[j].dir => i = j

\* What is met is reachable, and what hangs below it is met as well, unless a
\* loop has still to come to it.
MetSound ==
    /\ walk = "none" => stack = <<>>
    /\ walk # "none" => Root \in Met
    /\ Active \subseteq Met
    /\ Met \subseteq Reachable
    /\ \A d \in Met : \A k \in 1 .. Len(Children(walk, d)) :
          \/ Children(walk, d)[k] \in Met
          \/ \E i \in 1 .. Len(stack) : stack[i].dir = d /\ stack[i].done < k

AuditSound ==
    /\ IsInjective(audited)
    /\ walk \in {"none", "hooks"} => audited = <<>> /\ validated = <<>> /\ cycles = {}
    /\ walk = "audit" => Range(audited) = Range(validated) \cup Active
    /\ walk = "policy" => Range(audited) = Reachable /\ Range(validated) = Reachable

\* A directive met by the hooks was come to in its one place.
HooksSound ==
    walk = "hooks" =>
        /\ Owned
        /\ IsInjective(hooked)
        /\ \A d \in Range(hooked) \ {Root} :
              \E p \in Range(hooked) : \E k \in 1 .. Len(FragmentHolders(p)) :
                  /\ FragmentHolders(p)[k] = d
                  /\ \A i \in 1 .. Len(stack) : stack[i].dir = p => k <= stack[i].done

CyclesSound == cycles # {} => HasCycle

\* While no cycle is reported, validated is a post-order of what it holds.
PostOrder ==
    cycles = {} =>
        /\ \A i \in 1 .. Len(validated) : \A c \in Attached(validated[i]) :
              \E j \in 1 .. i - 1 : validated[j] = c
        /\ walk = "audit" =>
              \A i \in 1 .. Len(stack) : \A k \in 1 .. stack[i].done :
                  \/ Children(walk, stack[i].dir)[k] \in Range(validated)
                  \/ k = stack[i].done /\ i < Len(stack)

TreeInv ==
    /\ TypeOK
    /\ StackLinked
    /\ StackDistinct
    /\ MetSound
    /\ AuditSound
    /\ HooksSound
    /\ CyclesSound
    /\ PostOrder
-----------------------------------------------------------------------------
(* What is reachable. *)

LEMMA ReachableFacts ==
    ASSUME TypeOK
    PROVE  /\ Root \in Reachable
           /\ Reachable \subseteq Directive
           /\ \A d \in Reachable : Attached(d) \subseteq Reachable
           /\ \A S \in SUBSET Directive : Root \in S /\ Closed(S) => Reachable \subseteq S
<1>1. Root \in Reachable BY RootAssumption DEF Reachable
<1>2. ASSUME NEW d \in Reachable, NEW c \in Attached(d) PROVE c \in Reachable
    <2>1. d \in Directive BY DEF Reachable
    <2>2. c \in Directive BY <2>1, ChildrenFacts
    <2>3. ASSUME NEW S \in SUBSET Directive, Root \in S, Closed(S) PROVE c \in S
        <3>1. d \in S BY <2>3 DEF Reachable
        <3> QED BY <2>3, <3>1 DEF Closed
    <2> QED BY <2>2, <2>3 DEF Reachable
<1> QED BY <1>1, <1>2 DEF Reachable

\* A walk that has ended has left nothing out.
LEMMA EndedWalkMetAll ==
    ASSUME TypeOK, MetSound, Idle, walk # "none"
    PROVE  Met = Reachable
<1>1. Met \subseteq Directive BY ReachableFacts DEF MetSound
<1>2. ASSUME NEW d \in Met, NEW c \in Attached(d) PROVE c \in Met
    <2>1. d \in Directive BY <1>1
    <2>2. c \in Range(Children(walk, d)) BY <2>1, ChildrenFacts
    <2>3. PICK k \in 1 .. Len(Children(walk, d)) : c = Children(walk, d)[k]
        BY <2>1, <2>2, ChildrenFacts DEF Range
    <2>4. Len(stack) = 0 BY DEF Idle
    <2>5. ~ \E i \in 1 .. Len(stack) : stack[i].dir = d /\ stack[i].done < k
        BY <2>4
    <2> QED BY <2>3, <2>5 DEF MetSound
<1>3. Closed(Met) BY <1>2 DEF Closed
<1>4. Root \in Met BY DEF MetSound
<1>5. Reachable \subseteq Met BY <1>1, <1>3, <1>4, ReachableFacts
<1> QED BY <1>5 DEF MetSound
-----------------------------------------------------------------------------
(* The kinds of steps a walk takes. *)

CallStep(d) == Visits(walk, d) /\ Call(d) /\ d \notin Met /\ Met' = Met \cup {d}
SkipStep(d) == Visits(walk, d) /\ Skip /\ d \in Met /\ Met' = Met

LEMMA HookFresh ==
    ASSUME TypeOK, HooksSound, NEW d \in Directive, Visits("hooks", d)
    PROVE  d \notin Range(hooked)
<1> SUFFICES ASSUME d \in Range(hooked) PROVE FALSE
    OBVIOUS
<1>1. walk = "hooks" /\ ~Idle BY DEF Visits
<1>2. Owned BY <1>1 DEF HooksSound
<1>3. Top.dir \in Directive /\ Len(stack) \in 1 .. Len(stack) /\ Top.done \in Nat
    BY <1>1, TopFacts
<1> DEFINE t == Top.dir
           m == Top.done + 1
<1>4. /\ m \in 1 .. Len(FragmentHolders(t))
      /\ d = FragmentHolders(t)[m]
    BY <1>1, VisitFacts DEF Children
<1>5. ASSUME NEW p \in Directive
      PROVE  /\ DOMAIN FragmentHolders(p) = 1 .. Len(FragmentHolders(p))
             /\ FragmentHolders(p) \in Seq(Directive)
    <2>1. Children("hooks", p) \in Seq(Directive) BY ChildrenFacts
    <2> QED BY <2>1 DEF Children
<1>6. d \in Range(FragmentHolders(t)) BY <1>3, <1>4, <1>5 DEF Range
<1>7. d # Root BY <1>2, <1>3, <1>6 DEF Owned
<1>8. PICK p \in Range(hooked) : \E k \in 1 .. Len(FragmentHolders(p)) :
          /\ FragmentHolders(p)[k] = d
          /\ \A i \in 1 .. Len(stack) : stack[i].dir = p => k <= stack[i].done
    BY <1>1, <1>7 DEF HooksSound
<1>9. PICK k \in 1 .. Len(FragmentHolders(p)) :
          /\ FragmentHolders(p)[k] = d
          /\ \A i \in 1 .. Len(stack) : stack[i].dir = p => k <= stack[i].done
    BY <1>8
<1>10. p \in Directive BY RangeType DEF TypeOK
<1>11. d \in Range(FragmentHolders(p)) BY <1>5, <1>9, <1>10 DEF Range
<1>12. p = t BY <1>2, <1>3, <1>6, <1>10, <1>11 DEF Owned
<1>13. k = m
    <2>1. IsInjective(FragmentHolders(t)) BY <1>2, <1>3 DEF Owned
    <2>2. k \in DOMAIN FragmentHolders(t) /\ m \in DOMAIN FragmentHolders(t)
        BY <1>3, <1>4, <1>5, <1>9, <1>12
    <2> QED BY <1>4, <1>9, <1>12, <2>1, <2>2 DEF IsInjective
<1>14. k <= Top.done BY <1>3, <1>9, <1>12 DEF Top
<1> QED BY <1>3, <1>13, <1>14

LEMMA StepKinds ==
    ASSUME TreeInv, Step
    PROVE  /\ UNCHANGED graphVars
           /\ walk' = walk
           /\ walk # "none"
           /\ ~Idle
           /\ \/ \E d \in Directive : CallStep(d)
              \/ \E d \in Directive : SkipStep(d)
              \/ Return /\ Met' = Met
<1>0. TypeOK /\ HooksSound /\ MetSound /\ AuditSound BY DEF TreeInv
<1>1. CASE HookNested
    <2>1. PICK d \in Directive : Visits("hooks", d) /\ Call(d) /\ hooked' = Append(hooked, d)
                                 /\ UNCHANGED <<graphVars, walk>>
        BY <1>1 DEF HookNested
    <2>2. walk = "hooks" /\ ~Idle BY <2>1 DEF Visits
    <2>3. d \notin Range(hooked) BY <1>0, <2>1, HookFresh
    <2>4. Range(hooked') = Range(hooked) \cup {d} BY <1>0, <2>1, AppendFacts DEF TypeOK
    <2>5. Met = Range(hooked) /\ Met' = Range(hooked') BY <2>1, <2>2 DEF Met
    <2>6. CallStep(d) BY <2>1, <2>2, <2>3, <2>4, <2>5 DEF CallStep
    <2> QED BY <2>1, <2>2, <2>6
<1>2. CASE AuditActive
    <2>1. PICK d \in Directive : Visits("audit", d) /\ d \in Active /\ Skip
                                 /\ UNCHANGED <<graphVars, walk, audited>>
        BY <1>2 DEF AuditActive
    <2>2. walk = "audit" /\ ~Idle BY <2>1 DEF Visits
    <2>3. Met' = Met BY <2>1, <2>2 DEF Met
    <2>4. SkipStep(d) BY <1>0, <2>1, <2>2, <2>3 DEF SkipStep, MetSound
    <2> QED BY <2>1, <2>2, <2>4
<1>3. CASE AuditValidated
    <2>1. PICK d \in Directive : Visits("audit", d) /\ AlreadyValidated(d) /\ Skip
                                 /\ UNCHANGED <<graphVars, walk, audited>>
        BY <1>3 DEF AuditValidated
    <2>2. walk = "audit" /\ ~Idle BY <2>1 DEF Visits
    <2>3. Met' = Met /\ Met = Range(audited) BY <2>1, <2>2 DEF Met
    <2>4. d \in Met BY <1>0, <2>1, <2>2, <2>3 DEF AlreadyValidated, AuditSound
    <2>5. SkipStep(d) BY <2>1, <2>2, <2>3, <2>4 DEF SkipStep
    <2> QED BY <2>1, <2>2, <2>5
<1>4. CASE AuditNested
    <2>1. PICK d \in Directive : Visits("audit", d) /\ Call(d) /\ d \notin Active
                                 /\ ~AlreadyValidated(d)
                                 /\ audited' = Append(audited, d)
                                 /\ UNCHANGED <<graphVars, walk>>
        BY <1>4 DEF AuditNested
    <2>2. walk = "audit" /\ ~Idle BY <2>1 DEF Visits
    <2>3. d \notin Range(audited) BY <1>0, <2>1, <2>2 DEF AuditSound, AlreadyValidated
    <2>4. Range(audited') = Range(audited) \cup {d} BY <1>0, <2>1, AppendFacts DEF TypeOK
    <2>5. Met = Range(audited) /\ Met' = Range(audited') BY <2>1, <2>2 DEF Met
    <2>6. CallStep(d) BY <2>1, <2>2, <2>3, <2>4, <2>5 DEF CallStep
    <2> QED BY <2>1, <2>2, <2>6
<1>5. CASE PolicyVisited
    <2>1. PICK d \in Directive : Visits("policy", d) /\ AlreadyVisited(d) /\ Skip
                                 /\ UNCHANGED <<graphVars, walk, visited>>
        BY <1>5 DEF PolicyVisited
    <2>2. walk = "policy" /\ ~Idle BY <2>1 DEF Visits
    <2>3. Met' = Met /\ Met = Range(visited) BY <2>1, <2>2 DEF Met
    <2>4. SkipStep(d) BY <2>1, <2>2, <2>3 DEF SkipStep, AlreadyVisited
    <2> QED BY <2>1, <2>2, <2>4
<1>6. CASE PolicyNested
    <2>1. PICK d \in Directive : Visits("policy", d) /\ Call(d) /\ ~AlreadyVisited(d)
                                 /\ visited' = Append(visited, d)
                                 /\ UNCHANGED <<graphVars, walk>>
        BY <1>6 DEF PolicyNested
    <2>2. walk = "policy" /\ ~Idle BY <2>1 DEF Visits
    <2>3. d \notin Range(visited) BY <2>1 DEF AlreadyVisited
    <2>4. Range(visited') = Range(visited) \cup {d} BY <1>0, <2>1, AppendFacts DEF TypeOK
    <2>5. Met = Range(visited) /\ Met' = Range(visited') BY <2>1, <2>2 DEF Met
    <2>6. CallStep(d) BY <2>1, <2>2, <2>3, <2>4, <2>5 DEF CallStep
    <2> QED BY <2>1, <2>2, <2>6
<1>7. CASE Return
    <2>1. UNCHANGED <<graphVars, walk, hooked, audited, visited>> /\ ~Idle
        BY <1>7 DEF Return
    <2>2. walk # "none" BY <1>0, <2>1 DEF MetSound, Idle
    <2>3. Met' = Met BY <2>1 DEF Met
    <2> QED BY <1>7, <2>1, <2>2, <2>3
<1> QED BY <1>1, <1>2, <1>3, <1>4, <1>5, <1>6, <1>7 DEF Step

LEMMA StackStep ==
    ASSUME TreeInv, Step
    PROVE  StackLinked' /\ StackDistinct'
<1>0. TypeOK /\ StackLinked /\ StackDistinct /\ MetSound BY DEF TreeInv
<1>1. /\ ~Idle
      /\ walk' = walk
      /\ \A w, d : Children(w, d)' = Children(w, d)
    BY StepKinds, GraphFixed
<1> DEFINE n == Len(stack)
<1>2. /\ n \in Nat /\ n >= 1 /\ n \in 1 .. n
      /\ \A i \in 1 .. n : stack[i].dir \in Directive /\ stack[i].done \in Nat
    BY <1>0, <1>1, TopFacts
<1>3. SUFFICES
        /\ \A i \in 1 .. Len(stack') : stack'[i].done <= Len(Children(walk, stack'[i].dir))
        /\ \A i \in 1 .. Len(stack') - 1 :
              /\ stack'[i].done >= 1
              /\ Children(walk, stack'[i].dir)[stack'[i].done] = stack'[i + 1].dir
        /\ StackDistinct'
    BY <1>1 DEF StackLinked
<1>4. CASE \E d \in Directive : CallStep(d)
    <2>1. PICK d \in Directive : Visits(walk, d) /\ Call(d) /\ d \notin Met
        BY <1>4 DEF CallStep
    <2>2. /\ Len(stack') = n + 1
          /\ \A i \in 1 .. n :
                /\ stack'[i].dir = stack[i].dir
                /\ stack'[i].done = IF i = n THEN stack[i].done + 1 ELSE stack[i].done
          /\ stack'[n + 1].dir = d /\ stack'[n + 1].done = 0
        BY <1>0, <1>1, <2>1, CallFacts
    <2>3. /\ stack[n].done + 1 <= Len(Children(walk, stack[n].dir))
          /\ d = Children(walk, stack[n].dir)[stack[n].done + 1]
        BY <1>0, <1>2, <2>1, VisitFacts DEF Top
    <2>4. ASSUME NEW i \in 1 .. n + 1
          PROVE  stack'[i].done <= Len(Children(walk, stack'[i].dir))
        <3>1. CASE i = n + 1
            <4>1. Len(Children(walk, d)) \in Nat BY <1>0, ChildrenFacts
            <4> QED BY <2>2, <3>1, <4>1
        <3>2. CASE i = n BY <1>2, <2>2, <2>3, <3>2
        <3>3. CASE i \in 1 .. n /\ i # n BY <1>0, <2>2, <3>3 DEF StackLinked
        <3> QED BY <1>2, <3>1, <3>2, <3>3
    <2>5. ASSUME NEW i \in 1 .. n
          PROVE  /\ stack'[i].done >= 1
                 /\ Children(walk, stack'[i].dir)[stack'[i].done] = stack'[i + 1].dir
        <3>1. CASE i = n BY <1>2, <2>2, <2>3, <3>1
        <3>2. CASE i # n
            <4>1. i \in 1 .. n - 1 /\ i + 1 \in 1 .. n BY <1>2, <3>2
            <4>2. /\ stack[i].done >= 1
                  /\ Children(walk, stack[i].dir)[stack[i].done] = stack[i + 1].dir
                BY <1>0, <4>1 DEF StackLinked
            <4> QED BY <2>2, <3>2, <4>1, <4>2
        <3> QED BY <3>1, <3>2
    <2>6. ASSUME NEW i \in 1 .. n + 1, NEW j \in 1 .. n + 1, stack'[i].dir = stack'[j].dir
          PROVE  i = j
        <3>1. \A m \in 1 .. n : stack'[m].dir # d
            <4>1. \A m \in 1 .. n : stack[m].dir \in Active BY <1>0, <1>1, TopFacts DEF Active
            <4> QED BY <1>0, <2>1, <2>2, <4>1 DEF MetSound
        <3>2. (i = n + 1 \/ i \in 1 .. n) /\ (j = n + 1 \/ j \in 1 .. n) BY <1>2
        <3> QED BY <1>0, <2>2, <2>6, <3>1, <3>2 DEF StackDistinct
    <2>7. Len(stack') - 1 = n BY <1>2, <2>2
    <2> QED BY <2>2, <2>4, <2>5, <2>6, <2>7 DEF StackDistinct
<1>5. CASE \E d \in Directive : SkipStep(d)
    <2>1. PICK d \in Directive : Visits(walk, d) /\ Skip
        BY <1>5 DEF SkipStep
    <2>2. /\ Len(stack') = n
          /\ \A i \in 1 .. n :
                /\ stack'[i].dir = stack[i].dir
                /\ stack'[i].done = IF i = n THEN stack[i].done + 1 ELSE stack[i].done
        BY <1>0, <1>1, <2>1, SkipFacts
    <2>3. stack[n].done + 1 <= Len(Children(walk, stack[n].dir))
        BY <1>0, <1>2, <2>1, VisitFacts DEF Top
    <2>4. ASSUME NEW i \in 1 .. n
          PROVE  stack'[i].done <= Len(Children(walk, stack'[i].dir))
        BY <1>0, <1>2, <2>2, <2>3 DEF StackLinked
    <2>5. ASSUME NEW i \in 1 .. n - 1
          PROVE  /\ stack'[i].done >= 1
                 /\ Children(walk, stack'[i].dir)[stack'[i].done] = stack'[i + 1].dir
        <3>1. i \in 1 .. n /\ i # n /\ i + 1 \in 1 .. n BY <1>2
        <3>2. /\ stack[i].done >= 1
              /\ Children(walk, stack[i].dir)[stack[i].done] = stack[i + 1].dir
            BY <1>0 DEF StackLinked
        <3> QED BY <2>2, <3>1, <3>2
    <2>6. StackDistinct' BY <1>0, <2>2 DEF StackDistinct
    <2> QED BY <2>2, <2>4, <2>5, <2>6
<1>6. CASE Return
    <2>1. /\ Len(stack') = n - 1
          /\ \A i \in 1 .. n - 1 : stack'[i] = stack[i]
        BY <1>0, <1>6, ReturnFacts
    <2>2. /\ \A i \in 1 .. n - 1 : i \in 1 .. n
          /\ \A i \in 1 .. n - 1 - 1 : i \in 1 .. n - 1 /\ i + 1 \in 1 .. n - 1
        BY <1>2
    <2>3. \A i \in 1 .. n - 1 : stack'[i].done <= Len(Children(walk, stack'[i].dir))
        BY <1>0, <2>1, <2>2 DEF StackLinked
    <2>4. \A i \in 1 .. n - 1 - 1 :
              /\ stack'[i].done >= 1
              /\ Children(walk, stack'[i].dir)[stack'[i].done] = stack'[i + 1].dir
        BY <1>0, <2>1, <2>2 DEF StackLinked
    <2>5. StackDistinct' BY <1>0, <2>1, <2>2 DEF StackDistinct
    <2> QED BY <2>1, <2>3, <2>4, <2>5
<1> QED BY <1>4, <1>5, <1>6, StepKinds

LEMMA MetStep ==
    ASSUME TreeInv, Step
    PROVE  MetSound'
<1>0. TypeOK /\ MetSound BY DEF TreeInv
<1>1. /\ ~Idle
      /\ walk' = walk /\ walk # "none"
      /\ \A w, d : Children(w, d)' = Children(w, d)
      /\ Reachable' = Reachable
    BY StepKinds, GraphFixed
<1> DEFINE n == Len(stack)
<1>2. /\ n \in Nat /\ n >= 1 /\ n \in 1 .. n
      /\ Top.dir \in Directive /\ Top.dir \in Active /\ Top = stack[n]
      /\ \A i \in 1 .. n : stack[i].dir \in Directive /\ stack[i].done \in Nat
    BY <1>0, <1>1, TopFacts DEF Top
<1>3. ASSUME NEW d \in Directive, Visits(walk, d) PROVE d \in Reachable
    BY <1>0, <1>2, <1>3, VisitFacts, ReachableFacts DEF MetSound
<1>4. Met \subseteq Directive /\ Met \subseteq Reachable /\ Root \in Met /\ Active \subseteq Met
    BY <1>0, <1>1, ReachableFacts DEF MetSound
<1>5. SUFFICES
        /\ Root \in Met' /\ Active' \subseteq Met' /\ Met' \subseteq Reachable
        /\ \A d \in Met' : \A k \in 1 .. Len(Children(walk, d)) :
              \/ Children(walk, d)[k] \in Met'
              \/ \E i \in 1 .. Len(stack') : stack'[i].dir = d /\ stack'[i].done < k
    BY <1>1 DEF MetSound
<1>6. CASE \E c \in Directive : CallStep(c)
    <2>1. PICK c \in Directive : Visits(walk, c) /\ Call(c) /\ Met' = Met \cup {c}
        BY <1>6 DEF CallStep
    <2>2. /\ Len(stack') = n + 1
          /\ \A i \in 1 .. n :
                /\ stack'[i].dir = stack[i].dir
                /\ stack'[i].done = IF i = n THEN stack[i].done + 1 ELSE stack[i].done
          /\ stack'[n + 1].dir = c /\ stack'[n + 1].done = 0
          /\ Active' = Active \cup {c}
        BY <1>0, <1>1, <2>1, CallFacts
    <2>3. c = Children(walk, stack[n].dir)[stack[n].done + 1]
        BY <1>0, <1>2, <2>1, VisitFacts
    <2>4. ASSUME NEW d \in Met, NEW k \in 1 .. Len(Children(walk, d)),
                 Children(walk, d)[k] \notin Met'
          PROVE  \E i \in 1 .. n + 1 : stack'[i].dir = d /\ stack'[i].done < k
        <3>1. PICK i \in 1 .. n : stack[i].dir = d /\ stack[i].done < k
            BY <1>0, <2>1, <2>4 DEF MetSound
        <3>2. k \in Int /\ i \in 1 .. n + 1
            <4>1. Len(Children(walk, d)) \in Nat BY <1>0, <1>4, ChildrenFacts
            <4> QED BY <1>2, <4>1
        <3>3. CASE i = n
            <4>1. stack[n].done + 1 # k BY <2>1, <2>3, <2>4, <3>1, <3>3
            <4>2. stack'[i].done < k BY <1>2, <2>2, <3>1, <3>2, <3>3, <4>1
            <4> QED BY <2>2, <3>1, <3>2, <4>2
        <3>4. CASE i # n BY <2>2, <3>1, <3>2, <3>4
        <3> QED BY <3>3, <3>4
    <2>5. ASSUME NEW k \in 1 .. Len(Children(walk, c))
          PROVE  \E i \in 1 .. n + 1 : stack'[i].dir = c /\ stack'[i].done < k
        <3>1. Len(Children(walk, c)) \in Nat BY <1>0, ChildrenFacts
        <3>2. n + 1 \in 1 .. n + 1 /\ 0 < k BY <1>2, <3>1
        <3> QED BY <2>2, <3>2
    <2>6. c \in Reachable BY <1>3, <2>1
    <2> QED BY <1>4, <2>1, <2>2, <2>4, <2>5, <2>6
<1>7. CASE \E c \in Directive : SkipStep(c)
    <2>1. PICK c \in Directive : Visits(walk, c) /\ Skip /\ c \in Met /\ Met' = Met
        BY <1>7 DEF SkipStep
    <2>2. /\ Len(stack') = n
          /\ \A i \in 1 .. n :
                /\ stack'[i].dir = stack[i].dir
                /\ stack'[i].done = IF i = n THEN stack[i].done + 1 ELSE stack[i].done
          /\ Active' = Active
        BY <1>0, <1>1, <2>1, SkipFacts
    <2>3. c = Children(walk, stack[n].dir)[stack[n].done + 1]
        BY <1>0, <1>2, <2>1, VisitFacts
    <2>4. ASSUME NEW d \in Met, NEW k \in 1 .. Len(Children(walk, d)),
                 Children(walk, d)[k] \notin Met
          PROVE  \E i \in 1 .. n : stack'[i].dir = d /\ stack'[i].done < k
        <3>1. PICK i \in 1 .. n : stack[i].dir = d /\ stack[i].done < k
            BY <1>0, <2>4 DEF MetSound
        <3>2. k \in Int
            <4>1. Len(Children(walk, d)) \in Nat BY <1>0, <1>4, ChildrenFacts
            <4> QED BY <4>1
        <3>3. CASE i = n
            <4>1. stack[n].done + 1 # k BY <2>1, <2>3, <2>4, <3>1, <3>3
            <4>2. stack'[i].done < k BY <1>2, <2>2, <3>1, <3>2, <3>3, <4>1
            <4> QED BY <2>2, <3>1, <4>2
        <3>4. CASE i # n BY <2>2, <3>1, <3>4
        <3> QED BY <3>3, <3>4
    <2> QED BY <1>4, <2>1, <2>2, <2>4
<1>8. CASE Return /\ Met' = Met
    <2>1. /\ Len(stack') = n - 1
          /\ \A i \in 1 .. n - 1 : stack'[i] = stack[i]
          /\ Active' \subseteq Active
        BY <1>0, <1>8, ReturnFacts
    <2>2. stack[n].done = Len(Children(walk, stack[n].dir)) BY <1>2, <1>8 DEF Return
    <2>3. ASSUME NEW d \in Met, NEW k \in 1 .. Len(Children(walk, d)),
                 Children(walk, d)[k] \notin Met
          PROVE  \E i \in 1 .. n - 1 : stack'[i].dir = d /\ stack'[i].done < k
        <3>1. PICK i \in 1 .. n : stack[i].dir = d /\ stack[i].done < k
            BY <1>0, <2>3 DEF MetSound
        <3>2. Len(Children(walk, d)) \in Nat BY <1>0, <1>4, ChildrenFacts
        <3>3. i # n BY <2>2, <3>1, <3>2
        <3>4. i \in 1 .. n - 1 BY <1>2, <3>3
        <3> QED BY <2>1, <3>1, <3>4
    <2> QED BY <1>4, <1>8, <2>1, <2>3
<1> QED BY <1>6, <1>7, <1>8, StepKinds

LEMMA AuditStep ==
    ASSUME TreeInv, Step
    PROVE  AuditSound'
<1>0. TypeOK /\ AuditSound /\ MetSound BY DEF TreeInv
<1>1. ~Idle /\ walk' = walk /\ walk # "none" /\ Reachable' = Reachable
    BY StepKinds, GraphFixed
<1>2. CASE AuditNested
    <2>1. PICK d \in Directive : Visits("audit", d) /\ Call(d) /\ d \notin Active
                                 /\ ~AlreadyValidated(d)
                                 /\ audited' = Append(audited, d)
                                 /\ UNCHANGED <<validated, cycles>>
        BY <1>2 DEF AuditNested
    <2>2. walk = "audit" BY <2>1 DEF Visits
    <2>3. d \notin Range(audited) BY <1>0, <2>1, <2>2 DEF AuditSound, AlreadyValidated
    <2>4. audited \in Seq(Directive) BY <1>0 DEF TypeOK
    <2>5. IsInjective(audited') BY <1>0, <2>1, <2>3, <2>4, InjectiveAppend DEF AuditSound
    <2>6. Range(audited') = Range(audited) \cup {d} BY <2>1, <2>4, AppendFacts
    <2>7. Active' = Active \cup {d} BY <1>0, <1>1, <2>1, CallFacts
    <2>8. Range(audited') = Range(validated') \cup Active'
        BY <1>0, <2>1, <2>2, <2>6, <2>7 DEF AuditSound
    <2> QED BY <1>1, <2>2, <2>5, <2>8 DEF AuditSound
<1>3. CASE AuditActive \/ AuditValidated
    <2>1. /\ Skip
          /\ \E d \in Directive : Visits("audit", d)
          /\ UNCHANGED <<audited, validated>>
        BY <1>3 DEF AuditActive, AuditValidated
    <2>2. walk = "audit" BY <2>1 DEF Visits
    <2>3. Active' = Active BY <1>0, <1>1, <2>1, SkipFacts
    <2>4. audited' = audited /\ validated' = validated BY <2>1
    <2> QED BY <1>0, <1>1, <2>2, <2>3, <2>4 DEF AuditSound
<1>4. CASE Return
    <2>1. /\ audited' = audited /\ cycles' = cycles
          /\ validated' = IF walk = "audit" THEN Append(validated, Top.dir) ELSE validated
        BY <1>4 DEF Return
    <2>2. CASE walk = "audit"
        <3>1. Top.dir \in Directive /\ validated \in Seq(Directive)
            BY <1>0, <1>1, TopFacts DEF TypeOK
        <3>2. Range(validated') = Range(validated) \cup {Top.dir}
            BY <2>1, <2>2, <3>1, AppendFacts
        <3>3. Active = Active' \cup {Top.dir} BY <1>0, <1>4, ReturnFacts
        <3>4. Range(audited') = Range(validated') \cup Active'
            BY <1>0, <2>1, <2>2, <3>2, <3>3 DEF AuditSound
        <3> QED BY <1>0, <1>1, <2>1, <2>2, <3>4 DEF AuditSound
    <2>3. CASE walk # "audit"
        BY <1>0, <1>1, <2>1, <2>3 DEF AuditSound
    <2> QED BY <2>2, <2>3
<1>5. CASE HookNested \/ PolicyVisited \/ PolicyNested
    <2>1. /\ walk \in {"hooks", "policy"}
          /\ audited' = audited /\ validated' = validated /\ cycles' = cycles
        BY <1>5 DEF HookNested, PolicyVisited, PolicyNested, Visits
    <2> QED BY <1>0, <1>1, <2>1 DEF AuditSound
<1> QED BY <1>2, <1>3, <1>4, <1>5 DEF Step

LEMMA HooksStep ==
    ASSUME TreeInv, Step
    PROVE  HooksSound'
<1>0. TypeOK /\ HooksSound /\ MetSound BY DEF TreeInv
<1>1. /\ ~Idle /\ walk' = walk /\ Owned' = Owned
      /\ \A d : FragmentHolders(d)' = FragmentHolders(d)
    BY StepKinds, GraphFixed
<1>2. SUFFICES ASSUME walk = "hooks" PROVE HooksSound'
    BY <1>1 DEF HooksSound
<1>3. SUFFICES
        /\ IsInjective(hooked')
        /\ \A d \in Range(hooked') \ {Root} :
              \E p \in Range(hooked') : \E k \in 1 .. Len(FragmentHolders(p)) :
                  /\ FragmentHolders(p)[k] = d
                  /\ \A i \in 1 .. Len(stack') : stack'[i].dir = p => k <= stack'[i].done
    <2>1. Owned' BY <1>0, <1>1, <1>2 DEF HooksSound
    <2> QED BY <1>1, <1>3, <2>1 DEF HooksSound
<1> DEFINE n == Len(stack)
<1>4. /\ n \in Nat /\ n >= 1 /\ n \in 1 .. n
      /\ Top.dir \in Directive /\ Top.dir \in Active /\ Top = stack[n]
      /\ \A i \in 1 .. n : stack[i].dir \in Directive /\ stack[i].done \in Nat
    BY <1>0, <1>1, TopFacts DEF Top
<1>5. hooked \in Seq(Directive) /\ Range(hooked) \subseteq Directive /\ Active \subseteq Range(hooked)
    BY <1>0, <1>2, RangeType DEF TypeOK, MetSound, Met
<1>6. CASE HookNested
    <2>1. PICK c \in Directive : Visits("hooks", c) /\ Call(c) /\ hooked' = Append(hooked, c)
        BY <1>6 DEF HookNested
    <2>2. c \notin Range(hooked) BY <1>0, <2>1, HookFresh
    <2>3. IsInjective(hooked') BY <1>0, <1>2, <1>5, <2>1, <2>2, InjectiveAppend DEF HooksSound
    <2>4. Range(hooked') = Range(hooked) \cup {c} BY <1>5, <2>1, AppendFacts
    <2>5. /\ Len(stack') = n + 1
          /\ \A i \in 1 .. n :
                /\ stack'[i].dir = stack[i].dir
                /\ stack'[i].done = IF i = n THEN stack[i].done + 1 ELSE stack[i].done
          /\ stack'[n + 1].dir = c
        BY <1>0, <1>1, <2>1, CallFacts
    <2>6. /\ stack[n].done + 1 \in 1 .. Len(FragmentHolders(stack[n].dir))
          /\ c = FragmentHolders(stack[n].dir)[stack[n].done + 1]
        BY <1>0, <1>2, <1>4, <2>1, VisitFacts DEF Children
    <2>7. ASSUME NEW d \in Range(hooked) \ {Root}
          PROVE  \E p \in Range(hooked') : \E k \in 1 .. Len(FragmentHolders(p)) :
                     /\ FragmentHolders(p)[k] = d
                     /\ \A i \in 1 .. n + 1 : stack'[i].dir = p => k <= stack'[i].done
        <3>1. PICK p \in Range(hooked) : \E k \in 1 .. Len(FragmentHolders(p)) :
                  /\ FragmentHolders(p)[k] = d
                  /\ \A i \in 1 .. n : stack[i].dir = p => k <= stack[i].done
            BY <1>0, <1>2 DEF HooksSound
        <3>2. PICK k \in 1 .. Len(FragmentHolders(p)) :
                  /\ FragmentHolders(p)[k] = d
                  /\ \A i \in 1 .. n : stack[i].dir = p => k <= stack[i].done
            BY <3>1
        <3>3. k \in Int
            <4>1. Len(Children("hooks", p)) \in Nat BY <1>0, <1>5, ChildrenFacts
            <4> QED BY <4>1 DEF Children
        <3>4. ASSUME NEW i \in 1 .. n + 1, stack'[i].dir = p PROVE k <= stack'[i].done
            <4>1. i # n + 1 BY <2>2, <2>5, <3>1, <3>4
            <4>2. i \in 1 .. n BY <1>4, <4>1
            <4>3. k <= stack[i].done BY <2>5, <3>2, <3>4, <4>2
            <4> QED BY <1>4, <2>5, <3>3, <4>2, <4>3
        <3> QED BY <2>4, <3>1, <3>2, <3>4
    <2>8. \E p \in Range(hooked') : \E k \in 1 .. Len(FragmentHolders(p)) :
              /\ FragmentHolders(p)[k] = c
              /\ \A i \in 1 .. n + 1 : stack'[i].dir = p => k <= stack'[i].done
        <3>1. stack[n].dir \in Range(hooked') BY <1>4, <1>5, <2>4
        <3>2. ASSUME NEW i \in 1 .. n + 1, stack'[i].dir = stack[n].dir
              PROVE  stack[n].done + 1 <= stack'[i].done
            <4>1. i # n + 1 BY <1>4, <1>5, <2>2, <2>5, <3>2
            <4>2. i \in 1 .. n BY <1>4, <4>1
            <4>3. i = n BY <1>4, <2>5, <3>2, <4>2 DEF TreeInv, StackDistinct
            <4> QED BY <1>4, <2>5, <4>2, <4>3
        <3> QED BY <2>6, <3>1, <3>2
    <2> QED BY <2>3, <2>4, <2>5, <2>7, <2>8
<1>7. CASE Return
    <2>1. /\ Len(stack') = n - 1
          /\ \A i \in 1 .. n - 1 : stack'[i] = stack[i]
        BY <1>0, <1>7, ReturnFacts
    <2>2. hooked' = hooked BY <1>7 DEF Return
    <2>3. \A i \in 1 .. n - 1 : i \in 1 .. n BY <1>4
    <2>4. ASSUME NEW d \in Range(hooked) \ {Root}
          PROVE  \E p \in Range(hooked) : \E k \in 1 .. Len(FragmentHolders(p)) :
                     /\ FragmentHolders(p)[k] = d
                     /\ \A i \in 1 .. n - 1 : stack'[i].dir = p => k <= stack'[i].done
        <3>1. PICK p \in Range(hooked) : \E k \in 1 .. Len(FragmentHolders(p)) :
                  /\ FragmentHolders(p)[k] = d
                  /\ \A i \in 1 .. n : stack[i].dir = p => k <= stack[i].done
            BY <1>0, <1>2 DEF HooksSound
        <3>2. PICK k \in 1 .. Len(FragmentHolders(p)) :
                  /\ FragmentHolders(p)[k] = d
                  /\ \A i \in 1 .. n : stack[i].dir = p => k <= stack[i].done
            BY <3>1
        <3>3. ASSUME NEW i \in 1 .. n - 1, stack'[i].dir = p PROVE k <= stack'[i].done
            BY <2>1, <2>3, <3>2, <3>3
        <3> QED BY <3>2, <3>3
    <2> QED BY <1>0, <1>2, <2>1, <2>2, <2>4 DEF HooksSound
<1>8. CASE AuditActive \/ AuditValidated \/ AuditNested \/ PolicyVisited \/ PolicyNested
    BY <1>2, <1>8 DEF AuditActive, AuditValidated, AuditNested, PolicyVisited,
                      PolicyNested, Visits
<1> QED BY <1>6, <1>7, <1>8 DEF Step

\* The frames from the active directive up to the top go round in a circle.
LEMMA CyclesStep ==
    ASSUME TreeInv, Step
    PROVE  CyclesSound'
<1>0. TypeOK /\ MetSound /\ StackLinked /\ CyclesSound BY DEF TreeInv
<1>1. ~Idle /\ HasCycle' = HasCycle /\ Met \subseteq Reachable /\ Active \subseteq Met
    BY <1>0, StepKinds, GraphFixed DEF MetSound
<1>2. CASE AuditActive
    <2>1. PICK d \in Directive : Visits("audit", d) /\ d \in Active
        BY <1>2 DEF AuditActive
    <2> DEFINE n == Len(stack)
    <2>2. /\ n \in Nat /\ n >= 1 /\ n \in 1 .. n /\ DOMAIN stack = 1 .. n
          /\ Top = stack[n]
          /\ \A i \in 1 .. n : stack[i].dir \in Directive /\ stack[i].done \in Nat
        BY <1>0, <1>1, TopFacts DEF Top
    <2>3. PICK j \in 1 .. n : stack[j].dir = d BY <2>1, <2>2 DEF Active
    <2> DEFINE S == {stack[i].dir : i \in j .. n}
    <2>4. \A i \in j .. n : i \in 1 .. n BY <2>2
    <2>5. S \in SUBSET Reachable BY <1>1, <2>2, <2>4 DEF Active
    <2>6. n \in j .. n /\ j \in j .. n BY <2>2
    <2>7. S # {} BY <2>6
    <2>8. ASSUME NEW i \in j .. n PROVE Attached(stack[i].dir) \cap S # {}
        <3>1. CASE i = n
            <4>1. d \in Attached(stack[n].dir) BY <1>0, <2>1, <2>2, VisitFacts
            <4>2. d \in S BY <2>3, <2>6
            <4> QED BY <3>1, <4>1, <4>2
        <3>2. CASE i # n
            <4>1. i \in 1 .. n - 1 /\ i + 1 \in j .. n /\ i \in 1 .. n
                <5>1. n \in Nat /\ j \in 1 .. n /\ i \in j .. n BY <2>2
                <5> HIDE DEF n
                <5> QED BY <3>2, <5>1
            <4>2. /\ stack[i].done >= 1
                  /\ Children(walk, stack[i].dir)[stack[i].done] = stack[i + 1].dir
                  /\ stack[i].done <= Len(Children(walk, stack[i].dir))
                BY <1>0, <4>1 DEF StackLinked
            <4>3. Len(Children(walk, stack[i].dir)) \in Nat BY <1>0, <2>2, <4>1, ChildrenFacts
            <4>4. stack[i].done \in 1 .. Len(Children(walk, stack[i].dir))
                BY <2>2, <4>1, <4>2, <4>3
            <4>5. stack[i + 1].dir \in Attached(stack[i].dir)
                BY <1>0, <2>2, <4>1, <4>2, <4>4, ChildrenFacts
            <4>6. stack[i + 1].dir \in S BY <4>1
            <4> QED BY <4>5, <4>6
        <3> QED BY <3>1, <3>2
    <2>9. Cyclic(S) BY <2>7, <2>8 DEF Cyclic
    <2>10. HasCycle BY <2>5, <2>9 DEF HasCycle
    <2> QED BY <1>1, <2>10 DEF CyclesSound
<1>3. CASE ~AuditActive
    <2>1. cycles' = cycles
        BY <1>3 DEF Step, HookNested, AuditValidated, AuditNested, PolicyVisited,
                    PolicyNested, Return
    <2> QED BY <1>0, <1>1, <2>1 DEF CyclesSound
<1> QED BY <1>2, <1>3

LEMMA PostOrderStep ==
    ASSUME TreeInv, Step
    PROVE  PostOrder'
<1>0. TypeOK /\ PostOrder /\ StackLinked BY DEF TreeInv
<1>1. /\ ~Idle /\ walk' = walk
      /\ \A w, d : Children(w, d)' = Children(w, d)
      /\ \A d : Attached(d)' = Attached(d)
    BY StepKinds, GraphFixed
<1> DEFINE n == Len(stack)
           Behind(v) == \A i \in 1 .. Len(v) : \A c \in Attached(v[i]) :
                            \E j \in 1 .. i - 1 : v[j] = c
           Past(s, v) == \A i \in 1 .. Len(s) : \A k \in 1 .. s[i].done :
                            \/ Children(walk, s[i].dir)[k] \in Range(v)
                            \/ k = s[i].done /\ i < Len(s)
<1>2. SUFFICES ASSUME cycles' = {}
               PROVE  Behind(validated') /\ (walk = "audit" => Past(stack', validated'))
    BY <1>1 DEF PostOrder
<1>3. /\ n \in Nat /\ n >= 1 /\ n \in 1 .. n /\ Top = stack[n] /\ Top.dir \in Directive
      /\ \A i \in 1 .. n : stack[i].dir \in Directive /\ stack[i].done \in Nat
    BY <1>0, <1>1, TopFacts DEF Top
<1>4. validated \in Seq(Directive) BY <1>0 DEF TypeOK
<1>5. CASE AuditActive
    <2>1. cycles' # {} BY <1>5 DEF AuditActive
    <2> QED BY <1>2, <2>1
<1>6. CASE AuditValidated
    <2>1. PICK d \in Directive : /\ Visits("audit", d) /\ d \in Range(validated) /\ Skip
                                 /\ validated' = validated /\ cycles' = cycles
        BY <1>6 DEF AuditValidated, AlreadyValidated
    <2>2. walk = "audit" BY <2>1 DEF Visits
    <2>3. Behind(validated) /\ Past(stack, validated) BY <1>0, <1>2, <2>1, <2>2 DEF PostOrder
    <2>4. /\ Len(stack') = n
          /\ \A i \in 1 .. n :
                /\ stack'[i].dir = stack[i].dir
                /\ stack'[i].done = IF i = n THEN stack[i].done + 1 ELSE stack[i].done
        BY <1>0, <1>1, <2>1, SkipFacts
    <2>5. d = Children(walk, stack[n].dir)[stack[n].done + 1]
        BY <1>0, <1>3, <2>1, VisitFacts
    <2>6. ASSUME NEW i \in 1 .. n, NEW k \in 1 .. stack'[i].done
          PROVE  \/ Children(walk, stack'[i].dir)[k] \in Range(validated)
                 \/ k = stack'[i].done /\ i < n
        <3>1. CASE i # n BY <2>3, <2>4, <3>1
        <3>2. CASE i = n
            <4>1. stack[n].done \in Nat BY <1>3
            <4>2. k = stack[n].done + 1 \/ k \in 1 .. stack[n].done BY <2>4, <3>2, <4>1
            <4> QED BY <1>3, <2>1, <2>3, <2>4, <2>5, <3>2, <4>2
        <3> QED BY <3>1, <3>2
    <2> QED BY <2>1, <2>3, <2>4, <2>6
<1>7. CASE AuditNested
    <2>1. PICK d \in Directive : /\ Visits("audit", d) /\ Call(d)
                                 /\ validated' = validated /\ cycles' = cycles
        BY <1>7 DEF AuditNested
    <2>2. walk = "audit" BY <2>1 DEF Visits
    <2>3. Behind(validated) /\ Past(stack, validated) BY <1>0, <1>2, <2>1, <2>2 DEF PostOrder
    <2>4. /\ Len(stack') = n + 1
          /\ \A i \in 1 .. n :
                /\ stack'[i].dir = stack[i].dir
                /\ stack'[i].done = IF i = n THEN stack[i].done + 1 ELSE stack[i].done
          /\ stack'[n + 1].done = 0
        BY <1>0, <1>1, <2>1, CallFacts
    <2>5. ASSUME NEW i \in 1 .. n + 1, NEW k \in 1 .. stack'[i].done
          PROVE  \/ Children(walk, stack'[i].dir)[k] \in Range(validated)
                 \/ k = stack'[i].done /\ i < n + 1
        <3>1. CASE i = n + 1 BY <2>4, <3>1
        <3>2. CASE i \in 1 .. n /\ i # n
            <4>1. \/ Children(walk, stack[i].dir)[k] \in Range(validated)
                  \/ k = stack[i].done /\ i < n
                BY <2>3, <2>4, <3>2
            <4> QED BY <1>3, <2>4, <3>2, <4>1
        <3>3. CASE i = n
            <4>1. stack[n].done \in Nat BY <1>3
            <4>2. k = stack[n].done + 1 \/ k \in 1 .. stack[n].done BY <2>4, <3>3, <4>1
            <4>3. CASE k = stack[n].done + 1 BY <1>3, <2>4, <3>3, <4>3
            <4>4. CASE k \in 1 .. stack[n].done
                <5>1. \/ Children(walk, stack[n].dir)[k] \in Range(validated)
                      \/ k = stack[n].done /\ n < n
                    BY <1>3, <2>3, <4>4
                <5>2. stack'[i].dir = stack[n].dir BY <1>3, <2>4, <3>3
                <5> QED BY <1>3, <5>1, <5>2
            <4> QED BY <4>2, <4>3, <4>4
        <3>4. i = n + 1 \/ i \in 1 .. n
            <4> HIDE DEF n
            <4> QED BY <1>3
        <3> QED BY <3>1, <3>2, <3>3, <3>4
    <2>6. Past(stack', validated) BY <2>4, <2>5
    <2> HIDE DEF Behind, Past
    <2> QED BY <2>1, <2>3, <2>6
<1>8. CASE Return /\ walk = "audit"
    <2>1. /\ validated' = Append(validated, stack[n].dir)
          /\ cycles' = cycles
          /\ stack[n].done = Len(Children(walk, stack[n].dir))
        BY <1>3, <1>8 DEF Return
    <2>2. Behind(validated) /\ Past(stack, validated) BY <1>0, <1>2, <1>8, <2>1 DEF PostOrder
    <2>3. /\ Len(stack') = n - 1
          /\ \A i \in 1 .. n - 1 : stack'[i] = stack[i]
        BY <1>0, <1>8, ReturnFacts
    <2> DEFINE m == Len(validated)
    <2>4. /\ Len(validated') = m + 1
          /\ \A i \in 1 .. m : validated'[i] = validated[i]
          /\ validated'[m + 1] = stack[n].dir
          /\ Range(validated') = Range(validated) \cup {stack[n].dir}
          /\ m \in Nat
          /\ DOMAIN validated = 1 .. m
        BY <1>3, <1>4, <2>1, AppendFacts
    <2>5. ASSUME NEW i \in 1 .. m, NEW c \in Attached(validated'[i])
          PROVE  \E j \in 1 .. i - 1 : validated'[j] = c
        <3>1. PICK j \in 1 .. i - 1 : validated[j] = c BY <2>2, <2>4
        <3>2. j \in 1 .. m BY <2>4
        <3> QED BY <2>4, <3>1, <3>2
    <2>6. ASSUME NEW c \in Attached(stack[n].dir)
          PROVE  \E j \in 1 .. m : validated'[j] = c
        <3>1. c \in Range(Children(walk, stack[n].dir)) BY <1>0, <1>3, ChildrenFacts
        <3>2. PICK k \in 1 .. stack[n].done : c = Children(walk, stack[n].dir)[k]
            BY <1>0, <1>3, <2>1, <3>1, ChildrenFacts DEF Range
        <3>3. c \in Range(validated) BY <1>3, <2>2, <3>2
        <3> QED BY <2>4, <3>3 DEF Range
    <2>7. Behind(validated')
        <3>1. SUFFICES ASSUME NEW i \in 1 .. m + 1, NEW c \in Attached(validated'[i])
                       PROVE  \E j \in 1 .. i - 1 : validated'[j] = c
            BY <2>4
        <3>2. CASE i \in 1 .. m BY <2>5, <3>2
        <3>3. CASE i = m + 1
            <4>1. PICK j \in 1 .. m : validated'[j] = c BY <2>4, <2>6, <3>3
            <4>2. j \in 1 .. i - 1 BY <2>4, <3>3
            <4> QED BY <4>1, <4>2
        <3> QED BY <2>4, <3>2, <3>3
    <2>8. ASSUME NEW i \in 1 .. n - 1, NEW k \in 1 .. stack'[i].done
          PROVE  \/ Children(walk, stack'[i].dir)[k] \in Range(validated')
                 \/ k = stack'[i].done /\ i < n - 1
        <3>1. i \in 1 .. n /\ i \in Int /\ stack'[i] = stack[i] BY <1>3, <2>3
        <3>2. \/ Children(walk, stack[i].dir)[k] \in Range(validated)
              \/ k = stack[i].done /\ i < n
            BY <2>2, <3>1
        <3>3. CASE k = stack[i].done /\ i = n - 1
            <4>1. Children(walk, stack[i].dir)[k] = stack[i + 1].dir
                BY <1>0, <3>3 DEF StackLinked
            <4>2. i + 1 = n BY <1>3, <3>3
            <4> QED BY <2>4, <3>1, <4>1, <4>2
        <3>4. CASE k = stack[i].done /\ i # n - 1
            <4>1. i < n - 1 BY <1>3, <3>4
            <4> QED BY <3>1, <3>4, <4>1
        <3> QED BY <2>4, <3>1, <3>2, <3>3, <3>4
    <2> QED BY <2>3, <2>7, <2>8
<1>9. CASE walk # "audit"
    <2>1. validated' = validated /\ cycles' = cycles
        BY <1>9 DEF Step, HookNested, AuditActive, AuditValidated, AuditNested,
                    PolicyVisited, PolicyNested, Return, Visits
    <2> QED BY <1>0, <1>2, <1>9, <2>1 DEF PostOrder
<1>10. CASE walk = "audit" /\ (HookNested \/ PolicyVisited \/ PolicyNested)
    BY <1>10 DEF HookNested, PolicyVisited, PolicyNested, Visits
<1> QED BY <1>5, <1>6, <1>7, <1>8, <1>9, <1>10 DEF Step
-----------------------------------------------------------------------------
(* The beginnings of the walks, and the invariant as a whole. *)

LEMMA StartStep ==
    ASSUME TreeInv, StartHooks \/ StartAudit \/ StartPolicy
    PROVE  StackLinked' /\ StackDistinct' /\ MetSound' /\ AuditSound' /\ HooksSound'
           /\ CyclesSound' /\ PostOrder'
<1>0. TypeOK /\ MetSound /\ AuditSound /\ CyclesSound /\ PostOrder BY DEF TreeInv
<1>1. CallRoot /\ UNCHANGED graphVars /\ walk' \in {"hooks", "audit", "policy"}
    BY DEF StartHooks, StartAudit, StartPolicy
<1>2. /\ Len(stack') = 1
      /\ stack'[1].dir = Root /\ stack'[1].done = 0
      /\ Active' = {Root}
    BY <1>1, CallRootFacts
<1>3. /\ \A w, d : Children(w, d)' = Children(w, d)
      /\ \A d : Attached(d)' = Attached(d)
      /\ \A d : FragmentHolders(d)' = FragmentHolders(d)
      /\ Reachable' = Reachable /\ HasCycle' = HasCycle /\ Owned' = Owned
    BY <1>1, GraphFixed
<1>4. \A w : Len(Children(w, Root)) \in Nat BY <1>0, ChildrenFacts, RootAssumption
<1>5. Range(<<Root>>) = {Root} /\ IsInjective(<<Root>>)
    <2>1. DOMAIN <<Root>> = {1} /\ <<Root>>[1] = Root OBVIOUS
    <2> QED BY <2>1 DEF Range, IsInjective
<1>6. walk \in {"none", "hooks", "audit"} /\ Idle
    <2>1. walk = "none" => Idle BY <1>0 DEF MetSound, Idle
    <2> QED BY <2>1 DEF StartHooks, StartAudit, StartPolicy
<1>7. StackLinked'
    <2>1. \A i \in 1 .. Len(stack') : i = 1 BY <1>2
    <2>2. ~ \E i \in 1 .. Len(stack') - 1 : TRUE BY <1>2
    <2>3. \A w : 0 <= Len(Children(w, Root)) BY <1>4
    <2> QED BY <1>2, <1>3, <2>1, <2>2, <2>3 DEF StackLinked
<1>8. StackDistinct' BY <1>2 DEF StackDistinct
<1>9. Met' = {Root}
    <2>1. CASE StartHooks BY <1>5, <2>1 DEF StartHooks, Met
    <2>2. CASE StartAudit BY <1>5, <2>2 DEF StartAudit, Met
    <2>3. CASE StartPolicy BY <1>5, <2>3 DEF StartPolicy, Met
    <2> QED BY <2>1, <2>2, <2>3
<1>10. MetSound'
    <2>1. Root \in Reachable BY <1>0, ReachableFacts
    <2>2. ASSUME NEW k \in 1 .. Len(Children(walk', Root))
          PROVE  \E i \in 1 .. Len(stack') : stack'[i].dir = Root /\ stack'[i].done < k
        <3>1. 1 \in 1 .. Len(stack') /\ 0 < k BY <1>2, <1>4
        <3> QED BY <1>2, <3>1
    <2> QED BY <1>1, <1>2, <1>3, <1>9, <2>1, <2>2 DEF MetSound
<1>11. HooksSound'
    <2>1. CASE StartHooks BY <1>3, <1>5, <2>1 DEF StartHooks, HooksSound
    <2>2. CASE ~StartHooks BY <2>2 DEF StartAudit, StartPolicy, HooksSound
    <2> QED BY <2>1, <2>2
<1>12. AuditSound' /\ PostOrder'
    <2>1. CASE StartHooks
        <3>1. /\ walk' = "hooks" /\ walk = "none" /\ audited' = audited
              /\ validated' = validated /\ cycles' = cycles
            BY <2>1 DEF StartHooks
        <3> QED BY <1>0, <1>3, <3>1 DEF AuditSound, PostOrder
    <2>2. CASE StartAudit
        <3>1. /\ walk' = "audit" /\ audited' = <<Root>>
              /\ validated' = validated /\ cycles' = cycles
              /\ validated = <<>> /\ cycles = {}
            BY <1>0, <2>2 DEF StartAudit, AuditSound
        <3>2. Range(validated') = {} BY <3>1 DEF Range
        <3>3. AuditSound' BY <1>2, <1>3, <1>5, <3>1, <3>2 DEF AuditSound
        <3>4. Len(validated') = 0 BY <3>1
        <3>5. PostOrder'
            <4>1. \A i \in 1 .. Len(stack') : i = 1 /\ stack'[i].done = 0 BY <1>2
            <4> QED BY <3>4, <4>1 DEF PostOrder
        <3> QED BY <3>3, <3>5
    <2>3. CASE StartPolicy
        <3>1. /\ walk' = "policy" /\ walk = "audit" /\ audited' = audited
              /\ validated' = validated /\ cycles' = cycles
            BY <2>3 DEF StartPolicy
        <3>2. Met = Reachable BY <1>0, <1>6, <3>1, EndedWalkMetAll
        <3>3. Met = Range(audited) BY <3>1 DEF Met
        <3>4. Active = {} BY <1>6 DEF Idle, Active
        <3>5. Range(audited) = Reachable /\ Range(validated) = Reachable
            BY <1>0, <3>1, <3>2, <3>3, <3>4 DEF AuditSound
        <3> QED BY <1>0, <1>3, <3>1, <3>5 DEF AuditSound, PostOrder
    <2> QED BY <2>1, <2>2, <2>3
<1>13. CyclesSound'
    <2>1. cycles' = cycles BY DEF StartHooks, StartAudit, StartPolicy
    <2> QED BY <1>0, <1>3, <2>1 DEF CyclesSound
<1> QED BY <1>7, <1>8, <1>10, <1>11, <1>12, <1>13

LEMMA TreeInvInit == Init => TreeInv
<1> SUFFICES ASSUME Init PROVE TreeInv
    OBVIOUS
<1>1. TypeOK BY TypeInit
<1>2. /\ walk = "none" /\ stack = <<>> /\ audited = <<>> /\ validated = <<>>
      /\ cycles = {}
    BY DEF Init, InitGraph
<1>3. Len(stack) = 0 /\ Len(validated) = 0 /\ Active = {} /\ Met = {}
      /\ DOMAIN audited = {}
    BY <1>2 DEF Active, Met
<1>4. StackLinked /\ StackDistinct
    BY <1>3 DEF StackLinked, StackDistinct
<1>5. MetSound /\ AuditSound /\ HooksSound /\ CyclesSound /\ PostOrder
    BY <1>2, <1>3 DEF MetSound, AuditSound, HooksSound, CyclesSound, PostOrder, IsInjective
<1> QED BY <1>1, <1>4, <1>5 DEF TreeInv

LEMMA TreeInvStep == TreeInv /\ [Next]_vars => TreeInv'
<1> SUFFICES ASSUME TreeInv, [Next]_vars PROVE TreeInv'
    OBVIOUS
<1>1. TypeOK' BY TypeStep DEF TreeInv
<1>2. CASE StartHooks \/ StartAudit \/ StartPolicy
    BY <1>1, <1>2, StartStep DEF TreeInv
<1>3. CASE Step
    BY <1>1, <1>3, StackStep, MetStep, AuditStep, HooksStep, CyclesStep, PostOrderStep
    DEF TreeInv
<1>4. CASE UNCHANGED vars
    <2>1. UNCHANGED <<graphVars, walk, stack, hooked, audited, validated, cycles, visited>>
        BY <1>4 DEF vars
    <2>2. /\ \A w, d : Children(w, d)' = Children(w, d)
          /\ \A d : Attached(d)' = Attached(d)
          /\ \A d : FragmentHolders(d)' = FragmentHolders(d)
          /\ Reachable' = Reachable /\ HasCycle' = HasCycle /\ Owned' = Owned
        BY <2>1, GraphFixed
    <2>3. Met' = Met /\ Active' = Active BY <2>1 DEF Met, Active
    <2>4. StackLinked' /\ StackDistinct' BY <2>1, <2>2 DEF TreeInv, StackLinked, StackDistinct
    <2>5. MetSound' /\ AuditSound' BY <2>1, <2>2, <2>3 DEF TreeInv, MetSound, AuditSound
    <2>6. HooksSound' /\ CyclesSound' BY <2>1, <2>2 DEF TreeInv, HooksSound, CyclesSound
    <2>7. PostOrder' BY <2>1, <2>2 DEF TreeInv, PostOrder
    <2> QED BY <1>1, <2>4, <2>5, <2>6, <2>7 DEF TreeInv
<1> QED BY <1>2, <1>3, <1>4 DEF Next

LEMMA TreeInvariant == Spec => []TreeInv
<1> QED BY TreeInvInit, TreeInvStep, PTL DEF Spec
-----------------------------------------------------------------------------
(* What follows. *)

(* On every graph, a walk that has ended has met exactly the reachable
   directives, and the hooks have met each of them once. *)
THEOREM WalksReachEverything == Spec => []WalksReachAll
<1>1. TreeInv => WalksReachAll
    <2> SUFFICES ASSUME TreeInv, Idle
                 PROVE  /\ walk = "hooks" => IsInjective(hooked) /\ Range(hooked) = Reachable
                        /\ walk \in {"audit", "policy"} =>
                              Range(audited) = Reachable /\ Range(validated) = Reachable
                        /\ walk = "policy" => Range(visited) = Reachable
        BY DEF WalksReachAll
    <2>0. TypeOK /\ MetSound /\ AuditSound /\ HooksSound BY DEF TreeInv
    <2>1. walk # "none" => Met = Reachable BY <2>0, EndedWalkMetAll
    <2>2. Active = {} BY DEF Active, Idle
    <2>3. walk = "hooks" => IsInjective(hooked) /\ Range(hooked) = Reachable
        BY <2>0, <2>1 DEF Met, HooksSound
    <2>4. walk = "audit" => Range(audited) = Reachable /\ Range(validated) = Reachable
        BY <2>0, <2>1, <2>2 DEF Met, AuditSound
    <2>5. walk = "policy" => /\ Range(audited) = Reachable /\ Range(validated) = Reachable
                             /\ Range(visited) = Reachable
        BY <2>0, <2>1 DEF Met, AuditSound
    <2> QED BY <2>3, <2>4, <2>5
<1> QED BY <1>1, TreeInvariant, PTL

(* No directive is audited twice, however often it is attached. *)
THEOREM EachDirectiveAuditedOnce == Spec => []AuditedOnce
<1>1. TreeInv => AuditedOnce BY DEF TreeInv, AuditSound, AuditedOnce
<1> QED BY <1>1, TreeInvariant, PTL

\* A post-order has no cycle: the first member of one that is listed would
\* hold a directive listed earlier.
LEMMA PostOrderIsAcyclic ==
    ASSUME TypeOK, PostOrder, cycles = {}, Range(validated) = Reachable
    PROVE  ~HasCycle
<1> SUFFICES ASSUME NEW S \in SUBSET Reachable, Cyclic(S) PROVE FALSE
    BY DEF HasCycle
<1> DEFINE T == {i \in 1 .. Len(validated) : validated[i] \in S}
<1>1. validated \in Seq(Directive) /\ DOMAIN validated = 1 .. Len(validated)
      /\ Len(validated) \in Nat
    BY DEF TypeOK
<1>2. T # {}
    <2>1. PICK d \in S : TRUE BY DEF Cyclic
    <2>2. PICK i \in 1 .. Len(validated) : validated[i] = d BY <1>1, <2>1 DEF Range
    <2> QED BY <2>1, <2>2
<1>3. T \subseteq Nat BY <1>1
<1>4. PICK i \in T : \A j \in T : ~(<<j, i>> \in OpToRel(<, Nat))
    BY <1>2, <1>3, WFMin, NatLessThanWellFounded
<1>5. \A j \in T : ~(j < i) BY <1>3, <1>4 DEF OpToRel
<1>6. PICK c \in Attached(validated[i]) : c \in S BY DEF Cyclic
<1>7. PICK j \in 1 .. i - 1 : validated[j] = c BY <1>6 DEF PostOrder
<1>8. j \in T /\ j < i BY <1>1, <1>3, <1>6, <1>7
<1> QED BY <1>5, <1>8

(* An ended audit reports a cycle exactly if one is reachable. *)
THEOREM CyclesAreReported == Spec => []CyclesReported
<1>1. TreeInv => CyclesReported
    <2> SUFFICES ASSUME TreeInv, Idle, walk \in {"audit", "policy"}
                 PROVE  cycles # {} <=> HasCycle
        BY DEF CyclesReported
    <2>0. TypeOK /\ MetSound /\ AuditSound /\ CyclesSound /\ PostOrder BY DEF TreeInv
    <2>1. Met = Reachable BY <2>0, EndedWalkMetAll
    <2>2. Active = {} BY DEF Active, Idle
    <2>3. Range(validated) = Reachable BY <2>0, <2>1, <2>2 DEF Met, AuditSound
    <2>4. cycles = {} => ~HasCycle BY <2>0, <2>3, PostOrderIsAcyclic
    <2> QED BY <2>0, <2>4 DEF CyclesSound
<1> QED BY <1>1, TreeInvariant, PTL

(* The recursion is no deeper than there are directives, if they are finite
   in number. *)
THEOREM RecursionIsBounded ==
    ASSUME IsFiniteSet(Directive)
    PROVE  Spec => []DepthBounded
<1>1. TreeInv => DepthBounded
    <2> SUFFICES ASSUME TreeInv PROVE DepthBounded
        OBVIOUS
    <2>0. TypeOK /\ StackDistinct BY DEF TreeInv
    <2>1. stack \in Seq(Frame) /\ Len(stack) \in Nat BY <2>0 DEF TypeOK
    <2> DEFINE f == [i \in 1 .. Len(stack) |-> stack[i].dir]
    <2>2. f \in [1 .. Len(stack) -> Directive]
        <3>1. \A i \in 1 .. Len(stack) : stack[i] \in Frame BY <2>1
        <3>2. \A i \in 1 .. Len(stack) : stack[i].dir \in Directive BY <3>1 DEF Frame
        <3> QED BY <3>2
    <2>3. \A i, j \in 1 .. Len(stack) : f[i] = f[j] => i = j BY <2>0 DEF StackDistinct
    <2>4. f \in Injection(1 .. Len(stack), Directive)
        BY <2>2, <2>3 DEF Injection, IsInjective
    <2>5. Cardinality(1 .. Len(stack)) = Len(stack)
        <3> DEFINE n == Len(stack)
        <3>1. n \in Int /\ 1 \in Int /\ n >= 0 BY <2>1
        <3> HIDE DEF n
        <3>2. Cardinality(1 .. n) = IF 1 > n THEN 0 ELSE n - 1 + 1 BY <3>1, FS_Interval
        <3>3. Cardinality(1 .. n) = n BY <3>1, <3>2
        <3> QED BY <3>3 DEF n
    <2>6. Cardinality(1 .. Len(stack)) <= Cardinality(Directive)
        <3> HIDE DEF f
        <3> QED BY <2>4, FS_Injection
    <2> QED BY <2>5, <2>6 DEF DepthBounded
<1> QED BY <1>1, TreeInvariant, PTL
==============================================================================
