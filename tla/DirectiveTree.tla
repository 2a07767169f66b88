---------------------------- MODULE DirectiveTree ----------------------------
(***************************************************************************)
(* The three recursive walks over a directive (OpenMPParser.cpp):          *)
(*                                                                         *)
(*   hooks    visitHostFragments hands every fragment to the host hooks;   *)
(*   audit    validateDirectiveTree checks every directive it reaches;     *)
(*   policy   validateExtensionPolicyImpl looks for extensions.            *)
(*                                                                         *)
(* A parsed directive is a tree, each nested directive owned by what holds *)
(* it.  A user of the API can also attach a directive by raw pointer       *)
(* (setVariantDirective, setPairedDirective), so validate meets shared     *)
(* directives and cycles.  The recursion is the stack of frames below; an  *)
(* action is one visit of a nested directive, or one return.               *)
(***************************************************************************)
EXTENDS Integers, Sequences, FiniteSets, Functions

CONSTANTS
    Directive,      \* directives that exist
    Root,           \* the directive the walks are called on
    Attachments,    \* what the clauses of a directive may hold, in order
    NULL            \* the null pointer

ASSUME RootAssumption == Root \in Directive
ASSUME AttachmentsAssumption == Attachments \subseteq Seq(Directive)
ASSUME NullAssumption == NULL \notin Directive

VARIABLES
    nested,     \* directives the clauses hold: construct traits and variants
    paired,     \* paired_directive of an END directive
    role,       \* paired_directive_role
    walk,       \* the walk under way, or the last one that ended
    stack,      \* the recursion: a directive, and how many of its nested
                \* directives its loop has come to
    hooked,     \* directives whose fragments the hooks were given, in order
    audited,    \* directives the audit has checked, in order
    validated,  \* the audit's vector of that name
    cycles,     \* directives reported as closing a cycle
    visited     \* the policy walk's vector of that name

graphVars == <<nested, paired, role>>
vars == <<graphVars, walk, stack, hooked, audited, validated, cycles, visited>>

Role == {"Complete", "KindOnly"}
Walk == {"none", "hooks", "audit", "policy"}
Frame == [dir : Directive, done : Nat]

TypeOK ==
    /\ nested \in [Directive -> Attachments]
    /\ paired \in [Directive -> Directive \cup {NULL}]
    /\ role \in [Directive -> Role]
    /\ walk \in Walk
    /\ stack \in Seq(Frame)
    /\ hooked \in Seq(Directive)
    /\ audited \in Seq(Directive)
    /\ validated \in Seq(Directive)
    /\ cycles \subseteq Directive
    /\ visited \in Seq(Directive)

\* Mutant: a KindOnly pair is followed.
PairOfAnyRole(d) == IF paired[d] # NULL THEN <<paired[d]>> ELSE <<>>

\* A KindOnly pair only names the construct that ends; it is not walked.
CompletePair(d) ==
    IF paired[d] # NULL /\ role[d] = "Complete" THEN <<paired[d]>> ELSE <<>>

\* visitImmediateNestedDirectives: the pair, then what the clauses hold.
ImmediateNested(d) == CompletePair(d) \o nested[d]

\* The overrides of visitHostFragments: the clauses, then the pair.
FragmentHolders(d) == nested[d] \o CompletePair(d)

Children(w, d) == IF w = "hooks" THEN FragmentHolders(d) ELSE ImmediateNested(d)

\* unique_ptr ownership as the parser leaves it: a nested directive is held
\* once, and the root by nobody.
Owned ==
    /\ \A d \in Directive :
          /\ IsInjective(FragmentHolders(d))
          /\ Root \notin Range(FragmentHolders(d))
    /\ \A d, e \in Directive :
          d # e => Range(FragmentHolders(d)) \cap Range(FragmentHolders(e)) = {}

Idle == stack = <<>>
Top == stack[Len(stack)]

\* The walk w is in the loop of its innermost call, about to visit d.
Visits(w, d) ==
    /\ walk = w
    /\ ~Idle
    /\ Top.done < Len(Children(w, Top.dir))
    /\ d = Children(w, Top.dir)[Top.done + 1]

Skip == stack' = [stack EXCEPT ![Len(stack)].done = @ + 1]
Call(d) == stack' = Append([stack EXCEPT ![Len(stack)].done = @ + 1],
                           [dir |-> d, done |-> 0])
CallRoot == stack' = <<[dir |-> Root, done |-> 0]>>

\* Mutants: active is never popped; it is empty; validated is never filled.
ActiveNotPopped == Range(audited)
ActiveForgotten == {}
NeverValidated(d) == FALSE

\* The audit's vector active: one entry per call that has not returned.
Active == {stack[i].dir : i \in DOMAIN stack}
AlreadyValidated(d) == d \in Range(validated)
AlreadyVisited(d) == d \in Range(visited)

\* Mutant: paired_directive_role has no initializer.
RoleUnset ==
    /\ nested \in [Directive -> Attachments]
    /\ paired \in [Directive -> Directive \cup {NULL}]
    /\ role \in [Directive -> Role \cup {"unset"}]

\* Any graph; a directive that ends nothing has the role it was made with.
InitGraph ==
    /\ nested \in [Directive -> Attachments]
    /\ paired \in [Directive -> Directive \cup {NULL}]
    /\ role \in [Directive -> Role]
    /\ \A d \in Directive : paired[d] = NULL => role[d] = "Complete"

Init ==
    /\ InitGraph
    /\ walk = "none"
    /\ stack = <<>>
    /\ hooked = <<>>
    /\ audited = <<>>
    /\ validated = <<>>
    /\ cycles = {}
    /\ visited = <<>>

\* applyHostLanguageHooks, which only a directive fresh from the parser meets.
StartHooks ==
    /\ walk = "none"
    /\ Owned
    /\ walk' = "hooks"
    /\ CallRoot
    /\ hooked' = <<Root>>
    /\ UNCHANGED <<graphVars, audited, validated, cycles, visited>>

HookNested == \E d \in Directive :
    /\ Visits("hooks", d)
    /\ Call(d)
    /\ hooked' = Append(hooked, d)
    /\ UNCHANGED <<graphVars, walk, audited, validated, cycles, visited>>

\* validate: on a parsed directive after its hooks, or on a user's own.
StartAudit ==
    /\ Idle
    /\ walk \in {"none", "hooks"}
    /\ walk' = "audit"
    /\ CallRoot
    /\ audited' = <<Root>>
    /\ UNCHANGED <<graphVars, hooked, validated, cycles, visited>>

AuditActive == \E d \in Directive :
    /\ Visits("audit", d)
    /\ d \in Active
    /\ cycles' = cycles \cup {d}
    /\ Skip
    /\ UNCHANGED <<graphVars, walk, hooked, audited, validated, visited>>

\* Mutant: the loop does not go on to the next nested directive.
ValidatedNotSkipped == \E d \in Directive :
    /\ Visits("audit", d)
    /\ AlreadyValidated(d)
    /\ UNCHANGED vars

AuditValidated == \E d \in Directive :
    /\ Visits("audit", d)
    /\ d \notin Active
    /\ AlreadyValidated(d)
    /\ Skip
    /\ UNCHANGED <<graphVars, walk, hooked, audited, validated, cycles, visited>>

AuditNested == \E d \in Directive :
    /\ Visits("audit", d)
    /\ d \notin Active
    /\ ~AlreadyValidated(d)
    /\ Call(d)
    /\ audited' = Append(audited, d)
    /\ UNCHANGED <<graphVars, walk, hooked, validated, cycles, visited>>

\* validateExtensionPolicy under RejectUnknown.
StartPolicy ==
    /\ Idle
    /\ walk = "audit"
    /\ walk' = "policy"
    /\ CallRoot
    /\ visited' = <<Root>>
    /\ UNCHANGED <<graphVars, hooked, audited, validated, cycles>>

PolicyVisited == \E d \in Directive :
    /\ Visits("policy", d)
    /\ AlreadyVisited(d)
    /\ Skip
    /\ UNCHANGED <<graphVars, walk, hooked, audited, validated, cycles, visited>>

PolicyNested == \E d \in Directive :
    /\ Visits("policy", d)
    /\ ~AlreadyVisited(d)
    /\ Call(d)
    /\ visited' = Append(visited, d)
    /\ UNCHANGED <<graphVars, walk, hooked, audited, validated, cycles>>

\* The innermost call returns; the audit's has something to record.
Return ==
    /\ ~Idle
    /\ Top.done = Len(Children(walk, Top.dir))
    /\ stack' = SubSeq(stack, 1, Len(stack) - 1)
    /\ validated' = IF walk = "audit" THEN Append(validated, Top.dir) ELSE validated
    /\ UNCHANGED <<graphVars, walk, hooked, audited, cycles, visited>>

Step == \/ HookNested
        \/ AuditActive \/ AuditValidated \/ AuditNested
        \/ PolicyVisited \/ PolicyNested
        \/ Return

Next == StartHooks \/ StartAudit \/ StartPolicy \/ Step

\* A walk, once called, runs on: it is sequential code that waits for nobody.
Spec == Init /\ [][Next]_vars /\ WF_vars(Step)
-----------------------------------------------------------------------------
(* What is attached to what, said without a walk. *)

Attached(d) ==
    Range(nested[d]) \cup
    (IF paired[d] # NULL /\ role[d] = "Complete" THEN {paired[d]} ELSE {})

Closed(S) == \A d \in S : Attached(d) \subseteq S

\* The smallest closed set that holds the root.
Reachable ==
    {d \in Directive :
        \A S \in SUBSET Directive : Root \in S /\ Closed(S) => d \in S}

\* Reachable directives each of which leads back into the set.
Cyclic(S) == S # {} /\ \A d \in S : Attached(d) \cap S # {}
HasCycle == \E S \in SUBSET Reachable : Cyclic(S)

(* A walk that has ended has met exactly the directives the tree is made of: the
   hooks each of them once, however the traversals of visitHostFragments and
   visitImmediateNestedDirectives order and spell their cases, and the audit
   and the policy walk on every graph. *)
WalksReachAll ==
    Idle =>
        /\ walk = "hooks" => IsInjective(hooked) /\ Range(hooked) = Reachable
        /\ walk \in {"audit", "policy"} =>
              Range(audited) = Reachable /\ Range(validated) = Reachable
        /\ walk = "policy" => Range(visited) = Reachable

(* A directive attached in several places is audited once, so that its
   diagnostics are not repeated (validated, checked before the audit). *)
AuditedOnce == IsInjective(audited)

(* An ended audit has reported a cycle exactly if there is one: a shared
   directive is not taken for a cycle, and no cycle is passed over because the
   walk has met its directives before. *)
CyclesReported ==
    Idle /\ walk \in {"audit", "policy"} => (cycles # {} <=> HasCycle)

(* The recursion is never deeper than there are directives, on any graph. *)
DepthBounded == Len(stack) <= Cardinality(Directive)

(* Every walk ends. *)
WalksEnd == []<>Idle
==============================================================================
