--------------------------- MODULE StructureRules ---------------------------
(***************************************************************************)
(* validateOpenMPStructure: may these clauses stand on this directive?     *)
(*                                                                         *)
(* A host program, or the parser, puts clauses on a directive one by one;  *)
(* the validator reads the finished directive: each clause by itself, then *)
(* the clauses against each other and against the kind of the directive.   *)
(* The verdicts that have a module of their own enter as a word: those on  *)
(* selectors (VariantSelector), on modifiers of INIT (InitModifiers) and   *)
(* on the identifiers of reductions (ReductionNames).                      *)
(***************************************************************************)
EXTENDS Naturals, Sequences, FiniteSets, SequencesExt

CONSTANTS
    Directives,     \* [kind, lang, paired, payload] of the directives tried
    Clauses(_),     \* the clauses tried on a directive
    Allowed,        \* OpenMPApplicability.def: <<directive, clause>>
    Unique,         \* OpenMPSchema.def: the clauses of which there is one
    MaxClauses
StructureAssumption == MaxClauses \in Nat

\* clauseRequiresExpressionList
RequiresExpressionList == {
    "if", "num_threads", "private", "firstprivate", "shared", "copyin", "align",
    "reduction", "allocate", "num_teams", "thread_limit", "lastprivate", "collapse",
    "linear", "safelen", "simdlen", "aligned", "nontemporal", "uniform", "inclusive",
    "exclusive", "copyprivate", "initializer", "final", "in_reduction", "priority",
    "affinity", "detach", "grainsize", "num_tasks", "device", "map", "use_device_ptr",
    "use_device_addr", "is_device_ptr", "has_device_addr", "interop", "to", "from",
    "link", "task_reduction", "hint", "filter", "message", "holds", "graph_id",
    "threadset", "local", "looprange", "permutation", "counts", "inductor", "collector",
    "combiner", "nocontext", "novariants", "enter", "use", "sizes"}

VARIABLES directive, clauses
vars == <<directive, clauses>>

Init == directive \in Directives /\ clauses = <<>>
\* A clause is a record: its kind, lang, its items ("none", "blank" when one of
\* them is empty, "some"), and the detail that the rules of its kind read.
AddClause(clause) ==
    /\ Len(clauses) < MaxClauses
    /\ clauses' = Append(clauses, clause)
    /\ UNCHANGED directive
Next == \E clause \in Clauses(directive) : AddClause(clause)
Spec == Init /\ [][Next]_vars

-----------------------------------------------------------------------------
\* The rules on one clause, in groups: whether it may be there at all, ...
PlacementErrors(d, c) ==
    {e \in {"language", "not allowed", "no list", "destroy without a variable"} :
        \/ e = "language" /\ c.lang # d.lang
        \/ e = "not allowed" /\ d.kind # "end" /\ <<d.kind, c.kind>> \notin Allowed
        \/ e = "no list" /\ c.kind \in RequiresExpressionList /\ c.items # "some"
        \/ e = "destroy without a variable" /\ c.kind = "destroy" /\ d.kind = "interop"
                                            /\ c.items # "some"}

\* ... lists that may not be empty, and texts that must agree with an enumerator.
ContentErrors(c) ==
    {e \in {"no names", "adjust_args", "allocate", "append_args", "apply", "selector",
            "default variant", "no allocators"} :
        \/ e = "no names" /\ c.kind \in {"absent", "contains"} /\ c.detail = <<>>
        \* <<operation, "argument", ...>>
        \/ e = "adjust_args" /\ c.kind = "adjust_args"
                /\ (Len(c.detail) < 2 \/ c.detail[1] = "unknown")
        \* <<enumerator, text, syntax>>
        \/ e = "allocate" /\ c.kind = "allocate"
                /\ LET user == c.detail[1] = "user" IN
                   \/ (c.detail[2] = "text") # user
                   \/ c.detail[3] = "modifier" /\ ~user
        \* the verdicts on the modifiers of each operation
        \/ e = "append_args" /\ c.kind = "append_args"
                /\ (c.detail = <<>> \/ ToSet(c.detail) # {"interop"})
        \* the lists of the tree of applied clauses, from its root
        \/ e = "apply" /\ c.kind = "apply" /\ "empty" \in ToSet(c.detail)
        \/ e = "selector" /\ c.kind \in {"when", "match"} /\ c.detail # <<"sane">>
        \* <<enumerator, category, directive>>
        \/ e = "default variant" /\ c.kind = "default"
                /\ c.detail[1] = "variant" /\ c.detail[3] = "none"
        \/ e = "no allocators" /\ c.kind = "uses_allocators" /\ c.detail = <<>>}

\* INIT: <<operand, the role its modifiers are accepted for>>.
InitErrors(d, c) ==
    IF c.kind # "init" THEN {} ELSE
    {e \in {"no operand", "init elsewhere", "init modifiers"} :
        \/ e = "no operand" /\ c.detail[1] = "none"
        \/ e = "init elsewhere" /\ d.kind \notin {"interop", "depobj"}
        \/ e = "init modifiers" /\ d.kind = "interop"
                /\ c.detail[2] \notin {"target", "targetsync"}
        \/ e = "init modifiers" /\ d.kind = "depobj" /\ c.detail[2] # "depinfo"}

\* MAP <<mapper, policies>>, TO and FROM <<mapper>>, DEPEND <<type, vector>>.
DataErrors(c) ==
    {e \in {"mapper", "dist_data", "depend"} :
        \/ e = "mapper" /\ c.kind \in {"map", "to", "from"} /\ c.detail[1] = "not a name"
        \/ e = "dist_data" /\ c.kind = "map" /\ c.detail[2] = "unknown"
        \/ e = "depend" /\ c.kind = "depend" /\ c.items = "none"
                /\ c.detail[1] # "source" /\ (c.detail[1] = "sink" => c.detail[2] = "none")}

\* <<identifier>>, as ReductionNames judges it, and the modifier of REDUCTION.
ReductionErrors(c) ==
    {e \in {"reduction modifier", "reduction identifier"} :
        \/ e = "reduction modifier" /\ c.kind = "reduction" /\ c.detail[2] = "unknown"
        \/ e = "reduction identifier"
                /\ c.kind \in {"reduction", "in_reduction", "task_reduction"}
                /\ c.detail[1] # "sane"}

ClauseErrors(d, c) ==
    PlacementErrors(d, c) \cup ContentErrors(c) \cup InitErrors(d, c) \cup DataErrors(c)
        \cup ReductionErrors(c)

-----------------------------------------------------------------------------
\* The rules on the clauses together.
Positions(cs, kinds) == {i \in DOMAIN cs : cs[i].kind \in kinds}
Count(cs, kinds) == Cardinality(Positions(cs, kinds))

Constructs == {"parallel", "sections", "for", "do", "taskgroup"}
DepobjActions == {"depend", "destroy", "depobj_update", "init"}
ScanKinds == {"inclusive", "exclusive", "init_complete"}
\* require_any_clause, by kind of directive; scan asks further down.
RequiredAny(kind) ==
    CASE kind \in {"cancel", "cancellation_point"} -> {Constructs}
      [] kind \in {"declare_mapper", "target_enter_data", "target_exit_data"} -> {{"map"}}
      [] kind \in {"target_data", "target_data_composite"} ->
            {{"map", "use_device_addr", "use_device_ptr"}}
      [] kind = "target_update" -> {{"to", "from"}}
      [] kind = "depobj" -> {DepobjActions}
      [] kind = "interop" -> {{"destroy", "init", "use"}}
      [] kind \in {"tile", "stripe"} -> {{"sizes"}}
      [] kind = "split" -> {{"counts"}}
      [] kind = "declare_induction" -> {{"inductor"}, {"collector"}}
      [] kind = "scan" -> {ScanKinds}
      [] OTHER -> {}
HasTargetsync(cs) == \E i \in Positions(cs, {"init"}) : cs[i].detail[2] = "targetsync"
\* The errors that another clause may mend.
MissingErrors(d, cs) ==
    {e \in {"nothing to do", "depend without targetsync", "apply without partial"} :
        \/ e = "nothing to do"
                /\ \E kinds \in RequiredAny(d.kind) : Count(cs, kinds) = 0
        \/ e = "depend without targetsync" /\ d.kind = "interop"
                /\ Count(cs, {"depend"}) # 0 /\ ~HasTargetsync(cs)
                /\ Count(cs, {"use", "destroy"}) = 0
        \/ e = "apply without partial" /\ d.kind = "unroll"
                /\ Count(cs, {"apply"}) # 0 /\ Count(cs, {"partial"}) = 0}

MemoryOrders == {"seq_cst", "acq_rel", "release", "acquire", "relaxed"}
\* Sets of which a directive has one clause at most, reject_exclusive_clauses
\* and its like.
AtMostOne(kind) ==
    {{"inbranch", "notinbranch"}, {"grainsize", "num_tasks"}, {"full", "partial"},
     MemoryOrders} \cup {{k} : k \in Unique}
        \cup (CASE kind \in {"cancel", "cancellation_point"} -> {Constructs}
                [] kind = "depobj" -> {DepobjActions}
                [] kind = "scan" -> {ScanKinds}
                [] OTHER -> {})
\* Pairs of kinds that exclude each other however often each occurs.
Apart == {{"copyprivate", "nowait"}, {"nogroup", "reduction"}}
\* (a slip for the checks: each clause of a set is counted by itself)
ExclusionErrorsApart(d, cs) ==
    {e \in {"more than one", "apart"} :
        \/ e = "more than one"
            /\ \E kinds \in AtMostOne(d.kind) : \E k \in kinds : Count(cs, {k}) > 1
        \/ e = "apart" /\ \E pair \in Apart : \A k \in pair : Count(cs, {k}) # 0}
ExclusionErrors(d, cs) ==
    {e \in {"more than one", "apart"} :
        \/ e = "more than one" /\ \E kinds \in AtMostOne(d.kind) : Count(cs, kinds) > 1
        \/ e = "apart" /\ \E pair \in Apart : \A k \in pair : Count(cs, {k}) # 0}

\* IF clauses apply to different constituents: the keys seen so far.
IfErrors(cs) ==
    LET seen[n \in 0 .. Len(cs)] ==
            IF n = 0 THEN [keys |-> {}, error |-> FALSE]
            ELSE IF cs[n].kind # "if" THEN seen[n - 1]
            ELSE [keys |-> seen[n - 1].keys \cup {cs[n].detail},
                  error |-> seen[n - 1].error \/ cs[n].detail \in seen[n - 1].keys]
    IN IF seen[Len(cs)].error THEN {"if"} ELSE {}

\* The variable category of DEFAULT and DEFAULTMAP.
Category(c) ==
    LET said == IF c.kind = "default" THEN c.detail[2] ELSE c.detail[1] IN
    IF said = "unspecified" THEN "all" ELSE said
CategoriesSeen(cs, kind) ==
    LET seen[n \in 0 .. Len(cs)] ==
            IF n = 0 THEN <<>>
            ELSE IF cs[n].kind # kind \/ Category(cs[n]) = "unknown" THEN seen[n - 1]
            ELSE Append(seen[n - 1], Category(cs[n]))
    IN seen[Len(cs)]
CategoryErrors(cs) ==
    LET bad(seen) == ~IsInjective(seen) \/ ("all" \in ToSet(seen) /\ Len(seen) > 1)
    IN {e \in {"category"} : \E k \in {"default", "defaultmap"} : bad(CategoriesSeen(cs, k))}

\* A clause of END must have the end-clause property there.
AllowedAtEnd(d, c) ==
    \/ c.kind = "copyprivate" /\ d.paired = "single"
    \/ c.kind = "nowait" /\ <<d.paired, "nowait">> \in Allowed
EndErrors(d, cs) ==
    {e \in {"not paired", "not at the end"} :
        /\ d.kind = "end"
        /\ \/ e = "not paired" /\ d.paired = "none"
           \/ e = "not at the end" /\ \E i \in DOMAIN cs : ~AllowedAtEnd(d, cs[i])}

\* What a directive says outside its clauses: <<>> for what is missing.
PayloadErrors(d, cs) ==
    {e \in {"payload"} :
        \* <<identifier, types, combiner>>, "none" where empty
        \/ d.kind = "declare_reduction"
            /\ \/ d.payload[1] = "none" \/ d.payload[2] = "none"
               \/ d.payload[3] = "none" /\ Count(cs, {"combiner"}) = 0
        \/ d.kind \in {"threadprivate", "groupprivate", "allocate", "depobj",
                       "declare_variant"} /\ d.payload = <<>>
        \/ d.kind = "declare_mapper" /\ Len(d.payload) < 2      \* type and variable
        \/ d.kind = "critical" /\ d.payload = <<"not a name">>}

Errors(d, cs) ==
    (UNION {ClauseErrors(d, cs[i]) : i \in DOMAIN cs})
        \cup MissingErrors(d, cs) \cup ExclusionErrors(d, cs) \cup IfErrors(cs)
        \cup CategoryErrors(cs) \cup EndErrors(d, cs) \cup PayloadErrors(d, cs)

-----------------------------------------------------------------------------
\* The clauses of a directive may be written in any order: the verdict is the
\* same whatever two neighbours are swapped.
Swapped(i) == [clauses EXCEPT ![i] = clauses[i + 1], ![i + 1] = clauses[i]]
VerdictIsOrderFree ==
    \A i \in 1 .. Len(clauses) - 1 : Errors(directive, Swapped(i)) = Errors(directive, clauses)

\* Clauses that may stand together, two by two.
Categories(a, b) ==
    a.kind = b.kind /\ a.kind \in {"default", "defaultmap"}
        /\ Category(a) # "unknown" /\ Category(b) # "unknown"
Compatible(kind, a, b) ==
    /\ ~\E kinds \in AtMostOne(kind) : a.kind \in kinds /\ b.kind \in kinds
    /\ {a.kind, b.kind} \notin Apart
    /\ a.kind = "if" /\ b.kind = "if" => a.detail # b.detail
    /\ Categories(a, b) => Category(a) # Category(b) /\ "all" \notin {Category(a), Category(b)}
Bearable(d, c) == ClauseErrors(d, c) = {} /\ (d.kind = "end" => AllowedAtEnd(d, c))
\* A directive is accepted exactly when each clause is acceptable by itself,
\* every two of them may stand together and nothing is missing: no rule speaks
\* of three clauses at once, and no count lets a third one through.
AcceptedPairwise ==
    Errors(directive, clauses) = {} <=>
        /\ \A i \in DOMAIN clauses : Bearable(directive, clauses[i])
        /\ \A i, j \in DOMAIN clauses :
            i < j => Compatible(directive.kind, clauses[i], clauses[j])
        /\ MissingErrors(directive, clauses) = {}
        /\ PayloadErrors(directive, clauses) = {}
        /\ directive.kind = "end" => directive.paired # "none"

\* A clause cannot be taken back: an error stays whatever is added, unless it
\* is that something was missing.
KeepsErrors ==
    Errors(directive, clauses)
        \ (MissingErrors(directive, clauses) \cup PayloadErrors(directive, clauses))
            \subseteq Errors(directive, clauses')
ErrorsStay == [][KeepsErrors]_vars
=============================================================================
