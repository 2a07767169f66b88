----------------------------- MODULE MCRuleScope -----------------------------
(***************************************************************************)
(* What TLC tries the structural rules on: one directive of every kind     *)
(* that has a rule, each with the clauses the rules on it speak of.        *)
(***************************************************************************)
D(kind, paired, payload) == [kind |-> kind, lang |-> "C", paired |-> paired, payload |-> payload]
C(kind, items, detail) == [kind |-> kind, lang |-> "C", items |-> items, detail |-> detail]

\* Directives whose rules are about their clauses.
Executable ==
    {D(k, "none", <<>>) : k \in {"cancel", "cancellation_point", "declare_mapper",
        "target_data", "target_update", "depobj", "interop", "tile", "split",
        "declare_induction", "unroll", "scan", "single", "taskloop", "declare_simd",
        "flush", "target", "metadirective", "assume"}}
    \cup {D("end", p, <<>>) : p \in {"none", "single", "for", "critical"}}
    \cup {D("declare_mapper", "none", <<"type", "variable">>), D("depobj", "none", <<"o">>)}
\* Directives whose rules are about what they say outside their clauses.
Declarations ==
    {D("declare_reduction", "none", <<i, t, c>>) :
        i \in {"name", "none"}, t \in {"type", "none"}, c \in {"text", "none"}}
    \cup {D(k, "none", p) : k \in {"threadprivate", "groupprivate", "allocate", "depobj",
            "declare_variant", "critical"}, p \in {<<>>, <<"name">>, <<"not a name">>}}
    \cup {D("declare_mapper", "none", p) : p \in {<<>>, <<"type">>, <<"type", "variable">>}}

ScopeDirectives == Executable \cup Declarations

ScopeUnique == {"inbranch", "notinbranch", "grainsize", "num_tasks", "full", "partial",
             "seq_cst", "acq_rel", "release", "acquire", "nowait", "nogroup", "sizes",
             "counts", "inductor", "collector", "inclusive", "exclusive", "init_complete",
             "absent", "contains", "append_args", "match", "combiner", "allocator", "align"}
\* The rows of OpenMPApplicability.def for these directives and clauses.
Row(kind) ==
    CASE kind = "cancel" -> {"if", "parallel", "sections", "for", "do", "taskgroup"}
      [] kind = "cancellation_point" -> {"parallel", "sections", "for", "do", "taskgroup"}
      [] kind = "declare_mapper" -> {"map"}
      [] kind = "target_data" -> {"if", "default", "map", "use_device_ptr", "use_device_addr",
                                  "nowait", "nogroup"}
      [] kind = "target_update" -> {"if", "nowait", "depend", "to", "from"}
      [] kind = "depobj" -> {"depend", "destroy", "depobj_update", "init"}
      [] kind = "interop" -> {"nowait", "depend", "destroy", "init", "use"}
      [] kind = "tile" -> {"sizes", "apply"}
      [] kind = "split" -> {"counts", "apply"}
      [] kind = "declare_induction" -> {"induction", "inductor", "collector"}
      [] kind = "unroll" -> {"partial", "full", "apply"}
      [] kind = "scan" -> {"inclusive", "exclusive", "init_complete"}
      [] kind = "single" -> {"nowait", "copyprivate", "allocate", "private"}
      [] kind = "taskloop" -> {"if", "default", "reduction", "in_reduction",
                               "grainsize", "num_tasks", "nogroup"}
      [] kind = "declare_simd" -> {"inbranch", "notinbranch", "uniform"}
      [] kind = "flush" -> {"acq_rel", "release", "acquire", "seq_cst"}
      [] kind = "target" -> {"if", "defaultmap", "default", "nowait", "uses_allocators"}
      [] kind = "metadirective" -> {"when"}
      [] kind = "assume" -> {"absent", "contains", "holds"}
      [] kind = "for" -> {"nowait", "reduction"}
      [] kind = "declare_reduction" -> {"combiner", "initializer"}
      [] kind = "allocate" -> {"allocator", "align"}
      [] kind = "declare_variant" -> {"match", "adjust_args", "append_args"}
      [] OTHER -> {}
ScopeAllowed ==
    (UNION {{<<d.kind, k>> : k \in Row(d.kind)} : d \in ScopeDirectives})
        \cup {<<"for", "nowait">>}

Forms(kind) ==
    CASE kind = "if" -> {C("if", "some", <<m>>) : m \in {"unspecified", "task", "target"}}
      [] kind = "default" -> {C("default", "none", d) : d \in {<<"shared", "unspecified", "none">>,
            <<"shared", "scalar", "none">>,
            <<"variant", "unknown", "none">>, <<"variant", "unknown", "directive">>}}
      [] kind = "defaultmap" -> {C("defaultmap", "none", <<c>>) :
            c \in {"unspecified", "all", "scalar", "pointer", "unknown"}}
      [] kind = "map" -> {C("map", "some", d) : d \in {<<"none", "known">>, <<"name", "known">>,
            <<"not a name", "known">>, <<"name", "unknown">>}}
      [] kind \in {"to", "from"} -> {C(kind, "some", <<m>>) : m \in {"name", "not a name"}}
      [] kind = "depend" -> {C("depend", "some", <<"in", "none">>)} \cup {C("depend", "none", d) :
            d \in {<<"in", "none">>, <<"sink", "none">>, <<"sink", "vector">>, <<"source", "none">>}}
      [] kind = "init" -> {C("init", "none", d) : d \in {<<"none", "target">>,
            <<"operand", "target">>, <<"operand", "targetsync">>, <<"operand", "depinfo">>}}
      [] kind = "destroy" -> {C("destroy", i, <<>>) : i \in {"none", "some"}}
      [] kind = "allocate" -> {C("allocate", "some", d) : d \in {<<"user", "text", "modifier">>,
            <<"user", "text", "legacy">>, <<"user", "none", "legacy">>,
            <<"predefined", "none", "modifier">>, <<"predefined", "text", "legacy">>,
            <<"predefined", "none", "legacy">>}}
      [] kind \in {"reduction", "in_reduction"} -> {C(kind, "some", d) : d \in
            {<<"sane", "known">>, <<"unsound", "known">>, <<"sane", "unknown">>}}
      [] kind = "apply" -> {C("apply", "none", d) : d \in {<<"empty">>, <<"full">>,
            <<"full", "full">>, <<"full", "empty">>}}
      [] kind \in {"when", "match"} -> {C(kind, "none", <<v>>) : v \in {"sane", "unsound"}}
      [] kind \in {"absent", "contains"} -> {C(kind, "none", d) : d \in {<<>>, <<"for">>}}
      [] kind = "uses_allocators" -> {C(kind, "none", d) : d \in {<<>>, <<"a">>}}
      [] kind = "adjust_args" -> {C(kind, "none", d) : d \in {<<"nothing", "x">>, <<"nothing">>,
            <<"unknown", "x">>}}
      [] kind = "append_args" -> {C(kind, "none", d) : d \in {<<>>, <<"interop">>,
            <<"interop", "interop">>, <<"interop", "malformed">>}}
      [] OTHER -> {C(kind, "some", <<>>)}

\* One clause with an empty list item, one of another language, one not allowed.
Odd == {C("private", "blank", <<>>), [C("nowait", "some", <<>>) EXCEPT !.lang = "Fortran"]}
ScopeClauses(d) ==
    Odd \cup UNION {Forms(k) : k \in Row(d.kind) \cup
        (IF d.kind = "end" THEN {"nowait", "copyprivate"} ELSE {})}
=============================================================================
