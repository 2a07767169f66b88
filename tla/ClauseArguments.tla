--------------------------- MODULE ClauseArguments ---------------------------
(***************************************************************************)
(* addOpenMPClauseWithArguments, statement by statement.                   *)
(*                                                                         *)
(* A clause is built from a kind and a list of integers and strings.  A    *)
(* first switch on the kind says which arguments are expected and rejects  *)
(* the list before anything is changed.  A second switch, written          *)
(* separately, takes the arguments one by one, constructs an object of the *)
(* kind's class, registers and indexes it; only after it come the test     *)
(* that every argument was taken, the separator and the place in the       *)
(* source order.  Every step may throw, and what was changed before stays. *)
(* ClauseStore takes the whole call for one step: this module is why.      *)
(***************************************************************************)
EXTENDS Naturals, Sequences, FiniteSets, SequencesExt

CONSTANTS MaxArguments      \* longest list whose every combination is tried
BoundAssumption == MaxArguments \in Nat

\* Kinds that both switches list as taking no argument.
Bare == {
    "private", "firstprivate", "shared", "num_teams", "thread_limit", "copyin", "align",
    "collapse", "ordered", "partial", "nowait", "full", "safelen", "simdlen", "nontemporal",
    "uniform", "inbranch", "notinbranch", "copyprivate", "parallel", "sections", "for",
    "do", "taskgroup", "inclusive", "exclusive", "use_device_ptr", "use_device_addr",
    "nogroup", "final", "untied", "mergeable", "priority", "detach", "reverse_offload",
    "unified_address", "unified_shared_memory", "dynamic_allocators", "self_maps",
    "is_device_ptr", "has_device_addr", "link", "enter", "threads", "simd", "acq_rel",
    "seq_cst", "release", "acquire", "relaxed", "read", "write", "update", "capture",
    "compare", "weak", "hint", "destroy", "sizes", "filter", "message", "absent",
    "contains", "holds", "looprange", "permutation", "counts", "apply", "induction",
    "inductor", "collector", "combiner", "adjust_args", "append_args", "nocontext",
    "novariants", "no_openmp", "no_openmp_constructs", "no_openmp_routines",
    "no_parallelism", "graph_id", "graph_reset", "replayable", "indirect", "transparent",
    "threadset", "safesync", "device_safesync", "memscope", "local", "init",
    "init_complete", "use", "interop"}
\* No argument either, but a case of their own in the second switch.
BareByHelper == {"ext_implementation_defined_requirement", "match", "uses_allocators",
                 "aligned", "num_threads", "when", "otherwise"}
OneInteger == {"fail", "severity", "at", "order", "proc_bind", "bind", "lastprivate",
               "linear", "dist_schedule", "device", "atomic_default_mem_order",
               "depobj_update", "doacross", "affinity", "grainsize", "num_tasks", "to",
               "from", "device_type"}
\* Kinds one of whose integers may be the enumerator "user": a text follows.
Named == {"if", "schedule", "initializer", "allocate", "allocator", "in_reduction",
          "task_reduction", "reduction"}
Kinds == Bare \cup BareByHelper \cup OneInteger \cup Named
            \cup {"default", "depend", "defaultmap", "map", "requires"}

\* An argument: an integer, "user" being the enumerator that asks for a text
\* and "bad" one the class refuses; or a string or lexeme, empty or not.
Integer == {"plain", "user", "bad"}
Text == {"text", "empty"}
Refusing == {"default", "doacross"}     \* constructors that check the integer
Values(k) == (IF k \in Refusing THEN Integer ELSE {"plain", "user"}) \cup Text
\* Lists longer than MaxArguments: integers only, one more than a map takes.
Longer == {[i \in 1 .. n |-> "plain"] : n \in MaxArguments + 1 .. 6}
Arguments(k) == (UNION {[1 .. n -> Values(k)] : n \in 0 .. MaxArguments}) \cup Longer

VARIABLES
    kind, arguments,                \* of this call
    pc,                             \* the statement to be executed
    why,                            \* what was thrown
    taken,                          \* argument_index
    text,                           \* the text that was taken
    class, payload,                 \* of the object: its class, the text it keeps
    registered, indexed, placed,    \* which containers hold the clause
    comma, separator                \* clause_separator_comma; of the clause

object == <<class, payload>>
containers == <<registered, indexed, placed, separator>>
vars == <<kind, arguments, pc, why, taken, text, object, containers, comma>>

Init ==
    /\ kind \in Kinds /\ arguments \in Arguments(kind)
    /\ pc = "preflight" /\ why = "none" /\ taken = 0
    /\ text = "none" /\ class = "none" /\ payload = "none"
    /\ registered = FALSE /\ indexed = FALSE /\ placed = FALSE
    /\ comma \in BOOLEAN /\ separator = "space"

Goto(label) == pc' = label
Throw(reason) ==
    /\ pc' = "thrown" /\ why' = reason
    /\ UNCHANGED <<kind, arguments, taken, text, object, containers, comma>>

-----------------------------------------------------------------------------
\* The first switch: how many integers, and which one may ask for a text.
ExpectedIntegers(k) ==
    CASE k \in Bare \cup BareByHelper -> 0
      [] k \in OneInteger \cup (Named \ {"schedule", "reduction"}) -> 1
      [] k = "default" -> IF Len(arguments) = 2 THEN 2 ELSE 1
      [] k \in {"depend", "defaultmap", "reduction"} -> 2
      [] k = "schedule" -> 3
      [] k = "map" -> 5
\* requirePreflightInteger reads this one before the list is checked.
Asking(k) == CASE k = "reduction" -> 2 [] k = "schedule" -> 3 [] OTHER -> 1
ExpectedArguments(k) ==
    [i \in 1 .. ExpectedIntegers(k) |-> Integer] \o
        (IF k \in Named /\ arguments[Asking(k)] = "user" THEN <<Text>> ELSE <<>>)

Preflight ==
    /\ pc = "preflight"
    /\ IF kind = "requires"         \* a kind neither switch knows
       THEN Throw("unsupported")
       ELSE IF kind \in Named /\ (Len(arguments) < Asking(kind)
                                  \/ arguments[Asking(kind)] \notin Integer)
       THEN Throw("preflight")
       ELSE IF \/ Len(arguments) # Len(ExpectedArguments(kind))
               \/ \E i \in DOMAIN arguments : arguments[i] \notin ExpectedArguments(kind)[i]
       THEN Throw("preflight")
       ELSE /\ Goto("take")
            /\ UNCHANGED <<kind, arguments, why, taken, text, object, containers, comma>>

-----------------------------------------------------------------------------
\* The second switch: the type of the next argument it takes, given those it
\* took; "none" when it goes on to construct.
TextAsked(k, n) ==
    \/ k \in {"if", "initializer", "allocate", "allocator", "in_reduction",
              "task_reduction"} /\ n = 1 /\ arguments[1] = "user"
    \/ k = "reduction" /\ n = 2 /\ arguments[2] = "user"
    \/ k = "schedule" /\ n = 3 /\ arguments[3] = "user"
\* (a slip for the checks: the type of DEPEND is not taken)
IntegersTakenSlip(k) ==
    CASE k \in Bare \cup BareByHelper -> 0
      [] k = "schedule" -> 3 [] k = "map" -> 5
      [] k \in {"defaultmap", "reduction"} -> 2 [] OTHER -> 1
IntegersTaken(k) ==
    CASE k \in Bare \cup BareByHelper -> 0
      [] k \in OneInteger \cup {"if", "initializer", "allocate", "allocator",
                                "in_reduction", "task_reduction"} -> 1
      [] k = "default" -> IF Len(arguments) > 1 THEN 2 ELSE 1
      [] k \in {"depend", "defaultmap", "reduction"} -> 2
      [] k = "schedule" -> 3
      [] k = "map" -> 5
NextTaken(k, n) ==
    CASE n < IntegersTaken(k) -> "integer"
      [] n >= IntegersTaken(k) /\ TextAsked(k, n) -> "text"
      [] OTHER -> "none"

TakeArgument ==
    /\ pc = "take"
    /\ NextTaken(kind, taken) # "none"
    /\ IF taken >= Len(arguments) THEN Throw("missing")
       ELSE IF (NextTaken(kind, taken) = "integer") # (arguments[taken + 1] \in Integer)
       THEN Throw("mistyped")
       ELSE /\ taken' = taken + 1
            /\ text' = IF NextTaken(kind, taken) = "text" THEN arguments[taken + 1] ELSE text
            /\ UNCHANGED <<kind, arguments, pc, why, object, containers, comma>>

\* makeClause, and the classes the other cases and add...Clause construct; a
\* class of its own has the name of its kind.
OwnClass == {
    "firstprivate", "apply", "induction", "init", "adjust_args", "append_args", "absent",
    "contains", "graph_id", "graph_reset", "transparent", "replayable", "threadset",
    "indirect", "local", "init_complete", "safesync", "device_safesync", "memscope",
    "looprange", "permutation", "counts", "inductor", "collector", "combiner", "no_openmp",
    "no_openmp_constructs", "no_openmp_routines", "no_parallelism", "nocontext",
    "novariants", "enter", "use", "holds"}
MakeClause(k) ==
    IF k \in {"inclusive", "exclusive"} THEN "scan"
    ELSE IF k \in Bare \ OwnClass THEN "clause"
    ELSE k

\* The constructors of DEFAULT and DOACROSS throw for an integer out of range.
Refused(k) ==
    k \in Refusing /\ \E i \in 1 .. taken : arguments[i] = "bad"
\* An empty text is taken as a null pointer, of which a setter keeps nothing.
StoredText(t) == IF t = "empty" THEN "none" ELSE t
Construct ==
    /\ pc = "take"
    /\ NextTaken(kind, taken) = "none"
    /\ IF kind \in Bare /\ arguments # <<>> THEN Throw("too many")
       ELSE IF Refused(kind) THEN Throw("constructor")
       ELSE /\ class' = MakeClause(kind)
            /\ payload' = StoredText(text)
            /\ registered' = TRUE
            /\ Goto("index")
            /\ UNCHANGED <<kind, arguments, why, taken, text, indexed, placed, separator, comma>>

\* push_back into the index; ORDER also takes its place in the source order.
Index ==
    /\ pc = "index"
    /\ indexed' = TRUE
    /\ placed' = (kind = "order")
    /\ Goto("finish")
    /\ UNCHANGED <<kind, arguments, why, taken, text, object, registered, separator, comma>>

Finish ==
    /\ pc = "finish"
    /\ IF taken # Len(arguments)
       THEN Throw("too many")
       ELSE /\ separator' = IF comma THEN "comma" ELSE "space"
            /\ comma' = FALSE
            /\ placed' = TRUE
            /\ Goto("returned")
            /\ UNCHANGED <<kind, arguments, why, taken, text, object, registered, indexed>>

Next == Preflight \/ TakeArgument \/ Construct \/ Index \/ Finish
Spec == Init /\ [][Next]_vars

-----------------------------------------------------------------------------
\* The variables have their types.
TypeOK ==
    /\ kind \in Kinds
    /\ pc \in {"preflight", "take", "index", "finish", "returned", "thrown"}
    /\ taken \in 0 .. Len(arguments)
    /\ class \in Kinds \cup {"none", "scan", "clause"}
    /\ text \in {"none"} \cup Text /\ payload \in {"none"} \cup Text
    /\ registered \in BOOLEAN /\ indexed \in BOOLEAN /\ placed \in BOOLEAN
    /\ separator \in {"space", "comma"}

\* A list that passes the first switch is taken to its last argument by the
\* second: past the preflight only a constructor refuses.
PreflightIsExact ==
    pc = "thrown" => why \in {"unsupported", "preflight", "constructor"}

\* A call that throws leaves no clause in any container; a call that returns
\* has put its clause in all of them and used up the comma.
AllOrNothing ==
    /\ pc = "thrown" => ~registered /\ ~indexed /\ ~placed
    /\ pc = "returned" => registered /\ indexed /\ placed /\ ~comma

\* The kinds whose text the structural rules ask for when the enumerator is user.
Audited == {"allocate", "initializer", "reduction", "in_reduction", "task_reduction"}
Agrees == arguments[Asking(kind)] = "user" <=> payload # "none"
\* An empty text passes both switches; it is never taken for a name, and the
\* structural rules, which ask the object, refuse it then and only then.
EmptyTextIsRefused ==
    pc = "returned" /\ kind \in Audited => (Agrees <=> "empty" \notin ToSet(arguments))

\* The classes the semantic actions of the grammar cast the clause of a kind
\* to, without a check.
Downcast == {"absent", "contains", "aligned", "default", "dist_schedule",
             "ext_implementation_defined_requirement", "from", "linear", "schedule", "to",
             "uses_allocators", "when", "match", "otherwise", "adjust_args", "affinity",
             "allocate", "append_args", "apply", "depend", "doacross", "in_reduction",
             "induction", "init", "map", "memscope", "order", "reduction",
             "task_reduction"}
\* An unchecked cast of the grammar finds an object of its class.
ClassFits ==
    pc = "returned" =>
        /\ kind \in Downcast => class = kind
        /\ kind \in {"inclusive", "exclusive"} => class = "scan"
=============================================================================
