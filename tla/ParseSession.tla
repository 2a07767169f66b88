----------------------------- MODULE ParseSession -----------------------------
(***************************************************************************)
(* The facade of the library (OpenMPParser.cpp), call by call.             *)
(*                                                                         *)
(* parseDirective communicates with parseOpenMP through variables of the   *)
(* thread: the language, the diagnostics, the directives under             *)
(* construction and the scratch state of the parser and the lexer.  A host *)
(* hook may call parseDirective again in the middle of a call, and threads *)
(* run side by side.  A frame is one call of parseDirective that has not   *)
(* returned; a step is what the call does between two uses of the shared   *)
(* variables.  What the grammar makes of a text is ParserContext's matter; *)
(* here it is a constant.                                                  *)
(***************************************************************************)
EXTENDS Integers, Sequences, SequencesExt

CONSTANTS
    Thread, Text, Lang, NULL,
    Fortran,    \* Lang_Fortran
    Request,    \* texts and options the clients and hooks may pass
    Marked,     \* texts that fortran_regex matches
    Parsable,   \* texts and languages yyparse accepts without a report
    Sound,      \* texts whose directives validate finds nothing wrong with
    Extended,   \* texts the extension policy reports under RejectUnknown
    Fragments,  \* number of host fragments in a text
    HostReport, \* what host hooks may report
    MaxDepth    \* bound on nested calls, a hook's within a hook's

ASSUME FortranAssumption == Fortran \in Lang
ASSUME LangNullAssumption == NULL \notin Lang
ASSUME RequestAssumption ==
    Request \subseteq [text : Text \cup {NULL}, lang : Lang, hooks : BOOLEAN,
                       allow : BOOLEAN]
ASSUME TextNullAssumption == NULL \notin Text
ASSUME FragmentsAssumption == Fragments \in [Text -> Nat]
ASSUME MaxDepthAssumption == MaxDepth \in Nat
ASSUME HostAssumption == HostReport \subseteq {"HostError", "HostWarning"}

VARIABLES
    frames,     \* per thread, its calls of parseDirective, innermost last
    answer,     \* per thread, the last ParseResult returned, until the next call
    userLang,   \* user_set_lang
    current,    \* CurrentDiagnostics
    residue,    \* which of parser and lexer hold scratch state of a parse
    storage,    \* directive_storage, roots only: whose call made them
    alive       \* directives made and not destroyed, and not handed out

vars == <<frames, answer, userLang, current, residue, storage, alive>>

\* SyntaxError stands for every report of the lexer and the grammar.
Code == {"NullInput", "LanguageMismatch", "SyntaxError", "HostError",
         "HostWarning", "InvalidAst", "UnsupportedExtension"}
Stage == {"begin", "enter", "parse", "leave", "take", "hooks", "inParse",
          "inValidate", "check", "return"}
\* A directive is named by the call that makes it: a thread and a depth.
Object == Thread \X Nat
Frame == [req : Request, stage : Stage,
          base : Lang \cup {NULL},      \* base_lang of parseOpenMP
          directive : BOOLEAN,          \* whether the call owns a directive
          diags : SUBSET Code, given : Nat, complete : BOOLEAN]
Answer == [diags : SUBSET Code, lang : Lang \cup {NULL}, complete : BOOLEAN]

TypeOK ==
    /\ frames \in [Thread -> Seq(Frame)]
    /\ \A t \in Thread : \A i \in DOMAIN frames[t] :
          LET f == frames[t][i]
          IN  f.given # 0 => f.req.text # NULL /\ f.given <= Fragments[f.req.text]
    /\ answer \in [Thread -> Answer \cup {NULL}]
    /\ userLang \in [Thread -> Lang \cup {NULL}]
    /\ current \in [Thread -> SUBSET Code]
    /\ residue \in [Thread -> SUBSET {"parser", "lexer"}]
    /\ storage \in [Thread -> SUBSET Object]
    /\ alive \subseteq Object

\* Every variable shared with parseOpenMP is thread_local.  Mutant: static.
SharedSlot(t) == CHOOSE u \in Thread : TRUE
Slot(t) == t

Error(D) == D \ {"HostWarning"} # {}

Depth(t) == Len(frames[t])
Top(t) == frames[t][Depth(t)]
At(t, stage) == frames[t] # <<>> /\ Top(t).stage = stage
Update(t, f) == frames' = [frames EXCEPT ![t][Depth(t)] = f]
Self(t) == <<t, Depth(t)>>
Held(t) == IF Top(t).directive THEN {Self(t)} ELSE {}

Init ==
    /\ frames = [t \in Thread |-> <<>>]
    /\ answer = [t \in Thread |-> NULL]
    /\ userLang = [t \in Thread |-> NULL]
    /\ current = [t \in Thread |-> {}]
    /\ residue = [t \in Thread |-> {}]
    /\ storage = [t \in Thread |-> {}]
    /\ alive = {}

\* parseDirective, called by the thread's client or by a hook it is in.
Call(t, r) ==
    /\ frames[t] = <<>> \/ At(t, "inParse") \/ At(t, "inValidate")
    /\ Depth(t) < MaxDepth
    /\ frames' = [frames EXCEPT ![t] = Append(@,
          [req |-> r, stage |-> "begin", base |-> NULL, directive |-> FALSE,
           diags |-> {}, given |-> 0, complete |-> FALSE])]
    /\ answer' = [answer EXCEPT ![t] = NULL]
    /\ UNCHANGED <<userLang, current, residue, storage, alive>>

\* A null input is answered on the spot.
RejectNull(t) ==
    /\ At(t, "begin")
    /\ Top(t).req.text = NULL
    /\ Update(t, [Top(t) EXCEPT !.stage = "return", !.diags = {"NullInput"}])
    /\ current' = [current EXCEPT ![Slot(t)] = {}]
    /\ UNCHANGED <<answer, userLang, residue, storage, alive>>

\* beginDiagnostics and setLang.
Begin(t) ==
    /\ At(t, "begin")
    /\ Top(t).req.text # NULL
    /\ Update(t, [Top(t) EXCEPT !.stage = "enter"])
    /\ current' = [current EXCEPT ![Slot(t)] = {}]
    /\ userLang' = [userLang EXCEPT ![Slot(t)] = Top(t).req.lang]
    /\ UNCHANGED <<answer, residue, storage, alive>>

\* parseOpenMP up to yyparse: the resets, then the language check.
\* Mutant: the call of resetParserState is forgotten.
NoReset(R) == R
Mismatch(t) == ~(Top(t).req.text \in Marked <=> userLang[Slot(t)] = Fortran)
ResetParser(R) == R \ {"parser"}

Enter(t) ==
    /\ At(t, "enter")
    /\ Update(t, [Top(t) EXCEPT !.stage = IF Mismatch(t) THEN "take" ELSE "parse",
                                !.base = userLang[Slot(t)]])
    /\ current' = [current EXCEPT ![Slot(t)] =
                      IF Mismatch(t) THEN {"LanguageMismatch"} ELSE {}]
    /\ residue' = [residue EXCEPT ![Slot(t)] = ResetParser(@)]
    /\ alive' = alive \ storage[Slot(t)]
    /\ storage' = [storage EXCEPT ![Slot(t)] = {}]
    /\ UNCHANGED <<answer, userLang>>

\* yyparse, after the lexer's reset.  On a clean start its verdict is the
\* grammar's, for the language of the thread; over the leavings of another
\* text it can be anything.
ResetLexer(R) == R \ {"lexer"}
Accepted(t) == <<Top(t).req.text, userLang[Slot(t)]>> \in Parsable
Verdicts(t) == IF ResetLexer(residue[Slot(t)]) = {} THEN {Accepted(t)} ELSE BOOLEAN

Build(t) ==
    /\ alive' = alive \cup {Self(t)}
    /\ storage' = [storage EXCEPT ![Slot(t)] = @ \cup {Self(t)}]
    /\ residue' = [residue EXCEPT ![Slot(t)] = {"parser", "lexer"}]

Parse(t) ==
    /\ At(t, "parse")
    /\ Update(t, [Top(t) EXCEPT !.stage = "leave"])
    /\ \E accepted \in Verdicts(t) :
          current' = [current EXCEPT ![Slot(t)] =
                         IF accepted THEN @ ELSE @ \cup {"SyntaxError"}]
    /\ Build(t)
    /\ UNCHANGED <<answer, userLang>>

\* An exception ends the innermost call, whose caller may handle it.
Unwind(t) ==
    /\ frames' = [frames EXCEPT ![t] = Front(@)]
    /\ UNCHANGED <<answer, userLang>>

\* A constructor throws in yyparse, or memory runs out: nothing is cleaned up.
ParseThrows(t) ==
    /\ At(t, "parse")
    /\ Unwind(t)
    /\ \E D \in SUBSET {"SyntaxError"} :
          current' = [current EXCEPT ![Slot(t)] = @ \cup D]
    /\ Build(t)

\* The end of parseOpenMP: a directive without a report is released to the
\* caller, and what is still stored is destroyed.  Mutant: it stays stored.
NotReleased(t) == {}
Released(t) == IF Error(current[Slot(t)]) THEN {} ELSE {Self(t)}

Leave(t) ==
    /\ At(t, "leave")
    /\ Update(t, [Top(t) EXCEPT !.stage = "take",
                                !.directive = ~Error(current[Slot(t)])])
    /\ residue' = [residue EXCEPT ![Slot(t)] = ResetLexer(@)]
    /\ alive' = alive \ (storage[Slot(t)] \ Released(t))
    /\ storage' = [storage EXCEPT ![Slot(t)] = {}]
    /\ UNCHANGED <<answer, userLang, current>>

\* takeDiagnostics, and what there is to go on with.
AfterTake(f) ==
    IF ~f.directive THEN "return" ELSE IF f.req.hooks THEN "hooks" ELSE "check"

Take(t) ==
    /\ At(t, "take")
    /\ Update(t, [Top(t) EXCEPT !.diags = current[Slot(t)],
                                !.stage = AfterTake(Top(t))])
    /\ current' = [current EXCEPT ![Slot(t)] = {}]
    /\ UNCHANGED <<answer, userLang, residue, storage, alive>>

\* applyHostLanguageHooks hands the fragments to the host one by one, then
\* the directive to its validate.  Mutants: handing out one too many, and
\* no more after an error.
OneTooMany(f) == f.given <= Fragments[f.req.text]
UntilError(f) == f.given < Fragments[f.req.text] /\ ~Error(f.diags)
MoreFragments(f) == f.given < Fragments[f.req.text]
CallHook(t) ==
    /\ At(t, "hooks")
    /\ Update(t, [Top(t) EXCEPT !.stage =
                      IF MoreFragments(Top(t)) THEN "inParse" ELSE "inValidate"])
    /\ UNCHANGED <<answer, userLang, current, residue, storage, alive>>

\* The host returns, having reported what it likes.
ParseHookReturns(t) ==
    /\ At(t, "inParse")
    /\ \E D \in SUBSET HostReport :
          Update(t, [Top(t) EXCEPT !.stage = "hooks", !.given = @ + 1,
                                   !.diags = @ \cup D])
    /\ UNCHANGED <<answer, userLang, current, residue, storage, alive>>

ValidateHookReturns(t) ==
    /\ At(t, "inValidate")
    /\ \E D \in SUBSET HostReport :
          Update(t, [Top(t) EXCEPT !.stage = "check", !.complete = TRUE,
                                   !.diags = @ \cup D])
    /\ UNCHANGED <<answer, userLang, current, residue, storage, alive>>

\* The host throws: the directive goes with the result.
HookThrows(t) ==
    /\ At(t, "inParse") \/ At(t, "inValidate")
    /\ Unwind(t)
    /\ alive' = alive \ Held(t)
    /\ UNCHANGED <<current, residue, storage>>

\* validate and validateExtensionPolicy.
CheckReports(r) ==
    (IF r.text \in Sound THEN {} ELSE {"InvalidAst"}) \cup
    (IF r.text \in Extended /\ ~r.allow THEN {"UnsupportedExtension"} ELSE {})

Check(t) ==
    /\ At(t, "check")
    /\ Update(t, [Top(t) EXCEPT !.stage = "return",
                                !.diags = @ \cup CheckReports(Top(t).req)])
    /\ UNCHANGED <<answer, userLang, current, residue, storage, alive>>

\* An error resets the directive; otherwise it is the caller's from now on.
Result(f) ==
    [diags |-> f.diags, complete |-> f.complete,
     lang |-> IF f.directive /\ ~Error(f.diags) THEN f.base ELSE NULL]

Return(t) ==
    /\ At(t, "return")
    /\ answer' = [answer EXCEPT ![t] = Result(Top(t))]
    /\ frames' = [frames EXCEPT ![t] = Front(@)]
    /\ alive' = alive \ Held(t)
    /\ UNCHANGED <<userLang, current, residue, storage>>

Step(t) ==
    \/ RejectNull(t) \/ Begin(t) \/ Enter(t) \/ Parse(t) \/ ParseThrows(t)
    \/ Leave(t) \/ Take(t) \/ CallHook(t) \/ ParseHookReturns(t)
    \/ ValidateHookReturns(t) \/ HookThrows(t) \/ Check(t) \/ Return(t)

Next == \E t \in Thread : Step(t) \/ \E r \in Request : Call(t, r)

Spec == Init /\ [][Next]_vars

(***************************************************************************)
(* Correctness.                                                            *)
(***************************************************************************)

Pending == [t \in Thread |-> [i \in 1 .. Len(frames[t]) |-> frames[t][i].req]]

Service == INSTANCE ParseService WITH pending <- Pending

\* Every call is answered from its own text, options and hooks (README.md,
\* "Reentrant ... and thread-safe parsing"): no answer shows the language, a
\* diagnostic or an unfinished directive of another call, although calls nest
\* in hooks, run on several threads and may be left by exceptions.
AnswersItsOwnCall == Service!Spec

Owned == {o \in Thread \X (1 .. MaxDepth) :
             o[2] <= Depth(o[1]) /\ frames[o[1]][o[2]].directive}

\* A directive is held by exactly one owner, directive_storage or the unique_ptr
\* of one call, until it is destroyed or handed out: the directive an outer call
\* shows its hooks survives the parses they start, and none is leaked.
OneOwner ==
    /\ alive = Owned \cup UNION {storage[t] : t \in Thread}
    /\ \A t \in Thread :
          /\ storage[t] \cap Owned = {}
          /\ \A u \in Thread \ {t} : storage[t] \cap storage[u] = {}

\* context_checks_complete says that the host has seen every fragment and the
\* directive (README.md:44), so it stays FALSE for a directive never built.
CompleteMeansChecked ==
    \A t \in Thread : \A i \in 1 .. Depth(t) :
        LET f == frames[t][i]
        IN  f.complete => /\ f.directive /\ f.req.hooks
                          /\ f.given = Fragments[f.req.text]

==============================================================================
