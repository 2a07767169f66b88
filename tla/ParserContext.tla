---------------------------- MODULE ParserContext ----------------------------
(***************************************************************************)
(* The context in which the semantic actions of ompparser.yy run.          *)
(*                                                                         *)
(* The actions see the directive and the clause being parsed only through  *)
(* thread-local pointers: current_directive, current_clause and one level  *)
(* of parent, current_parent_directive and current_parent_clause.  Grammar *)
(* rules that contain a directive (variants of WHEN, OTHERWISE and         *)
(* DEFAULT, construct traits, the directive an END names) save the current *)
(* pair in the parent pair and restore it afterwards.  Directives under    *)
(* construction are owned by directive_storage until the action of the     *)
(* enclosing rule moves them to their holder.                              *)
(*                                                                         *)
(* todo is the parser's stack of grammar symbols still to be matched.  A   *)
(* step reduces or expands its head, so a behaviour is the parse of one    *)
(* source text after another.  The ghost variables record what that text   *)
(* says, independently of the pointers above.                              *)
(***************************************************************************)
EXTENDS ClauseStore

CONSTANTS
    NULL,
    ParserLang,     \* the language in force, set by the user or detected
    MaxParses,      \* how many texts are parsed one after another
    Forms           \* which of the forms below the text may use

(***************************************************************************)
(* "nested": a variant is itself a metadirective or a DECLARE VARIANT, or  *)
(* END names a BEGIN METADIRECTIVE with clauses.  "misplaced": a trait     *)
(* stands in a selector set of another kind; the grammar admits it and     *)
(* validateSelectorInvariants is there to report it.  "order-comma": a     *)
(* comma stands before an ORDER clause.  "silent-comma": a comma stands in *)
(* the clause list of a directive whose list rule does not record it.      *)
(***************************************************************************)
ASSUME FormsAssumption ==
    Forms \subseteq {"nested", "misplaced", "order-comma", "silent-comma"}
ASSUME NullAssumption == NULL \notin Directive \cup Clause
ASSUME MaxParsesAssumption == MaxParses \in Nat
ASSUME ParserLangAssumption == ParserLang \in BaseLang
ASSUME ClauseKindAssumption == {"private", "when", "match", "otherwise", "default"} \subseteq Kind
\* Directives and clauses are numbered in the order of their creation.
ASSUME NumberAssumption == Directive \subseteq Nat /\ Clause \subseteq Nat

VARIABLES
    phase,      \* "idle", "parsing", "accepted", "rejected" or "undefined"
    parses,     \* texts parsed so far
    before,     \* directives constructed by the earlier parses
    todo,       \* grammar symbols still to be matched
    curD, curC, \* current_directive, current_clause
    parD, parC, \* current_parent_directive, current_parent_clause
    storage,    \* directive_storage
    made,       \* directives constructed since the program started
    result,     \* the directive returned to the caller
    variantOf,  \* variant_directive of each clause
    traitsOf,   \* construct_directive of the traits of each clause, in order
    pairedOf,   \* paired_directive of each directive
    setOpen,    \* active_trait_set of each clause is engaged
    misused     \* construction_errors of each clause is not empty

VARIABLES       \* ghosts: what the text says
    scope,      \* the directives being written, innermost last, each with the
                \* clause of it that is being written
    writtenIn,  \* where the text puts each directive
    written,    \* the clauses the text gives each directive
    readComma,  \* the text has a comma before the next clause
    commaFirst  \* clauses the text writes after a comma

pointerVars == <<curD, curC, parD, parC>>
holderVars == <<storage, made, result, variantOf, traitsOf, pairedOf>>
traitVars == <<setOpen, misused>>
ghostVars == <<scope, writtenIn, written, readComma, commaFirst>>
parserVars == <<phase, parses, before, todo, pointerVars, holderVars, traitVars, ghostVars>>
vars == <<storeVars, parserVars>>

\* The kinds of clause that carry context selectors (OpenMPVariantClause).
VariantKind == {"when", "match", "otherwise"}

NoFrame == [dir |-> NULL, clause |-> NULL]
Innermost == IF scope = <<>> THEN NoFrame ELSE scope[Len(scope)]

ParserInit ==
    /\ StoreInit
    /\ dirLang = [d \in Directive |-> Lang_unknown]
    /\ phase = "idle" /\ parses = 0 /\ before = 0 /\ todo = <<>>
    /\ curD = NULL /\ curC = NULL /\ parD = NULL /\ parC = NULL
    /\ storage = {} /\ made = 0 /\ result = NULL
    /\ variantOf = [c \in Clause |-> NULL]
    /\ traitsOf = [c \in Clause |-> <<>>]
    /\ pairedOf = [d \in Directive |-> NULL]
    /\ setOpen = [c \in Clause |-> FALSE]
    /\ misused = [c \in Clause |-> FALSE]
    /\ scope = <<>>
    /\ writtenIn = [d \in Directive |-> NoFrame]
    /\ written = [d \in Directive |-> <<>>]
    /\ readComma = FALSE /\ commaFirst = {}

-----------------------------------------------------------------------------
(***************************************************************************)
(* The driver and the helpers of the semantic actions.                     *)
(***************************************************************************)
At(symbol) == phase = "parsing" /\ todo # <<>> /\ Head(todo) = symbol
Continue(symbols) == todo' = symbols \o Tail(todo) /\ UNCHANGED <<phase, parses, before>>

\* An action dereferences a null pointer, or treats a clause as one of a class
\* it is not: nothing is defined from here on.
Undefined ==
    /\ phase' = "undefined"
    /\ UNCHANGED <<storeVars, parses, before, todo, pointerVars, holderVars, traitVars, ghostVars>>

SaveParent(d, c) == parD' = d /\ parC' = c

\* Mutants: the parent pair stays set; the directive is not restored.
RestoreParentKept ==
    curD' = parD /\ curC' = parC /\ UNCHANGED <<parD, parC>>
RestoreClauseOnly ==
    UNCHANGED curD /\ curC' = parC /\ parD' = NULL /\ parC' = NULL

RestoreParent ==
    /\ curD' = parD /\ curC' = parC
    /\ parD' = NULL /\ parC' = NULL

\* makeDirectiveAt, for the rules that assign its result to current_directive
MakeDirective(d) ==
    /\ d = made + 1
    /\ made' = d
    /\ storage' = storage \cup {d}
    /\ curD' = d
    /\ SetBaseLang(d, ParserLang)
    /\ writtenIn' = [writtenIn EXCEPT ![d] = Innermost]
    /\ scope' = Append(scope, [dir |-> d, clause |-> NULL])
    /\ UNCHANGED <<result, variantOf, traitsOf, pairedOf, traitVars, written,
                   readComma, commaFirst>>

\* takeDirectiveOwnership: the directive if the storage owns it, else null
Taken(d) == IF d \in storage THEN d ELSE NULL

\* What the text says when a clause begins.
WriteClause(c) ==
    LET d == Innermost.dir IN
    /\ written' = [written EXCEPT ![d] = Append(@, c)]
    /\ scope' = [scope EXCEPT ![Len(scope)].clause = c]
    /\ commaFirst' = IF readComma THEN commaFirst \cup {c} ELSE commaFirst
    /\ readComma' = FALSE
    /\ UNCHANGED writtenIn

\* addClauseAt(current_directive, ..), assigned to current_clause
NewClause(k, c) ==
    /\ c = Cardinality(Live) + 1
    /\ IF curD = NULL
       THEN curC' = NULL /\ UNCHANGED storeVars
       ELSE curC' = c /\ AddClause(curD, k, c)
    /\ WriteClause(c)
    /\ UNCHANGED <<curD, holderVars, traitVars>>

-----------------------------------------------------------------------------
(***************************************************************************)
(* A call of parseOpenMP, from the reset to the start of yyparse.          *)
(***************************************************************************)
\* Mutant: the separator of an aborted clause list survives.
ResetPointersOnly ==
    /\ curD' = NULL /\ curC' = NULL /\ parD' = NULL /\ parC' = NULL
    /\ UNCHANGED storeVars

ResetParserState ==
    /\ curD' = NULL /\ curC' = NULL /\ parD' = NULL /\ parC' = NULL
    /\ SetSeparator(FALSE)

BeginParse ==
    /\ phase \in {"idle", "accepted", "rejected"}
    /\ parses < MaxParses
    /\ ResetParserState
    /\ storage' = {}
    /\ phase' = "parsing" /\ parses' = parses + 1 /\ before' = made
    /\ todo' = <<"directive">>
    /\ result' = NULL
    /\ scope' = <<>> /\ readComma' = FALSE
    /\ UNCHANGED <<made, variantOf, traitsOf, pairedOf, traitVars, writtenIn,
                   written, commaFirst>>

(***************************************************************************)
(* The exits of parseOpenMP: a syntax error at any point (yyerror, or a    *)
(* reportParserError followed by YYABORT), or the end of the text.         *)
(***************************************************************************)
Drop ==
    /\ curD' = NULL /\ curC' = NULL /\ parD' = NULL /\ parC' = NULL
    /\ storage' = {}

SyntaxError ==
    /\ phase = "parsing"
    /\ phase' = "rejected" /\ todo' = <<>>
    /\ Drop
    /\ UNCHANGED <<storeVars, parses, before, made, result, variantOf, traitsOf,
                   pairedOf, traitVars, ghostVars>>

Accept ==
    /\ phase = "parsing" /\ todo = <<>>
    /\ IF curD = NULL
       THEN phase' = "rejected" /\ UNCHANGED <<storeVars, result>>
       ELSE phase' = "accepted" /\ SetBaseLang(curD, ParserLang) /\ result' = Taken(curD)
    /\ Drop
    /\ UNCHANGED <<parses, before, todo, made, variantOf, traitsOf, pairedOf, traitVars,
                   ghostVars>>

-----------------------------------------------------------------------------
(***************************************************************************)
(* Directives.                                                             *)
(***************************************************************************)
Nesting(symbols) == {"directive"} \cup (IF "nested" \in Forms THEN symbols ELSE {})

\* parallel, for, ...: directives whose clauses contain no directive
PlainDirective(symbol) ==
    /\ At(symbol)
    /\ \E d \in Directive : MakeDirective(d)
    /\ Continue(<<"clauses">>)
    /\ UNCHANGED <<curC, parD, parC>>

Metadirective(symbol) ==
    /\ At(symbol)
    /\ \E d \in Directive : MakeDirective(d)
    /\ Continue(<<"mclauses">>)
    /\ UNCHANGED <<curC, parD, parC>>

DeclareVariantDirective(symbol) ==
    /\ At(symbol)
    /\ \E d \in Directive : MakeDirective(d)
    /\ Continue(<<"dclauses">>)
    /\ UNCHANGED <<curC, parD, parC>>

\* END METADIRECTIVE: the paired directive has no clauses of its own.
EndMetadirective ==
    /\ At("paired")
    /\ \E d \in Directive : MakeDirective(d)
    /\ Continue(<<>>)
    /\ UNCHANGED <<curC, parD, parC>>

\* end_directive, up to end_clause_seq
EndDirective ==
    /\ At("directive")
    /\ \E d \in Directive : MakeDirective(d) /\ SaveParent(d, curC)
    /\ Continue(<<"paired", "endPaired">>)
    /\ UNCHANGED curC

\* Mutant: the END directive does not adopt the clauses.
EndPairedOnly ==
    /\ At("endPaired")
    /\ parD # NULL
    /\ pairedOf' = [pairedOf EXCEPT ![parD] = Taken(curD)]
    /\ storage' = storage \ {curD}
    /\ RestoreParent
    /\ Continue(<<>>)
    /\ scope' = SubSeq(scope, 1, Len(scope) - 1)
    /\ UNCHANGED <<storeVars, made, result, variantOf, traitsOf, traitVars, writtenIn,
                   written, readComma, commaFirst>>

\* end_directive, after end_clause_seq
EndPaired ==
    /\ At("endPaired")
    /\ IF parD = NULL
       THEN Undefined
       ELSE /\ IF Taken(curD) = NULL THEN UNCHANGED storeVars ELSE AdoptClauses(parD, curD)
            /\ pairedOf' = [pairedOf EXCEPT ![parD] = Taken(curD)]
            /\ storage' = storage \ {curD}
            /\ RestoreParent
            /\ Continue(<<>>)
            /\ scope' = SubSeq(scope, 1, Len(scope) - 1)
            /\ UNCHANGED <<made, result, variantOf, traitsOf, traitVars, writtenIn,
                           written, readComma, commaFirst>>

-----------------------------------------------------------------------------
(***************************************************************************)
(* Clause lists.  One rule shape serves every directive: nothing, a        *)
(* clause, or a list followed by a clause with or without a comma.  In     *)
(* about half of the rules a mid-rule action sets clause_separator_comma.  *)
(***************************************************************************)
ClauseSymbol == [clauses |-> "clause", mclauses |-> "mclause", dclauses |-> "dclause"]
MoreSymbol == [clauses |-> "more", mclauses |-> "mmore", dclauses |-> "dmore"]
ListKind == DOMAIN ClauseSymbol

\* Text that reduces no rule with an action.
Silent == UNCHANGED <<storeVars, pointerVars, holderVars, traitVars, ghostVars>>

FirstClause(l) == At(l) /\ Continue(<<ClauseSymbol[l], MoreSymbol[l]>>) /\ Silent

NextClause(l) ==
    At(MoreSymbol[l]) /\ Continue(<<ClauseSymbol[l], MoreSymbol[l]>>) /\ Silent

NextClauseAfterComma(l) ==
    /\ At(MoreSymbol[l])
    /\ Continue(<<ClauseSymbol[l], MoreSymbol[l]>>)
    /\ SetSeparator(TRUE)
    /\ readComma' = TRUE
    /\ UNCHANGED <<pointerVars, holderVars, traitVars, scope, writtenIn, written,
                   commaFirst>>

\* error, masked, assume, begin metadirective, target teams, ...: the rules
\* without the mid-rule action.
NextClauseSilently(l) ==
    /\ "silent-comma" \in Forms
    /\ At(MoreSymbol[l])
    /\ Continue(<<ClauseSymbol[l], MoreSymbol[l]>>)
    /\ readComma' = TRUE
    /\ UNCHANGED <<storeVars, pointerVars, holderVars, traitVars, scope, writtenIn,
                   written, commaFirst>>

Optional == ListKind \cup {MoreSymbol[l] : l \in ListKind}
            \cup {"moreSets", "moreTraits", "otherwiseVariant", "whenVariant"}

LeaveOut(symbol) == At(symbol) /\ Continue(<<>>) /\ Silent

\* A clause whose argument contains no directive, built by addClauseAt.
PlainClause ==
    /\ At("clause")
    /\ \E c \in Clause : NewClause("private", c)
    /\ Continue(<<>>)
    /\ UNCHANGED <<parD, parC>>

\* order_parameter builds its clause by OpenMPOrderClause::addOrderClause.
OrderClause ==
    /\ At("clause")
    /\ readComma => "order-comma" \in Forms
    /\ IF curD = NULL
       THEN Undefined
       ELSE /\ \E c \in Clause :
                  /\ c = Cardinality(Live) + 1
                  /\ AddOrderClause(curD, c)
                  /\ curC' = c
                  /\ WriteClause(c)
            /\ Continue(<<>>)
            /\ UNCHANGED <<curD, parD, parC, holderVars, traitVars>>

-----------------------------------------------------------------------------
(***************************************************************************)
(* Clauses that contain directives.                                        *)
(***************************************************************************)
WhenClause ==
    /\ At("mclause")
    /\ \E c \in Clause : NewClause("when", c)
    /\ Continue(<<"set", "moreSets", "whenColon">>)
    /\ UNCHANGED <<parD, parC>>

MatchClause ==
    /\ At("dclause")
    /\ \E c \in Clause : NewClause("match", c)
    /\ Continue(<<"set", "moreSets">>)
    /\ UNCHANGED <<parD, parC>>

OtherwiseClause ==
    /\ At("mclause")
    /\ \E c \in Clause : NewClause("otherwise", c)
    /\ Continue(<<"otherwiseVariant">>)
    /\ UNCHANGED <<parD, parC>>

OtherwiseOpen ==
    /\ At("otherwiseVariant")
    /\ SaveParent(curD, curC)
    /\ Continue(<<"variant", "variantClose">>)
    /\ UNCHANGED <<storeVars, curD, curC, holderVars, traitVars, ghostVars>>

\* default_variant_directive adds its clause and saves it in one action.
DefaultVariantClause ==
    /\ At("mclause")
    /\ \E c \in Clause : NewClause("default", c) /\ SaveParent(curD, c)
    /\ Continue(<<"variant", "variantClose">>)

WhenColon ==
    /\ At("whenColon")
    /\ SaveParent(curD, curC)
    /\ Continue(<<"whenVariant", "whenClose">>)
    /\ UNCHANGED <<storeVars, curD, curC, holderVars, traitVars, ghostVars>>

WhenVariant ==
    /\ At("whenVariant") /\ Continue(<<"variant", "setWhenVariant">>) /\ Silent

\* Mutant: the clause holds the directive but the storage keeps it, too.
HoldVariantShared ==
    /\ variantOf' = [variantOf EXCEPT ![parC] = Taken(curD)]
    /\ scope' = SubSeq(scope, 1, Len(scope) - 1)
    /\ UNCHANGED <<storage, made, result, traitsOf, pairedOf, traitVars, writtenIn,
                   written, readComma, commaFirst>>

\* setVariantDirective(takeDirectiveOwnership(current_directive)) on the parent
HoldVariant ==
    /\ variantOf' = [variantOf EXCEPT ![parC] = Taken(curD)]
    /\ storage' = storage \ {curD}
    /\ scope' = SubSeq(scope, 1, Len(scope) - 1)
    /\ UNCHANGED <<made, result, traitsOf, pairedOf, traitVars, writtenIn, written,
                   readComma, commaFirst>>

SetWhenVariant ==
    /\ At("setWhenVariant")
    /\ IF parC = NULL
       THEN Undefined
       ELSE HoldVariant /\ Continue(<<>>) /\ UNCHANGED <<storeVars, pointerVars>>

WhenClose ==
    /\ At("whenClose")
    /\ RestoreParent
    /\ Continue(<<>>)
    /\ UNCHANGED <<storeVars, holderVars, traitVars, ghostVars>>

\* the end of otherwise_variant_opt and of default_variant_directive
VariantClose ==
    /\ At("variantClose")
    /\ IF parC = NULL
       THEN Undefined
       ELSE HoldVariant /\ RestoreParent /\ Continue(<<>>) /\ UNCHANGED storeVars

-----------------------------------------------------------------------------
(***************************************************************************)
(* Context selectors: the calls on the variant clause under construction.  *)
(***************************************************************************)
IsVariantClause(c) == c # NULL /\ clauseKind[c] \in VariantKind

\* beginTraitSet: a set inside a set is recorded as a construction error.
BeginTraitSet(c) ==
    /\ setOpen' = [setOpen EXCEPT ![c] = TRUE]
    /\ misused' = [misused EXCEPT ![c] = @ \/ setOpen[c]]

\* endTraitSet: a terminator without a set is recorded as a construction error.
EndTraitSet(c) ==
    /\ setOpen' = [setOpen EXCEPT ![c] = FALSE]
    /\ misused' = [misused EXCEPT ![c] = @ \/ ~setOpen[c]]

\* user, device, implementation, ...: sets whose traits contain no directive
OpenSet ==
    /\ At("set")
    /\ IF ~IsVariantClause(curC)
       THEN Undefined
       ELSE /\ BeginTraitSet(curC)
            /\ Continue(<<"traits", "setEnd">>)
            /\ UNCHANGED <<storeVars, pointerVars, holderVars, ghostVars>>

\* Mutant: construct saves no parent.
OpenConstructUnsaved ==
    /\ At("set")
    /\ IsVariantClause(curC)
    /\ BeginTraitSet(curC)
    /\ Continue(<<"constructTraits", "setEnd">>)
    /\ UNCHANGED <<storeVars, pointerVars, holderVars, ghostVars>>

OpenConstructSet ==
    /\ At("set")
    /\ IF ~IsVariantClause(curC)
       THEN Undefined
       ELSE /\ BeginTraitSet(curC)
            /\ SaveParent(curD, curC)
            /\ Continue(<<"constructTraits", "setEnd">>)
            /\ UNCHANGED <<storeVars, curD, curC, holderVars, ghostVars>>

AnotherSet == At("moreSets") /\ Continue(<<"set", "moreSets">>) /\ Silent

(***************************************************************************)
(* trait_selector_list.  Which symbols a trait may stand for depends on    *)
(* the set it is written in, unless the text misplaces it.                 *)
(***************************************************************************)
SimpleTraitAt ==
    {"traits"} \cup (IF "misplaced" \in Forms THEN {"constructTraits", "moreTraits"} ELSE {})

ConstructTraitAt ==
    {"constructTraits", "moreTraits"} \cup (IF "misplaced" \in Forms THEN {"traits"} ELSE {})

\* condition_selector, context_kind, ...: beginTraitSelector, its properties
\* and endTraitSelector on current_clause.
SimpleTrait(symbol) ==
    /\ At(symbol)
    /\ IF ~IsVariantClause(curC)
       THEN Undefined
       ELSE /\ misused' = [misused EXCEPT ![curC] = @ \/ ~setOpen[curC]]
            /\ Continue(<<>>)
            /\ UNCHANGED <<storeVars, pointerVars, holderVars, setOpen, ghostVars>>

ConstructTrait(symbol) ==
    /\ At(symbol)
    /\ Continue(<<"trait", "takeTrait", "moreTraits">>)
    /\ Silent

\* addConstructDirective(takeDirectiveOwnership(current_directive)), on the parent
TakeTrait ==
    /\ At("takeTrait")
    /\ IF ~IsVariantClause(parC)
       THEN Undefined
       ELSE /\ IF setOpen[parC]
               THEN /\ traitsOf' = [traitsOf EXCEPT ![parC] = Append(@, Taken(curD))]
                    /\ UNCHANGED misused
               ELSE /\ misused' = [misused EXCEPT ![parC] = TRUE]
                    /\ UNCHANGED traitsOf
            /\ storage' = storage \ {curD}
            /\ scope' = SubSeq(scope, 1, Len(scope) - 1)
            /\ Continue(<<>>)
            /\ UNCHANGED <<storeVars, pointerVars, made, result, variantOf, pairedOf,
                           setOpen, writtenIn, written, readComma, commaFirst>>

\* the action of trait_set_selector: back to the parent clause, if there is one
SetEnd ==
    /\ At("setEnd")
    /\ LET c == IF parC # NULL THEN parC ELSE curC IN
       IF ~IsVariantClause(c)
       THEN Undefined
       ELSE /\ EndTraitSet(c)
            /\ IF parC # NULL THEN RestoreParent ELSE UNCHANGED pointerVars
            /\ Continue(<<>>)
            /\ UNCHANGED <<storeVars, holderVars, ghostVars>>

-----------------------------------------------------------------------------
ReadDirective ==
    \/ \E symbol \in {"directive", "variant", "paired", "trait"} : PlainDirective(symbol)
    \/ \E symbol \in Nesting({"variant", "paired"}) : Metadirective(symbol)
    \/ \E symbol \in Nesting({"variant"}) : DeclareVariantDirective(symbol)
    \/ EndMetadirective
    \/ EndDirective
    \/ EndPaired

ReadClause ==
    \/ \E l \in ListKind : FirstClause(l) \/ NextClause(l) \/ NextClauseAfterComma(l)
    \/ \E l \in {"clauses", "mclauses"} : NextClauseSilently(l)
    \/ \E symbol \in Optional : LeaveOut(symbol)
    \/ PlainClause
    \/ OrderClause
    \/ WhenClause
    \/ MatchClause
    \/ OtherwiseClause
    \/ DefaultVariantClause

ReadVariant ==
    \/ OtherwiseOpen
    \/ WhenColon
    \/ WhenVariant
    \/ SetWhenVariant
    \/ WhenClose
    \/ VariantClose

ReadSelector ==
    \/ OpenSet
    \/ OpenConstructSet
    \/ AnotherSet
    \/ \E symbol \in SimpleTraitAt : SimpleTrait(symbol)
    \/ \E symbol \in ConstructTraitAt : ConstructTrait(symbol)
    \/ TakeTrait
    \/ SetEnd

ParserNext ==
    \/ BeginParse
    \/ ReadDirective
    \/ ReadClause
    \/ ReadVariant
    \/ ReadSelector
    \/ SyntaxError
    \/ Accept

ParserSpec == ParserInit /\ [][ParserNext]_vars

-----------------------------------------------------------------------------
(***************************************************************************)
(* Properties.                                                             *)
(***************************************************************************)
ParserTypeOK ==
    /\ TypeOK
    /\ phase \in {"idle", "parsing", "accepted", "rejected", "undefined"}
    /\ {curD, parD, result} \subseteq Directive \cup {NULL}
    /\ {curC, parC} \subseteq Clause \cup {NULL}
    /\ storage \subseteq Directive
    /\ made \in Nat /\ before \in Nat /\ parses \in 0 .. MaxParses
    /\ variantOf \in [Clause -> Directive \cup {NULL}]
    /\ traitsOf \in [Clause -> Seq(Directive \cup {NULL})]
    /\ pairedOf \in [Directive -> Directive \cup {NULL}]
    /\ setOpen \in [Clause -> BOOLEAN] /\ misused \in [Clause -> BOOLEAN]

\* README.md, "Use the API": syntax errors, schema violations and invalid AST
\* invariants come back as diagnostics.  So no text may drive the semantic
\* actions into a null pointer or a clause of another class.
EveryTextIsAnswered == phase # "undefined"

\* The directives that the text just accepted consists of.
Text == before + 1 .. made

\* Every directive the text contains hangs where the text has it: the outermost
\* one is the result, a variant hangs on its WHEN, OTHERWISE or DEFAULT clause, a
\* construct trait on its clause, the directive an END names on the END directive.
NestingFaithful ==
    phase = "accepted" =>
        \A d \in Text :
            LET f == writtenIn[d] IN
            IF f.dir = NULL THEN result = d
            ELSE IF f.clause = NULL THEN pairedOf[f.dir] = d
            ELSE variantOf[f.clause] = d \/ d \in Range(traitsOf[f.clause])

\* Every directive of an accepted text has exactly the clauses that the text gives
\* it, in that order; an END directive has those of the directive it names.
ClausesFaithful ==
    phase = "accepted" =>
        \A d \in Text :
            order[d] = IF pairedOf[d] # NULL THEN written[pairedOf[d]]
                       ELSE IF \E e \in Text : pairedOf[e] = d THEN <<>>
                       ELSE written[d]

\* ompparser.yy, at clause_separator_comma: a clause is preceded by a comma in
\* the IR exactly if it is in the text.
SeparatorsFaithful ==
    phase = "accepted" =>
        \A d \in Text : \A c \in Range(written[d]) : (sep[c] = "comma") <=> (c \in commaFirst)

\* The grammar calls the selector builder of each variant clause in the bracket
\* structure the builder demands, so an accepted text leaves no set open and no
\* construction error on any clause.
BuilderNeverMisused ==
    phase = "accepted" =>
        \A d \in Text : \A c \in Range(written[d]) : ~misused[c] /\ ~setOpen[c]

\* A directive has one owner: the storage, the clause or the directive that holds
\* it, or the caller; moving it never leaves a second owner to free it again.
Holders(d) ==
    (IF d \in storage THEN {<<"storage", NULL, 0>>} ELSE {})
    \cup (IF result = d THEN {<<"caller", NULL, 0>>} ELSE {})
    \cup {<<"variant", c, 0>> : c \in {b \in Clause : variantOf[b] = d}}
    \cup {<<"paired", e, 0>> : e \in {f \in Directive : pairedOf[f] = d}}
    \cup UNION {{<<"trait", c, i>> : i \in {j \in DOMAIN traitsOf[c] : traitsOf[c][j] = d}}
                  : c \in Clause}

SoleHolder == \A d \in Directive : \A g, h \in Holders(d) : g = h
=============================================================================
