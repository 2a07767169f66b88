# Verification of ompparser

ompparser turns the text of one OpenMP directive (C, C++ or Fortran) into a typed
intermediate representation (IR), checks it, and prints it back. This directory
holds TLA+ models of the parts of it that keep state, the TLC runs that check
them on small instances, and proofs, checked by TLAPS, of what holds for
instances of every size.

## The system

| part | source | state | operations |
|---|---|---|---|
| clause containers | `OpenMPIR.h` (`OpenMPDirective`), `OpenMPIR.cpp:1560-1696, 3161-3962` | three containers of clauses per directive, the clause's own position, language and separator | register, add, adopt, set language, validate |
| semantic actions | `ompparser.yy` | thread-local current and parent directive/clause pointers, `directive_storage`, the separator flag | one action per reduced rule |
| parse driver | `ompparser.yy:7066` (`parseOpenMP`) | sticky user language, detected language | reset, run the parser, hand out or drop |
| context-selector builder | `OpenMPIR.cpp:2095-2656` | the open set and selector of a clause, construction errors | begin/end set, begin/end selector, add construct, validate |
| clause construction | `OpenMPIR.cpp:3161-4415` | none of its own | check the arguments, then build per kind |
| lexer | `omplexer.ll` | start-condition stack, expression buffer, location history, keyword flags | one action per pattern |
| facade | `OpenMPParser.cpp` | thread-local diagnostics | `parseDirective`, `validate`, `unparse`, `toDot`, host hooks |
| tree walks | `OpenMPParser.cpp:80-162, 1050-1077` | active and visited lists | validate every directive once, extension policy |
| structural rules, schema | `OpenMPParser.cpp:386-1048`, `OpenMPSchema.cpp` | none | pure functions of one directive |
| scanners | `OpenMPIR.cpp:315-1525` | none | pure functions of a text |
| unparser, DOT | `OpenMPIRToString.cpp`, `OpenMPIRToDOT.cpp` | none | formatting |

The parts call one another in one direction: the facade resets the thread's
diagnostics and language and calls `parseOpenMP`; Bison calls the lexer for
tokens and runs the semantic actions, which build directives and clauses; the
facade then runs the host's hooks over the tree, audits it, and returns it or
drops it. The library starts no thread, but hosts may call it from several, and
almost all state between the semantic actions is global and thread-local: shared
by nested rules, by one parse and the next, and by a hook that parses again. That sharing
is what makes the code hard to test, and what the models are about:

* **nested rules**: a variant or a construct trait is a directive inside a clause
  of a directive, but the parser has one level of parent pointers;
* **successive parses**: a rejected text stops in the middle of any rule;
* **redundant containers**: positions, kind indexes and source order are copies
  of one fact, kept in step by hand;
* **moving ownership**: directives move from a storage to a clause, to a
  directive or to the caller, and clauses from one directive to another.

What makes each part correct:

* containers: the audit `validateInvariants` can never fail on a directive that the
  operations built; adoption loses, reorders and doubles nothing; a clause speaks
  its owner's language; asking by kind is the same as filtering the source order.
* semantic actions: each directive, clause and separator ends up where the text has
  it; no text reaches a null pointer; one owner per directive.
* selector builder: the grammar's calls form the bracket structure it demands.
* facade: `context_checks_complete`, the diagnostics and the directive agree; a
  re-entrant call or an earlier call leaves no trace.
* tree walks: they end, and every reachable directive is audited.
* clause construction: whatever the preflight lets through is consumed exactly.
* lexer: the position is that of what is read next, whatever was pushed back, and a captured
  operand is the text between its delimiters.
* structural rules and schema: a verdict does not depend on the order of the clauses, an answer is
  membership in the table.
* scanners: what is cut or recognised in a text is what a grammar says, and stands where it is said to.

## Modules

| module | models |
|---|---|
| `ClauseList` | abstract: a directive's clauses are one list; a clause occurs, or a whole list moves to another directive; a kind index has each clause of its kind once, in the order of the list |
| `ClauseStore` | `clause_storage`, `clauses`, `clauses_in_original_order` and the fields of a clause; one operator per member function; the audit, one operator per error it reports |
| `ParserContext` | the semantic actions over `ClauseStore`: the global pointers, `directive_storage`, the holders of directives, the selector builder's set protocol, the driver |
| `DirectiveTree` | the three recursive walks over a directive: host hooks, audit, extension policy |
| `ParseService` | abstract: every call of `parseDirective` is answered from its own request and what its own hooks said |
| `ParseSession` | the facade, call by call, over the variables each thread shares between its calls; implements `ParseService` |
| `VariantSelector` | the selector builder of a variant clause, call by call, in any order, and `validateSelectorInvariants` |
| `NameIdentity` | decoding the name literals of C, C++ and Fortran, and the identity selectors are compared by |
| `ClauseArguments` | `addOpenMPClauseWithArguments`, statement by statement: preflight, construction, registration, and where each can throw |
| `SchemaLookup` | the packed keys of the applicability table, its order, and the search |
| `StructureRules`, `InitModifiers`, `ReductionNames` | `validateOpenMPStructure`, and two of its judgements: lists of INIT modifiers, qualified reduction identifiers |
| `AllocateClause`, `InductionClause`, `ApplyNesting`, `MapItems` | payloads that several calls fill, or that are taken out of one text |
| `OperandLexer` | `EXPR_STATE` of the lexer with the start condition of FIRSTPRIVATE: operands, look-ahead, pushback, positions |
| `Literals`, `TopLevel`, `Iterators`, `ArraySections`, `Fragments` | the scanners over expression text: literals, lists and dist_data suffixes, iterators and mappers, sections, source ranges |
| `LiteralTexts`, `TopLevelTexts`, `IteratorTexts`, `FragmentTexts` | the texts these are checked on, and what is expected of them |
| `MC...` | values of the constants for TLC; `MCScanners` and `MCClauses` hold many independent instances side by side, `MCRuleScope` the directives and clauses of the structural rules |
| `ParserContext_proofs` | theorems on `ClauseStore`, and on the parser over it |
| `DirectiveTree_proofs`, `ParseSession_proofs`, `VariantSelector_proofs`, `ClauseArguments_proofs`, `OperandLexer_proofs` | theorems on one module |
| `ClauseParts_proofs` | invariants of the other parts that `MCClauses` holds: schema lookup, structural rules, INIT, ALLOCATE, INDUCTION, APPLY |
| `MCClauses_proofs` | theorems on all parts that `MCClauses` holds |

### ClauseStore

`owned`, `index` and `order` are the three containers; `position`, `clauseLang`,
`clauseKind` and `sep` are the clause's own fields; `comma` is the parser's
`clause_separator_comma`, which the container code reads and clears. `AddClause`
is the whole of `addOpenMPClauseWithArguments`: register, push into the kind
index, take the separator, place. `AddOrderClause` is the one construction path
of the grammar that goes around it. `AdoptClauses` is the whole of
`adoptClausesFrom`; its pieces are operators of their own so that a property can
name what it depends on. A call whose arguments fail the preflight check throws
before it changes anything and is no step. The data of a clause is abstracted to
its identity, kind, language, position and separator. Adding a clause never
merges it into another; that is also what the abstract list says.

### ParserContext

`todo` is the parser's stack of grammar symbols still to be matched. A step
reduces (or expands) its head and does what the semantic action of that rule
does, so a behaviour is the parse of one text after another, and every text of
bounded size is a behaviour. Symbols stand for groups of rules that treat the
pointers alike: `PlainDirective` for the directives whose clauses contain no
directive, `PlainClause` for the clauses built by `addClauseAt`. A syntax error
may occur at every point. `Undefined` is the step of an action that would
dereference null or use a clause as an object of another class; nothing happens
after it.

The properties compare the IR with the text. What the text says is kept in ghost
variables that no guard of a semantic action reads: the directive and clause
being written at each point (`scope`), where each directive is written
(`writtenIn`), the clauses of each (`written`), and the commas.

The constant `Forms` selects forms of text that the grammar accepts and that the
pointers do not serve:

* `nested`: a variant is itself a metadirective or a declare variant, or END names a
  begin metadirective that has clauses;
* `misplaced`: a trait stands in a selector set of another kind;
* `order-comma`: a comma stands before an ORDER clause;
* `silent-comma`: a comma stands in a clause list whose rule does not record commas.

### DirectiveTree

`nested`, `paired` and `role` are the graph: what the clauses of a directive hold
(construct traits and variants), `paired_directive` and `paired_directive_role`.
The recursion of the C++ functions is `stack`; an action is one visit of a nested
directive (it is entered, or skipped for the reason the code has) or one return.
`audited`, `validated` and `visited` are in the order of the code's vectors, `Active`
is the audit's vector of that name. The audit and the policy walk start on any
graph, cyclic ones included, because `setVariantDirective` and `setPairedDirective`
take raw pointers; the hooks start only when `Owned` holds, because only a directive
fresh from the parser meets them. What the audit says of a single directive is not
part of this module. The properties compare the walks with `Reachable` and `Cyclic`,
which are defined from the graph without a walk.

### ParseSession

A frame is a call of `parseDirective` that has not returned, and `stage` is where it
is. A step is what the call does between two uses of the variables it shares:
`user_set_lang`, `CurrentDiagnostics`, `directive_storage`, and `residue`, which says
whether the parser or the lexer holds scratch state of a text that has not been
reset. `Slot(t)` is the copy of these that thread `t` uses; `thread_local` makes it
the thread's own. A parse that meets a residue can end either way. Hooks call
`parseDirective` again, return reports, or throw; `yyparse` throws when a constructor
does, or when memory runs out, and then nothing is cleaned up until the next call.

The other modules appear as constants: `Parsable` stands for what the grammar makes
of a text in a language (`ParserContext`), `Sound` for the audit and the structural
rules (`ClauseStore`, `DirectiveTree`), `Extended` for the extension policy. The code
`SyntaxError` stands for every report of the lexer and the grammar, and a directive
is represented by its root.

### VariantSelector and NameIdentity

`ParserContext` models which calls the grammar makes; `VariantSelector` models what each
call does when a host makes them in any order. `active_trait_set` and
`active_trait_selector` are the optional indexes of the code, `misused` its construction
errors. A call out of place leaves the tree alone and records an error - but for a
construct trait, which is appended whatever is open and records nothing, so that only the
audit can tell. The ghosts `sane`, `open` and `spoken` follow the calls by the bracket
grammar, without an index. The audit is one operator per rule. Spellings are model
values with an identity (`IdentityOf`), so that a literal and an identifier can name the
same thing; that the identity is right is what `NameIdentity` is about: it decodes
literals byte by byte, with the limits of numeric escapes, at code points.

### ClauseArguments and SchemaLookup

`ClauseStore` takes the creation of a clause for one step. `ClauseArguments` shows why it
may: `pc` goes through the call, the first switch (`preflight`), the second switch with
its integers and texts, registration, index, separator and position; each step may throw
and keeps what was done. Kinds are grouped by the arguments they take, as the two
switches group them, each switch for itself. `SchemaLookup` takes the table of allowed
pairs as a parameter, because it is generated data: every table that passes the
compile-time order assertion is tried, and the search is a step per halving.

### StructureRules, InitModifiers, ReductionNames

A directive is a kind, a language, a pair and a payload; a clause is a record of its kind,
its language, whether its list has items, and the one detail its rules read. `Errors` is the
set of the names of the rules that the code reports as broken. What the code computes with
loops and counters is kept so (`ExclusionErrors` counts, `IfErrors` and `CategoriesSeen` go through the
clauses with what they have seen), and the properties
compare it with rules on single clauses and on pairs. `MCRuleScope` chooses, for each
kind of directive, the clauses between which rules exist, with details on both sides of
each rule.

### Payloads

`AllocateClause` and `InductionClause` are driven by every short sequence of setter calls,
those of the grammar and others. ALLOCATE has an old and a new syntax in one object;
`OrderMatchesPayload` relates the order list to the fields. INDUCTION keeps items in
containers by class and their order as indexes. `ApplyNesting` is the part of
the grammar that reads `apply(label: name(args) apply(...) ...)`: one clause under
construction, and two stacks on which a nested APPLY saves it and its separator; texts are
rejected at every point, and another text follows. Any parameter may begin with a label, as in
the grammar, while the clause keeps the last one. `LabelLeads` says of a text that each label is in the
first parameter of its clause: such a text is printed as it was written (`LedPrintedAsWritten`),
of any other, `OnlyLabelsMove` says that it is printed with nothing but labels moved or lost
(see Observations). `MapItems` cuts `dist_data(...)` from an
item, reads its policies, and places them.

### Scanners

Texts are sequences of the characters a scanner can tell apart; a keyword it looks for is
one character. `Literals` holds the three functions of the code that step over quoted
text, which were written separately; the other modules use the one their code uses.
`Iterators.DelimiterState`, `TopLevel` and `ArraySections` are
transition functions folded over the text. What is expected is stated without a scanner:
by generating a text together with its pieces and their places (`IteratorTexts`,
`MapItems`), by nesting of brackets (`TopLevelTexts`), by a grammar (`ArraySections`,
`ReductionNames`), or by recounting the source (`FragmentTexts`).

### OperandLexer

A text is typed while it is read, so one behaviour stands for all texts that begin alike.
`rest` is what flex reads next, with what was pushed back; `location` is
`lexer_location_state` with its history; `states` the start-condition stack. Each rule of
`FIRSTPRIVATE_STATE` and each case of the switch of `EXPR_STATE` is an action. An operand
is returned as an interval of the input between two offsets that the actions keep, and
`do` stands for all words that may be a modifier: whether it is one is decided by reading
up to `MaxPeek` characters ahead and pushing them back one by one. The other start
conditions enter `EXPR_STATE` by the same two functions and differ in their keywords.

## Runs

| run | instance | shows |
|---|---|---|
| `store` | 3 directives, 3 clauses, one general kind and `order`, 3 languages | containers stay consistent in every order of additions, adoptions (also chained), and language changes; refinement of `ClauseList` |
| `parser` | 4 directives, 3 clauses, 2 parses, no special form | nesting, clause lists, separators and builder calls follow the text; nothing leaks from a rejected or accepted parse into the next |
| `parser_any_text` | 3 directives, 3 clauses, 2 parses, all forms | every directive keeps one owner even in the texts that misuse the pointers |
| `parser_nested`, `parser_misplaced` | one parse, one form | null dereference (findings) |
| `parser_order_comma`, `parser_silent_comma` | one parse, one form | a comma recorded on the wrong clause, or on none (findings) |
| `tree` | every graph on 3 directives with up to two attachments per clause list, pairs of both roles | the walks end, meet exactly the reachable directives, audit each once, and report a cycle exactly if there is one |
| `nested_calls` | 1 thread, calls nested 3 deep, 9 requests | a call started by a hook leaves no trace in the call it interrupts, nor an abandoned one in the next; refinement of `ParseService` |
| `threads` | 2 threads, calls nested 2 deep, 3 requests | no interleaving of calls shows one thread's language, report or directive to another |
| `scanners` | ten scanners, each on every text up to a length, or on every generated text | literals end where all three scanners say, lists and suffixes are cut without loss, names are read back, pieces are placed where they stand, sections and qualified names are told as a grammar tells them |
| `clauses` | eleven instances: selectors (three alphabets), clause calls, schema tables, structural rules, INIT, ALLOCATE, INDUCTION, APPLY, operands | calls out of order are caught, a throwing call changes nothing, answers and verdicts are those of independent rules, payloads print as built, what stands in brackets is kept as it was written, but for labels of APPLY that do not lead, lists are cut where the IR's own splitter cuts them, nothing said is taken back |

The last two runs hold independent instances in one state graph: the variable `scanner` or
`part` names the instance a behaviour belongs to, and each property says for each instance
what its module promises. `CutsAreExact`, for instance, is `SplitIsExact` and `NestedTextsSplit`
on lists and `SuffixIsExact` on MAP items.

Bounds. Adoption involves two directives; three let a clause be adopted twice and
let an uninvolved directive be disturbed, and with three clauses an adopter and a
source both have clauses of one kind and of two kinds. In the parser, four
directives hold a metadirective with a construct trait, a variant and a second
variant, or an END directive with its pair and room for a second text; three
clauses hold two clauses with selectors and a clause inside a variant; two parses
are enough for one to leave something behind and another to find it. On three
directives there are cycles of every shape that the audit treats apart: a directive
attached to itself, a cycle of two and of three, a cycle off the path from the root, and
a directive shared by two others with and without a cycle behind it. With depth
three, one call is at once started by a hook and interrupted by a hook. Its nine
requests cover null input, both language mismatches, a text that one language accepts
and another refuses (so that a wrong language shows in the answer), texts with
zero, one and two host fragments, and directives that the audit or the policy refuses.

The scanners read five or six characters from an alphabet of four to eight, behind starts that
would be reached late: enough for a raw string with a delimiter and a false terminator, for
two kinds of brackets that cross, and for an escape at its limit. Selectors have at most two
sets of two selectors with two properties, so that each rule that compares two things has
two. Directives of the structural rules carry three clauses, and the rules of the code compare two at a time; the third shows that order and neighbours do not matter. A schema table has
up to four pairs over three directives and three clauses, so that the search takes both halves twice. Call sequences on payloads are
four long; the text of an APPLY has up to ten tokens, so that one stands inside
another between two transformations, and a second text follows a rejection. Operand lists go on for four characters behind six starts
that have opened each kind of bracket, a conditional, a raw string, or a modifier list.

Deadlock is
not checked for the parser because a behaviour ends when the bounded texts are
used up, nor for the walks, which are over when the policy walk is; the containers
and the facade can always step.

Identities of directives and clauses are numbered in order of creation in the
parser runs, and interchangeable (symmetry) in the store run.

Liveness and fairness. `WalksEnd` says that every walk returns, on every graph. It
assumes weak fairness of `Step`, the visits and returns of a walk that has been
called: the walk is sequential code that waits for nobody. No fairness is assumed of
the calls that start a walk. Of the facade no liveness is claimed: a host's hook need
not return.

## Proofs

`ParserContext_proofs` proves of the clause containers, for all sets of directives, clauses, kinds and
languages, from `KindAssumption` and `LangAssumption` alone:

* `StoreTypeCorrect`: `StoreSpec => []TypeOK`, one step per operation; the only
  operation that needs thought is adoption, whose new positions are natural
  numbers because each clause of the source's order has an index there.
* `StoreInvariant`: the inductive invariant is the audit of every directive together with
  `SingleOwner`, `IndexInSourceOrder` and `LanguageOfOwner`. The audit alone is not
  inductive. `SingleOwner` is needed so that a step on one directive leaves the
  audit of the others alone; `OwnedOrdered` so that adoption, which walks the
  source's order, renumbers every clause it moves; positions below the length of
  the order so that appended blocks do not collide.
* From it `BuiltDirectivesAreValid`, `ClausesHaveOneOwner`, `IndexFollowsSource`,
  `ClausesSpeakTheirOwnersLanguage`, and `ClausesStayInOrder` (an action property).
* `ContainersAreOneList`: `StoreSpec => RefinesClauseList`. Registering a clause, by either path,
  maps to `Occur`, an adoption to `Move`, a change of language to a stutter. That the index of each
  kind is what `ClauseList` demands of it follows from the invariant (`IndexesFilterOrder`).

It proves of the parser, for every set of directives, every number of parses and
every set of forms:

* `ParserTypeCorrect`: the type invariant, by groups of actions.
* `ParserUsesStore`: `ParserSpec => StoreSpec`. Every semantic action maps to one operation of
  the containers or to a stutter, so the theorems above hold of the parser;
  `ParsedDirectivesAreValid` states the most important one.
* `DirectivesHaveOneHolder`: a directive is never owned twice. The invariant adds that a directive
  not yet made has no holder; each action either gives a new directive to the
  storage or moves one from the storage to one new holder (`MoveKeepsOwnership`).
* `ParsedClausesAreOneList`: so the parser implements `ClauseList` too.

Five more theorems relate the IR to the text, for texts of any length and depth and any number of
directives and clauses. They assume `WellPlaced`: the texts have neither the form `nested` nor
`misplaced`. `parser_nested` and `parser_misplaced` show that each of the two breaks
what is proved, so the hypothesis is the line between what the pointers serve and what they do not.

* `EveryTextAnswered`: no action meets a null pointer or a clause of another class. The invariant has
  to describe the stack `todo`. `StackOK` says of each two neighbours which symbol may stand on which;
  each action replaces the head by symbols that may stand on what was below, so the rest of the
  stack need not be looked at. `ContextInv` then says, for the symbol at the head, how many directives
  are open (`ScopeOK`), which of them the parent pair names (`PairOK`), and whether a clause
  is in hand (`ClauseInHand`). Every other proof about texts rests on it.
* `ClausesAreFaithful`: the clauses of a directive are those the text gives it. `RecordInv` ties the ghosts
  to what has been made, `ClausesInv` the containers to the ghosts; an END directive has taken over
  the clauses of the one it names, and that one, being named, is written to no more.
* `BuilderIsUsedInBrackets`: `BuilderInv` says which clauses have an open set, by the symbols that are
  still on the stack.
* `NestingIsFaithful`: every directive hangs where the text has it (`NestingInv`).
* `SeparatorsAreFaithful`: assumes `WellSeparated` besides, the absence of the forms `order-comma` and
  `silent-comma`, which `parser_order_comma` and `parser_silent_comma` show to break it. The
  invariant is that the flag is set exactly while the text has a comma that no clause has taken.

`DirectiveTree_proofs` proves, for every set of directives and every graph on it:

* `WalksReachEverything`: an ended walk has met exactly `Reachable`. The invariant `TreeInv`
  says of every walk that what it has met is reachable, and that the children of a
  directive it has met have been met too, except those that the directive's frame on the stack
  has yet to come to (`MetSound`). For the hooks, which have no list of visited
  directives, that each is met once follows from ownership: a directive about to be
  visited has one holder, whose frame is the innermost (`HooksSound`).
* `EachDirectiveAuditedOnce`: what has been audited is either active or validated
  (`AuditSound`), and the audit enters neither.
* `CyclesAreReported`: a reported directive lies on a cycle, because the stack is a path
  (`StackLinked`); and if none was reported, `validated` is a post-order, in which every
  directive comes after all it holds (`PostOrder`), so there is no cycle.
* `RecursionIsBounded`: the frames are of distinct directives (`StackDistinct`). It is the one theorem that
  needs the set of directives to be finite.

`ParseSession_proofs` proves, for every number of threads, every depth and every set of
requests, from the assumptions on constants that the module names:

* `SessionInvariant`: `SessionInv` describes each frame by its stage (what its diagnostics,
  its directive and its count of fragments can be), says that only frames in a hook have
  a call above them, that a thread's shared variables are those its innermost call expects at
  its stage (`SlotsServeTop`), and that a thread's storage holds only directives
  of its own. The last two are the reason a hook can parse again: by the time a hook
  runs, its call has taken from the shared variables all it needs.
* From it `SessionTypeCorrect`, `DirectiveHasOneOwner`, `CompleteFlagIsEarned`.
* `EveryCallAnsweredAlone`: `Spec => AnswersItsOwnCall`, the refinement of `ParseService`. `Call`,
  `Return` and the two throws map to the abstract `Call`, `Reply` and `Abandon`, every
  other step to a stutter.

`VariantSelector_proofs` proves, for every set of spellings, enumerators, scores and modes and all bounds,
that calls in any order keep `SelectorInv`: the type, `Cursors` (an index that is there is in range, the set
is the last, and what comes after an open selector are construct traits), `GhostsMatch` (calls by the
grammar have made the tree they say), and `Marked` (after a call out of place there is a construction error, or a
selector in the tree that the audit refuses and that no later call repairs).

* `BuilderFollowsGrammar`: from `Cursors` and `GhostsMatch`. `AcceptedSelectorsAreSane`: from `Marked`.
* `AcceptedSelectorsSayOnce`, `VerdictByName`: of the audit alone, on any tree. The second compares the tree with
  itself after every enumerator was replaced by its name.
* `ClosedSetsStayFrozen`: an action property; no call changes a set that is closed or forgets an error.

`ArgumentsAssumption` gives constants their types, `IdentityAssumption` gives every spelling an identity,
`NamesAssumption` says that the name of an enumerator is its own identity (in the code it is: names are plain lower-case
words), and `NullAssumption` that a null pointer is nothing else.

`ClauseArguments_proofs` proves, for lists of arguments of any length, `CallsAreAtomic` and
`CallsMakeWhatIsCast`. The core of `CallInv` is `Matches`: past the first switch, the list is exactly as long as
the second switch will take, and of its classes. The two switches group the kinds
differently, so that they agree is a lemma, by groups.

`OperandLexer_proofs` proves `LexerKeeps`, for any set of characters, any texts to start from, any
characters to go on with and any bounds, from `LexerAssumption` alone (the texts are made of the
characters, and the mark of the end is none of them). Its invariant, `FullInv`, is about three things.

* The place. `PlaceInv` says that `location`, with its history, is that of an offset into the text (`LocIn`, which counts
  line ends and does not scan), and that `rest` is what stands behind it. A rule that reads goes on by
  one or two characters (`Goes`), one that takes a delimiter back stays (`Stays`); both keep it (`PlaceKept`). The
  look-ahead is a loop that reads as many characters as it needs and another that pushes them
  back; that it ends where it began is shown by least counterexample, as for the loops below (`PeekIs`).
* The operand. `StepIs` sorts the rules by what they do to the list: white is read, a token is returned, an operand
  begins or grows, is returned, or the list is over. `BufferInv` says what is buffered at each point, and
  that a kept offset lies behind the last token; `TokensOrdered` and `AllKept` that tokens do not overlap and leave out
  nothing but white. That no offset is kept while something is buffered is possible only behind a comma or
  a colon (`Unanchored`), which gives both the exception in `TokensPartition`, a parenthesis that closes the
  list there, and `AbortedUnanchored`.
* Modifiers. `ModInv`: a returned modifier leads to a colon, and still does when the text grows (`LeadsOn`). That it
  does when it is returned is what the look-ahead has read (`AheadLeads`).

`MCClauses_proofs` carries these to the composition that the run checks, and `ClauseParts_proofs` adds what the remaining
parts promise, for all values of the constants of `MCClauses`. `PartsInv` says for each part that its own invariant holds
while the behaviour belongs to it. The lemmas of the three modules above enter as instances; one for each
(`...Alike`) says that the instance speaks of the same values. The selectors are three instances with fixed alphabets and the
lexer one with fixed texts to start from, of which `VariantSelector_proofs` and `OperandLexer_proofs` have the
general statements.

* `SelectorsAreFaithful`, `VerdictsAreByMeaning`, `EveryCallIsAtomic`.
* `AnswersAreMembership`: for any number of directives and clauses and any table in the order the
  compile-time assertion demands. The assertion compares neighbours; that any two keys are then in order is shown
  by taking a least counterexample. A packed key determines its pair because the clause stays below the
  multiplier, and the search keeps the key it looks for between the ends of its range, if it is in the table at all.
* `VerdictsByRule`: of a directive with any number of clauses, of the kinds and details that
  `MCRuleScope` tries. The loops of the code are recursive functions; that they are
  defined and that each turn passes on what it should is shown by least counterexample
  (`LoopEnds`, `PassedOn`), for a list at hand and so without induction over data. What the loops and counters report is then
  restated on single clauses and pairs (`IfByPairs`, `CategoryErrorsByPairs`, `ExclusionByPairs`; counts are of
  places, `CountMeans`). The rest follows: a rule about two clauses does not ask for their order, and errors of a part
  are errors of the whole. Likewise for lists of INIT modifiers of any length (`ModifiersByRole`).
* `PayloadsAreFaithful`: however many setters are called. `AllocateInv` says that the order of an ALLOCATE clause lists each
  modifier that is set, once, and that a clause in the new syntax without an allocator has the
  unspecified one. `InductionInv` says that each entry of the order refers to an element of its
  own, and that what a visitor is shown at an entry is what was given there.
* `NestedTextsAreKept`: of operand lists by `LexerKeeps`. That a text is printed as it was written is claimed
  only where its labels lead; that the stacks hold what is open is claimed of every text. Of APPLY clauses, nested to any depth and in any number of
  texts: `ApplyInv` says that the clauses that are open form a chain from the outermost to the current one,
  which the two stacks hold without its last (`OpenAre`); that a clause owns only younger ones that are closed
  (`OwnedAre`), so that what is printed of a clause does not change when another is open; and that the tokens read
  so far are what is printed of each open clause up to the one inside it, one behind the other
  (`TextsAre`, as long as the labels lead: a late one changes what is printed of tokens read before it).
  `LedBefore` and `LateLabel` say that a text whose labels lead was read through texts whose labels lead, and that a label after
  a comma ends this for good. The restriction is needed: TLC refutes `PrintedAsWritten` on `apply(reverse, l: reverse)`.
  A closing parenthesis hangs the last piece into the one before. The recursion that prints a
  tree is given by the texts of its nodes, which the invariant names, and is unfolded once per step.
* `NothingIsTakenBack`: an action property, `TurnsAreKept` for each part.

The invariants were checked by TLC before they were proved, those of the parser on the instance of
`parser`, those of APPLY and of the lexer on their parts of `clauses`.

Only model-checked:

* `WalksEnd`, a liveness property.
* `ScannersAgree`, `CutsAreExact`, `NamesReadBack`, `PiecesLocated`, `KindsRecognised`: the scanners are recursive
  functions of a text or folds over it, and the grammars they are compared with are too. What they
  compute for every text needs induction over the text.
* `PiecesInPlace`: of operands it compares the lexer with `splitTopLevelCommaSeparated`, two scanners that count
  brackets and skip literals in ways of their own, the second a fold over the text; of the APPLY texts that
  `NestedTextsAreKept` leaves aside it says that nothing but labels moves.
* The findings, which are counterexamples.

## Plan

1. `ClauseStore`, `ClauseList` - done; invariants and refinement proved.
2. `ParserContext` - done, proved; the forms excluded from the theorems on texts are the findings.
3. `ParseService`, `ParseSession` - done, proved.
4. `DirectiveTree` - done, proved except for termination.
5. `VariantSelector` - done, proved. `NameIdentity` decodes texts and stays with TLC.
6. `ClauseArguments`, `SchemaLookup` - done, proved.
7. `StructureRules`, `InitModifiers`, `AllocateClause`, `InductionClause` - done, proved.
8. `ApplyNesting`, `OperandLexer` - done, proved. `PiecesInPlace`, for the agreement of two scanners and for late labels, stays with TLC.
9. Scanners - done, model-checked.

## Observations

What the models showed of texts and calls at the edge, besides the findings:

* An operand after a comma that begins with `::` or a tab makes the process abort:
  `shared(a, ::b)`. The rule for `::` (`omplexer.ll:2338`) asks
  `start_expression_at_current_token_if_needed` with a colon, which it declines, so no offset is
  kept and `store_lexeme` (`:332`) aborts; so does an operand that begins with `]` or `}`.
  `AbortedUnanchored` says that there is no other way to get there.
* An APPLY clause with a label after its first parameter is not printed as it was written. The grammar takes a label
  in every parameter (`ompparser.yy:2232-2243`), `setLabel` (`OpenMPIR.cpp:1527`) overwrites the one there was, and
  `toString` (`OpenMPIRToString.cpp:1670`) prints it before the first transformation. So
  `apply(unrollfull, LoopLabel: reverse)`, which `tests/test_parser_api.cpp:2483` requires to be accepted, comes out as
  `apply(LoopLabel: unroll full, reverse)`, and of `apply(a: reverse, b: nothing)` the label `a` is lost, although
  the repository's `README.md:3` calls the representation source-faithful. `Label` takes such texts; `LedPrintedAsWritten` excludes
  them by name, and `OnlyLabelsMove` says what remains true of them.
* A bracket inside a literal keeps a comma from dividing the list, because the brackets of the
  buffered operand are counted without regard to quotes (`omplexer.ll:2376-2387`), although the
  comment at `:2346` says that delimiters inside a literal never terminate an operand; `CutsAgree` excludes
  such literals. A closing brace that closes all braces ends the operand before it.
* `OpenMPAllocateClause::setAlignModifier` refuses an alignment next to a predefined allocator of the old
  syntax, but not next to a user-defined one (`OpenMPIR.cpp:1828-1830`; the message at `:1834` speaks of both).
  The clause is accepted and printed with the alignment alone. Only a host program can make that
  call; `WrittenPrintedAsItIs` speaks of the clauses the grammar builds.
* An IF, SCHEDULE or ALLOCATOR clause given an empty text keeps the enumerator `user` without a text,
  and no rule objects.
* An iterator range with `==` after a comma inside `<...>` and C++ digit separators are refused; parentheses of
  a dist_data policy are counted without regard to quotes, so `block(')')` is refused.
* `a dist_data([)(])`: the backward scan takes the suffix, the forward scan refuses its argument, and the policy is unknown.
* An empty text given as the step of an INDUCTION clause does not count as one: after a second step, two
  entries of the order refer to the second.
* A text rejected inside a nested APPLY leaks the inner clause, which the rule made with `new` and nothing owns
  yet (`ompparser.yy:2337`).

## Not modelled

The form of an APPLY parameter with a label and an argument in parentheses of their own
(`ompparser.yy:2244-2257`): no text reaches it, because `EXPR_STATE` (`omplexer.ll:2353`) takes the parentheses
of an expression into its token, so that `grid(1)` is one label and no expression is followed by `(`.

The rules that fill the payload of a single clause by setters that only store a value, with
their scratch variables; the texts of diagnostics; the keyword patterns of the lexer and the start conditions
other than that of FIRSTPRIVATE; formatting in the unparser, but for ALLOCATE and APPLY, and the DOT
renderer; the generated kind tables and the contents of the schema tables; the WebAssembly binding and
the web page, which wrap the facade; the branch of `parseOpenMP` that detects the language
from the text: the function is internal (`OpenMPParserInternal.h`), its only caller is
`parseDirective`, and that sets a language before every call; `unparse` and `toDot`, which read a directive and change nothing.
