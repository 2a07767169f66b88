----------------------------- MODULE ClauseStore -----------------------------
(***************************************************************************)
(* The clause containers of OpenMPDirective (OpenMPIR.h, OpenMPIR.cpp).    *)
(*                                                                         *)
(* A directive keeps its clauses three times: clause_storage owns them,    *)
(* clauses indexes them by kind, and clauses_in_original_order lists them  *)
(* in source order.  A clause in turn records its own position, its base   *)
(* language and the separator written before it.  Nothing ties the copies  *)
(* together but the operations below; validateInvariants is the code's own *)
(* audit of them, run on every directive before a parse result is handed   *)
(* out.                                                                    *)
(***************************************************************************)
EXTENDS Integers, Sequences, FiniteSets, Functions

CONSTANTS
    Directive,      \* directives that exist
    Clause,         \* identities of the clauses that can ever be created
    Kind,           \* clause kinds of the general construction path
    OMPC_order,     \* the one kind whose adder places the clause by itself
    BaseLang,       \* base languages, Lang_unknown included
    Lang_unknown

ASSUME KindAssumption == OMPC_order \notin Kind
ASSUME LangAssumption == Lang_unknown \in BaseLang

AllKinds == Kind \cup {OMPC_order}

VARIABLES
    owned,      \* clause_storage: the clauses each directive owns
    index,      \* clauses: per directive and kind, the clauses of that kind
    order,      \* clauses_in_original_order of each directive
    dirLang,    \* lang of each directive
    clauseKind, \* OpenMPClause::kind
    clauseLang, \* base language of each clause
    position,   \* clause_position (the code's -1, between registration and
                \* placement, is never seen between two operations)
    sep,        \* preceding separator of each clause
    comma       \* the parser's clause_separator_comma flag

storeVars == <<owned, index, order, dirLang, clauseKind, clauseLang, position,
               sep, comma>>

Separator == {"space", "comma"}

\* Clauses that some directive owns; the others have not been created yet.
Live == UNION {owned[d] : d \in Directive}

TypeOK ==
    /\ owned \in [Directive -> SUBSET Clause]
    /\ index \in [Directive -> [AllKinds -> Seq(Clause)]]
    /\ order \in [Directive -> Seq(Clause)]
    /\ dirLang \in [Directive -> BaseLang]
    /\ clauseKind \in [Clause -> AllKinds]
    /\ clauseLang \in [Clause -> BaseLang]
    /\ position \in [Clause -> Nat]
    /\ sep \in [Clause -> Separator]
    /\ comma \in BOOLEAN

StoreInit ==
    /\ owned = [d \in Directive |-> {}]
    /\ index = [d \in Directive |-> [k \in AllKinds |-> <<>>]]
    /\ order = [d \in Directive |-> <<>>]
    /\ dirLang \in [Directive -> BaseLang]
    /\ clauseKind = [c \in Clause |-> OMPC_order]
    /\ clauseLang = [c \in Clause |-> Lang_unknown]
    /\ position = [c \in Clause |-> 0]
    /\ sep = [c \in Clause |-> "space"]
    /\ comma = FALSE

-----------------------------------------------------------------------------
(***************************************************************************)
(* registerClause, and the push into the kind index that every adder does  *)
(* right after it.                                                         *)
(***************************************************************************)
RegisterClause(d, k, c) ==
    /\ c \notin Live
    /\ owned' = [owned EXCEPT ![d] = @ \cup {c}]
    /\ clauseKind' = [clauseKind EXCEPT ![c] = k]
    /\ clauseLang' = [clauseLang EXCEPT ![c] = dirLang[d]]
    /\ index' = [index EXCEPT ![d][k] = Append(@, c)]

PlaceLast(d, c) ==
    /\ position' = [position EXCEPT ![c] = Len(order[d])]
    /\ order' = [order EXCEPT ![d] = Append(@, c)]

(***************************************************************************)
(* addOpenMPClauseWithArguments, once its arguments have passed the        *)
(* preflight check (a call that fails the check throws before it touches   *)
(* any container).  The pending separator is consumed here, and the clause *)
(* is placed if its adder has not done it.                                 *)
(***************************************************************************)
TakeSeparator(c) ==
    /\ sep' = [sep EXCEPT ![c] = IF comma THEN "comma" ELSE "space"]
    /\ comma' = FALSE

AddClause(d, k, c) ==
    /\ RegisterClause(d, k, c)
    /\ PlaceLast(d, c)
    /\ TakeSeparator(c)
    /\ UNCHANGED dirLang

(***************************************************************************)
(* OpenMPOrderClause::addOrderClause.  The grammar calls it directly, so   *)
(* the pending separator stays pending and the clause keeps the separator  *)
(* it was constructed with.                                                *)
(***************************************************************************)
AddOrderClause(d, c) ==
    /\ RegisterClause(d, OMPC_order, c)
    /\ PlaceLast(d, c)
    /\ sep' = [sep EXCEPT ![c] = "space"]
    /\ UNCHANGED <<dirLang, comma>>

\* The grammar sets the flag at the ',' between two clauses, and resets it before
\* each text it parses.
SetSeparator(b) ==
    /\ comma' = b
    /\ UNCHANGED <<owned, index, order, dirLang, clauseKind, clauseLang,
                   position, sep>>

\* OpenMPDirective::setBaseLang
SetBaseLang(d, l) ==
    /\ dirLang' = [dirLang EXCEPT ![d] = l]
    /\ clauseLang' = [c \in Clause |-> IF c \in owned[d] THEN l ELSE clauseLang[c]]
    /\ UNCHANGED <<owned, index, order, clauseKind, position, sep, comma>>

(***************************************************************************)
(* OpenMPDirective::adoptClausesFrom: d takes every clause of s.  A call   *)
(* across two known base languages throws before it changes anything.      *)
(***************************************************************************)
Adopts(d, s) ==
    /\ d # s
    /\ \/ dirLang[d] = Lang_unknown
       \/ dirLang[s] = Lang_unknown
       \/ dirLang[d] = dirLang[s]

AdoptedLang(d, s) == IF dirLang[d] = Lang_unknown THEN dirLang[s] ELSE dirLang[d]

\* Mutants: the base of the renumbering is one too low; nothing is renumbered.
PositionFromTooLow(d, s, c) ==
    Len(order[d]) - 2 + CHOOSE i \in DOMAIN order[s] : order[s][i] = c
PositionUnchanged(d, s, c) == position[c]

\* setClausePosition in the renumbering loop over the source's order
AdoptedPosition(d, s, c) ==
    Len(order[d]) - 1 + CHOOSE i \in DOMAIN order[s] : order[s][i] = c

\* Mutant: the adopter's own clauses keep the language they were registered with.
RelabelledAdopted(d, s) == owned[s]

\* The clauses whose base language adoption assigns: setBaseLang has reached the
\* adopter's own, the loop over the storage the adopted ones.
Relabelled(d, s) == owned[d] \cup owned[s]

\* Mutants: the adopted clauses come first; the adopted index replaces the other.
IndexInFront(d, s, k) == index[s][k] \o index[d][k]
IndexReplaced(d, s, k) == index[s][k]

AdoptedIndex(d, s, k) == index[d][k] \o index[s][k]

\* Mutant: a kind the adopter already has is not repeated.
OrderMerged(d, s) ==
    order[d] \o SelectSeq(order[s], LAMBDA c : index[d][clauseKind[c]] = <<>>)

AdoptedOrder(d, s) == order[d] \o order[s]

\* Mutant: the source keeps its storage.
StorageShared(d, s) == [owned EXCEPT ![d] = owned[d] \cup owned[s]]

\* clause_storage of the source is emptied when its clauses have moved.
AdoptedStorage(d, s) == [owned EXCEPT ![d] = owned[d] \cup owned[s], ![s] = {}]

AdoptClauses(d, s) ==
    /\ Adopts(d, s)
    /\ dirLang' = [dirLang EXCEPT ![d] = AdoptedLang(d, s)]
    /\ index' = [index EXCEPT ![d] = [k \in AllKinds |-> AdoptedIndex(d, s, k)],
                              ![s] = [k \in AllKinds |-> <<>>]]
    /\ position' = [c \in Clause |-> IF c \in Range(order[s])
                                     THEN AdoptedPosition(d, s, c)
                                     ELSE position[c]]
    /\ order' = [order EXCEPT ![d] = AdoptedOrder(d, s), ![s] = <<>>]
    /\ clauseLang' = [c \in Clause |-> IF c \in Relabelled(d, s)
                                       THEN AdoptedLang(d, s)
                                       ELSE clauseLang[c]]
    /\ owned' = AdoptedStorage(d, s)
    /\ UNCHANGED <<clauseKind, sep, comma>>

StoreNext ==
    \/ \E d \in Directive, k \in AllKinds, c \in Clause : AddClause(d, k, c)
    \/ \E d \in Directive, c \in Clause : AddOrderClause(d, c)
    \/ \E b \in BOOLEAN : SetSeparator(b)
    \/ \E d \in Directive, l \in BaseLang : SetBaseLang(d, l)
    \/ \E d, s \in Directive : AdoptClauses(d, s)

StoreSpec == StoreInit /\ [][StoreNext]_storeVars

-----------------------------------------------------------------------------
(***************************************************************************)
(* OpenMPDirective::validateInvariants, one operator per error it reports. *)
(* Null entries cannot be expressed here, and construction errors belong   *)
(* to the clause payloads.                                                 *)
(***************************************************************************)
IndexKindMatches(d) ==
    \A k \in AllKinds : \A i \in DOMAIN index[d][k] : clauseKind[index[d][k][i]] = k

IndexOwned(d) ==
    \A k \in AllKinds : \A i \in DOMAIN index[d][k] : index[d][k][i] \in owned[d]

IndexWithoutDuplicate(d) ==
    \A k \in AllKinds : IsInjective(index[d][k])

OrderOwned(d) == \A i \in DOMAIN order[d] : order[d][i] \in owned[d]

OrderWithoutDuplicate(d) == IsInjective(order[d])

PositionMatches(d) == \A i \in DOMAIN order[d] : position[order[d][i]] = i - 1

OrderIndexed(d) ==
    \A i \in DOMAIN order[d] : order[d][i] \in Range(index[d][clauseKind[order[d][i]]])

OwnedOrdered(d) == owned[d] \subseteq Range(order[d])

ValidateInvariants(d) ==
    /\ IndexKindMatches(d)
    /\ IndexOwned(d)
    /\ IndexWithoutDuplicate(d)
    /\ OrderOwned(d)
    /\ OrderWithoutDuplicate(d)
    /\ PositionMatches(d)
    /\ OrderIndexed(d)
    /\ OwnedOrdered(d)

-----------------------------------------------------------------------------
\* What the containers promise: one list of occurrences with its views by kind.
Promise == INSTANCE ClauseList WITH list <- order, kindOf <- clauseKind,
                                    byKind <- index

-----------------------------------------------------------------------------
(***************************************************************************)
(* Properties.                                                             *)
(***************************************************************************)

\* Whatever sequence of additions, adoptions and language changes built a
\* directive, validateInvariants finds nothing to report: the audit that
\* runs before a parse result is returned can only fail on outside tampering.
StoreAlwaysValid == \A d \in Directive : ValidateInvariants(d)

\* A clause is owned by one directive, so releasing a directive (an END
\* directive's pair, a variant, a failed parse) frees each clause once.
SingleOwner ==
    \A d, e \in Directive : d # e => owned[d] \cap owned[e] = {}

\* A kind index lists its clauses in source order.  validateInvariants does not
\* check this, and the structural rules that read findClauses (if, default,
\* defaultmap, reduction, init) rely on it to name the later of two occurrences.
IndexInSourceOrder ==
    \A d \in Directive : \A k \in AllKinds : \A i, j \in DOMAIN index[d][k] :
        i < j => position[index[d][k][i]] < position[index[d][k][j]]

\* Every clause has the base language of the directive that owns it now, also
\* after it was adopted: unparsing and host validation read the clause's copy.
LanguageOfOwner ==
    \A d \in Directive : \A c \in owned[d] : clauseLang[c] = dirLang[d]

\* No step loses a clause, and two clauses of one directive stay together and in
\* the same order, whether or not another directive adopts them.
SourceOrderKept ==
    [][\A d \in Directive : \A i, j \in DOMAIN order[d] : i < j =>
          \E e \in Directive : \E m, n \in DOMAIN order'[e] :
             /\ m < n
             /\ order'[e][m] = order[d][i]
             /\ order'[e][n] = order[d][j]]_storeVars

\* The three containers behave as one list of clause occurrences, to which a
\* clause is appended or a whole other list is moved, and each kind index is
\* at all times that list filtered by kind.
RefinesClauseList == Promise!ListSpec
=============================================================================
