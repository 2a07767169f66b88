------------------------------ MODULE ClauseList ------------------------------
(***************************************************************************)
(* What a directive promises about its clauses, whatever containers it     *)
(* uses: the clause occurrences form one list in source order, an          *)
(* occurrence is never dropped or merged into another, and asking for the  *)
(* clauses of a kind answers that list filtered by kind.                   *)
(***************************************************************************)
EXTENDS Naturals, Sequences, Functions

CONSTANTS Directive, Clause, AllKinds

VARIABLES
    list,   \* the clause occurrences of each directive
    kindOf, \* the kind of each occurrence
    byKind  \* what each directive answers for each kind

listVars == <<list, kindOf, byKind>>

\* The answer a is the list l filtered by a set of clauses: it has those of l
\* that are in the set, in the order of l.  A clause occurs in l once, so that
\* it occurs in a once and there is one such answer.
IsFiltered(a, l, chosen) ==
    /\ a \in Seq(Clause)
    /\ Range(a) = Range(l) \cap chosen
    /\ \A i, j \in DOMAIN a : i < j =>
          \E m, n \in DOMAIN l : m < n /\ l[m] = a[i] /\ l[n] = a[j]

AnswersByKind ==
    /\ DOMAIN byKind = Directive
    /\ \A d \in Directive :
          /\ DOMAIN byKind[d] = AllKinds
          /\ \A k \in AllKinds :
                IsFiltered(byKind[d][k], list[d], {c \in Clause : kindOf[c] = k})

Listed == UNION {Range(list[d]) : d \in Directive}

ListInit ==
    /\ list = [d \in Directive |-> <<>>]
    /\ kindOf \in [Clause -> AllKinds]
    /\ AnswersByKind

Occur(d, k, c) ==
    /\ c \notin Listed
    /\ list' = [list EXCEPT ![d] = Append(@, c)]
    /\ kindOf' = [kindOf EXCEPT ![c] = k]

Move(d, s) ==
    /\ d # s
    /\ list' = [list EXCEPT ![d] = list[d] \o list[s], ![s] = <<>>]
    /\ kindOf' = kindOf

ListNext ==
    /\ \/ \E d \in Directive, k \in AllKinds, c \in Clause : Occur(d, k, c)
       \/ \E d, s \in Directive : Move(d, s)
    /\ AnswersByKind'

ListSpec == ListInit /\ [][ListNext]_listVars
=============================================================================
