----------------------------- MODULE ParseService -----------------------------
(***************************************************************************)
(* What parseDirective promises: every call is answered from its own text  *)
(* and options, and from what its own host hooks said, whatever else runs: *)
(* earlier calls on the thread, calls that its hooks make in the meantime, *)
(* and calls on other threads.                                             *)
(***************************************************************************)
EXTENDS Naturals, Sequences, SequencesExt

CONSTANTS
    Thread, Request, NULL,
    Fortran,    \* the base language whose texts carry a Fortran sentinel
    Marked,     \* the texts that start with one
    Parsable,   \* texts and languages that the grammar accepts together
    Sound,      \* texts whose directives pass the audit and the rules
    Extended,   \* texts that use a registered extension
    HostReport  \* what hooks may report

VARIABLES
    pending,    \* per thread, the requests not yet answered, innermost last
    answer      \* per thread, the answer to the last call, until the next

vars == <<pending, answer>>

Error(D) == D \ {"HostWarning"} # {}

\* Why a request gets no directive from the parser, if it gets none.
Refusal(r) ==
    IF r.text = NULL THEN {"NullInput"}
    ELSE IF ~(r.text \in Marked <=> r.lang = Fortran) THEN {"LanguageMismatch"}
    ELSE IF <<r.text, r.lang>> \notin Parsable THEN {"SyntaxError"}
    ELSE {}

\* What is wrong with the directive of a text the parser accepts.
Faults(r) ==
    (IF r.text \in Sound THEN {} ELSE {"InvalidAst"}) \cup
    (IF r.text \in Extended /\ ~r.allow THEN {"UnsupportedExtension"} ELSE {})

Answers(r) ==
    IF Refusal(r) # {}
    THEN {[diags |-> Refusal(r), lang |-> NULL, complete |-> FALSE]}
    ELSE {[diags |-> D \cup Faults(r),
           lang |-> IF Error(D \cup Faults(r)) THEN NULL ELSE r.lang,
           complete |-> r.hooks] : D \in IF r.hooks THEN SUBSET HostReport ELSE {{}}}

Init ==
    /\ pending = [t \in Thread |-> <<>>]
    /\ answer = [t \in Thread |-> NULL]

\* A call of the thread's own, or of a hook that serves its innermost request.
Call(t, r) ==
    /\ \/ pending[t] = <<>>
       \/ Last(pending[t]).hooks /\ Refusal(Last(pending[t])) = {}
    /\ pending' = [pending EXCEPT ![t] = Append(@, r)]
    /\ answer' = [answer EXCEPT ![t] = NULL]

Reply(t) ==
    /\ pending[t] # <<>>
    /\ \E a \in Answers(Last(pending[t])) : answer' = [answer EXCEPT ![t] = a]
    /\ pending' = [pending EXCEPT ![t] = Front(@)]

\* The call is left by an exception.
Abandon(t) ==
    /\ pending[t] # <<>>
    /\ pending' = [pending EXCEPT ![t] = Front(@)]
    /\ UNCHANGED answer

Next == \E t \in Thread : Reply(t) \/ Abandon(t) \/ \E r \in Request : Call(t, r)

Spec == Init /\ [][Next]_vars
==============================================================================
