------------------------ MODULE ClauseArguments_proofs ------------------------
(***************************************************************************)
(* Proofs about ClauseArguments, for lists of arguments of every length:   *)
(* the two switches of addOpenMPClauseWithArguments, which were written    *)
(* apart, agree, so that a call that throws has changed nothing.           *)
(***************************************************************************)
EXTENDS ClauseArguments, TLAPS

-----------------------------------------------------------------------------
(* The two switches. *)

NoArgument == Bare \cup BareByHelper
\* Kinds with cases of their own.
Special == {"default", "depend", "defaultmap", "map", "requires"}

\* No kind is in two groups.
LEMMA GroupsDisjoint ==
    /\ NoArgument \cap (OneInteger \cup Named \cup Special) = {}
    /\ OneInteger \cap (Named \cup Special) = {}
    /\ Named \cap Special = {}
    /\ Kinds = NoArgument \cup OneInteger \cup Named \cup Special
<1>1. \A k \in OneInteger : k \notin NoArgument /\ k \notin Named /\ k \notin Special
    BY DEF NoArgument, Bare, BareByHelper, OneInteger, Named, Special
<1>2. \A k \in Named : k \notin NoArgument /\ k \notin Special
    BY DEF NoArgument, Bare, BareByHelper, Named, Special
<1>3. \A k \in Special : k \notin NoArgument
    BY DEF NoArgument, Bare, BareByHelper, Special
<1>4. Kinds = NoArgument \cup OneInteger \cup Named \cup Special
    BY DEF Kinds, NoArgument, Special
<1> QED
    BY <1>1, <1>2, <1>3, <1>4

\* What the second switch takes of a kind, by its group.
LEMMA TakenByGroup ==
    ASSUME NEW k \in Kinds
    PROVE  /\ k \in NoArgument => IntegersTaken(k) = 0
           /\ k \in OneInteger => IntegersTaken(k) = 1
           /\ k \in Named \ {"schedule", "reduction"} => IntegersTaken(k) = 1
           /\ k \in {"depend", "defaultmap", "reduction"} => IntegersTaken(k) = 2
           /\ k = "schedule" => IntegersTaken(k) = 3
           /\ k = "map" => IntegersTaken(k) = 5
           /\ k = "default" => IntegersTaken(k) = IF Len(arguments) > 1 THEN 2 ELSE 1
<1> DEFINE First == {"if", "initializer", "allocate", "allocator", "in_reduction",
                     "task_reduction"}
<1>0. First = Named \ {"schedule", "reduction"}
    BY DEF Named
<1> HIDE DEF First
<1>1. IntegersTaken(k) =
        CASE k \in NoArgument -> 0
          [] k \in OneInteger \cup First -> 1
          [] k = "default" -> IF Len(arguments) > 1 THEN 2 ELSE 1
          [] k \in {"depend", "defaultmap", "reduction"} -> 2
          [] k = "schedule" -> 3
          [] k = "map" -> 5
    BY DEF IntegersTaken, NoArgument, First
<1>2. "reduction" \in Named /\ "schedule" \in Named
    BY DEF Named
<1>3. /\ "default" \in Special /\ "depend" \in Special /\ "defaultmap" \in Special
      /\ "map" \in Special
    BY DEF Special
<1>4. CASE k \in NoArgument
    BY <1>0, <1>1, <1>2, <1>3, <1>4, GroupsDisjoint
<1>5. CASE k \in OneInteger
    BY <1>0, <1>1, <1>2, <1>3, <1>5, GroupsDisjoint
<1>6. CASE k \in First
    BY <1>0, <1>1, <1>2, <1>3, <1>6, GroupsDisjoint
<1>7. CASE k \in {"schedule", "reduction"}
    BY <1>0, <1>1, <1>2, <1>3, <1>7, GroupsDisjoint
<1>8. CASE k \in Special
    BY <1>0, <1>1, <1>2, <1>3, <1>8, GroupsDisjoint DEF Special
<1> QED
    BY <1>0, <1>4, <1>5, <1>6, <1>7, <1>8, GroupsDisjoint

\* What the first switch expects of a kind, by its group.
LEMMA ExpectedByGroup ==
    ASSUME NEW k \in Kinds
    PROVE  /\ k \in NoArgument => ExpectedIntegers(k) = 0
           /\ k \in OneInteger => ExpectedIntegers(k) = 1
           /\ k \in Named \ {"schedule", "reduction"} => ExpectedIntegers(k) = 1
           /\ k \in {"depend", "defaultmap", "reduction"} => ExpectedIntegers(k) = 2
           /\ k = "schedule" => ExpectedIntegers(k) = 3
           /\ k = "map" => ExpectedIntegers(k) = 5
           /\ k = "default" => ExpectedIntegers(k) = IF Len(arguments) = 2 THEN 2 ELSE 1
<1> DEFINE First == Named \ {"schedule", "reduction"}
<1>1. ExpectedIntegers(k) =
        CASE k \in NoArgument -> 0
          [] k \in OneInteger \cup First -> 1
          [] k = "default" -> IF Len(arguments) = 2 THEN 2 ELSE 1
          [] k \in {"depend", "defaultmap", "reduction"} -> 2
          [] k = "schedule" -> 3
          [] k = "map" -> 5
    BY DEF ExpectedIntegers, NoArgument
<1>2. "reduction" \in Named /\ "schedule" \in Named
    BY DEF Named
<1>3. /\ "default" \in Special /\ "depend" \in Special /\ "defaultmap" \in Special
      /\ "map" \in Special
    BY DEF Special
<1>0. First = Named \ {"schedule", "reduction"}
    OBVIOUS
<1> HIDE DEF First
<1>4. CASE k \in NoArgument
    BY <1>0, <1>1, <1>2, <1>3, <1>4, GroupsDisjoint
<1>5. CASE k \in OneInteger
    BY <1>0, <1>1, <1>2, <1>3, <1>5, GroupsDisjoint
<1>6. CASE k \in First
    BY <1>0, <1>1, <1>2, <1>3, <1>6, GroupsDisjoint
<1>7. CASE k \in {"schedule", "reduction"}
    BY <1>0, <1>1, <1>2, <1>3, <1>7, GroupsDisjoint
<1>8. CASE k \in Special
    BY <1>0, <1>1, <1>2, <1>3, <1>8, GroupsDisjoint DEF Special
<1> QED
    BY <1>0, <1>4, <1>5, <1>6, <1>7, <1>8, GroupsDisjoint

\* A text is asked for after the last integer, of the kinds the preflight knows
\* and for the enumerator it knows.
LEMMA TextIsLast ==
    ASSUME NEW k \in Kinds, NEW n, TextAsked(k, n)
    PROVE  n = IntegersTaken(k)
<1>1. "reduction" \in Named /\ "schedule" \in Named
    BY DEF Named
<1>2. CASE k \in {"if", "initializer", "allocate", "allocator", "in_reduction",
                  "task_reduction"}
    <2>1. k \in Named \ {"schedule", "reduction"}
        BY <1>2 DEF Named
    <2> QED
        BY <2>1, <1>2, TakenByGroup DEF TextAsked
<1>3. CASE k = "reduction"
    BY <1>3, TakenByGroup DEF TextAsked
<1>4. CASE k = "schedule"
    BY <1>4, TakenByGroup DEF TextAsked
<1> QED
    BY <1>2, <1>3, <1>4 DEF TextAsked

\* The two switches agree on who is asked for a text.
LEMMA AskedAlike ==
    ASSUME NEW k \in Kinds
    PROVE  TextAsked(k, IntegersTaken(k)) <=> k \in Named /\ arguments[Asking(k)] = "user"
<1>1. CASE k \in Named \ {"schedule", "reduction"}
    <2>1. IntegersTaken(k) = 1 /\ Asking(k) = 1
        BY <1>1, TakenByGroup DEF Asking
    <2>2. k \in {"if", "initializer", "allocate", "allocator", "in_reduction",
                 "task_reduction"}
        BY <1>1 DEF Named
    <2> QED
        BY <1>1, <2>1, <2>2 DEF TextAsked
<1>2. CASE k = "reduction"
    BY <1>2, TakenByGroup DEF TextAsked, Asking, Named
<1>3. CASE k = "schedule"
    BY <1>3, TakenByGroup DEF TextAsked, Asking, Named
<1>4. CASE k \notin Named
    BY <1>4 DEF TextAsked, Named
<1> QED
    BY <1>1, <1>2, <1>3, <1>4

\* How many integers the two switches take of a list of the length expected.
LEMMA IntegersAlike ==
    ASSUME NEW k \in Kinds, k # "requires"
    PROVE  /\ ExpectedIntegers(k) \in Nat /\ IntegersTaken(k) \in Nat
           /\ Len(arguments) \in {1, 2} \/ k # "default"
                => ExpectedIntegers(k) = IntegersTaken(k)
           /\ k = "default" => ExpectedIntegers(k) \in {1, 2}
           /\ k \in Named => ExpectedIntegers(k) = Asking(k)
<1>1. CASE k \in NoArgument
    BY <1>1, TakenByGroup, ExpectedByGroup, GroupsDisjoint DEF Special
<1>2. CASE k \in OneInteger
    BY <1>2, TakenByGroup, ExpectedByGroup, GroupsDisjoint DEF Special
<1>3. CASE k \in Named \ {"schedule", "reduction"}
    BY <1>3, TakenByGroup, ExpectedByGroup, GroupsDisjoint DEF Special, Asking
<1>4. CASE k \in {"schedule", "reduction"}
    BY <1>4, TakenByGroup, ExpectedByGroup DEF Asking
<1>5. CASE k \in Special
    <2>1. k \notin Named
        BY <1>5, GroupsDisjoint
    <2>2. CASE k = "default"
        <3>1. /\ ExpectedIntegers(k) = IF Len(arguments) = 2 THEN 2 ELSE 1
              /\ IntegersTaken(k) = IF Len(arguments) > 1 THEN 2 ELSE 1
            BY <2>2, TakenByGroup, ExpectedByGroup
        <3>2. Len(arguments) = 1 => ExpectedIntegers(k) = IntegersTaken(k)
            BY <3>1
        <3>3. Len(arguments) = 2 => ExpectedIntegers(k) = IntegersTaken(k)
            BY <3>1
        <3>4. ExpectedIntegers(k) \in {1, 2} /\ IntegersTaken(k) \in {1, 2}
            BY <3>1
        <3> QED
            BY <2>1, <2>2, <3>2, <3>3, <3>4
    <2>3. CASE k \in {"depend", "defaultmap"}
        BY <2>1, <2>3, TakenByGroup, ExpectedByGroup
    <2>4. CASE k = "map"
        BY <2>1, <2>4, TakenByGroup, ExpectedByGroup
    <2> QED
        BY <1>5, <2>2, <2>3, <2>4 DEF Special
<1> QED
    BY <1>1, <1>2, <1>3, <1>4, <1>5, GroupsDisjoint

-----------------------------------------------------------------------------
(* The invariant. *)

Argument == Integer \cup Text

\* The list is the one the second switch takes.
Matches ==
    /\ kind # "requires"
    /\ Len(arguments) =
        IntegersTaken(kind) + (IF TextAsked(kind, IntegersTaken(kind)) THEN 1 ELSE 0)
    /\ \A i \in 1 .. IntegersTaken(kind) : arguments[i] \in Integer
    /\ TextAsked(kind, IntegersTaken(kind)) => arguments[IntegersTaken(kind) + 1] \in Text

\* The text taken so far.
TextSoFar == text = IF taken <= IntegersTaken(kind) THEN "none" ELSE arguments[taken]

Made == pc \in {"index", "finish", "returned"}
\* Which containers hold the clause.
Held ==
    /\ comma \in BOOLEAN
    /\ registered <=> Made
    /\ indexed <=> pc \in {"finish", "returned"}
    /\ placed => pc \in {"finish", "returned"}
    /\ pc = "returned" => placed /\ ~comma
CallInv ==
    /\ TypeOK /\ arguments \in Seq(Argument) /\ Held
    /\ pc = "preflight" => taken = 0 /\ text = "none"
    /\ pc = "take" \/ Made => Matches /\ TextSoFar
    /\ Made => taken = Len(arguments) /\ class = MakeClause(kind) /\ payload = StoredText(text)
    /\ pc = "thrown" => why \in {"unsupported", "preflight", "constructor"}

\* The invariant holds of every list of arguments a call may be given.
LEMMA CallInit == ASSUME BoundAssumption, Init PROVE CallInv
<1>1. arguments \in Seq(Argument)
    <2>1. Values(kind) \subseteq Argument
        BY DEF Values, Argument, Integer
    <2>2. CASE arguments \in Longer
        <3>1. PICK n \in MaxArguments + 1 .. 6 : arguments = [i \in 1 .. n |-> "plain"]
            BY <2>2 DEF Longer
        <3>2. n \in Nat /\ "plain" \in Argument
            BY <3>1 DEF BoundAssumption, Argument, Integer
        <3> QED
            BY <3>1, <3>2
    <2>3. CASE arguments \in UNION {[1 .. n -> Values(kind)] : n \in 0 .. MaxArguments}
        <3>1. PICK n \in 0 .. MaxArguments : arguments \in [1 .. n -> Values(kind)]
            BY <2>3
        <3>2. n \in Nat
            BY <3>1 DEF BoundAssumption
        <3> QED
            BY <2>1, <3>1, <3>2
    <2>4. arguments \in Arguments(kind)
        BY DEF Init
    <2> QED
        BY <2>2, <2>3, <2>4 DEF Arguments
<1>2. Len(arguments) \in Nat
    BY <1>1
<1>3. kind \in Kinds
    BY DEF Init
<1>4. registered = FALSE /\ indexed = FALSE /\ placed = FALSE /\ comma \in BOOLEAN
    BY DEF Init
<1>5. /\ pc = "preflight" /\ taken = 0 /\ text = "none"
      /\ class = "none" /\ payload = "none" /\ separator = "space"
    BY DEF Init
<1>6. TypeOK
    <2>1. registered \in BOOLEAN /\ indexed \in BOOLEAN /\ placed \in BOOLEAN
        BY <1>4
    <2>2. taken \in 0 .. Len(arguments)
        BY <1>2, <1>5
    <2> QED
        BY <1>3, <1>5, <2>1, <2>2 DEF TypeOK
<1>7. Made = FALSE /\ (pc \in {"finish", "returned"}) = FALSE
    BY <1>5 DEF Made
<1>8. Held
    BY <1>4, <1>5, <1>7 DEF Held
<1> QED
    BY <1>1, <1>5, <1>6, <1>7, <1>8 DEF CallInv

\* A list that passes the first switch is the one the second takes.
LEMMA ExpectedMatches ==
    ASSUME CallInv, kind # "requires",
           kind \in Named => Asking(kind) <= Len(arguments),
           Len(arguments) = Len(ExpectedArguments(kind)),
           \A i \in DOMAIN arguments : arguments[i] \in ExpectedArguments(kind)[i]
    PROVE  Matches
<1> DEFINE n == ExpectedIntegers(kind)
           asked == kind \in Named /\ arguments[Asking(kind)] = "user"
           integers == [i \in 1 .. n |-> Integer]
           last == IF asked THEN <<Text>> ELSE <<>>
<1>1. /\ kind \in Kinds /\ arguments \in Seq(Argument) /\ Len(arguments) \in Nat
      /\ n \in Nat
    BY IntegersAlike DEF CallInv, TypeOK
<1>2. /\ integers \in Seq({Integer}) /\ Len(integers) = n
      /\ \A i \in 1 .. n : integers[i] = Integer
    BY <1>1
<1>3. /\ asked => last = <<Text>>
      /\ ~asked => last = <<>>
    OBVIOUS
<1>4. ExpectedArguments(kind) = integers \o last
    BY DEF ExpectedArguments
<1> HIDE DEF integers, last
<1>5. /\ Len(arguments) = n + (IF asked THEN 1 ELSE 0)
      /\ \A i \in 1 .. n : ExpectedArguments(kind)[i] = Integer
      /\ asked => ExpectedArguments(kind)[n + 1] = Text
    <2> HIDE DEF n, asked
    <2>1. CASE asked
        <3>1. /\ Len(integers \o <<Text>>) = n + 1
              /\ \A i \in 1 .. n : (integers \o <<Text>>)[i] = Integer
              /\ (integers \o <<Text>>)[n + 1] = Text
            BY <1>1, <1>2
        <3> QED
            BY <1>3, <1>4, <2>1, <3>1
    <2>2. CASE ~asked
        <3>1. integers \o <<>> = integers
            BY <1>2
        <3> QED
            BY <1>1, <1>2, <1>3, <1>4, <2>2, <3>1
    <2> QED
        BY <2>1, <2>2
<1>6. IntegersTaken(kind) = n
    <2>1. kind = "default" => ~asked
        BY DEF Named
    <2>2. kind = "default" => Len(arguments) = n /\ n \in {1, 2}
        BY <1>1, <1>5, <2>1, IntegersAlike
    <2> QED
        BY <1>1, <2>2, IntegersAlike
<1>7. TextAsked(kind, n) <=> asked
    BY <1>1, <1>6, AskedAlike
<1>8. DOMAIN arguments = 1 .. Len(arguments)
    BY <1>1
<1> HIDE DEF n, asked
<1> QED
    BY <1>1, <1>5, <1>6, <1>7, <1>8 DEF Matches

-----------------------------------------------------------------------------
(* The steps. *)

\* A step that makes nothing leaves the containers without the clause.
LEMMA HeldKept ==
    ASSUME Held, UNCHANGED <<registered, indexed, placed, comma>>, ~Made, ~Made'
    PROVE  Held'
<1>1. pc \notin {"finish", "returned"} /\ pc' \notin {"finish", "returned"}
    BY DEF Made
<1>2. ~registered /\ ~indexed /\ ~placed /\ comma \in BOOLEAN
    BY <1>1 DEF Held
<1>3. ~registered' /\ ~indexed' /\ ~placed' /\ comma' \in BOOLEAN
    BY <1>2
<1>4. pc' # "returned"
    BY <1>1
<1> QED
    BY <1>1, <1>3, <1>4 DEF Held

\* The first switch.
LEMMA PreflightKept == ASSUME CallInv, Preflight PROVE CallInv'
<1>1. pc = "preflight" /\ taken = 0 /\ text = "none"
    BY DEF Preflight, CallInv
<1>2. UNCHANGED <<kind, arguments, taken, text, object, containers, comma>>
    BY DEF Preflight, Throw
<1>3. \/ pc' = "thrown" /\ why' \in {"unsupported", "preflight"}
      \/ pc' = "take" /\ Matches
    <2>1. CASE kind = "requires"
        BY <2>1 DEF Preflight, Throw
    <2>2. CASE kind # "requires" /\ Throw("preflight")
        BY <2>2 DEF Throw
    <2>3. CASE kind # "requires" /\ ~Throw("preflight")
        <3>1. /\ ~(kind \in Named /\ (Len(arguments) < Asking(kind)
                                  \/ arguments[Asking(kind)] \notin Integer))
              /\ Len(arguments) = Len(ExpectedArguments(kind))
              /\ \A i \in DOMAIN arguments : arguments[i] \in ExpectedArguments(kind)[i]
              /\ Goto("take")
            BY <2>3 DEF Preflight
        <3>2. kind \in Named => Asking(kind) <= Len(arguments)
            <4>1. Asking(kind) \in Nat /\ Len(arguments) \in Nat
                BY DEF Asking, CallInv
            <4> QED
                BY <3>1, <4>1
        <3> QED
            BY <2>3, <3>1, <3>2, ExpectedMatches DEF Goto
    <2> QED
        BY <2>1, <2>2, <2>3
<1>4. Matches => Matches'
    BY <1>2 DEF Matches, IntegersTaken, TextAsked
<1>5. Matches => TextSoFar'
    <2>1. Matches => IntegersTaken(kind) \in Nat
        BY IntegersAlike DEF Matches, CallInv, TypeOK
    <2>2. IntegersTaken(kind)' = IntegersTaken(kind)
        BY <1>2 DEF IntegersTaken
    <2> QED
        BY <1>1, <1>2, <2>1, <2>2 DEF TextSoFar
<1>6. TypeOK'
    BY <1>2, <1>3 DEF CallInv, TypeOK, object, containers
<1>7. ~Made /\ ~Made'
    BY <1>1, <1>3 DEF Made
<1>9. Held'
    BY <1>2, <1>7, HeldKept DEF CallInv, containers
<1> QED
    BY <1>1, <1>2, <1>3, <1>4, <1>5, <1>6, <1>7, <1>9 DEF CallInv

\* The arguments one by one: none is missing or of the other type.
LEMMA TakeArgumentKept == ASSUME CallInv, TakeArgument PROVE CallInv'
<1> DEFINE n == IntegersTaken(kind)
<1>1. /\ pc = "take" /\ Matches /\ TextSoFar
      /\ kind \in Kinds /\ kind # "requires" /\ arguments \in Seq(Argument)
      /\ taken \in 0 .. Len(arguments) /\ Len(arguments) \in Nat /\ n \in Nat
    BY IntegersAlike DEF TakeArgument, CallInv, TypeOK, Matches
<1>2. \/ taken < n /\ NextTaken(kind, taken) = "integer"
      \/ taken = n /\ TextAsked(kind, n) /\ NextTaken(kind, taken) = "text"
    <2>1. CASE taken < n
        BY <1>1, <2>1 DEF NextTaken
    <2>2. CASE taken >= n /\ TextAsked(kind, taken)
        <3>1. taken = n
            BY <1>1, <2>2, TextIsLast
        <3> QED
            BY <1>1, <2>2, <3>1 DEF NextTaken
    <2>3. CASE ~(taken < n) /\ ~TextAsked(kind, taken)
        BY <2>3 DEF NextTaken, TakeArgument
    <2> QED
        BY <1>1, <2>1, <2>2, <2>3
<1>3. /\ taken < Len(arguments)
      /\ (NextTaken(kind, taken) = "integer") = (arguments[taken + 1] \in Integer)
      /\ NextTaken(kind, taken) = "text" => arguments[taken + 1] \in Text
    BY <1>1, <1>2 DEF Matches, Integer, Text
<1>4. /\ taken' = taken + 1
      /\ text' = IF NextTaken(kind, taken) = "text" THEN arguments[taken + 1] ELSE text
      /\ UNCHANGED <<kind, arguments, pc, why, object, containers, comma>>
    BY <1>1, <1>3 DEF TakeArgument
<1>5. Matches'
    BY <1>1, <1>4 DEF Matches, IntegersTaken, TextAsked
<1>6. n' = n
    BY <1>4 DEF IntegersTaken
<1>7. TextSoFar'
    BY <1>1, <1>2, <1>4, <1>6 DEF TextSoFar
<1>8. TypeOK'
    <2>1. text' \in {"none"} \cup Text
        BY <1>3, <1>4 DEF CallInv, TypeOK
    <2> QED
        BY <1>1, <1>3, <1>4, <2>1 DEF CallInv, TypeOK, object, containers
<1>9. ~Made /\ ~Made'
    BY <1>1, <1>4 DEF Made
<1>10. Held'
    BY <1>4, <1>9, HeldKept DEF CallInv, containers
<1> QED
    BY <1>1, <1>4, <1>5, <1>7, <1>8, <1>9, <1>10 DEF CallInv

\* The object: its kind's integers and its text were taken, and no argument is left.
LEMMA ConstructKept == ASSUME CallInv, Construct PROVE CallInv'
<1> DEFINE n == IntegersTaken(kind)
<1>1. /\ pc = "take" /\ Matches /\ TextSoFar
      /\ kind \in Kinds /\ kind # "requires" /\ arguments \in Seq(Argument)
      /\ taken \in 0 .. Len(arguments) /\ Len(arguments) \in Nat /\ n \in Nat
    <2>1. pc = "take" /\ Matches
        BY DEF Construct, CallInv
    <2> QED
        BY <2>1, IntegersAlike DEF CallInv, TypeOK, Matches
<1>2. taken = Len(arguments)
    <2>0. NextTaken(kind, taken) = "none"
        BY DEF Construct
    <2>1. ~(taken < n)
        BY <1>1, <2>0 DEF NextTaken
    <2>2. ~TextAsked(kind, taken)
        <3>1. SUFFICES ASSUME TextAsked(kind, taken) PROVE FALSE
            OBVIOUS
        <3>2. taken >= n
            BY <1>1, <2>1
        <3>3. NextTaken(kind, taken) = "text"
            BY <2>1, <3>1, <3>2 DEF NextTaken
        <3> QED
            BY <2>0, <3>3
    <2>3. CASE TextAsked(kind, n)
        BY <1>1, <2>1, <2>2, <2>3 DEF Matches
    <2>4. CASE ~TextAsked(kind, n)
        BY <1>1, <2>1, <2>4 DEF Matches
    <2> QED
        BY <2>3, <2>4
<1>3. kind \in Bare => arguments = <<>>
    <2>1. SUFFICES ASSUME kind \in Bare PROVE Len(arguments) = 0
        BY <1>1
    <2>2. n = 0
        BY <1>1, <2>1, TakenByGroup DEF NoArgument
    <2>3. ~TextAsked(kind, n)
        <3>1. kind \notin Named
            BY <2>1, GroupsDisjoint DEF NoArgument
        <3> QED
            BY <1>1, <3>1, AskedAlike
    <2> QED
        BY <1>1, <2>2, <2>3 DEF Matches
<1>4. CASE Throw("constructor")
    <2>1. /\ pc' = "thrown" /\ why' = "constructor"
          /\ UNCHANGED <<kind, arguments, taken, text, object, containers, comma>>
        BY <1>4 DEF Throw
    <2>2. TypeOK'
        BY <2>1 DEF CallInv, TypeOK, object, containers
    <2>3. ~Made /\ ~Made'
        BY <1>1, <2>1 DEF Made
    <2>4. Held'
        BY <2>1, <2>3, HeldKept DEF CallInv, containers
    <2> QED
        BY <1>1, <2>1, <2>2, <2>3, <2>4 DEF CallInv
<1>5. CASE /\ class' = MakeClause(kind)
           /\ payload' = StoredText(text)
           /\ registered' = TRUE
           /\ Goto("index")
           /\ UNCHANGED <<kind, arguments, why, taken, text, indexed, placed, separator, comma>>
    <2>1. pc' = "index"
        BY <1>5 DEF Goto
    <2>2. Matches' /\ TextSoFar'
        BY <1>1, <1>5 DEF Matches, TextSoFar, IntegersTaken, TextAsked
    <2>3. class' \in Kinds \cup {"none", "scan", "clause"}
        BY <1>1, <1>5 DEF MakeClause
    <2>4. payload' \in {"none"} \cup Text
        BY <1>5 DEF StoredText, CallInv, TypeOK
    <2>5. TypeOK'
        BY <1>5, <2>1, <2>3, <2>4 DEF CallInv, TypeOK
    <2>6. ~Made /\ Made'
        BY <1>1, <2>1 DEF Made
    <2>7. class' = MakeClause(kind') /\ payload' = StoredText(text')
        BY <1>5
    <2>8. Held'
        BY <1>1, <1>5, <2>1, <2>6 DEF CallInv, Held
    <2> QED
        BY <1>1, <1>2, <1>5, <2>1, <2>2, <2>5, <2>6, <2>7, <2>8 DEF CallInv
<1> QED
    BY <1>3, <1>4, <1>5 DEF Construct

\* The index of the kind.
LEMMA IndexKept == ASSUME CallInv, Index PROVE CallInv'
<1>1. /\ pc = "index" /\ pc' = "finish"
      /\ indexed' = TRUE /\ placed' = (kind = "order")
      /\ UNCHANGED <<kind, arguments, why, taken, text, object, registered, separator, comma>>
    BY DEF Index, Goto
<1>2. Made /\ Made'
    BY <1>1 DEF Made
<1>3. Matches' /\ TextSoFar'
    BY <1>1, <1>2 DEF CallInv, Matches, TextSoFar, IntegersTaken, TextAsked
<1>4. TypeOK'
    BY <1>1 DEF CallInv, TypeOK, object
<1>5. class' = MakeClause(kind') /\ payload' = StoredText(text') /\ taken' = Len(arguments')
    BY <1>1, <1>2 DEF CallInv, object
<1>6. Held'
    BY <1>1, <1>2 DEF CallInv, Held
<1> QED
    BY <1>1, <1>2, <1>3, <1>4, <1>5, <1>6 DEF CallInv

\* The separator and the place; no argument is left.
LEMMA FinishKept == ASSUME CallInv, Finish PROVE CallInv'
<1>0. pc = "finish" /\ taken = Len(arguments)
    BY DEF Finish, CallInv, Made
<1>1. /\ pc' = "returned"
      /\ separator' = IF comma THEN "comma" ELSE "space"
      /\ comma' = FALSE /\ placed' = TRUE
      /\ UNCHANGED <<kind, arguments, why, taken, text, object, registered, indexed>>
    BY <1>0 DEF Finish, Goto
<1>2. Made /\ Made'
    BY <1>0, <1>1 DEF Made
<1>3. Matches' /\ TextSoFar'
    BY <1>1, <1>2 DEF CallInv, Matches, TextSoFar, IntegersTaken, TextAsked
<1>4. TypeOK'
    BY <1>1 DEF CallInv, TypeOK, object
<1>5. class' = MakeClause(kind') /\ payload' = StoredText(text') /\ taken' = Len(arguments')
    BY <1>1, <1>2 DEF CallInv, object
<1>6. Held'
    <2>1. registered' /\ indexed' /\ placed' /\ comma' = FALSE
        BY <1>0, <1>1, <1>2 DEF CallInv, Held
    <2>2. pc' \in {"finish", "returned"}
        BY <1>1
    <2> QED
        BY <1>2, <2>1, <2>2 DEF Held
<1> QED
    BY <1>1, <1>2, <1>3, <1>4, <1>5, <1>6 DEF CallInv

\* Every step keeps the invariant.
LEMMA CallStep == ASSUME CallInv, [Next]_vars PROVE CallInv'
<1>1. CASE UNCHANGED vars
    <2>1. /\ UNCHANGED <<kind, arguments, pc, why, taken, text, comma>>
          /\ UNCHANGED <<class, payload, registered, indexed, placed, separator>>
        BY <1>1 DEF vars, object, containers
    <2>2. (Matches => Matches') /\ (TextSoFar => TextSoFar')
        BY <2>1 DEF Matches, TextSoFar, IntegersTaken, TextAsked
    <2>3. Made' = Made /\ (TypeOK => TypeOK')
        BY <2>1 DEF Made, TypeOK
    <2>4. Held => Held'
        BY <2>1, <2>3 DEF Held
    <2> QED
        BY <2>1, <2>2, <2>3, <2>4 DEF CallInv
<1> QED
    BY <1>1, PreflightKept, TakeArgumentKept, ConstructKept, IndexKept, FinishKept DEF Next

-----------------------------------------------------------------------------
(* What the invariant says. *)

\* Past the first switch only a constructor refuses, and a call that throws
\* has changed no container.
LEMMA InvGivesAtomic == CallInv => TypeOK /\ PreflightIsExact /\ AllOrNothing
<1> SUFFICES ASSUME CallInv PROVE PreflightIsExact /\ AllOrNothing
    BY DEF CallInv
<1>1. PreflightIsExact
    BY DEF CallInv, PreflightIsExact
<1>2. pc = "thrown" => ~registered /\ ~indexed /\ ~placed
    <2>1. pc = "thrown" => ~Made /\ pc \notin {"finish", "returned"}
        BY DEF Made
    <2> QED
        BY <2>1 DEF CallInv, Held
<1>3. pc = "returned" => registered /\ indexed /\ placed /\ ~comma
    <2>1. pc = "returned" => Made /\ pc \in {"finish", "returned"}
        BY DEF Made
    <2> QED
        BY <2>1 DEF CallInv, Held
<1> QED
    BY <1>1, <1>2, <1>3 DEF AllOrNothing

\* A kind the grammar casts makes a class of its own in the second switch.
LEMMA DowncastIsOwn == ASSUME NEW k \in Downcast PROVE MakeClause(k) = k
<1> DEFINE Shared == {"absent", "contains", "adjust_args", "append_args", "apply",
                      "induction", "init", "memscope"}
           Apart == {"aligned", "default", "dist_schedule",
                     "ext_implementation_defined_requirement", "from", "linear",
                     "schedule", "to", "uses_allocators", "when", "match", "otherwise",
                     "affinity", "allocate", "depend", "doacross", "in_reduction", "map",
                     "order", "reduction", "task_reduction"}
<1>1. Downcast = Shared \cup Apart
    BY DEF Downcast
<1>2. \A s \in Shared : s \in OwnClass
    BY DEF OwnClass
<1>3. \A a \in Apart : a \notin Bare
    BY DEF Bare
<1>4. k \notin {"inclusive", "exclusive"}
    BY DEF Downcast
<1> HIDE DEF Shared, Apart
<1> QED
    BY <1>1, <1>2, <1>3, <1>4 DEF MakeClause

\* The object returned is of the class the grammar expects.
LEMMA InvGivesClass == CallInv => ClassFits
<1> SUFFICES ASSUME CallInv, pc = "returned"
             PROVE  /\ kind \in Downcast => class = kind
                    /\ kind \in {"inclusive", "exclusive"} => class = "scan"
    BY DEF ClassFits
<1>1. class = MakeClause(kind)
    BY DEF CallInv, Made
<1>2. kind \in {"inclusive", "exclusive"} => class = "scan"
    BY <1>1 DEF MakeClause
<1> QED
    BY <1>1, <1>2, DowncastIsOwn

\* An empty text is stored as no text, and nothing else is.
LEMMA InvGivesEmptyRefused == CallInv => EmptyTextIsRefused
<1> SUFFICES ASSUME CallInv, pc = "returned", kind \in Audited
             PROVE  Agrees <=> "empty" \notin ToSet(arguments)
    BY DEF EmptyTextIsRefused
<1> DEFINE n == IntegersTaken(kind)
<1>1. /\ Matches /\ TextSoFar /\ taken = Len(arguments) /\ payload = StoredText(text)
      /\ kind \in Kinds /\ kind # "requires" /\ arguments \in Seq(Argument)
    <2>1. Made
        BY DEF Made
    <2>2. Matches
        BY <2>1 DEF CallInv
    <2> QED
        BY <2>1, <2>2 DEF CallInv, TypeOK, Matches
<1>2. kind \in Named
    BY DEF Audited, Named
<1>3. n \in Nat /\ Len(arguments) \in Nat /\ DOMAIN arguments = 1 .. Len(arguments)
    BY <1>1, IntegersAlike
<1>4. \A i \in 1 .. n : arguments[i] \in Integer
    BY <1>1 DEF Matches
<1>5. "empty" \in ToSet(arguments) <=> \E i \in 1 .. Len(arguments) : arguments[i] = "empty"
    BY <1>3 DEF ToSet
<1>6. TextAsked(kind, n) <=> arguments[Asking(kind)] = "user"
    BY <1>1, <1>2, AskedAlike
<1>7. "empty" \notin Integer
    BY DEF Integer
<1>8. CASE TextAsked(kind, n)
    <2>1. Len(arguments) = n + 1 /\ arguments[n + 1] \in Text
        BY <1>1, <1>8 DEF Matches
    <2>2. text = arguments[n + 1]
        BY <1>1, <1>3, <2>1 DEF TextSoFar
    <2>3. "empty" \in ToSet(arguments) <=> text = "empty"
        BY <1>3, <1>4, <1>5, <1>7, <2>1, <2>2
    <2>4. payload # "none" <=> text # "empty"
        BY <1>1, <2>1, <2>2 DEF StoredText, Text
    <2> QED
        BY <1>6, <1>8, <2>3, <2>4 DEF Agrees
<1>9. CASE ~TextAsked(kind, n)
    <2>1. Len(arguments) = n
        BY <1>1, <1>3, <1>9 DEF Matches
    <2>2. payload = "none"
        BY <1>1, <1>3, <2>1 DEF TextSoFar, StoredText
    <2>3. "empty" \notin ToSet(arguments)
        BY <1>4, <1>5, <1>7, <2>1
    <2> QED
        BY <1>6, <1>9, <2>2, <2>3 DEF Agrees
<1> QED
    BY <1>8, <1>9

-----------------------------------------------------------------------------
(* The theorems. *)

\* A list that passes the first switch is taken to its last argument by the
\* second, so a call that throws leaves no clause in any container.
THEOREM CallsAreAtomic ==
    ASSUME BoundAssumption
    PROVE  Spec => [](TypeOK /\ PreflightIsExact /\ AllOrNothing)
<1>1. CallInv /\ [Next]_vars => CallInv'
    BY CallStep
<1> QED
    BY CallInit, <1>1, InvGivesAtomic, PTL DEF Spec

\* A call that returns has made an object of the class the grammar casts it
\* to, and keeps no empty text.
THEOREM CallsMakeWhatIsCast ==
    ASSUME BoundAssumption
    PROVE  Spec => [](ClassFits /\ EmptyTextIsRefused)
<1>1. CallInv /\ [Next]_vars => CallInv'
    BY CallStep
<1> QED
    BY CallInit, <1>1, InvGivesClass, InvGivesEmptyRefused, PTL DEF Spec
=============================================================================
