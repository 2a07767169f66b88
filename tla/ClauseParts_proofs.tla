-------------------------- MODULE ClauseParts_proofs --------------------------
(***************************************************************************)
(* Invariants of the parts that build one clause or judge its directive:   *)
(* the schema lookup, the structural rules, INIT, ALLOCATE, INDUCTION and  *)
(* APPLY.  They are stated of the slots the parts use in MCClauses, for    *)
(* all values of its constants.                                            *)
(***************************************************************************)
EXTENDS MCClauses, FiniteSetTheorems, SequenceTheorems, WellFoundedInduction, TLAPS

-----------------------------------------------------------------------------
(* One question to the schema, on every table that compiles: the compiler  *)
(* compares neighbours, the search relies on the order of the whole table, *)
(* and the answer on a key standing for one pair only.  First, keys.       *)

\* A key is a natural number.
LEMMA KeyType ==
    ASSUME Lookup!CountsAssumption, NEW d \in Lookup!Directives, NEW c \in Lookup!Clauses
    PROVE  Lookup!Key(d, c) \in Nat
<1>1. d \in Nat /\ c \in Nat /\ ClauseCount \in Nat
    BY DEF Lookup!CountsAssumption, Lookup!Directives, Lookup!Clauses
<1>2. d * ClauseCount \in Nat
    BY <1>1
<1> QED
    BY <1>1, <1>2 DEF Lookup!Key

\* The keys of a smaller directive are smaller: its clauses end before those
\* of the next one begin.
LEMMA KeyOrdersDirectives ==
    ASSUME Lookup!CountsAssumption, NEW d \in Lookup!Directives, NEW c \in Lookup!Clauses,
           NEW e \in Lookup!Directives, NEW b \in Lookup!Clauses, d < e
    PROVE  Lookup!Key(d, c) < Lookup!Key(e, b)
<1>1. /\ d \in Nat /\ e \in Nat /\ c \in Nat /\ b \in Nat
      /\ ClauseCount \in Nat /\ c < ClauseCount
    BY DEF Lookup!CountsAssumption, Lookup!Directives, Lookup!Clauses
<1> DEFINE gap == e - d
<1>2. gap \in Nat /\ gap >= 1 /\ e = d + gap
    BY <1>1
<1>3. e * ClauseCount = d * ClauseCount + gap * ClauseCount
    BY <1>1, <1>2
<1>4. gap * ClauseCount >= ClauseCount
    BY <1>1, <1>2
<1>5. d * ClauseCount \in Nat /\ gap * ClauseCount \in Nat /\ e * ClauseCount \in Nat
    BY <1>1, <1>2
<1> QED
    BY <1>1, <1>3, <1>4, <1>5 DEF Lookup!Key

\* A key stands for one pair only.
LEMMA KeyDistinguishes ==
    ASSUME Lookup!CountsAssumption, NEW d \in Lookup!Directives, NEW c \in Lookup!Clauses,
           NEW e \in Lookup!Directives, NEW b \in Lookup!Clauses,
            Lookup!Key(d, c) = Lookup!Key(e, b)
    PROVE  d = e /\ c = b
<1>1. d \in Nat /\ e \in Nat /\ c \in Nat /\ b \in Nat /\ ClauseCount \in Nat
    BY DEF Lookup!CountsAssumption, Lookup!Directives, Lookup!Clauses
<1>2. Lookup!Key(d, c) \in Nat
    BY KeyType
<1>3. ~(d < e) /\ ~(e < d)
    BY <1>2, KeyOrdersDirectives
<1>4. d = e
    BY <1>1, <1>3
<1>5. d * ClauseCount \in Nat
    BY <1>1
<1> QED
    BY <1>1, <1>4, <1>5 DEF Lookup!Key

-----------------------------------------------------------------------------
(* Order. *)

\* A sequence whose neighbours increase, increases: the first entry that is
\* not greater than an earlier one would have a neighbour before it that is.
LEMMA NeighboursSuffice ==
    ASSUME NEW values \in Seq(Nat), Lookup!IsStrictlyIncreasing(values),
           NEW i \in 1 .. Len(values), NEW j \in 1 .. Len(values), i < j
    PROVE  values[i] < values[j]
<1> SUFFICES ASSUME ~(values[i] < values[j]) PROVE FALSE
    OBVIOUS
<1> DEFINE Bad == {m \in i + 1 .. Len(values) : ~(values[i] < values[m])}
<1>1. Len(values) \in Nat /\ \A m \in 1 .. Len(values) : values[m] \in Nat
    OBVIOUS
<1>2. Bad # {} /\ Bad \subseteq Nat
    BY <1>1
<1>3. PICK m \in Bad : \A n \in Bad : ~(<<n, m>> \in OpToRel(<, Nat))
    BY <1>2, WFMin, NatLessThanWellFounded
<1>4. \A n \in Bad : ~(n < m)
    BY <1>2, <1>3 DEF OpToRel
<1>5. m - 1 \in 1 .. Len(values) - 1 /\ i <= m - 1
    BY <1>1
<1>6. values[m - 1] < values[m]
    <2>1. values[m - 1] < values[(m - 1) + 1]
        BY <1>5 DEF Lookup!IsStrictlyIncreasing
    <2>2. (m - 1) + 1 = m
        BY <1>1
    <2> QED
        BY <2>1, <2>2
<1>7. values[i] <= values[m - 1]
    <2>1. CASE i = m - 1
        BY <1>1, <2>1
    <2>2. CASE i # m - 1
        <3>1. m - 1 \in i + 1 .. Len(values) /\ m - 1 < m
            BY <1>1, <1>5, <2>2
        <3>2. m - 1 \notin Bad
            BY <1>4, <3>1
        <3> QED
            BY <1>1, <1>5, <3>1, <3>2
    <2> QED
        BY <2>1, <2>2
<1> QED
    BY <1>1, <1>5, <1>6, <1>7

-----------------------------------------------------------------------------
(* The search. *)

\* The table is one that compiles; no step changes it.
Compiled == Lookup!IsStrictlyIncreasing(Lookup!AllowedDirectiveClauses)
LookupInv == Lookup!TypeOK /\ Compiled /\ Lookup!Bracketed /\ Lookup!AnswerIsMembership

\* The entries of a table are pairs, and the range lies in it.
LEMMA TableType ==
    ASSUME Lookup!TypeOK
    PROVE  /\ Len(s1) \in Nat
           /\ \A i \in 1 .. Len(s1) :
                /\ s1[i] = <<s1[i][1], s1[i][2]>>
                /\ s1[i][1] \in Lookup!Directives /\ s1[i][2] \in Lookup!Clauses
           /\ s4 \in 1 .. Len(s1) + 1
           /\ s5 \in 0 .. Len(s1) + 1 - s4
           /\ s4 \in Nat /\ s5 \in Nat
<1>1. PICK Pairs : Pairs = Lookup!Directives \X Lookup!Clauses
    OBVIOUS
<1>2. s1 \in Seq(Pairs)
    BY <1>1 DEF Lookup!TypeOK
<1>3. Len(s1) \in Nat /\ \A i \in 1 .. Len(s1) : s1[i] \in Pairs
    BY <1>2
<1>4. \A x \in Pairs : x = <<x[1], x[2]>> /\ x[1] \in Lookup!Directives /\ x[2] \in Lookup!Clauses
    BY <1>1
<1>5. /\ s4 \in 1 .. Len(s1) + 1
      /\ s5 \in 0 .. Len(s1) + 1 - s4
    BY DEF Lookup!TypeOK
<1>6. s4 \in Nat /\ s5 \in Nat
    BY <1>3, <1>5
<1> QED
    BY <1>3, <1>4, <1>5, <1>6

\* The keys of a table are natural numbers, and so is the one asked for.
LEMMA KeysType ==
    ASSUME Lookup!CountsAssumption, Lookup!TypeOK
    PROVE  /\ Lookup!AllowedDirectiveClauses \in Seq(Nat)
           /\ Len(Lookup!AllowedDirectiveClauses) = Len(s1)
           /\ Lookup!key \in Nat
<1>1. \A i \in 1 .. Len(s1) : /\ s1[i][1] \in Lookup!Directives
                                   /\ s1[i][2] \in Lookup!Clauses
    BY TableType
<1>2. \A i \in 1 .. Len(s1) : Lookup!Key(s1[i][1], s1[i][2]) \in Nat
    BY <1>1, KeyType
<1>3. Len(s1) \in Nat
    BY TableType
<1>4. Lookup!key \in Nat
    BY KeyType DEF Lookup!TypeOK, Lookup!key
<1> QED
    BY <1>2, <1>3, <1>4 DEF Lookup!AllowedDirectiveClauses, Lookup!Keys

\* The table, of any length, before the first turn.
LEMMA LookupInit ==
    ASSUME Lookup!CountsAssumption, Lookup!Init
    PROVE  LookupInv
<1>1. PICK n \in Nat : s1 \in [1 .. n -> Lookup!Directives \X Lookup!Clauses]
    <2>1. MaxTable \in Nat
        BY DEF Lookup!CountsAssumption
    <2>2. PICK n \in 0 .. MaxTable : s1 \in [1 .. n -> Lookup!Directives \X Lookup!Clauses]
        BY DEF Lookup!Init, Lookup!Tables
    <2> QED
        BY <2>1, <2>2
<1>2. s1 \in Seq(Lookup!Directives \X Lookup!Clauses) /\ Len(s1) = n
    <2>1. PICK Pairs : Pairs = Lookup!Directives \X Lookup!Clauses
        OBVIOUS
    <2>2. s1 \in [1 .. n -> Pairs]
        BY <1>1, <2>1
    <2>3. s1 \in Seq(Pairs) /\ Len(s1) = n
        BY <1>1, <2>2
    <2> QED
        BY <2>1, <2>3
<1>3. Len(s1) = n /\ n \in Nat
    BY <1>1, <1>2
<1>4. s4 = 1 /\ s5 = n
    BY <1>3 DEF Lookup!Init
<1>5. Lookup!TypeOK
    <2>1. s4 \in 1 .. Len(s1) + 1 /\ s5 \in 0 .. Len(s1) + 1 - s4
        BY <1>3, <1>4
    <2> QED
        BY <1>2, <2>1 DEF Lookup!TypeOK, Lookup!Init
<1>6. Compiled
    BY DEF Lookup!Init, Lookup!Tables, Compiled, Lookup!AllowedDirectiveClauses
<1>7. Lookup!Bracketed /\ Lookup!AnswerIsMembership
    <2>1. 1 .. s4 - 1 = {} /\ s4 + s5 .. Len(s1) = {}
        BY <1>3, <1>4
    <2> QED
        BY <2>1 DEF Lookup!Bracketed, Lookup!AnswerIsMembership, Lookup!Init
<1> QED
    BY <1>5, <1>6, <1>7 DEF LookupInv

\* A turn drops a part of the range that the middle entry shows useless: what
\* stands before a smaller key is smaller, what stands after one is greater.
LEMMA HalveBrackets ==
    ASSUME Lookup!CountsAssumption, LookupInv, Lookup!Halve
    PROVE  LookupInv'
<1> DEFINE T == Lookup!AllowedDirectiveClauses
           half == s5 \div 2
<1>1. /\ T \in Seq(Nat) /\ Len(T) = Len(s1) /\ Lookup!key \in Nat
      /\ Len(s1) \in Nat
    <2>1. Lookup!TypeOK
        BY DEF LookupInv
    <2> QED
        BY <2>1, KeysType, TableType
<1>2. /\ s4 \in 1 .. Len(s1) + 1
      /\ s5 \in 0 .. Len(s1) + 1 - s4 /\ s5 > 0
    <2>1. Lookup!TypeOK
        BY DEF LookupInv
    <2> QED
        BY <2>1, TableType DEF Lookup!Halve
<1>3. half \in Nat /\ half < s5 /\ s4 + half \in 1 .. Len(T)
    BY <1>1, <1>2
<1>4. T' = T /\ Lookup!key' = Lookup!key /\ s1' = s1
    BY DEF Lookup!Halve, Lookup!AllowedDirectiveClauses, Lookup!key
<1>5. \A i \in 1 .. Len(T), j \in 1 .. Len(T) : i < j => T[i] < T[j]
    BY <1>1, NeighboursSuffice DEF LookupInv, Compiled
<1>6. \A i \in 1 .. Len(T) : T[i] \in Nat
    BY <1>1
<1>7. /\ \A i \in 1 .. s4 - 1 : T[i] < Lookup!key
      /\ \A i \in s4 + s5 .. Len(T) : T[i] >= Lookup!key
    BY <1>1 DEF LookupInv, Lookup!Bracketed
<1>8. Lookup!TypeOK' /\ Lookup!Bracketed'
    <2>1. CASE T[s4 + half] < Lookup!key
        <3>1. s4' = s4 + half + 1 /\ s5' = s5 - half - 1
            BY <2>1 DEF Lookup!Halve
        <3>2. s4' \in 1 .. Len(s1) + 1
              /\ s5' \in 0 .. Len(s1) + 1 - s4'
              /\ s4' + s5' = s4 + s5
            BY <1>1, <1>2, <1>3, <3>1
        <3>3. \A i \in 1 .. s4' - 1 : T[i] < Lookup!key
            <4> SUFFICES ASSUME NEW i \in 1 .. s4 + half, i # s4 + half
                         PROVE  T[i] < Lookup!key
                BY <1>1, <1>2, <1>3, <2>1, <3>1
            <4>1. T[i] < T[s4 + half]
                BY <1>1, <1>2, <1>3, <1>5
            <4> QED
                BY <1>1, <1>2, <1>3, <1>6, <2>1, <4>1
        <3>4. Lookup!TypeOK'
            BY <1>4, <3>2 DEF LookupInv, Lookup!TypeOK, Lookup!Halve
        <3> QED
            BY <1>1, <1>4, <1>7, <3>2, <3>3, <3>4 DEF Lookup!Bracketed
    <2>2. CASE ~(T[s4 + half] < Lookup!key)
        <3>1. s4' = s4 /\ s5' = half
            BY <2>2 DEF Lookup!Halve
        <3>2. s4' \in 1 .. Len(s1) + 1
              /\ s5' \in 0 .. Len(s1) + 1 - s4'
            BY <1>1, <1>2, <1>3, <3>1
        <3>3. \A i \in s4 + half .. Len(T) : T[i] >= Lookup!key
            <4> TAKE i \in s4 + half .. Len(T)
            <4>1. i = s4 + half \/ T[s4 + half] < T[i]
                BY <1>1, <1>2, <1>3, <1>5
            <4> QED
                BY <1>1, <1>2, <1>3, <1>6, <2>2, <4>1
        <3>4. Lookup!TypeOK'
            BY <1>4, <3>2 DEF LookupInv, Lookup!TypeOK, Lookup!Halve
        <3> QED
            BY <1>1, <1>4, <1>7, <3>1, <3>3, <3>4 DEF Lookup!Bracketed
    <2> QED
        BY <2>1, <2>2
<1>9. Compiled' /\ Lookup!AnswerIsMembership'
    BY <1>4 DEF LookupInv, Compiled, Lookup!AnswerIsMembership, Lookup!Halve
<1> QED
    BY <1>8, <1>9 DEF LookupInv

\* With an empty range the entry the search stands at is the key, or no entry
\* is; and the entry with that key is the pair that was asked for.
LEMMA AnswerDecides ==
    ASSUME Lookup!CountsAssumption, LookupInv, Lookup!Answer
    PROVE  LookupInv'
<1> DEFINE T == Lookup!AllowedDirectiveClauses
           Listed == \E i \in 1 .. Len(s1) : s1[i] = <<s2, s3>>
<1>1. /\ T \in Seq(Nat) /\ Len(T) = Len(s1) /\ Lookup!key \in Nat
      /\ Len(s1) \in Nat
    <2>1. Lookup!TypeOK
        BY DEF LookupInv
    <2> QED
        BY <2>1, KeysType, TableType
<1>2. s4 \in 1 .. Len(s1) + 1 /\ s5 = 0
    <2>1. Lookup!TypeOK
        BY DEF LookupInv
    <2> QED
        BY <2>1, TableType DEF Lookup!Answer
<1>3. /\ T' = T /\ Lookup!key' = Lookup!key /\ s1' = s1
      /\ s2' = s2 /\ s3' = s3
    BY DEF Lookup!Answer, Lookup!AllowedDirectiveClauses, Lookup!key
<1>4. Lookup!TypeOK' /\ Compiled' /\ Lookup!Bracketed'
    BY <1>3 DEF LookupInv, Lookup!TypeOK, Compiled, Lookup!Bracketed, Lookup!Answer
<1>5. /\ \A i \in 1 .. s4 - 1 : T[i] < Lookup!key
      /\ \A i \in s4 .. Len(T) : T[i] >= Lookup!key
    BY <1>1, <1>2 DEF LookupInv, Lookup!Bracketed
<1>6. \A i \in 1 .. Len(T) : T[i] \in Nat
    BY <1>1
<1>7. \A i \in 1 .. Len(T) : T[i] = Lookup!key <=> s1[i] = <<s2, s3>>
    <2> TAKE i \in 1 .. Len(T)
    <2>1. /\ s1[i] = <<s1[i][1], s1[i][2]>>
          /\ s1[i][1] \in Lookup!Directives /\ s1[i][2] \in Lookup!Clauses
        BY <1>1, TableType DEF LookupInv
    <2>2. T[i] = Lookup!Key(s1[i][1], s1[i][2])
        BY <1>1 DEF Lookup!AllowedDirectiveClauses, Lookup!Keys
    <2>3. s2 \in Lookup!Directives /\ s3 \in Lookup!Clauses
        BY DEF LookupInv, Lookup!TypeOK
    <2> QED
        BY <2>1, <2>2, <2>3, KeyDistinguishes DEF Lookup!key
<1>8. (s4 <= Len(T) /\ ~(Lookup!key < T[s4])) <=> \E i \in 1 .. Len(T) : T[i] = Lookup!key
    <2>1. ASSUME s4 <= Len(T), ~(Lookup!key < T[s4])
          PROVE  T[s4] = Lookup!key
        BY <1>1, <1>2, <1>5, <1>6, <2>1
    <2>2. ASSUME NEW i \in 1 .. Len(T), T[i] = Lookup!key
          PROVE  s4 <= Len(T) /\ ~(Lookup!key < T[s4])
        <3>1. i >= s4
            BY <1>1, <1>2, <1>5, <2>2
        <3>2. i = s4 \/ T[s4] < T[i]
            BY <1>1, <1>2, <3>1, NeighboursSuffice DEF LookupInv, Compiled
        <3> QED
            BY <1>1, <1>2, <1>6, <2>2, <3>1, <3>2
    <2> QED
        BY <1>1, <1>2, <2>1, <2>2
<1>9. s6' = "yes" <=> Listed
    BY <1>1, <1>7, <1>8 DEF Lookup!Answer
<1>10. Lookup!AnswerIsMembership'
    BY <1>3, <1>9 DEF Lookup!AnswerIsMembership
<1> QED
    BY <1>4, <1>10 DEF LookupInv

\* Every step keeps the range bracketed and the answer right.
LEMMA LookupStep ==
    ASSUME Lookup!CountsAssumption, LookupInv, [Lookup!Next]_(Lookup!vars)
    PROVE  LookupInv'
<1>1. CASE Lookup!Halve
    BY <1>1, HalveBrackets
<1>2. CASE Lookup!Answer
    BY <1>2, AnswerDecides
<1>3. CASE UNCHANGED Lookup!vars
    BY <1>3 DEF Lookup!vars, LookupInv, Lookup!TypeOK, Compiled, Lookup!Bracketed,
                Lookup!AnswerIsMembership, Lookup!AllowedDirectiveClauses, Lookup!key
<1> QED
    BY <1>1, <1>2, <1>3 DEF Lookup!Next

\* A turn leaves at most half of the range.
LEMMA TurnHalves ==
    ASSUME LookupInv, [Lookup!Next]_(Lookup!vars), <<s4, s5>>' # <<s4, s5>>
    PROVE  Lookup!HalvesRange
<1>1. CASE Lookup!Halve
    <2>1. s5 \in Nat
        BY TableType DEF LookupInv
    <2>2. s5' = s5 - s5 \div 2 - 1 \/ s5' = s5 \div 2
        BY <1>1, <2>1 DEF Lookup!Halve
    <2> QED
        BY <2>1, <2>2 DEF Lookup!HalvesRange
<1>2. CASE Lookup!Answer \/ UNCHANGED Lookup!vars
    BY <1>2 DEF Lookup!Answer, Lookup!vars
<1> QED
    BY <1>1, <1>2 DEF Lookup!Next

-----------------------------------------------------------------------------
(* Loops.  A recursive function over a list is one the provers must be     *)
(* told exists; what it computes they see by the least counterexample.     *)

\* What holds at 0 and is passed on at every step holds at every step.
LEMMA PassedOn ==
    ASSUME NEW n \in Nat, NEW Held, 0 \in Held,
           \A k \in 1 .. n : k - 1 \in Held => k \in Held
    PROVE  \A k \in 0 .. n : k \in Held
<1> DEFINE Bad == {k \in 0 .. n : k \notin Held}
<1> SUFFICES ASSUME Bad # {} PROVE FALSE
    OBVIOUS
<1>1. Bad \subseteq Nat
    OBVIOUS
<1>2. PICK k \in Bad : \A m \in Bad : ~(<<m, k>> \in OpToRel(<, Nat))
    BY <1>1, WFMin, NatLessThanWellFounded
<1>3. \A m \in Bad : ~(m < k)
    BY <1>1, <1>2 DEF OpToRel
<1>4. k \in 1 .. n /\ k - 1 \in 0 .. n /\ k - 1 < k
    <2>1. k \in 0 .. n /\ k \notin Held
        BY <1>2
    <2>2. k # 0
        BY <2>1
    <2> QED
        BY <2>1, <2>2
<1>5. k - 1 \in Held
    BY <1>3, <1>4
<1> QED
    BY <1>2, <1>4, <1>5

\* The states of a loop over the first n entries of a list.
Runs(f, n, States, start, step) ==
    f \in [0 .. n -> States] /\ f[0] = start /\ \A k \in 1 .. n : f[k] = step[k][f[k - 1]]

\* A loop over n entries, from a state and by a step, ends.
LEMMA LoopEnds ==
    ASSUME NEW n \in Nat, NEW States, NEW start \in States,
           NEW step \in [1 .. n -> [States -> States]]
    PROVE  \E f : Runs(f, n, States, start, step)
<1> DEFINE Held == {m \in 0 .. n : \E f : Runs(f, m, States, start, step)}
<1>1. 0 \in Held
    <2> DEFINE f == [k \in 0 .. 0 |-> start]
    <2>1. f \in [0 .. 0 -> States] /\ f[0] = start /\ 1 .. 0 = {}
        OBVIOUS
    <2>2. Runs(f, 0, States, start, step)
        BY <2>1 DEF Runs
    <2> HIDE DEF f
    <2> QED
        BY <2>2
<1>2. ASSUME NEW m \in 1 .. n, m - 1 \in Held
      PROVE  m \in Held
    <2>1. PICK g : Runs(g, m - 1, States, start, step)
        BY <1>2
    <2> DEFINE f == [k \in 0 .. m |-> IF k = m THEN step[m][g[m - 1]] ELSE g[k]]
    <2>2. m - 1 \in 0 .. m - 1 /\ g[m - 1] \in States
        BY <2>1 DEF Runs
    <2>3. step[m][g[m - 1]] \in States
        BY <2>2
    <2>4. f \in [0 .. m -> States]
        BY <2>1, <2>3 DEF Runs
    <2>5. f[0] = start
        BY <2>1 DEF Runs
    <2>6. \A k \in 1 .. m : f[k] = step[k][f[k - 1]]
        <3> TAKE k \in 1 .. m
        <3>1. CASE k = m
            <4>1. m \in 0 .. m /\ m - 1 \in 0 .. m /\ m - 1 # m
                OBVIOUS
            <4> QED
                BY <3>1, <4>1
        <3>2. CASE k # m
            <4>1. k \in 1 .. m - 1 /\ k - 1 \in 0 .. m /\ k - 1 # m /\ k \in 0 .. m
                BY <3>2
            <4>2. f[k] = g[k] /\ f[k - 1] = g[k - 1]
                BY <3>2, <4>1
            <4> QED
                BY <2>1, <4>1, <4>2 DEF Runs
        <3> QED
            BY <3>1, <3>2
    <2>7. Runs(f, m, States, start, step)
        BY <2>4, <2>5, <2>6 DEF Runs
    <2> HIDE DEF f
    <2> QED
        BY <2>7
<1>3. n \in Held
    <2> HIDE DEF Held
    <2>1. n \in 0 .. n
        OBVIOUS
    <2> QED
        BY <1>1, <1>2, <2>1, PassedOn
<1> QED
    BY <1>3

-----------------------------------------------------------------------------
(* The structural rules, for every directive and every list of clauses. *)

\* IF clauses: the loop over the keys seen finds exactly the repeated ones.
LEMMA IfByPairs ==
    ASSUME NEW S, NEW cs \in Seq(S)
    PROVE  Rules!IfErrors(cs) # {} <=>
            \E i, j \in DOMAIN cs :
                i # j /\ cs[i].kind = "if" /\ cs[j].kind = "if" /\ cs[i].detail = cs[j].detail
<1> DEFINE n == Len(cs)
           Ifs(m) == {k \in 1 .. m : cs[k].kind = "if"}
           Details == {cs[k].detail : k \in 1 .. n}
           States == [keys : SUBSET Details, error : BOOLEAN]
           start == [keys |-> {}, error |-> FALSE]
           After(k, s) ==
                IF cs[k].kind # "if" THEN s
                ELSE [keys |-> s.keys \cup {cs[k].detail},
                      error |-> s.error \/ cs[k].detail \in s.keys]
           IsLoop(f) == f = [k \in 0 .. n |-> IF k = 0 THEN start ELSE After(k, f[k - 1])]
<1>1. n \in Nat /\ DOMAIN cs = 1 .. n
    OBVIOUS
<1>2. \E f : IsLoop(f)
    <2> DEFINE step == [k \in 1 .. n |-> [s \in States |-> After(k, s)]]
    <2>1. start \in States
        OBVIOUS
    <2>2. ASSUME NEW k \in 1 .. n, NEW s \in States PROVE After(k, s) \in States
        <3>1. cs[k].detail \in Details
            OBVIOUS
        <3>2. s.keys \cup {cs[k].detail} \in SUBSET Details
            BY <3>1
        <3>3. (s.error \/ cs[k].detail \in s.keys) \in BOOLEAN
            OBVIOUS
        <3> QED
            BY <3>2, <3>3
    <2> HIDE DEF States, start, After
    <2>3. step \in [1 .. n -> [States -> States]]
        BY <2>2
    <2> HIDE DEF step, n
    <2>4. PICK f : Runs(f, n, States, start, step)
        BY <1>1, <2>1, <2>3, LoopEnds
    <2> USE DEF step, n
    <2>5. \A k \in 1 .. n : f[k] = After(k, f[k - 1])
        <3> TAKE k \in 1 .. n
        <3>1. k - 1 \in 0 .. n
            BY <1>1
        <3>2. f[k - 1] \in States
            BY <2>4, <3>1 DEF Runs
        <3> QED
            BY <2>4, <3>2 DEF Runs
    <2>6. \A k \in 0 .. n : f[k] = IF k = 0 THEN start ELSE After(k, f[k - 1])
        BY <1>1, <2>4, <2>5 DEF Runs
    <2> QED
        BY <2>4, <2>6 DEF Runs
<1>3. PICK f : IsLoop(f) /\ Rules!IfErrors(cs) = IF f[n].error THEN {"if"} ELSE {}
    <2> DEFINE seen == CHOOSE f : IsLoop(f)
    <2>1. IsLoop(seen)
        <3> HIDE DEF IsLoop
        <3> QED
            BY <1>2
    <2>2. Rules!IfErrors(cs) = IF seen[n].error THEN {"if"} ELSE {}
        BY DEF Rules!IfErrors
    <2> HIDE DEF seen, IsLoop
    <2> QED
        BY <2>1, <2>2
<1>4. f[0] = start /\ \A k \in 1 .. n : f[k] = After(k, f[k - 1])
    <2> HIDE DEF start, After, n
    <2>1. 0 \in 0 .. n /\ \A k \in 1 .. n : k \in 0 .. n /\ k # 0
        BY <1>1
    <2> QED
        BY <1>3, <2>1
<1> DEFINE Twice(m) == \E i, j \in Ifs(m) : i # j /\ cs[i].detail = cs[j].detail
           Held == {m \in 0 .. n : /\ f[m].keys = {cs[k].detail : k \in Ifs(m)}
                                   /\ f[m].error <=> Twice(m)}
<1>5. 0 \in Held
    BY <1>1, <1>4
<1>6. ASSUME NEW m \in 1 .. n, m - 1 \in Held PROVE m \in Held
    <2>1. /\ f[m - 1].keys = {cs[k].detail : k \in Ifs(m - 1)}
          /\ f[m - 1].error <=> Twice(m - 1)
          /\ f[m] = After(m, f[m - 1])
        BY <1>4, <1>6
    <2>2. CASE cs[m].kind # "if"
        <3>1. f[m] = f[m - 1]
            BY <2>1, <2>2
        <3>2. Ifs(m) = Ifs(m - 1)
            BY <1>1, <2>2
        <3> HIDE DEF Ifs
        <3> QED
            BY <2>1, <3>1, <3>2
    <2>3. CASE cs[m].kind = "if"
        <3>1. Ifs(m) = Ifs(m - 1) \cup {m} /\ m \notin Ifs(m - 1)
            BY <1>1, <2>3
        <3>2. /\ f[m].keys = f[m - 1].keys \cup {cs[m].detail}
              /\ f[m].error <=> f[m - 1].error \/ cs[m].detail \in f[m - 1].keys
            <4> DEFINE known == f[m - 1].error \/ cs[m].detail \in f[m - 1].keys
            <4>1. f[m] = [keys |-> f[m - 1].keys \cup {cs[m].detail}, error |-> known]
                BY <2>1, <2>3
            <4> HIDE DEF known
            <4>2. f[m].keys = f[m - 1].keys \cup {cs[m].detail} /\ f[m].error = known
                BY <4>1
            <4> QED
                BY <4>2 DEF known
        <3> HIDE DEF Ifs
        <3>3. f[m].keys = {cs[k].detail : k \in Ifs(m)}
            BY <2>1, <3>1, <3>2
        <3>4. cs[m].detail \in f[m - 1].keys
                <=> \E i \in Ifs(m - 1) : cs[i].detail = cs[m].detail
            BY <2>1
        <3>5. Twice(m) <=> Twice(m - 1) \/ \E i \in Ifs(m - 1) : cs[i].detail = cs[m].detail
            <4>1. ASSUME Twice(m)
                  PROVE  Twice(m - 1) \/ \E i \in Ifs(m - 1) : cs[i].detail = cs[m].detail
                <5>1. PICK i \in Ifs(m), j \in Ifs(m) : i # j /\ cs[i].detail = cs[j].detail
                    BY <4>1
                <5>2. CASE i = m
                    BY <3>1, <5>1, <5>2
                <5>3. CASE i # m
                    BY <3>1, <5>1, <5>3
                <5> QED
                    BY <5>2, <5>3
            <4>2. Twice(m - 1) => Twice(m)
                BY <3>1
            <4>3. ASSUME NEW i \in Ifs(m - 1), cs[i].detail = cs[m].detail PROVE Twice(m)
                <5>1. i # m /\ i \in Ifs(m) /\ m \in Ifs(m)
                    BY <3>1
                <5> QED
                    BY <4>3, <5>1
            <4> QED
                BY <4>1, <4>2, <4>3
        <3> HIDE DEF Twice
        <3>6. f[m].error <=> Twice(m)
            BY <2>1, <3>2, <3>4, <3>5
        <3> QED
            BY <3>3, <3>6
    <2> QED
        BY <2>2, <2>3
<1>7. n \in Held
    <2> HIDE DEF Held
    <2>1. n \in 0 .. n
        BY <1>1
    <2> QED
        BY <1>1, <1>5, <1>6, <2>1, PassedOn
<1>8. f[n].error <=> Twice(n)
    BY <1>7
<1> QED
    BY <1>1, <1>3, <1>8

\* The positions of the clauses of a kind that name a variable category.
Naming(cs, kind) ==
    {i \in DOMAIN cs : cs[i].kind = kind /\ Rules!Category(cs[i]) # "unknown"}

\* One more category seen.
LEMMA SeenOneMore ==
    ASSUME NEW S, NEW seen \in Seq(S), NEW v \in S
    PROVE  LET more == Append(seen, v)
           IN  /\ more \in Seq(S) /\ Len(more) = Len(seen) + 1
               /\ Rules!ToSet(more) = Rules!ToSet(seen) \cup {v}
               /\ Rules!IsInjective(more)
                    <=> Rules!IsInjective(seen) /\ v \notin Rules!ToSet(seen)
<1> DEFINE more == Append(seen, v)
           n == Len(seen)
<1>1. /\ n \in Nat /\ DOMAIN seen = 1 .. n
      /\ more \in Seq(S) /\ Len(more) = n + 1 /\ DOMAIN more = 1 .. n + 1
      /\ \A i \in 1 .. n : more[i] = seen[i]
      /\ more[n + 1] = v
    OBVIOUS
<1>2. 1 .. n + 1 = (1 .. n) \cup {n + 1} /\ n + 1 \notin 1 .. n
    BY <1>1
<1> HIDE DEF more, n
<1>3. Rules!ToSet(more) = Rules!ToSet(seen) \cup {v}
    BY <1>1, <1>2 DEF Rules!ToSet
<1>4. ASSUME Rules!IsInjective(more)
      PROVE  Rules!IsInjective(seen) /\ v \notin Rules!ToSet(seen)
    BY <1>1, <1>2, <1>4 DEF Rules!ToSet, Rules!IsInjective
<1>5. ASSUME Rules!IsInjective(seen), v \notin Rules!ToSet(seen)
      PROVE  Rules!IsInjective(more)
    <2> SUFFICES ASSUME NEW i \in 1 .. n + 1, NEW j \in 1 .. n + 1, more[i] = more[j]
                 PROVE  i = j
        BY <1>1 DEF Rules!IsInjective
    <2>1. CASE i \in 1 .. n /\ j \in 1 .. n
        BY <1>1, <1>5, <2>1 DEF Rules!IsInjective
    <2>2. CASE i = n + 1 /\ j \in 1 .. n
        BY <1>1, <1>5, <2>2 DEF Rules!ToSet
    <2>3. CASE i \in 1 .. n /\ j = n + 1
        BY <1>1, <1>5, <2>3 DEF Rules!ToSet
    <2> QED
        BY <1>2, <2>1, <2>2, <2>3
<1> QED
    BY <1>1, <1>3, <1>4, <1>5 DEF more, n

\* The loop over the categories seen, in terms of the clauses that name them.
LEMMA CategoriesByPairs ==
    ASSUME NEW S, NEW cs \in Seq(S), NEW kind
    PROVE  LET seen == Rules!CategoriesSeen(cs, kind)
               some == Naming(cs, kind)
           IN  /\ Rules!ToSet(seen) = {Rules!Category(cs[i]) : i \in some}
               /\ Rules!IsInjective(seen) <=>
                    \A i, j \in some : i # j => Rules!Category(cs[i]) # Rules!Category(cs[j])
               /\ Len(seen) > 1 <=> \E i, j \in some : i # j
<1> DEFINE n == Len(cs)
           Some(m) == {k \in 1 .. m : cs[k].kind = kind /\ Rules!Category(cs[k]) # "unknown"}
           Values == {Rules!Category(cs[k]) : k \in 1 .. n}
           States == Seq(Values)
           After(k, s) ==
                IF cs[k].kind # kind \/ Rules!Category(cs[k]) = "unknown" THEN s
                ELSE Append(s, Rules!Category(cs[k]))
           IsLoop(f) == f = [k \in 0 .. n |-> IF k = 0 THEN <<>> ELSE After(k, f[k - 1])]
<1>1. n \in Nat /\ DOMAIN cs = 1 .. n
    OBVIOUS
<1>2. ASSUME NEW k \in 1 .. n, NEW s \in States PROVE After(k, s) \in States
    <2>1. Rules!Category(cs[k]) \in Values
        OBVIOUS
    <2> HIDE DEF Values
    <2> QED
        BY <2>1
<1>3. \E f : IsLoop(f) /\ f \in [0 .. n -> States]
    <2> DEFINE start == <<>>
               step == [k \in 1 .. n |-> [s \in States |-> After(k, s)]]
    <2>1. start \in States
        OBVIOUS
    <2> HIDE DEF States, After, start
    <2>2. step \in [1 .. n -> [States -> States]]
        BY <1>2
    <2> HIDE DEF step, n
    <2>3. PICK f : Runs(f, n, States, start, step)
        BY <1>1, <2>1, <2>2, LoopEnds
    <2> USE DEF step
    <2>4. \A k \in 1 .. n : f[k] = After(k, f[k - 1])
        <3> TAKE k \in 1 .. n
        <3>1. k - 1 \in 0 .. n
            BY <1>1
        <3>2. f[k - 1] \in States
            BY <2>3, <3>1 DEF Runs
        <3> QED
            BY <2>3, <3>2 DEF Runs
    <2>5. \A k \in 0 .. n : f[k] = IF k = 0 THEN start ELSE After(k, f[k - 1])
        BY <1>1, <2>3, <2>4 DEF Runs
    <2>6. f \in [0 .. n -> States]
        BY <2>3 DEF Runs
    <2> QED
        BY <2>5, <2>6 DEF start
<1>4. PICK f : IsLoop(f) /\ Rules!CategoriesSeen(cs, kind) = f[n]
    <2> DEFINE loop == CHOOSE f : IsLoop(f)
    <2>1. IsLoop(loop)
        <3> HIDE DEF IsLoop
        <3> QED
            BY <1>3
    <2>2. Rules!CategoriesSeen(cs, kind) = loop[n]
        BY DEF Rules!CategoriesSeen
    <2> HIDE DEF loop, IsLoop
    <2> QED
        BY <2>1, <2>2
<1>5. f[0] = <<>> /\ \A k \in 1 .. n : f[k] = After(k, f[k - 1])
    <2> HIDE DEF After, n
    <2>1. 0 \in 0 .. n /\ \A k \in 1 .. n : k \in 0 .. n /\ k # 0
        BY <1>1
    <2> QED
        BY <1>4, <2>1
<1> DEFINE Pairs(m) == \E i, j \in Some(m) : i # j
           Apart(m) ==
                \A i, j \in Some(m) : i # j => Rules!Category(cs[i]) # Rules!Category(cs[j])
           Seen(m, s) ==
                /\ s \in States
                /\ Rules!ToSet(s) = {Rules!Category(cs[k]) : k \in Some(m)}
                /\ Rules!IsInjective(s) <=> Apart(m)
                /\ Len(s) = 0 <=> Some(m) = {}
                /\ Len(s) > 1 <=> Pairs(m)
           Held == {m \in 0 .. n : Seen(m, f[m])}
<1>6. 0 \in Held
    <2>1. Some(0) = {}
        OBVIOUS
    <2>2. Rules!ToSet(<<>>) = {} /\ Rules!IsInjective(<<>>)
        BY DEF Rules!ToSet, Rules!IsInjective
    <2>3. <<>> \in States /\ Len(<<>>) = 0
        OBVIOUS
    <2> HIDE DEF Some, States
    <2>4. Seen(0, <<>>)
        BY <2>1, <2>2, <2>3
    <2> HIDE DEF Seen
    <2> QED
        BY <1>1, <1>5, <2>4
<1>7. ASSUME NEW m \in 1 .. n, m - 1 \in Held PROVE m \in Held
    <2>1. Seen(m - 1, f[m - 1]) /\ f[m] = After(m, f[m - 1])
        BY <1>5, <1>7
    <2>2. CASE cs[m].kind # kind \/ Rules!Category(cs[m]) = "unknown"
        <3>1. f[m] = f[m - 1]
            BY <2>1, <2>2
        <3>2. Some(m) = Some(m - 1)
            BY <1>1, <2>2
        <3> HIDE DEF Some
        <3>3. Seen(m, f[m])
            BY <2>1, <3>1, <3>2
        <3> QED
            BY <3>3
    <2>3. CASE cs[m].kind = kind /\ Rules!Category(cs[m]) # "unknown"
        <3> DEFINE v == Rules!Category(cs[m])
                   before == f[m - 1]
        <3>1. Some(m) = Some(m - 1) \cup {m} /\ m \notin Some(m - 1)
            BY <1>1, <2>3
        <3>2. f[m] = Append(before, v) /\ v \in Values
            BY <2>1, <2>3
        <3>3. before \in Seq(Values) /\ Seen(m - 1, before)
            BY <2>1
        <3> HIDE DEF Some, Values, v, before
        <3>4. /\ f[m] \in States /\ Len(f[m]) = Len(before) + 1 /\ Len(before) \in Nat
              /\ Rules!ToSet(f[m]) = Rules!ToSet(before) \cup {v}
              /\ Rules!IsInjective(f[m])
                    <=> Rules!IsInjective(before) /\ v \notin Rules!ToSet(before)
            BY <3>2, <3>3, SeenOneMore
        <3>5. Rules!ToSet(f[m]) = {Rules!Category(cs[k]) : k \in Some(m)}
            BY <3>1, <3>3, <3>4 DEF v
        <3>6. Apart(m) <=> Apart(m - 1) /\ v \notin Rules!ToSet(before)
            <4>1. v \in Rules!ToSet(before) <=> \E k \in Some(m - 1) : Rules!Category(cs[k]) = v
                BY <3>3
            <4>2. ASSUME Apart(m) PROVE Apart(m - 1) /\ v \notin Rules!ToSet(before)
                BY <3>1, <4>1, <4>2 DEF v
            <4>3. ASSUME Apart(m - 1), v \notin Rules!ToSet(before) PROVE Apart(m)
                BY <3>1, <4>1, <4>3 DEF v
            <4> QED
                BY <4>2, <4>3
        <3>7. Pairs(m) <=> Some(m - 1) # {}
            BY <3>1
        <3> HIDE DEF Apart, Pairs, States
        <3>8. Seen(m, f[m])
            <4>1. Rules!IsInjective(f[m]) <=> Apart(m)
                BY <3>3, <3>4, <3>6
            <4>2. Len(f[m]) = 0 <=> Some(m) = {}
                BY <3>1, <3>4
            <4>3. Len(f[m]) > 1 <=> Pairs(m)
                BY <3>3, <3>4, <3>7
            <4> QED
                BY <3>4, <3>5, <4>1, <4>2, <4>3
        <3> HIDE DEF Seen
        <3> QED
            BY <3>8
    <2> QED
        BY <2>2, <2>3
<1>8. n \in Held
    <2> HIDE DEF Held
    <2>1. n \in 0 .. n
        BY <1>1
    <2> QED
        BY <1>1, <1>6, <1>7, <2>1, PassedOn
<1>9. Some(n) = Naming(cs, kind)
    BY <1>1 DEF Naming
<1>10. Seen(n, f[n])
    BY <1>8
<1> HIDE DEF Some, States
<1> QED
    BY <1>4, <1>9, <1>10

\* The category rule is one on pairs of clauses.
LEMMA CategoryErrorsByPairs ==
    ASSUME NEW S, NEW cs \in Seq(S)
    PROVE  Rules!CategoryErrors(cs) # {} <=>
            \E kind \in {"default", "defaultmap"} :
                \E i, j \in Naming(cs, kind) :
                    /\ i # j
                    /\ \/ Rules!Category(cs[i]) = Rules!Category(cs[j])
                       \/ Rules!Category(cs[i]) = "all"
<1> DEFINE seen(kind) == Rules!CategoriesSeen(cs, kind)
           Bad(kind) == ~Rules!IsInjective(seen(kind))
                            \/ ("all" \in Rules!ToSet(seen(kind)) /\ Len(seen(kind)) > 1)
           Pair(kind) == \E i, j \in Naming(cs, kind) :
                            /\ i # j
                            /\ \/ Rules!Category(cs[i]) = Rules!Category(cs[j])
                               \/ Rules!Category(cs[i]) = "all"
<1>1. Rules!CategoryErrors(cs) # {} <=> \E kind \in {"default", "defaultmap"} : Bad(kind)
    BY DEF Rules!CategoryErrors
<1>2. ASSUME NEW kind PROVE Bad(kind) <=> Pair(kind)
    <2>1. /\ Rules!ToSet(seen(kind)) = {Rules!Category(cs[i]) : i \in Naming(cs, kind)}
          /\ Rules!IsInjective(seen(kind)) <=>
                \A i, j \in Naming(cs, kind) :
                    i # j => Rules!Category(cs[i]) # Rules!Category(cs[j])
          /\ Len(seen(kind)) > 1 <=> \E i, j \in Naming(cs, kind) : i # j
        BY CategoriesByPairs
    <2> HIDE DEF seen
    <2>2. ASSUME "all" \in Rules!ToSet(seen(kind)), Len(seen(kind)) > 1 PROVE Pair(kind)
        <3>1. PICK i \in Naming(cs, kind) : Rules!Category(cs[i]) = "all"
            BY <2>1, <2>2
        <3>2. PICK a \in Naming(cs, kind), b \in Naming(cs, kind) : a # b
            BY <2>1, <2>2
        <3>3. CASE i # a
            BY <3>1, <3>2, <3>3
        <3>4. CASE i # b
            BY <3>1, <3>2, <3>4
        <3> QED
            BY <3>2, <3>3, <3>4
    <2>3. ~Rules!IsInjective(seen(kind)) => Pair(kind)
        BY <2>1
    <2>4. ASSUME Pair(kind) PROVE Bad(kind)
        <3>1. PICK i \in Naming(cs, kind), j \in Naming(cs, kind) :
                /\ i # j
                /\ \/ Rules!Category(cs[i]) = Rules!Category(cs[j])
                   \/ Rules!Category(cs[i]) = "all"
            BY <2>4
        <3>2. CASE Rules!Category(cs[i]) = Rules!Category(cs[j])
            BY <2>1, <3>1, <3>2
        <3>3. CASE Rules!Category(cs[i]) = "all"
            BY <2>1, <3>1, <3>3
        <3> QED
            BY <3>1, <3>2, <3>3
    <2> QED
        BY <2>2, <2>3, <2>4
<1> HIDE DEF Bad, Pair
<1>3. (\E kind \in {"default", "defaultmap"} : Bad(kind))
        <=> \E kind \in {"default", "defaultmap"} : Pair(kind)
    BY <1>2
<1> QED
    BY <1>1, <1>3 DEF Pair

-----------------------------------------------------------------------------
(* Counting, and lists that are parts of others. *)

\* A cardinality is zero if there is nothing, and more than one if there are two.
LEMMA CardinalityMeans ==
    ASSUME NEW n \in Nat, NEW P \in SUBSET (1 .. n)
    PROVE  /\ IsFiniteSet(P) /\ Cardinality(P) \in Nat
           /\ Cardinality(P) = 0 <=> P = {}
           /\ Cardinality(P) > 1 <=> \E i, j \in P : i # j
<1>1. IsFiniteSet(P)
    <2>1. IsFiniteSet(1 .. n)
        BY FS_Interval
    <2> QED
        BY <2>1, FS_Subset
<1>2. Cardinality(P) \in Nat
    BY <1>1, FS_CardinalityType
<1>3. Cardinality(P) = 0 <=> P = {}
    BY <1>1, FS_EmptySet
<1>4. Cardinality(P) = 1 <=> \E x : P = {x}
    BY <1>1, FS_Singleton
<1>5. Cardinality(P) > 1 <=> \E i, j \in P : i # j
    <2>1. Cardinality(P) > 1 <=> Cardinality(P) # 0 /\ Cardinality(P) # 1
        BY <1>2
    <2>2. ASSUME P # {}, ~\E x : P = {x} PROVE \E i, j \in P : i # j
        <3>1. PICK i \in P : TRUE
            BY <2>2
        <3>2. P # {i}
            BY <2>2
        <3>3. \E j \in P : j # i
            BY <3>1, <3>2
        <3> QED
            BY <3>1, <3>3
    <2>3. (\E i, j \in P : i # j) => P # {} /\ ~\E x : P = {x}
        OBVIOUS
    <2> QED
        BY <1>3, <1>4, <2>1, <2>2, <2>3
<1> QED
    BY <1>1, <1>2, <1>3, <1>5

\* The same, for the clauses of some kinds.
LEMMA CountMeans ==
    ASSUME NEW S, NEW cs \in Seq(S), NEW kinds
    PROVE  /\ Rules!Count(cs, kinds) = 0 <=> \A i \in DOMAIN cs : cs[i].kind \notin kinds
           /\ Rules!Count(cs, kinds) > 1
                <=> \E i, j \in DOMAIN cs : i # j /\ cs[i].kind \in kinds /\ cs[j].kind \in kinds
<1> DEFINE P == Rules!Positions(cs, kinds)
<1>1. Rules!Count(cs, kinds) = Cardinality(P)
    BY DEF Rules!Count, Rules!Cardinality, Cardinality
<1>2. P = {i \in DOMAIN cs : cs[i].kind \in kinds}
    BY DEF Rules!Positions
<1>3. DOMAIN cs = 1 .. Len(cs) /\ Len(cs) \in Nat
    OBVIOUS
<1> HIDE DEF P
<1>4. /\ Cardinality(P) = 0 <=> P = {}
      /\ Cardinality(P) > 1 <=> \E i, j \in P : i # j
    BY <1>2, <1>3, CardinalityMeans
<1> QED
    BY <1>1, <1>2, <1>4

\* The clauses of ds are among those of cs, each in a place of its own.
Places(p, ds, cs) ==
    /\ p \in [DOMAIN ds -> DOMAIN cs]
    /\ \A i, j \in DOMAIN ds : i # j => p[i] # p[j]
    /\ \A i \in DOMAIN ds : ds[i] = cs[p[i]]

\* What there is of a part there is of the whole.
LEMMA PartCounts ==
    ASSUME NEW S, NEW ds \in Seq(S), NEW cs \in Seq(S), NEW p, Places(p, ds, cs), NEW kinds
    PROVE  /\ Rules!Count(cs, kinds) = 0 => Rules!Count(ds, kinds) = 0
           /\ Rules!Count(ds, kinds) > 1 => Rules!Count(cs, kinds) > 1
           /\ Rules!HasTargetsync(ds) => Rules!HasTargetsync(cs)
<1> USE DEF Places
<1>1. ASSUME Rules!Count(cs, kinds) = 0 PROVE Rules!Count(ds, kinds) = 0
    <2>1. \A i \in DOMAIN cs : cs[i].kind \notin kinds
        BY <1>1, CountMeans
    <2>2. \A i \in DOMAIN ds : ds[i].kind \notin kinds
        BY <2>1
    <2> QED
        BY <2>2, CountMeans
<1>2. ASSUME Rules!Count(ds, kinds) > 1 PROVE Rules!Count(cs, kinds) > 1
    <2>1. PICK i \in DOMAIN ds, j \in DOMAIN ds :
            i # j /\ ds[i].kind \in kinds /\ ds[j].kind \in kinds
        BY <1>2, CountMeans
    <2>2. /\ p[i] \in DOMAIN cs /\ p[j] \in DOMAIN cs /\ p[i] # p[j]
          /\ cs[p[i]].kind \in kinds /\ cs[p[j]].kind \in kinds
        BY <2>1
    <2> QED
        BY <2>2, CountMeans
<1>3. Rules!HasTargetsync(ds) => Rules!HasTargetsync(cs)
    BY DEF Rules!HasTargetsync, Rules!Positions
<1> QED
    BY <1>1, <1>2, <1>3

\* The errors that no other clause mends.
Standing(d, cs) ==
    (UNION {Rules!ClauseErrors(d, cs[i]) : i \in DOMAIN cs})
        \cup Rules!ExclusionErrors(d, cs) \cup Rules!IfErrors(cs)
        \cup Rules!CategoryErrors(cs) \cup Rules!EndErrors(d, cs)

\* These errors of a part are errors of the whole.
LEMMA PartErrors ==
    ASSUME NEW S, NEW ds \in Seq(S), NEW cs \in Seq(S), NEW p, Places(p, ds, cs), NEW d
    PROVE  Standing(d, ds) \subseteq Standing(d, cs)
<1>1. UNION {Rules!ClauseErrors(d, ds[i]) : i \in DOMAIN ds}
        \subseteq UNION {Rules!ClauseErrors(d, cs[i]) : i \in DOMAIN cs}
    BY DEF Places
<1>2. Rules!ExclusionErrors(d, ds) \subseteq Rules!ExclusionErrors(d, cs)
    <2>1. \A kinds : /\ Rules!Count(cs, kinds) = 0 => Rules!Count(ds, kinds) = 0
                     /\ Rules!Count(ds, kinds) > 1 => Rules!Count(cs, kinds) > 1
        BY PartCounts
    <2> QED
        BY <2>1 DEF Rules!ExclusionErrors
<1>3. Rules!IfErrors(ds) \subseteq Rules!IfErrors(cs)
    <2> SUFFICES ASSUME Rules!IfErrors(ds) # {} PROVE Rules!IfErrors(cs) # {}
        BY DEF Rules!IfErrors
    <2>1. PICK i \in DOMAIN ds, j \in DOMAIN ds :
            i # j /\ ds[i].kind = "if" /\ ds[j].kind = "if" /\ ds[i].detail = ds[j].detail
        BY IfByPairs
    <2>2. /\ p[i] \in DOMAIN cs /\ p[j] \in DOMAIN cs /\ p[i] # p[j]
          /\ ds[i] = cs[p[i]] /\ ds[j] = cs[p[j]]
        BY <2>1 DEF Places
    <2> QED
        BY <2>1, <2>2, IfByPairs
<1>4. Rules!CategoryErrors(ds) \subseteq Rules!CategoryErrors(cs)
    <2> SUFFICES ASSUME Rules!CategoryErrors(ds) # {} PROVE Rules!CategoryErrors(cs) # {}
        BY DEF Rules!CategoryErrors
    <2>1. PICK kind \in {"default", "defaultmap"} :
            \E i, j \in Naming(ds, kind) :
                /\ i # j
                /\ \/ Rules!Category(ds[i]) = Rules!Category(ds[j])
                   \/ Rules!Category(ds[i]) = "all"
        BY CategoryErrorsByPairs
    <2>2. PICK i \in Naming(ds, kind), j \in Naming(ds, kind) :
            /\ i # j
            /\ \/ Rules!Category(ds[i]) = Rules!Category(ds[j])
               \/ Rules!Category(ds[i]) = "all"
        BY <2>1
    <2>3. p[i] # p[j] /\ ds[i] = cs[p[i]] /\ ds[j] = cs[p[j]]
        BY <2>2 DEF Places, Naming
    <2>4. p[i] \in Naming(cs, kind) /\ p[j] \in Naming(cs, kind)
        BY <2>2, <2>3 DEF Places, Naming
    <2> QED
        BY <2>1, <2>2, <2>3, <2>4, CategoryErrorsByPairs
<1>5. Rules!EndErrors(d, ds) \subseteq Rules!EndErrors(d, cs)
    BY DEF Places, Rules!EndErrors
<1> QED
    BY <1>1, <1>2, <1>3, <1>4, <1>5 DEF Standing

\* The errors of a list are those and the ones of what is missing.
LEMMA ErrorsSplit ==
    ASSUME NEW d, NEW cs
    PROVE  Rules!Errors(d, cs)
            = Standing(d, cs) \cup Rules!MissingErrors(d, cs) \cup Rules!PayloadErrors(d, cs)
<1> DEFINE ofClauses == UNION {Rules!ClauseErrors(d, cs[i]) : i \in DOMAIN cs}
<1>1. Standing(d, cs) = ofClauses \cup Rules!ExclusionErrors(d, cs) \cup Rules!IfErrors(cs)
                            \cup Rules!CategoryErrors(cs) \cup Rules!EndErrors(d, cs)
    BY DEF Standing
<1>2. Rules!Errors(d, cs) = ofClauses \cup Rules!MissingErrors(d, cs)
            \cup Rules!ExclusionErrors(d, cs) \cup Rules!IfErrors(cs)
            \cup Rules!CategoryErrors(cs) \cup Rules!EndErrors(d, cs)
            \cup Rules!PayloadErrors(d, cs)
    BY DEF Rules!Errors
<1> HIDE DEF ofClauses
<1> QED
    BY <1>1, <1>2

\* Lists of the same clauses have the same errors.
LEMMA SameClauses ==
    ASSUME NEW S, NEW ds \in Seq(S), NEW cs \in Seq(S), NEW d,
           NEW p, Places(p, ds, cs), NEW q, Places(q, cs, ds)
    PROVE  Rules!Errors(d, ds) = Rules!Errors(d, cs)
<1>1. Standing(d, ds) = Standing(d, cs)
    <2>1. Standing(d, ds) \subseteq Standing(d, cs)
        BY PartErrors
    <2>2. Standing(d, cs) \subseteq Standing(d, ds)
        BY PartErrors
    <2> QED
        BY <2>1, <2>2
<1>2. \A kinds : Rules!Count(ds, kinds) = 0 <=> Rules!Count(cs, kinds) = 0
    BY PartCounts
<1>3. Rules!HasTargetsync(ds) <=> Rules!HasTargetsync(cs)
    BY PartCounts
<1>4. Rules!MissingErrors(d, ds) = Rules!MissingErrors(d, cs)
    BY <1>2, <1>3 DEF Rules!MissingErrors
<1>5. Rules!PayloadErrors(d, ds) = Rules!PayloadErrors(d, cs)
    BY <1>2 DEF Rules!PayloadErrors
<1> QED
    BY <1>1, <1>4, <1>5, ErrorsSplit

-----------------------------------------------------------------------------
(* The rules, by clauses and by pairs of clauses. *)

\* Of two places one is the first.
LEMMA OneIsFirst ==
    ASSUME NEW S, NEW cs \in Seq(S), NEW i \in DOMAIN cs, NEW j \in DOMAIN cs, i # j
    PROVE  i < j \/ j < i
<1>1. DOMAIN cs = 1 .. Len(cs) /\ Len(cs) \in Nat
    OBVIOUS
<1> QED
    BY <1>1

\* No exclusive set is used twice and no two kinds that exclude each other are
\* there, if no two clauses say so.
LEMMA ExclusionByPairs ==
    ASSUME NEW S, NEW cs \in Seq(S), NEW d
    PROVE  Rules!ExclusionErrors(d, cs) = {} <=>
            \A i, j \in DOMAIN cs : i < j =>
                /\ ~\E kinds \in Rules!AtMostOne(d.kind) :
                        cs[i].kind \in kinds /\ cs[j].kind \in kinds
                /\ {cs[i].kind, cs[j].kind} \notin Rules!Apart
<1> DEFINE Sets == Rules!AtMostOne(d.kind)
           Clash(i, j) == \/ \E kinds \in Sets : cs[i].kind \in kinds /\ cs[j].kind \in kinds
                          \/ {cs[i].kind, cs[j].kind} \in Rules!Apart
           More(kinds) == Rules!Count(cs, kinds) > 1
           No(kinds) == Rules!Count(cs, kinds) = 0
<1>1. Rules!ExclusionErrors(d, cs) = {} <=>
        /\ \A kinds \in Sets : ~More(kinds)
        /\ \A pair \in Rules!Apart : \E k \in pair : No({k})
    BY DEF Rules!ExclusionErrors
<1>2. \A kinds : More(kinds)
        <=> \E i, j \in DOMAIN cs : i # j /\ cs[i].kind \in kinds /\ cs[j].kind \in kinds
    BY CountMeans
<1>3. \A k : No({k}) <=> \A i \in DOMAIN cs : cs[i].kind # k
    BY CountMeans
<1> HIDE DEF Sets, More, No
<1>4. ASSUME NEW i \in DOMAIN cs, NEW j \in DOMAIN cs, i < j, Clash(i, j)
      PROVE  \/ \E kinds \in Sets : More(kinds)
             \/ \E pair \in Rules!Apart : \A k \in pair : ~No({k})
    <2>1. i # j
        <3>1. DOMAIN cs = 1 .. Len(cs) /\ Len(cs) \in Nat
            OBVIOUS
        <3> QED
            BY <1>4, <3>1
    <2>2. CASE \E kinds \in Sets : cs[i].kind \in kinds /\ cs[j].kind \in kinds
        BY <1>2, <2>1, <2>2
    <2>3. CASE {cs[i].kind, cs[j].kind} \in Rules!Apart
        BY <1>3, <2>3
    <2> QED
        BY <1>4, <2>2, <2>3
<1>5. ASSUME NEW kinds \in Sets, More(kinds)
      PROVE  \E i, j \in DOMAIN cs : i < j /\ Clash(i, j)
    <2>1. PICK i \in DOMAIN cs, j \in DOMAIN cs :
            i # j /\ cs[i].kind \in kinds /\ cs[j].kind \in kinds
        BY <1>2, <1>5
    <2>2. Clash(i, j) /\ Clash(j, i)
        BY <2>1
    <2> HIDE DEF Clash
    <2> QED
        BY <2>1, <2>2, OneIsFirst
<1>6. ASSUME NEW pair \in Rules!Apart, \A k \in pair : ~No({k})
      PROVE  \E i, j \in DOMAIN cs : i < j /\ Clash(i, j)
    <2>1. PICK a, b : a # b /\ pair = {a, b}
        BY DEF Rules!Apart
    <2>2. PICK i \in DOMAIN cs : cs[i].kind = a
        BY <1>3, <1>6, <2>1
    <2>3. PICK j \in DOMAIN cs : cs[j].kind = b
        BY <1>3, <1>6, <2>1
    <2>4. i # j /\ Clash(i, j) /\ Clash(j, i)
        <3>1. {cs[i].kind, cs[j].kind} = pair /\ {cs[j].kind, cs[i].kind} = pair
            BY <2>1, <2>2, <2>3
        <3> QED
            BY <2>1, <2>2, <2>3, <3>1
    <2> HIDE DEF Clash
    <2> QED
        BY <2>4, OneIsFirst
<1>7. Rules!ExclusionErrors(d, cs) = {}
        <=> \A i, j \in DOMAIN cs : i < j => ~Clash(i, j)
    <2> HIDE DEF Clash
    <2> QED
        BY <1>1, <1>4, <1>5, <1>6
<1> QED
    BY <1>7 DEF Sets

\* The rule on IF, for two clauses in their order.
LEMMA IfInOrder ==
    ASSUME NEW S, NEW cs \in Seq(S)
    PROVE  Rules!IfErrors(cs) = {} <=>
            \A i, j \in DOMAIN cs : i < j =>
                (cs[i].kind = "if" /\ cs[j].kind = "if" => cs[i].detail # cs[j].detail)
<1> DEFINE Clash(i, j) == cs[i].kind = "if" /\ cs[j].kind = "if" /\ cs[i].detail = cs[j].detail
<1>1. Rules!IfErrors(cs) # {} <=> \E i, j \in DOMAIN cs : i # j /\ Clash(i, j)
    BY IfByPairs
<1>2. \A i, j \in DOMAIN cs : Clash(i, j) <=> Clash(j, i)
    OBVIOUS
<1>3. \A i, j \in DOMAIN cs : i < j => i # j
    <2>1. DOMAIN cs = 1 .. Len(cs) /\ Len(cs) \in Nat
        OBVIOUS
    <2> QED
        BY <2>1
<1>4. \A i, j \in DOMAIN cs : i # j => i < j \/ j < i
    BY OneIsFirst
<1>5. Rules!IfErrors(cs) = {} <=> \A i, j \in DOMAIN cs : i < j => ~Clash(i, j)
    <2> HIDE DEF Clash
    <2> QED
        BY <1>1, <1>2, <1>3, <1>4
<1> QED
    BY <1>5

\* The rule on variable categories, for two clauses in their order.
LEMMA CategoriesInOrder ==
    ASSUME NEW S, NEW cs \in Seq(S)
    PROVE  Rules!CategoryErrors(cs) = {} <=>
            \A i, j \in DOMAIN cs : i < j =>
                (Rules!Categories(cs[i], cs[j]) =>
                    /\ Rules!Category(cs[i]) # Rules!Category(cs[j])
                    /\ "all" \notin {Rules!Category(cs[i]), Rules!Category(cs[j])})
<1> DEFINE v(i) == Rules!Category(cs[i])
           Both(i, j) == Rules!Categories(cs[i], cs[j])
           Clash(i, j) == Both(i, j) /\ (v(i) = v(j) \/ v(i) = "all" \/ v(j) = "all")
           Meet(i, j) == Both(i, j) /\ (v(i) = v(j) \/ v(i) = "all")
<1>1. \A i, j \in DOMAIN cs :
        Both(i, j) <=> \E kind \in {"default", "defaultmap"} :
                            i \in Naming(cs, kind) /\ j \in Naming(cs, kind)
    BY DEF Rules!Categories, Naming
<1>2. \A kind : Naming(cs, kind) \subseteq DOMAIN cs
    BY DEF Naming
<1>3. Rules!CategoryErrors(cs) # {} <=> \E i, j \in DOMAIN cs : i # j /\ Meet(i, j)
    <2>1. Rules!CategoryErrors(cs) # {} <=>
            \E kind \in {"default", "defaultmap"} :
                \E i, j \in Naming(cs, kind) : i # j /\ (v(i) = v(j) \/ v(i) = "all")
        BY CategoryErrorsByPairs
    <2> HIDE DEF v, Both
    <2> QED
        BY <1>1, <1>2, <2>1
<1>4. \A i, j \in DOMAIN cs : Both(i, j) <=> Both(j, i)
    BY DEF Rules!Categories
<1> HIDE DEF Both, v
<1>5. \A i, j \in DOMAIN cs : Clash(i, j) <=> Meet(i, j) \/ Meet(j, i)
    BY <1>4
<1>6. \A i, j \in DOMAIN cs : i < j => i # j
    <2>1. DOMAIN cs = 1 .. Len(cs) /\ Len(cs) \in Nat
        OBVIOUS
    <2> QED
        BY <2>1
<1>7. \A i, j \in DOMAIN cs : i # j => i < j \/ j < i
    BY OneIsFirst
<1>8. Rules!CategoryErrors(cs) = {} <=> \A i, j \in DOMAIN cs : i < j => ~Clash(i, j)
    <2> HIDE DEF Clash, Meet
    <2> QED
        BY <1>3, <1>5, <1>6, <1>7
<1>9. \A i, j \in DOMAIN cs :
        ~Clash(i, j) <=> (Both(i, j) => v(i) # v(j) /\ "all" \notin {v(i), v(j)})
    OBVIOUS
<1> HIDE DEF Clash
<1>10. Rules!CategoryErrors(cs) = {} <=>
        \A i, j \in DOMAIN cs : i < j => (Both(i, j) => v(i) # v(j) /\ "all" \notin {v(i), v(j)})
    BY <1>8, <1>9
<1> QED
    BY <1>10 DEF Both, v

\* A directive has no error exactly when no clause, no pair of clauses and
\* nothing that is missing is one.
LEMMA RulesByPairs ==
    ASSUME NEW S, s2 \in Seq(S)
    PROVE  Rules!AcceptedPairwise
<1> DEFINE d == s1
           cs == s2
           Each == \A i \in DOMAIN cs : Rules!ClauseErrors(d, cs[i]) = {}
           AtEnd == d.kind = "end" => \A i \in DOMAIN cs : Rules!AllowedAtEnd(d, cs[i])
           Paired == d.kind = "end" => d.paired # "none"
           Fit == \A i, j \in DOMAIN cs : i < j => Rules!Compatible(d.kind, cs[i], cs[j])
           Whole == Rules!MissingErrors(d, cs) = {} /\ Rules!PayloadErrors(d, cs) = {}
<1>1. (UNION {Rules!ClauseErrors(d, cs[i]) : i \in DOMAIN cs}) = {} <=> Each
    OBVIOUS
<1>2. Rules!EndErrors(d, cs) = {} <=> AtEnd /\ Paired
    BY DEF Rules!EndErrors
<1>3. Fit <=> /\ Rules!ExclusionErrors(d, cs) = {}
              /\ Rules!IfErrors(cs) = {}
              /\ Rules!CategoryErrors(cs) = {}
    <2> DEFINE Excl(i, j) == /\ ~\E kinds \in Rules!AtMostOne(d.kind) :
                                    cs[i].kind \in kinds /\ cs[j].kind \in kinds
                             /\ {cs[i].kind, cs[j].kind} \notin Rules!Apart
               Ifs(i, j) == cs[i].kind = "if" /\ cs[j].kind = "if" => cs[i].detail # cs[j].detail
               Cats(i, j) == Rules!Categories(cs[i], cs[j]) =>
                                /\ Rules!Category(cs[i]) # Rules!Category(cs[j])
                                /\ "all" \notin {Rules!Category(cs[i]), Rules!Category(cs[j])}
    <2>1. \A i, j \in DOMAIN cs :
            Rules!Compatible(d.kind, cs[i], cs[j]) <=> Excl(i, j) /\ Ifs(i, j) /\ Cats(i, j)
        BY DEF Rules!Compatible
    <2>2. Rules!ExclusionErrors(d, cs) = {} <=> \A i, j \in DOMAIN cs : i < j => Excl(i, j)
        BY ExclusionByPairs
    <2>3. Rules!IfErrors(cs) = {} <=> \A i, j \in DOMAIN cs : i < j => Ifs(i, j)
        BY IfInOrder
    <2>4. Rules!CategoryErrors(cs) = {} <=> \A i, j \in DOMAIN cs : i < j => Cats(i, j)
        BY CategoriesInOrder
    <2> HIDE DEF Excl, Ifs, Cats
    <2> QED
        BY <2>1, <2>2, <2>3, <2>4
<1>4. Standing(d, cs) = {} <=> Each /\ AtEnd /\ Paired /\ Fit
    <2> DEFINE ofClauses == UNION {Rules!ClauseErrors(d, cs[i]) : i \in DOMAIN cs}
    <2>1. Standing(d, cs) = ofClauses \cup Rules!ExclusionErrors(d, cs) \cup Rules!IfErrors(cs)
                                \cup Rules!CategoryErrors(cs) \cup Rules!EndErrors(d, cs)
        BY DEF Standing
    <2>2. ofClauses = {} <=> Each
        BY <1>1
    <2> HIDE DEF ofClauses, Each, AtEnd, Paired, Fit
    <2> QED
        BY <1>2, <1>3, <2>1, <2>2
<1>5. Rules!Errors(d, cs) = {} <=> Standing(d, cs) = {} /\ Whole
    BY ErrorsSplit
<1>6. Each /\ AtEnd <=> \A i \in DOMAIN cs : Rules!Bearable(d, cs[i])
    BY DEF Rules!Bearable
<1>7. Rules!AcceptedPairwise <=>
        (Rules!Errors(d, cs) = {} <=>
            (\A i \in DOMAIN cs : Rules!Bearable(d, cs[i])) /\ Fit /\ Whole /\ Paired)
    BY DEF Rules!AcceptedPairwise
<1> HIDE DEF Each, AtEnd, Paired, Fit, Whole
<1> QED
    BY <1>4, <1>5, <1>6, <1>7

\* To swap two neighbours is to put the clauses in other places.
LEMMA RulesInAnyOrder ==
    ASSUME NEW S, s2 \in Seq(S)
    PROVE  Rules!VerdictIsOrderFree
<1> SUFFICES ASSUME NEW i \in 1 .. Len(s2) - 1
             PROVE  Rules!Errors(s1, Rules!Swapped(i)) = Rules!Errors(s1, s2)
    BY DEF Rules!VerdictIsOrderFree
<1> DEFINE n == Len(s2)
           swapped == [s2 EXCEPT ![i] = s2[i + 1], ![i + 1] = s2[i]]
           p == [k \in 1 .. n |-> IF k = i THEN i + 1 ELSE IF k = i + 1 THEN i ELSE k]
<1>1. n \in Nat /\ DOMAIN s2 = 1 .. n /\ i \in 1 .. n /\ i + 1 \in 1 .. n /\ i # i + 1
    OBVIOUS
<1>2. swapped \in Seq(S) /\ DOMAIN swapped = 1 .. n
    BY <1>1
<1>3. \A k \in 1 .. n : swapped[k] = s2[p[k]] /\ s2[k] = swapped[p[k]]
    BY <1>1
<1>4. /\ p \in [1 .. n -> 1 .. n]
      /\ \A k, m \in 1 .. n : k # m => p[k] # p[m]
    BY <1>1
<1>5. Rules!Swapped(i) = swapped
    BY DEF Rules!Swapped
<1> HIDE DEF swapped, p, n
<1>6. Places(p, swapped, s2) /\ Places(p, s2, swapped)
    BY <1>1, <1>2, <1>3, <1>4 DEF Places
<1> QED
    BY <1>2, <1>5, <1>6, SameClauses

\* A clause more mends only what was missing.
LEMMA RulesKeepErrors ==
    ASSUME NEW S, s2 \in Seq(S), NEW clause \in S, s1' = s1, s2' = Append(s2, clause)
    PROVE  Rules!KeepsErrors
<1> DEFINE n == Len(s2)
           more == Append(s2, clause)
           p == [k \in 1 .. n |-> k]
<1>1. /\ n \in Nat /\ DOMAIN s2 = 1 .. n
      /\ more \in Seq(S) /\ DOMAIN more = 1 .. n + 1
      /\ \A k \in 1 .. n : more[k] = s2[k]
    OBVIOUS
<1>2. p \in [1 .. n -> 1 .. n + 1] /\ \A k \in 1 .. n : p[k] = k
    BY <1>1
<1> HIDE DEF more, p, n
<1>3. Places(p, s2, more)
    BY <1>1, <1>2 DEF Places
<1>4. Standing(s1, s2) \subseteq Standing(s1, more)
    BY <1>1, <1>3, PartErrors
<1>5. /\ Rules!Errors(s1, s2) = Standing(s1, s2) \cup Rules!MissingErrors(s1, s2)
                                    \cup Rules!PayloadErrors(s1, s2)
      /\ Standing(s1, more) \subseteq Rules!Errors(s1, more)
    BY ErrorsSplit
<1> QED
    BY <1>4, <1>5 DEF Rules!KeepsErrors, more

\* A step adds a clause.
LEMMA RuleStep ==
    ASSUME Rules!Next
    PROVE  s1' = s1 /\ \E clause \in ScopeClauses(s1) : s2' = Append(s2, clause)
    BY DEF Rules!Next, Rules!AddClause

-----------------------------------------------------------------------------
(* The modifiers of INIT. *)

\* The places of a value.
At(list, value) == {i \in DOMAIN list : list[i].value = value}
Depinfos(list) == {i \in DOMAIN list : list[i].category = "Depinfo"}

\* The counters, by places.
LEMMA ModifierCounts ==
    ASSUME NEW list \in Seq(Modifiers!Modifier)
    PROVE  /\ \A value : /\ Modifiers!Count(list, value) \in Nat
                         /\ Modifiers!Count(list, value) = 0 <=> At(list, value) = {}
                         /\ Modifiers!Count(list, value) > 1
                                <=> \E i, j \in At(list, value) : i # j
           /\ Modifiers!CountDepinfo(list) = 0 <=> Depinfos(list) = {}
           /\ Modifiers!CountDepinfo(list) > 1 <=> \E i, j \in Depinfos(list) : i # j
<1>1. DOMAIN list = 1 .. Len(list) /\ Len(list) \in Nat
    <2> HIDE DEF Modifiers!Modifier
    <2> QED
        OBVIOUS
<1>2. ASSUME NEW value
      PROVE  /\ Modifiers!Count(list, value) \in Nat
             /\ Modifiers!Count(list, value) = 0 <=> At(list, value) = {}
             /\ Modifiers!Count(list, value) > 1 <=> \E i, j \in At(list, value) : i # j
    <2>1. Modifiers!Count(list, value) = Cardinality(At(list, value))
        BY DEF Modifiers!Count, Modifiers!Cardinality, Cardinality, At
    <2>2. At(list, value) \in SUBSET (1 .. Len(list))
        BY <1>1 DEF At
    <2> DEFINE n == Len(list)
               P == At(list, value)
    <2>3. n \in Nat /\ P \in SUBSET (1 .. n)
        BY <1>1, <2>2
    <2> HIDE DEF n, P
    <2>4. /\ Cardinality(P) \in Nat
          /\ Cardinality(P) = 0 <=> P = {}
          /\ Cardinality(P) > 1 <=> \E i, j \in P : i # j
        BY <2>3, CardinalityMeans
    <2> QED
        BY <2>1, <2>4 DEF P
<1>3. /\ Modifiers!CountDepinfo(list) = 0 <=> Depinfos(list) = {}
      /\ Modifiers!CountDepinfo(list) > 1 <=> \E i, j \in Depinfos(list) : i # j
    <2>1. Modifiers!CountDepinfo(list) = Cardinality(Depinfos(list))
        BY DEF Modifiers!CountDepinfo, Modifiers!Cardinality, Cardinality, Depinfos
    <2>2. Depinfos(list) \in SUBSET (1 .. Len(list))
        BY <1>1 DEF Depinfos
    <2> DEFINE n == Len(list)
               P == Depinfos(list)
    <2>3. n \in Nat /\ P \in SUBSET (1 .. n)
        BY <1>1, <2>2
    <2> HIDE DEF n, P
    <2>4. /\ Cardinality(P) \in Nat
          /\ Cardinality(P) = 0 <=> P = {}
          /\ Cardinality(P) > 1 <=> \E i, j \in P : i # j
        BY <2>3, CardinalityMeans
    <2> QED
        BY <2>1, <2>4 DEF P
<1> QED
    BY <1>2, <1>3

\* Which values the categories have, and what sort a modifier is of.
LEMMA ModifierSorts ==
    ASSUME NEW m \in Modifiers!Modifier
    PROVE  \/ /\ m.category = "InteropType" /\ m.value \in {"target", "targetsync", "unknown"}
              /\ Modifiers!Sort(m) = m.value
           \/ /\ m.category = "DirectiveName" /\ m.value \in {"depobj", "interop", "unknown"}
              /\ Modifiers!Sort(m) = "DirectiveName"
           \/ /\ m.category = "PreferType" /\ m.value = "prefer_type"
              /\ Modifiers!Sort(m) = m.value
           \/ /\ m.category = "Depinfo" /\ m.value \in {"in", "out", "unknown"}
              /\ Modifiers!Sort(m) = "Depinfo"
    BY DEF Modifiers!Modifier, Modifiers!InteropTypes, Modifiers!DirectiveNames,
           Modifiers!DependenceTypes, Modifiers!Sort

\* Two counters exceed one together if two places count.
LEMMA SumExceedsOne ==
    ASSUME NEW list \in Seq(Modifiers!Modifier), NEW a, NEW b, a # b
    PROVE  Modifiers!Count(list, a) + Modifiers!Count(list, b) > 1
            <=> \E i, j \in At(list, a) \cup At(list, b) : i # j
<1> DEFINE x == Modifiers!Count(list, a)
           y == Modifiers!Count(list, b)
           A == At(list, a)
           B == At(list, b)
<1>1. /\ x \in Nat /\ y \in Nat
      /\ x = 0 <=> A = {}
      /\ y = 0 <=> B = {}
      /\ x > 1 <=> \E i, j \in A : i # j
      /\ y > 1 <=> \E i, j \in B : i # j
    BY ModifierCounts
<1>2. A \cap B = {}
    BY DEF At
<1> HIDE DEF x, y, A, B
<1>3. x + y > 1 <=> x > 1 \/ y > 1 \/ (x # 0 /\ y # 0)
    BY <1>1
<1>4. (\E i, j \in A \cup B : i # j)
        <=> (\E i, j \in A : i # j) \/ (\E i, j \in B : i # j) \/ (A # {} /\ B # {})
    BY <1>2
<1> QED
    BY <1>1, <1>3, <1>4 DEF x, y, A, B

\* No two modifiers are of one sort, in terms of the counters.
LEMMA SortsByCounts ==
    ASSUME NEW list \in Seq(Modifiers!Modifier), At(list, "unknown") = {}
    PROVE  Modifiers!Repeated(list) <=>
            \E i, j \in DOMAIN list : i # j /\ Modifiers!Sort(list[i]) = Modifiers!Sort(list[j])
<1> DEFINE Same(i, j) == Modifiers!Sort(list[i]) = Modifiers!Sort(list[j])
           Twice(P) == \E i, j \in P : i # j
           Values == {"prefer_type", "target", "targetsync"}
<1>1. Modifiers!Repeated(list) <=>
        \/ \E value \in Values : Twice(At(list, value))
        \/ Twice(Depinfos(list))
        \/ Twice(At(list, "depobj") \cup At(list, "interop"))
    BY ModifierCounts, SumExceedsOne DEF Modifiers!Repeated
<1>2. \A i \in DOMAIN list : list[i] \in Modifiers!Modifier /\ list[i].value # "unknown"
    <2> HIDE DEF Modifiers!Modifier
    <2> QED
        BY DEF At
<1>3. \A i \in DOMAIN list :
        /\ i \in Depinfos(list) <=> Modifiers!Sort(list[i]) = "Depinfo"
        /\ i \in At(list, "depobj") \cup At(list, "interop")
                <=> Modifiers!Sort(list[i]) = "DirectiveName"
        /\ \A value \in Values : i \in At(list, value) <=> Modifiers!Sort(list[i]) = value
        /\ Modifiers!Sort(list[i]) \in Values \cup {"Depinfo", "DirectiveName"}
    <2> TAKE i \in DOMAIN list
    <2> DEFINE m == list[i]
    <2>1. m \in Modifiers!Modifier /\ m.value # "unknown"
        BY <1>2
    <2>2. /\ i \in Depinfos(list) <=> m.category = "Depinfo"
          /\ \A value : i \in At(list, value) <=> m.value = value
        BY DEF Depinfos, At
    <2> HIDE DEF m
    <2>3. \/ /\ m.category = "InteropType" /\ m.value \in {"target", "targetsync", "unknown"}
             /\ Modifiers!Sort(m) = m.value
          \/ /\ m.category = "DirectiveName" /\ m.value \in {"depobj", "interop", "unknown"}
             /\ Modifiers!Sort(m) = "DirectiveName"
          \/ /\ m.category = "PreferType" /\ m.value = "prefer_type"
             /\ Modifiers!Sort(m) = m.value
          \/ /\ m.category = "Depinfo" /\ m.value \in {"in", "out", "unknown"}
             /\ Modifiers!Sort(m) = "Depinfo"
        BY <2>1, ModifierSorts
    <2> QED
        BY <2>1, <2>2, <2>3 DEF m
<1>4. /\ Depinfos(list) \subseteq DOMAIN list
      /\ \A value : At(list, value) \subseteq DOMAIN list
    BY DEF Depinfos, At
<1>5. ASSUME NEW i \in DOMAIN list, NEW j \in DOMAIN list, i # j, Same(i, j)
      PROVE  Modifiers!Repeated(list)
    BY <1>1, <1>3, <1>5
<1>6. ASSUME Modifiers!Repeated(list)
      PROVE  \E i, j \in DOMAIN list : i # j /\ Same(i, j)
    <2>1. CASE \E value \in Values : Twice(At(list, value))
        BY <1>3, <1>4, <2>1
    <2>2. CASE Twice(Depinfos(list))
        BY <1>3, <1>4, <2>2
    <2>3. CASE Twice(At(list, "depobj") \cup At(list, "interop"))
        BY <1>3, <1>4, <2>3
    <2> QED
        BY <1>1, <1>6, <2>1, <2>2, <2>3
<1> QED
    BY <1>5, <1>6

\* A list is accepted in a role exactly if its modifiers are of different sorts
\* and fit the role.
LEMMA ModifiersByRole ==
    ASSUME s1 \in Seq(Modifiers!Modifier)
    PROVE  Modifiers!AcceptedByRole
<1> DEFINE Has(value) == At(s1, value) # {}
           HasDepinfo == Depinfos(s1) # {}
           Spoken == \A i \in DOMAIN s1 : s1[i].argument # "empty"
           Unlike == \A i, j \in DOMAIN s1 :
                        Modifiers!Sort(s1[i]) = Modifiers!Sort(s1[j]) => i = j
           Fine == Spoken /\ ~Has("unknown") /\ Unlike
<1>1. /\ \A value : Modifiers!Count(s1, value) \in Nat
      /\ \A value : Modifiers!Count(s1, value) # 0 <=> Has(value)
      /\ Modifiers!CountDepinfo(s1) # 0 <=> HasDepinfo
    BY ModifierCounts
<1>2. Modifiers!CountTypes(s1) # 0 <=> Has("target") \/ Has("targetsync")
    <2> DEFINE x == Modifiers!Count(s1, "target")
               y == Modifiers!Count(s1, "targetsync")
    <2>1. x \in Nat /\ y \in Nat
        BY <1>1
    <2> HIDE DEF x, y
    <2>2. x + y # 0 <=> x # 0 \/ y # 0
        BY <2>1
    <2> QED
        BY <1>1, <2>2 DEF x, y, Modifiers!CountTypes
<1>3. Modifiers!Count(s1, "unknown") > 0 <=> Has("unknown")
    BY <1>1
<1>4. ~Has("unknown") => (Modifiers!Repeated(s1) <=> ~Unlike)
    BY SortsByCounts
<1>5. Modifiers!Sound <=> Spoken /\ Unlike
    <2> DEFINE sorts == [i \in DOMAIN s1 |-> Modifiers!Sort(s1[i])]
    <2>1. Modifiers!IsInjective(sorts) <=> Unlike
        BY DEF Modifiers!IsInjective
    <2> QED
        BY <2>1 DEF Modifiers!Sound
<1> HIDE DEF Has, HasDepinfo, Spoken, Unlike
<1>6. Modifiers!Accepted("interop") <=>
        Fine /\ (Has("target") \/ Has("targetsync")) /\ ~HasDepinfo /\ ~Has("depobj")
    BY <1>1, <1>2, <1>3, <1>4 DEF Modifiers!Accepted, Modifiers!ModifierErrors,
        Modifiers!Missing, Spoken
<1>7. Modifiers!Accepted("depobj") <=>
        /\ Fine /\ ~Has("target") /\ ~Has("targetsync") /\ HasDepinfo
        /\ ~Has("prefer_type") /\ ~Has("interop")
    BY <1>1, <1>2, <1>3, <1>4 DEF Modifiers!Accepted, Modifiers!ModifierErrors,
        Modifiers!Missing, Spoken
<1>8. \A value : Has(value) <=> value \in Modifiers!Values
    BY DEF Has, At, Modifiers!Values
<1> DEFINE All == {"target", "targetsync", "unknown", "depobj", "interop", "prefer_type",
                   "in", "out"}
<1>9. Modifiers!Values \subseteq All
    <2> SUFFICES ASSUME NEW i \in DOMAIN s1 PROVE s1[i].value \in All
        BY DEF Modifiers!Values
    <2>1. s1[i] \in Modifiers!Modifier
        <3> HIDE DEF Modifiers!Modifier
        <3> QED
            OBVIOUS
    <2> QED
        BY <2>1, ModifierSorts
<1>10. ~Has("unknown") => (HasDepinfo <=> Has("in") \/ Has("out"))
    <2>1. ASSUME NEW i \in DOMAIN s1, s1[i].value # "unknown"
          PROVE  s1[i].category = "Depinfo" <=> s1[i].value \in {"in", "out"}
        <3>1. s1[i] \in Modifiers!Modifier
            <4> HIDE DEF Modifiers!Modifier
            <4> QED
                OBVIOUS
        <3> QED
            BY <2>1, <3>1, ModifierSorts
    <2> QED
        BY <2>1 DEF Has, HasDepinfo, At, Depinfos
<1> QED
    <2>1. Modifiers!Accepted("interop") <=>
            /\ Modifiers!Sound
            /\ Modifiers!Values \subseteq {"target", "targetsync", "interop", "prefer_type"}
            /\ Modifiers!Values \cap {"target", "targetsync"} # {}
        BY <1>5, <1>6, <1>8, <1>9, <1>10
    <2>2. ASSUME Modifiers!Accepted("depobj")
          PROVE  Modifiers!Sound /\ Modifiers!Values \subseteq {"in", "out", "depobj"}
                    /\ Modifiers!Values # {"depobj"} /\ Modifiers!Values # {}
        BY <1>5, <1>7, <1>8, <1>9, <1>10, <2>2
    <2>3. ASSUME Modifiers!Sound, Modifiers!Values \subseteq {"in", "out", "depobj"},
                 Modifiers!Values # {"depobj"}, Modifiers!Values # {}
          PROVE  Modifiers!Accepted("depobj")
        <3>1. Has("in") \/ Has("out")
            BY <1>8, <2>3
        <3> QED
            BY <1>5, <1>7, <1>8, <1>10, <2>3, <3>1
    <2> QED
        BY <2>1, <2>2, <2>3 DEF Modifiers!AcceptedByRole

\* A modifier more mends only what was missing.
LEMMA ModifiersKeepErrors ==
    ASSUME s1 \in Seq(Modifiers!Modifier), NEW m \in Modifiers!Modifier, s1' = Append(s1, m)
    PROVE  Modifiers!KeepsErrors
<1> DEFINE more == Append(s1, m)
<1>1. /\ more \in Seq(Modifiers!Modifier) /\ DOMAIN s1 \subseteq DOMAIN more
      /\ \A i \in DOMAIN s1 : more[i] = s1[i]
    <2> HIDE DEF Modifiers!Modifier
    <2> QED
        OBVIOUS
<1> HIDE DEF more
<1>2. /\ \A value : At(s1, value) \subseteq At(more, value)
      /\ Depinfos(s1) \subseteq Depinfos(more)
    BY <1>1 DEF At, Depinfos
<1>3. \A value : /\ Modifiers!Count(s1, value) \in Nat /\ Modifiers!Count(more, value) \in Nat
                 /\ Modifiers!Count(s1, value) # 0 => Modifiers!Count(more, value) # 0
                 /\ Modifiers!Count(s1, value) > 1 => Modifiers!Count(more, value) > 1
    <2> TAKE value
    <2>1. /\ Modifiers!Count(s1, value) \in Nat
          /\ Modifiers!Count(s1, value) = 0 <=> At(s1, value) = {}
          /\ Modifiers!Count(s1, value) > 1 <=> \E i, j \in At(s1, value) : i # j
        BY ModifierCounts
    <2>2. /\ Modifiers!Count(more, value) \in Nat
          /\ Modifiers!Count(more, value) = 0 <=> At(more, value) = {}
          /\ Modifiers!Count(more, value) > 1 <=> \E i, j \in At(more, value) : i # j
        BY <1>1, ModifierCounts
    <2> QED
        BY <1>2, <2>1, <2>2
<1>4. /\ Modifiers!CountDepinfo(s1) # 0 => Modifiers!CountDepinfo(more) # 0
      /\ Modifiers!CountDepinfo(s1) > 1 => Modifiers!CountDepinfo(more) > 1
    <2>1. /\ Modifiers!CountDepinfo(s1) = 0 <=> Depinfos(s1) = {}
          /\ Modifiers!CountDepinfo(s1) > 1 <=> \E i, j \in Depinfos(s1) : i # j
        BY ModifierCounts
    <2>2. /\ Modifiers!CountDepinfo(more) = 0 <=> Depinfos(more) = {}
          /\ Modifiers!CountDepinfo(more) > 1 <=> \E i, j \in Depinfos(more) : i # j
        BY <1>1, ModifierCounts
    <2> QED
        BY <1>2, <2>1, <2>2
<1>5. Modifiers!Count(s1, "depobj") + Modifiers!Count(s1, "interop") > 1
        => Modifiers!Count(more, "depobj") + Modifiers!Count(more, "interop") > 1
    <2>1. \A list \in {s1, more} :
            Modifiers!Count(list, "depobj") + Modifiers!Count(list, "interop") > 1
                <=> \E i, j \in At(list, "depobj") \cup At(list, "interop") : i # j
        BY <1>1, SumExceedsOne
    <2> QED
        BY <1>2, <2>1
<1>6. Modifiers!CountTypes(s1) # 0 => Modifiers!CountTypes(more) # 0
    <2> DEFINE x == Modifiers!Count(s1, "target")
               y == Modifiers!Count(s1, "targetsync")
               u == Modifiers!Count(more, "target")
               v == Modifiers!Count(more, "targetsync")
    <2>1. /\ x \in Nat /\ y \in Nat /\ u \in Nat /\ v \in Nat
          /\ x # 0 => u # 0
          /\ y # 0 => v # 0
        BY <1>3
    <2> HIDE DEF x, y, u, v
    <2>2. x + y # 0 => u + v # 0
        BY <2>1
    <2> QED
        BY <2>2 DEF x, y, u, v, Modifiers!CountTypes
<1>7. Modifiers!Repeated(s1) => Modifiers!Repeated(more)
    BY <1>3, <1>4, <1>5 DEF Modifiers!Repeated
<1>8. (\E i \in DOMAIN s1 : s1[i].argument = "empty")
        => \E i \in DOMAIN more : more[i].argument = "empty"
    BY <1>1
<1>9. Modifiers!Count(s1, "unknown") > 0 => Modifiers!Count(more, "unknown") > 0
    BY <1>3
<1>10. ASSUME NEW on
       PROVE  Modifiers!ModifierErrors(s1, on) \ Modifiers!Missing
                \subseteq Modifiers!ModifierErrors(more, on)
    BY <1>3, <1>4, <1>6, <1>7, <1>8, <1>9 DEF Modifiers!ModifierErrors, Modifiers!Missing
<1> QED
    BY <1>10 DEF Modifiers!KeepsErrors, more

\* A step adds a modifier.
LEMMA ModifierAdded ==
    ASSUME Modifiers!Next
    PROVE  \E m \in Modifiers!Modifier : s1' = Append(s1, m)
<1>1. ASSUME NEW value \in Modifiers!InteropTypes, Modifiers!Add("InteropType", value, "none")
      PROVE  \E m \in Modifiers!Modifier : s1' = Append(s1, m)
    BY <1>1 DEF Modifiers!Add, Modifiers!Modifier
<1>2. ASSUME NEW value \in Modifiers!DirectiveNames, Modifiers!Add("DirectiveName", value, "none")
      PROVE  \E m \in Modifiers!Modifier : s1' = Append(s1, m)
    BY <1>2 DEF Modifiers!Add, Modifiers!Modifier
<1>3. ASSUME NEW argument \in {"empty", "text"},
             Modifiers!Add("PreferType", "prefer_type", argument)
      PROVE  \E m \in Modifiers!Modifier : s1' = Append(s1, m)
    BY <1>3 DEF Modifiers!Add, Modifiers!Modifier
<1>4. ASSUME NEW value \in Modifiers!DependenceTypes, NEW argument \in {"empty", "text"},
             Modifiers!Add("Depinfo", value, argument)
      PROVE  \E m \in Modifiers!Modifier : s1' = Append(s1, m)
    BY <1>4 DEF Modifiers!Add, Modifiers!Modifier
<1> QED
    BY <1>1, <1>2, <1>3, <1>4 DEF Modifiers!Next, Modifiers!AddInteropType,
        Modifiers!AddDirectiveName, Modifiers!AddPreferType, Modifiers!AddDepinfo

-----------------------------------------------------------------------------
(* The ALLOCATE clause. *)

\* A list with one more entry is a list, and another one.
LEMMA LongerList ==
    ASSUME NEW S, NEW list \in Seq(S), NEW entry \in S
    PROVE  Append(list, entry) \in Seq(S) /\ Append(list, entry) # list
<1> DEFINE more == Append(list, entry)
<1>1. more \in Seq(S) /\ Len(more) = Len(list) + 1 /\ Len(list) \in Nat
    OBVIOUS
<1> HIDE DEF more
<1>2. more # list
    BY <1>1
<1> QED
    BY <1>1, <1>2 DEF more

\* Errors are counted, the order is a list of modifiers, and the texts are texts.
AllocateType ==
    /\ s1 \in Allocate!Allocators
    /\ s2 \in Texts \cup {NoText} /\ s3 \in Texts \cup {NoText}
    /\ s4 \in Seq(Allocate!Modifiers)   \* modifier_order
    /\ s5 \in Nat                       \* construction_errors
    /\ s7 \in BOOLEAN                   \* written
\* A clause as written, that has modifiers but no allocator, was made for them.
MadeForModifiers ==
    s7 /\ s4 # <<>> /\ ~Allocate!UsesAllocatorModifierSyntax => s1 = "unspecified"
AllocateInv ==
    /\ AllocateType /\ MadeForModifiers
    /\ Allocate!OrderMatchesPayload /\ Allocate!WrittenClausesAgree

\* The invariant of ALLOCATE holds at first.
LEMMA AllocateInit ==
    ASSUME Allocate!Init
    PROVE  AllocateInv
<1>1. s4 = <<>> /\ s4 \in Seq(Allocate!Modifiers) /\ DOMAIN s4 = {}
    BY DEF Allocate!Init
<1>2. s5 \in {0, 1} /\ s5 \in Nat
    <2>1. s5 = 0 \/ s5 = 1
        BY DEF Allocate!Init
    <2> QED
        BY <2>1
<1>3. AllocateType
    BY <1>1, <1>2 DEF Allocate!Init, AllocateType
<1>4. s3 = NoText /\ ~Allocate!UsesAllocatorModifierSyntax
    BY <1>1 DEF Allocate!Init, Allocate!UsesAllocatorModifierSyntax
<1>5. Allocate!OrderMatchesPayload
    BY <1>1, <1>4 DEF Allocate!OrderMatchesPayload
<1>6. s5 = 0 => ((s2 # NoText) = (s1 = "user"))
    <2>1. CASE s1 = "user" /\ s2 = NoText
        <3>1. s5 = 1
            BY <2>1 DEF Allocate!Init
        <3> QED
            BY <3>1
    <2>2. CASE s1 = "user" /\ s2 # NoText
        BY <2>2
    <2>3. CASE s1 # "user"
        BY <2>3 DEF Allocate!Init
    <2> QED
        BY <2>1, <2>2, <2>3
<1>7. Allocate!WrittenClausesAgree
    BY <1>4, <1>6 DEF Allocate!WrittenClausesAgree, Allocate!Agrees
<1> QED
    BY <1>1, <1>3, <1>5, <1>7 DEF AllocateInv, MadeForModifiers

\* What an order with one more modifier has.
LEMMA OneMoreModifier ==
    ASSUME AllocateType, NEW word \in Allocate!Modifiers, s4' = Append(s4, word)
    PROVE  /\ s4' \in Seq(Allocate!Modifiers) /\ s4' # s4 /\ s4' # <<>>
           /\ \A other : (\E i \in DOMAIN s4' : s4'[i] = other) <=>
                            \/ \E i \in DOMAIN s4 : s4[i] = other
                            \/ other = word
           /\ /\ \A i \in DOMAIN s4 : s4[i] # word
              /\ \A i, j \in DOMAIN s4 : s4[i] = s4[j] => i = j
              => \A i, j \in DOMAIN s4' : s4'[i] = s4'[j] => i = j
<1>1. s4 \in Seq(Allocate!Modifiers)
    BY DEF AllocateType
<1>2. s4' \in Seq(Allocate!Modifiers) /\ s4' # s4
    BY <1>1, LongerList
<1>3. Len(s4) \in Nat /\ DOMAIN s4 = 1..Len(s4) /\ DOMAIN s4' = 1..(Len(s4) + 1)
    BY <1>1
<1>4. s4'[Len(s4) + 1] = word /\ \A i \in DOMAIN s4 : s4'[i] = s4[i]
    BY <1>1
<1>5. DOMAIN s4' = DOMAIN s4 \cup {Len(s4) + 1}
    BY <1>3
<1>6. s4' # <<>>
    BY <1>5
<1> QED
    BY <1>2, <1>4, <1>5, <1>6

\* A setter fills what was empty or counts an error.
LEMMA AllocateSteps ==
    ASSUME AllocateInv, Allocate!Next
    PROVE  AllocateInv' /\ Allocate!KeepsOrReports
<1>1. AllocateType /\ MadeForModifiers /\ Allocate!OrderMatchesPayload
        /\ Allocate!WrittenClausesAgree
    BY DEF AllocateInv
<1>2. ASSUME Allocate!Refuse(1), s7' \in BOOLEAN, s7' => s7
      PROVE  AllocateInv' /\ Allocate!KeepsOrReports
    <2>1. s5' = s5 + 1 /\ s1' = s1 /\ s2' = s2 /\ s3' = s3 /\ s4' = s4
        BY <1>2 DEF Allocate!Refuse, Allocate!payload
    <2>2. s5' \in Nat /\ s5' > s5 /\ s5' # 0
        BY <1>1, <2>1 DEF AllocateType
    <2>3. AllocateType' /\ Allocate!KeepsOrReports
        BY <1>1, <1>2, <2>1, <2>2 DEF AllocateType, Allocate!KeepsOrReports
    <2>4. MadeForModifiers' /\ Allocate!OrderMatchesPayload'
        BY <1>1, <1>2, <2>1 DEF MadeForModifiers, Allocate!OrderMatchesPayload,
            Allocate!UsesAllocatorModifierSyntax
    <2>5. Allocate!WrittenClausesAgree'
        BY <2>2 DEF Allocate!WrittenClausesAgree
    <2> QED
        BY <2>3, <2>4, <2>5 DEF AllocateInv
<1>3. PICK given \in Texts \cup {NoText} :
        \/ Allocate!SetUserDefinedAllocator(given) \/ Allocate!SetAllocatorModifier(given)
        \/ Allocate!SetAlignModifier(given)
    BY DEF Allocate!Next
<1>4. s7' \in BOOLEAN /\ (s7' => s7)
    BY <1>1, <1>3 DEF AllocateType, Allocate!SetUserDefinedAllocator,
        Allocate!SetAllocatorModifier, Allocate!SetAlignModifier
<1>5. CASE Allocate!SetUserDefinedAllocator(given) /\ ~Allocate!Refuse(1)
    <2>1. /\ given # NoText /\ s2 = NoText /\ s2' = given /\ s7' = FALSE
          /\ s1' = s1 /\ s3' = s3 /\ s4' = s4 /\ s5' = s5
        BY <1>5 DEF Allocate!SetUserDefinedAllocator
    <2>2. AllocateType' /\ MadeForModifiers' /\ Allocate!WrittenClausesAgree'
        BY <1>1, <1>3, <2>1 DEF AllocateType, MadeForModifiers, Allocate!WrittenClausesAgree
    <2>3. Allocate!OrderMatchesPayload'
        BY <1>1, <2>1 DEF Allocate!OrderMatchesPayload, Allocate!UsesAllocatorModifierSyntax
    <2>4. Allocate!KeepsOrReports
        BY <2>1 DEF Allocate!KeepsOrReports, Allocate!payload
    <2> QED
        BY <2>2, <2>3, <2>4 DEF AllocateInv
<1>6. CASE Allocate!SetAllocatorModifier(given) /\ ~Allocate!Refuse(1)
    <2>1. /\ given # NoText /\ s1 = "unspecified" /\ s2 = NoText
          /\ \A i \in DOMAIN s4 : s4[i] # "allocator"
          /\ s2' = given /\ s1' = "user" /\ s4' = Append(s4, "allocator")
          /\ s3' = s3 /\ s5' = s5
        BY <1>6 DEF Allocate!SetAllocatorModifier
    <2>2. "allocator" \in Allocate!Modifiers /\ "user" \in Allocate!Allocators
        BY DEF Allocate!Modifiers, Allocate!Allocators
    <2>3. AllocateType'
        BY <1>1, <1>3, <1>4, <2>1, <2>2, OneMoreModifier DEF AllocateType
    <2>4. /\ \A i, j \in DOMAIN s4' : s4'[i] = s4'[j] => i = j
          /\ (\E i \in DOMAIN s4' : s4'[i] = "align") <=> \E i \in DOMAIN s4 : s4[i] = "align"
          /\ \E i \in DOMAIN s4' : s4'[i] = "allocator"
          /\ s4' # s4
        BY <1>1, <2>1, <2>2, OneMoreModifier DEF Allocate!OrderMatchesPayload
    <2>5. Allocate!OrderMatchesPayload'
        BY <1>1, <2>1, <2>4 DEF Allocate!OrderMatchesPayload
    <2>6. MadeForModifiers' /\ Allocate!WrittenClausesAgree'
        BY <2>1, <2>4 DEF MadeForModifiers, Allocate!UsesAllocatorModifierSyntax,
            Allocate!WrittenClausesAgree, Allocate!Agrees
    <2>7. Allocate!KeepsOrReports
        BY <2>1, <2>4 DEF Allocate!KeepsOrReports, Allocate!payload
    <2> QED
        BY <2>3, <2>5, <2>6, <2>7 DEF AllocateInv
<1>7. CASE Allocate!SetAlignModifier(given) /\ ~Allocate!Refuse(1)
    <2>1. /\ given # NoText /\ s3 = NoText /\ s1 # "predefined"
          /\ s3' = given /\ s4' = Append(s4, "align")
          /\ s1' = s1 /\ s2' = s2 /\ s5' = s5
          /\ s7' = (s7 /\ (s1 = "unspecified" \/ s4 # <<>>))
        BY <1>7 DEF Allocate!SetAlignModifier
    <2>2. "align" \in Allocate!Modifiers
        BY DEF Allocate!Modifiers
    <2>3. AllocateType'
        BY <1>1, <1>3, <1>4, <2>1, <2>2, OneMoreModifier DEF AllocateType
    <2>4. /\ \A i, j \in DOMAIN s4' : s4'[i] = s4'[j] => i = j
          /\ \E i \in DOMAIN s4' : s4'[i] = "align"
          /\ (\E i \in DOMAIN s4' : s4'[i] = "allocator") <=>
                \E i \in DOMAIN s4 : s4[i] = "allocator"
          /\ s4' # s4
        BY <1>1, <2>1, <2>2, OneMoreModifier DEF Allocate!OrderMatchesPayload
    <2>5. Allocate!OrderMatchesPayload'
        BY <1>1, <2>1, <2>4 DEF Allocate!OrderMatchesPayload,
            Allocate!UsesAllocatorModifierSyntax
    <2>6. MadeForModifiers' /\ Allocate!WrittenClausesAgree'
        BY <1>1, <2>1, <2>4 DEF MadeForModifiers, Allocate!UsesAllocatorModifierSyntax,
            Allocate!WrittenClausesAgree, Allocate!Agrees
    <2>7. Allocate!KeepsOrReports
        BY <2>1, <2>4 DEF Allocate!KeepsOrReports, Allocate!payload
    <2> QED
        BY <2>3, <2>5, <2>6, <2>7 DEF AllocateInv
<1> QED
    BY <1>2, <1>3, <1>4, <1>5, <1>6, <1>7

\* A clause written with modifiers prints each with its own text.
LEMMA ModifiersPrintedAsTheyAre ==
    ASSUME AllocateInv, Allocate!Agrees, s7, s4 # <<>>
    PROVE  Allocate!Parsed(Allocate!Parameters) = Allocate!payload
<1> DEFINE text(word) == IF word = "allocator" THEN s2 ELSE s3
           printed == [i \in DOMAIN s4 |-> <<s4[i], text(s4[i])>>]
<1>1. /\ AllocateType /\ MadeForModifiers /\ Allocate!OrderMatchesPayload
      /\ s4 \in Seq(Allocate!Modifiers)
    BY DEF AllocateInv, AllocateType
<1>2. 1 \in DOMAIN s4 /\ \A i \in DOMAIN s4 : s4[i] \in {"allocator", "align"}
    <2>1. Len(s4) \in Nat /\ DOMAIN s4 = 1..Len(s4) /\ Len(s4) # 0
        BY <1>1
    <2> QED
        BY <1>1, <2>1 DEF Allocate!Modifiers
<1>3. (\E i \in DOMAIN s4 : s4[i] = "allocator") \/ s3 # NoText
    BY <1>1, <1>2 DEF Allocate!OrderMatchesPayload
<1>4. Allocate!Parameters = printed
    BY <1>3 DEF Allocate!Parameters, Allocate!UsesAllocatorModifierSyntax
<1>5. /\ DOMAIN printed = DOMAIN s4
      /\ \A i \in DOMAIN s4 : printed[i][1] = s4[i] /\ printed[i][2] = text(s4[i])
    OBVIOUS
<1> HIDE DEF printed
<1>6. /\ (\E i \in DOMAIN s4 : s4[i] = "allocator") => s1 = "user" /\ s2 # NoText
      /\ ~(\E i \in DOMAIN s4 : s4[i] = "allocator") => s1 = "unspecified" /\ s2 = NoText
      /\ ~(\E i \in DOMAIN s4 : s4[i] = "align") => s3 = NoText
    BY <1>1 DEF MadeForModifiers, Allocate!OrderMatchesPayload, Allocate!Agrees,
        Allocate!UsesAllocatorModifierSyntax
<1>7. ASSUME NEW word \in {"allocator", "align"}
      PROVE  Allocate!TextOf(printed, word) = text(word)
    <2>1. CASE \E i \in DOMAIN printed : printed[i][1] = word
        <3>1. PICK at : /\ at = CHOOSE i \in DOMAIN printed : printed[i][1] = word
                        /\ at \in DOMAIN printed /\ printed[at][1] = word
            BY <2>1
        <3>2. Allocate!TextOf(printed, word) = printed[at][2]
            BY <2>1, <3>1 DEF Allocate!TextOf
        <3> QED
            BY <1>5, <3>1, <3>2
    <2>2. CASE ~\E i \in DOMAIN printed : printed[i][1] = word
        <3>1. Allocate!TextOf(printed, word) = NoText
            BY <2>2 DEF Allocate!TextOf
        <3>2. ~\E i \in DOMAIN s4 : s4[i] = word
            BY <1>5, <2>2
        <3> QED
            BY <1>6, <1>7, <3>1, <3>2
    <2> QED
        BY <2>1, <2>2
<1>8. text("allocator") = s2 /\ text("align") = s3
    OBVIOUS
<1> HIDE DEF text
<1>9. Allocate!TextOf(printed, "allocator") = s2 /\ Allocate!TextOf(printed, "align") = s3
    BY <1>7, <1>8
<1>10. [i \in DOMAIN printed |-> printed[i][1]] = s4
    BY <1>1, <1>5
<1>11. (IF s2 = NoText THEN "unspecified" ELSE "user") = s1
    BY <1>6
<1>12. printed # <<>> /\ ~(printed # <<>> /\ printed[1][1] \in {"predefined", "user"})
    BY <1>2, <1>5
<1>13. Allocate!Parsed(printed) =
        <<IF Allocate!TextOf(printed, "allocator") = NoText THEN "unspecified" ELSE "user",
          Allocate!TextOf(printed, "allocator"), Allocate!TextOf(printed, "align"),
          [i \in DOMAIN printed |-> printed[i][1]]>>
    BY <1>12 DEF Allocate!Parsed
<1> QED
    BY <1>4, <1>9, <1>10, <1>11, <1>13 DEF Allocate!payload

\* A clause of the older syntax prints its one allocator, or nothing.
LEMMA AllocatorPrintedAsItIs ==
    ASSUME AllocateInv, Allocate!Agrees, s4 = <<>>
    PROVE  Allocate!Parsed(Allocate!Parameters) = Allocate!payload
<1>1. DOMAIN s4 = {} /\ s3 = NoText /\ s1 \in {"unspecified", "predefined", "user"}
    <2>1. DOMAIN s4 = {}
        OBVIOUS
    <2>2. s3 = NoText
        BY <2>1 DEF AllocateInv, Allocate!OrderMatchesPayload
    <2>3. s1 \in {"unspecified", "predefined", "user"}
        BY DEF AllocateInv, AllocateType, Allocate!Allocators
    <2> QED
        BY <2>1, <2>2, <2>3
<1> DEFINE named == IF s1 = "predefined" THEN <<<<"predefined", NoText>>>> ELSE <<>>
           user == IF s2 = NoText THEN <<>> ELSE <<<<"user", s2>>>>
<1>2. Allocate!Parameters = named \o user
    BY <1>1 DEF Allocate!Parameters, Allocate!UsesAllocatorModifierSyntax
<1>3. CASE s1 = "unspecified"
    <2>1. s2 = NoText
        BY <1>3 DEF Allocate!Agrees
    <2>2. named \o user = <<>>
        BY <1>3, <2>1
    <2> QED
        BY <1>1, <1>2, <1>3, <2>1, <2>2 DEF Allocate!Parsed, Allocate!payload
<1>4. CASE s1 # "unspecified"
    <2> DEFINE word == <<s1, s2>>
               printed == <<word>>
    <2>1. named \o user = printed /\ (s1 = "predefined" => s2 = NoText)
        <3>1. CASE s1 = "predefined"
            <4>1. s2 = NoText
                BY <3>1 DEF Allocate!Agrees
            <4>2. named = printed /\ user = <<>>
                BY <3>1, <4>1
            <4>3. printed \o <<>> = printed
                OBVIOUS
            <4> QED
                BY <4>1, <4>2, <4>3
        <3>2. CASE s1 = "user"
            <4>1. s2 # NoText
                BY <3>2 DEF Allocate!Agrees
            <4>2. named = <<>> /\ user = printed
                BY <3>2, <4>1
            <4>3. <<>> \o printed = printed
                OBVIOUS
            <4> QED
                BY <3>2, <4>2, <4>3
        <3> QED
            BY <1>1, <1>4, <3>1, <3>2
    <2>2. printed # <<>> /\ printed[1] = word /\ word[1] = s1 /\ word[2] = s2
        OBVIOUS
    <2> HIDE DEF printed, word, named, user
    <2>3. Allocate!Parsed(printed) = <<s1, s2, NoText, <<>>>>
        BY <1>1, <1>4, <2>2 DEF Allocate!Parsed
    <2> QED
        BY <1>1, <1>2, <2>1, <2>3 DEF Allocate!payload
<1> QED
    BY <1>3, <1>4

\* What the invariant says of the properties.
LEMMA AllocateSays ==
    ASSUME AllocateInv
    PROVE  /\ Allocate!OrderMatchesPayload /\ Allocate!WrittenClausesAgree
           /\ Allocate!WrittenPrintedAsItIs
    BY ModifiersPrintedAsTheyAre, AllocatorPrintedAsItIs
    DEF AllocateInv, Allocate!WrittenPrintedAsItIs, Allocate!PrintedAsItIs, Allocate!Accepted

-----------------------------------------------------------------------------
(* The INDUCTION clause. *)

\* The containers, the order and what was given are lists; as long as every
\* text given is a text, each entry of the order shows what was given there.
InductionText == Texts \cup {NoText}
InductionType ==
    /\ s1 \in InductionText                                         \* step_expression
    /\ s2 \in Seq([label : InductionText, expression : InductionText])  \* bindings
    /\ s3 \in Seq(InductionText)                                    \* passthrough_items
    /\ s4 \in Seq([kind : {"step", "binding", "passthrough"}, index : Nat])    \* sequence
    /\ s5 \in Seq(Seq(InductionText \cup {"step"}))                 \* given
    /\ Len(s5) = Len(s4)
Shown ==
    Induction!AllTexts =>
        \A i \in DOMAIN s4 : Induction!Names(s4[i]) /\ Induction!Visited(s4[i]) = s5[i]
InductionInv == InductionType /\ Induction!ReferencesResolve /\ Shown

\* The invariant of INDUCTION holds at first.
LEMMA InductionInit ==
    ASSUME Induction!Init
    PROVE  InductionInv
<1>1. s1 = NoText /\ s2 = <<>> /\ s3 = <<>> /\ s4 = <<>> /\ s5 = <<>>
    BY DEF Induction!Init
<1>2. InductionType
    BY <1>1 DEF InductionType, InductionText
<1>3. DOMAIN s4 = {} /\ DOMAIN s2 = {} /\ DOMAIN s3 = {} /\ Len(s2) = 0 /\ Len(s3) = 0
    BY <1>1
<1>4. ASSUME NEW kind PROVE Induction!Of(kind) = {} /\ Induction!Indexes(kind) = {}
    BY <1>3 DEF Induction!Of, Induction!Indexes
<1>5. Induction!ReferencesResolve
    BY <1>1, <1>3, <1>4, FS_EmptySet DEF Induction!ReferencesResolve, Induction!Cardinality,
        Cardinality
<1>6. Shown
    BY <1>3 DEF Shown
<1> QED
    BY <1>2, <1>5, <1>6 DEF InductionInv

\* A list and its next place.
LEMMA NextPlace ==
    ASSUME NEW S, NEW list \in Seq(S), NEW entry \in S
    PROVE  /\ Append(list, entry) \in Seq(S)
           /\ Len(list) \in Nat /\ Len(list) + 1 \in Nat
           /\ Len(list) + 1 \notin DOMAIN list /\ DOMAIN list = 1..Len(list)
           /\ Len(Append(list, entry)) = Len(list) + 1
           /\ DOMAIN Append(list, entry) = DOMAIN list \cup {Len(list) + 1}
           /\ \A i \in DOMAIN list : Append(list, entry)[i] = list[i]
           /\ Append(list, entry)[Len(list) + 1] = entry
    OBVIOUS

\* One more reference, to one more element of its kind.
LEMMA OneMoreReference ==
    ASSUME InductionType, NEW kind \in {"step", "binding", "passthrough"}, NEW index \in Nat,
           s4' = Append(s4, Induction!Item(kind, index))
    PROVE  /\ s4' \in Seq([kind : {"step", "binding", "passthrough"}, index : Nat])
           /\ Cardinality(Induction!Of(kind)') = Cardinality(Induction!Of(kind)) + 1
           /\ Induction!Indexes(kind)' = Induction!Indexes(kind) \cup {index}
           /\ \A other \in {"step", "binding", "passthrough"} \ {kind} :
                /\ Induction!Of(other)' = Induction!Of(other)
                /\ Induction!Indexes(other)' = Induction!Indexes(other)
<1> DEFINE item == Induction!Item(kind, index)
           next == Len(s4) + 1
           Items == [kind : {"step", "binding", "passthrough"}, index : Nat]
<1>1. s4 \in Seq(Items) /\ item \in Items /\ item.kind = kind /\ item.index = index
    BY DEF InductionType, Induction!Item
<1>2. s4' = Append(s4, item)
    OBVIOUS
<1> HIDE DEF item, Items
<1>3. /\ s4' \in Seq(Items) /\ Len(s4) \in Nat /\ next \notin DOMAIN s4
      /\ DOMAIN s4 = 1..Len(s4) /\ DOMAIN s4' = DOMAIN s4 \cup {next}
      /\ (\A i \in DOMAIN s4 : s4'[i] = s4[i]) /\ s4'[next] = item
    BY <1>1, <1>2, NextPlace
<1> HIDE DEF next
<1>4. Induction!Of(kind)' = Induction!Of(kind) \cup {next} /\ next \notin Induction!Of(kind)
    BY <1>1, <1>3 DEF Induction!Of
<1>5. IsFiniteSet(Induction!Of(kind))
    <2>1. IsFiniteSet(DOMAIN s4)
        BY <1>3, FS_Interval
    <2> QED
        BY <2>1, FS_Subset DEF Induction!Of
<1>6. Cardinality(Induction!Of(kind)') = Cardinality(Induction!Of(kind)) + 1
    BY <1>4, <1>5, FS_AddElement
<1>7. Induction!Indexes(kind)' = Induction!Indexes(kind) \cup {index}
    BY <1>1, <1>3, <1>4 DEF Induction!Indexes, Induction!Of
<1>8. ASSUME NEW other \in {"step", "binding", "passthrough"} \ {kind}
      PROVE  /\ Induction!Of(other)' = Induction!Of(other)
             /\ Induction!Indexes(other)' = Induction!Indexes(other)
    <2>1. Induction!Of(other)' = Induction!Of(other)
        BY <1>1, <1>3 DEF Induction!Of
    <2> QED
        BY <1>3, <2>1 DEF Induction!Indexes, Induction!Of
<1> QED
    BY <1>3, <1>6, <1>7, <1>8 DEF Items

\* If what is given now is all texts, so was what was given before.
LEMMA TextsBefore ==
    ASSUME InductionType, NEW item \in Seq(InductionText \cup {"step"}),
           s5' = Append(s5, item), Induction!AllTexts'
    PROVE  Induction!AllTexts /\ \A j \in DOMAIN item : item[j] # NoText
<1>1. s5 \in Seq(Seq(InductionText \cup {"step"}))
    BY DEF InductionType
<1>2. /\ DOMAIN s5' = DOMAIN s5 \cup {Len(s5) + 1}
      /\ (\A i \in DOMAIN s5 : s5'[i] = s5[i]) /\ s5'[Len(s5) + 1] = item
    BY <1>1, NextPlace
<1> QED
    BY <1>2 DEF Induction!AllTexts

\* A call adds one reference, which shows what was given; what is named stays.
References == [kind : {"step", "binding", "passthrough"}, index : Nat]

\* One more entry of the order shows one more text.
LEMMA OneMoreShown ==
    ASSUME InductionInv, NEW new \in References, NEW item \in Seq(InductionText \cup {"step"}),
           s4' = Append(s4, new), s5' = Append(s5, item),
           \A old \in References : Induction!Names(old) =>
                Induction!Names(old)' /\ Induction!Visited(old)' = Induction!Visited(old),
           (\A j \in DOMAIN item : item[j] # NoText) =>
                Induction!Names(new)' /\ Induction!Visited(new)' = item
    PROVE  Shown' /\ Len(s5') = Len(s4') /\ s5' \in Seq(Seq(InductionText \cup {"step"}))
<1>1. s4 \in Seq(References) /\ s5 \in Seq(Seq(InductionText \cup {"step"}))
        /\ Len(s5) = Len(s4) /\ InductionType /\ Shown
    BY DEF InductionInv, InductionType, References
<1>2. /\ DOMAIN s4' = DOMAIN s4 \cup {Len(s4) + 1} /\ Len(s4') = Len(s4) + 1
      /\ \A i \in DOMAIN s4 : s4'[i] = s4[i] /\ s4[i] \in References
      /\ s4'[Len(s4) + 1] = new
    BY <1>1, NextPlace
<1>3. /\ s5' \in Seq(Seq(InductionText \cup {"step"}))
      /\ Len(s5') = Len(s5) + 1 /\ DOMAIN s5 = 1..Len(s5) /\ DOMAIN s4 = 1..Len(s4)
      /\ (\A i \in DOMAIN s5 : s5'[i] = s5[i]) /\ s5'[Len(s5) + 1] = item
    BY <1>1, NextPlace
<1>4. ASSUME Induction!AllTexts', NEW i \in DOMAIN s4'
      PROVE  (Induction!Names(s4[i]) /\ Induction!Visited(s4[i]) = s5[i])'
    <2>1. Induction!AllTexts /\ \A j \in DOMAIN item : item[j] # NoText
        BY <1>1, <1>4, TextsBefore
    <2>2. CASE i \in DOMAIN s4
        <3>1. PICK old \in References : old = s4[i] /\ old = s4'[i]
            BY <1>2, <2>2
        <3>2. Induction!Names(old) /\ Induction!Visited(old) = s5[i] /\ s5'[i] = s5[i]
            BY <1>1, <1>3, <2>1, <2>2, <3>1 DEF Shown
        <3>3. Induction!Names(old)' /\ Induction!Visited(old)' = s5'[i]
            BY <3>2
        <3> QED
            BY <3>1, <3>3 DEF Induction!Names, Induction!Visited
    <2>3. CASE i = Len(s4) + 1
        <3>1. s4'[i] = new /\ s5'[i] = item
            BY <1>1, <1>2, <1>3, <2>3
        <3>2. Induction!Names(new)' /\ Induction!Visited(new)' = s5'[i]
            BY <2>1, <3>1
        <3> QED
            BY <3>1, <3>2 DEF Induction!Names, Induction!Visited
    <2> QED
        BY <1>2, <2>2, <2>3
<1>5. Shown'
    BY <1>4 DEF Shown
<1> QED
    BY <1>1, <1>2, <1>3, <1>5

\* A call adds one element to one container and one reference to it.
LEMMA PassesThrough ==
    ASSUME InductionInv, NEW expression \in InductionText,
           s5' = Append(s5, <<expression>>), Induction!PassThrough(expression)
    PROVE  InductionInv'
<1>1. /\ s1' = s1 /\ s2' = s2 /\ s3' = Append(s3, expression)
      /\ s4' = Append(s4, Induction!Item("passthrough", Len(s3) + 1))
    BY DEF Induction!PassThrough
<1>2. InductionType /\ Induction!ReferencesResolve /\ s3 \in Seq(InductionText)
    BY DEF InductionInv, InductionType
<1>3. /\ s3' \in Seq(InductionText) /\ Len(s3) + 1 \in Nat /\ Len(s3') = Len(s3) + 1
      /\ DOMAIN s3' = DOMAIN s3 \cup {Len(s3) + 1}
      /\ (\A i \in DOMAIN s3 : s3'[i] = s3[i]) /\ s3'[Len(s3) + 1] = expression
    BY <1>1, <1>2, NextPlace
<1>4. PICK new \in References : new = Induction!Item("passthrough", Len(s3) + 1)
    BY <1>3 DEF Induction!Item, References
<1>5. new.kind = "passthrough" /\ new.index = Len(s3) + 1
    BY <1>4 DEF Induction!Item
<1>6. /\ s4' \in Seq(References)
      /\ Cardinality(Induction!Of("passthrough")') = Cardinality(Induction!Of("passthrough")) + 1
      /\ Induction!Indexes("passthrough")' = Induction!Indexes("passthrough") \cup {Len(s3) + 1}
      /\ \A other \in {"step", "binding"} :
            /\ Induction!Of(other)' = Induction!Of(other)
            /\ Induction!Indexes(other)' = Induction!Indexes(other)
    BY <1>1, <1>2, <1>3, OneMoreReference DEF References
<1>7. Induction!ReferencesResolve'
    BY <1>1, <1>2, <1>3, <1>6 DEF Induction!ReferencesResolve, Induction!Cardinality, Cardinality
<1>8. ASSUME NEW old \in References, Induction!Names(old)
      PROVE  Induction!Names(old)' /\ Induction!Visited(old)' = Induction!Visited(old)
    BY <1>1, <1>3, <1>8 DEF Induction!Names, Induction!Visited, References
<1>9. ASSUME \A j \in DOMAIN <<expression>> : <<expression>>[j] # NoText
      PROVE  Induction!Names(new)' /\ Induction!Visited(new)' = <<expression>>
    <2>1. expression # NoText
        BY <1>9
    <2>2. new.index \in DOMAIN s3' /\ s3'[new.index] = expression
        BY <1>3, <1>5
    <2> QED
        BY <1>5, <2>1, <2>2 DEF Induction!Names, Induction!Visited
<1>10. Shown' /\ Len(s5') = Len(s4') /\ s5' \in Seq(Seq(InductionText \cup {"step"}))
    <2>1. <<expression>> \in Seq(InductionText \cup {"step"})
        OBVIOUS
    <2>2. s4' = Append(s4, new)
        BY <1>1, <1>4
    <2> QED
        BY <1>8, <1>9, <2>1, <2>2, OneMoreShown
<1>11. InductionType'
    BY <1>1, <1>2, <1>3, <1>6, <1>10 DEF InductionType, References
<1> QED
    BY <1>7, <1>10, <1>11 DEF InductionInv

\* A binding keeps the invariant, ...
LEMMA BindingAdded ==
    ASSUME InductionInv, NEW label \in InductionText, NEW expression \in InductionText,
           s5' = Append(s5, <<label, expression>>),
           s2' = Append(s2, [label |-> label, expression |-> expression]),
           s4' = Append(s4, Induction!Item("binding", Len(s2) + 1)), s1' = s1, s3' = s3
    PROVE  InductionInv'
<1> DEFINE binding == [label |-> label, expression |-> expression]
           Bindings == [label : InductionText, expression : InductionText]
<1>1. /\ InductionType /\ Induction!ReferencesResolve /\ s2 \in Seq(Bindings)
      /\ binding \in Bindings /\ binding.label = label /\ binding.expression = expression
    BY DEF InductionInv, InductionType
<1>2. s2' = Append(s2, binding)
    OBVIOUS
<1> HIDE DEF binding, Bindings
<1>3. /\ s2' \in Seq(Bindings) /\ Len(s2) + 1 \in Nat /\ Len(s2') = Len(s2) + 1
      /\ DOMAIN s2' = DOMAIN s2 \cup {Len(s2) + 1}
      /\ (\A i \in DOMAIN s2 : s2'[i] = s2[i]) /\ s2'[Len(s2) + 1] = binding
    BY <1>1, <1>2, NextPlace
<1>4. PICK new \in References : new = Induction!Item("binding", Len(s2) + 1)
    BY <1>3 DEF Induction!Item, References
<1>5. new.kind = "binding" /\ new.index = Len(s2) + 1
    BY <1>4 DEF Induction!Item
<1>6. /\ s4' \in Seq(References)
      /\ Cardinality(Induction!Of("binding")') = Cardinality(Induction!Of("binding")) + 1
      /\ Induction!Indexes("binding")' = Induction!Indexes("binding") \cup {Len(s2) + 1}
      /\ \A other \in {"step", "passthrough"} :
            /\ Induction!Of(other)' = Induction!Of(other)
            /\ Induction!Indexes(other)' = Induction!Indexes(other)
    BY <1>1, <1>2, <1>3, OneMoreReference DEF References
<1>7. Induction!ReferencesResolve'
    BY <1>1, <1>3, <1>6 DEF Induction!ReferencesResolve, Induction!Cardinality, Cardinality
<1>8. ASSUME NEW old \in References, Induction!Names(old)
      PROVE  Induction!Names(old)' /\ Induction!Visited(old)' = Induction!Visited(old)
    BY <1>3, <1>8 DEF Induction!Names, Induction!Visited, References
<1>9. ASSUME \A j \in DOMAIN <<label, expression>> : <<label, expression>>[j] # NoText
      PROVE  Induction!Names(new)' /\ Induction!Visited(new)' = <<label, expression>>
    <2>1. label # NoText /\ expression # NoText
        <3>1. 1 \in DOMAIN <<label, expression>> /\ 2 \in DOMAIN <<label, expression>>
            OBVIOUS
        <3> QED
            BY <1>9, <3>1
    <2>2. /\ new.index \in DOMAIN s2' /\ s2'[new.index].label = label
          /\ s2'[new.index].expression = expression
        BY <1>1, <1>3, <1>5
    <2> QED
        BY <1>5, <2>1, <2>2 DEF Induction!Names, Induction!Visited
<1>10. Shown' /\ Len(s5') = Len(s4') /\ s5' \in Seq(Seq(InductionText \cup {"step"}))
    <2>1. <<label, expression>> \in Seq(InductionText \cup {"step"})
        OBVIOUS
    <2>2. s4' = Append(s4, new)
        BY <1>4
    <2> QED
        BY <1>8, <1>9, <2>1, <2>2, OneMoreShown
<1>11. InductionType'
    BY <1>1, <1>3, <1>6, <1>10 DEF InductionType, References, Bindings
<1> QED
    BY <1>7, <1>10, <1>11 DEF InductionInv

\* ... so does a step expression, ...
LEMMA StepAdded ==
    ASSUME InductionInv, NEW expression \in InductionText, s1 = NoText,
           s5' = Append(s5, <<"step", expression>>), s1' = expression,
           s4' = Append(s4, Induction!Item("step", 1)), s2' = s2, s3' = s3
    PROVE  InductionInv'
<1> DEFINE new == Induction!Item("step", 1)
<1>1. InductionType /\ Induction!ReferencesResolve
    BY DEF InductionInv
<1>2. new \in References /\ new.kind = "step" /\ new.index = 1
    BY DEF Induction!Item, References
<1>3. s4' = Append(s4, new)
    OBVIOUS
<1> HIDE DEF new
<1>4. /\ s4' \in Seq(References)
      /\ Induction!Indexes("step")' = Induction!Indexes("step") \cup {1}
      /\ \A other \in {"binding", "passthrough"} :
            /\ Induction!Of(other)' = Induction!Of(other)
            /\ Induction!Indexes(other)' = Induction!Indexes(other)
    BY <1>1, <1>3, OneMoreReference DEF References, new
<1>5. Induction!ReferencesResolve'
    BY <1>1, <1>4 DEF Induction!ReferencesResolve, Induction!Cardinality, Cardinality
<1>6. ASSUME NEW old \in References, Induction!Names(old)
      PROVE  Induction!Names(old)' /\ Induction!Visited(old)' = Induction!Visited(old)
    BY <1>6 DEF Induction!Names, Induction!Visited, References
<1>7. ASSUME \A j \in DOMAIN <<"step", expression>> : <<"step", expression>>[j] # NoText
      PROVE  Induction!Names(new)' /\ Induction!Visited(new)' = <<"step", expression>>
    <2>1. expression # NoText
        <3>1. 2 \in DOMAIN <<"step", expression>>
            OBVIOUS
        <3> QED
            BY <1>7, <3>1
    <2> QED
        BY <1>2, <2>1 DEF Induction!Names, Induction!Visited
<1>8. Shown' /\ Len(s5') = Len(s4') /\ s5' \in Seq(Seq(InductionText \cup {"step"}))
    <2>1. <<"step", expression>> \in Seq(InductionText \cup {"step"})
        OBVIOUS
    <2> QED
        BY <1>2, <1>3, <1>6, <1>7, <2>1, OneMoreShown
<1>9. InductionType'
    BY <1>1, <1>4, <1>8 DEF InductionType, References
<1> QED
    BY <1>5, <1>8, <1>9 DEF InductionInv

\* ... so does every setter.
LEMMA InductionSteps ==
    ASSUME InductionInv, Induction!Next
    PROVE  InductionInv'
<1>1. PICK expression \in Texts \cup {NoText, NULL} :
        \/ Induction!AddStepExpression(expression) \/ Induction!AddPassthroughItem(expression)
        \/ \E label \in Texts \cup {NoText, NULL} : Induction!AddBinding(label, expression)
    BY DEF Induction!Next
<1>2. expression \in InductionText
    BY <1>1 DEF InductionText, Induction!AddStepExpression, Induction!AddPassthroughItem,
        Induction!AddBinding
<1>3. CASE Induction!AddStepExpression(expression) /\ s1 = NoText
    BY <1>2, <1>3, StepAdded DEF Induction!AddStepExpression, Induction!Asked
<1>4. CASE Induction!AddStepExpression(expression) /\ s1 # NoText
    BY <1>2, <1>4, PassesThrough DEF Induction!AddStepExpression, Induction!Asked
<1>5. CASE Induction!AddPassthroughItem(expression)
    BY <1>2, <1>5, PassesThrough DEF Induction!AddPassthroughItem, Induction!Asked
<1>6. ASSUME NEW label \in Texts \cup {NoText, NULL}, Induction!AddBinding(label, expression)
      PROVE  InductionInv'
    <2>1. Induction!Spelled(label) \in InductionText
        BY DEF Induction!Spelled, InductionText
    <2> QED
        BY <1>2, <1>6, <2>1, BindingAdded DEF Induction!AddBinding, Induction!Asked
<1> QED
    BY <1>1, <1>3, <1>4, <1>5, <1>6

\* What the invariant says of the properties.
LEMMA InductionSays ==
    ASSUME InductionInv
    PROVE  Induction!ReferencesResolve /\ Induction!VisitsWhatWasGiven
<1>1. InductionType /\ Shown /\ Induction!ReferencesResolve
    BY DEF InductionInv
<1>2. ASSUME Induction!AllTexts
      PROVE  ~Induction!VisitThrows /\ Induction!VisitSpecificationItems = s5
    <2>1. \A i \in DOMAIN s4 : Induction!Names(s4[i]) /\ Induction!Visited(s4[i]) = s5[i]
        BY <1>1, <1>2 DEF Shown
    <2>2. ~Induction!VisitThrows
        BY <2>1 DEF Induction!VisitThrows
    <2>3. s5 = [i \in DOMAIN s4 |-> s5[i]]
        <3>1. s5 \in Seq(Seq(InductionText \cup {"step"})) /\ DOMAIN s5 = DOMAIN s4
            BY <1>1 DEF InductionType
        <3> QED
            BY <3>1
    <2>4. Induction!VisitSpecificationItems = [i \in DOMAIN s4 |-> s5[i]]
        BY <2>1 DEF Induction!VisitSpecificationItems
    <2> QED
        BY <2>2, <2>3, <2>4
<1> QED
    BY <1>1, <1>2 DEF Induction!VisitsWhatWasGiven

-----------------------------------------------------------------------------
(* APPLY clauses: what toString prints. *)

\* The lists that a list of lists is flattened through.
Flattened(f, lists, T) ==
    /\ f \in [0 .. Len(lists) -> Seq(T)] /\ f[0] = <<>>
    /\ \A k \in 1 .. Len(lists) : f[k] = f[k - 1] \o lists[k]

\* The lists of a list, one behind the other, are a loop over it.
LEMMA FlattenIs ==
    ASSUME NEW T, NEW lists \in Seq(Seq(T))
    PROVE  \E f : Flattened(f, lists, T) /\ Apply!FlattenSeq(lists) = f[Len(lists)]
<1> DEFINE n == Len(lists)
           step == [k \in 1 .. n |-> [s \in Seq(T) |-> s \o lists[k]]]
           IsFlat(f) == f = [i \in 1 .. n |-> IF i = 1 THEN lists[i] ELSE f[i - 1] \o lists[i]]
           flat == CHOOSE f : IsFlat(f)
<1>1. n \in Nat /\ \A k \in 1 .. n : lists[k] \in Seq(T)
    OBVIOUS
<1>2. step \in [1 .. n -> [Seq(T) -> Seq(T)]] /\ <<>> \in Seq(T)
    <2>1. \A k \in 1 .. n : \A s \in Seq(T) : s \o lists[k] \in Seq(T)
        BY <1>1, ConcatProperties
    <2> HIDE DEF n
    <2> QED
        BY <2>1
<1>3. PICK g : Runs(g, n, Seq(T), <<>>, step)
    <2> HIDE DEF step, n
    <2> QED
        BY <1>1, <1>2, LoopEnds
<1>4. /\ g \in [0 .. n -> Seq(T)] /\ g[0] = <<>>
      /\ \A k \in 1 .. n : g[k] = step[k][g[k - 1]] /\ g[k - 1] \in Seq(T)
    <2>1. \A k \in 1 .. n : k - 1 \in 0 .. n
        BY <1>1
    <2> QED
        BY <1>3, <2>1 DEF Runs
<1>5. \A k \in 1 .. n : g[k] = g[k - 1] \o lists[k]
    BY <1>4
<1> HIDE DEF step
<1>6. Flattened(g, lists, T)
    BY <1>4, <1>5 DEF Flattened
<1>7. CASE n = 0
    <2>1. lists = <<>>
        BY <1>7
    <2>2. Apply!FlattenSeq(lists) = g[n]
        BY <1>4, <1>7, <2>1 DEF Apply!FlattenSeq
    <2> QED
        BY <1>6, <2>2
<1>8. CASE n # 0
    <2> DEFINE h == [i \in 1 .. n |-> g[i]]
    <2>1. IsFlat(h)
        <3>1. \A i \in 1 .. n : h[i] = IF i = 1 THEN lists[i] ELSE h[i - 1] \o lists[i]
            <4> TAKE i \in 1 .. n
            <4>1. CASE i = 1
                <5>1. g[1] = g[0] \o lists[1]
                    <6>1. 1 \in 1 .. n /\ 1 - 1 = 0
                        BY <4>1
                    <6> QED
                        BY <1>5, <6>1
                <5>2. <<>> \o lists[1] = lists[1]
                    BY <1>1, <4>1, ConcatEmptySeq
                <5> QED
                    BY <1>4, <4>1, <5>1, <5>2
            <4>2. CASE i # 1
                <5>1. i - 1 \in 1 .. n
                    BY <1>1, <4>2
                <5> QED
                    BY <1>5, <4>2, <5>1
            <4> QED
                BY <4>1, <4>2
        <3> QED
            BY <3>1
    <2>2. IsFlat(flat)
        <3> HIDE DEF IsFlat
        <3> QED
            BY <2>1
    <2>3. Apply!FlattenSeq(lists) = flat[n]
        BY <1>8 DEF Apply!FlattenSeq
    <2> DEFINE Held == {k \in 0 .. n : k = 0 \/ flat[k] = g[k]}
    <2>4. \A i \in 1 .. n : flat[i] = IF i = 1 THEN lists[i] ELSE flat[i - 1] \o lists[i]
        <3> HIDE DEF flat, n
        <3> QED
            BY <2>2
    <2> HIDE DEF flat, IsFlat
    <2>5. \A k \in 1 .. n : k - 1 \in Held => k \in Held
        <3> TAKE k \in 1 .. n
        <3> HAVE k - 1 \in Held
        <3>1. CASE k = 1
            <4>1. g[1] = g[0] \o lists[1]
                <5>1. 1 \in 1 .. n /\ 1 - 1 = 0
                    BY <3>1
                <5> QED
                    BY <1>5, <5>1
            <4>2. <<>> \o lists[1] = lists[1]
                BY <1>1, <3>1, ConcatEmptySeq
            <4> QED
                BY <1>4, <2>4, <3>1, <4>1, <4>2
        <3>2. CASE k # 1
            <4>1. k - 1 # 0 /\ flat[k - 1] = g[k - 1]
                BY <3>2
            <4>2. flat[k] = flat[k - 1] \o lists[k]
                BY <2>4, <3>2
            <4>3. g[k] = g[k - 1] \o lists[k]
                BY <1>5
            <4>4. k \in 0 .. n
                OBVIOUS
            <4> QED
                BY <4>1, <4>2, <4>3, <4>4
        <3> QED
            BY <3>1, <3>2
    <2>6. flat[n] = g[n]
        <3>1. 0 \in Held
            BY <1>1
        <3>2. \A k \in 0 .. n : k \in Held
            <4> HIDE DEF Held, n
            <4> QED
                BY <1>1, <2>5, <3>1, PassedOn
        <3>3. n \in Held
            <4>1. n \in 0 .. n
                BY <1>1
            <4> HIDE DEF Held, n
            <4> QED
                BY <3>2, <4>1
        <3> QED
            BY <1>8, <3>3
    <2> QED
        BY <1>6, <2>3, <2>6
<1> QED
    BY <1>7, <1>8

\* One list more is behind the others.
LEMMA FlattenMore ==
    ASSUME NEW T, NEW lists \in Seq(Seq(T)), NEW s \in Seq(T)
    PROVE  /\ Apply!FlattenSeq(lists) \in Seq(T)
           /\ Apply!FlattenSeq(Append(lists, s)) = Apply!FlattenSeq(lists) \o s
<1> DEFINE n == Len(lists)
           more == Append(lists, s)
<1>1. /\ n \in Nat /\ more \in Seq(Seq(T)) /\ Len(more) = n + 1 /\ more[n + 1] = s
      /\ \A k \in 1 .. n : more[k] = lists[k]
    BY AppendProperties
<1>2. PICK f : Flattened(f, lists, T) /\ Apply!FlattenSeq(lists) = f[n]
    BY FlattenIs
<1> HIDE DEF more, n
<1>3. PICK g : Flattened(g, more, T) /\ Apply!FlattenSeq(more) = g[n + 1]
    <2>1. \E g : Flattened(g, more, T) /\ Apply!FlattenSeq(more) = g[Len(more)]
        BY <1>1, FlattenIs
    <2> QED
        BY <1>1, <2>1
<1>4. /\ f \in [0 .. n -> Seq(T)] /\ f[0] = <<>>
      /\ \A k \in 1 .. n : f[k] = f[k - 1] \o lists[k]
    BY <1>2 DEF Flattened, n
<1>5. /\ g[0] = <<>> /\ \A k \in 1 .. n + 1 : g[k] = g[k - 1] \o more[k]
    BY <1>1, <1>3 DEF Flattened
<1> DEFINE Held == {k \in 0 .. n : f[k] = g[k]}
<1>6. 0 \in Held
    BY <1>1, <1>4, <1>5
<1>7. \A k \in 1 .. n : k - 1 \in Held => k \in Held
    <2> TAKE k \in 1 .. n
    <2> HAVE k - 1 \in Held
    <2>1. k \in 1 .. n + 1 /\ k \in 0 .. n
        BY <1>1
    <2> QED
        BY <1>1, <1>4, <1>5, <2>1
<1>8. f[n] = g[n]
    <2>1. \A k \in 0 .. n : k \in Held
        <3> HIDE DEF Held
        <3> QED
            BY <1>1, <1>6, <1>7, PassedOn
    <2>2. n \in 0 .. n
        BY <1>1
    <2> QED
        BY <2>1, <2>2
<1>9. g[n + 1] = g[n] \o s
    <2>1. n + 1 \in 1 .. n + 1 /\ (n + 1) - 1 = n
        BY <1>1
    <2> QED
        BY <1>1, <1>5, <2>1
<1>10. f[n] \in Seq(T)
    BY <1>1, <1>4
<1> QED
    BY <1>2, <1>3, <1>8, <1>9, <1>10 DEF more

\* What an APPLY clause prints: a transformation, ...
ApplyToken == {"apply(", ")", ",", " ", ":", "l", "apply"} \cup Texts
Transformed ==
    [name : Texts \cup {"apply"}, child : Nat, separator : {"comma", "space"}]
ApplyClause == [label : {"l", Apply!NoLabel}, transforms : Seq(Transformed)]
Gap(separator) == IF separator = "space" THEN <<" ">> ELSE <<",">>
One(transform, text) ==
    IF transform.child = 0 THEN <<transform.name>> ELSE text[transform.child]
Item(list, n, text) == (IF n = 1 THEN <<>> ELSE Gap(list[n].separator)) \o One(list[n], text)
Items(list, text) == [n \in DOMAIN list |-> Item(list, n, text)]
\* ... and all from its beginning to the last of them.
Labelled(label) == IF label = Apply!NoLabel THEN <<>> ELSE <<label, ":">>
Begun(clause, text) ==
    <<"apply(">> \o Labelled(clause.label) \o Apply!FlattenSeq(Items(clause.transforms, text))

\* Where every nested clause has a text.
Printable(list, text) ==
    \A n \in DOMAIN list : list[n].child = 0 \/ text[list[n].child] \in Seq(ApplyToken)

\* The texts of the items of a clause are texts.
LEMMA ItemsAre ==
    ASSUME NEW list \in Seq(Transformed), NEW text, Printable(list, text)
    PROVE  Items(list, text) \in Seq(Seq(ApplyToken)) /\ Len(Items(list, text)) = Len(list)
<1>1. ASSUME NEW n \in DOMAIN list PROVE Item(list, n, text) \in Seq(ApplyToken)
    <2>1. list[n] \in Transformed
        OBVIOUS
    <2>2. One(list[n], text) \in Seq(ApplyToken)
        <3>1. list[n].name \in ApplyToken
            BY <2>1 DEF Transformed, ApplyToken
        <3>2. <<list[n].name>> \in Seq(ApplyToken)
            BY <3>1
        <3> QED
            BY <3>2 DEF Printable, One
    <2>3. \A separator : Gap(separator) \in Seq(ApplyToken)
        <3>1. <<" ">> \in Seq(ApplyToken) /\ <<",">> \in Seq(ApplyToken)
            BY DEF ApplyToken
        <3> QED
            BY <3>1 DEF Gap
    <2>4. <<>> \in Seq(ApplyToken)
        OBVIOUS
    <2>5. (IF n = 1 THEN <<>> ELSE Gap(list[n].separator)) \in Seq(ApplyToken)
        BY <2>3, <2>4
    <2> QED
        BY <2>2, <2>5, ConcatProperties DEF Item
<1>2. Items(list, text) \in [1 .. Len(list) -> Seq(ApplyToken)] /\ Len(list) \in Nat
    BY <1>1 DEF Items
<1> QED
    BY <1>2

\* A clause with one transformation more.
LEMMA OneMoreItem ==
    ASSUME NEW list \in Seq(Transformed), NEW text, Printable(list, text),
           NEW transform \in Transformed,
           transform.child = 0 \/ text[transform.child] \in Seq(ApplyToken)
    PROVE  /\ Printable(Append(list, transform), text)
           /\ Items(Append(list, transform), text)
              = Append(Items(list, text),
                       (IF list = <<>> THEN <<>> ELSE Gap(transform.separator))
                       \o One(transform, text))
<1> DEFINE m == Len(list)
           more == Append(list, transform)
           last == (IF list = <<>> THEN <<>> ELSE Gap(transform.separator)) \o One(transform, text)
<1>1. /\ more \in Seq(Transformed) /\ Len(more) = m + 1 /\ m \in Nat
      /\ more[m + 1] = transform /\ \A n \in 1 .. m : more[n] = list[n]
    BY AppendProperties
<1>2. Printable(more, text)
    <2> SUFFICES ASSUME NEW n \in 1 .. m + 1
                 PROVE  more[n].child = 0 \/ text[more[n].child] \in Seq(ApplyToken)
        <3>1. DOMAIN more = 1 .. m + 1
            BY <1>1
        <3> QED
            BY <3>1 DEF Printable
    <2> HIDE DEF more
    <2>1. CASE n = m + 1
        BY <1>1, <2>1
    <2>2. CASE n # m + 1
        <3>1. n \in DOMAIN list /\ n \in 1 .. m
            BY <1>1, <2>2
        <3> QED
            BY <1>1, <3>1 DEF Printable
    <2> QED
        BY <2>1, <2>2
<1>3. /\ Items(list, text) \in Seq(Seq(ApplyToken)) /\ Len(Items(list, text)) = m
      /\ Items(more, text) \in Seq(Seq(ApplyToken)) /\ Len(Items(more, text)) = m + 1
    BY <1>1, <1>2, ItemsAre
<1>4. \A n \in 1 .. m : Items(more, text)[n] = Items(list, text)[n]
    <2> TAKE n \in 1 .. m
    <2>1. n \in DOMAIN more /\ n \in DOMAIN list /\ more[n] = list[n]
        BY <1>1
    <2> HIDE DEF more
    <2> QED
        BY <2>1 DEF Items, Item
<1>5. Items(more, text)[m + 1] = last
    <2>1. m + 1 \in DOMAIN more /\ more[m + 1] = transform /\ (m + 1 = 1 <=> list = <<>>)
        BY <1>1
    <2> HIDE DEF more
    <2> QED
        BY <2>1 DEF Items, Item
<1>6. last \in Seq(ApplyToken)
    <2>1. Items(more, text)[m + 1] \in Seq(ApplyToken)
        BY <1>1, <1>3
    <2> QED
        BY <1>5, <2>1
<1>7. Items(more, text) = Append(Items(list, text), last)
    <2> DEFINE u == Items(list, text)
               v == Items(more, text)
    <2>1. /\ Append(u, last) \in Seq(Seq(ApplyToken)) /\ Len(Append(u, last)) = m + 1
          /\ Append(u, last)[m + 1] = last /\ \A n \in 1 .. m : Append(u, last)[n] = u[n]
        BY <1>3, <1>6, AppendProperties
    <2>2. \A n \in 1 .. m + 1 : n = m + 1 \/ n \in 1 .. m
        BY <1>1
    <2> HIDE DEF u, v, last, more, m
    <2>3. \A n \in 1 .. m + 1 : v[n] = Append(u, last)[n]
        BY <1>4, <1>5, <2>1, <2>2 DEF u, v
    <2>4. v = Append(u, last)
        BY <1>3, <2>1, <2>3, SeqEqual DEF v
    <2> QED
        BY <2>4 DEF u, v
<1> QED
    BY <1>2, <1>7

\* What is written of a clause.
LEMMA HeadIs ==
    ASSUME NEW label \in {"l", Apply!NoLabel}
    PROVE  <<"apply(">> \o Labelled(label) \in Seq(ApplyToken)
<1>1. <<"apply(">> \in Seq(ApplyToken)
    BY DEF ApplyToken
<1>2. <<"l", ":">> \in Seq(ApplyToken)
    <2>1. "l" \in ApplyToken /\ ":" \in ApplyToken
        BY DEF ApplyToken
    <2> QED
        BY <2>1
<1>3. Labelled(label) \in Seq(ApplyToken)
    <2>1. <<>> \in Seq(ApplyToken)
        OBVIOUS
    <2> QED
        BY <1>2, <2>1 DEF Labelled
<1> QED
    BY <1>1, <1>3, ConcatProperties

\* The text of a clause up to its last item.
LEMMA BegunIs ==
    ASSUME NEW clause \in ApplyClause, NEW text, Printable(clause.transforms, text)
    PROVE  Begun(clause, text) \in Seq(ApplyToken)
<1>1. clause.transforms \in Seq(Transformed) /\ clause.label \in {"l", Apply!NoLabel}
    BY DEF ApplyClause
<1>2. Items(clause.transforms, text) \in Seq(Seq(ApplyToken))
    BY <1>1, ItemsAre
<1>3. Apply!FlattenSeq(Items(clause.transforms, text)) \in Seq(ApplyToken)
    <2>1. <<>> \in Seq(ApplyToken)
        OBVIOUS
    <2> QED
        BY <1>2, <2>1, FlattenMore
<1>4. <<"apply(">> \o Labelled(clause.label) \in Seq(ApplyToken)
    BY <1>1, HeadIs
<1> QED
    BY <1>3, <1>4, ConcatProperties DEF Begun

\* What is written of a clause goes on with one transformation more.
LEMMA BegunMore ==
    ASSUME NEW clause \in ApplyClause, NEW text, Printable(clause.transforms, text),
           NEW transform \in Transformed,
           transform.child = 0 \/ text[transform.child] \in Seq(ApplyToken)
    PROVE  Begun([clause EXCEPT !.transforms = Append(@, transform)], text)
           = Begun(clause, text)
             \o ((IF clause.transforms = <<>> THEN <<>> ELSE Gap(transform.separator))
                 \o One(transform, text))
<1> DEFINE list == clause.transforms
           last == (IF list = <<>> THEN <<>> ELSE Gap(transform.separator)) \o One(transform, text)
           longer == [clause EXCEPT !.transforms = Append(@, transform)]
           flat == Apply!FlattenSeq(Items(list, text))
           head == <<"apply(">> \o Labelled(clause.label)
<1>1. list \in Seq(Transformed) /\ clause.label \in {"l", Apply!NoLabel}
    BY DEF ApplyClause
<1>2. longer.label = clause.label /\ longer.transforms = Append(list, transform)
    BY DEF ApplyClause
<1>3. Items(Append(list, transform), text) = Append(Items(list, text), last)
    BY <1>1, OneMoreItem
<1>4. Items(list, text) \in Seq(Seq(ApplyToken)) /\ Len(Items(list, text)) = Len(list)
    BY <1>1, ItemsAre
<1>5. last \in Seq(ApplyToken)
    <2>1. /\ Append(list, transform) \in Seq(Transformed)
          /\ Len(Append(list, transform)) = Len(list) + 1 /\ Len(list) \in Nat
        BY <1>1, AppendProperties
    <2>2. Printable(Append(list, transform), text)
        BY <1>1, OneMoreItem
    <2>3. /\ Items(Append(list, transform), text) \in Seq(Seq(ApplyToken))
          /\ Len(Items(Append(list, transform), text)) = Len(list) + 1
        BY <2>1, <2>2, ItemsAre
    <2>4. Items(Append(list, transform), text)[Len(list) + 1] \in Seq(ApplyToken)
        BY <2>1, <2>3
    <2>5. Append(Items(list, text), last)[Len(list) + 1] = last
        BY <1>4, AppendProperties
    <2> HIDE DEF last
    <2> QED
        BY <1>3, <2>4, <2>5
<1>6. Apply!FlattenSeq(Append(Items(list, text), last)) = flat \o last /\ flat \in Seq(ApplyToken)
    BY <1>4, <1>5, FlattenMore
<1>7. head \in Seq(ApplyToken)
    BY <1>1, HeadIs
<1>8. head \o (flat \o last) = (head \o flat) \o last
    <2> HIDE DEF head, flat, last
    <2> QED
        BY <1>5, <1>6, <1>7, ConcatAssociative
<1>9. Begun(clause, text) = head \o flat
    BY DEF Begun
<1>10. Begun(longer, text) = head \o Apply!FlattenSeq(Items(Append(list, transform), text))
    <2> HIDE DEF longer
    <2> QED
        BY <1>2 DEF Begun
<1> HIDE DEF head, flat, last, list
<1> QED
    BY <1>3, <1>6, <1>8, <1>9, <1>10 DEF last, list

\* The texts of other clauses do not matter.
LEMMA BegunSame ==
    ASSUME NEW clause, NEW text, NEW other,
           \A n \in DOMAIN clause.transforms :
                \/ clause.transforms[n].child = 0
                \/ text[clause.transforms[n].child] = other[clause.transforms[n].child]
    PROVE  Begun(clause, text) = Begun(clause, other)
<1>1. \A n \in DOMAIN clause.transforms :
        Item(clause.transforms, n, text) = Item(clause.transforms, n, other)
    BY DEF Item, One
<1>2. Items(clause.transforms, text) = Items(clause.transforms, other)
    BY <1>1 DEF Items
<1> QED
    BY <1>2 DEF Begun

-----------------------------------------------------------------------------
(* APPLY clauses, while a text is read: from the outermost to the           *)
(* innermost that is open, each has a text that goes up to the next.        *)

ApplyType ==
    /\ s1 \in Seq(ApplyClause) /\ s2 \in Nat /\ s3 \in {"comma", "space"}
    /\ s4 \in Seq(Nat) /\ s5 \in Seq({"comma", "space"})
    /\ s7 \in Seq(ApplyToken) /\ s8 \in {"parameter", "after label", "next", "end"}
    /\ s9 \in Seq(BOOLEAN)
\* The clauses that are open, the current one last.
OpenAre(chain) ==
    /\ chain \in Seq(Nat) /\ Len(chain) = Len(s9) /\ Len(s9) \in Nat \ {0}
    /\ chain[1] = 1 /\ chain[Len(chain)] = s2
    /\ Len(s4) = Len(s9) - 1 /\ Len(s5) = Len(s9) - 1
    /\ \A k \in 1 .. Len(chain) - 1 : s4[Len(chain) - k] = chain[k]
    /\ \A k \in 1 .. Len(chain) : chain[k] \in 1 .. Len(s1)
    /\ \A k \in 1 .. Len(chain) : \A j \in 1 .. k - 1 : chain[j] < chain[k]
    /\ s6 = {chain[k] : k \in 2 .. Len(chain)}
Closed(i, chain) == \A k \in 1 .. Len(chain) : chain[k] # i
\* A clause owns younger ones, which are closed.
MayOwn(list, i, chain) ==
    \A n \in DOMAIN list :
        \/ list[n].child = 0
        \/ list[n].child \in i + 1 .. Len(s1) /\ Closed(list[n].child, chain)
OwnedAre(chain) == \A i \in 1 .. Len(s1) : MayOwn(s1[i].transforms, i, chain)
\* What was read last.
Expected ==
    /\ s8 \in {"next", "end"} => s1[s2].transforms # <<>>
    /\ s8 = "end" => Len(s9) = 1
    /\ s8 = "parameter" /\ s1[s2].transforms # <<>> => s3 = "comma"
    /\ s8 = "parameter" /\ s1[s2].transforms = <<>> => s1[s2].label = Apply!NoLabel
    /\ s8 = "after label" /\ Apply!LabelLeads => s1[s2].transforms = <<>>
Trail == IF s8 = "end" THEN <<")">>
         ELSE IF s8 = "parameter" /\ s1[s2].transforms # <<>> THEN <<",">> ELSE <<>>
Parting(list, separator) == IF list = <<>> THEN <<>> ELSE Gap(separator)
\* The texts of the clauses that are closed, and what is before those that are open.
\* They make up what was read, as long as no later parameter had a label.
TextsAre(chain, text, before) ==
    /\ text \in [1 .. Len(s1) -> Seq(ApplyToken)]
    /\ before \in [1 .. Len(chain) -> Seq(ApplyToken)]
    /\ \A i \in 1 .. Len(s1) : Closed(i, chain) =>
        s1[i].transforms # <<>> /\ text[i] = Begun(s1[i], text) \o <<")">>
    /\ before[1] = <<>>
    /\ \A k \in 1 .. Len(chain) - 1 :
        before[k + 1] = before[k] \o (Begun(s1[chain[k]], text)
                            \o Parting(s1[chain[k]].transforms, s5[Len(chain) - k]))
    /\ Apply!LabelLeads => s7 = before[Len(chain)] \o (Begun(s1[s2], text) \o Trail)
ApplyRead(chain, text, before) ==
    ApplyType /\ OpenAre(chain) /\ OwnedAre(chain) /\ Expected /\ TextsAre(chain, text, before)
ApplyInv == s8 # "end" \/ s7 # <<>> => \E chain, text, before : ApplyRead(chain, text, before)

\* What the invariant says of the current clause and of every other.
LEMMA CurrentIs ==
    ASSUME NEW chain, NEW text, NEW before, ApplyRead(chain, text, before)
    PROVE  /\ Len(chain) \in Nat \ {0} /\ Len(s1) \in Nat /\ s2 \in 1 .. Len(s1)
           /\ \A i \in 1 .. Len(s1) : /\ s1[i] \in ApplyClause
                                      /\ s1[i].transforms \in Seq(Transformed)
                                      /\ Printable(s1[i].transforms, text)
                                      /\ Begun(s1[i], text) \in Seq(ApplyToken)
           /\ before[Len(chain)] \in Seq(ApplyToken) /\ Trail \in Seq(ApplyToken)
           /\ \A k \in 1 .. Len(chain) - 1 : chain[k] # s2 /\ chain[k] \in 1 .. Len(s1)
           /\ ~Closed(s2, chain)
<1>1. /\ Len(chain) \in Nat \ {0} /\ Len(s1) \in Nat /\ chain[Len(chain)] = s2
      /\ \A k \in 1 .. Len(chain) : chain[k] \in 1 .. Len(s1)
      /\ \A k \in 1 .. Len(chain) : \A j \in 1 .. k - 1 : chain[j] < chain[k]
    <2>1. ApplyType /\ OpenAre(chain)
        BY DEF ApplyRead
    <2>2. s1 \in Seq(ApplyClause)
        BY <2>1 DEF ApplyType
    <2>3. Len(s1) \in Nat
        BY <2>2
    <2>4. /\ Len(chain) \in Nat \ {0} /\ chain[Len(chain)] = s2
          /\ \A k \in 1 .. Len(chain) : chain[k] \in 1 .. Len(s1)
          /\ \A k \in 1 .. Len(chain) : \A j \in 1 .. k - 1 : chain[j] < chain[k]
        BY <2>1 DEF OpenAre
    <2> QED
        BY <2>3, <2>4
<1>2. Len(chain) \in 1 .. Len(chain) /\ s2 \in 1 .. Len(s1)
    BY <1>1
<1>3. ASSUME NEW i \in 1 .. Len(s1)
      PROVE  /\ s1[i] \in ApplyClause /\ s1[i].transforms \in Seq(Transformed)
             /\ Printable(s1[i].transforms, text) /\ Begun(s1[i], text) \in Seq(ApplyToken)
    <2>1. s1[i] \in ApplyClause
        <3>1. s1 \in Seq(ApplyClause)
            BY DEF ApplyRead, ApplyType
        <3> QED
            BY <1>3, <3>1
    <2>2. s1[i].transforms \in Seq(Transformed)
        BY <2>1 DEF ApplyClause
    <2>3. Printable(s1[i].transforms, text)
        <3> SUFFICES ASSUME NEW n \in DOMAIN s1[i].transforms, s1[i].transforms[n].child # 0
                     PROVE  text[s1[i].transforms[n].child] \in Seq(ApplyToken)
            BY DEF Printable
        <3>1. s1[i].transforms[n].child \in i + 1 .. Len(s1)
            BY <1>3 DEF ApplyRead, OwnedAre, MayOwn
        <3>2. s1[i].transforms[n].child \in 1 .. Len(s1)
            BY <1>1, <3>1
        <3> QED
            BY <3>2 DEF ApplyRead, TextsAre
    <2> QED
        BY <2>1, <2>2, <2>3, BegunIs
<1>4. before[Len(chain)] \in Seq(ApplyToken)
    BY <1>2 DEF ApplyRead, TextsAre
<1>5. Trail \in Seq(ApplyToken)
    <2>1. <<")">> \in Seq(ApplyToken) /\ <<",">> \in Seq(ApplyToken) /\ <<>> \in Seq(ApplyToken)
        BY DEF ApplyToken
    <2> QED
        BY <2>1 DEF Trail
<1>6. \A k \in 1 .. Len(chain) - 1 : chain[k] # s2 /\ chain[k] \in 1 .. Len(s1)
    <2> TAKE k \in 1 .. Len(chain) - 1
    <2>1. k \in 1 .. Len(chain) /\ chain[k] < chain[Len(chain)]
        BY <1>1, <1>2
    <2>2. chain[k] \in 1 .. Len(s1)
        BY <1>1, <2>1
    <2> QED
        BY <1>1, <2>1, <2>2
<1>7. ~Closed(s2, chain)
    BY <1>1, <1>2 DEF Closed
<1> QED
    BY <1>1, <1>2, <1>3, <1>4, <1>5, <1>6, <1>7

\* A label that leads its clause did so when less was read.
LEMMA LedBefore ==
    ASSUME s7 \in Seq(ApplyToken), NEW added \in Seq(ApplyToken), s7' = s7 \o added,
           Apply!LabelLeads'
    PROVE  Apply!LabelLeads
<1> SUFFICES ASSUME NEW n \in DOMAIN s7, s7[n] = ":"
             PROVE  n > 2 /\ s7[n - 2] = "apply("
    BY DEF Apply!LabelLeads
<1>1. /\ Len(s7) \in Nat /\ n \in 1 .. Len(s7) /\ s7' \in Seq(ApplyToken)
      /\ Len(s7') = Len(s7) + Len(added) /\ Len(added) \in Nat
      /\ \A k \in 1 .. Len(s7) : s7'[k] = s7[k]
    <2>1. /\ s7 \o added \in Seq(ApplyToken) /\ Len(s7 \o added) = Len(s7) + Len(added)
          /\ \A k \in 1 .. Len(s7) : (s7 \o added)[k] = s7[k]
        BY ConcatProperties
    <2> QED
        BY <2>1
<1>2. n \in DOMAIN s7' /\ s7'[n] = ":"
    BY <1>1
<1>3. n > 2 /\ s7'[n - 2] = "apply("
    BY <1>2 DEF Apply!LabelLeads
<1>4. n - 2 \in 1 .. Len(s7)
    BY <1>1, <1>3
<1> QED
    BY <1>1, <1>3, <1>4

\* A label after a comma does not lead.
LEMMA LateLabel ==
    ASSUME s7 \in Seq(ApplyToken), s7 # <<>>, s7[Len(s7)] # "apply(",
           s7' = s7 \o <<"l", ":">>
    PROVE  ~Apply!LabelLeads'
<1>1. <<"l", ":">> \in Seq(ApplyToken) /\ Len(<<"l", ":">>) = 2 /\ <<"l", ":">>[2] = ":"
    <2>1. "l" \in ApplyToken /\ ":" \in ApplyToken
        BY DEF ApplyToken
    <2> QED
        BY <2>1
<1> DEFINE m == Len(s7)
           added == <<"l", ":">>
<1>2. m \in Nat \ {0} /\ m \in 1 .. m
    OBVIOUS
<1> HIDE DEF added
<1>3. /\ s7' \in Seq(ApplyToken) /\ Len(s7') = m + 2 /\ s7'[m] = s7[m]
      /\ s7'[m + 2] = added[2]
    <2>1. m + 2 \in 1 .. m + 2 /\ ~(m + 2 <= m) /\ (m + 2) - m = 2 /\ m \in 1 .. m + 2
        BY <1>2
    <2>2. added \in Seq(ApplyToken) /\ Len(added) = 2 /\ s7' = s7 \o added
        BY <1>1 DEF added
    <2> QED
        BY <1>2, <2>1, <2>2, ConcatProperties
<1>4. m + 2 \in DOMAIN s7' /\ s7'[m + 2] = ":" /\ (m + 2) - 2 = m
    BY <1>1, <1>2, <1>3 DEF added
<1> QED
    BY <1>3, <1>4 DEF Apply!LabelLeads

\* A step that changes the current clause only, and what it reads.
Changes(clause, added) ==
    /\ s1' = [s1 EXCEPT ![s2] = clause] /\ UNCHANGED <<s2, s4, s5, s6>>
    /\ s3' \in {"comma", "space"} /\ s8' \in {"parameter", "after label", "next", "end"}
    /\ s9' \in Seq(BOOLEAN) /\ Len(s9') = Len(s9)
    /\ s7' = s7 \o added
Writes(clause, added, text) ==
    Begun(clause, text) \o Trail' = (Begun(s1[s2], text) \o Trail) \o added

\* What is read at the innermost level is added to what was read.
LEMMA LevelStep ==
    ASSUME NEW chain, NEW text, NEW before, ApplyRead(chain, text, before),
           NEW clause \in ApplyClause, NEW added \in Seq(ApplyToken),
           Changes(clause, added), Apply!LabelLeads' => Writes(clause, added, text),
           Expected',
           MayOwn(clause.transforms, s2, chain)
    PROVE  ApplyRead(chain, text, before)'
<1>1. /\ Len(chain) \in Nat \ {0} /\ Len(s1) \in Nat /\ s2 \in 1 .. Len(s1)
      /\ Begun(s1[s2], text) \in Seq(ApplyToken)
      /\ before[Len(chain)] \in Seq(ApplyToken) /\ Trail \in Seq(ApplyToken)
      /\ \A k \in 1 .. Len(chain) - 1 : chain[k] # s2 /\ chain[k] \in 1 .. Len(s1)
      /\ ~Closed(s2, chain)
    BY CurrentIs
<1>2. ApplyType /\ OpenAre(chain) /\ OwnedAre(chain) /\ TextsAre(chain, text, before)
    BY DEF ApplyRead
<1>3. /\ s1 \in Seq(ApplyClause) /\ s1' \in Seq(ApplyClause) /\ Len(s1') = Len(s1)
      /\ s1'[s2] = clause /\ \A i \in 1 .. Len(s1) : i # s2 => s1'[i] = s1[i]
    <2>1. s1 \in Seq(ApplyClause)
        BY <1>2 DEF ApplyType
    <2>2. s2 \in 1 .. Len(s1) /\ clause \in ApplyClause
        BY <1>1
    <2>3. /\ [s1 EXCEPT ![s2] = clause] \in Seq(ApplyClause)
          /\ Len([s1 EXCEPT ![s2] = clause]) = Len(s1)
          /\ \A j \in 1 .. Len(s1) :
                [s1 EXCEPT ![s2] = clause][j] = IF j = s2 THEN clause ELSE s1[j]
        BY <2>1, <2>2, ExceptSeq
    <2>4. s1' = [s1 EXCEPT ![s2] = clause]
        BY DEF Changes
    <2> QED
        BY <2>1, <2>2, <2>3, <2>4
<1>4. Apply!LabelLeads' => s7' = before[Len(chain)] \o (Begun(clause, text) \o Trail')
    <2> SUFFICES ASSUME Apply!LabelLeads'
                 PROVE  s7' = before[Len(chain)] \o (Begun(clause, text) \o Trail')
        OBVIOUS
    <2>1. Begun(s1[s2], text) \o Trail \in Seq(ApplyToken)
        BY <1>1, ConcatProperties
    <2>2. s7 = before[Len(chain)] \o (Begun(s1[s2], text) \o Trail)
        <3>1. s7 \in Seq(ApplyToken) /\ s7' = s7 \o added
            BY <1>2 DEF ApplyType, Changes
        <3>2. Apply!LabelLeads
            BY <3>1, LedBefore
        <3> QED
            BY <1>2, <3>2 DEF TextsAre
    <2>3. (before[Len(chain)] \o (Begun(s1[s2], text) \o Trail)) \o added
          = before[Len(chain)] \o ((Begun(s1[s2], text) \o Trail) \o added)
        <3> DEFINE a == before[Len(chain)]
                   b == Begun(s1[s2], text) \o Trail
        <3>1. a \in Seq(ApplyToken) /\ b \in Seq(ApplyToken) /\ added \in Seq(ApplyToken)
            BY <1>1, <2>1
        <3> HIDE DEF a, b
        <3>2. (a \o b) \o added = a \o (b \o added)
            BY <3>1, ConcatAssociative
        <3> QED
            BY <3>2 DEF a, b
    <2>4. s7' = s7 \o added
        BY DEF Changes
    <2>5. Begun(clause, text) \o Trail' = (Begun(s1[s2], text) \o Trail) \o added
        BY DEF Writes
    <2> QED
        BY <2>2, <2>3, <2>4, <2>5
<1>5. ApplyType'
    <2>1. s7' \in Seq(ApplyToken)
        <3>1. s7 \in Seq(ApplyToken) /\ s7' = s7 \o added
            BY <1>2 DEF ApplyType, Changes
        <3>2. s7 \o added \in Seq(ApplyToken)
            BY <3>1, ConcatProperties
        <3> QED
            BY <3>1, <3>2
    <2> QED
        BY <1>2, <1>3, <2>1 DEF ApplyType, Changes
<1>6. OpenAre(chain)'
    BY <1>2, <1>3 DEF OpenAre, Changes
<1>7. OwnedAre(chain)'
    BY <1>2, <1>3 DEF OwnedAre, MayOwn
<1>8. TextsAre(chain, text, before)'
    <2>1. \A i \in 1 .. Len(s1) : Closed(i, chain) => s1'[i] = s1[i]
        BY <1>1, <1>3
    <2>2. \A k \in 1 .. Len(chain) - 1 : s1'[chain[k]] = s1[chain[k]]
        BY <1>1, <1>3
    <2>3. s1'[s2'] = clause
        BY <1>3 DEF Changes
    <2> QED
        BY <1>2, <1>3, <1>4, <2>1, <2>2, <2>3 DEF TextsAre, Changes
<1> QED
    BY <1>5, <1>6, <1>7, <1>8 DEF ApplyRead

\* Lists, grouped in other ways.
LEMMA Grouped ==
    /\ \A a, b \in Seq(ApplyToken) : a \o b \in Seq(ApplyToken)
    /\ \A a, b, c \in Seq(ApplyToken) : (a \o b) \o c = a \o (b \o c)
<1>1. \A a, b \in Seq(ApplyToken) : a \o b \in Seq(ApplyToken)
    BY ConcatProperties
<1>2. ASSUME NEW a \in Seq(ApplyToken), NEW b \in Seq(ApplyToken), NEW c \in Seq(ApplyToken)
      PROVE  (a \o b) \o c = a \o (b \o c)
    BY ConcatAssociative
<1> QED
    BY <1>1, <1>2

\* Texts in a row may be grouped in either way.
LEMMA Regrouped ==
    \A a, b, c, d \in Seq(ApplyToken) : (a \o b) \o (c \o d) = a \o ((b \o c) \o d)
<1> TAKE a, b, c, d \in Seq(ApplyToken)
<1>1. c \o d \in Seq(ApplyToken)
    BY Grouped
<1>2. (a \o b) \o (c \o d) = a \o (b \o (c \o d))
    BY <1>1, Grouped
<1>3. b \o (c \o d) = (b \o c) \o d
    BY Grouped
<1> QED
    BY <1>2, <1>3

\* What is read before a transformation is what is printed before it.
LEMMA PartingIs ==
    ASSUME NEW chain, NEW text, NEW before, ApplyRead(chain, text, before), Apply!MayTransform
    PROVE  /\ Apply!LabelLeads =>
                    Trail \o Apply!Space = Parting(s1[s2].transforms, Apply!Separator)
           /\ Apply!Separator \in {"comma", "space"} /\ Apply!Space \in Seq(ApplyToken)
           /\ s8 \in {"parameter", "after label", "next"}
<1>1. Expected /\ s3 \in {"comma", "space"}
    BY DEF ApplyRead, ApplyType
<1>2. s8 \in {"parameter", "after label", "next"}
    BY DEF Apply!MayTransform
<1>3. <<" ">> \in Seq(ApplyToken) /\ <<",">> \in Seq(ApplyToken) /\ <<>> \in Seq(ApplyToken)
    BY DEF ApplyToken
<1>4. /\ <<>> \o <<" ">> = <<" ">> /\ <<",">> \o <<>> = <<",">> /\ <<>> \o <<>> = <<>>
    BY <1>3, ConcatEmptySeq
<1>5. CASE s8 = "next"
    <2>1. s1[s2].transforms # <<>> /\ Trail = <<>> /\ Apply!Space = <<" ">>
          /\ Apply!Separator = "space"
        BY <1>1, <1>5 DEF Expected, Trail, Apply!Space, Apply!Separator
    <2> QED
        BY <1>2, <1>3, <1>4, <2>1 DEF Parting, Gap
<1>6. CASE s8 # "next" /\ s1[s2].transforms = <<>>
    <2>1. Trail = <<>> /\ Apply!Space = <<>> /\ Apply!Separator = s3
        BY <1>2, <1>6 DEF Trail, Apply!Space, Apply!Separator
    <2> QED
        BY <1>1, <1>2, <1>3, <1>4, <1>6, <2>1 DEF Parting
<1>7. CASE s8 = "after label" /\ s1[s2].transforms # <<>>
    <2>1. ~Apply!LabelLeads /\ Apply!Space = <<>> /\ Apply!Separator = s3
        BY <1>1, <1>7 DEF Expected, Apply!Space, Apply!Separator
    <2> QED
        BY <1>1, <1>2, <1>3, <2>1
<1>8. CASE s8 = "parameter" /\ s1[s2].transforms # <<>>
    <2>1. s8 = "parameter" /\ s3 = "comma"
        BY <1>1, <1>8 DEF Expected
    <2>2. Trail = <<",">> /\ Apply!Space = <<>> /\ Apply!Separator = "comma"
        BY <1>8, <2>1 DEF Trail, Apply!Space, Apply!Separator
    <2> QED
        BY <1>2, <1>3, <1>4, <1>8, <2>2 DEF Parting, Gap
<1> QED
    BY <1>2, <1>5, <1>6, <1>7, <1>8

\* A transformation is added.
LEMMA TransformationKeeps ==
    ASSUME NEW chain, NEW text, NEW before, ApplyRead(chain, text, before),
           NEW name \in Texts, Apply!AddTransformation(name)
    PROVE  ApplyRead(chain, text, before)'
<1> DEFINE now == s1[s2]
           transform == Apply!Transform(name, 0, Apply!Separator)
           clause == [now EXCEPT !.transforms = Append(@, transform)]
           added == Apply!Space \o <<name>>
<1>1. /\ Apply!MayTransform /\ s7' = s7 \o added /\ s3' = Apply!Separator
      /\ s1' = [s1 EXCEPT ![s2].transforms = Append(@, transform)]
      /\ s8' = "next" /\ UNCHANGED <<s2, s4, s5, s6, s9>>
    BY DEF Apply!AddTransformation, Apply!Read
<1>2. /\ Len(s1) \in Nat /\ s2 \in 1 .. Len(s1) /\ now \in ApplyClause
      /\ now.transforms \in Seq(Transformed) /\ Printable(now.transforms, text)
      /\ Begun(now, text) \in Seq(ApplyToken) /\ Trail \in Seq(ApplyToken)
    BY CurrentIs
<1>3. /\ Apply!LabelLeads => Trail \o Apply!Space = Parting(now.transforms, Apply!Separator)
      /\ Apply!Separator \in {"comma", "space"} /\ Apply!Space \in Seq(ApplyToken)
    BY <1>1, PartingIs
<1>4. ApplyType /\ OwnedAre(chain)
    BY DEF ApplyRead
<1>5. transform \in Transformed /\ transform.child = 0 /\ transform.name = name
      /\ transform.separator = Apply!Separator
    BY <1>3 DEF Apply!Transform, Transformed
<1> HIDE DEF transform
<1>6. /\ Append(now.transforms, transform) \in Seq(Transformed)
      /\ Len(Append(now.transforms, transform)) = Len(now.transforms) + 1
      /\ Len(now.transforms) \in Nat
      /\ Append(now.transforms, transform)[Len(now.transforms) + 1] = transform
      /\ \A n \in 1 .. Len(now.transforms) :
            Append(now.transforms, transform)[n] = now.transforms[n]
    BY <1>2, <1>5, AppendProperties
<1>7. clause \in ApplyClause /\ clause.transforms = Append(now.transforms, transform)
    BY <1>2, <1>6 DEF ApplyClause
<1>8. Begun(clause, text)
      = Begun(now, text) \o (Parting(now.transforms, Apply!Separator) \o <<name>>)
    <2>1. One(transform, text) = <<name>>
        BY <1>5 DEF One
    <2>2. Begun(clause, text)
          = Begun(now, text)
            \o ((IF now.transforms = <<>> THEN <<>> ELSE Gap(transform.separator))
                \o One(transform, text))
        <3> HIDE DEF now
        <3> QED
            BY <1>2, <1>5, BegunMore
    <2> QED
        BY <1>5, <2>1, <2>2 DEF Parting
<1>9. <<name>> \in Seq(ApplyToken) /\ added \in Seq(ApplyToken)
    <2>1. name \in ApplyToken
        BY DEF ApplyToken
    <2>2. <<name>> \in Seq(ApplyToken)
        BY <2>1
    <2> QED
        BY <1>3, <2>2, ConcatProperties
<1>10. Apply!LabelLeads =>
            (Begun(now, text) \o Trail) \o added
            = Begun(now, text) \o (Parting(now.transforms, Apply!Separator) \o <<name>>)
    <2> DEFINE u == Begun(now, text)
               v == Apply!Space
               w == <<name>>
               x == Trail
    <2>1. /\ u \in Seq(ApplyToken) /\ x \in Seq(ApplyToken)
          /\ v \in Seq(ApplyToken) /\ w \in Seq(ApplyToken)
        BY <1>2, <1>3, <1>9
    <2>2. (u \o x) \o (v \o w) = u \o ((x \o v) \o w)
        <3> HIDE DEF u, v, w, x, now, clause, added
        <3>1. \A a, b, c \in Seq(ApplyToken) : (u \o a) \o (b \o c) = u \o ((a \o b) \o c)
            BY <2>1, Regrouped
        <3> QED
            BY <2>1, <3>1
    <2> QED
        BY <1>3, <2>2
<1>11. Trail' = <<>>
    BY <1>1 DEF Trail
<1>12. Begun(clause, text) \in Seq(ApplyToken)
    <2>1. Printable(clause.transforms, text)
        <3>1. transform.child = 0 \/ text[transform.child] \in Seq(ApplyToken)
            BY <1>5
        <3> HIDE DEF clause, now
        <3> QED
            BY <1>2, <1>5, <1>7, <3>1, OneMoreItem
    <2> HIDE DEF clause
    <2> QED
        BY <1>7, <2>1, BegunIs
<1>13. Apply!LabelLeads' => Writes(clause, added, text)
    <2> SUFFICES ASSUME Apply!LabelLeads' PROVE Writes(clause, added, text)
        OBVIOUS
    <2>1. s7 \in Seq(ApplyToken)
        BY <1>4 DEF ApplyType
    <2> HIDE DEF clause, added
    <2>2. Apply!LabelLeads
        BY <1>1, <1>9, <2>1, LedBefore
    <2>3. Begun(clause, text) \o Trail' = Begun(clause, text)
        BY <1>11, <1>12, ConcatEmptySeq
    <2> QED
        BY <1>8, <1>10, <2>2, <2>3 DEF Writes
<1>14. Changes(clause, added)
    <2>1. s1' = [s1 EXCEPT ![s2] = clause]
        BY <1>1
    <2> HIDE DEF clause, added
    <2> QED
        BY <1>1, <1>3, <1>4, <2>1 DEF Changes, ApplyType
<1>15. MayOwn(clause.transforms, s2, chain)
    <2>1. MayOwn(now.transforms, s2, chain)
        BY <1>2, <1>4 DEF OwnedAre
    <2> SUFFICES ASSUME NEW n \in DOMAIN clause.transforms, clause.transforms[n].child # 0
                 PROVE  clause.transforms[n].child \in s2 + 1 .. Len(s1)
                        /\ Closed(clause.transforms[n].child, chain)
        BY DEF MayOwn
    <2>2. n \in 1 .. Len(now.transforms) + 1
        BY <1>6, <1>7
    <2>3. n # Len(now.transforms) + 1
        BY <1>5, <1>6, <1>7
    <2>4. n \in DOMAIN now.transforms /\ clause.transforms[n] = now.transforms[n]
        BY <1>2, <1>6, <1>7, <2>2, <2>3
    <2> HIDE DEF clause, now
    <2> QED
        BY <2>1, <2>4 DEF MayOwn
<1>16. Expected'
    <2>1. s1'[s2'] = clause
        <3>1. s1 \in Seq(ApplyClause)
            BY <1>4 DEF ApplyType
        <3>2. s1' = [s1 EXCEPT ![s2] = clause] /\ s2' = s2
            BY <1>1
        <3>3. [s1 EXCEPT ![s2] = clause][s2] = clause
            <4> HIDE DEF clause
            <4> QED
                BY <1>2, <1>7, <3>1, ExceptSeq
        <3> QED
            BY <3>2, <3>3
    <2>2. clause.transforms # <<>>
        BY <1>6, <1>7
    <2> HIDE DEF clause
    <2> QED
        BY <1>1, <2>1, <2>2 DEF Expected
<1> HIDE DEF clause, added
<1> QED
    BY <1>7, <1>9, <1>13, <1>14, <1>15, <1>16, LevelStep

\* What a clause without transformations prints.
LEMMA BareIs ==
    ASSUME NEW clause \in ApplyClause, NEW text, clause.transforms = <<>>
    PROVE  Begun(clause, text) = <<"apply(">> \o Labelled(clause.label)
<1>1. Items(clause.transforms, text) = <<>>
    BY DEF Items
<1>2. Apply!FlattenSeq(<<>>) = <<>>
    BY DEF Apply!FlattenSeq
<1>3. <<"apply(">> \o Labelled(clause.label) \in Seq(ApplyToken)
    <2>1. clause.label \in {"l", Apply!NoLabel}
        BY DEF ApplyClause
    <2> QED
        BY <2>1, HeadIs
<1> DEFINE head == <<"apply(">> \o Labelled(clause.label)
<1>4. Begun(clause, text) = head \o <<>>
    BY <1>1, <1>2 DEF Begun
<1>5. head \o <<>> = head
    <2> HIDE DEF head
    <2> QED
        BY <1>3, ConcatEmptySeq DEF head
<1> QED
    BY <1>4, <1>5

\* The flag of the innermost clause is set.
LEMMA FlagSet ==
    ASSUME s9 \in Seq(BOOLEAN), Len(s9) \in Nat \ {0}, NEW flag \in BOOLEAN
    PROVE  <<flag>> \o Tail(s9) \in Seq(BOOLEAN) /\ Len(<<flag>> \o Tail(s9)) = Len(s9)
<1>1. Tail(s9) \in Seq(BOOLEAN) /\ Len(Tail(s9)) = Len(s9) - 1
    BY HeadTailProperties
<1>2. <<flag>> \in Seq(BOOLEAN) /\ Len(<<flag>>) = 1
    OBVIOUS
<1>3. /\ <<flag>> \o Tail(s9) \in Seq(BOOLEAN)
      /\ Len(<<flag>> \o Tail(s9)) = Len(<<flag>>) + Len(Tail(s9))
    <2> DEFINE u == <<flag>>
               v == Tail(s9)
    <2> HIDE DEF u, v
    <2>1. u \in Seq(BOOLEAN) /\ v \in Seq(BOOLEAN)
        BY <1>1, <1>2 DEF u, v
    <2>2. u \o v \in Seq(BOOLEAN) /\ Len(u \o v) = Len(u) + Len(v)
        BY <2>1, ConcatProperties
    <2> QED
        BY <2>2 DEF u, v
<1> QED
    BY <1>1, <1>2, <1>3

\* The clause that is written is the current one.
LEMMA ClauseWritten ==
    ASSUME NEW clause \in ApplyClause, s1 \in Seq(ApplyClause), s2 \in 1 .. Len(s1),
           s1' = [s1 EXCEPT ![s2] = clause], s2' = s2
    PROVE  s1'[s2'] = clause
<1>1. [s1 EXCEPT ![s2] = clause][s2] = clause
    BY ExceptSeq
<1> QED
    BY <1>1

\* After a comma the text ends with a comma.
LEMMA EndsWith ==
    ASSUME NEW a \in Seq(ApplyToken), NEW b \in Seq(ApplyToken), NEW t \in ApplyToken
    PROVE  a \o (b \o <<t>>) # <<>> /\ (a \o (b \o <<t>>))[Len(a \o (b \o <<t>>))] = t
<1> DEFINE c == b \o <<t>>
           e == a \o c
<1>1. <<t>> \in Seq(ApplyToken) /\ Len(<<t>>) = 1 /\ <<t>>[1] = t
    OBVIOUS
<1>2. Len(a) \in Nat /\ Len(b) \in Nat
    OBVIOUS
<1>3. c \in Seq(ApplyToken) /\ Len(c) = Len(b) + 1 /\ c[Len(b) + 1] = t
    BY <1>1, <1>2, ConcatProperties
<1> HIDE DEF c
<1>4. e \in Seq(ApplyToken) /\ Len(e) = Len(a) + Len(c) /\ e[Len(a) + Len(c)] = c[Len(c)]
    <2>1. /\ Len(a) + Len(c) \in 1 .. Len(a) + Len(c) /\ ~(Len(a) + Len(c) <= Len(a))
          /\ (Len(a) + Len(c)) - Len(a) = Len(c)
        BY <1>2, <1>3
    <2> QED
        BY <1>3, <2>1, ConcatProperties
<1> HIDE DEF e
<1>5. e # <<>> /\ e[Len(e)] = t
    BY <1>2, <1>3, <1>4
<1> QED
    BY <1>5 DEF c, e

\* A comma is read.
LEMMA CommaKeeps ==
    ASSUME NEW chain, NEW text, NEW before, ApplyRead(chain, text, before), Apply!Comma
    PROVE  ApplyRead(chain, text, before)'
<1> DEFINE clause == s1[s2]
           added == <<",">>
<1>1. /\ s8 = "next" /\ s7' = s7 \o added /\ s3' = "comma" /\ s8' = "parameter"
      /\ s9' = <<FALSE>> \o Tail(s9) /\ UNCHANGED <<s1, s2, s4, s5, s6>>
    BY DEF Apply!Comma, Apply!Read
<1>2. /\ clause \in ApplyClause /\ clause.transforms \in Seq(Transformed)
      /\ Begun(clause, text) \in Seq(ApplyToken) /\ s2 \in 1 .. Len(s1)
    BY CurrentIs
<1>3. ApplyType /\ OwnedAre(chain) /\ OpenAre(chain) /\ Expected
    BY DEF ApplyRead
<1>4. clause.transforms # <<>>
    BY <1>1, <1>3 DEF Expected
<1>5. Trail = <<>> /\ Trail' = added
    BY <1>1, <1>4 DEF Trail
<1>6. added \in Seq(ApplyToken)
    BY DEF ApplyToken
<1>7. Writes(clause, added, text)
    <2> HIDE DEF added
    <2>1. Begun(clause, text) \o Trail = Begun(clause, text)
        <3> HIDE DEF clause
        <3> QED
            BY <1>2, <1>5, ConcatEmptySeq
    <2> QED
        BY <1>5, <2>1 DEF Writes
<1>8. s9' \in Seq(BOOLEAN) /\ Len(s9') = Len(s9)
    <2>1. s9 \in Seq(BOOLEAN) /\ Len(s9) \in Nat \ {0}
        BY <1>3 DEF ApplyType, OpenAre
    <2> QED
        BY <1>1, <2>1, FlagSet
<1>9. s1 \in Seq(ApplyClause) /\ s1' = [s1 EXCEPT ![s2] = clause]
    <2>1. s1 \in Seq(ApplyClause)
        BY <1>3 DEF ApplyType
    <2>2. [s1 EXCEPT ![s2] = s1[s2]] = s1
        BY <2>1
    <2> QED
        BY <1>1, <2>1, <2>2
<1>10. Changes(clause, added)
    <2> HIDE DEF clause, added
    <2> QED
        BY <1>1, <1>8, <1>9 DEF Changes
<1>11. MayOwn(clause.transforms, s2, chain)
    BY <1>2, <1>3 DEF OwnedAre
<1>12. Expected'
    BY <1>1, <1>4 DEF Expected
<1> HIDE DEF clause, added
<1> QED
    BY <1>2, <1>6, <1>7, <1>10, <1>11, <1>12, LevelStep

\* The outermost clause is closed.
LEMMA CloseKeeps ==
    ASSUME NEW chain, NEW text, NEW before, ApplyRead(chain, text, before), Apply!Close
    PROVE  ApplyRead(chain, text, before)'
<1> DEFINE clause == s1[s2]
           added == <<")">>
<1>1. /\ s8 = "next" /\ s7' = Append(s7, ")") /\ s8' = "end" /\ Len(s9) = 1
      /\ UNCHANGED <<s1, s2, s3, s4, s5, s6, s9>>
    BY DEF Apply!Close, Apply!parser
<1>2. /\ clause \in ApplyClause /\ clause.transforms \in Seq(Transformed)
      /\ Begun(clause, text) \in Seq(ApplyToken) /\ s2 \in 1 .. Len(s1)
    BY CurrentIs
<1>3. ApplyType /\ OwnedAre(chain) /\ OpenAre(chain) /\ Expected
    BY DEF ApplyRead
<1>4. clause.transforms # <<>>
    BY <1>1, <1>3 DEF Expected
<1>5. Trail = <<>> /\ Trail' = added
    BY <1>1 DEF Trail
<1>6. added \in Seq(ApplyToken) /\ Append(s7, ")") = s7 \o added
    <2>1. ")" \in ApplyToken /\ s7 \in Seq(ApplyToken)
        BY <1>3 DEF ApplyToken, ApplyType
    <2> QED
        BY <2>1, AppendIsConcat
<1>7. Writes(clause, added, text)
    <2> HIDE DEF added
    <2>1. Begun(clause, text) \o Trail = Begun(clause, text)
        <3> HIDE DEF clause
        <3> QED
            BY <1>2, <1>5, ConcatEmptySeq
    <2>2. Begun(clause, text) = Begun(s1[s2], text)
        OBVIOUS
    <2> QED
        BY <1>5, <2>1, <2>2 DEF Writes
<1>8. s9' \in Seq(BOOLEAN) /\ Len(s9') = Len(s9)
    BY <1>1, <1>3 DEF ApplyType
<1>9. s1 \in Seq(ApplyClause) /\ s1' = [s1 EXCEPT ![s2] = clause]
    <2>1. s1 \in Seq(ApplyClause)
        BY <1>3 DEF ApplyType
    <2> QED
        BY <1>1, <2>1
<1>10. Changes(clause, added)
    <2>1. s3' \in {"comma", "space"} /\ s8' = "end" /\ s7' = s7 \o added
        BY <1>1, <1>3, <1>6 DEF ApplyType
    <2> HIDE DEF clause, added
    <2> QED
        BY <1>1, <1>8, <1>9, <2>1 DEF Changes
<1>11. MayOwn(clause.transforms, s2, chain)
    BY <1>2, <1>3 DEF OwnedAre
<1>12. Expected'
    BY <1>1, <1>4 DEF Expected
<1> HIDE DEF clause, added
<1> QED
    BY <1>2, <1>6, <1>7, <1>10, <1>11, <1>12, LevelStep

\* The label of a clause is read.
LEMMA LabelKeeps ==
    ASSUME NEW chain, NEW text, NEW before, ApplyRead(chain, text, before), Apply!Label("l")
    PROVE  ApplyRead(chain, text, before)'
<1> DEFINE now == s1[s2]
           clause == [now EXCEPT !.label = "l"]
           added == <<"l", ":">>
<1>1. /\ s8 = "parameter" /\ s7' = s7 \o added
      /\ s1' = [s1 EXCEPT ![s2].label = "l"] /\ s8' = "after label"
      /\ s9' = <<TRUE>> \o Tail(s9) /\ UNCHANGED <<s2, s3, s4, s5, s6>>
    BY DEF Apply!Label, Apply!Read, Apply!parser
<1>2. /\ now \in ApplyClause /\ now.transforms \in Seq(Transformed)
      /\ Begun(now, text) \in Seq(ApplyToken) /\ s2 \in 1 .. Len(s1)
      /\ Trail \in Seq(ApplyToken) /\ before[Len(chain)] \in Seq(ApplyToken)
    BY CurrentIs
<1>3. ApplyType /\ OwnedAre(chain) /\ OpenAre(chain) /\ Expected /\ TextsAre(chain, text, before)
    BY DEF ApplyRead
<1>4. added \in Seq(ApplyToken) /\ s7 \in Seq(ApplyToken)
    <2>1. "l" \in ApplyToken /\ ":" \in ApplyToken
        BY DEF ApplyToken
    <2>2. s7 \in Seq(ApplyToken)
        BY <1>3 DEF ApplyType
    <2> QED
        BY <2>1, <2>2
<1>5. Apply!LabelLeads' => now.transforms = <<>>
    <2> SUFFICES ASSUME Apply!LabelLeads', now.transforms # <<>> PROVE FALSE
        OBVIOUS
    <2>1. Apply!LabelLeads
        <3> HIDE DEF added
        <3> QED
            BY <1>1, <1>4, LedBefore
    <2>2. Trail = <<",">> /\ "," \in ApplyToken
        BY <1>1 DEF Trail, ApplyToken
    <2>3. s7 = before[Len(chain)] \o (Begun(now, text) \o <<",">>)
        BY <1>3, <2>1, <2>2 DEF TextsAre
    <2> DEFINE a == before[Len(chain)]
               b == Begun(now, text)
    <2>4. a \in Seq(ApplyToken) /\ b \in Seq(ApplyToken)
        BY <1>2
    <2>5. /\ a \o (b \o <<",">>) # <<>>
          /\ (a \o (b \o <<",">>))[Len(a \o (b \o <<",">>))] = ","
        <3> HIDE DEF a, b
        <3> QED
            BY <2>2, <2>4, EndsWith
    <2>6. s7 # <<>> /\ s7[Len(s7)] # "apply("
        BY <2>3, <2>5
    <2> QED
        BY <1>1, <1>4, <2>6, LateLabel
<1>6. Trail' = <<>> /\ (now.transforms = <<>> => now.label = Apply!NoLabel /\ Trail = <<>>)
    BY <1>1, <1>3 DEF Expected, Trail
<1>7. clause \in ApplyClause /\ clause.transforms = now.transforms /\ clause.label = "l"
    BY <1>2 DEF ApplyClause
<1>8. Apply!LabelLeads' => Writes(clause, added, text)
    <2> SUFFICES ASSUME now.transforms = <<>> PROVE Writes(clause, added, text)
        BY <1>5
    <2>1. Begun(clause, text) = <<"apply(">> \o added
        <3>1. Labelled("l") = added
            BY DEF Labelled, Apply!NoLabel
        <3> HIDE DEF clause, added
        <3> QED
            BY <1>7, <3>1, BareIs
    <2>2. Begun(now, text) = <<"apply(">>
        <3>1. Labelled(now.label) = <<>>
            BY <1>6 DEF Labelled
        <3>2. Begun(now, text) = <<"apply(">> \o <<>>
            <4> HIDE DEF now
            <4> QED
                BY <1>2, <3>1, BareIs
        <3>3. <<"apply(">> \in Seq(ApplyToken)
            BY DEF ApplyToken
        <3>4. <<"apply(">> \o <<>> = <<"apply(">>
            BY <3>3, ConcatEmptySeq
        <3> QED
            BY <3>2, <3>4
    <2>3. Begun(now, text) \o <<>> = Begun(now, text)
        <3> HIDE DEF now
        <3> QED
            BY <1>2, ConcatEmptySeq
    <2>4. Begun(clause, text) \o <<>> = Begun(clause, text)
        <3>1. Begun(clause, text) \in Seq(ApplyToken)
            <4>1. Printable(clause.transforms, text)
                BY <1>7 DEF Printable
            <4> HIDE DEF clause
            <4> QED
                BY <1>7, <4>1, BegunIs
        <3> HIDE DEF clause
        <3> QED
            BY <3>1, ConcatEmptySeq
    <2> HIDE DEF clause, added
    <2> QED
        BY <1>6, <2>1, <2>2, <2>3, <2>4 DEF Writes
<1>9. s9' \in Seq(BOOLEAN) /\ Len(s9') = Len(s9)
    <2>1. s9 \in Seq(BOOLEAN) /\ Len(s9) \in Nat \ {0}
        BY <1>3 DEF ApplyType, OpenAre
    <2> QED
        BY <1>1, <2>1, FlagSet
<1>10. s1 \in Seq(ApplyClause) /\ s1' = [s1 EXCEPT ![s2] = clause]
    BY <1>1, <1>3 DEF ApplyType
<1>11. Changes(clause, added)
    <2>1. s3' \in {"comma", "space"}
        BY <1>1, <1>3 DEF ApplyType
    <2> HIDE DEF clause, added
    <2> QED
        BY <1>1, <1>9, <1>10, <2>1 DEF Changes
<1>12. MayOwn(clause.transforms, s2, chain)
    BY <1>2, <1>3, <1>7 DEF OwnedAre
<1>13. Expected'
    <2>1. s1'[s2'] = clause
        <3> HIDE DEF clause
        <3> QED
            BY <1>1, <1>2, <1>7, <1>10, ClauseWritten
    <2> HIDE DEF clause
    <2> QED
        BY <1>1, <1>5, <1>7, <2>1 DEF Expected
<1> HIDE DEF clause, added
<1> QED
    BY <1>4, <1>7, <1>8, <1>11, <1>12, <1>13, LevelStep

\* An element is put before a list.
LEMMA PushedOn ==
    ASSUME NEW T, NEW e \in T, NEW s \in Seq(T)
    PROVE  /\ <<e>> \o s \in Seq(T) /\ Len(<<e>> \o s) = Len(s) + 1 /\ (<<e>> \o s)[1] = e
           /\ \A k \in 1 .. Len(s) : (<<e>> \o s)[k + 1] = s[k]
<1> DEFINE u == <<e>>
           v == u \o s
<1>1. u \in Seq(T) /\ Len(u) = 1 /\ u[1] = e /\ Len(s) \in Nat
    OBVIOUS
<1> HIDE DEF u
<1>2. /\ v \in Seq(T) /\ Len(v) = 1 + Len(s)
      /\ \A i \in 1 .. 1 + Len(s) : v[i] = IF i <= 1 THEN u[i] ELSE s[i - 1]
    BY <1>1, ConcatProperties
<1> HIDE DEF v
<1>3. v[1] = e
    <2>1. 1 \in 1 .. 1 + Len(s) /\ 1 <= 1
        BY <1>1
    <2> QED
        BY <1>1, <1>2, <2>1
<1>4. \A k \in 1 .. Len(s) : v[k + 1] = s[k]
    <2> TAKE k \in 1 .. Len(s)
    <2>1. k + 1 \in 1 .. 1 + Len(s) /\ ~(k + 1 <= 1) /\ (k + 1) - 1 = k
        BY <1>1
    <2> QED
        BY <1>2, <2>1
<1> QED
    BY <1>1, <1>2, <1>3, <1>4 DEF v, u

\* A new clause prints its beginning.
LEMMA NewClauseIs ==
    /\ Apply!Clause \in ApplyClause /\ Apply!Clause.transforms = <<>>
    /\ Apply!Clause.label = Apply!NoLabel
    /\ <<"apply(">> \in Seq(ApplyToken)
    /\ \A text : Begun(Apply!Clause, text) = <<"apply(">>
<1>1. /\ Apply!Clause.transforms = <<>> /\ Apply!Clause.label = Apply!NoLabel
      /\ Apply!Clause \in ApplyClause
    BY DEF Apply!Clause, ApplyClause
<1>2. <<"apply(">> \in Seq(ApplyToken)
    BY DEF ApplyToken
<1>3. <<"apply(">> \o <<>> = <<"apply(">>
    BY <1>2, ConcatEmptySeq
<1>4. Labelled(Apply!NoLabel) = <<>>
    BY DEF Labelled
<1>5. ASSUME NEW text PROVE Begun(Apply!Clause, text) = <<"apply(">>
    <2>1. Begun(Apply!Clause, text) = <<"apply(">> \o Labelled(Apply!Clause.label)
        BY <1>1, BareIs
    <2> QED
        BY <1>1, <1>3, <1>4, <2>1
<1> QED
    BY <1>1, <1>2, <1>5

\* A nested clause is begun: its text is empty, and what is before it is what is before the
\* clause it is in, with all that clause has so far.
LEMMA OpenKeeps ==
    ASSUME NEW chain, NEW text, NEW before, ApplyRead(chain, text, before), Apply!OpenNested
    PROVE  \E opened, longer, further : ApplyRead(opened, longer, further)'
<1>1. /\ Apply!MayTransform /\ s7' = s7 \o (Apply!Space \o <<"apply(">>)
      /\ s4' = <<s2>> \o s4 /\ s5' = <<Apply!Separator>> \o s5
      /\ s1' = Append(s1, Apply!Clause) /\ s2' = Len(s1) + 1 /\ s6' = s6 \cup {Len(s1) + 1}
      /\ s3' = "comma" /\ s8' = "parameter" /\ s9' = <<FALSE>> \o s9
    BY DEF Apply!OpenNested, Apply!Read
<1>2. PICK n : n = Len(s1)
    OBVIOUS
<1>3. PICK d : d = Len(chain)
    OBVIOUS
<1>4. PICK gap : gap = Parting(s1[s2].transforms, Apply!Separator)
    OBVIOUS
<1>5. PICK now : now = Begun(s1[s2], text)
    OBVIOUS
<1>6. PICK opened : opened = Append(chain, n + 1)
    OBVIOUS
<1>7. PICK longer : longer = [i \in 1 .. n + 1 |-> IF i = n + 1 THEN <<>> ELSE text[i]]
    OBVIOUS
<1>8. PICK further : further = [k \in 1 .. d + 1 |->
            IF k = d + 1 THEN before[d] \o (now \o gap) ELSE before[k]]
    OBVIOUS
<1>9. /\ d \in Nat \ {0} /\ n \in Nat /\ s2 \in 1 .. n /\ now \in Seq(ApplyToken)
      /\ before[d] \in Seq(ApplyToken) /\ Trail \in Seq(ApplyToken)
      /\ \A i \in 1 .. n : s1[i] \in ApplyClause
    BY <1>2, <1>3, <1>5, CurrentIs
<1>10. /\ Apply!LabelLeads => Trail \o Apply!Space = gap
       /\ Apply!Separator \in {"comma", "space"}
       /\ Apply!Space \in Seq(ApplyToken) /\ gap \in Seq(ApplyToken)
    <2>1. /\ Apply!LabelLeads => Trail \o Apply!Space = gap
          /\ Apply!Separator \in {"comma", "space"} /\ Apply!Space \in Seq(ApplyToken)
        BY <1>1, <1>4, PartingIs
    <2>2. <<>> \in Seq(ApplyToken) /\ <<" ">> \in Seq(ApplyToken) /\ <<",">> \in Seq(ApplyToken)
        BY DEF ApplyToken
    <2> QED
        BY <1>4, <2>1, <2>2 DEF Parting, Gap
<1>11. ApplyType /\ OwnedAre(chain) /\ OpenAre(chain) /\ TextsAre(chain, text, before)
    BY DEF ApplyRead
<1>12. /\ opened \in Seq(Nat) /\ Len(opened) = d + 1 /\ opened[d + 1] = n + 1
       /\ \A k \in 1 .. d : opened[k] = chain[k] /\ chain[k] \in 1 .. n
       /\ chain[1] = 1 /\ chain[d] = s2
       /\ \A k \in 1 .. d : \A j \in 1 .. k - 1 : chain[j] < chain[k]
    <2>1. /\ chain \in Seq(Nat) /\ \A k \in 1 .. d : chain[k] \in 1 .. n
          /\ chain[1] = 1 /\ chain[d] = s2
          /\ \A k \in 1 .. d : \A j \in 1 .. k - 1 : chain[j] < chain[k]
        BY <1>2, <1>3, <1>11 DEF OpenAre
    <2>2. n + 1 \in Nat
        BY <1>9
    <2> QED
        BY <1>3, <1>6, <2>1, <2>2, AppendProperties
<1>13. /\ s1' \in Seq(ApplyClause) /\ Len(s1') = n + 1 /\ s1'[n + 1] = Apply!Clause
       /\ \A i \in 1 .. n : s1'[i] = s1[i]
    <2>1. s1 \in Seq(ApplyClause) /\ Apply!Clause \in ApplyClause
        BY <1>11, NewClauseIs DEF ApplyType
    <2> QED
        BY <1>1, <1>2, <2>1, AppendProperties
<1>14. /\ s4' \in Seq(Nat) /\ Len(s4') = d /\ s4'[1] = s2
       /\ \A k \in 1 .. d - 1 : s4'[k + 1] = s4[k]
       /\ s5' \in Seq({"comma", "space"}) /\ Len(s5') = d /\ s5'[1] = Apply!Separator
       /\ \A k \in 1 .. d - 1 : s5'[k + 1] = s5[k]
       /\ s9' \in Seq(BOOLEAN) /\ Len(s9') = d + 1
    <2>1. /\ s4 \in Seq(Nat) /\ s2 \in Nat /\ s5 \in Seq({"comma", "space"})
          /\ s9 \in Seq(BOOLEAN)
        BY <1>11 DEF ApplyType
    <2>2. Len(s4) = d - 1 /\ Len(s5) = d - 1 /\ Len(s9) = d
        BY <1>3, <1>11 DEF OpenAre
    <2>3. /\ s4' \in Seq(Nat) /\ Len(s4') = d - 1 + 1 /\ s4'[1] = s2
          /\ \A k \in 1 .. d - 1 : s4'[k + 1] = s4[k]
        BY <1>1, <2>1, <2>2, PushedOn
    <2>4. /\ s5' \in Seq({"comma", "space"}) /\ Len(s5') = d - 1 + 1 /\ s5'[1] = Apply!Separator
          /\ \A k \in 1 .. d - 1 : s5'[k + 1] = s5[k]
        <3> DEFINE T == {"comma", "space"}
        <3>1. s5 \in Seq(T) /\ Apply!Separator \in T
            BY <1>10, <2>1
        <3> HIDE DEF T
        <3>2. /\ <<Apply!Separator>> \o s5 \in Seq(T)
              /\ Len(<<Apply!Separator>> \o s5) = Len(s5) + 1
              /\ (<<Apply!Separator>> \o s5)[1] = Apply!Separator
              /\ \A k \in 1 .. Len(s5) : (<<Apply!Separator>> \o s5)[k + 1] = s5[k]
            BY <3>1, PushedOn
        <3> QED
            BY <1>1, <2>2, <3>2 DEF T
    <2>5. s9' \in Seq(BOOLEAN) /\ Len(s9') = d + 1
        BY <1>1, <2>1, <2>2, PushedOn
    <2>6. d - 1 + 1 = d
        BY <1>9
    <2> QED
        BY <2>3, <2>4, <2>5, <2>6
<1>15. \A i \in 1 .. n : Closed(i, opened) <=> Closed(i, chain)
    <2> TAKE i \in 1 .. n
    <2>1. i # n + 1 /\ \A k \in 1 .. d + 1 : k = d + 1 \/ k \in 1 .. d
        BY <1>9
    <2>2. \A k \in 1 .. d : k \in 1 .. d + 1
        BY <1>9
    <2> QED
        BY <1>3, <1>12, <2>1, <2>2 DEF Closed
<1>16. ~Closed(n + 1, opened)
    <2>1. d + 1 \in 1 .. d + 1
        BY <1>9
    <2> QED
        BY <1>12, <2>1 DEF Closed
<1>17. \A i \in 1 .. n : Begun(s1[i], longer) = Begun(s1[i], text)
    <2> TAKE i \in 1 .. n
    <2>1. ASSUME NEW m \in DOMAIN s1[i].transforms, s1[i].transforms[m].child # 0
          PROVE  text[s1[i].transforms[m].child] = longer[s1[i].transforms[m].child]
        <3>1. s1[i].transforms[m].child \in i + 1 .. n
            BY <1>2, <1>11, <2>1 DEF OwnedAre, MayOwn
        <3>2. /\ s1[i].transforms[m].child \in 1 .. n + 1
              /\ s1[i].transforms[m].child # n + 1
            BY <1>9, <3>1
        <3> QED
            BY <1>7, <3>2
    <2> QED
        BY <2>1, BegunSame
<1>18. Apply!LabelLeads' => s7' = (before[d] \o (now \o gap)) \o <<"apply(">>
    <2> SUFFICES ASSUME Apply!LabelLeads'
                 PROVE  s7' = (before[d] \o (now \o gap)) \o <<"apply(">>
        OBVIOUS
    <2>1. Apply!LabelLeads
        <3>1. Apply!Space \o <<"apply(">> \in Seq(ApplyToken)
            BY <1>10, NewClauseIs, ConcatProperties
        <3>2. s7 \in Seq(ApplyToken)
            BY <1>11 DEF ApplyType
        <3> QED
            BY <1>1, <3>1, <3>2, LedBefore
    <2>2. s7 = before[d] \o (now \o Trail)
        BY <1>3, <1>5, <1>11, <2>1 DEF TextsAre
    <2>3. <<"apply(">> \in Seq(ApplyToken)
        BY NewClauseIs
    <2>4. (before[d] \o (now \o Trail)) \o (Apply!Space \o <<"apply(">>)
          = (before[d] \o (now \o (Trail \o Apply!Space))) \o <<"apply(">>
        <3> DEFINE a == before[d]
                   e == <<"apply(">>
                   u == Trail
                   v == Apply!Space
                   x == now \o u
                   y == now \o (u \o v)
                   z == v \o e
        <3>1. /\ a \in Seq(ApplyToken) /\ e \in Seq(ApplyToken) /\ now \in Seq(ApplyToken)
              /\ u \in Seq(ApplyToken) /\ v \in Seq(ApplyToken)
            BY <1>9, <1>10, <2>3
        <3> HIDE DEF a, e, u, v
        <3>2. x \in Seq(ApplyToken) /\ z \in Seq(ApplyToken) /\ u \o v \in Seq(ApplyToken)
            BY <3>1, Grouped
        <3>3. y \in Seq(ApplyToken)
            BY <3>1, <3>2, Grouped
        <3>4. x \o v = y
            BY <3>1, Grouped
        <3> HIDE DEF x, y
        <3>5. (x \o v) \o e = x \o z
            BY <3>1, <3>2, Grouped
        <3> HIDE DEF z
        <3>6. (a \o x) \o z = a \o (x \o z)
            <4>1. \A p \in Seq(ApplyToken) : (a \o x) \o p = a \o (x \o p)
                BY <3>1, <3>2, Grouped
            <4> QED
                BY <3>2, <4>1
        <3>7. (a \o y) \o e = a \o (y \o e)
            BY <3>1, <3>3, Grouped
        <3>8. (a \o x) \o z = (a \o y) \o e
            BY <3>4, <3>5, <3>6, <3>7
        <3> QED
            BY <3>8 DEF a, e, u, v, x, y, z
    <2> QED
        BY <1>1, <1>10, <2>1, <2>2, <2>4
<1>19. further[d + 1] \in Seq(ApplyToken)
    <2>1. d + 1 \in 1 .. d + 1
        BY <1>9
    <2>2. now \o gap \in Seq(ApplyToken)
        BY <1>9, <1>10, ConcatProperties
    <2>3. before[d] \o (now \o gap) \in Seq(ApplyToken)
        BY <1>9, <2>2, ConcatProperties
    <2> QED
        BY <1>8, <2>1, <2>3
<1>20. ApplyType'
    <2>1. s7' \in Seq(ApplyToken)
        <3>1. Apply!Space \o <<"apply(">> \in Seq(ApplyToken)
            BY <1>10, NewClauseIs, ConcatProperties
        <3>2. s7 \in Seq(ApplyToken)
            BY <1>11 DEF ApplyType
        <3> QED
            BY <1>1, <3>1, <3>2, ConcatProperties
    <2>2. s2' \in Nat /\ s3' \in {"comma", "space"}
          /\ s8' \in {"parameter", "after label", "next", "end"}
        BY <1>1, <1>2, <1>9
    <2> QED
        BY <1>13, <1>14, <2>1, <2>2 DEF ApplyType
<1>21. OpenAre(opened)'
    <2>1. opened[1] = 1 /\ opened[d + 1] = s2'
        <3>1. 1 \in 1 .. d
            BY <1>9
        <3> QED
            BY <1>1, <1>2, <1>12, <3>1
    <2>2. \A k \in 1 .. (d + 1) - 1 : s4'[(d + 1) - k] = opened[k]
        <3> TAKE k \in 1 .. (d + 1) - 1
        <3>1. CASE k = d
            <4>1. (d + 1) - k = 1 /\ d \in 1 .. d
                BY <1>9, <3>1
            <4> QED
                BY <1>12, <1>14, <3>1, <4>1
        <3>2. CASE k # d
            <4>1. /\ (d + 1) - k = (d - k) + 1 /\ d - k \in 1 .. d - 1
                  /\ k \in 1 .. d - 1 /\ k \in 1 .. d
                BY <1>9, <3>2
            <4>2. s4[d - k] = chain[k]
                BY <1>3, <1>11, <4>1 DEF OpenAre
            <4> QED
                BY <1>12, <1>14, <4>1, <4>2
        <3> QED
            BY <3>1, <3>2
    <2>3. \A k \in 1 .. d + 1 : opened[k] \in 1 .. n + 1
        <3> TAKE k \in 1 .. d + 1
        <3>1. k = d + 1 \/ k \in 1 .. d
            BY <1>9
        <3>2. \A i \in 1 .. n : i \in 1 .. n + 1
            BY <1>9
        <3>3. n + 1 \in 1 .. n + 1
            BY <1>9
        <3> QED
            BY <1>12, <3>1, <3>2, <3>3
    <2>4. \A k \in 1 .. d + 1 : \A j \in 1 .. k - 1 : opened[j] < opened[k]
        <3> TAKE k \in 1 .. d + 1
        <3> TAKE j \in 1 .. k - 1
        <3>1. j \in 1 .. d
            BY <1>9
        <3>2. CASE k = d + 1
            <4>1. opened[j] \in 1 .. n
                BY <1>12, <3>1
            <4> QED
                BY <1>9, <1>12, <3>2, <4>1
        <3>3. CASE k # d + 1
            <4>1. k \in 1 .. d
                BY <1>9, <3>3
            <4> QED
                BY <1>12, <3>1, <4>1
        <3> QED
            BY <3>2, <3>3
    <2>5. s6' = {opened[k] : k \in 2 .. d + 1}
        <3>1. s6 = {chain[k] : k \in 2 .. d}
            BY <1>3, <1>11 DEF OpenAre
        <3>2. 2 .. d + 1 = 2 .. d \cup {d + 1} /\ \A k \in 2 .. d : k \in 1 .. d
            BY <1>9
        <3>3. {opened[k] : k \in 2 .. d} = {chain[k] : k \in 2 .. d}
            BY <1>12, <3>2
        <3>4. {opened[k] : k \in 2 .. d + 1} = {opened[k] : k \in 2 .. d} \cup {opened[d + 1]}
            BY <3>2, Zenon
        <3>5. s6' = s6 \cup {n + 1} /\ opened[d + 1] = n + 1
            BY <1>1, <1>2, <1>12
        <3> QED
            BY <3>1, <3>3, <3>4, <3>5, Zenon
    <2>6. d + 1 \in Nat \ {0} /\ (d + 1) - 1 = d
        BY <1>9
    <2> QED
        BY <1>12, <1>13, <1>14, <2>1, <2>2, <2>3, <2>4, <2>5, <2>6 DEF OpenAre
<1>22. OwnedAre(opened)'
    <2> SUFFICES ASSUME NEW i \in 1 .. n + 1
                 PROVE  MayOwn(s1[i].transforms, i, opened)'
        BY <1>13 DEF OwnedAre
    <2>1. CASE i = n + 1
        <3>1. s1'[i].transforms = <<>>
            BY <1>13, <2>1, NewClauseIs
        <3> QED
            BY <3>1 DEF MayOwn
    <2>2. CASE i # n + 1
        <3>1. i \in 1 .. n
            BY <1>9, <2>2
        <3>2. MayOwn(s1[i].transforms, i, chain) /\ s1'[i] = s1[i]
            BY <1>2, <1>11, <1>13, <3>1 DEF OwnedAre
        <3>3. \A m \in DOMAIN s1[i].transforms :
                \/ s1[i].transforms[m].child = 0
                \/ /\ s1[i].transforms[m].child \in i + 1 .. n + 1
                   /\ Closed(s1[i].transforms[m].child, opened)
            <4> TAKE m \in DOMAIN s1[i].transforms
            <4> SUFFICES ASSUME s1[i].transforms[m].child # 0
                         PROVE  /\ s1[i].transforms[m].child \in i + 1 .. n + 1
                                /\ Closed(s1[i].transforms[m].child, opened)
                OBVIOUS
            <4>1. /\ s1[i].transforms[m].child \in i + 1 .. n
                  /\ Closed(s1[i].transforms[m].child, chain)
                BY <1>2, <3>2 DEF MayOwn
            <4>2. s1[i].transforms[m].child \in 1 .. n
                BY <1>9, <4>1
            <4>3. s1[i].transforms[m].child \in i + 1 .. n + 1
                BY <1>9, <4>1
            <4> QED
                BY <1>15, <4>1, <4>2, <4>3
        <3> QED
            BY <1>13, <3>2, <3>3 DEF MayOwn
    <2> QED
        BY <2>1, <2>2
<1>23. Expected'
    BY <1>1, <1>2, <1>13, NewClauseIs DEF Expected
<1>24. TextsAre(opened, longer, further)'
    <2>1. longer \in [1 .. n + 1 -> Seq(ApplyToken)]
        <3>1. text \in [1 .. n -> Seq(ApplyToken)]
            BY <1>2, <1>11 DEF TextsAre
        <3>2. <<>> \in Seq(ApplyToken) /\ \A i \in 1 .. n + 1 : i = n + 1 \/ i \in 1 .. n
            BY <1>9
        <3> QED
            BY <1>7, <3>1, <3>2
    <2>2. further \in [1 .. d + 1 -> Seq(ApplyToken)]
        <3>1. before \in [1 .. d -> Seq(ApplyToken)]
            BY <1>3, <1>11 DEF TextsAre
        <3>2. \A k \in 1 .. d + 1 : k = d + 1 \/ k \in 1 .. d
            BY <1>9
        <3>3. d + 1 \in 1 .. d + 1
            BY <1>9
        <3>4. before[d] \o (now \o gap) \in Seq(ApplyToken)
            BY <1>8, <1>19, <3>3
        <3> QED
            BY <1>8, <3>1, <3>2, <3>4
    <2>3. \A i \in 1 .. n + 1 : Closed(i, opened) =>
            /\ s1'[i].transforms # <<>>
            /\ longer[i] = Begun(s1'[i], longer) \o <<")">>
        <3> TAKE i \in 1 .. n + 1
        <3> HAVE Closed(i, opened)
        <3>1. i # n + 1
            BY <1>16
        <3>2. i \in 1 .. n
            BY <1>9, <3>1
        <3>3. Closed(i, chain)
            BY <1>15, <3>2
        <3>4. s1[i].transforms # <<>> /\ text[i] = Begun(s1[i], text) \o <<")">>
            BY <1>2, <1>11, <3>2, <3>3 DEF TextsAre
        <3>5. longer[i] = text[i]
            BY <1>7, <3>1
        <3>6. s1'[i] = s1[i] /\ Begun(s1[i], longer) = Begun(s1[i], text)
            BY <1>13, <1>17, <3>2
        <3> QED
            BY <3>4, <3>5, <3>6
    <2>4. further[1] = <<>> /\ further[d + 1] = before[d] \o (now \o gap)
          /\ \A k \in 1 .. d : further[k] = before[k]
        <3>1. 1 \in 1 .. d /\ d + 1 \in 1 .. d + 1
              /\ \A k \in 1 .. d : k \in 1 .. d + 1 /\ k # d + 1
            BY <1>9
        <3>2. before[1] = <<>>
            BY <1>11 DEF TextsAre
        <3> QED
            BY <1>8, <3>1, <3>2
    <2>5. ASSUME NEW k \in 1 .. d
          PROVE  further[k + 1]
                 = further[k] \o (Begun(s1'[opened[k]], longer)
                                  \o Parting(s1'[opened[k]].transforms, s5'[(d + 1) - k]))
        <3>1. /\ opened[k] = chain[k] /\ chain[k] \in 1 .. n /\ s1'[chain[k]] = s1[chain[k]]
              /\ Begun(s1[chain[k]], longer) = Begun(s1[chain[k]], text)
              /\ further[k] = before[k]
            BY <1>12, <1>13, <1>17, <2>4
        <3>2. CASE k = d
            <4>1. (d + 1) - k = 1 /\ s5'[1] = Apply!Separator /\ chain[k] = s2
                BY <1>9, <1>12, <1>14, <3>2
            <4> QED
                BY <1>4, <1>5, <2>4, <3>1, <3>2, <4>1
        <3>3. CASE k # d
            <4>1. /\ (d + 1) - k = (d - k) + 1 /\ d - k \in 1 .. d - 1
                  /\ k \in 1 .. d - 1 /\ k + 1 \in 1 .. d
                BY <1>9, <3>3
            <4>2. before[k + 1] = before[k] \o (Begun(s1[chain[k]], text)
                                    \o Parting(s1[chain[k]].transforms, s5[d - k]))
                BY <1>3, <1>11, <4>1 DEF TextsAre
            <4>3. s5'[(d + 1) - k] = s5[d - k] /\ further[k + 1] = before[k + 1]
                BY <1>14, <2>4, <4>1
            <4> QED
                BY <3>1, <4>2, <4>3
        <3> QED
            BY <3>2, <3>3
    <2>6. Apply!LabelLeads' => s7' = further[d + 1] \o (Begun(s1'[s2'], longer) \o Trail')
        <3>1. s1'[s2'] = Apply!Clause
            BY <1>1, <1>2, <1>13
        <3>2. Trail' = <<>>
            BY <1>1, <3>1, NewClauseIs DEF Trail
        <3>3. Begun(Apply!Clause, longer) = <<"apply(">> /\ <<"apply(">> \in Seq(ApplyToken)
            BY NewClauseIs
        <3>4. <<"apply(">> \o <<>> = <<"apply(">>
            BY <3>3, ConcatEmptySeq
        <3> QED
            BY <1>18, <2>4, <3>1, <3>2, <3>3, <3>4
    <2>7. (d + 1) - 1 = d
        BY <1>9
    <2> QED
        BY <1>12, <1>13, <2>1, <2>2, <2>3, <2>4, <2>5, <2>6, <2>7 DEF TextsAre
<1> QED
    BY <1>20, <1>21, <1>22, <1>23, <1>24 DEF ApplyRead

\* A nested clause is closed: it has a text, which goes on with what is before it.
LEMMA CloseNestedKeeps ==
    ASSUME NEW chain, NEW text, NEW before, ApplyRead(chain, text, before), Apply!CloseNested
    PROVE  \E left, longer, less : ApplyRead(left, longer, less)'
<1>1. PICK outer, separator : outer = s4[1] /\ separator = s5[1]
    OBVIOUS
<1>2. PICK transform : transform = Apply!Transform("apply", s2, separator)
    OBVIOUS
<1>3. PICK clause : clause = [s1[outer] EXCEPT !.transforms = Append(@, transform)]
    OBVIOUS
<1>4. PICK n : n = Len(s1)
    OBVIOUS
<1>5. PICK d : d = Len(chain)
    OBVIOUS
<1>6. PICK now : now = Begun(s1[s2], text)
    OBVIOUS
<1>7. PICK inner : inner = s2
    OBVIOUS
<1>8. PICK left : left = [k \in 1 .. d - 1 |-> chain[k]]
    OBVIOUS
<1>9. PICK longer : longer = [i \in 1 .. n |-> IF i = inner THEN now \o <<")">> ELSE text[i]]
    OBVIOUS
<1>10. PICK less : less = [k \in 1 .. d - 1 |-> before[k]]
    OBVIOUS
<1>11. ApplyType /\ OwnedAre(chain) /\ OpenAre(chain) /\ Expected /\ TextsAre(chain, text, before)
    BY DEF ApplyRead
<1>12. /\ d \in Nat /\ d > 1 /\ n \in Nat /\ inner \in 1 .. n /\ now \in Seq(ApplyToken)
       /\ Len(s4) = d - 1 /\ Len(s5) = d - 1 /\ Len(s9) = d /\ chain \in Seq(Nat)
       /\ chain[1] = 1 /\ chain[d] = inner /\ outer = chain[d - 1]
       /\ \A k \in 1 .. d : chain[k] \in 1 .. n
       /\ \A k \in 1 .. d : \A j \in 1 .. k - 1 : chain[j] < chain[k]
       /\ \A k \in 1 .. d - 1 : s4[d - k] = chain[k]
    <2>1. /\ n \in Nat /\ inner \in 1 .. n /\ now \in Seq(ApplyToken)
        BY <1>4, <1>6, <1>7, CurrentIs
    <2>2. Len(s9) > 1
        BY DEF Apply!CloseNested
    <2>3. /\ d \in Nat /\ d > 1 /\ Len(s4) = d - 1 /\ Len(s5) = d - 1 /\ Len(s9) = d
          /\ chain \in Seq(Nat) /\ chain[1] = 1 /\ chain[d] = inner
          /\ \A k \in 1 .. d : chain[k] \in 1 .. n
          /\ \A k \in 1 .. d : \A j \in 1 .. k - 1 : chain[j] < chain[k]
          /\ \A k \in 1 .. d - 1 : s4[d - k] = chain[k]
        BY <1>4, <1>5, <1>7, <1>11, <2>2 DEF OpenAre
    <2>4. d - 1 \in 1 .. d - 1 /\ d - (d - 1) = 1
        BY <2>3
    <2>5. s4[d - (d - 1)] = chain[d - 1]
        BY <2>3, <2>4
    <2> QED
        BY <1>1, <2>1, <2>3, <2>4, <2>5
<1>13. /\ s8 = "next" /\ s7' = Append(s7, ")")
       /\ s1' = [s1 EXCEPT ![outer].transforms = Append(@, transform)]
       /\ s2' = outer /\ s6' = s6 \ {inner} /\ s3' = separator
       /\ s4' = Tail(s4) /\ s5' = Tail(s5) /\ s9' = Tail(s9) /\ s8' = "next"
    <2>1. Head(s4) = outer /\ Head(s5) = separator
        BY <1>1
    <2>2. /\ s8 = "next" /\ s7' = Append(s7, ")")
          /\ s1' = [s1 EXCEPT ![Head(s4)].transforms =
                        Append(@, Apply!Transform("apply", s2, Head(s5)))]
          /\ s2' = Head(s4) /\ s6' = s6 \ {s2} /\ s3' = Head(s5)
          /\ s4' = Tail(s4) /\ s5' = Tail(s5) /\ s9' = Tail(s9) /\ s8' = s8
        BY DEF Apply!CloseNested
    <2> QED
        BY <1>2, <1>7, <2>1, <2>2
<1>14. /\ outer \in 1 .. n /\ outer < inner /\ d - 1 \in 1 .. d /\ separator \in {"comma", "space"}
       /\ s1[outer] \in ApplyClause /\ s1[outer].transforms \in Seq(Transformed)
       /\ \A k \in 1 .. d - 1 : chain[k] \in 1 .. n /\ chain[k] # inner
       /\ \A k \in 1 .. d - 2 : chain[k] # outer
    <2>1. d - 1 \in 1 .. d /\ d \in 1 .. d /\ d - 1 \in 1 .. d - 1 /\ 1 \in 1 .. d - 1
        BY <1>12
    <2>2. outer \in 1 .. n /\ outer < inner
        BY <1>12, <2>1
    <2>3. s1[outer] \in ApplyClause /\ s1[outer].transforms \in Seq(Transformed)
        BY <1>4, <2>2, CurrentIs
    <2>4. separator \in {"comma", "space"}
        <3>1. s5 \in Seq({"comma", "space"}) /\ 1 \in 1 .. Len(s5)
            BY <1>11, <1>12, <2>1 DEF ApplyType
        <3> QED
            BY <1>1, <3>1
    <2>5. \A k \in 1 .. d - 1 : chain[k] \in 1 .. n /\ chain[k] # inner
        <3> TAKE k \in 1 .. d - 1
        <3>1. k \in 1 .. d /\ chain[k] < chain[d] /\ chain[k] \in 1 .. n
            BY <1>12, <2>1
        <3> QED
            BY <1>12, <3>1
    <2>6. \A k \in 1 .. d - 2 : chain[k] # outer
        <3> TAKE k \in 1 .. d - 2
        <3>1. k \in 1 .. (d - 1) - 1 /\ k \in 1 .. d
            BY <1>12
        <3>2. chain[k] < chain[d - 1] /\ chain[k] \in 1 .. n
            BY <1>12, <2>1, <3>1
        <3> QED
            BY <1>12, <3>2
    <2> QED
        BY <2>1, <2>2, <2>3, <2>4, <2>5, <2>6
<1>15. /\ transform \in Transformed /\ transform.child = inner /\ inner # 0
       /\ transform.separator = separator
    BY <1>2, <1>7, <1>12, <1>14 DEF Apply!Transform, Transformed
<1>16. /\ clause \in ApplyClause /\ clause.transforms = Append(s1[outer].transforms, transform)
       /\ Append(s1[outer].transforms, transform) \in Seq(Transformed)
       /\ clause.transforms # <<>>
    <2>1. Append(s1[outer].transforms, transform) \in Seq(Transformed)
          /\ Append(s1[outer].transforms, transform) # <<>>
        BY <1>14, <1>15, AppendProperties
    <2> QED
        BY <1>3, <1>14, <2>1 DEF ApplyClause
<1>17. /\ s1' \in Seq(ApplyClause) /\ Len(s1') = n /\ s1'[outer] = clause
       /\ \A i \in 1 .. n : i # outer => s1'[i] = s1[i]
    <2>1. s1 \in Seq(ApplyClause)
        BY <1>11 DEF ApplyType
    <2>2. s1' = [s1 EXCEPT ![outer] = clause]
        BY <1>3, <1>13, <1>14, <2>1
    <2>3. /\ [s1 EXCEPT ![outer] = clause] \in Seq(ApplyClause)
          /\ Len([s1 EXCEPT ![outer] = clause]) = Len(s1)
          /\ \A j \in 1 .. Len(s1) :
                [s1 EXCEPT ![outer] = clause][j] = IF j = outer THEN clause ELSE s1[j]
        BY <1>4, <1>14, <1>16, <2>1, ExceptSeq
    <2> QED
        BY <1>4, <1>14, <2>2, <2>3
<1>18. /\ left \in Seq(Nat) /\ Len(left) = d - 1 /\ \A k \in 1 .. d - 1 : left[k] = chain[k]
    <2>1. d - 1 \in Nat /\ \A k \in 1 .. d - 1 : chain[k] \in Nat
        BY <1>12, <1>14
    <2> QED
        BY <1>8, <2>1
<1>19. \A i \in 1 .. n : Closed(i, left) <=> i = inner \/ Closed(i, chain)
    <2> TAKE i \in 1 .. n
    <2>1. /\ \A k \in 1 .. d : k = d \/ k \in 1 .. d - 1
          /\ \A k \in 1 .. d - 1 : k \in 1 .. d
        BY <1>12
    <2> QED
        BY <1>5, <1>12, <1>14, <1>18, <2>1 DEF Closed
<1>20. ~Closed(inner, chain) /\ ~Closed(outer, chain)
    <2>1. d \in 1 .. d
        BY <1>12
    <2> QED
        BY <1>5, <1>12, <1>14, <2>1 DEF Closed
<1>21. /\ longer \in [1 .. n -> Seq(ApplyToken)] /\ longer[inner] = now \o <<")">>
       /\ \A i \in 1 .. n : i # inner => longer[i] = text[i]
       /\ now \o <<")">> \in Seq(ApplyToken) /\ <<")">> \in Seq(ApplyToken)
    <2>1. text \in [1 .. n -> Seq(ApplyToken)]
        BY <1>4, <1>11 DEF TextsAre
    <2>2. <<")">> \in Seq(ApplyToken)
        BY DEF ApplyToken
    <2>3. now \o <<")">> \in Seq(ApplyToken)
        BY <1>12, <2>2, Grouped
    <2> QED
        BY <1>9, <1>12, <2>1, <2>2, <2>3
<1>22. \A i \in 1 .. n : Begun(s1[i], longer) = Begun(s1[i], text)
    <2> TAKE i \in 1 .. n
    <2>1. ASSUME NEW m \in DOMAIN s1[i].transforms, s1[i].transforms[m].child # 0
          PROVE  text[s1[i].transforms[m].child] = longer[s1[i].transforms[m].child]
        <3>1. /\ s1[i].transforms[m].child \in i + 1 .. n
              /\ Closed(s1[i].transforms[m].child, chain)
            BY <1>4, <1>11, <2>1 DEF OwnedAre, MayOwn
        <3>2. /\ s1[i].transforms[m].child \in 1 .. n
              /\ s1[i].transforms[m].child # inner
            BY <1>12, <1>20, <3>1
        <3> QED
            BY <1>21, <3>2
    <2> QED
        BY <2>1, BegunSame
<1>23. PICK gap : gap = Parting(s1[outer].transforms, separator)
    OBVIOUS
<1>24. PICK around : around = Begun(s1[outer], text)
    OBVIOUS
<1>25. /\ around \in Seq(ApplyToken) /\ gap \in Seq(ApplyToken)
       /\ before[d - 1] \in Seq(ApplyToken)
    <2>1. around \in Seq(ApplyToken)
        BY <1>4, <1>14, <1>24, CurrentIs
    <2>2. <<>> \in Seq(ApplyToken) /\ <<" ">> \in Seq(ApplyToken) /\ <<",">> \in Seq(ApplyToken)
        BY DEF ApplyToken
    <2>3. gap \in Seq(ApplyToken)
        BY <1>23, <2>2 DEF Parting, Gap
    <2>4. before[d - 1] \in Seq(ApplyToken)
        BY <1>5, <1>11, <1>14 DEF TextsAre
    <2> QED
        BY <2>1, <2>3, <2>4
<1>26. Begun(clause, longer) = around \o (gap \o (now \o <<")">>))
    <2>1. Printable(s1[outer].transforms, longer)
        <3> SUFFICES ASSUME NEW m \in DOMAIN s1[outer].transforms,
                            s1[outer].transforms[m].child # 0
                     PROVE  longer[s1[outer].transforms[m].child] \in Seq(ApplyToken)
            BY DEF Printable
        <3>1. s1[outer].transforms[m].child \in outer + 1 .. n
            BY <1>4, <1>11, <1>14 DEF OwnedAre, MayOwn
        <3>2. outer \in 1 .. n /\ n \in Nat
            BY <1>12, <1>14
        <3>3. s1[outer].transforms[m].child \in 1 .. n
            BY <3>1, <3>2
        <3> QED
            BY <1>21, <3>3
    <2>2. longer[transform.child] \in Seq(ApplyToken)
        BY <1>15, <1>21
    <2>3. Begun([s1[outer] EXCEPT !.transforms = Append(@, transform)], longer)
          = Begun(s1[outer], longer)
            \o ((IF s1[outer].transforms = <<>> THEN <<>> ELSE Gap(transform.separator))
                \o One(transform, longer))
        BY <1>14, <1>15, <2>1, <2>2, BegunMore
    <2>4. One(transform, longer) = now \o <<")">>
        BY <1>15, <1>21 DEF One
    <2>5. (IF s1[outer].transforms = <<>> THEN <<>> ELSE Gap(transform.separator)) = gap
        BY <1>15, <1>23 DEF Parting
    <2>6. Begun(s1[outer], longer) = around
        BY <1>14, <1>22, <1>24
    <2> QED
        BY <1>3, <2>3, <2>4, <2>5, <2>6
<1>27. Apply!LabelLeads => s7 = before[d] \o (now \o <<>>)
    <2>1. Trail = <<>>
        BY <1>13 DEF Trail
    <2> QED
        BY <1>5, <1>6, <1>11, <2>1 DEF TextsAre
<1>28. before[d] = before[d - 1] \o (around \o gap)
    <2>1. d - 1 \in 1 .. d - 1 /\ (d - 1) + 1 = d /\ d - (d - 1) = 1
        BY <1>12
    <2>2. before[(d - 1) + 1] = before[d - 1] \o (Begun(s1[chain[d - 1]], text)
                            \o Parting(s1[chain[d - 1]].transforms, s5[d - (d - 1)]))
        BY <1>5, <1>11, <2>1 DEF TextsAre
    <2> QED
        BY <1>1, <1>12, <1>23, <1>24, <2>1, <2>2
<1>29. /\ Apply!LabelLeads' => s7' = before[d - 1] \o Begun(clause, longer)
       /\ s7' \in Seq(ApplyToken)
    <2> DEFINE b == before[d - 1]
               c == <<")">>
               q == around \o gap
               m == now \o c
    <2>1. /\ b \in Seq(ApplyToken) /\ c \in Seq(ApplyToken)
          /\ around \in Seq(ApplyToken) /\ gap \in Seq(ApplyToken) /\ now \in Seq(ApplyToken)
        BY <1>12, <1>21, <1>25
    <2>2. s7' = s7 \o c /\ s7' \in Seq(ApplyToken) /\ (Apply!LabelLeads' => Apply!LabelLeads)
        <3>1. ")" \in ApplyToken /\ s7 \in Seq(ApplyToken)
            BY <1>11 DEF ApplyToken, ApplyType
        <3>2. s7' = s7 \o c
            BY <1>13, <3>1, AppendIsConcat
        <3> HIDE DEF c
        <3> QED
            BY <2>1, <3>1, <3>2, ConcatProperties, LedBefore
    <2>3. now \o <<>> = now
        BY <2>1, ConcatEmptySeq
    <2> HIDE DEF b, c
    <2>4. q \in Seq(ApplyToken) /\ m \in Seq(ApplyToken)
        BY <2>1, Grouped
    <2>5. q \o m = around \o (gap \o m)
        <3> HIDE DEF m
        <3>1. \A p \in Seq(ApplyToken) : (around \o gap) \o p = around \o (gap \o p)
            BY <2>1, Grouped
        <3> QED
            BY <2>4, <3>1
    <2> HIDE DEF q
    <2>6. b \o q \in Seq(ApplyToken)
        BY <2>1, <2>4, Grouped
    <2>7. ((b \o q) \o now) \o c = (b \o q) \o m
        <3> DEFINE x == b \o q
        <3>1. x \in Seq(ApplyToken)
            BY <2>6
        <3> HIDE DEF x
        <3>2. \A p \in Seq(ApplyToken) : (x \o now) \o p = x \o (now \o p)
            BY <2>1, <3>1, Grouped
        <3>3. (x \o now) \o c = x \o (now \o c)
            BY <2>1, <3>2
        <3> QED
            BY <3>3 DEF x
    <2> HIDE DEF m
    <2>8. (b \o q) \o m = b \o (q \o m)
        <3>1. \A p \in Seq(ApplyToken) : (b \o q) \o p = b \o (q \o p)
            BY <2>1, <2>4, Grouped
        <3> QED
            BY <2>4, <3>1
    <2>9. Apply!LabelLeads => s7 = (b \o q) \o now
        BY <1>27, <1>28, <2>3 DEF b, q
    <2>10. Begun(clause, longer) = around \o (gap \o m)
        BY <1>26 DEF m, c
    <2>11. Apply!LabelLeads' => s7' = b \o (q \o m)
        BY <2>2, <2>7, <2>8, <2>9
    <2> QED
        BY <2>2, <2>5, <2>10, <2>11 DEF b
<1>30. /\ s4' \in Seq(Nat) /\ Len(s4') = d - 2 /\ \A k \in 1 .. d - 2 : s4'[k] = s4[k + 1]
       /\ s5' \in Seq({"comma", "space"}) /\ Len(s5') = d - 2
       /\ \A k \in 1 .. d - 2 : s5'[k] = s5[k + 1]
       /\ s9' \in Seq(BOOLEAN) /\ Len(s9') = d - 1
    <2> DEFINE T == {"comma", "space"}
    <2>1. s4 \in Seq(Nat) /\ s5 \in Seq(T) /\ s9 \in Seq(BOOLEAN)
        BY <1>11 DEF ApplyType
    <2>2. s4 # <<>> /\ s5 # <<>> /\ s9 # <<>> /\ (d - 1) - 1 = d - 2
        BY <1>12
    <2>3. Tail(s4) \in Seq(Nat) /\ Len(Tail(s4)) = d - 2
          /\ \A k \in 1 .. d - 2 : Tail(s4)[k] = s4[k + 1]
        BY <1>12, <2>1, <2>2, HeadTailProperties
    <2>4. Tail(s9) \in Seq(BOOLEAN) /\ Len(Tail(s9)) = d - 1
        BY <1>12, <2>1, <2>2, HeadTailProperties
    <2> HIDE DEF T
    <2>5. Tail(s5) \in Seq(T) /\ Len(Tail(s5)) = d - 2
          /\ \A k \in 1 .. d - 2 : Tail(s5)[k] = s5[k + 1]
        BY <1>12, <2>1, <2>2, HeadTailProperties
    <2> QED
        BY <1>13, <2>3, <2>4, <2>5 DEF T
<1>31. ApplyType'
    <2>1. /\ s2' \in Nat /\ s3' \in {"comma", "space"}
          /\ s8' \in {"parameter", "after label", "next", "end"}
        BY <1>12, <1>13, <1>14
    <2> QED
        BY <1>17, <1>29, <1>30, <2>1 DEF ApplyType
<1>32. OpenAre(left)'
    <2>1. /\ d - 1 \in Nat \ {0} /\ 1 \in 1 .. d - 1 /\ d - 1 \in 1 .. d - 1
          /\ (d - 1) - 1 = d - 2
        BY <1>12
    <2>2. left[1] = 1 /\ left[d - 1] = s2'
        BY <1>12, <1>13, <1>18, <2>1
    <2>3. \A k \in 1 .. (d - 1) - 1 : s4'[(d - 1) - k] = left[k]
        <3> TAKE k \in 1 .. (d - 1) - 1
        <3>1. /\ (d - 1) - k \in 1 .. d - 2 /\ ((d - 1) - k) + 1 = d - k
              /\ k \in 1 .. d - 1
            BY <1>12
        <3> QED
            BY <1>12, <1>18, <1>30, <3>1
    <2>4. \A k \in 1 .. d - 1 : left[k] \in 1 .. n
        BY <1>14, <1>18
    <2>5. \A k \in 1 .. d - 1 : \A j \in 1 .. k - 1 : left[j] < left[k]
        <3> TAKE k \in 1 .. d - 1
        <3> TAKE j \in 1 .. k - 1
        <3>1. j \in 1 .. d - 1 /\ k \in 1 .. d
            BY <1>12
        <3>2. chain[j] < chain[k]
            BY <1>12, <3>1
        <3> QED
            BY <1>18, <3>1, <3>2
    <2>6. s6' = {left[k] : k \in 2 .. d - 1}
        <3>1. s6 = {chain[k] : k \in 2 .. d}
            BY <1>5, <1>11 DEF OpenAre
        <3>2. /\ \A k \in 2 .. d : k = d \/ k \in 2 .. d - 1
              /\ \A k \in 2 .. d - 1 : k \in 2 .. d /\ k \in 1 .. d - 1
            BY <1>12
        <3>3. \A x : x \in s6' <=> \E k \in 2 .. d - 1 : x = left[k]
            <4> TAKE x
            <4>1. ASSUME x \in s6' PROVE \E k \in 2 .. d - 1 : x = left[k]
                <5>1. x \in s6 /\ x # inner
                    BY <1>13, <4>1
                <5>2. PICK k \in 2 .. d : x = chain[k]
                    BY <3>1, <5>1
                <5>3. k \in 2 .. d - 1
                    BY <1>12, <3>2, <5>1, <5>2
                <5> QED
                    BY <1>18, <3>2, <5>2, <5>3
            <4>2. ASSUME NEW k \in 2 .. d - 1, x = left[k] PROVE x \in s6'
                <5>1. x = chain[k] /\ k \in 2 .. d /\ chain[k] # inner
                    BY <1>14, <1>18, <3>2, <4>2
                <5> QED
                    BY <1>13, <3>1, <5>1
            <4> QED
                BY <4>1, <4>2
        <3> QED
            BY <3>3
    <2> QED
        BY <1>17, <1>18, <1>30, <2>1, <2>2, <2>3, <2>4, <2>5, <2>6 DEF OpenAre
<1>33. OwnedAre(left)'
    <2> SUFFICES ASSUME NEW i \in 1 .. n
                 PROVE  MayOwn(s1[i].transforms, i, left)'
        BY <1>17 DEF OwnedAre
    <2>1. \A j \in 1 .. n : Closed(j, chain) => Closed(j, left)
        BY <1>19
    <2>2. \A m \in DOMAIN s1[i].transforms :
            \/ s1[i].transforms[m].child = 0
            \/ /\ s1[i].transforms[m].child \in i + 1 .. n
               /\ Closed(s1[i].transforms[m].child, left)
        <3> TAKE m \in DOMAIN s1[i].transforms
        <3> SUFFICES ASSUME s1[i].transforms[m].child # 0
                     PROVE  /\ s1[i].transforms[m].child \in i + 1 .. n
                            /\ Closed(s1[i].transforms[m].child, left)
            OBVIOUS
        <3>1. /\ s1[i].transforms[m].child \in i + 1 .. n
              /\ Closed(s1[i].transforms[m].child, chain)
            BY <1>4, <1>11 DEF OwnedAre, MayOwn
        <3>2. s1[i].transforms[m].child \in 1 .. n
            BY <1>12, <3>1
        <3> QED
            BY <2>1, <3>1, <3>2
    <2>3. CASE i # outer
        BY <1>17, <2>2, <2>3 DEF MayOwn
    <2>4. CASE i = outer
        <3>1. DOMAIN clause.transforms = 1 .. Len(s1[outer].transforms) + 1
              /\ clause.transforms[Len(s1[outer].transforms) + 1] = transform
              /\ \A m \in 1 .. Len(s1[outer].transforms) :
                    m \in DOMAIN s1[outer].transforms
                    /\ clause.transforms[m] = s1[outer].transforms[m]
            BY <1>14, <1>15, <1>16, AppendProperties
        <3>2. Len(s1[outer].transforms) \in Nat
            BY <1>14
        <3>3. inner \in outer + 1 .. n /\ Closed(inner, left)
            BY <1>12, <1>14, <1>19
        <3>4. ASSUME NEW m \in DOMAIN clause.transforms
              PROVE  \/ clause.transforms[m].child = 0
                     \/ /\ clause.transforms[m].child \in outer + 1 .. n
                        /\ Closed(clause.transforms[m].child, left)
            <4>1. CASE m = Len(s1[outer].transforms) + 1
                BY <1>15, <3>1, <3>3, <4>1
            <4>2. CASE m # Len(s1[outer].transforms) + 1
                <5>1. m \in 1 .. Len(s1[outer].transforms)
                    BY <3>1, <3>2, <4>2
                <5> QED
                    BY <2>2, <2>4, <3>1, <5>1
            <4> QED
                BY <4>1, <4>2
        <3> QED
            BY <1>17, <2>4, <3>4 DEF MayOwn
    <2> QED
        BY <2>3, <2>4
<1>34. Expected'
    BY <1>13, <1>16, <1>17 DEF Expected
<1>35. TextsAre(left, longer, less)'
    <2>1. less \in [1 .. d - 1 -> Seq(ApplyToken)] /\ less[1] = <<>>
          /\ \A k \in 1 .. d - 1 : less[k] = before[k]
        <3>1. before \in [1 .. d -> Seq(ApplyToken)] /\ before[1] = <<>>
            BY <1>5, <1>11 DEF TextsAre
        <3>2. 1 \in 1 .. d - 1 /\ \A k \in 1 .. d - 1 : k \in 1 .. d
            BY <1>12
        <3> QED
            BY <1>10, <3>1, <3>2
    <2>2. ASSUME NEW i \in 1 .. n, Closed(i, left)
          PROVE  s1'[i].transforms # <<>> /\ longer[i] = Begun(s1'[i], longer) \o <<")">>
        <3>1. CASE i = inner
            <4>1. s1'[i] = s1[i] /\ s1[i].transforms # <<>>
                BY <1>7, <1>11, <1>12, <1>13, <1>14, <1>17, <3>1 DEF Expected
            <4>2. Begun(s1[i], longer) = now
                BY <1>6, <1>7, <1>22, <3>1
            <4> QED
                BY <1>21, <3>1, <4>1, <4>2
        <3>2. CASE i # inner
            <4>1. Closed(i, chain)
                BY <1>19, <2>2, <3>2
            <4>2. s1[i].transforms # <<>> /\ text[i] = Begun(s1[i], text) \o <<")">>
                BY <1>4, <1>11, <4>1 DEF TextsAre
            <4>3. s1'[i] = s1[i]
                BY <1>17, <1>20, <4>1
            <4> QED
                BY <1>21, <1>22, <3>2, <4>2, <4>3
        <3> QED
            BY <3>1, <3>2
    <2>3. ASSUME NEW k \in 1 .. (d - 1) - 1
          PROVE  less[k + 1]
                 = less[k] \o (Begun(s1'[left[k]], longer)
                               \o Parting(s1'[left[k]].transforms, s5'[(d - 1) - k]))
        <3>1. /\ k \in 1 .. d - 1 /\ k + 1 \in 1 .. d - 1 /\ k \in 1 .. d - 2
              /\ (d - 1) - k \in 1 .. d - 2 /\ ((d - 1) - k) + 1 = d - k
            BY <1>12
        <3>2. /\ left[k] = chain[k] /\ chain[k] \in 1 .. n /\ s1'[chain[k]] = s1[chain[k]]
              /\ Begun(s1[chain[k]], longer) = Begun(s1[chain[k]], text)
            BY <1>14, <1>17, <1>18, <1>22, <3>1
        <3>3. before[k + 1] = before[k] \o (Begun(s1[chain[k]], text)
                                \o Parting(s1[chain[k]].transforms, s5[d - k]))
            BY <1>5, <1>11, <3>1 DEF TextsAre
        <3>4. s5'[(d - 1) - k] = s5[d - k]
            BY <1>30, <3>1
        <3> QED
            BY <2>1, <3>1, <3>2, <3>3, <3>4
    <2>4. Apply!LabelLeads' => s7' = less[d - 1] \o (Begun(s1'[s2'], longer) \o Trail')
        <3>1. Trail' = <<>> /\ s1'[s2'] = clause /\ d - 1 \in 1 .. d - 1
            BY <1>12, <1>13, <1>17 DEF Trail
        <3>2. Begun(clause, longer) \o <<>> = Begun(clause, longer)
            <4>1. Begun(clause, longer) \in Seq(ApplyToken)
                <5>1. gap \o (now \o <<")">>) \in Seq(ApplyToken)
                    BY <1>21, <1>25, Grouped
                <5>2. around \o (gap \o (now \o <<")">>)) \in Seq(ApplyToken)
                    BY <1>25, <5>1, Grouped
                <5> QED
                    BY <1>26, <5>2
            <4> QED
                BY <4>1, ConcatEmptySeq
        <3> QED
            BY <1>29, <2>1, <3>1, <3>2
    <2> QED
        BY <1>17, <1>18, <1>21, <2>1, <2>2, <2>3, <2>4 DEF TextsAre
<1> QED
    BY <1>31, <1>32, <1>33, <1>34, <1>35 DEF ApplyRead

\* A text is begun.
LEMMA BeginKeeps ==
    ASSUME Apply!Begin
    PROVE  \E chain, text, before : ApplyRead(chain, text, before)'
<1>1. /\ s1' = <<Apply!Clause>> /\ s2' = 1 /\ s6' = {} /\ s3' = "comma"
      /\ s4' = <<>> /\ s5' = <<>> /\ s7' = <<"apply(">> /\ s8' = "parameter" /\ s9' = <<FALSE>>
    BY DEF Apply!Begin
<1>2. PICK chain : chain = <<1>>
    OBVIOUS
<1>3. PICK text : text = [i \in 1 .. 1 |-> <<>>]
    OBVIOUS
<1>4. PICK before : before = [k \in 1 .. 1 |-> <<>>]
    OBVIOUS
<1>5. /\ Apply!Clause \in ApplyClause /\ Apply!Clause.transforms = <<>>
      /\ Apply!Clause.label = Apply!NoLabel /\ <<"apply(">> \in Seq(ApplyToken)
      /\ Begun(Apply!Clause, text) = <<"apply(">>
    BY NewClauseIs
<1>6. /\ s1' \in Seq(ApplyClause) /\ Len(s1') = 1 /\ s1'[1] = Apply!Clause
    BY <1>1, <1>5
<1>7. ApplyType'
    BY <1>1, <1>5, <1>6 DEF ApplyType
<1>8. chain \in Seq(Nat) /\ Len(chain) = 1 /\ chain[1] = 1
    BY <1>2
<1>9. OpenAre(chain)'
    BY <1>1, <1>6, <1>8 DEF OpenAre
<1>10. OwnedAre(chain)'
    BY <1>5, <1>6 DEF OwnedAre, MayOwn
<1>11. Expected'
    BY <1>1, <1>5, <1>6 DEF Expected
<1>12. TextsAre(chain, text, before)'
    <2>1. <<>> \in Seq(ApplyToken) /\ 1 \in 1 .. 1
        OBVIOUS
    <2>2. /\ text \in [1 .. 1 -> Seq(ApplyToken)] /\ before \in [1 .. 1 -> Seq(ApplyToken)]
          /\ before[1] = <<>>
        BY <1>3, <1>4, <2>1
    <2>3. \A i \in 1 .. 1 : ~Closed(i, chain)
        BY <1>8 DEF Closed
    <2>4. s7' = before[1] \o (Begun(s1'[s2'], text) \o Trail')
        <3>1. Trail' = <<>> /\ s1'[s2'] = Apply!Clause
            BY <1>1, <1>5, <1>6 DEF Trail
        <3>2. <<"apply(">> \o <<>> = <<"apply(">> /\ <<>> \o <<"apply(">> = <<"apply(">>
            BY <1>5, ConcatEmptySeq
        <3> QED
            BY <1>1, <1>5, <2>2, <3>1, <3>2
    <2> QED
        BY <1>6, <1>8, <2>2, <2>3, <2>4 DEF TextsAre
<1> QED
    BY <1>7, <1>9, <1>10, <1>11, <1>12 DEF ApplyRead

\* The invariant holds at first, ...
LEMMA ApplyStart ==
    ASSUME Apply!Init
    PROVE  ApplyInv
<1> QED
    BY DEF Apply!Init, ApplyInv

\* ... and every action keeps it.
LEMMA ApplyStep ==
    ASSUME ApplyInv, Apply!Next
    PROVE  ApplyInv'
<1>1. CASE Apply!Begin
    BY <1>1, BeginKeeps DEF ApplyInv
<1>2. CASE Apply!Rejected
    BY <1>2 DEF Apply!Rejected, ApplyInv
<1>3. CASE ~(Apply!Begin \/ Apply!Rejected)
    <2>1. /\ \/ Apply!Comma \/ Apply!OpenNested \/ Apply!CloseNested \/ Apply!Close
             \/ Apply!Label("l") \/ \E name \in Texts : Apply!AddTransformation(name)
          /\ s8 # "end"
        <3>1. \/ Apply!Comma \/ Apply!OpenNested \/ Apply!CloseNested \/ Apply!Close
              \/ Apply!Label("l") \/ \E name \in Texts : Apply!AddTransformation(name)
            BY <1>3 DEF Apply!Next
        <3>2. s8 # "end"
            BY <3>1 DEF Apply!Comma, Apply!OpenNested, Apply!CloseNested, Apply!Close,
                        Apply!Label, Apply!AddTransformation, Apply!MayTransform
        <3> QED
            BY <3>1, <3>2
    <2>2. PICK chain, text, before : ApplyRead(chain, text, before)
        BY <2>1 DEF ApplyInv
    <2>3. \E c, t, b : ApplyRead(c, t, b)'
        <3>1. CASE Apply!Comma
            BY <2>2, <3>1, CommaKeeps
        <3>2. CASE Apply!OpenNested
            BY <2>2, <3>2, OpenKeeps
        <3>3. CASE Apply!CloseNested
            BY <2>2, <3>3, CloseNestedKeeps
        <3>4. CASE Apply!Close
            BY <2>2, <3>4, CloseKeeps
        <3>5. CASE Apply!Label("l")
            BY <2>2, <3>5, LabelKeeps
        <3>6. ASSUME NEW name \in Texts, Apply!AddTransformation(name)
              PROVE  \E c, t, b : ApplyRead(c, t, b)'
            BY <2>2, <3>6, TransformationKeeps
        <3> QED
            BY <2>1, <3>1, <3>2, <3>3, <3>4, <3>5, <3>6
    <2> QED
        BY <2>3 DEF ApplyInv
<1> QED
    BY <1>1, <1>2, <1>3

-----------------------------------------------------------------------------
(* What the invariant says.                                                 *)

\* What toString prints of a clause is what was read of it, closed.
Prints(f) ==
    f = [i \in DOMAIN s1 |->
            LET one(transform) == IF transform.child = 0 THEN <<transform.name>>
                                  ELSE f[transform.child]
                separator(t) == IF t.separator = "space" THEN <<" ">> ELSE <<",">>
                list == s1[i].transforms
            IN <<"apply(">>
                \o (IF s1[i].label = Apply!NoLabel THEN <<>>
                    ELSE <<s1[i].label>> \o (IF list = <<>> THEN <<>> ELSE <<":">>))
                \o Apply!FlattenSeq([n \in DOMAIN list |->
                        (IF n = 1 THEN <<>> ELSE separator(list[n])) \o one(list[n])])
                \o <<")">>]

\* What is printed of a clause is what the invariant says its text is.
LEMMA PrintsIs ==
    ASSUME NEW f, s1 \in Seq(ApplyClause), \A i \in 1 .. Len(s1) : s1[i].transforms # <<>>
    PROVE  Prints(f) <=> f = [i \in 1 .. Len(s1) |-> Begun(s1[i], f) \o <<")">>]
<1> DEFINE list(i) == s1[i].transforms
           label(i) == IF s1[i].label = Apply!NoLabel THEN <<>>
                       ELSE <<s1[i].label>> \o (IF list(i) = <<>> THEN <<>> ELSE <<":">>)
           flat(i) == Apply!FlattenSeq([n \in DOMAIN list(i) |->
                        (IF n = 1 THEN <<>>
                         ELSE IF list(i)[n].separator = "space" THEN <<" ">> ELSE <<",">>)
                        \o (IF list(i)[n].child = 0 THEN <<list(i)[n].name>>
                            ELSE f[list(i)[n].child])])
<1>1. ASSUME NEW i \in 1 .. Len(s1)
      PROVE  label(i) = Labelled(s1[i].label)
    <2>1. s1[i].label \in {"l", Apply!NoLabel}
        <3>1. s1[i] \in ApplyClause
            OBVIOUS
        <3> QED
            BY <3>1 DEF ApplyClause
    <2>2. <<"l">> \o <<":">> = <<"l", ":">>
        <3>1. <<"l">> \in Seq(ApplyToken) /\ ":" \in ApplyToken
            BY DEF ApplyToken
        <3>2. Append(<<"l">>, ":") = <<"l">> \o <<":">>
            BY <3>1, AppendIsConcat
        <3>3. Append(<<"l">>, ":") = <<"l", ":">>
            <4> DEFINE u == Append(<<"l">>, ":")
                       v == <<"l", ":">>
            <4>1. Len(<<"l">>) = 1 /\ <<"l">>[1] = "l"
                OBVIOUS
            <4>2. u \in Seq(ApplyToken) /\ Len(u) = 2 /\ u[1] = "l" /\ u[2] = ":"
                BY <3>1, <4>1, AppendProperties
            <4>3. v \in Seq(ApplyToken) /\ Len(v) = 2 /\ v[1] = "l" /\ v[2] = ":"
                BY <3>1 DEF ApplyToken
            <4> HIDE DEF u, v
            <4>4. \A k \in 1 .. Len(u) : u[k] = v[k]
                BY <4>2, <4>3
            <4>5. u = v
                BY <4>2, <4>3, <4>4, SeqEqual
            <4> QED
                BY <4>5 DEF u, v
        <3> QED
            BY <3>2, <3>3
    <2>3. s1[i].transforms # <<>>
        OBVIOUS
    <2> QED
        BY <2>1, <2>2, <2>3 DEF Labelled
<1>2. ASSUME NEW i \in 1 .. Len(s1)
      PROVE  flat(i) = Apply!FlattenSeq(Items(s1[i].transforms, f))
    BY DEF Items, Item, Gap, One
<1>3. Prints(f) <=> f = [i \in DOMAIN s1 |-> ((<<"apply(">> \o label(i)) \o flat(i)) \o <<")">>]
    BY DEF Prints
<1>4. DOMAIN s1 = 1 .. Len(s1)
    OBVIOUS
<1> HIDE DEF label, flat
<1>5. ASSUME NEW i \in 1 .. Len(s1)
      PROVE  ((<<"apply(">> \o label(i)) \o flat(i)) \o <<")">> = Begun(s1[i], f) \o <<")">>
    BY <1>1, <1>2, <1>5 DEF Begun
<1> QED
    BY <1>3, <1>4, <1>5

\* One printing of the clauses exists, and no other.
LEMMA PrintedIs ==
    ASSUME NEW n \in Nat \ {0}, NEW g, s1 \in Seq(ApplyClause), Len(s1) = n,
           \A i \in 1 .. n : /\ s1[i].transforms # <<>>
                             /\ \A m \in DOMAIN s1[i].transforms :
                                    s1[i].transforms[m].child \in {0} \cup i + 1 .. n,
           Prints(g)
    PROVE  Apply!Printed = g[1]
<1> DEFINE inside == CHOOSE f : Prints(f)
<1>1. Apply!Printed = inside[1]
    BY DEF Apply!Printed, Prints
<1>2. Prints(inside)
    <2> HIDE DEF Prints
    <2> QED
        OBVIOUS
<1> HIDE DEF inside
<1>3. \A f : Prints(f) => \A i \in 1 .. n : f[i] = Begun(s1[i], f) \o <<")">>
    <2> TAKE f
    <2>1. Prints(f) <=> f = [i \in 1 .. Len(s1) |-> Begun(s1[i], f) \o <<")">>]
        BY PrintsIs
    <2> HIDE DEF Prints
    <2> QED
        BY <2>1
<1> DEFINE Held == {k \in 0 .. n : \A i \in (n - k) + 1 .. n : inside[i] = g[i]}
<1>4. 0 \in Held
    OBVIOUS
<1>5. ASSUME NEW k \in 1 .. n, k - 1 \in Held PROVE k \in Held
    <2> SUFFICES ASSUME NEW i \in (n - k) + 1 .. n PROVE inside[i] = g[i]
        OBVIOUS
    <2>1. i \in 1 .. n
        OBVIOUS
    <2>2. \A j \in i + 1 .. n : inside[j] = g[j]
        <3> TAKE j \in i + 1 .. n
        <3>1. j \in (n - (k - 1)) + 1 .. n
            OBVIOUS
        <3> QED
            BY <1>5, <3>1
    <2>3. \A m \in DOMAIN s1[i].transforms :
            \/ s1[i].transforms[m].child = 0
            \/ inside[s1[i].transforms[m].child] = g[s1[i].transforms[m].child]
        BY <2>1, <2>2
    <2>4. Begun(s1[i], inside) = Begun(s1[i], g)
        BY <2>3, BegunSame
    <2>5. /\ inside[i] = Begun(s1[i], inside) \o <<")">>
          /\ g[i] = Begun(s1[i], g) \o <<")">>
        BY <1>2, <1>3, <2>1
    <2> QED
        BY <2>4, <2>5
<1>6. inside[1] = g[1]
    <2>1. n \in Nat /\ n \in 0 .. n
        OBVIOUS
    <2>2. \A k \in 0 .. n : k \in Held
        <3> HIDE DEF Held
        <3> QED
            BY <1>4, <1>5, <2>1, PassedOn
    <2>3. n \in Held
        <3> HIDE DEF Held
        <3> QED
            BY <2>1, <2>2
    <2>4. 1 \in (n - n) + 1 .. n
        OBVIOUS
    <2> QED
        BY <2>3, <2>4
<1> QED
    BY <1>1, <1>6

\* A step that changes nothing of what the invariant is about keeps it.
LEMMA ApplyAlone ==
    ASSUME ApplyInv, UNCHANGED <<s1, s2, s3, s4, s5, s6, s7, s8, s9>>
    PROVE  ApplyInv'
<1>1. ASSUME NEW chain, NEW text, NEW before, ApplyRead(chain, text, before)
      PROVE  ApplyRead(chain, text, before)'
    <2>1. ApplyType' /\ Expected'
        BY <1>1 DEF ApplyRead, ApplyType, Expected, Apply!LabelLeads
    <2>2. OpenAre(chain)' /\ OwnedAre(chain)'
        BY <1>1 DEF ApplyRead, OpenAre, OwnedAre, MayOwn
    <2>3. TextsAre(chain, text, before)'
        BY <1>1 DEF ApplyRead, TextsAre, Trail, Apply!LabelLeads
    <2> QED
        BY <2>1, <2>2, <2>3 DEF ApplyRead
<1> QED
    BY <1>1 DEF ApplyInv

\* An accepted text whose labels lead is printed as it was written.
LEMMA PrintedSays ==
    ASSUME ApplyInv
    PROVE  Apply!LedPrintedAsWritten
<1> SUFFICES ASSUME Apply!LabelLeads, Apply!Accepted PROVE Apply!Printed = s7
    BY DEF Apply!LedPrintedAsWritten, Apply!PrintedAsWritten
<1>1. s8 = "end" /\ s7 # <<>>
    BY DEF Apply!Accepted
<1>2. PICK chain, text, before : ApplyRead(chain, text, before)
    BY <1>1 DEF ApplyInv
<1>3. PICK n : n = Len(s1)
    OBVIOUS
<1>4. ApplyType /\ OwnedAre(chain) /\ OpenAre(chain) /\ Expected /\ TextsAre(chain, text, before)
    BY <1>2 DEF ApplyRead
<1>5. s1 \in Seq(ApplyClause) /\ n \in Nat
    <2>1. s1 \in Seq(ApplyClause)
        BY <1>4 DEF ApplyType
    <2> QED
        BY <1>3, <2>1
<1>6. /\ Len(chain) = 1 /\ chain[1] = 1 /\ s2 = 1 /\ 1 \in 1 .. n
      /\ s1[s2].transforms # <<>>
    BY <1>1, <1>3, <1>4 DEF OpenAre, Expected
<1>7. \A i \in 1 .. n : i # 1 => Closed(i, chain)
    BY <1>6 DEF Closed
<1>8. s7 = Begun(s1[1], text) \o <<")">>
    <2>1. s7 = before[1] \o (Begun(s1[1], text) \o <<")">>) /\ before[1] = <<>>
        BY <1>1, <1>4, <1>6 DEF TextsAre, Trail
    <2>2. Begun(s1[1], text) \in Seq(ApplyToken) /\ <<")">> \in Seq(ApplyToken)
        <3>1. Begun(s1[1], text) \in Seq(ApplyToken)
            BY <1>2, <1>3, <1>6, CurrentIs
        <3>2. <<")">> \in Seq(ApplyToken)
            BY DEF ApplyToken
        <3> QED
            BY <3>1, <3>2
    <2>3. Begun(s1[1], text) \o <<")">> \in Seq(ApplyToken)
        BY <2>2, Grouped
    <2>4. <<>> \o (Begun(s1[1], text) \o <<")">>) = Begun(s1[1], text) \o <<")">>
        BY <2>3, ConcatEmptySeq
    <2> QED
        BY <2>1, <2>4
<1>9. \A i \in 1 .. n : /\ s1[i].transforms # <<>>
                        /\ \A m \in DOMAIN s1[i].transforms :
                                s1[i].transforms[m].child \in {0} \cup i + 1 .. n
    <2>1. \A i \in 1 .. n : s1[i].transforms # <<>>
        BY <1>3, <1>4, <1>6, <1>7 DEF TextsAre
    <2>2. \A i \in 1 .. n : \A m \in DOMAIN s1[i].transforms :
            s1[i].transforms[m].child \in {0} \cup i + 1 .. n
        BY <1>3, <1>4 DEF OwnedAre, MayOwn
    <2> QED
        BY <2>1, <2>2
<1> DEFINE g == [i \in 1 .. n |-> IF i = 1 THEN s7 ELSE text[i]]
<1>10. \A i \in 1 .. n : Begun(s1[i], g) = Begun(s1[i], text)
    <2> TAKE i \in 1 .. n
    <2>1. ASSUME NEW m \in DOMAIN s1[i].transforms, s1[i].transforms[m].child # 0
          PROVE  g[s1[i].transforms[m].child] = text[s1[i].transforms[m].child]
        <3>1. s1[i].transforms[m].child \in i + 1 .. n
            BY <1>9, <2>1
        <3>2. s1[i].transforms[m].child \in 1 .. n /\ s1[i].transforms[m].child # 1
            BY <1>5, <3>1
        <3> QED
            BY <3>2
    <2> HIDE DEF g
    <2> QED
        BY <2>1, BegunSame
<1>11. g = [i \in 1 .. n |-> Begun(s1[i], g) \o <<")">>]
    <2>1. \A i \in 1 .. n : (IF i = 1 THEN s7 ELSE text[i]) = Begun(s1[i], text) \o <<")">>
        <3> TAKE i \in 1 .. n
        <3>1. i # 1 => text[i] = Begun(s1[i], text) \o <<")">>
            BY <1>3, <1>4, <1>7 DEF TextsAre
        <3> QED
            BY <1>8, <3>1
    <2>2. g = [i \in 1 .. n |-> Begun(s1[i], text) \o <<")">>]
        BY <2>1
    <2> HIDE DEF g
    <2> QED
        BY <1>10, <2>2
<1>12. g[1] = s7
    BY <1>6
<1> HIDE DEF g
<1>13. Prints(g)
    <2>1. Prints(g) <=> g = [i \in 1 .. Len(s1) |-> Begun(s1[i], g) \o <<")">>]
        BY <1>3, <1>5, <1>9, PrintsIs
    <2> QED
        BY <1>3, <1>11, <2>1
<1>14. Apply!Printed = g[1]
    <2>1. n \in Nat \ {0}
        BY <1>5, <1>6
    <2> QED
        BY <1>3, <1>5, <1>9, <1>13, <2>1, PrintedIs
<1> QED
    BY <1>12, <1>14

\* What the stacks save is what is open, and no nested clause is left without an owner.
LEMMA SavedSays ==
    ASSUME ApplyInv
    PROVE  Apply!SavedIsOpen
<1> SUFFICES ASSUME s8 # "end" \/ s7 # <<>>
             PROVE  /\ Len(s4) = Len(s9) - 1 /\ Len(s5) = Len(s9) - 1
                    /\ s6 = Apply!ToSet(IF Len(s9) = 1 THEN <<>> ELSE <<s2>> \o Apply!Front(s4))
    BY DEF Apply!SavedIsOpen, Apply!Accepted
<1>1. PICK chain, text, before : ApplyRead(chain, text, before)
    BY DEF ApplyInv
<1>2. PICK d : d = Len(s9)
    OBVIOUS
<1>3. /\ d \in Nat \ {0} /\ Len(s4) = d - 1 /\ Len(s5) = d - 1 /\ chain[d] = s2
      /\ \A k \in 1 .. d - 1 : s4[d - k] = chain[k]
      /\ s6 = {chain[k] : k \in 2 .. d} /\ s4 \in Seq(Nat) /\ s2 \in Nat
    <2>1. ApplyType /\ OpenAre(chain)
        BY <1>1 DEF ApplyRead
    <2> QED
        BY <1>2, <2>1 DEF ApplyType, OpenAre
<1>4. CASE d = 1
    <2>1. s6 = {} /\ Apply!ToSet(<<>>) = {}
        BY <1>3, <1>4 DEF Apply!ToSet
    <2> QED
        BY <1>2, <1>3, <1>4, <2>1
<1>5. CASE d # 1
    <2> DEFINE saved == Apply!Front(s4)
               list == <<s2>> \o saved
    <2>1. d - 1 \in Nat /\ d - 2 \in Nat /\ (d - 1) - 1 = d - 2
        BY <1>3, <1>5
    <2>2. /\ saved \in Seq(Nat) /\ Len(saved) = d - 2
          /\ \A k \in 1 .. d - 2 : saved[k] = s4[k]
        <3>1. \A k \in 1 .. d - 2 : s4[k] \in Nat
            BY <1>3, <2>1
        <3>2. SubSeq(s4, 1, d - 2) = [k \in 1 .. d - 2 |-> s4[k]]
            BY <1>3, <2>1
        <3>3. saved = SubSeq(s4, 1, d - 2)
            BY <1>3, <2>1 DEF Apply!Front
        <3> QED
            BY <2>1, <3>1, <3>2, <3>3
    <2> HIDE DEF saved
    <2>3. /\ list \in Seq(Nat) /\ Len(list) = d - 1 /\ list[1] = s2
          /\ \A k \in 1 .. d - 2 : list[k + 1] = s4[k]
        <3>1. d - 2 + 1 = d - 1
            BY <2>1
        <3> QED
            BY <1>3, <2>2, <3>1, PushedOn
    <2> HIDE DEF list
    <2>4. \A k \in 2 .. d : d - k + 1 \in DOMAIN list /\ list[d - k + 1] = chain[k]
        <3> TAKE k \in 2 .. d
        <3>1. d - k + 1 \in 1 .. d - 1
            BY <1>3
        <3>2. CASE k = d
            <4>1. d - k + 1 = 1
                BY <1>3, <3>2
            <4> QED
                BY <1>3, <2>3, <3>1, <3>2, <4>1
        <3>3. CASE k # d
            <4>1. d - k \in 1 .. d - 2 /\ k \in 1 .. d - 1
                BY <1>3, <3>3
            <4>2. s4[d - k] = chain[k]
                BY <1>3, <4>1
            <4>3. list[d - k + 1] = s4[d - k]
                BY <2>3, <4>1
            <4>4. d - k + 1 \in DOMAIN list
                BY <2>3, <3>1
            <4> QED
                BY <4>2, <4>3, <4>4
        <3> QED
            BY <3>2, <3>3
    <2>5. \A m \in DOMAIN list : \E k \in 2 .. d : m = d - k + 1
        <3> TAKE m \in DOMAIN list
        <3>1. m \in 1 .. d - 1
            BY <2>3
        <3>2. d - m + 1 \in 2 .. d /\ m = d - (d - m + 1) + 1
            BY <1>3, <3>1
        <3> QED
            BY <3>2
    <2>6. {list[m] : m \in DOMAIN list} = {chain[k] : k \in 2 .. d}
        BY <2>4, <2>5
    <2>7. s6 = Apply!ToSet(list)
        BY <1>3, <2>6 DEF Apply!ToSet
    <2> QED
        BY <1>2, <1>3, <1>5, <2>7 DEF list, saved
<1> QED
    BY <1>4, <1>5
=============================================================================
