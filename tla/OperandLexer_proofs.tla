------------------------ MODULE OperandLexer_proofs ------------------------
(***************************************************************************)
(* What the lexer keeps of a list it reads: the position of what it reads  *)
(* next, however much was looked at and pushed back; tokens that stand     *)
(* behind each other and leave out only what is white; and the offset      *)
(* where an operand begins, without which the process is aborted.          *)
(***************************************************************************)
EXTENDS OperandLexer, FiniteSetTheorems, SequenceTheorems, WellFoundedInduction, TLAPS

-----------------------------------------------------------------------------
(* Loops. *)

\* What holds at 0 and is passed on at every step holds at every step.
LEMMA PassedOn ==
    ASSUME NEW n \in Nat, NEW Held, 0 \in Held,
           \A k \in 1 .. n : k - 1 \in Held => k \in Held
    PROVE  \A k \in 0 .. n : k \in Held
<1> DEFINE Bad == {k \in 0 .. n : k \notin Held}
<1> SUFFICES ASSUME Bad # {} PROVE FALSE
    OBVIOUS
<1>1. Bad \subseteq Nat
    OBVIOUS
<1>2. PICK k \in Bad : \A m \in Bad : ~(<<m, k>> \in OpToRel(<, Nat))
    BY <1>1, WFMin, NatLessThanWellFounded
<1>3. \A m \in Bad : ~(m < k)
    BY <1>1, <1>2 DEF OpToRel
<1>4. k \in 1 .. n /\ k - 1 \in 0 .. n /\ k - 1 < k
    <2>1. k \in 0 .. n /\ k \notin Held
        BY <1>2
    <2>2. k # 0
        BY <2>1
    <2> QED
        BY <2>1, <2>2
<1>5. k - 1 \in Held
    BY <1>3, <1>4
<1> QED
    BY <1>2, <1>4, <1>5

\* The same, from the last step to the first.
LEMMA PassedBack ==
    ASSUME NEW n \in Nat, NEW Held, n \in Held,
           \A k \in 1 .. n : k \in Held => k - 1 \in Held
    PROVE  \A k \in 0 .. n : k \in Held
<1> DEFINE Turned == {k \in 0 .. n : n - k \in Held}
<1>1. 0 \in Turned
    OBVIOUS
<1>2. \A k \in 1 .. n : k - 1 \in Turned => k \in Turned
    <2> TAKE k \in 1 .. n
    <2> HAVE k - 1 \in Turned
    <2>1. n - (k - 1) \in 1 .. n /\ n - (k - 1) \in Held /\ (n - (k - 1)) - 1 = n - k
        OBVIOUS
    <2>2. n - k \in Held /\ k \in 0 .. n
        BY <2>1
    <2> QED
        BY <2>2
<1>3. \A k \in 0 .. n : k \in Turned
    <2> HIDE DEF Turned
    <2> QED
        BY <1>1, <1>2, PassedOn
<1> QED
    <2> TAKE k \in 0 .. n
    <2>1. n - k \in 0 .. n /\ n - (n - k) = k
        OBVIOUS
    <2>2. n - k \in Turned
        BY <2>1, <1>3
    <2> QED
        BY <2>1, <2>2

\* A finite set of numbers up to n, with 0 in it, has a largest one.
LEMMA MaxExists ==
    ASSUME NEW n \in Nat, NEW S \in SUBSET (0 .. n), 0 \in S
    PROVE  Max(S) \in S /\ \A x \in S : Max(S) >= x
<1> DEFINE Above == {k \in Nat : \A x \in S : x <= k}
<1>1. n \in Above /\ Above \subseteq Nat
    OBVIOUS
<1>2. PICK k \in Above : \A m \in Above : ~(<<m, k>> \in OpToRel(<, Nat))
    BY <1>1, WFMin, NatLessThanWellFounded
<1>3. \A m \in Above : ~(m < k)
    BY <1>1, <1>2 DEF OpToRel
<1>4. k \in S
    <2> SUFFICES ASSUME k \notin S PROVE FALSE
        OBVIOUS
    <2>1. k \in Nat /\ k # 0 /\ \A x \in S : x \in Nat /\ x < k
        OBVIOUS
    <2>2. k - 1 \in Above /\ k - 1 < k
        BY <2>1
    <2> QED
        BY <1>3, <2>2
<1>5. k \in S /\ \A x \in S : k >= x
    BY <1>4
<1> QED
    BY <1>5 DEF Max

\* A set of numbers has a smallest one.
LEMMA MinExists ==
    ASSUME NEW S \in SUBSET Nat, S # {}
    PROVE  Min(S) \in S /\ \A x \in S : Min(S) <= x
<1>1. PICK k \in S : \A m \in S : ~(<<m, k>> \in OpToRel(<, Nat))
    BY WFMin, NatLessThanWellFounded
<1>2. \A m \in S : ~(m < k)
    BY <1>1 DEF OpToRel
<1>3. \A x \in S : k <= x
    <2> TAKE x \in S
    <2>1. x \in Nat /\ k \in Nat /\ ~(x < k)
        BY <1>2
    <2> QED
        BY <2>1
<1> QED
    BY <1>1, <1>3 DEF Min

-----------------------------------------------------------------------------
(* Positions. *)

\* The lines that end before an offset, and the position there.
EndsIn(text, o) == {i \in 1 .. o : text[i] = "\n"}
LineIn(text, o) == 1 + Cardinality(EndsIn(text, o))
ColumnIn(text, o) == 1 + o - Max(EndsIn(text, o) \cup {0})
PlaceIn(text, o) == [line |-> LineIn(text, o), column |-> ColumnIn(text, o), offset |-> o]
\* The state of the location when the characters up to an offset were read, and
\* none was taken back for good.
LocIn(text, o, last) ==
    [line |-> LineIn(text, o), column |-> ColumnIn(text, o), offset |-> o,
     last_token_offset |-> last, history |-> [n \in 1 .. o |-> PlaceIn(text, n - 1)]]

\* One offset further there is one line end more, if the character is one.
LEMMA NextLine ==
    ASSUME NEW text, NEW o \in Nat
    PROVE  /\ LineIn(text, o) \in Nat
           /\ LineIn(text, o + 1) =
                IF text[o + 1] = "\n" THEN LineIn(text, o) + 1 ELSE LineIn(text, o)
<1>1. EndsIn(text, o) \subseteq 1 .. o /\ IsFiniteSet(1 .. o)
    BY FS_Interval DEF EndsIn
<1>2. IsFiniteSet(EndsIn(text, o))
    BY <1>1, FS_Subset
<1>3. Cardinality(EndsIn(text, o)) \in Nat
    BY <1>2, FS_CardinalityType
<1>4. CASE text[o + 1] = "\n"
    <2>1. EndsIn(text, o + 1) = EndsIn(text, o) \cup {o + 1}
        BY <1>4 DEF EndsIn
    <2>2. o + 1 \notin EndsIn(text, o)
        BY DEF EndsIn
    <2>3. Cardinality(EndsIn(text, o + 1)) = Cardinality(EndsIn(text, o)) + 1
        BY <1>2, <2>1, <2>2, FS_AddElement
    <2> QED
        BY <1>3, <1>4, <2>3 DEF LineIn
<1>5. CASE text[o + 1] # "\n"
    <2>1. EndsIn(text, o + 1) = EndsIn(text, o)
        BY <1>5 DEF EndsIn
    <2> QED
        BY <1>3, <1>5, <2>1 DEF LineIn
<1> QED
    BY <1>4, <1>5

\* One offset further the column is one more, or the first behind a line end.
LEMMA NextColumn ==
    ASSUME NEW text, NEW o \in Nat
    PROVE  /\ ColumnIn(text, o) \in Nat
           /\ ColumnIn(text, o + 1) =
                IF text[o + 1] = "\n" THEN 1 ELSE ColumnIn(text, o) + 1
<1> DEFINE S == EndsIn(text, o) \cup {0}
           T == EndsIn(text, o + 1) \cup {0}
<1>1. S \in SUBSET (0 .. o) /\ 0 \in S
    BY DEF EndsIn
<1>2. Max(S) \in 0 .. o
    BY <1>1, MaxExists
<1>3. CASE text[o + 1] = "\n"
    <2>1. T \in SUBSET (0 .. o + 1) /\ 0 \in T /\ o + 1 \in T
        BY <1>3 DEF EndsIn
    <2>2. Max(T) \in T /\ \A x \in T : Max(T) >= x
        <3> HIDE DEF T
        <3>1. o + 1 \in Nat
            OBVIOUS
        <3> QED
            BY <2>1, <3>1, MaxExists
    <2>3. Max(T) = o + 1
        <3> DEFINE m == Max(T)
        <3>1. m \in T /\ \A x \in T : m >= x
            BY <2>2
        <3> HIDE DEF m
        <3>2. m >= o + 1 /\ m \in 0 .. o + 1
            BY <2>1, <3>1
        <3>3. m = o + 1
            BY <3>2
        <3> QED
            BY <3>3 DEF m
    <2>4. ColumnIn(text, o + 1) = 1 + (o + 1) - Max(T)
        BY DEF ColumnIn
    <2>5. ColumnIn(text, o) = 1 + o - Max(S)
        BY DEF ColumnIn
    <2> HIDE DEF S, T
    <2> QED
        BY <1>2, <1>3, <2>3, <2>4, <2>5
<1>4. CASE text[o + 1] # "\n"
    <2>1. T = S
        BY <1>4 DEF EndsIn
    <2>2. ColumnIn(text, o + 1) = 1 + (o + 1) - Max(T)
        BY DEF ColumnIn
    <2>3. ColumnIn(text, o) = 1 + o - Max(S)
        BY DEF ColumnIn
    <2> HIDE DEF S, T
    <2> QED
        BY <1>2, <1>4, <2>1, <2>2, <2>3
<1> QED
    BY <1>3, <1>4

Place == [line : Nat, column : Nat, offset : Nat]
Location ==
    [line : Nat, column : Nat, offset : Nat, last_token_offset : Nat, history : Seq(Place)]

\* The location of an offset has the type of locations.
LEMMA LocType ==
    ASSUME NEW text, NEW o \in Nat, NEW last \in Nat
    PROVE  LocIn(text, o, last) \in Location
<1>1. \A k \in Nat : PlaceIn(text, k) \in Place
    BY NextLine, NextColumn DEF PlaceIn, Place
<1>2. \A n \in 1 .. o : PlaceIn(text, n - 1) \in Place
    BY <1>1
<1>3. [n \in 1 .. o |-> PlaceIn(text, n - 1)] \in Seq(Place)
    BY <1>2
<1> QED
    BY <1>3, NextLine, NextColumn DEF LocIn, Location

\* Two locations with equal fields are equal.
LEMMA SameFields ==
    ASSUME NEW a \in Location, NEW b \in Location,
           a.line = b.line, a.column = b.column, a.offset = b.offset,
           a.last_token_offset = b.last_token_offset, a.history = b.history
    PROVE  a = b
BY DEF Location

\* Reading one more character.
LEMMA AdvanceIs ==
    ASSUME NEW text, NEW o \in Nat, NEW last \in Nat
    PROVE  Advance(LocIn(text, o, last), text[o + 1]) = LocIn(text, o + 1, last)
<1> DEFINE l == LocIn(text, o, last)
           m == LocIn(text, o + 1, last)
           h == [n \in 1 .. o |-> PlaceIn(text, n - 1)]
           c == text[o + 1]
           place == PlaceIn(text, o)
<1>1. /\ l.line = LineIn(text, o) /\ l.column = ColumnIn(text, o) /\ l.offset = o
      /\ l.last_token_offset = last /\ l.history = h
    BY DEF LocIn
<1>2. /\ m.line = LineIn(text, o + 1) /\ m.column = ColumnIn(text, o + 1)
      /\ m.offset = o + 1 /\ m.last_token_offset = last
      /\ m.history = [n \in 1 .. o + 1 |-> PlaceIn(text, n - 1)]
    BY DEF LocIn
<1>3. Position(l) = place
    BY <1>1 DEF Position, PlaceIn
<1>4. place \in Place
    BY NextLine, NextColumn DEF PlaceIn, Place
<1>5. Append(h, place) = m.history
    <2>1. place = PlaceIn(text, (o + 1) - 1)
        OBVIOUS
    <2> HIDE DEF place
    <2>2. Len(h) = o
        OBVIOUS
    <2>3. Append(h, place) = [n \in 1 .. o + 1 |-> IF n = o + 1 THEN place ELSE h[n]]
        BY <2>2
    <2>4. \A n \in 1 .. o + 1 : (IF n = o + 1 THEN place ELSE h[n]) = PlaceIn(text, n - 1)
        BY <2>1
    <2> QED
        BY <1>2, <2>3, <2>4
<1>6. l \in Location /\ m \in Location
    BY LocType
<1>7. /\ m.line = IF c = "\n" THEN l.line + 1 ELSE l.line
      /\ m.column = IF c = "\n" THEN 1 ELSE l.column + 1
    <2>1. LineIn(text, o + 1) = IF c = "\n" THEN LineIn(text, o) + 1 ELSE LineIn(text, o)
        BY NextLine
    <2>2. ColumnIn(text, o + 1) = IF c = "\n" THEN 1 ELSE ColumnIn(text, o) + 1
        BY NextColumn
    <2> HIDE DEF l, m, c
    <2> QED
        BY <1>1, <1>2, <2>1, <2>2
<1> HIDE DEF l, m, h, c, place
<1>8. /\ Advance(l, c) \in Location
      /\ Advance(l, c).line = IF c = "\n" THEN l.line + 1 ELSE l.line
      /\ Advance(l, c).column = IF c = "\n" THEN 1 ELSE l.column + 1
      /\ Advance(l, c).offset = l.offset + 1
      /\ Advance(l, c).last_token_offset = l.last_token_offset
      /\ Advance(l, c).history = Append(l.history, place)
    <2>1. Append(l.history, place) \in Seq(Place)
        BY <1>4, <1>6 DEF Location
    <2> DEFINE longer == Append(l.history, place)
               line == IF c = "\n" THEN l.line + 1 ELSE l.line
               column == IF c = "\n" THEN 1 ELSE l.column + 1
               behind == l.offset + 1
    <2>2. Advance(l, c) = [l EXCEPT !.history = longer, !.line = line,
                                    !.column = column, !.offset = behind]
        BY <1>3, <1>6 DEF Advance, Location
    <2>3. longer \in Seq(Place) /\ line \in Nat /\ column \in Nat /\ behind \in Nat
        BY <1>6, <2>1 DEF longer, Location
    <2> HIDE DEF longer, line, column, behind
    <2>4. /\ Advance(l, c) \in Location
          /\ Advance(l, c).line = line /\ Advance(l, c).column = column
          /\ Advance(l, c).offset = behind /\ Advance(l, c).history = longer
          /\ Advance(l, c).last_token_offset = l.last_token_offset
        BY <1>6, <2>2, <2>3 DEF Location
    <2> QED
        BY <2>4 DEF longer, line, column, behind
<1>9. Advance(l, c) = m
    BY <1>1, <1>2, <1>5, <1>6, <1>7, <1>8, SameFields
<1> QED
    BY <1>9 DEF l, m, c

\* Taking the last one back.
LEMMA RewindIs ==
    ASSUME NEW text, NEW o \in Nat \ {0}, NEW last \in Nat, NEW c
    PROVE  RewindLexerPositionForUnput(LocIn(text, o, last), c) = LocIn(text, o - 1, last)
<1> DEFINE l == LocIn(text, o, last)
           m == LocIn(text, o - 1, last)
           h == [n \in 1 .. o |-> PlaceIn(text, n - 1)]
           r == RewindLexerPositionForUnput(l, c)
           place == PlaceIn(text, o - 1)
<1>1. l.history = h /\ l.last_token_offset = last
    BY DEF LocIn
<1>2. /\ m.line = place.line /\ m.column = place.column /\ m.offset = place.offset
      /\ m.last_token_offset = last
      /\ m.history = [n \in 1 .. o - 1 |-> PlaceIn(text, n - 1)]
    BY DEF LocIn, PlaceIn
<1>3. Len(h) = o /\ h[o] = place
    OBVIOUS
<1>4. SubSeq(h, 1, o - 1) = m.history
    BY <1>2
<1>5. l \in Location /\ m \in Location /\ place \in Place
    <2>1. o - 1 \in Nat
        OBVIOUS
    <2> QED
        BY <2>1, LocType, NextLine, NextColumn DEF PlaceIn, Place
<1> HIDE DEF l, m, h, place
<1>6. /\ r \in Location
      /\ r.line = place.line /\ r.column = place.column /\ r.offset = place.offset
      /\ r.last_token_offset = last /\ r.history = SubSeq(h, 1, o - 1)
    <2>1. m.history \in Seq(Place)
        BY <1>5 DEF Location
    <2>2. l.history = h /\ SubSeq(h, 1, Len(h) - 1) \in Seq(Place)
        BY <1>1, <1>3, <1>4, <2>1
    <2> QED
        BY <1>1, <1>3, <1>5, <2>2 DEF RewindLexerPositionForUnput, Location, Place
<1>7. r = m
    BY <1>2, <1>4, <1>5, <1>6, SameFields
<1> QED
    BY <1>7 DEF l, m

\* Reading several.
LEMMA AdvancedIs ==
    ASSUME NEW text, NEW o \in Nat, NEW last \in Nat, NEW part, Len(part) \in Nat,
           \A i \in 1 .. Len(part) : part[i] = text[o + i]
    PROVE  Advanced(LocIn(text, o, last), part) = LocIn(text, o + Len(part), last)
<1> DEFINE n == Len(part)
           l == LocIn(text, o, last)
           IsLoop(f) == f = [i \in 0 .. n |-> IF i = 0 THEN l ELSE Advance(f[i - 1], part[i])]
           g == [i \in 0 .. n |-> LocIn(text, o + i, last)]
           behind == CHOOSE f : IsLoop(f)
<1>1. \A i \in 1 .. n : Advance(LocIn(text, o + (i - 1), last), part[i])
                        = LocIn(text, o + i, last)
    <2> TAKE i \in 1 .. n
    <2>1. o + (i - 1) \in Nat /\ (o + (i - 1)) + 1 = o + i
        OBVIOUS
    <2>2. Advance(LocIn(text, o + (i - 1), last), text[(o + (i - 1)) + 1])
          = LocIn(text, (o + (i - 1)) + 1, last)
        BY <2>1, AdvanceIs
    <2> QED
        BY <2>1, <2>2
<1>2. IsLoop(g)
    <2>1. \A i \in 0 .. n : g[i] = IF i = 0 THEN l ELSE Advance(g[i - 1], part[i])
        <3> TAKE i \in 0 .. n
        <3>1. CASE i = 0
            BY <3>1
        <3>2. CASE i # 0
            <4>1. i \in 1 .. n /\ i - 1 \in 0 .. n
                BY <3>2
            <4>2. g[i - 1] = LocIn(text, o + (i - 1), last)
                BY <4>1
            <4> QED
                BY <1>1, <3>2, <4>1, <4>2
        <3> QED
            BY <3>1, <3>2
    <2> QED
        BY <2>1
<1>3. IsLoop(behind)
    <2> HIDE DEF IsLoop
    <2> QED
        BY <1>2
<1>4. Advanced(l, part) = behind[n]
    BY DEF Advanced
<1>5. behind[0] = l /\ \A i \in 1 .. n : behind[i] = Advance(behind[i - 1], part[i])
    <2> HIDE DEF behind, n, l
    <2>1. n \in Nat
        BY DEF n
    <2> QED
        BY <1>3, <2>1
<1> DEFINE Held == {i \in 0 .. n : behind[i] = LocIn(text, o + i, last)}
<1>6. 0 \in Held
    BY <1>5
<1>7. ASSUME NEW k \in 1 .. n, k - 1 \in Held PROVE k \in Held
    <2> HIDE DEF behind, l
    <2> QED
        BY <1>1, <1>5, <1>7
<1>8. n \in Held
    <2> HIDE DEF Held
    <2>1. n \in 0 .. n /\ n \in Nat
        OBVIOUS
    <2> HIDE DEF n
    <2> QED
        BY <1>6, <1>7, <2>1, PassedOn
<1> QED
    BY <1>4, <1>8
-----------------------------------------------------------------------------
(* What is read next. *)

F == "FIRSTPRIVATE_STATE"
E == "EXPR_STATE"
Offset == location.offset
Unseen == Len(original_input) - Offset

Counters == [local : Int, global : Int, bracket : Int, brace : Int, ternary : Int]
Literal ==
    [inside : BOOLEAN, active : Quote \cup {"none"}, escape : BOOLEAN, raw : BOOLEAN,
     body : BOOLEAN, delimiter : Seq(Letters)]
Kinds == {"operand", "(", ")", ":", ","} \cup Word
LexerType ==
    /\ original_input \in Seq(Letters) /\ more \in Nat
    /\ rest \in Seq(Letters \cup {End})
    /\ states \in {<<>>, <<F>>, <<F, E>>}
    /\ current_string \in Seq(Letters)
    /\ counters \in Counters /\ quote \in Literal
    /\ expression_begin_offset \in Int
    /\ tokens \in Seq([kind : Kinds, begin : Nat, end : Nat])
    /\ status \in {"running", "ended", "aborted"}

\* The location is that of an offset into the text, and the rest of the text is
\* what flex reads next; at the end of it stands the end of input.
PlaceInv ==
    /\ Offset \in 0 .. Len(original_input) /\ location.last_token_offset \in Nat
    /\ location = LocIn(original_input, Offset, location.last_token_offset)
    /\ Len(rest) \in {Unseen, Unseen + 1}
    /\ \A i \in 1 .. Unseen : rest[i] = original_input[Offset + i]
    /\ Len(rest) = Unseen + 1 => rest[Unseen + 1] = End

\* A step reads n characters, or none.
Goes(n) ==
    /\ n \in 1 .. Unseen
    /\ location' = LocIn(original_input, Offset + n, Offset)
    /\ rest' = SubSeq(rest, n + 1, Len(rest))
    /\ UNCHANGED <<original_input, more>>
Stays ==
    /\ location' = LocIn(original_input, Offset, Offset)
    /\ UNCHANGED <<rest, original_input, more>>

\* Such a step keeps the place.
LEMMA PlaceKept ==
    ASSUME LexerType, PlaceInv, NEW n \in Nat, Goes(n) \/ Stays
    PROVE  PlaceInv' /\ Offset' = IF Goes(n) THEN Offset + n ELSE Offset
<1>1. /\ original_input \in Seq(Letters) /\ Offset \in 0 .. Len(original_input)
      /\ Len(original_input) \in Nat /\ Offset \in Nat /\ original_input' = original_input
    BY DEF LexerType, PlaceInv, Goes, Stays
<1>2. CASE Goes(n)
    <2>1. n \in 1 .. Len(original_input) - Offset /\ Offset + n \in Nat
        BY <1>1, <1>2 DEF Goes, Unseen
    <2>2. location' = LocIn(original_input, Offset + n, Offset)
        BY <1>2 DEF Goes
    <2>3. location'.offset = Offset + n /\ location'.last_token_offset = Offset
        BY <2>2 DEF LocIn
    <2>4. Offset' = Offset + n /\ Unseen' = Unseen - n
        BY <1>1, <2>1, <2>3 DEF Offset, Unseen
    <2>5. rest \in Seq(Letters \cup {End}) /\ rest' = SubSeq(rest, n + 1, Len(rest))
          /\ Len(rest) \in {Unseen, Unseen + 1} /\ n \in 1 .. Unseen /\ Unseen \in Nat
        BY <1>1, <1>2 DEF LexerType, PlaceInv, Goes, Unseen
    <2>6. Len(rest') = Len(rest) - n /\ \A i \in 1 .. Len(rest') : rest'[i] = rest[n + i]
        BY <2>5
    <2>7. \A i \in 1 .. Unseen' : rest'[i] = original_input'[Offset' + i]
        <3> TAKE i \in 1 .. Unseen'
        <3>1. i \in 1 .. Len(rest') /\ n + i \in 1 .. Unseen
              /\ Offset + (n + i) = (Offset + n) + i
            BY <1>1, <2>1, <2>4, <2>5, <2>6
        <3>2. rest[n + i] = original_input[Offset + (n + i)]
            BY <3>1 DEF PlaceInv
        <3> QED
            BY <1>1, <2>4, <2>6, <3>1, <3>2
    <2>8. Len(rest') = Unseen' + 1 => rest'[Unseen' + 1] = End
        <3> SUFFICES ASSUME Len(rest') = Unseen' + 1 PROVE rest'[Unseen' + 1] = End
            OBVIOUS
        <3>1. Len(rest) = Unseen + 1 /\ Unseen' + 1 \in 1 .. Len(rest')
              /\ n + (Unseen' + 1) = Unseen + 1
            BY <2>1, <2>4, <2>5, <2>6
        <3>2. rest[Unseen + 1] = End
            BY <3>1 DEF PlaceInv
        <3> QED
            BY <2>6, <3>1, <3>2
    <2>9. location' = LocIn(original_input', Offset', location'.last_token_offset)
        BY <1>1, <2>2, <2>3, <2>4
    <2>10. /\ Offset' \in 0 .. Len(original_input') /\ location'.last_token_offset \in Nat
           /\ Len(rest') \in {Unseen', Unseen' + 1}
        BY <1>1, <2>1, <2>3, <2>4, <2>5, <2>6
    <2>11. PlaceInv'
        BY <2>7, <2>8, <2>9, <2>10 DEF PlaceInv
    <2> QED
        BY <1>2, <2>4, <2>11
<1>3. CASE Stays /\ ~Goes(n)
    <2>1. location' = LocIn(original_input, Offset, Offset) /\ rest' = rest
        BY <1>3 DEF Stays
    <2>2. location'.offset = Offset /\ location'.last_token_offset = Offset
        BY <2>1 DEF LocIn
    <2>3. Offset' = Offset /\ Unseen' = Unseen
        BY <1>1, <2>2 DEF Offset, Unseen
    <2>4. location' = LocIn(original_input', Offset', location'.last_token_offset)
        BY <1>1, <2>1, <2>2, <2>3
    <2>5. PlaceInv'
        BY <1>1, <2>1, <2>2, <2>3, <2>4 DEF PlaceInv
    <2> QED
        BY <1>3, <2>3, <2>5
<1> QED
    BY <1>2, <1>3

\* What is read next is text, unless it is the end.
LEMMA NextIsText ==
    ASSUME LexerAssumption, LexerType, PlaceInv
    PROVE  /\ Unseen \in Nat /\ Len(rest) \in Nat
           /\ \A i \in 1 .. Len(rest) :
                rest[i] # End <=> i \in 1 .. Unseen
<1>1. /\ original_input \in Seq(Letters) /\ Offset \in 0 .. Len(original_input)
      /\ rest \in Seq(Letters \cup {End})
    BY DEF LexerType, PlaceInv
<1>2. Unseen \in Nat /\ Len(rest) \in Nat /\ Offset \in Nat
    BY <1>1 DEF Unseen
<1>3. \A i \in 1 .. Unseen : rest[i] \in Letters
    BY <1>1 DEF Unseen, PlaceInv
<1>4. \A i \in 1 .. Unseen : rest[i] # End
    BY <1>3 DEF LexerAssumption
<1>5. \A i \in 1 .. Len(rest) : i \notin 1 .. Unseen => rest[i] = End
    <2> TAKE i \in 1 .. Len(rest)
    <2> HAVE i \notin 1 .. Unseen
    <2>1. Len(rest) = Unseen + 1 /\ i = Unseen + 1
        BY <1>2 DEF PlaceInv
    <2> QED
        BY <2>1 DEF PlaceInv
<1> QED
    BY <1>2, <1>4, <1>5

\* What a rule matches is read: the state behind it.
LEMMA HereIs ==
    ASSUME LexerAssumption, LexerType, PlaceInv, NEW state, Ready(state)
    PROVE  /\ Len(Matched) \in {1, 2} /\ Len(Matched) \in 1 .. Unseen
           /\ \A i \in 1 .. Len(Matched) : Matched[i] = original_input[Offset + i]
           /\ Here = LocIn(original_input, Offset + Len(Matched), Offset)
           /\ Len(Matched) = 2 =>
                /\ rest[1] = ":" /\ original_input[Offset + 2] = ":" /\ Top = E
                /\ Matched = <<":", ":">>
           /\ rest[1] = original_input[Offset + 1] /\ rest[1] \in Letters
<1> DEFINE last == location.last_token_offset
<1>1. /\ original_input \in Seq(Letters) /\ Offset \in 0 .. Len(original_input)
      /\ last \in Nat /\ rest \in Seq(Letters \cup {End}) /\ Len(rest) \in Nat
      /\ Offset \in Nat
    BY DEF LexerType, PlaceInv
<1>2. rest # <<>> /\ rest[1] # End /\ Len(rest) >= 1
    BY <1>1 DEF Ready, Decided
<1>3. 1 \in 1 .. Unseen /\ Unseen \in Nat
    BY <1>1, <1>2, NextIsText
<1>4. rest[1] = original_input[Offset + 1] /\ rest[1] \in Letters
    BY <1>1, <1>2, <1>3 DEF PlaceInv, Unseen
<1>5. ASSUME Len(Matched) \in 1 .. Unseen,
             \A i \in 1 .. Len(Matched) : Matched[i] = original_input[Offset + i]
      PROVE  Here = LocIn(original_input, Offset + Len(Matched), Offset)
    <2> DEFINE n == Len(Matched)
               read == LocIn(original_input, Offset + n, last)
               done == LocIn(original_input, Offset + n, Offset)
    <2>1. location = LocIn(original_input, Offset, last) /\ location.offset = Offset
        BY DEF PlaceInv, Offset
    <2>2. n \in Nat /\ Offset + n \in Nat
        BY <1>1, <1>5
    <2>3. Advanced(location, Matched) = read
        <3> HIDE DEF last
        <3> QED
            BY <1>1, <1>5, <2>1, <2>2, AdvancedIs
    <2>4. Here = [read EXCEPT !.last_token_offset = Offset]
        BY <2>1, <2>3 DEF Here, UpdateTokenLocation
    <2>5. read \in Location /\ done \in Location
        BY <1>1, <2>2, LocType
    <2>6. /\ read.line = done.line /\ read.column = done.column /\ read.offset = done.offset
          /\ read.history = done.history /\ done.last_token_offset = Offset
        BY DEF LocIn
    <2> HIDE DEF read, done, last
    <2>7. /\ Here \in Location /\ Here.line = read.line /\ Here.column = read.column
          /\ Here.offset = read.offset /\ Here.history = read.history
          /\ Here.last_token_offset = Offset
        BY <1>1, <2>4, <2>5 DEF Location
    <2>8. Here = done
        BY <2>5, <2>6, <2>7, SameFields
    <2> QED
        BY <2>8 DEF done
<1>6. CASE Top = "EXPR_STATE" /\ OccursAt(<<":", ":">>, rest, 1)
    <2>1. Matched = <<":", ":">>
        BY <1>6 DEF Matched
    <2>2. Len(rest) >= 2 /\ SubSeq(rest, 1, 2) = <<":", ":">>
        BY <1>1, <1>6 DEF OccursAt
    <2>3. rest[1] = ":" /\ rest[2] = ":"
        <3>1. SubSeq(rest, 1, 2)[1] = rest[1] /\ SubSeq(rest, 1, 2)[2] = rest[2]
            BY <1>1, <2>2
        <3>2. <<":", ":">>[1] = ":" /\ <<":", ":">>[2] = ":"
            OBVIOUS
        <3> QED
            BY <2>2, <3>1, <3>2
    <2>4. 2 \in 1 .. Unseen /\ original_input[Offset + 2] = ":"
        <3>1. rest[2] # End
            BY <2>3 DEF End
        <3>2. 2 \in 1 .. Unseen
            <4>1. 2 \in 1 .. Len(rest)
                BY <1>1, <2>2
            <4> QED
                BY <3>1, <4>1, NextIsText
        <3> QED
            BY <2>3, <3>2 DEF PlaceInv
    <2>5. Len(Matched) = 2 /\ Matched[1] = ":" /\ Matched[2] = ":"
        BY <2>1
    <2>6. Len(Matched) \in 1 .. Unseen
        BY <2>4, <2>5
    <2>7. \A i \in 1 .. Len(Matched) : Matched[i] = original_input[Offset + i]
        <3> TAKE i \in 1 .. Len(Matched)
        <3>1. i = 1 \/ i = 2
            BY <2>5
        <3> QED
            BY <1>4, <2>3, <2>4, <2>5, <3>1
    <2> QED
        BY <1>4, <1>5, <1>6, <2>1, <2>3, <2>4, <2>5, <2>6, <2>7 DEF E
<1>7. CASE ~(Top = "EXPR_STATE" /\ OccursAt(<<":", ":">>, rest, 1))
    <2>1. Matched = SubSeq(rest, 1, 1)
        BY <1>7 DEF Matched
    <2>2. Len(Matched) = 1 /\ Matched[1] = rest[1]
        BY <1>1, <1>2, <2>1
    <2>3. Len(Matched) \in 1 .. Unseen
          /\ \A i \in 1 .. Len(Matched) : Matched[i] = original_input[Offset + i]
        BY <1>3, <1>4, <2>2
    <2> QED
        BY <1>4, <1>5, <2>2, <2>3
<1> QED
    BY <1>6, <1>7

\* A rule that keeps what it matched ...
LEMMA ConsumeIs ==
    ASSUME LexerAssumption, LexerType, PlaceInv, NEW state, Ready(state), Consume,
           UNCHANGED <<original_input, more>>
    PROVE  Goes(Len(Matched))
BY HereIs DEF Consume, Goes

\* ... and one that pushes its character back.
LEMMA UnputIs ==
    ASSUME LexerAssumption, LexerType, PlaceInv, NEW state, Ready(state), Len(Matched) = 1,
           location' = RewindLexerPositionForUnput(Here, rest[1]),
           UNCHANGED <<original_input, more, rest>>
    PROVE  Stays
<1>1. Here = LocIn(original_input, Offset + 1, Offset)
    BY HereIs
<1>2. Offset \in Nat /\ Offset + 1 \in Nat \ {0} /\ (Offset + 1) - 1 = Offset
    BY DEF PlaceInv, LexerType
<1>3. location' = LocIn(original_input, (Offset + 1) - 1, Offset)
    BY <1>1, <1>2, RewindIs
<1> QED
    BY <1>2, <1>3 DEF Stays

\* How far a word is looked behind: not beyond the text.
LEMMA PeekedIs ==
    ASSUME LexerAssumption, LexerType, PlaceInv, Ready(F), rest[1] \in Word
    PROVE  /\ Peeked \in Nat /\ Peeked + 1 <= Unseen
           /\ Len(LookAhead) = Peeked
           /\ \A i \in 1 .. Peeked :
                LookAhead[i] = rest[i + 1] /\ LookAhead[i] = original_input[Offset + 1 + i]
<1> DEFINE stops == {i \in 2 .. Len(rest) : rest[i] \in Stops} \cup {MaxPeek + 1}
           stop == Min(stops)
<1>1. /\ original_input \in Seq(Letters) /\ Offset \in Nat /\ Unseen \in Nat
      /\ rest \in Seq(Letters \cup {End}) /\ Len(rest) \in Nat /\ MaxPeek \in Nat \ {0}
    BY NextIsText DEF LexerType, PlaceInv, LexerAssumption
<1>2. stops \in SUBSET Nat /\ stops # {} /\ MaxPeek + 1 \in stops
    BY <1>1
<1>3. stop \in stops /\ \A x \in stops : stop <= x
    <2> HIDE DEF stops
    <2> QED
        BY <1>2, MinExists
<1>4. stop \in 2 .. Len(rest)
    <2>1. Len(rest) > MaxPeek + 1 \/ \E i \in 2 .. Len(rest) : rest[i] \in Stops
        BY DEF Ready, Decided, F
    <2>2. stop \in Nat /\ stop >= 2
        BY <1>1, <1>2, <1>3
    <2>3. stop <= MaxPeek + 1
        BY <1>2, <1>3
    <2>4. CASE Len(rest) > MaxPeek + 1
        <3> HIDE DEF stop
        <3> QED
            BY <1>1, <2>2, <2>3, <2>4
    <2>5. ASSUME NEW i \in 2 .. Len(rest), rest[i] \in Stops
          PROVE  stop \in 2 .. Len(rest)
        <3>1. stop <= i
            BY <1>3, <2>5
        <3> HIDE DEF stop
        <3> QED
            BY <1>1, <2>2, <3>1
    <2> QED
        BY <2>1, <2>4, <2>5
<1>5. At(rest, stop) = rest[stop]
    BY <1>1, <1>4 DEF At
<1>6. Peeked = IF rest[stop] = End THEN stop - 2 ELSE stop - 1
    BY <1>5 DEF Peeked
<1>7. IF rest[stop] = End THEN stop = Unseen + 1 ELSE stop \in 1 .. Unseen
    <2> HIDE DEF stop
    <2>1. stop \in 1 .. Len(rest) /\ Len(rest) \in {Unseen, Unseen + 1}
        BY <1>1, <1>4 DEF PlaceInv
    <2>2. rest[stop] # End <=> stop \in 1 .. Unseen
        BY <2>1, NextIsText
    <2> QED
        BY <1>1, <2>1, <2>2
<1>8. Peeked \in Nat /\ Peeked + 1 <= Unseen
    <2> HIDE DEF stop
    <2> QED
        BY <1>1, <1>4, <1>6, <1>7
<1>9. Peeked + 1 <= Len(rest)
    BY <1>1, <1>8 DEF PlaceInv
<1>10. Len(LookAhead) = Peeked /\ \A i \in 1 .. Peeked : LookAhead[i] = rest[i + 1]
    <2> DEFINE n == Peeked
    <2>1. LookAhead = SubSeq(rest, 2, n + 1) /\ n \in Nat /\ n + 1 <= Len(rest)
        BY <1>8, <1>9 DEF LookAhead
    <2> HIDE DEF n
    <2>2. Len(LookAhead) = n /\ \A i \in 1 .. n : LookAhead[i] = rest[i + 1]
        BY <1>1, <2>1
    <2> QED
        BY <2>2 DEF n
<1>11. \A i \in 1 .. Peeked : rest[i + 1] = original_input[Offset + 1 + i]
    <2> TAKE i \in 1 .. Peeked
    <2>1. i + 1 \in 1 .. Unseen /\ Offset + (i + 1) = Offset + 1 + i
        BY <1>1, <1>8
    <2> QED
        BY <2>1 DEF PlaceInv
<1> QED
    BY <1>8, <1>10, <1>11

\* After a word only the word is read, however much was looked at.
LEMMA PeekIs ==
    ASSUME LexerAssumption, LexerType, PlaceInv, Ready(F), rest[1] \in Word,
           location' = LookedAhead, rest' = PushedBack, UNCHANGED <<original_input, more>>
    PROVE  Goes(1)
<1> DEFINE n == Peeked
           from == Offset + 1
           IsBack(f) == f = [i \in 0 .. n |->
                IF i = n THEN Advanced(Here, LookAhead)
                ELSE RewindLexerPositionForUnput(f[i + 1], LookAhead[i + 1])]
           back == CHOOSE f : IsBack(f)
           g == [i \in 0 .. n |-> LocIn(original_input, from + i, Offset)]
           IsRest(f) == f = [i \in 0 .. n |->
                IF i = n THEN SubSeq(rest, n + 2, Len(rest))
                ELSE <<LookAhead[i + 1]>> \o f[i + 1]]
           again == CHOOSE f : IsRest(f)
           h == [i \in 0 .. n |-> SubSeq(rest, i + 2, Len(rest))]
<1>1. /\ n \in Nat /\ n + 1 <= Unseen /\ Len(LookAhead) = n
      /\ \A i \in 1 .. n :
            LookAhead[i] = rest[i + 1] /\ LookAhead[i] = original_input[from + i]
    BY PeekedIs
<1>2. /\ from \in Nat /\ Offset \in Nat /\ rest \in Seq(Letters \cup {End})
      /\ Len(rest) \in Nat /\ Unseen \in Nat /\ Unseen <= Len(rest)
    BY NextIsText DEF LexerType, PlaceInv
<1>3. Len(Matched) = 1
    BY HereIs DEF Ready, F, E
<1>4. Here = LocIn(original_input, from, Offset)
    BY <1>3, HereIs
<1>5. Advanced(Here, LookAhead) = LocIn(original_input, from + n, Offset)
    <2>1. Len(LookAhead) \in Nat
          /\ \A i \in 1 .. Len(LookAhead) : LookAhead[i] = original_input[from + i]
        BY <1>1
    <2> HIDE DEF n, from
    <2>2. Advanced(LocIn(original_input, from, Offset), LookAhead)
          = LocIn(original_input, from + Len(LookAhead), Offset)
        BY <1>2, <2>1, AdvancedIs
    <2> QED
        BY <1>1, <1>4, <2>2
<1>6. \A i \in 0 .. n - 1 :
        RewindLexerPositionForUnput(LocIn(original_input, from + (i + 1), Offset),
                                    LookAhead[i + 1])
        = LocIn(original_input, from + i, Offset)
    <2> TAKE i \in 0 .. n - 1
    <2>1. from + (i + 1) \in Nat \ {0} /\ (from + (i + 1)) - 1 = from + i
        BY <1>1, <1>2
    <2> HIDE DEF from
    <2>2. RewindLexerPositionForUnput(LocIn(original_input, from + (i + 1), Offset),
                                      LookAhead[i + 1])
          = LocIn(original_input, (from + (i + 1)) - 1, Offset)
        BY <1>2, <2>1, RewindIs
    <2> QED
        BY <2>1, <2>2
<1>7. IsBack(g)
    <2>1. \A i \in 0 .. n :
            g[i] = IF i = n THEN Advanced(Here, LookAhead)
                   ELSE RewindLexerPositionForUnput(g[i + 1], LookAhead[i + 1])
        <3> TAKE i \in 0 .. n
        <3>1. CASE i = n
            BY <1>5, <3>1
        <3>2. CASE i # n
            <4>1. i \in 0 .. n - 1 /\ i + 1 \in 0 .. n
                BY <1>1, <3>2
            <4>2. g[i + 1] = LocIn(original_input, from + (i + 1), Offset)
                BY <4>1
            <4> QED
                BY <1>6, <3>2, <4>1, <4>2
        <3> QED
            BY <3>1, <3>2
    <2> QED
        BY <2>1
<1>8. IsBack(back)
    <2> HIDE DEF IsBack
    <2> QED
        BY <1>7
<1>9. LookedAhead = back[0]
    BY DEF LookedAhead
<1>10. /\ back[n] = Advanced(Here, LookAhead)
       /\ \A i \in 0 .. n - 1 :
            back[i] = RewindLexerPositionForUnput(back[i + 1], LookAhead[i + 1])
    <2> HIDE DEF back, n
    <2> QED
        BY <1>1, <1>8
<1> DEFINE Held == {i \in 0 .. n : back[i] = LocIn(original_input, from + i, Offset)}
<1>11. back[0] = LocIn(original_input, from, Offset)
    <2>1. n \in Held
        <3> HIDE DEF back, n, from
        <3> QED
            BY <1>1, <1>5, <1>10
    <2>2. \A k \in 1 .. n : k \in Held => k - 1 \in Held
        <3> TAKE k \in 1 .. n
        <3> HAVE k \in Held
        <3>1. k - 1 \in 0 .. n - 1 /\ (k - 1) + 1 = k /\ k - 1 \in 0 .. n
            BY <1>1
        <3>2. back[k - 1] = RewindLexerPositionForUnput(back[k], LookAhead[k])
            <4> HIDE DEF back, n
            <4> QED
                BY <1>10, <3>1
        <3>3. back[k] = LocIn(original_input, from + k, Offset)
            OBVIOUS
        <3>4. back[k - 1] = LocIn(original_input, from + (k - 1), Offset)
            <4> HIDE DEF back, n, from
            <4> QED
                BY <1>6, <3>1, <3>2, <3>3
        <3> HIDE DEF back, n, from
        <3> QED
            BY <3>1, <3>4
    <2>3. 0 \in Held
        <3> HIDE DEF Held, n
        <3> QED
            BY <1>1, <2>1, <2>2, PassedBack
    <2>4. back[0] = LocIn(original_input, from + 0, Offset)
        BY <2>3
    <2>5. from + 0 = from
        BY <1>2
    <2> QED
        BY <2>4, <2>5
<1>12. \A i \in 0 .. n - 1 :
        <<LookAhead[i + 1]>> \o SubSeq(rest, i + 3, Len(rest)) = SubSeq(rest, i + 2, Len(rest))
    <2> TAKE i \in 0 .. n - 1
    <2>1. LookAhead[i + 1] = rest[i + 2]
        <3>1. i + 1 \in 1 .. n /\ (i + 1) + 1 = i + 2
            BY <1>1
        <3> QED
            BY <1>1, <3>1
    <2>2. i + 2 \in 1 .. Len(rest)
        BY <1>1, <1>2
    <2>3. SubSeq(rest, i + 2, Len(rest))
          = <<rest[i + 2]>> \o SubSeq(rest, (i + 2) + 1, Len(rest))
        BY <1>2, <2>2, SubSeqRecursiveFirst
    <2> QED
        BY <2>1, <2>3
<1>13. IsRest(h)
    <2>1. \A i \in 0 .. n :
            h[i] = IF i = n THEN SubSeq(rest, n + 2, Len(rest))
                   ELSE <<LookAhead[i + 1]>> \o h[i + 1]
        <3> TAKE i \in 0 .. n
        <3>1. CASE i = n
            BY <3>1
        <3>2. CASE i # n
            <4>1. i \in 0 .. n - 1 /\ i + 1 \in 0 .. n
                BY <1>1, <3>2
            <4>2. h[i + 1] = SubSeq(rest, i + 3, Len(rest))
                BY <4>1
            <4> QED
                BY <1>12, <3>2, <4>1, <4>2
        <3> QED
            BY <3>1, <3>2
    <2> QED
        BY <2>1
<1>14. IsRest(again)
    <2> HIDE DEF IsRest
    <2> QED
        BY <1>13
<1>15. PushedBack = again[0]
    BY DEF PushedBack
<1>16. /\ again[n] = SubSeq(rest, n + 2, Len(rest))
       /\ \A i \in 0 .. n - 1 : again[i] = <<LookAhead[i + 1]>> \o again[i + 1]
    <2> DEFINE one(i) == IF i = n THEN SubSeq(rest, n + 2, Len(rest))
                         ELSE <<LookAhead[i + 1]>> \o again[i + 1]
    <2>1. again = [i \in 0 .. n |-> one(i)]
        BY <1>14
    <2>2. one(n) = SubSeq(rest, n + 2, Len(rest))
        OBVIOUS
    <2>3. \A i \in 0 .. n - 1 : one(i) = <<LookAhead[i + 1]>> \o again[i + 1]
        <3> HIDE DEF again, n
        <3> QED
            BY <1>1
    <2>4. n \in 0 .. n /\ \A i \in 0 .. n - 1 : i \in 0 .. n
        <3> HIDE DEF n
        <3> QED
            BY <1>1
    <2> HIDE DEF again, n, one
    <2>5. again[n] = one(n) /\ \A i \in 0 .. n - 1 : again[i] = one(i)
        BY <2>1, <2>4
    <2> QED
        BY <2>2, <2>3, <2>5
<1> DEFINE Rest == {i \in 0 .. n : again[i] = SubSeq(rest, i + 2, Len(rest))}
<1>17. again[0] = SubSeq(rest, 2, Len(rest))
    <2>1. n \in Rest
        <3> HIDE DEF again, n
        <3> QED
            BY <1>1, <1>16
    <2>2. \A k \in 1 .. n : k \in Rest => k - 1 \in Rest
        <3> TAKE k \in 1 .. n
        <3> HAVE k \in Rest
        <3>1. k - 1 \in 0 .. n - 1 /\ (k - 1) + 1 = k /\ k - 1 \in 0 .. n
              /\ (k - 1) + 2 = k + 1 /\ (k - 1) + 3 = k + 2
            BY <1>1
        <3>2. again[k - 1] = <<LookAhead[k]>> \o again[k]
            <4> HIDE DEF again, n
            <4> QED
                BY <1>16, <3>1
        <3>3. again[k] = SubSeq(rest, k + 2, Len(rest))
            OBVIOUS
        <3>4. again[k - 1] = SubSeq(rest, (k - 1) + 2, Len(rest))
            <4> HIDE DEF again, n
            <4> QED
                BY <1>12, <3>1, <3>2, <3>3
        <3> HIDE DEF again, n
        <3> QED
            BY <3>1, <3>4
    <2>3. 0 \in Rest
        <3> HIDE DEF Rest, n
        <3> QED
            BY <1>1, <2>1, <2>2, PassedBack
    <2>4. again[0] = SubSeq(rest, 0 + 2, Len(rest))
        BY <2>3
    <2>5. 0 + 2 = 2
        OBVIOUS
    <2> HIDE DEF again
    <2> QED
        BY <2>4, <2>5
<1> HIDE DEF back, again, g, h, IsBack, IsRest
<1> QED
    BY <1>1, <1>2, <1>9, <1>11, <1>15, <1>17 DEF Goes
-----------------------------------------------------------------------------
(* What a step does with the operand. *)

LastEnd == IF tokens = <<>> THEN 0 ELSE tokens[Len(tokens)].end
BufferType ==
    /\ current_string \in Seq(Letters)
    /\ counters \in Counters /\ quote \in Literal /\ expression_begin_offset \in Int
Running == status = "running"

\* The last token divides, and only white was read behind it.
BehindDivider ==
    /\ tokens # <<>> /\ tokens[Len(tokens)].kind \in {",", ":"}
    /\ \A i \in LastEnd + 1 .. Offset : original_input[i] \in Space
\* An operand begins there, behind a divider, for which no offset is kept.
Unanchored(p) ==
    /\ tokens # <<>> /\ tokens[Len(tokens)].kind \in {",", ":"}
    /\ \A i \in LastEnd + 1 .. p - 1 : original_input[i] \in Space
    /\ \/ original_input[p] \in {"\t", "]", "}"}
       \/ p < Offset /\ original_input[p] = ":" /\ original_input[p + 1] = ":"
BufferInv ==
    /\ current_string = <<>> =>
        expression_begin_offset = Invalid /\ ~quote.inside /\ counters.brace = 0
    /\ current_string # <<>> /\ expression_begin_offset # Invalid =>
        LastEnd <= expression_begin_offset /\ expression_begin_offset < Offset
    /\ current_string # <<>> /\ expression_begin_offset = Invalid =>
        \E p \in LastEnd + 1 .. Offset : Unanchored(p)
    /\ Running /\ states # <<F, E>> => current_string = <<>>
    /\ Running /\ states = <<F, E>> /\ current_string = <<>> =>
        /\ counters = FreshCounters
        /\ BehindDivider \/ (rest # <<>> /\ rest[1] = ",") \/ rest = <<End>>
    /\ status = "ended" => current_string = <<>>
    /\ status = "aborted" => current_string # <<>> /\ expression_begin_offset = Invalid

\* The steps, by what they do: a character is added to the text ...
Types(c) ==
    /\ Running /\ Len(rest) = Unseen /\ rest' = Append(rest, c)
    /\ \/ c = End /\ UNCHANGED <<original_input, more>>
       \/ /\ c \in Letters /\ original_input' = Append(original_input, c) /\ more' \in Nat
    /\ UNCHANGED <<location, states, capture, tokens, status>>
\* ... white is read,
Skips ==
    /\ Running /\ Goes(1) /\ original_input[Offset + 1] \in White
    /\ states = <<F, E>> => original_input[Offset + 1] \in Space
    /\ UNCHANGED <<states, capture, tokens, status>>
\* a character is returned as a token of its own,
Divides(kind) ==
    /\ Running /\ Goes(1) /\ kind \in Kinds \ {"operand"} /\ original_input[Offset + 1] = kind
    /\ tokens' = Append(tokens, Token(kind, Offset, Offset + 1)) /\ UNCHANGED status
    /\ current_string = <<>> /\ current_string' = <<>> /\ expression_begin_offset' = Invalid
    /\ ~quote'.inside /\ counters'.brace = 0 /\ BufferType'
    /\ \/ states' \in {<<>>, <<F>>}
       \/ states' = <<F, E>> /\ kind \in {",", ":"} /\ counters' = FreshCounters
    /\ kind \in Word => ModifierListFollows(LookAhead) /\ Ready(F) /\ rest[1] = kind
\* n characters become part of an operand, which may begin with them,
Grows(n) ==
    /\ Running /\ Goes(n) /\ states \in {<<F>>, <<F, E>>} /\ states' = <<F, E>>
    /\ current_string' # <<>> /\ BufferType' /\ UNCHANGED <<tokens, status>>
    /\ \/ current_string # <<>> /\ expression_begin_offset' = expression_begin_offset
       \/ current_string = <<>> /\ expression_begin_offset' = Offset
       \/ /\ current_string = <<>> /\ expression_begin_offset' = Invalid
          /\ states = <<F, E>> /\ rest # <<End>> /\ rest[1] # ","
          /\ \/ original_input[Offset + 1] \in {"\t", "]", "}"}
             \/ n = 2 /\ original_input[Offset + 1] = ":" /\ original_input[Offset + 2] = ":"
\* an operand is returned, if it has an offset,
Emits ==
    /\ Running /\ Stays /\ states = <<F, E>> /\ current_string # <<>>
    /\ \/ /\ expression_begin_offset = Invalid
          /\ status' = "aborted" /\ UNCHANGED <<tokens, capture>>
       \/ /\ expression_begin_offset # Invalid
          /\ tokens' = Append(tokens, Token("operand", expression_begin_offset, Offset))
          /\ current_string' = <<>> /\ expression_begin_offset' = Invalid
          /\ counters' = FreshCounters /\ ~quote'.inside /\ BufferType' /\ UNCHANGED status
    /\ \/ states' = <<F>>
       \/ states' = <<F, E>> /\ ((rest # <<>> /\ rest[1] = ",") \/ rest = <<End>>)
\* a parenthesis closes the list behind a divider, or the end is reached.
Leaves ==
    /\ Running /\ Goes(1) /\ original_input[Offset + 1] = ")"
    /\ states = <<F, E>> /\ states' = <<F>> /\ rest # <<End>> /\ rest[1] # ","
    /\ current_string = <<>> /\ current_string' = <<>> /\ expression_begin_offset' = Invalid
    /\ ~quote'.inside /\ counters'.brace = 0 /\ BufferType' /\ UNCHANGED <<tokens, status>>
Ends ==
    /\ current_string = <<>> /\ status' = "ended"
    /\ UNCHANGED <<location, capture, tokens, original_input, more, rest, states>>

Shaped ==
    \/ \E c \in Letters \cup {End} : Types(c)
    \/ Skips \/ (\E kind \in Kinds : Divides(kind)) \/ Grows(1) \/ Grows(2)
    \/ Emits \/ Leaves \/ Ends

\* The stack of start conditions is that of the list, or that with an operand on it.
LEMMA TopIs ==
    ASSUME LexerType, states # <<>>
    PROVE  /\ Top = F => states = <<F>> /\ Pop = <<>>
           /\ Top = E => states = <<F, E>> /\ Pop = <<F>>
           /\ Top \in {F, E}
<1>1. CASE states = <<F>>
    <2>1. Top = F /\ Pop = <<>>
        BY <1>1 DEF Top, Pop
    <2> QED
        BY <1>1, <2>1 DEF F, E
<1>2. CASE states = <<F, E>>
    <2>1. Top = E /\ Pop = <<F>>
        <3>1. Len(<<F, E>>) = 2 /\ <<F, E>>[2] = E /\ <<F, E>>[1] = F
            OBVIOUS
        <3>2. <<F, E>> \in Seq({F, E}) /\ <<F>> \in Seq({F, E})
            OBVIOUS
        <3>3. SubSeq(<<F, E>>, 1, 1) = <<<<F, E>>[1]>>
            <4>1. SubSeq(<<F, E>>, 1, 1) \in Seq({F, E}) /\ Len(SubSeq(<<F, E>>, 1, 1)) = 1
                  /\ SubSeq(<<F, E>>, 1, 1)[1] = F
                BY <3>1, <3>2
            <4>2. Len(<<F>>) = 1 /\ <<F>>[1] = F
                OBVIOUS
            <4>3. \A i \in 1 .. 1 : i = 1
                OBVIOUS
            <4>4. SubSeq(<<F, E>>, 1, 1) = <<F>>
                BY <3>2, <4>1, <4>2, <4>3, SeqEqual
            <4> QED
                BY <3>1, <4>4
        <3> QED
            BY <1>2, <3>1, <3>3 DEF Top, Pop
    <2> QED
        BY <1>2, <2>1 DEF F, E
<1> QED
    BY <1>1, <1>2 DEF LexerType

\* The sets of characters, one by one.
LEMMA Sets ==
    /\ White = {" ", "\n", "\t"} /\ Space = {" ", "\n"} /\ Quote = {"'", "\""}
    /\ DOMAIN Closes = {")", "]", "}"} /\ DOMAIN Opens = {"(", "[", "{"}
    /\ Brackets = {")", "]", "}", "(", "[", "{"}
BY DEF White, Space, Quote, Closes, Opens, Brackets

\* Where an operand begins.
LEMMA BeginIs ==
    ASSUME LexerAssumption, LexerType, PlaceInv, NEW state, Ready(state), NEW c
    PROVE  /\ Here.last_token_offset = Offset
           /\ Begin(c) = IF \/ expression_begin_offset # Invalid \/ current_string # <<>>
                            \/ c \in {" ", "\n", "\t", ")", "]", "}", ",", ":"}
                         THEN expression_begin_offset ELSE Offset
<1>1. Here.last_token_offset = Offset
    BY HereIs DEF LocIn
<1>2. White \cup DOMAIN Closes \cup {",", ":"} = {" ", "\n", "\t", ")", "]", "}", ",", ":"}
    BY Sets
<1> QED
    BY <1>1, <1>2 DEF Begin

\* A rule of EXPR_STATE on one character.
LEMMA ReadsIs ==
    ASSUME LexerAssumption, LexerType, PlaceInv, NEW c, Reads(c)
    PROVE  /\ original_input[Offset + 1] = c /\ c \in Letters /\ rest[1] = c
           /\ Ready(E) /\ Running /\ states = <<F, E>> /\ Pop = <<F>> /\ Len(Matched) = 1
           /\ rest # <<>> /\ rest # <<End>>
           /\ Consume /\ UNCHANGED <<original_input, more>> => Goes(1)
<1>1. Ready(E) /\ Len(Matched) = 1 /\ rest[1] = c
    BY DEF Reads, E
<1>2. Running /\ states # <<>> /\ Top = E /\ rest # <<>> /\ rest # <<End>>
    BY <1>1 DEF Ready, Running, Decided
<1>3. rest[1] = original_input[Offset + 1] /\ rest[1] \in Letters
    BY <1>1, HereIs
<1>4. states = <<F, E>> /\ Pop = <<F>>
    BY <1>2, TopIs
<1>5. Consume /\ UNCHANGED <<original_input, more>> => Goes(1)
    BY <1>1, ConsumeIs
<1> QED
    BY <1>1, <1>2, <1>3, <1>4, <1>5

\* Nothing is typed behind the end.
LEMMA TypeIs ==
    ASSUME LexerAssumption, LexerType, PlaceInv, NEW c \in Typed \cup {End}, Type(c)
    PROVE  c \in Letters \cup {End} /\ Types(c)
<1>1. Running /\ ~Decided /\ rest' = Append(rest, c)
      /\ UNCHANGED <<location, states, capture, tokens, status>>
    BY DEF Type, Running
<1>2. Unseen \in Nat /\ Len(rest) \in Nat /\ Len(rest) \in {Unseen, Unseen + 1}
      /\ rest \in Seq(Letters \cup {End})
    BY NextIsText DEF PlaceInv, LexerType
<1>3. Len(rest) = Unseen
    <2> SUFFICES ASSUME Len(rest) = Unseen + 1 PROVE Decided
        BY <1>1, <1>2
    <2>1. rest[Len(rest)] = End /\ Len(rest) \in 1 .. Len(rest)
        BY <1>2 DEF PlaceInv
    <2>2. rest # <<>>
        BY <1>2
    <2>3. ASSUME rest[1] = ":" PROVE Len(rest) > 1
        <3>1. rest[1] # End
            BY <2>3 DEF End
        <3>2. Len(rest) # 1
            BY <2>1, <3>1
        <3> QED
            BY <1>2, <3>2
    <2>4. ASSUME rest[1] \in Word PROVE \E i \in 2 .. Len(rest) : rest[i] \in Stops
        <3>1. rest[1] # End
            BY <2>4 DEF End, Word
        <3>2. Len(rest) # 1
            BY <2>1, <3>1
        <3>3. Len(rest) \in 2 .. Len(rest) /\ rest[Len(rest)] \in Stops
            BY <1>2, <2>1, <3>2 DEF Stops
        <3> QED
            BY <3>3
    <2> QED
        BY <2>2, <2>3, <2>4 DEF Decided
<1>4. CASE c = End
    BY <1>1, <1>3, <1>4 DEF Type, Types
<1>5. CASE c # End
    <2>1. more > 0 /\ more' = more - 1 /\ original_input' = Append(original_input, c)
        BY <1>5 DEF Type
    <2>2. more' \in Nat
        BY <2>1 DEF LexerType
    <2>3. c \in Letters
        BY <1>5 DEF LexerAssumption
    <2> QED
        BY <1>1, <1>3, <2>1, <2>2, <2>3 DEF Types
<1> QED
    BY <1>4, <1>5

\* Before an operand nothing is kept of one.
LEMMA Fresh ==
    ASSUME LexerType, BufferInv, Running, states # <<F, E>>
    PROVE  /\ current_string = <<>> /\ expression_begin_offset = Invalid
           /\ ~quote.inside /\ counters.brace = 0
BY DEF BufferInv

\* The rules of the list.
LEMMA ClauseReads ==
    ASSUME LexerAssumption, LexerType, PlaceInv, Ready(F)
    PROVE  /\ Running /\ states = <<F>> /\ Pop = <<>> /\ Len(Matched) = 1
           /\ rest[1] = original_input[Offset + 1] /\ rest[1] \in Letters
           /\ Here.last_token_offset = Offset /\ Here.offset = Offset + 1
           /\ Consume /\ UNCHANGED <<original_input, more>> => Goes(1)
<1>1. Running /\ states # <<>> /\ Top = F
    BY DEF Ready, Running
<1>2. Len(Matched) = 1 /\ rest[1] = original_input[Offset + 1] /\ rest[1] \in Letters
      /\ Here = LocIn(original_input, Offset + 1, Offset)
    BY <1>1, HereIs DEF F, E
<1>3. Here.last_token_offset = Offset /\ Here.offset = Offset + 1
    BY <1>2 DEF LocIn
<1> QED
    BY <1>1, <1>2, <1>3, TopIs, ConsumeIs

\* The first character of an operand is its beginning.
LEMMA CaptureIs ==
    ASSUME LexerAssumption, LexerType, PlaceInv, BufferInv, Ready(F),
           PrepareExpressionCapture(rest[1]), Goes(1), UNCHANGED <<tokens, status>>
    PROVE  Grows(1)
<1>1. Running /\ states = <<F>> /\ rest[1] \in Letters /\ Here.last_token_offset = Offset
    BY ClauseReads
<1>2. current_string = <<>>
    <2>1. states # <<F, E>>
        BY <1>1
    <2> QED
        BY <1>1, <2>1, Fresh
<1>3. current_string' = <<rest[1]>> /\ current_string' # <<>>
      /\ current_string' \in Seq(Letters)
    BY <1>1 DEF PrepareExpressionCapture
<1>4. states' = <<F, E>>
    <2>1. states' = Append(<<F>>, E)
        BY <1>1 DEF PrepareExpressionCapture, E
    <2>2. <<F>> \in Seq({F, E}) /\ <<F, E>> \in Seq({F, E}) /\ Len(<<F>>) = 1 /\ E \in {F, E}
          /\ <<F>>[1] = F /\ Len(<<F, E>>) = 2 /\ <<F, E>>[1] = F /\ <<F, E>>[2] = E
        OBVIOUS
    <2>3. /\ Append(<<F>>, E) \in Seq({F, E}) /\ Len(Append(<<F>>, E)) = 2
          /\ Append(<<F>>, E)[1] = F /\ Append(<<F>>, E)[2] = E
        BY <2>2, AppendProperties
    <2>4. \A i \in 1 .. 2 : i = 1 \/ i = 2
        OBVIOUS
    <2>5. Append(<<F>>, E) = <<F, E>>
        BY <2>2, <2>3, <2>4, SeqEqual
    <2> QED
        BY <2>1, <2>5
<1>5. expression_begin_offset' = Offset /\ Offset \in Int /\ counters' \in Counters
    BY <1>1 DEF PrepareExpressionCapture, Counters, FreshCounters, PlaceInv
<1>6. quote' \in Literal
    <2> DEFINE inside == rest[1] \in Quote
               active == IF rest[1] \in Quote THEN rest[1] ELSE "none"
    <2>1. inside \in BOOLEAN /\ active \in Quote \cup {"none"}
        OBVIOUS
    <2>2. quote' = [quote EXCEPT !.inside = inside, !.escape = FALSE, !.active = active]
        BY DEF PrepareExpressionCapture
    <2> HIDE DEF inside, active
    <2> QED
        BY <2>1, <2>2 DEF LexerType, Literal
<1> QED
    BY <1>1, <1>2, <1>3, <1>4, <1>5, <1>6 DEF Grows, BufferType

\* The rules of FIRSTPRIVATE_STATE: white, a token, or the first of an operand.
LEMMA ClauseStep ==
    ASSUME LexerAssumption, LexerType, PlaceInv, BufferInv,
           ClausePunctuation \/ ClauseSpace \/ ClauseWord \/ ClauseOther
    PROVE  Shaped
<1>0. Ready(F)
    BY DEF ClausePunctuation, ClauseSpace, ClauseWord, ClauseOther, F
<1>1. /\ Running /\ states = <<F>> /\ Pop = <<>> /\ Len(Matched) = 1
      /\ rest[1] = original_input[Offset + 1] /\ rest[1] \in Letters
      /\ Here.last_token_offset = Offset /\ Here.offset = Offset + 1
      /\ Consume /\ UNCHANGED <<original_input, more>> => Goes(1)
    BY <1>0, ClauseReads
<1>2. /\ current_string = <<>> /\ expression_begin_offset = Invalid
      /\ ~quote.inside /\ counters.brace = 0 /\ states # <<F, E>>
    <2>1. states # <<F, E>>
        BY <1>1
    <2> QED
        BY <1>1, <2>1, Fresh
<1>3. UNCHANGED capture => /\ current_string' = <<>> /\ expression_begin_offset' = Invalid
                           /\ ~quote'.inside /\ counters'.brace = 0 /\ BufferType'
    BY <1>2 DEF capture, BufferType, LexerType
<1>4. CASE ClausePunctuation
    <2>1. Goes(1) /\ rest[1] \in {"(", ")", ":", ","} /\ UNCHANGED <<capture, status>>
        BY <1>1, <1>4 DEF ClausePunctuation
    <2>2. rest[1] \in Kinds \ {"operand"} /\ rest[1] \notin Word
        BY <2>1 DEF Kinds, Word
    <2>3. tokens' = Append(tokens, Token(rest[1], Offset, Offset + 1))
        BY <1>1, <1>4 DEF ClausePunctuation, Return
    <2>4. states' \in {<<>>, <<F>>}
        BY <1>1, <1>4 DEF ClausePunctuation
    <2>5. Divides(rest[1])
        BY <1>1, <1>2, <1>3, <2>1, <2>2, <2>3, <2>4 DEF Divides
    <2> QED
        BY <2>2, <2>5 DEF Shaped
<1>5. CASE ClauseSpace
    <2>1. Skips
        BY <1>1, <1>2, <1>5 DEF ClauseSpace, Skips
    <2> QED
        BY <2>1 DEF Shaped
<1>6. CASE ClauseWord
    <2>1. Goes(1) /\ rest[1] \in Word /\ UNCHANGED status
        BY <1>0, <1>6, PeekIs DEF ClauseWord
    <2>2. rest[1] \in Kinds \ {"operand"}
        BY <2>1 DEF Kinds, Word
    <2>3. CASE ModifierListFollows(LookAhead) /\ Return(rest[1])
               /\ UNCHANGED <<states, capture>>
        <3>1. tokens' = Append(tokens, Token(rest[1], Offset, Offset + 1))
            BY <1>1, <2>3 DEF Return
        <3>2. states' \in {<<>>, <<F>>}
            BY <1>1, <2>3
        <3>3. Divides(rest[1])
            BY <1>0, <1>1, <1>2, <1>3, <2>1, <2>2, <2>3, <3>1, <3>2 DEF Divides
        <3> QED
            BY <2>2, <3>3 DEF Shaped
    <2>4. CASE PrepareExpressionCapture(rest[1]) /\ UNCHANGED tokens
        <3>1. Grows(1)
            BY <1>0, <2>1, <2>4, CaptureIs
        <3> QED
            BY <3>1 DEF Shaped
    <2> QED
        BY <1>6, <2>3, <2>4 DEF ClauseWord
<1>7. CASE ClauseOther
    <2>1. Goes(1) /\ PrepareExpressionCapture(rest[1]) /\ UNCHANGED <<tokens, status>>
        BY <1>1, <1>7 DEF ClauseOther
    <2>2. Grows(1)
        BY <1>0, <2>1, CaptureIs
    <2> QED
        BY <2>2 DEF Shaped
<1> QED
    BY <1>4, <1>5, <1>6, <1>7

\* Where an operand begins is an integer.
LEMMA OffsetsIn ==
    ASSUME LexerType, PlaceInv
    PROVE  /\ Offset \in Nat /\ Offset \in Int /\ expression_begin_offset \in Int
           /\ Len(original_input) \in Nat /\ Offset <= Len(original_input)
<1>1. expression_begin_offset \in Int /\ original_input \in Seq(Letters)
    BY DEF LexerType
<1>2. Offset \in 0 .. Len(original_input)
    BY DEF PlaceInv
<1> QED
    BY <1>1, <1>2

\* The counters and the literal keep their shape.
LEMMA CountersIn ==
    ASSUME NEW c \in Counters, NEW k \in Int, NEW m \in Int
    PROVE  /\ [c EXCEPT !.bracket = k] \in Counters /\ [c EXCEPT !.brace = k] \in Counters
           /\ [c EXCEPT !.ternary = k] \in Counters
           /\ [c EXCEPT !.local = k, !.global = m] \in Counters
           /\ [c EXCEPT !.local = k, !.global = m].brace = c.brace
           /\ [c EXCEPT !.local = k, !.global = m].global = m
BY DEF Counters

\* So are counters, counted up or down.
LEMMA Counted ==
    ASSUME LexerType
    PROVE  /\ counters \in Counters
           /\ [counters EXCEPT !.bracket = @ + 1] \in Counters
           /\ [counters EXCEPT !.bracket = @ - 1] \in Counters
           /\ [counters EXCEPT !.brace = @ + 1] \in Counters
           /\ [counters EXCEPT !.brace = @ - 1] \in Counters
           /\ [counters EXCEPT !.ternary = @ + 1] \in Counters
           /\ [counters EXCEPT !.ternary = @ - 1] \in Counters
           /\ [counters EXCEPT !.local = @ + 1, !.global = @ + 1] \in Counters
           /\ [counters EXCEPT !.local = @ - 1, !.global = @ - 1] \in Counters
           /\ [counters EXCEPT !.local = @ - 1, !.global = @ - 1].brace = counters.brace
           /\ [counters EXCEPT !.local = @ - 1, !.global = @ - 1].global
                = counters.global - 1
<1>1. counters \in Counters
    BY DEF LexerType
<1>2. /\ counters.local \in Int /\ counters.global \in Int /\ counters.bracket \in Int
      /\ counters.brace \in Int /\ counters.ternary \in Int
    BY <1>1 DEF Counters
<1>3. /\ counters.local + 1 \in Int /\ counters.global + 1 \in Int
      /\ counters.local - 1 \in Int /\ counters.global - 1 \in Int
      /\ counters.bracket + 1 \in Int /\ counters.bracket - 1 \in Int
      /\ counters.brace + 1 \in Int /\ counters.brace - 1 \in Int
      /\ counters.ternary + 1 \in Int /\ counters.ternary - 1 \in Int
    BY <1>2
<1>4. /\ [counters EXCEPT !.bracket = @ + 1] \in Counters
      /\ [counters EXCEPT !.bracket = @ - 1] \in Counters
    BY <1>1, <1>3, CountersIn
<1>5. /\ [counters EXCEPT !.brace = @ + 1] \in Counters
      /\ [counters EXCEPT !.brace = @ - 1] \in Counters
    BY <1>1, <1>3, CountersIn
<1>6. /\ [counters EXCEPT !.ternary = @ + 1] \in Counters
      /\ [counters EXCEPT !.ternary = @ - 1] \in Counters
    BY <1>1, <1>3, CountersIn
<1>7. [counters EXCEPT !.local = @ + 1, !.global = @ + 1] \in Counters
    BY <1>1, <1>3, CountersIn
<1> DEFINE k == counters.local - 1
           m == counters.global - 1
<1>8. k \in Int /\ m \in Int
    BY <1>3
<1> HIDE DEF k, m
<1>9. /\ [counters EXCEPT !.local = k, !.global = m] \in Counters
      /\ [counters EXCEPT !.local = k, !.global = m].brace = counters.brace
      /\ [counters EXCEPT !.local = k, !.global = m].global = m
    BY <1>1, <1>8, CountersIn
<1> QED
    BY <1>1, <1>4, <1>5, <1>6, <1>7, <1>9 DEF k, m

\* The state of a literal stays one.
LEMMA QuoteIn ==
    ASSUME NEW c \in Quote, NEW r \in BOOLEAN
    PROVE  [NoQuote EXCEPT !.inside = TRUE, !.active = c, !.raw = r] \in Literal
<1>1. NoQuote \in Literal
    BY DEF NoQuote, Literal
<1>2. \A q \in Literal : [q EXCEPT !.inside = TRUE, !.active = c, !.raw = r] \in Literal
    BY DEF Literal
<1> QED
    BY <1>1, <1>2

\* The rules of an operand: one more character,
LEMMA PushIs ==
    ASSUME LexerAssumption, LexerType, PlaceInv, BufferInv, NEW c, Reads(c), Push(c), Go,
           counters' \in Counters, quote' \in Literal, UNCHANGED states,
           current_string = <<>> => c \notin {" ", "\n", ")", ",", ":"}
    PROVE  Grows(1)
<1>1. /\ original_input[Offset + 1] = c /\ c \in Letters /\ rest[1] = c /\ Ready(E)
      /\ Running /\ states = <<F, E>> /\ rest # <<End>> /\ Goes(1)
      /\ UNCHANGED <<tokens, status>>
    BY ReadsIs DEF Go
<1>2. current_string' = Append(current_string, c) /\ expression_begin_offset' = Begin(c)
    BY <1>1 DEF Push, StartExpression
<1>3. current_string' # <<>> /\ current_string' \in Seq(Letters)
    <2>1. current_string \in Seq(Letters) /\ c \in Letters
        BY <1>1 DEF LexerType
    <2> QED
        BY <1>2, <2>1, AppendProperties
<1>4. Begin(c) = IF \/ expression_begin_offset # Invalid \/ current_string # <<>>
                    \/ c \in {" ", "\n", "\t", ")", "]", "}", ",", ":"}
                 THEN expression_begin_offset ELSE Offset
    BY <1>1, BeginIs
<1>5. expression_begin_offset \in Int /\ Offset \in Int
    BY OffsetsIn
<1>6. BufferType'
    BY <1>2, <1>3, <1>4, <1>5 DEF BufferType
<1>7. CASE current_string # <<>>
    BY <1>1, <1>2, <1>3, <1>4, <1>6, <1>7 DEF Grows
<1>8. CASE current_string = <<>>
    <2>1. expression_begin_offset = Invalid
        BY <1>8 DEF BufferInv
    <2>2. c \notin {" ", "\n", ")", ",", ":"}
        BY <1>8
    <2>3. CASE c \in {"\t", "]", "}"}
        <3>1. expression_begin_offset' = Invalid
            BY <1>2, <1>4, <2>1, <2>3
        <3> QED
            BY <1>1, <1>3, <1>6, <1>8, <2>2, <2>3, <3>1 DEF Grows
    <2>4. CASE c \notin {"\t", "]", "}"}
        <3>1. c \notin {" ", "\n", "\t", ")", "]", "}", ",", ":"}
            BY <2>2, <2>4
        <3>2. expression_begin_offset' = Offset
            BY <1>2, <1>4, <1>8, <2>1, <3>1
        <3> QED
            BY <1>1, <1>3, <1>6, <1>8, <3>2 DEF Grows
    <2> QED
        BY <2>3, <2>4
<1> QED
    BY <1>7, <1>8

\* A buffer that was cleared is empty, and outside of literals.
LEMMA Cleared ==
    ASSUME LexerType, ClearExpressionBuffer
    PROVE  /\ expression_begin_offset' = Invalid => BufferType'
           /\ current_string' = <<>> /\ counters' = FreshCounters /\ counters' \in Counters
           /\ counters'.brace = 0 /\ quote' \in Literal /\ ~quote'.inside
<1>1. FreshCounters \in Counters /\ FreshCounters.brace = 0
    BY DEF FreshCounters, Counters
<1>2. quote' \in Literal /\ ~quote'.inside
    BY DEF LexerType, ClearExpressionBuffer, Literal
<1>3. current_string' = <<>> /\ counters' = FreshCounters /\ <<>> \in Seq(Letters)
    BY DEF ClearExpressionBuffer
<1>4. Invalid \in Int
    BY DEF Invalid
<1> QED
    BY <1>1, <1>2, <1>3, <1>4 DEF BufferType

\* the operand is returned,
LEMMA EmitIs ==
    ASSUME LexerAssumption, LexerType, PlaceInv, BufferInv, NEW c, Reads(c), EmitAndUnput,
           current_string # <<>>, states' = Pop \/ (states' = states /\ c = ",")
    PROVE  Emits
<1>1. /\ rest[1] = c /\ Ready(E) /\ Running /\ states = <<F, E>> /\ Pop = <<F>>
      /\ Len(Matched) = 1 /\ rest # <<>>
    BY ReadsIs
<1>2. location' = RewindLexerPositionForUnput(Here, rest[1])
      /\ UNCHANGED <<original_input, more, rest>>
    BY DEF EmitAndUnput
<1>3. Stays
    BY <1>1, <1>2, UnputIs
<1>4. Begin(rest[1]) = expression_begin_offset /\ Here.last_token_offset = Offset
    BY <1>1, BeginIs
<1>5. \/ /\ expression_begin_offset = Invalid
         /\ status' = "aborted" /\ UNCHANGED <<tokens, capture>>
      \/ /\ expression_begin_offset # Invalid
         /\ tokens' = Append(tokens, Token("operand", expression_begin_offset, Offset))
         /\ expression_begin_offset' = Invalid /\ ClearExpressionBuffer /\ UNCHANGED status
    BY <1>4 DEF EmitAndUnput, StoreLexeme
<1>6. ClearExpressionBuffer /\ expression_begin_offset' = Invalid => BufferType'
    BY Cleared
<1>7. \/ states' = <<F>>
      \/ states' = <<F, E>> /\ rest # <<>> /\ rest[1] = ","
    BY <1>1
<1> QED
    BY <1>1, <1>3, <1>5, <1>6, <1>7, Cleared DEF Emits

\* a divider is returned where no operand was begun.
LEMMA DividerIs ==
    ASSUME LexerAssumption, LexerType, PlaceInv, BufferInv, NEW c \in {",", ":"}, Reads(c),
           current_string = <<>>, ClearExpressionBuffer, StartExpression, Return(c), Consume,
           UNCHANGED <<original_input, more, states, status>>
    PROVE  Divides(c)
<1>1. /\ original_input[Offset + 1] = c /\ rest[1] = c /\ Ready(E) /\ Running
      /\ states = <<F, E>> /\ Len(Matched) = 1 /\ Goes(1)
    BY ReadsIs
<1>2. Here = LocIn(original_input, Offset + 1, Offset)
    BY <1>1, HereIs
<1>3. Here.last_token_offset = Offset /\ Here.offset = Offset + 1
    BY <1>2 DEF LocIn
<1>4. tokens' = Append(tokens, Token(c, Offset, Offset + 1))
    BY <1>3 DEF Return
<1>5. c \in Kinds \ {"operand"} /\ c \notin Word
    BY DEF Kinds, Word
<1>6. expression_begin_offset' = Invalid
    <2>1. expression_begin_offset = Invalid
        BY DEF BufferInv
    <2>2. Begin(c) = expression_begin_offset
        BY <1>1, BeginIs
    <2> QED
        BY <1>1, <2>1, <2>2 DEF StartExpression
<1>7. BufferType'
    BY <1>6, Cleared
<1> QED
    BY <1>1, <1>4, <1>5, <1>6, <1>7, Cleared DEF Divides

\* A character of a literal: the operand grows.
LEMMA QuotedIs ==
    ASSUME LexerAssumption, LexerType, PlaceInv, BufferInv, NEW c, Quoted(c)
    PROVE  Shaped
<1>1. Reads(c) /\ quote.inside /\ Push(c) /\ Go /\ UNCHANGED <<states, counters>>
    BY DEF Quoted
<1>2. current_string # <<>>
    BY <1>1 DEF BufferInv
<1>3. counters' \in Counters
    BY <1>1 DEF LexerType
<1>4. c \in Letters
    BY <1>1, ReadsIs
<1>5. quote' \in Literal
    <2>1. /\ quote \in Literal /\ NoQuote \in Literal
          /\ Append(quote.delimiter, c) \in Seq(Letters)
        <3>1. quote \in Literal /\ quote.delimiter \in Seq(Letters)
            BY DEF LexerType, Literal
        <3>2. NoQuote \in Literal
            BY DEF NoQuote, Literal
        <3> QED
            BY <1>4, <3>1, <3>2, AppendProperties
    <2>2. /\ [quote EXCEPT !.body = TRUE] \in Literal
          /\ [quote EXCEPT !.delimiter = Append(@, c)] \in Literal
          /\ [quote EXCEPT !.escape = FALSE] \in Literal
          /\ [quote EXCEPT !.escape = TRUE] \in Literal
          /\ [quote EXCEPT !.inside = FALSE, !.active = "none"] \in Literal
        BY <2>1 DEF Literal
    <2>3. quote' \in {quote, NoQuote, [quote EXCEPT !.body = TRUE],
                      [quote EXCEPT !.delimiter = Append(@, c)],
                      [quote EXCEPT !.escape = FALSE], [quote EXCEPT !.escape = TRUE],
                      [quote EXCEPT !.inside = FALSE, !.active = "none"]}
        BY DEF Quoted
    <2> QED
        BY <2>1, <2>2, <2>3
<1>6. Grows(1)
    BY <1>1, <1>2, <1>3, <1>5, PushIs
<1> QED
    BY <1>6 DEF Shaped

\* "::": the operand grows, or begins without an offset.
LEMMA ScopeIs ==
    ASSUME LexerAssumption, LexerType, PlaceInv, BufferInv, Scope
    PROVE  Shaped
<1>1. Ready(E) /\ Len(Matched) = 2 /\ Consume /\ UNCHANGED <<original_input, more>>
      /\ UNCHANGED <<tokens, status, states, counters, quote>>
    BY DEF Scope, Go, E
<1>2. Running /\ states = <<F, E>> /\ rest # <<End>>
    BY <1>1, TopIs DEF Ready, Running, Decided
<1>3. Goes(2)
    BY <1>1, ConsumeIs
<1>4. rest[1] = ":" /\ original_input[Offset + 1] = ":" /\ original_input[Offset + 2] = ":"
      /\ Matched = <<":", ":">> /\ rest[1] \in Letters
    BY <1>1, HereIs
<1>5. expression_begin_offset' = expression_begin_offset
    <2>1. Begin(rest[1]) = expression_begin_offset
        BY <1>1, <1>4, BeginIs
    <2> QED
        BY <2>1 DEF Scope, StartExpression
<1>6. current_string' # <<>> /\ current_string' \in Seq(Letters)
    <2>1. current_string' = current_string \o <<":", ":">>
        BY <1>4 DEF Scope
    <2>2. current_string \in Seq(Letters) /\ <<":", ":">> \in Seq(Letters)
        <3>1. ":" \in Letters
            BY <1>4
        <3> QED
            BY <3>1 DEF LexerType
    <2>3. <<":", ":">> # <<>>
        OBVIOUS
    <2>4. current_string \o <<":", ":">> \in Seq(Letters)
          /\ Len(current_string \o <<":", ":">>) = Len(current_string) + 2
        BY <2>2, ConcatProperties
    <2>5. Len(current_string') # 0
        BY <2>1, <2>2, <2>4
    <2> QED
        BY <2>1, <2>4, <2>5
<1>7. BufferType'
    BY <1>1, <1>5, <1>6 DEF BufferType, LexerType
<1>8. current_string = <<>> => expression_begin_offset = Invalid
    BY DEF BufferInv
<1>9. Grows(2)
    BY <1>1, <1>2, <1>3, <1>4, <1>5, <1>6, <1>7, <1>8 DEF Grows
<1> QED
    BY <1>9 DEF Shaped

\* Parentheses: the operand grows or ends, or the list is over.
LEMMA ParenthesisIs ==
    ASSUME LexerAssumption, LexerType, PlaceInv, BufferInv,
           OpenParenthesis \/ CloseParenthesis
    PROVE  Shaped
<1> DEFINE closed == [counters EXCEPT !.local = @ - 1, !.global = @ - 1]
<1>1. /\ counters \in Counters /\ quote \in Literal /\ closed \in Counters
      /\ [counters EXCEPT !.local = @ + 1, !.global = @ + 1] \in Counters
      /\ closed.brace = counters.brace /\ closed.global = counters.global - 1
    BY Counted DEF LexerType
<1>2. CASE OpenParenthesis
    <2>1. Reads("(") /\ Push("(") /\ Go /\ UNCHANGED <<states, quote>>
          /\ counters' \in Counters
        BY <1>1, <1>2 DEF OpenParenthesis, Plain
    <2>2. Grows(1)
        BY <1>1, <2>1, PushIs
    <2> QED
        BY <2>2 DEF Shaped
<1>3. CASE CloseParenthesis
    <2>1. Reads(")") /\ ~quote.inside
        BY <1>3 DEF CloseParenthesis, Plain
    <2>2. CASE current_string # <<>> /\ states' = Pop /\ EmitAndUnput
        <3>1. Emits
            BY <2>1, <2>2, EmitIs
        <3> QED
            BY <3>1 DEF Shaped
    <2>3. CASE /\ current_string = <<>> /\ states' = Pop /\ StartExpression
               /\ counters' = closed /\ Go /\ UNCHANGED <<current_string, quote>>
        <3>1. /\ original_input[Offset + 1] = ")" /\ rest[1] = ")" /\ Ready(E) /\ Running
              /\ states = <<F, E>> /\ Pop = <<F>> /\ rest # <<End>> /\ Goes(1)
              /\ UNCHANGED <<tokens, status>>
            BY <2>1, <2>3, ReadsIs DEF Go
        <3>2. expression_begin_offset = Invalid /\ counters.brace = 0
            BY <2>3 DEF BufferInv
        <3>3. expression_begin_offset' = expression_begin_offset
            <4>1. Begin(rest[1]) = expression_begin_offset
                BY <3>1, BeginIs
            <4> QED
                BY <2>3, <4>1 DEF StartExpression
        <3>4. BufferType'
            BY <1>1, <2>3, <3>3 DEF BufferType, LexerType
        <3>5. Leaves
            BY <1>1, <2>1, <2>3, <3>1, <3>2, <3>3, <3>4 DEF Leaves
        <3> QED
            BY <3>5 DEF Shaped
    <2>4. CASE /\ closed.global # 0 /\ Push(")") /\ counters' = closed /\ Go
               /\ UNCHANGED <<states, quote>>
        <3>1. current_string # <<>>
            <4> SUFFICES ASSUME current_string = <<>> PROVE FALSE
                OBVIOUS
            <4>1. Running /\ states = <<F, E>>
                BY <2>1, ReadsIs
            <4>2. counters = FreshCounters
                BY <4>1 DEF BufferInv
            <4>3. counters.global = 1
                BY <4>2 DEF FreshCounters
            <4> QED
                BY <1>1, <2>4, <4>3
        <3>2. Grows(1)
            BY <1>1, <2>1, <2>4, <3>1, PushIs
        <3> QED
            BY <3>2 DEF Shaped
    <2> QED
        BY <1>3, <2>2, <2>3, <2>4 DEF CloseParenthesis
<1> QED
    BY <1>2, <1>3

\* A comma: the operand grows or ends, or the comma is a token.
LEMMA CommaIs ==
    ASSUME LexerAssumption, LexerType, PlaceInv, BufferInv, Comma
    PROVE  Shaped
<1>1. Reads(",")
    BY DEF Comma, Plain
<1>2. counters \in Counters /\ quote \in Literal
    BY DEF LexerType
<1>3. \/ /\ current_string = <<>> /\ ClearExpressionBuffer /\ StartExpression /\ Return(",")
         /\ Consume /\ UNCHANGED <<original_input, more, states, status>>
      \/ current_string # <<>> /\ EmitAndUnput /\ UNCHANGED states
      \/ current_string # <<>> /\ Push(",") /\ Go /\ UNCHANGED <<states, counters, quote>>
    BY DEF Comma
<1>4. CASE /\ current_string = <<>> /\ ClearExpressionBuffer /\ StartExpression
           /\ Return(",") /\ Consume /\ UNCHANGED <<original_input, more, states, status>>
    <2>1. Divides(",")
        BY <1>1, <1>4, DividerIs
    <2> QED
        BY <2>1 DEF Shaped, Kinds
<1>5. CASE current_string # <<>> /\ EmitAndUnput /\ UNCHANGED states
    <2>1. Emits
        BY <1>1, <1>5, EmitIs
    <2> QED
        BY <2>1 DEF Shaped
<1>6. CASE current_string # <<>> /\ Push(",") /\ Go /\ UNCHANGED <<states, counters, quote>>
    <2>1. Grows(1)
        BY <1>1, <1>2, <1>6, PushIs
    <2> QED
        BY <2>1 DEF Shaped
<1> QED
    BY <1>3, <1>4, <1>5, <1>6

\* Brackets: the operand grows or ends.
LEMMA BracketIs ==
    ASSUME LexerAssumption, LexerType, PlaceInv, BufferInv, Bracket \/ CloseBrace
    PROVE  Shaped
<1>1. counters \in Counters /\ quote \in Literal
    BY DEF LexerType
<1>2. CASE Bracket
    <2>1. PICK c \in {"[", "]", "{"} :
            /\ Plain(c) /\ Push(c) /\ Go /\ UNCHANGED <<states, quote>>
            /\ counters' = IF c = "{" THEN [counters EXCEPT !.brace = @ + 1]
                           ELSE [counters EXCEPT !.bracket = IF c = "[" THEN @ + 1 ELSE @ - 1]
        BY <1>2 DEF Bracket
    <2>2. counters' \in Counters
        <3>1. /\ [counters EXCEPT !.brace = @ + 1] \in Counters
              /\ [counters EXCEPT !.bracket = @ + 1] \in Counters
              /\ [counters EXCEPT !.bracket = @ - 1] \in Counters
            BY Counted
        <3> QED
            BY <2>1, <3>1
    <2>3. Grows(1)
        BY <1>1, <2>1, <2>2, PushIs DEF Plain
    <2> QED
        BY <2>3 DEF Shaped
<1>3. CASE CloseBrace
    <2>1. Reads("}")
        BY <1>3 DEF CloseBrace, Plain
    <2>2. CASE counters.brace = 1 /\ states' = Pop /\ EmitAndUnput
        <3>1. current_string # <<>>
            <4>1. counters.brace # 0
                BY <2>2
            <4> QED
                BY <4>1 DEF BufferInv
        <3>2. Emits
            BY <2>1, <2>2, <3>1, EmitIs
        <3> QED
            BY <3>2 DEF Shaped
    <2>3. CASE /\ counters' = [counters EXCEPT !.brace = @ - 1]
               /\ Push("}") /\ Go /\ UNCHANGED <<states, quote>>
        <3>1. counters' \in Counters
            BY <2>3, Counted
        <3>2. Grows(1)
            BY <1>1, <2>1, <2>3, <3>1, PushIs
        <3> QED
            BY <3>2 DEF Shaped
    <2> QED
        BY <1>3, <2>2, <2>3 DEF CloseBrace
<1> QED
    BY <1>2, <1>3

\* A conditional: the operand grows or ends, or the colon is a token.
LEMMA ColonIs ==
    ASSUME LexerAssumption, LexerType, PlaceInv, BufferInv, Question \/ Colon
    PROVE  Shaped
<1>1. counters \in Counters /\ quote \in Literal
      /\ [counters EXCEPT !.ternary = @ + 1] \in Counters
      /\ [counters EXCEPT !.ternary = @ - 1] \in Counters
    BY Counted DEF LexerType
<1>2. CASE Question
    <2>1. Reads("?") /\ Push("?") /\ Go /\ UNCHANGED <<states, quote>> /\ counters' \in Counters
        BY <1>1, <1>2 DEF Question, Plain
    <2>2. Grows(1)
        BY <1>1, <2>1, PushIs
    <2> QED
        BY <2>2 DEF Shaped
<1>3. CASE Colon
    <2>1. Reads(":")
        BY <1>3 DEF Colon, Plain
    <2>2. CASE /\ current_string = <<>> /\ ClearExpressionBuffer /\ StartExpression
               /\ Return(":") /\ Consume /\ UNCHANGED <<original_input, more, states, status>>
        <3>1. Divides(":")
            BY <2>1, <2>2, DividerIs
        <3> QED
            BY <3>1 DEF Shaped, Kinds
    <2>3. CASE /\ current_string # <<>> /\ Push(":") /\ Go /\ UNCHANGED <<states, quote>>
               /\ counters' = IF counters.ternary > 0
                              THEN [counters EXCEPT !.ternary = @ - 1] ELSE counters
        <3>1. counters' \in Counters
            BY <1>1, <2>3
        <3>2. Grows(1)
            BY <1>1, <2>1, <2>3, <3>1, PushIs
        <3> QED
            BY <3>2 DEF Shaped
    <2>4. CASE current_string # <<>> /\ states' = Pop /\ EmitAndUnput
        <3>1. Emits
            BY <2>1, <2>4, EmitIs
        <3> QED
            BY <3>1 DEF Shaped
    <2> QED
        BY <1>3, <2>2, <2>3, <2>4 DEF Colon
<1> QED
    BY <1>2, <1>3

\* White inside an operand is read over.
LEMMA BlankIs ==
    ASSUME LexerAssumption, LexerType, PlaceInv, BufferInv, Blank \/ Newline
    PROVE  Shaped
<1>1. PICK c \in {" ", "\n"} : /\ Reads(c) /\ Go /\ UNCHANGED states
                               /\ \/ UNCHANGED capture
                                  \/ /\ c = " " /\ StartExpression
                                     /\ UNCHANGED <<current_string, counters, quote>>
    BY DEF Blank, Newline, Plain
<1>2. /\ original_input[Offset + 1] = c /\ rest[1] = c /\ Ready(E) /\ Running /\ Goes(1)
      /\ UNCHANGED <<tokens, status>>
    BY <1>1, ReadsIs DEF Go
<1>3. UNCHANGED capture
    <2>1. c = " " => Begin(rest[1]) = expression_begin_offset
        BY <1>2, BeginIs
    <2> QED
        BY <1>1, <2>1 DEF capture, StartExpression
<1>4. c \in White /\ c \in Space
    BY Sets
<1>5. Skips
    BY <1>1, <1>2, <1>3, <1>4 DEF Skips
<1> QED
    BY <1>5 DEF Shaped

\* All else belongs to the operand.
LEMMA OtherIs ==
    ASSUME LexerAssumption, LexerType, PlaceInv, BufferInv, BeginQuoted \/ Other
    PROVE  Shaped
<1>1. counters \in Counters /\ quote \in Literal
    BY DEF LexerType
<1>2. CASE BeginQuoted
    <2> DEFINE raw(c) == c = "\"" /\ current_string # <<>>
                         /\ current_string[Len(current_string)] = "R"
    <2>1. PICK c \in Quote :
            /\ Plain(c) /\ Push(c) /\ Go /\ UNCHANGED <<states, counters>>
            /\ quote' = [NoQuote EXCEPT !.inside = TRUE, !.active = c, !.raw = raw(c)]
        BY <1>2 DEF BeginQuoted
    <2>2. raw(c) \in BOOLEAN
        OBVIOUS
    <2> HIDE DEF raw
    <2>3. quote' \in Literal
        BY <2>1, <2>2, QuoteIn
    <2>4. c \notin {" ", "\n", ")", ",", ":"}
        BY <2>1 DEF Quote
    <2>5. Grows(1)
        BY <1>1, <2>1, <2>3, <2>4, PushIs DEF Plain
    <2> QED
        BY <2>5 DEF Shaped
<1>3. CASE Other
    <2>1. PICK c \in Letters \ ({"\n", ",", ":", "?", " "} \cup Brackets \cup Quote) :
            Plain(c) /\ Push(c)
        BY <1>3 DEF Other
    <2>2. Go /\ UNCHANGED <<states, counters, quote>>
        BY <1>3 DEF Other
    <2>3. c \notin {" ", "\n", ")", ",", ":"}
        BY <2>1, Sets
    <2>4. Grows(1)
        BY <1>1, <2>1, <2>2, <2>3, PushIs DEF Plain
    <2> QED
        BY <2>4 DEF Shaped
<1> QED
    BY <1>2, <1>3

\* At the end of the input an operand is returned, or nothing is left.
LEMMA EndIs ==
    ASSUME LexerAssumption, LexerType, PlaceInv, BufferInv, EndOfInput
    PROVE  Shaped
<1>1. Running /\ rest = <<End>> /\ UNCHANGED <<original_input, more, rest, states>>
    BY DEF EndOfInput, Running
<1>2. CASE /\ current_string # <<>> /\ StoreLexeme(expression_begin_offset, location.offset)
           /\ location' = [location EXCEPT !.last_token_offset = location.offset]
    <2> DEFINE last == location.last_token_offset
               before == LocIn(original_input, Offset, last)
               after == LocIn(original_input, Offset, Offset)
    <2>1. location = before /\ location.offset = Offset /\ last \in Nat /\ Offset \in Nat
        BY OffsetsIn DEF PlaceInv, Offset
    <2>2. before \in Location /\ after \in Location
        BY <2>1, LocType
    <2>3. /\ before.line = after.line /\ before.column = after.column
          /\ before.offset = after.offset /\ before.history = after.history
          /\ after.last_token_offset = Offset
        BY DEF LocIn
    <2>4. location' = after
        <3> HIDE DEF last, before, after
        <3>1. location' = [before EXCEPT !.last_token_offset = Offset]
            BY <1>2, <2>1
        <3>2. /\ location' \in Location /\ location'.line = before.line
              /\ location'.column = before.column /\ location'.offset = before.offset
              /\ location'.history = before.history
              /\ location'.last_token_offset = Offset
            BY <2>1, <2>2, <3>1 DEF Location
        <3> QED
            BY <2>2, <2>3, <3>2, SameFields
    <2>5. Stays
        BY <1>1, <2>4 DEF Stays
    <2>6. states = <<F, E>>
        BY <1>1, <1>2 DEF BufferInv
    <2>7. \/ /\ expression_begin_offset = Invalid
             /\ status' = "aborted" /\ UNCHANGED <<tokens, capture>>
          \/ /\ expression_begin_offset # Invalid
             /\ tokens' = Append(tokens, Token("operand", expression_begin_offset, Offset))
             /\ expression_begin_offset' = Invalid /\ ClearExpressionBuffer
             /\ UNCHANGED status
        BY <1>2, <2>1 DEF StoreLexeme
    <2>8. Emits
        BY <1>1, <1>2, <2>5, <2>6, <2>7, Cleared DEF Emits
    <2> QED
        BY <2>8 DEF Shaped
<1>3. CASE current_string = <<>> /\ status' = "ended"
           /\ UNCHANGED <<location, capture, tokens>>
    <2>1. Ends
        BY <1>1, <1>3 DEF Ends
    <2> QED
        BY <2>1 DEF Shaped
<1> QED
    BY <1>2, <1>3 DEF EndOfInput

\* So every step is one of those.
LEMMA StepIs ==
    ASSUME LexerAssumption, LexerType, PlaceInv, BufferInv, Next
    PROVE  Shaped
<1>1. CASE \E c \in Typed \cup {End} : Type(c)
    <2>1. PICK c \in Typed \cup {End} : Type(c)
        BY <1>1
    <2>2. c \in Letters \cup {End} /\ Types(c)
        BY <2>1, TypeIs
    <2> QED
        BY <2>2 DEF Shaped
<1>2. CASE ClausePunctuation \/ ClauseSpace \/ ClauseWord \/ ClauseOther
    BY <1>2, ClauseStep
<1>3. CASE Scope
    BY <1>3, ScopeIs
<1>4. CASE \E c \in Letters : Quoted(c)
    <2>1. PICK c \in Letters : Quoted(c)
        BY <1>4
    <2> QED
        BY <2>1, QuotedIs
<1>5. CASE Newline \/ Blank
    BY <1>5, BlankIs
<1>6. CASE OpenParenthesis \/ CloseParenthesis
    BY <1>6, ParenthesisIs
<1>7. CASE Comma
    BY <1>7, CommaIs
<1>8. CASE Bracket \/ CloseBrace
    BY <1>8, BracketIs
<1>9. CASE Question \/ Colon
    BY <1>9, ColonIs
<1>10. CASE BeginQuoted \/ Other
    BY <1>10, OtherIs
<1>11. CASE EndOfInput
    BY <1>11, EndIs
<1> QED
    BY <1>1, <1>2, <1>3, <1>4, <1>5, <1>6, <1>7, <1>8, <1>9, <1>10, <1>11 DEF Next

-----------------------------------------------------------------------------
(* What every step keeps. *)

Pending == IF current_string = <<>> THEN {}
           ELSE IF expression_begin_offset = Invalid THEN LastEnd + 1 .. Offset
           ELSE expression_begin_offset + 1 .. Offset
Divided(i) ==
    /\ original_input[i] = ")"
    /\ \E divider \in 1 .. i - 1 :
        /\ original_input[divider] \in {",", ":"}
        /\ \A j \in divider + 1 .. i - 1 : original_input[j] \in White
TokensOrdered ==
    \A n \in DOMAIN tokens :
        /\ tokens[n].begin < tokens[n].end /\ tokens[n].end <= Offset
        /\ n > 1 => tokens[n - 1].end <= tokens[n].begin
        /\ tokens[n].kind # "operand" =>
            /\ tokens[n].end = tokens[n].begin + 1
            /\ original_input[tokens[n].end] = tokens[n].kind
AllKept ==
    \A i \in 1 .. Offset : i \in Covered \cup Pending \/ original_input[i] \in White \/ Divided(i)
Inv == LexerType /\ PlaceInv /\ BufferInv /\ TokensOrdered /\ AllKept
Tokens == [kind : Kinds, begin : Nat, end : Nat]

\* Where the last token ends is an offset that was read.
LEMMA LastEndIn ==
    ASSUME LexerType, PlaceInv, TokensOrdered
    PROVE  /\ LastEnd \in Nat /\ LastEnd <= Offset
           /\ tokens # <<>> => /\ Len(tokens) \in DOMAIN tokens
                               /\ LastEnd = tokens[Len(tokens)].end
           /\ tokens \in Seq(Tokens)
<1>1. tokens \in Seq(Tokens) /\ Len(tokens) \in Nat
    BY DEF LexerType, Tokens
<1>2. CASE tokens = <<>>
    BY <1>1, <1>2, OffsetsIn DEF LastEnd
<1>3. CASE tokens # <<>>
    <2>1. Len(tokens) \in DOMAIN tokens /\ LastEnd = tokens[Len(tokens)].end
        BY <1>1, <1>3 DEF LastEnd
    <2>2. tokens[Len(tokens)] \in Tokens
        BY <1>1, <2>1
    <2>3. LastEnd \in Nat /\ LastEnd <= Offset
        BY <2>1, <2>2 DEF Tokens, TokensOrdered
    <2> QED
        BY <1>1, <2>1, <2>3
<1> QED
    BY <1>2, <1>3

\* The text may grow behind what was read.
LEMMA SameLoc ==
    ASSUME NEW s, NEW t, NEW o \in Nat, NEW last, \A i \in 1 .. o : s[i] = t[i]
    PROVE  LocIn(s, o, last) = LocIn(t, o, last)
<1>1. \A k \in 0 .. o : EndsIn(s, k) = EndsIn(t, k)
    BY DEF EndsIn
<1>2. \A k \in 0 .. o : LineIn(s, k) = LineIn(t, k) /\ ColumnIn(s, k) = ColumnIn(t, k)
    BY <1>1 DEF LineIn, ColumnIn
<1>3. \A k \in 0 .. o : PlaceIn(s, k) = PlaceIn(t, k)
    BY <1>2 DEF PlaceIn
<1>4. \A n \in 1 .. o : n - 1 \in 0 .. o
    OBVIOUS
<1>5. [n \in 1 .. o |-> PlaceIn(s, n - 1)] = [n \in 1 .. o |-> PlaceIn(t, n - 1)]
    BY <1>3, <1>4
<1>6. o \in 0 .. o
    OBVIOUS
<1> QED
    BY <1>2, <1>5, <1>6 DEF LocIn

\* Every step keeps the place.
LEMMA PlaceStep ==
    ASSUME LexerAssumption, LexerType, PlaceInv, Shaped
    PROVE  /\ PlaceInv' /\ Offset' >= Offset /\ Offset' \in Nat
           /\ \A i \in 1 .. Len(original_input) : original_input'[i] = original_input[i]
           /\ original_input' \in Seq(Letters) /\ more' \in Nat
           /\ rest' \in Seq(Letters \cup {End})
           /\ Len(original_input') >= Len(original_input)
<1>1. /\ original_input \in Seq(Letters) /\ rest \in Seq(Letters \cup {End}) /\ more \in Nat
      /\ Offset \in Nat /\ Len(original_input) \in Nat /\ Len(rest) \in Nat
      /\ Offset <= Len(original_input)
    BY OffsetsIn DEF LexerType
<1>2. ASSUME NEW n \in Nat, Goes(n)
      PROVE  /\ PlaceInv' /\ Offset' = Offset + n /\ original_input' = original_input
             /\ more' = more /\ rest' \in Seq(Letters \cup {End})
    <2>1. PlaceInv' /\ Offset' = Offset + n
        BY <1>2, PlaceKept
    <2>2. rest' = SubSeq(rest, n + 1, Len(rest)) /\ original_input' = original_input
          /\ more' = more
        BY <1>2 DEF Goes
    <2>3. rest' \in Seq(Letters \cup {End})
        BY <1>1, <2>2
    <2> QED
        BY <2>1, <2>2, <2>3
<1>3. CASE \E n \in Nat : Goes(n)
    BY <1>1, <1>2, <1>3
<1>4. CASE Stays
    <2>1. PlaceInv' /\ original_input' = original_input /\ rest' = rest /\ more' = more
        BY <1>4, PlaceKept DEF Stays
    <2>2. location' = LocIn(original_input, Offset, Offset)
        BY <1>4 DEF Stays
    <2>3. Offset' = Offset
        BY <2>2 DEF Offset, LocIn
    <2> QED
        BY <1>1, <2>1, <2>3
<1>5. CASE Ends
    <2>1. UNCHANGED <<location, original_input, more, rest>>
        BY <1>5 DEF Ends
    <2>2. Offset' = Offset /\ Unseen' = Unseen
        BY <2>1 DEF Offset, Unseen
    <2>3. PlaceInv'
        BY <2>1, <2>2 DEF PlaceInv
    <2> QED
        BY <1>1, <2>1, <2>2, <2>3
<1>6. ASSUME NEW c \in Letters \cup {End}, Types(c)
      PROVE  /\ PlaceInv' /\ Offset' = Offset /\ more' \in Nat
             /\ \A i \in 1 .. Len(original_input) : original_input'[i] = original_input[i]
             /\ original_input' \in Seq(Letters)
             /\ rest' \in Seq(Letters \cup {End})
             /\ Len(original_input') >= Len(original_input)
    <2>1. location' = location /\ rest' = Append(rest, c) /\ Len(rest) = Unseen
        BY <1>6 DEF Types
    <2>2. /\ rest' \in Seq(Letters \cup {End}) /\ Len(rest') = Unseen + 1
          /\ rest'[Unseen + 1] = c /\ \A i \in 1 .. Unseen : rest'[i] = rest[i]
        BY <1>1, <2>1, AppendProperties
    <2>3. Offset' = Offset /\ location.last_token_offset \in Nat
        BY <2>1 DEF Offset, PlaceInv
    <2>4. CASE c = End /\ UNCHANGED <<original_input, more>>
        <3>1. Unseen' = Unseen
            BY <2>3, <2>4 DEF Unseen
        <3>2. PlaceInv'
            BY <2>1, <2>2, <2>3, <2>4, <3>1 DEF PlaceInv
        <3> QED
            BY <1>1, <2>2, <2>3, <2>4, <3>2
    <2>5. CASE c \in Letters /\ original_input' = Append(original_input, c) /\ more' \in Nat
        <3>1. /\ original_input' \in Seq(Letters)
              /\ Len(original_input') = Len(original_input) + 1
              /\ original_input'[Len(original_input) + 1] = c
              /\ \A i \in 1 .. Len(original_input) : original_input'[i] = original_input[i]
            BY <1>1, <2>5, AppendProperties
        <3>2. /\ Unseen' = Unseen + 1 /\ Unseen \in Nat
              /\ Offset + (Unseen + 1) = Len(original_input) + 1
            BY <1>1, <2>3, <3>1 DEF Unseen
        <3>3. \A i \in 1 .. Offset : original_input[i] = original_input'[i]
            BY <1>1, <3>1
        <3>4. LocIn(original_input', Offset, location.last_token_offset)
              = LocIn(original_input, Offset, location.last_token_offset)
            BY <1>1, <3>3, SameLoc
        <3>5. location' = LocIn(original_input', Offset', location'.last_token_offset)
            BY <2>1, <2>3, <3>4 DEF PlaceInv
        <3>6. \A i \in 1 .. Unseen' : rest'[i] = original_input'[Offset' + i]
            <4> TAKE i \in 1 .. Unseen'
            <4>1. CASE i = Unseen + 1
                BY <2>2, <2>3, <3>1, <3>2, <4>1
            <4>2. CASE i # Unseen + 1
                <5>1. i \in 1 .. Unseen /\ Offset + i \in 1 .. Len(original_input)
                    BY <1>1, <3>2, <4>2
                <5> QED
                    BY <2>2, <2>3, <3>1, <5>1 DEF PlaceInv
            <4> QED
                BY <4>1, <4>2
        <3>7. Len(rest') = Unseen' /\ Unseen' \in Nat /\ Offset' \in 0 .. Len(original_input')
            BY <1>1, <2>2, <2>3, <3>1, <3>2
        <3>8. Len(rest') # Unseen' + 1
            BY <2>2, <3>2
        <3>9. PlaceInv'
            BY <2>1, <2>3, <3>5, <3>6, <3>7, <3>8 DEF PlaceInv
        <3> QED
            BY <1>1, <2>2, <2>3, <2>5, <3>1, <3>9
    <2> QED
        BY <1>6, <2>4, <2>5 DEF Types
<1>7. CASE \E c \in Letters \cup {End} : Types(c)
    <2>1. PICK c \in Letters \cup {End} : Types(c)
        BY <1>7
    <2> QED
        BY <1>1, <1>6, <2>1
<1> QED
    BY <1>3, <1>4, <1>5, <1>7 DEF Shaped, Skips, Divides, Grows, Emits, Leaves

\* Every step keeps the type.
LEMMA TypeKept ==
    ASSUME LexerAssumption, Inv, Shaped
    PROVE  LexerType'
<1>1. /\ original_input' \in Seq(Letters) /\ more' \in Nat
      /\ rest' \in Seq(Letters \cup {End})
    BY PlaceStep DEF Inv
<1>2. /\ tokens \in Seq(Tokens) /\ LastEnd \in Nat /\ Offset \in Nat
    BY LastEndIn, OffsetsIn DEF Inv
<1>3. BufferType /\ states \in {<<>>, <<F>>, <<F, E>>}
      /\ status \in {"running", "ended", "aborted"}
    BY DEF Inv, LexerType, BufferType
<1> DEFINE Typed2 == /\ BufferType' /\ states' \in {<<>>, <<F>>, <<F, E>>}
                     /\ status' \in {"running", "ended", "aborted"} /\ tokens' \in Seq(Tokens)
<1>4. UNCHANGED capture => BufferType'
    BY <1>3 DEF capture, BufferType
<1>5. ASSUME NEW c \in Letters \cup {End}, Types(c) PROVE Typed2
    <2>1. UNCHANGED capture /\ UNCHANGED <<states, tokens, status>>
        BY <1>5 DEF Types
    <2> QED
        BY <1>2, <1>3, <1>4, <2>1
<1>6. ASSUME Skips PROVE Typed2
    BY <1>2, <1>3, <1>4, <1>6 DEF Skips
<1>7. ASSUME NEW kind \in Kinds, Divides(kind) PROVE Typed2
    <2>1. Token(kind, Offset, Offset + 1) \in Tokens
        BY <1>2 DEF Token, Tokens
    <2>2. tokens' \in Seq(Tokens)
        BY <1>2, <1>7, <2>1, AppendProperties DEF Divides
    <2> QED
        BY <1>3, <1>7, <2>2 DEF Divides
<1>8. ASSUME NEW n \in Nat, Grows(n) PROVE Typed2
    BY <1>2, <1>3, <1>8 DEF Grows
<1>9. ASSUME Emits PROVE Typed2
    <2>1. states' \in {<<>>, <<F>>, <<F, E>>}
        BY <1>9 DEF Emits
    <2>2. CASE status' = "aborted" /\ UNCHANGED <<tokens, capture>>
        BY <1>2, <1>4, <2>1, <2>2
    <2>3. CASE /\ expression_begin_offset # Invalid
               /\ tokens' = Append(tokens, Token("operand", expression_begin_offset, Offset))
               /\ BufferType' /\ UNCHANGED status
        <3>1. expression_begin_offset \in Nat
            <4>1. LastEnd <= expression_begin_offset /\ expression_begin_offset \in Int
                BY <1>9, <2>3 DEF Inv, BufferInv, Emits, LexerType
            <4> QED
                BY <1>2, <4>1
        <3>2. Token("operand", expression_begin_offset, Offset) \in Tokens
            BY <1>2, <3>1 DEF Token, Tokens, Kinds
        <3>3. tokens' \in Seq(Tokens)
            BY <1>2, <2>3, <3>2, AppendProperties
        <3> QED
            BY <1>3, <2>1, <2>3, <3>3
    <2> QED
        BY <1>9, <2>2, <2>3 DEF Emits
<1>10. ASSUME Leaves PROVE Typed2
    BY <1>2, <1>3, <1>10 DEF Leaves
<1>11. ASSUME Ends PROVE Typed2
    BY <1>2, <1>3, <1>4, <1>11 DEF Ends
<1>12. Typed2
    BY <1>5, <1>6, <1>7, <1>8, <1>9, <1>10, <1>11 DEF Shaped
<1> QED
    BY <1>1, <1>12 DEF LexerType, BufferType, Tokens

\* A token behind all others.
LEMMA TokenAdded ==
    ASSUME LexerType, PlaceInv, TokensOrdered, NEW k \in Kinds, NEW b \in Nat, NEW e \in Nat,
           LastEnd <= b, b < e, e <= Offset', Offset <= Offset', Offset' \in Nat,
           tokens' = Append(tokens, Token(k, b, e)),
           \A i \in 1 .. Offset : original_input'[i] = original_input[i],
           k # "operand" => e = b + 1 /\ original_input'[e] = k
    PROVE  /\ TokensOrdered' /\ LastEnd' = e /\ tokens' # <<>>
           /\ tokens'[Len(tokens')].kind = k
           /\ Covered' = Covered \cup (b + 1 .. e)
<1> DEFINE t == Token(k, b, e)
           m == Len(tokens)
<1>1. /\ tokens \in Seq(Tokens) /\ m \in Nat /\ DOMAIN tokens = 1 .. m
      /\ LastEnd \in Nat /\ (tokens # <<>> => LastEnd = tokens[m].end)
    BY LastEndIn
<1>2. t \in Tokens /\ t.kind = k /\ t.begin = b /\ t.end = e
    BY DEF Token, Tokens
<1>3. /\ tokens' \in Seq(Tokens) /\ Len(tokens') = m + 1 /\ tokens'[m + 1] = t
      /\ (\A i \in 1 .. m : tokens'[i] = tokens[i]) /\ tokens' # <<>>
      /\ DOMAIN tokens' = 1 .. m + 1
    <2>1. tokens' = Append(tokens, t)
        OBVIOUS
    <2> HIDE DEF t
    <2>2. /\ tokens' \in Seq(Tokens) /\ Len(tokens') = m + 1 /\ tokens'[m + 1] = t
          /\ (\A i \in 1 .. m : tokens'[i] = tokens[i]) /\ tokens' # <<>>
        BY <1>1, <1>2, <2>1, AppendProperties
    <2> QED
        BY <2>2
<1>4. \A n \in 1 .. m : tokens[n] \in Tokens /\ tokens[n].end \in 1 .. Offset
    <2> TAKE n \in 1 .. m
    <2>1. tokens[n] \in Tokens
        BY <1>1
    <2>2. tokens[n].end \in Nat /\ tokens[n].begin \in Nat
        BY <2>1 DEF Tokens
    <2>3. tokens[n].begin < tokens[n].end /\ tokens[n].end <= Offset
        BY <1>1 DEF TokensOrdered
    <2> QED
        BY <2>1, <2>2, <2>3, OffsetsIn
<1> HIDE DEF t, m
<1>5. ASSUME NEW n \in DOMAIN tokens'
      PROVE  /\ tokens'[n].begin < tokens'[n].end /\ tokens'[n].end <= Offset'
             /\ n > 1 => tokens'[n - 1].end <= tokens'[n].begin
             /\ tokens'[n].kind # "operand" =>
                    /\ tokens'[n].end = tokens'[n].begin + 1
                    /\ original_input'[tokens'[n].end] = tokens'[n].kind
    <2>1. CASE n = m + 1
        <3>1. tokens'[n] = t
            BY <1>3, <2>1
        <3>2. n > 1 => tokens'[n - 1].end <= t.begin
            <4> HAVE n > 1
            <4>1. n - 1 = m /\ m \in 1 .. m
                BY <1>1, <2>1
            <4>2. tokens'[n - 1] = tokens[m] /\ tokens # <<>>
                BY <1>1, <1>3, <4>1
            <4> QED
                BY <1>1, <1>2, <4>2
        <3> QED
            BY <1>2, <3>1, <3>2
    <2>2. CASE n # m + 1
        <3>1. n \in 1 .. m /\ n \in DOMAIN tokens /\ tokens'[n] = tokens[n]
            BY <1>1, <1>3, <2>2
        <3>2. n > 1 => tokens'[n - 1] = tokens[n - 1]
            <4> HAVE n > 1
            <4>1. n - 1 \in 1 .. m
                BY <1>1, <3>1
            <4> QED
                BY <1>3, <4>1
        <3>3. /\ tokens[n].begin < tokens[n].end /\ tokens[n].end <= Offset
              /\ n > 1 => tokens[n - 1].end <= tokens[n].begin
              /\ tokens[n].kind # "operand" =>
                    /\ tokens[n].end = tokens[n].begin + 1
                    /\ original_input[tokens[n].end] = tokens[n].kind
            BY <3>1 DEF TokensOrdered
        <3>4. original_input'[tokens[n].end] = original_input[tokens[n].end]
            BY <1>4, <3>1
        <3>5. tokens[n].end <= Offset'
            BY <1>4, <3>1, <3>3, OffsetsIn
        <3> QED
            BY <3>1, <3>2, <3>3, <3>4, <3>5
    <2> QED
        BY <2>1, <2>2
<1>6. TokensOrdered'
    BY <1>5 DEF TokensOrdered
<1>7. LastEnd' = e /\ tokens'[Len(tokens')].kind = k
    BY <1>2, <1>3 DEF LastEnd
<1>8. Covered' = Covered \cup (b + 1 .. e)
    <2>1. \A x : x \in Covered' <=>
                \E n \in 1 .. m + 1 : x \in tokens'[n].begin + 1 .. tokens'[n].end
        BY <1>3 DEF Covered
    <2>2. \A x : x \in Covered <=>
                \E n \in 1 .. m : x \in tokens[n].begin + 1 .. tokens[n].end
        BY <1>1 DEF Covered
    <2>3. \A n \in 1 .. m + 1 : n \in 1 .. m \/ n = m + 1
        BY <1>1
    <2>4. m + 1 \in 1 .. m + 1 /\ \A n \in 1 .. m : n \in 1 .. m + 1
        BY <1>1
    <2>5. tokens'[m + 1].begin + 1 .. tokens'[m + 1].end = b + 1 .. e
        BY <1>2, <1>3
    <2>6. \A x : x \in Covered' <=> x \in Covered \/ x \in b + 1 .. e
        BY <1>3, <2>1, <2>2, <2>3, <2>4, <2>5
    <2> QED
        BY <2>6
<1> QED
    BY <1>3, <1>6, <1>7, <1>8

\* What was read stays as it is.
Same == \A i \in 1 .. Offset : original_input'[i] = original_input[i]

\* What is behind a divider stays so while the text grows, ...
LEMMA BehindKept ==
    ASSUME LexerType, PlaceInv, TokensOrdered, BehindDivider, UNCHANGED tokens, Same,
           Offset' \in Nat, \A i \in Offset + 1 .. Offset' : original_input'[i] \in Space
    PROVE  BehindDivider'
<1>1. LastEnd \in Nat /\ LastEnd' = LastEnd /\ Offset \in Nat
    BY LastEndIn, OffsetsIn DEF LastEnd
<1>2. \A i \in LastEnd' + 1 .. Offset' : original_input'[i] \in Space
    <2> TAKE i \in LastEnd' + 1 .. Offset'
    <2>1. CASE i <= Offset
        <3>1. i \in LastEnd + 1 .. Offset /\ i \in 1 .. Offset
            BY <1>1, <2>1
        <3> QED
            BY <3>1 DEF BehindDivider, Same
    <2>2. CASE ~(i <= Offset)
        <3>1. i \in Offset + 1 .. Offset'
            BY <1>1, <2>2
        <3> QED
            BY <3>1
    <2> QED
        BY <2>1, <2>2
<1> QED
    BY <1>2 DEF BehindDivider

\* ... and so does an operand for which no offset is kept.
LEMMA UnanchoredKept ==
    ASSUME LexerType, PlaceInv, TokensOrdered, NEW p \in LastEnd + 1 .. Offset, Unanchored(p),
           UNCHANGED tokens, Same, Offset' \in Nat, Offset' >= Offset
    PROVE  p \in LastEnd' + 1 .. Offset' /\ Unanchored(p)'
<1>1. LastEnd \in Nat /\ LastEnd' = LastEnd /\ Offset \in Nat /\ p \in 1 .. Offset
    BY LastEndIn, OffsetsIn DEF LastEnd
<1>2. p \in LastEnd' + 1 .. Offset'
    BY <1>1
<1>3. \A i \in LastEnd' + 1 .. p - 1 : original_input'[i] \in Space
    <2> TAKE i \in LastEnd' + 1 .. p - 1
    <2>1. i \in LastEnd + 1 .. p - 1 /\ i \in 1 .. Offset
        BY <1>1
    <2> QED
        BY <2>1 DEF Unanchored, Same
<1>4. original_input'[p] = original_input[p]
    BY <1>1 DEF Same
<1>5. p < Offset => p < Offset' /\ original_input'[p + 1] = original_input[p + 1]
    <2> HAVE p < Offset
    <2>1. p + 1 \in 1 .. Offset /\ p < Offset'
        BY <1>1
    <2> QED
        BY <2>1 DEF Same
<1> QED
    BY <1>2, <1>3, <1>4, <1>5 DEF Unanchored

\* Tokens that were in order are when more is read.
LEMMA OrderKept ==
    ASSUME LexerType, PlaceInv, TokensOrdered, UNCHANGED tokens, Same,
           Offset' \in Nat, Offset' >= Offset
    PROVE  TokensOrdered'
<1>1. tokens \in Seq(Tokens) /\ Offset \in Nat
    BY LastEndIn, OffsetsIn
<1> SUFFICES ASSUME NEW n \in DOMAIN tokens
             PROVE  /\ tokens[n].begin < tokens[n].end /\ tokens[n].end <= Offset'
                    /\ n > 1 => tokens[n - 1].end <= tokens[n].begin
                    /\ tokens[n].kind # "operand" =>
                        /\ tokens[n].end = tokens[n].begin + 1
                        /\ original_input'[tokens[n].end] = tokens[n].kind
    BY DEF TokensOrdered
<1>2. tokens[n].begin \in Nat /\ tokens[n].end \in Nat
    <2>1. tokens[n] \in Tokens
        BY <1>1
    <2> QED
        BY <2>1 DEF Tokens
<1>3. /\ tokens[n].begin < tokens[n].end /\ tokens[n].end <= Offset
      /\ n > 1 => tokens[n - 1].end <= tokens[n].begin
      /\ tokens[n].kind # "operand" =>
            /\ tokens[n].end = tokens[n].begin + 1
            /\ original_input[tokens[n].end] = tokens[n].kind
    BY DEF TokensOrdered
<1>4. tokens[n].end \in 1 .. Offset /\ tokens[n].end <= Offset'
    BY <1>1, <1>2, <1>3
<1>5. original_input'[tokens[n].end] = original_input[tokens[n].end]
    BY <1>4 DEF Same
<1> QED
    BY <1>3, <1>4, <1>5

\* What was accounted for is when more is read, if what is new is.
LEMMA KeptStep ==
    ASSUME AllKept, Same, Offset \in Nat, Offset' \in Nat, Offset' >= Offset,
           Covered \subseteq Covered', Pending \subseteq Pending' \cup Covered',
           \A i \in Offset + 1 .. Offset' :
                i \in Covered' \cup Pending' \/ original_input'[i] \in White \/ Divided(i)'
    PROVE  AllKept'
<1>1. ASSUME NEW i \in 1 .. Offset'
      PROVE  i \in Covered' \cup Pending' \/ original_input'[i] \in White \/ Divided(i)'
    <2>1. CASE i <= Offset
        <3>1. i \in 1 .. Offset /\ original_input'[i] = original_input[i]
            BY <2>1 DEF Same
        <3>2. ASSUME Divided(i) PROVE Divided(i)'
            <4>1. PICK divider \in 1 .. i - 1 :
                    /\ original_input[divider] \in {",", ":"}
                    /\ \A j \in divider + 1 .. i - 1 : original_input[j] \in White
                BY <3>2 DEF Divided
            <4>2. divider \in 1 .. Offset /\ \A j \in divider + 1 .. i - 1 : j \in 1 .. Offset
                BY <3>1
            <4>3. /\ original_input'[divider] \in {",", ":"}
                  /\ \A j \in divider + 1 .. i - 1 : original_input'[j] \in White
                BY <4>1, <4>2 DEF Same
            <4>4. original_input'[i] = ")"
                BY <3>1, <3>2 DEF Divided
            <4> QED
                BY <4>3, <4>4 DEF Divided
        <3>3. i \in Covered \cup Pending \/ original_input[i] \in White \/ Divided(i)
            BY <3>1 DEF AllKept
        <3> QED
            BY <3>1, <3>2, <3>3
    <2>2. CASE ~(i <= Offset)
        <3>1. i \in Offset + 1 .. Offset'
            BY <2>2
        <3> QED
            BY <3>1
    <2> QED
        BY <2>1, <2>2
<1> QED
    BY <1>1 DEF AllKept

\* What is read next is what the text goes on with.
LEMMA ReadIs ==
    ASSUME LexerAssumption, LexerType, PlaceInv, NEW n \in Nat, Goes(n)
    PROVE  /\ Offset' = Offset + n /\ Same /\ original_input' = original_input
           /\ rest # <<>> /\ rest[1] = original_input[Offset + 1] /\ rest[1] # End
           /\ rest # <<End>> /\ PlaceInv' /\ n > 0
<1>1. n \in 1 .. Unseen /\ original_input' = original_input
    BY DEF Goes
<1>2. Unseen \in Nat /\ Len(rest) \in Nat /\ Len(rest) >= Unseen
    BY NextIsText DEF PlaceInv
<1>3. 1 \in 1 .. Unseen /\ 1 \in 1 .. Len(rest) /\ n > 0
    BY <1>1, <1>2
<1>4. rest[1] = original_input[Offset + 1] /\ rest[1] # End
    BY <1>3, NextIsText DEF PlaceInv
<1>5. rest # <<>> /\ rest # <<End>>
    <2>1. rest = <<>> => Len(rest) = 0
        OBVIOUS
    <2>2. rest = <<End>> => rest[1] = End
        OBVIOUS
    <2> QED
        BY <1>3, <1>4, <2>1, <2>2
<1> QED
    BY <1>1, <1>3, <1>4, <1>5, PlaceKept DEF Same

\* The steps, one by one.
LEMMA TypesKeep ==
    ASSUME LexerAssumption, Inv, NEW c \in Letters \cup {End}, Types(c)
    PROVE  Inv'
<1>1. /\ PlaceInv' /\ Offset' \in Nat /\ Offset' >= Offset /\ Offset \in Nat
      /\ LexerType /\ PlaceInv /\ BufferInv /\ TokensOrdered /\ AllKept
      /\ \A i \in 1 .. Len(original_input) : original_input'[i] = original_input[i]
      /\ Offset <= Len(original_input) /\ Len(original_input) \in Nat
    BY PlaceStep, OffsetsIn DEF Inv, Shaped
<1>2. /\ UNCHANGED <<location, states, capture, tokens, status>>
      /\ rest' = Append(rest, c) /\ Len(rest) = Unseen /\ Running
    BY DEF Types
<1>3. UNCHANGED <<current_string, counters, quote, expression_begin_offset>>
    BY <1>2 DEF capture
<1>4. Offset' = Offset /\ LastEnd' = LastEnd /\ Running'
    BY <1>2 DEF Offset, LastEnd, Running
<1>5. Same
    BY <1>1 DEF Same
<1>6. \A i \in Offset + 1 .. Offset' : FALSE
    BY <1>1, <1>4
<1>7. LexerType'
    BY TypeKept DEF Shaped
<1>8. TokensOrdered'
    BY <1>1, <1>2, <1>5, OrderKept
<1>9. AllKept'
    <2>1. Covered' = Covered
        BY <1>2 DEF Covered
    <2>2. Pending' = Pending
        BY <1>3, <1>4 DEF Pending
    <2> QED
        BY <1>1, <1>5, <1>6, <2>1, <2>2, KeptStep
<1>10. BufferInv'
    <2>1. (current_string = <<>> =>
                expression_begin_offset = Invalid /\ ~quote.inside /\ counters.brace = 0)'
        BY <1>1, <1>3 DEF BufferInv
    <2>2. (current_string # <<>> /\ expression_begin_offset # Invalid =>
                LastEnd <= expression_begin_offset /\ expression_begin_offset < Offset)'
        BY <1>1, <1>3, <1>4 DEF BufferInv
    <2>3. (current_string # <<>> /\ expression_begin_offset = Invalid =>
                \E p \in LastEnd + 1 .. Offset : Unanchored(p))'
        <3> SUFFICES ASSUME current_string # <<>>, expression_begin_offset = Invalid
                     PROVE  \E p \in LastEnd' + 1 .. Offset' : Unanchored(p)'
            BY <1>3
        <3>1. PICK p \in LastEnd + 1 .. Offset : Unanchored(p)
            BY <1>1 DEF BufferInv
        <3> QED
            BY <1>1, <1>2, <1>5, <3>1, UnanchoredKept
    <2>4. (Running /\ states # <<F, E>> => current_string = <<>>)'
        BY <1>1, <1>2, <1>3 DEF BufferInv
    <2>5. (Running /\ states = <<F, E>> /\ current_string = <<>> =>
            /\ counters = FreshCounters
            /\ BehindDivider \/ (rest # <<>> /\ rest[1] = ",") \/ rest = <<End>>)'
        <3> SUFFICES ASSUME states = <<F, E>>, current_string = <<>>
                     PROVE  /\ counters = FreshCounters
                            /\ BehindDivider' \/ (rest' # <<>> /\ rest'[1] = ",")
            BY <1>2, <1>3
        <3>1. /\ counters = FreshCounters
              /\ BehindDivider \/ (rest # <<>> /\ rest[1] = ",") \/ rest = <<End>>
            BY <1>1, <1>2 DEF BufferInv
        <3>2. CASE BehindDivider
            BY <1>1, <1>2, <1>5, <1>6, <3>1, <3>2, BehindKept
        <3>3. CASE rest # <<>> /\ rest[1] = ","
            <4>1. rest \in Seq(Letters \cup {End})
                BY <1>1 DEF LexerType
            <4>2. rest' # <<>> /\ rest'[1] = rest[1]
                <5>1. 1 \in 1 .. Len(rest)
                    <6>1. rest # <<>>
                        BY <3>3
                    <6> QED
                        BY <4>1, <6>1
                <5>2. /\ Append(rest, c) # <<>>
                      /\ \A i \in 1 .. Len(rest) : Append(rest, c)[i] = rest[i]
                    BY <4>1, AppendProperties
                <5> QED
                    BY <1>2, <5>1, <5>2
            <4> QED
                BY <3>1, <3>3, <4>2
        <3>4. rest # <<End>>
            <4>1. rest = <<End>> => Len(rest) = 1 /\ rest[1] = End
                OBVIOUS
            <4>2. Len(rest) = 1 => 1 \in 1 .. Unseen /\ 1 \in 1 .. Len(rest)
                BY <1>2
            <4> QED
                BY <1>1, <4>1, <4>2, NextIsText
        <3> QED
            BY <3>1, <3>2, <3>3, <3>4
    <2>6. (status = "ended" => current_string = <<>>)'
        BY <1>1, <1>2, <1>3 DEF BufferInv
    <2>7. (status = "aborted" => current_string # <<>> /\ expression_begin_offset = Invalid)'
        BY <1>1, <1>2, <1>3 DEF BufferInv
    <2> QED
        BY <2>1, <2>2, <2>3, <2>4, <2>5, <2>6, <2>7 DEF BufferInv
<1> QED
    BY <1>1, <1>7, <1>8, <1>9, <1>10 DEF Inv

\* ... white is read,
LEMMA SkipsKeep ==
    ASSUME LexerAssumption, Inv, Skips
    PROVE  Inv'
<1>1. /\ LexerType /\ PlaceInv /\ BufferInv /\ TokensOrdered /\ AllKept
      /\ Running /\ Goes(1) /\ original_input[Offset + 1] \in White
      /\ (states = <<F, E>> => original_input[Offset + 1] \in Space)
      /\ UNCHANGED <<states, capture, tokens, status>>
    BY DEF Inv, Skips
<1>2. UNCHANGED <<current_string, counters, quote, expression_begin_offset>>
    BY <1>1 DEF capture
<1>3. /\ Offset' = Offset + 1 /\ Same /\ original_input' = original_input /\ PlaceInv'
      /\ rest[1] = original_input[Offset + 1] /\ rest # <<End>>
    BY <1>1, ReadIs
<1>4. Offset \in Nat /\ Offset' \in Nat /\ Offset' >= Offset
    BY <1>1, <1>3, OffsetsIn
<1>5. LastEnd' = LastEnd /\ Running' /\ LastEnd \in Nat
    BY <1>1, LastEndIn DEF LastEnd, Running
<1>6. \A i \in Offset + 1 .. Offset' : i = Offset + 1
    BY <1>3, <1>4
<1>7. LexerType'
    BY TypeKept DEF Shaped
<1>8. TokensOrdered'
    BY <1>1, <1>3, <1>4, OrderKept
<1>9. AllKept'
    <2>1. Covered' = Covered
        BY <1>1 DEF Covered
    <2>2. Pending \subseteq Pending'
        <3>1. \A x \in Int : x + 1 .. Offset \subseteq x + 1 .. Offset'
            BY <1>3, <1>4
        <3>2. expression_begin_offset \in Int /\ LastEnd \in Int
            BY <1>1, <1>5, OffsetsIn
        <3> QED
            BY <1>2, <1>5, <3>1, <3>2 DEF Pending
    <2>3. \A i \in Offset + 1 .. Offset' : original_input'[i] \in White
        BY <1>1, <1>3, <1>6
    <2> QED
        BY <1>1, <1>3, <1>4, <2>1, <2>2, <2>3, KeptStep
<1>10. BufferInv'
    <2>1. (current_string = <<>> =>
                expression_begin_offset = Invalid /\ ~quote.inside /\ counters.brace = 0)'
        BY <1>1, <1>2 DEF BufferInv
    <2>2. (current_string # <<>> /\ expression_begin_offset # Invalid =>
                LastEnd <= expression_begin_offset /\ expression_begin_offset < Offset)'
        <3> SUFFICES ASSUME current_string # <<>>, expression_begin_offset # Invalid
                     PROVE  LastEnd <= expression_begin_offset
                            /\ expression_begin_offset < Offset'
            BY <1>2, <1>5
        <3>1. LastEnd <= expression_begin_offset /\ expression_begin_offset < Offset
            BY <1>1 DEF BufferInv
        <3> QED
            BY <1>1, <1>3, <1>4, <3>1, OffsetsIn
    <2>3. (current_string # <<>> /\ expression_begin_offset = Invalid =>
                \E p \in LastEnd + 1 .. Offset : Unanchored(p))'
        <3> SUFFICES ASSUME current_string # <<>>, expression_begin_offset = Invalid
                     PROVE  \E p \in LastEnd' + 1 .. Offset' : Unanchored(p)'
            BY <1>2
        <3>1. PICK p \in LastEnd + 1 .. Offset : Unanchored(p)
            BY <1>1 DEF BufferInv
        <3> QED
            BY <1>1, <1>3, <1>4, <3>1, UnanchoredKept
    <2>4. (Running /\ states # <<F, E>> => current_string = <<>>)'
        BY <1>1, <1>2 DEF BufferInv
    <2>5. (Running /\ states = <<F, E>> /\ current_string = <<>> =>
            /\ counters = FreshCounters
            /\ BehindDivider \/ (rest # <<>> /\ rest[1] = ",") \/ rest = <<End>>)'
        <3> SUFFICES ASSUME states = <<F, E>>, current_string = <<>>
                     PROVE  counters = FreshCounters /\ BehindDivider'
            BY <1>1, <1>2
        <3>1. /\ counters = FreshCounters
              /\ BehindDivider \/ (rest # <<>> /\ rest[1] = ",") \/ rest = <<End>>
            BY <1>1 DEF BufferInv
        <3>2. original_input[Offset + 1] \in Space
            BY <1>1
        <3>3. rest[1] # ","
            BY <1>3, <3>2, Sets
        <3>4. \A i \in Offset + 1 .. Offset' : original_input'[i] \in Space
            BY <1>3, <1>6, <3>2
        <3>5. BehindDivider'
            BY <1>1, <1>3, <1>4, <3>1, <3>3, <3>4, BehindKept
        <3> QED
            BY <3>1, <3>5
    <2>6. (status = "ended" => current_string = <<>>)'
        BY <1>1, <1>2 DEF BufferInv
    <2>7. (status = "aborted" => current_string # <<>> /\ expression_begin_offset = Invalid)'
        BY <1>1, <1>2 DEF BufferInv
    <2> QED
        BY <2>1, <2>2, <2>3, <2>4, <2>5, <2>6, <2>7 DEF BufferInv
<1> QED
    BY <1>3, <1>7, <1>8, <1>9, <1>10 DEF Inv

\* ... a token is returned,
LEMMA DividesKeep ==
    ASSUME LexerAssumption, Inv, NEW kind \in Kinds, Divides(kind)
    PROVE  Inv'
<1>1. /\ LexerType /\ PlaceInv /\ BufferInv /\ TokensOrdered /\ AllKept
      /\ Running /\ Goes(1) /\ original_input[Offset + 1] = kind /\ kind # "operand"
      /\ tokens' = Append(tokens, Token(kind, Offset, Offset + 1)) /\ UNCHANGED status
      /\ current_string = <<>> /\ current_string' = <<>> /\ expression_begin_offset' = Invalid
      /\ ~quote'.inside /\ counters'.brace = 0
    BY DEF Inv, Divides
<1>2. \/ states' \in {<<>>, <<F>>}
      \/ states' = <<F, E>> /\ kind \in {",", ":"} /\ counters' = FreshCounters
    BY DEF Divides
<1>3. Offset' = Offset + 1 /\ Same /\ original_input' = original_input /\ PlaceInv'
    BY <1>1, ReadIs
<1>4. Offset \in Nat /\ Offset' \in Nat /\ Offset' >= Offset
    BY <1>1, <1>3, OffsetsIn
<1>5. LastEnd \in Nat /\ LastEnd <= Offset
    BY <1>1, LastEndIn
<1>6. /\ TokensOrdered' /\ LastEnd' = Offset + 1 /\ tokens' # <<>>
      /\ tokens'[Len(tokens')].kind = kind /\ Covered' = Covered \cup (Offset + 1 .. Offset + 1)
    <2>1. Offset + 1 \in Nat /\ Offset < Offset + 1 /\ Offset + 1 <= Offset'
          /\ \A i \in 1 .. Offset : original_input'[i] = original_input[i]
        BY <1>3, <1>4 DEF Same
    <2>2. kind # "operand" => Offset + 1 = Offset + 1 /\ original_input'[Offset + 1] = kind
        BY <1>1, <1>3
    <2> QED
        BY <1>1, <1>4, <1>5, <2>1, <2>2, TokenAdded
<1>7. LexerType'
    BY TypeKept DEF Shaped
<1>8. AllKept'
    <2>1. Pending = {}
        BY <1>1 DEF Pending
    <2>2. \A i \in Offset + 1 .. Offset' : i \in Covered'
        BY <1>3, <1>6
    <2> QED
        BY <1>1, <1>3, <1>4, <1>6, <2>1, <2>2, KeptStep
<1>9. Running' /\ \A i \in LastEnd' + 1 .. Offset' : FALSE
    BY <1>1, <1>3, <1>4, <1>6 DEF Running
<1>10. states' = <<F, E>> => BehindDivider' /\ counters' = FreshCounters
    <2> HAVE states' = <<F, E>>
    <2>1. kind \in {",", ":"} /\ counters' = FreshCounters
        BY <1>2
    <2> QED
        BY <1>6, <1>9, <2>1 DEF BehindDivider
<1>11. status' = "running"
    BY <1>9 DEF Running
<1>12. BufferInv'
    BY <1>1, <1>10, <1>11 DEF BufferInv
<1> QED
    BY <1>3, <1>6, <1>7, <1>8, <1>12 DEF Inv

\* ... an operand begins or grows,
LEMMA GrowsKeep ==
    ASSUME LexerAssumption, Inv, NEW n \in {1, 2}, Grows(n)
    PROVE  Inv'
<1>1. /\ LexerType /\ PlaceInv /\ BufferInv /\ TokensOrdered /\ AllKept
      /\ Running /\ Goes(n) /\ states \in {<<F>>, <<F, E>>} /\ states' = <<F, E>>
      /\ current_string' # <<>> /\ UNCHANGED <<tokens, status>>
    BY DEF Inv, Grows
<1>2. /\ Offset' = Offset + n /\ Same /\ original_input' = original_input /\ PlaceInv'
      /\ rest[1] = original_input[Offset + 1] /\ rest # <<End>>
    BY <1>1, ReadIs
<1>3. Offset \in Nat /\ Offset' \in Nat /\ Offset' >= Offset /\ Offset < Offset'
    BY <1>1, <1>2, OffsetsIn
<1>4. LastEnd' = LastEnd /\ Running' /\ LastEnd \in Nat /\ LastEnd <= Offset
    BY <1>1, LastEndIn DEF LastEnd, Running
<1>5. LexerType'
    BY TypeKept DEF Shaped
<1>6. TokensOrdered'
    BY <1>1, <1>2, <1>3, OrderKept
<1>7. Covered' = Covered
    BY <1>1 DEF Covered
<1>8. expression_begin_offset \in Int /\ Offset # Invalid
    BY <1>1, <1>3, OffsetsIn DEF Invalid
<1> DEFINE Kept2 ==
        /\ AllKept'
        /\ expression_begin_offset' # Invalid =>
                LastEnd <= expression_begin_offset' /\ expression_begin_offset' < Offset'
        /\ expression_begin_offset' = Invalid =>
                \E p \in LastEnd' + 1 .. Offset' : Unanchored(p)'
<1>9. ASSUME current_string # <<>>, expression_begin_offset' = expression_begin_offset
      PROVE  Kept2
    <2>1. ASSUME expression_begin_offset # Invalid
          PROVE  LastEnd <= expression_begin_offset /\ expression_begin_offset < Offset'
                 /\ expression_begin_offset < Offset
        <3>1. LastEnd <= expression_begin_offset /\ expression_begin_offset < Offset
            BY <1>1, <1>9, <2>1 DEF BufferInv
        <3> QED
            BY <1>3, <1>8, <3>1
    <2>2. ASSUME expression_begin_offset = Invalid
          PROVE  \E p \in LastEnd' + 1 .. Offset' : Unanchored(p)'
        <3>1. PICK p \in LastEnd + 1 .. Offset : Unanchored(p)
            BY <1>1, <1>9, <2>2 DEF BufferInv
        <3> QED
            BY <1>1, <1>2, <1>3, <3>1, UnanchoredKept
    <2>3. Pending' = IF expression_begin_offset = Invalid THEN LastEnd + 1 .. Offset'
                     ELSE expression_begin_offset + 1 .. Offset'
        BY <1>1, <1>4, <1>9 DEF Pending
    <2>4. Pending = IF expression_begin_offset = Invalid THEN LastEnd + 1 .. Offset
                    ELSE expression_begin_offset + 1 .. Offset
        BY <1>9 DEF Pending
    <2>5. Pending \subseteq Pending'
        BY <1>3, <1>4, <1>8, <2>3, <2>4
    <2>6. \A i \in Offset + 1 .. Offset' : i \in Pending'
        BY <1>3, <1>4, <1>8, <2>1, <2>3
    <2>7. AllKept'
        BY <1>1, <1>2, <1>3, <1>7, <2>5, <2>6, KeptStep
    <2> QED
        BY <1>9, <2>1, <2>2, <2>7
<1>10. ASSUME current_string = <<>>, expression_begin_offset' = Offset
       PROVE  Kept2
    <2>1. Pending = {}
        BY <1>10 DEF Pending
    <2>2. Pending' = Offset + 1 .. Offset'
        BY <1>1, <1>8, <1>10 DEF Pending
    <2>3. AllKept'
        BY <1>1, <1>2, <1>3, <1>7, <2>1, <2>2, KeptStep
    <2> QED
        BY <1>3, <1>4, <1>8, <1>10, <2>3
<1>11. ASSUME current_string = <<>>, expression_begin_offset' = Invalid,
              states = <<F, E>>, rest[1] # ",",
              \/ original_input[Offset + 1] \in {"\t", "]", "}"}
              \/ /\ n = 2 /\ original_input[Offset + 1] = ":"
                 /\ original_input[Offset + 2] = ":"
       PROVE  Kept2
    <2>1. BehindDivider
        BY <1>1, <1>2, <1>11 DEF BufferInv
    <2>2. Pending = {}
        BY <1>11 DEF Pending
    <2>3. Pending' = LastEnd + 1 .. Offset'
        BY <1>1, <1>4, <1>11 DEF Pending
    <2>4. \A i \in Offset + 1 .. Offset' : i \in Pending'
        BY <1>3, <1>4, <2>3
    <2>5. AllKept'
        BY <1>1, <1>2, <1>3, <1>7, <2>2, <2>4, KeptStep
    <2>6. PICK p \in Nat : p = Offset + 1
        BY <1>3
    <2>7. p \in LastEnd' + 1 .. Offset'
        BY <1>3, <1>4, <2>6
    <2>8. Unanchored(p)'
        <3>1. tokens' # <<>> /\ tokens'[Len(tokens')].kind \in {",", ":"}
            BY <1>1, <2>1 DEF BehindDivider
        <3>2. \A i \in LastEnd' + 1 .. p - 1 : original_input'[i] \in Space
            <4>1. \A i \in LastEnd + 1 .. Offset : original_input[i] \in Space
                BY <2>1 DEF BehindDivider
            <4>2. p - 1 = Offset
                BY <1>3, <2>6
            <4> QED
                BY <1>2, <1>4, <4>1, <4>2
        <3>3. \/ original_input'[p] \in {"\t", "]", "}"}
              \/ /\ p < Offset' /\ original_input'[p] = ":"
                 /\ original_input'[p + 1] = ":"
            <4>1. p + 1 = Offset + 2 /\ (n = 2 => p < Offset')
                BY <1>2, <1>3, <2>6
            <4> QED
                BY <1>2, <1>11, <2>6, <4>1
        <3> QED
            BY <3>1, <3>2, <3>3 DEF Unanchored
    <2> QED
        BY <1>11, <2>5, <2>7, <2>8
<1>12. Kept2
    <2>1. \/ current_string # <<>> /\ expression_begin_offset' = expression_begin_offset
          \/ current_string = <<>> /\ expression_begin_offset' = Offset
          \/ /\ current_string = <<>> /\ expression_begin_offset' = Invalid
             /\ states = <<F, E>> /\ rest[1] # ","
             /\ \/ original_input[Offset + 1] \in {"\t", "]", "}"}
                \/ /\ n = 2 /\ original_input[Offset + 1] = ":"
                   /\ original_input[Offset + 2] = ":"
        BY DEF Grows
    <2> QED
        BY <1>9, <1>10, <1>11, <2>1
<1>13. status' = "running"
    BY <1>4 DEF Running
<1>14. BufferInv'
    BY <1>1, <1>4, <1>12, <1>13 DEF BufferInv
<1> QED
    BY <1>2, <1>5, <1>6, <1>12, <1>14 DEF Inv

\* ... an operand is returned,
LEMMA EmitsKeep ==
    ASSUME LexerAssumption, Inv, Emits
    PROVE  Inv'
<1>1. /\ LexerType /\ PlaceInv /\ BufferInv /\ TokensOrdered /\ AllKept
      /\ Running /\ Stays /\ states = <<F, E>> /\ current_string # <<>>
    BY DEF Inv, Emits
<1>2. PlaceInv' /\ original_input' = original_input /\ rest' = rest
    BY <1>1, PlaceStep DEF Shaped, Stays
<1>3. Offset' = Offset
    <2>1. location' = LocIn(original_input, Offset, Offset)
        BY <1>1 DEF Stays
    <2> QED
        BY <2>1 DEF Offset, LocIn
<1>4. Same /\ Offset \in Nat /\ Offset' \in Nat /\ Offset' >= Offset
      /\ \A i \in Offset + 1 .. Offset' : FALSE
    BY <1>1, <1>2, <1>3, OffsetsIn DEF Same
<1>5. LexerType'
    BY TypeKept DEF Shaped
<1>6. LastEnd \in Nat /\ expression_begin_offset \in Int
    BY <1>1, LastEndIn, OffsetsIn
<1>7. CASE /\ expression_begin_offset = Invalid
           /\ status' = "aborted" /\ UNCHANGED <<tokens, capture>>
    <2>1. UNCHANGED <<current_string, counters, quote, expression_begin_offset, tokens>>
        BY <1>7 DEF capture
    <2>2. TokensOrdered'
        BY <1>1, <1>4, <2>1, OrderKept
    <2>3. LastEnd' = LastEnd /\ Covered' = Covered
        BY <2>1 DEF LastEnd, Covered
    <2>4. Pending' = Pending
        BY <1>3, <2>1, <2>3 DEF Pending
    <2>5. AllKept'
        BY <1>1, <1>4, <2>3, <2>4, KeptStep
    <2>6. \E p \in LastEnd' + 1 .. Offset' : Unanchored(p)'
        <3>1. PICK p \in LastEnd + 1 .. Offset : Unanchored(p)
            BY <1>1, <1>7 DEF BufferInv
        <3> QED
            BY <1>1, <1>4, <2>1, <3>1, UnanchoredKept
    <2>7. status' # "ended" /\ ~Running'
        BY <1>7 DEF Running
    <2>8. BufferInv'
        BY <1>1, <1>7, <2>1, <2>6, <2>7 DEF BufferInv
    <2> QED
        BY <1>2, <1>5, <2>2, <2>5, <2>8 DEF Inv
<1>8. CASE /\ expression_begin_offset # Invalid
           /\ tokens' = Append(tokens, Token("operand", expression_begin_offset, Offset))
           /\ current_string' = <<>> /\ expression_begin_offset' = Invalid
           /\ counters' = FreshCounters /\ ~quote'.inside /\ UNCHANGED status
    <2>1. LastEnd <= expression_begin_offset /\ expression_begin_offset < Offset
          /\ expression_begin_offset \in Nat
        <3>1. LastEnd <= expression_begin_offset /\ expression_begin_offset < Offset
            BY <1>1, <1>8 DEF BufferInv
        <3> QED
            BY <1>6, <3>1
    <2>2. /\ TokensOrdered' /\ LastEnd' = Offset
          /\ Covered' = Covered \cup (expression_begin_offset + 1 .. Offset)
        <3>1. "operand" \in Kinds
            BY DEF Kinds
        <3>2. \A i \in 1 .. Offset : original_input'[i] = original_input[i]
            BY <1>4 DEF Same
        <3>3. Offset <= Offset'
            BY <1>3, <1>4
        <3> QED
            BY <1>1, <1>4, <1>8, <2>1, <3>1, <3>2, <3>3, TokenAdded
    <2>3. Pending = expression_begin_offset + 1 .. Offset
        BY <1>1, <1>8 DEF Pending
    <2>4. AllKept'
        BY <1>1, <1>4, <2>2, <2>3, KeptStep
    <2>5. status' = "running"
        BY <1>1, <1>8 DEF Running
    <2>6. counters'.brace = 0
        BY <1>8 DEF FreshCounters
    <2>7. states' = <<F, E>> => (rest' # <<>> /\ rest'[1] = ",") \/ rest' = <<End>>
        <3>1. states' = <<F>> => states' # <<F, E>>
            OBVIOUS
        <3> QED
            BY <1>2, <3>1 DEF Emits
    <2>8. BufferInv'
        BY <1>8, <2>5, <2>6, <2>7 DEF BufferInv
    <2> QED
        BY <1>2, <1>5, <2>2, <2>4, <2>8 DEF Inv
<1> QED
    BY <1>7, <1>8 DEF Emits

\* ... and the list is over.
LEMMA LeavesKeep ==
    ASSUME LexerAssumption, Inv, Leaves
    PROVE  Inv'
<1>1. /\ LexerType /\ PlaceInv /\ BufferInv /\ TokensOrdered /\ AllKept
      /\ Running /\ Goes(1) /\ original_input[Offset + 1] = ")"
      /\ states = <<F, E>> /\ states' = <<F>> /\ rest # <<End>> /\ rest[1] # ","
      /\ current_string = <<>> /\ current_string' = <<>> /\ expression_begin_offset' = Invalid
      /\ ~quote'.inside /\ counters'.brace = 0 /\ UNCHANGED <<tokens, status>>
    BY DEF Inv, Leaves
<1>2. Offset' = Offset + 1 /\ Same /\ original_input' = original_input /\ PlaceInv'
    <2>1. LexerType /\ PlaceInv /\ Goes(1)
        BY <1>1
    <2> QED
        BY <2>1, ReadIs
<1>3. Offset \in Nat /\ Offset' \in Nat /\ Offset' >= Offset
    <2>1. Offset \in Nat /\ Offset' = Offset + 1
        BY <1>2, OffsetsIn DEF Inv
    <2> QED
        BY <2>1
<1>4. BehindDivider
    BY <1>1 DEF BufferInv
<1>5. LexerType'
    BY TypeKept DEF Shaped
<1>6. TokensOrdered'
    BY <1>1, <1>2, <1>3, OrderKept
<1>7. AllKept'
    <2>1. Covered' = Covered /\ Pending = {}
        BY <1>1 DEF Covered, Pending
    <2>2. PICK p \in Nat : p = Offset + 1
        BY <1>3
    <2>3. LastEnd \in 1 .. p - 1 /\ original_input[LastEnd] \in {",", ":"}
        <3>1. /\ LastEnd \in Nat /\ LastEnd <= Offset /\ tokens # <<>>
              /\ Len(tokens) \in DOMAIN tokens /\ LastEnd = tokens[Len(tokens)].end
              /\ tokens \in Seq(Tokens) /\ tokens[Len(tokens)].kind \in {",", ":"}
            BY <1>1, <1>4, LastEndIn DEF BehindDivider
        <3>2. tokens[Len(tokens)].kind # "operand"
            BY <3>1
        <3>3. original_input[LastEnd] = tokens[Len(tokens)].kind
              /\ tokens[Len(tokens)].begin < LastEnd
            BY <1>1, <3>1, <3>2 DEF TokensOrdered
        <3> DEFINE last == tokens[Len(tokens)]
        <3>4. last \in Tokens
            <4>1. Len(tokens) \in DOMAIN tokens /\ tokens \in Seq(Tokens)
                BY <3>1
            <4> QED
                BY <4>1
        <3>5. LastEnd \in 1 .. p - 1
            <4>1. last.begin \in Nat
                BY <3>4 DEF Tokens
            <4>2. LastEnd \in Nat /\ LastEnd <= Offset /\ last.begin < LastEnd
                BY <3>1, <3>3
            <4> HIDE DEF last
            <4> QED
                BY <1>3, <2>2, <4>1, <4>2
        <3> QED
            BY <3>1, <3>3, <3>5
    <2>4. \A j \in LastEnd + 1 .. p - 1 : original_input[j] \in White
        <3>1. p - 1 = Offset
            BY <1>3, <2>2
        <3>2. \A j \in LastEnd + 1 .. Offset : original_input[j] \in Space
            BY <1>4 DEF BehindDivider
        <3> QED
            BY <3>1, <3>2, Sets
    <2>5. Divided(p)'
        <3>1. original_input'[p] = ")"
            BY <1>1, <1>2, <2>2
        <3>2. \E divider \in 1 .. p - 1 :
                /\ original_input'[divider] \in {",", ":"}
                /\ \A j \in divider + 1 .. p - 1 : original_input'[j] \in White
            BY <1>2, <2>3, <2>4
        <3> QED
            BY <3>1, <3>2 DEF Divided
    <2>6. \A i \in Offset + 1 .. Offset' : i = p
        BY <1>2, <1>3, <2>2
    <2>7. \A i \in Offset + 1 .. Offset' : Divided(i)'
        BY <2>5, <2>6
    <2> QED
        BY <1>1, <1>2, <1>3, <2>1, <2>7, KeptStep
<1>8. status' = "running" /\ states' # <<F, E>>
    BY <1>1 DEF Running
<1>9. BufferInv'
    BY <1>1, <1>8 DEF BufferInv
<1> QED
    BY <1>2, <1>5, <1>6, <1>7, <1>9 DEF Inv

\* Steps that leave all but the status as it is.
LEMMA EndsKeep ==
    ASSUME LexerAssumption, Inv,
           UNCHANGED <<location, capture, tokens, original_input, more, rest, states>>,
           Ends \/ UNCHANGED status
    PROVE  Inv'
<1>1. UNCHANGED <<current_string, counters, quote, expression_begin_offset, location, tokens,
                  original_input, more, rest, states>>
    BY DEF capture
<1>2. Offset' = Offset /\ LastEnd' = LastEnd /\ Covered' = Covered /\ Unseen' = Unseen
    BY <1>1 DEF Offset, LastEnd, Covered, Unseen
<1>3. Pending' = Pending
    BY <1>1, <1>2 DEF Pending
<1>4. PlaceInv'
    BY <1>1, <1>2 DEF Inv, PlaceInv
<1>5. TokensOrdered' /\ \A i : Divided(i)' <=> Divided(i)
    BY <1>1, <1>2 DEF Inv, TokensOrdered, Divided
<1>6. AllKept'
    BY <1>1, <1>2, <1>3, <1>5 DEF Inv, AllKept
<1>7. LexerType'
    BY <1>1 DEF Inv, LexerType, Ends
<1>8. BehindDivider' <=> BehindDivider
    BY <1>1, <1>2 DEF BehindDivider
<1>9. \A p : Unanchored(p)' <=> Unanchored(p)
    BY <1>1, <1>2 DEF Unanchored
<1>10. BufferInv'
    <2>1. CASE UNCHANGED status
        BY <1>1, <1>2, <1>8, <1>9, <2>1 DEF Inv, BufferInv, Running
    <2>2. CASE Ends
        <3>1. current_string = <<>> /\ status' = "ended"
            BY <2>2 DEF Ends
        <3> QED
            BY <1>1, <3>1 DEF Inv, BufferInv, Running
    <2> QED
        BY <2>1, <2>2
<1> QED
    BY <1>4, <1>5, <1>6, <1>7, <1>10 DEF Inv

\* The invariant holds at first, ...
LEMMA InvStart ==
    ASSUME LexerAssumption, Init
    PROVE  Inv
<1>1. /\ original_input \in Seq(Letters) /\ rest = original_input /\ more = MaxMore
      /\ location = [line |-> 1, column |-> 1, offset |-> 0, last_token_offset |-> 0,
                     history |-> <<>>]
      /\ states = <<F>> /\ current_string = <<>> /\ counters = FreshCounters
      /\ quote = NoQuote /\ expression_begin_offset = Invalid
      /\ tokens = <<>> /\ status = "running"
    BY DEF Init, LexerAssumption, F
<1>2. Offset = 0 /\ Unseen = Len(original_input) /\ location.last_token_offset = 0
      /\ Len(original_input) \in Nat
    BY <1>1 DEF Offset, Unseen
<1>3. LexerType
    <2>1. FreshCounters \in Counters /\ NoQuote \in Literal /\ Invalid \in Int
        BY DEF FreshCounters, Counters, NoQuote, Literal, Invalid
    <2>2. rest \in Seq(Letters \cup {End}) /\ more \in Nat
        BY <1>1 DEF LexerAssumption
    <2>3. tokens \in Seq([kind : Kinds, begin : Nat, end : Nat]) /\ current_string \in Seq(Letters)
        BY <1>1
    <2> QED
        BY <1>1, <2>1, <2>2, <2>3 DEF LexerType
<1>4. location = LocIn(original_input, 0, 0)
    <2>1. EndsIn(original_input, 0) = {}
        BY DEF EndsIn
    <2>2. LineIn(original_input, 0) = 1
        BY <2>1, FS_EmptySet DEF LineIn
    <2>3. ColumnIn(original_input, 0) = 1
        <3>1. Max({0}) = 0
            BY DEF Max
        <3>2. EndsIn(original_input, 0) \cup {0} = {0}
            BY <2>1
        <3> QED
            BY <3>1, <3>2 DEF ColumnIn
    <2>4. [n \in 1 .. 0 |-> PlaceIn(original_input, n - 1)] = <<>>
        OBVIOUS
    <2> QED
        BY <1>1, <2>2, <2>3, <2>4 DEF LocIn
<1>5. PlaceInv
    BY <1>1, <1>2, <1>4 DEF PlaceInv
<1>6. BufferInv
    <2>1. states # <<F, E>>
        BY <1>1
    <2>2. ~quote.inside /\ counters.brace = 0
        BY <1>1 DEF NoQuote, FreshCounters
    <2> QED
        BY <1>1, <2>1, <2>2 DEF BufferInv
<1>7. TokensOrdered /\ AllKept
    BY <1>1, <1>2 DEF TokensOrdered, AllKept
<1> QED
    BY <1>3, <1>5, <1>6, <1>7 DEF Inv

\* ... and every step keeps it.
LEMMA InvStep ==
    ASSUME LexerAssumption, Inv, [Next]_vars
    PROVE  Inv'
<1>1. CASE UNCHANGED vars
    <2>1. UNCHANGED <<location, capture, tokens, original_input, more, rest, states, status>>
        BY <1>1 DEF vars
    <2> QED
        BY <2>1, EndsKeep
<1>2. CASE Next
    <2>1. Shaped
        BY <1>2, StepIs DEF Inv
    <2>2. Ends => Inv'
        BY EndsKeep DEF Ends
    <2> QED
        BY <2>1, <2>2, TypesKeep, SkipsKeep, DividesKeep, GrowsKeep, EmitsKeep, LeavesKeep
        DEF Shaped
<1> QED
    BY <1>1, <1>2

-----------------------------------------------------------------------------
(* What that says of the properties. *)

\* The position and its history are those of the offset.
LEMMA LocationHas ==
    ASSUME PlaceInv
    PROVE  /\ Position(location) = PositionAt(location.offset)
           /\ location.history = [n \in 1 .. location.offset |-> PositionAt(n - 1)]
<1>1. \A k : EndsIn(original_input, k) = LineEnds(k)
    BY DEF EndsIn, LineEnds
<1>2. \A k : PlaceIn(original_input, k) = PositionAt(k)
    BY <1>1 DEF PlaceIn, LineIn, ColumnIn, PositionAt
<1>3. location = LocIn(original_input, Offset, location.last_token_offset)
    BY DEF PlaceInv
<1>4. /\ location.line = LineIn(original_input, Offset)
      /\ location.column = ColumnIn(original_input, Offset) /\ location.offset = Offset
      /\ location.history = [n \in 1 .. Offset |-> PlaceIn(original_input, n - 1)]
    BY <1>3 DEF LocIn
<1>5. Position(location) = PlaceIn(original_input, Offset)
    BY <1>4 DEF Position, PlaceIn
<1> QED
    BY <1>2, <1>4, <1>5

\* The place is that of what flex reads next.
LEMMA LocationSays ==
    ASSUME LexerAssumption, Inv
    PROVE  LocationExact
<1> DEFINE text == original_input
           left == SubSeq(text, Offset + 1, Len(text))
<1>1. /\ text \in Seq(Letters) /\ Len(text) \in Nat /\ Offset \in Nat /\ Offset <= Len(text)
      /\ rest \in Seq(Letters \cup {End}) /\ Unseen \in Nat /\ Len(rest) \in Nat
      /\ Unseen = Len(text) - Offset
    BY OffsetsIn, NextIsText DEF Inv, LexerType, Unseen
<1>2. /\ left \in Seq(Letters \cup {End}) /\ Len(left) = Unseen
      /\ \A i \in 1 .. Unseen : left[i] = text[Offset + i]
    <2>1. \A i \in Offset + 1 .. Len(text) : text[i] \in Letters \cup {End}
        BY <1>1
    <2> HIDE DEF text
    <2>2. /\ left \in Seq(Letters \cup {End})
          /\ Len(left) = IF Offset + 1 <= Len(text) THEN Len(text) - (Offset + 1) + 1 ELSE 0
          /\ \A i \in 1 .. Len(text) - (Offset + 1) + 1 : left[i] = text[Offset + 1 + i - 1]
        BY <1>1, <2>1, SubSeqProperties
    <2> HIDE DEF left
    <2>3. Len(left) = Unseen /\ Len(text) - (Offset + 1) + 1 = Unseen
        BY <1>1, <2>2
    <2>4. \A i \in 1 .. Unseen : Offset + 1 + i - 1 = Offset + i
        BY <1>1
    <2> QED
        BY <2>2, <2>3, <2>4
<1>3. /\ Len(rest) \in {Unseen, Unseen + 1}
      /\ \A i \in 1 .. Unseen : rest[i] = text[Offset + i]
      /\ (Len(rest) = Unseen + 1 => rest[Unseen + 1] = End)
    BY DEF Inv, PlaceInv
<1> HIDE DEF left, text
<1>4. CASE Len(rest) = Unseen + 1
    <2>1. rest # <<>> /\ Last(rest) = End
        BY <1>1, <1>3, <1>4 DEF Last
    <2>2. Front(rest) = SubSeq(rest, 1, Unseen)
        BY <1>1, <1>4 DEF Front
    <2>3. /\ SubSeq(rest, 1, Unseen) \in Seq(Letters \cup {End})
          /\ Len(SubSeq(rest, 1, Unseen)) = Unseen
          /\ \A i \in 1 .. Unseen : SubSeq(rest, 1, Unseen)[i] = rest[i]
        BY <1>1, <1>4
    <2>4. SubSeq(rest, 1, Unseen) = left
        BY <1>2, <1>3, <2>3, SeqEqual
    <2>5. Unread = left
        BY <2>1, <2>2, <2>4 DEF Unread
    <2> QED
        BY <2>5, LocationHas DEF Inv, LocationExact, left, text, Offset
<1>5. CASE Len(rest) = Unseen
    <2>1. rest # <<>> => Last(rest) # End
        <3> HAVE rest # <<>>
        <3>1. Len(rest) \in 1 .. Unseen /\ Len(rest) \in 1 .. Len(rest)
            BY <1>1, <1>5
        <3>2. rest[Len(rest)] # End
            BY <3>1, NextIsText DEF Inv
        <3> QED
            BY <3>2 DEF Last
    <2>2. rest = left
        BY <1>1, <1>2, <1>3, <1>5, SeqEqual
    <2>3. Unread = left
        BY <2>1, <2>2 DEF Unread
    <2> QED
        BY <2>3, LocationHas DEF Inv, LocationExact, left, text, Offset
<1> QED
    BY <1>3, <1>4, <1>5

\* Tokens stand behind each other and leave out nothing but white and what ends the list.
LEMMA TokensSay ==
    ASSUME LexerAssumption, Inv
    PROVE  TokensPartition
<1>1. \A n \in DOMAIN tokens :
        /\ tokens[n].begin < tokens[n].end /\ tokens[n].end <= location.offset
        /\ n > 1 => tokens[n - 1].end <= tokens[n].begin
    BY DEF Inv, TokensOrdered, Offset
<1>2. ASSUME Stopped, status # "aborted", NEW i \in (1 .. location.offset) \ Covered
      PROVE  \/ original_input[i] \in White
             \/ /\ original_input[i] = ")"
                /\ \E divider \in 1 .. i - 1 :
                     /\ original_input[divider] \in {",", ":"}
                     /\ \A j \in divider + 1 .. i - 1 : original_input[j] \in White
    <2>1. current_string = <<>>
        <3>1. CASE status # "running"
            <4>1. status = "ended"
                BY <1>2, <3>1 DEF Inv, LexerType
            <4> QED
                BY <4>1 DEF Inv, BufferInv
        <3>2. CASE status = "running"
            <4>1. states # <<F, E>>
                <5>1. states = <<>>
                    BY <1>2, <3>2 DEF Stopped
                <5> QED
                    BY <5>1
            <4> QED
                BY <3>2, <4>1 DEF Inv, BufferInv, Running
        <3> QED
            BY <3>1, <3>2
    <2>2. Pending = {}
        BY <2>1 DEF Pending
    <2>3. original_input[i] \in White \/ Divided(i)
        BY <1>2, <2>2 DEF Inv, AllKept, Offset
    <2> QED
        BY <2>3 DEF Divided
<1> QED
    BY <1>1, <1>2 DEF TokensPartition

\* The first that is not white, where a text is trimmed.
LEMMA TrimIs ==
    ASSUME NEW text \in Seq(Letters), NEW p \in 1 .. Len(text), text[p] \notin Space,
           \A i \in 1 .. p - 1 : text[i] \in Space
    PROVE  /\ TrimWhitespace(text) \in Seq(Letters)
           /\ 1 \in 1 .. Len(TrimWhitespace(text)) /\ TrimWhitespace(text)[1] = text[p]
           /\ \A q \in p + 1 .. Len(text) : text[q] \notin Space =>
                /\ q - p + 1 \in 1 .. Len(TrimWhitespace(text))
                /\ TrimWhitespace(text)[q - p + 1] = text[q]
<1> DEFINE black == {i \in DOMAIN text : text[i] \notin Space}
           first == Min(black)
           last == Max(black)
<1>1. Len(text) \in Nat /\ DOMAIN text = 1 .. Len(text)
    OBVIOUS
<1>2. p \in black /\ black \in SUBSET Nat /\ \A i \in black : i >= p /\ i \in 1 .. Len(text)
    <2>1. p \in black
        BY <1>1
    <2>2. \A i \in black : i >= p /\ i \in 1 .. Len(text)
        BY <1>1
    <2> QED
        BY <1>1, <2>1, <2>2
<1> HIDE DEF black
<1>3. first \in black /\ \A x \in black : first <= x
    BY <1>2, MinExists
<1>4. first = p
    <2>1. first \in Nat /\ first >= p /\ first <= p
        BY <1>2, <1>3
    <2> HIDE DEF first
    <2> QED
        BY <2>1
<1>5. last \in black /\ \A x \in black : last >= x
    <2> DEFINE S == black \cup {0}
    <2>1. S \in SUBSET (0 .. Len(text)) /\ 0 \in S
        BY <1>1, <1>2
    <2>2. Max(S) \in S /\ \A x \in S : Max(S) >= x
        <3> HIDE DEF S
        <3> QED
            BY <1>1, <2>1, MaxExists
    <2> DEFINE m == Max(S)
    <2>3. m \in Nat /\ m >= p /\ m \in S /\ \A x \in black : m >= x
        <3>1. m \in S /\ \A x \in S : m >= x
            BY <2>2
        <3> HIDE DEF m
        <3>2. m \in Nat /\ m >= p
            BY <1>1, <1>2, <2>1, <3>1
        <3> QED
            BY <3>1, <3>2
    <2>4. m \in black
        <3> HIDE DEF m
        <3> QED
            BY <2>3
    <2>5. m \in black /\ \A x \in black : m >= x
        BY <2>3, <2>4
    <2> QED
        BY <2>5 DEF Max
<1>6. TrimWhitespace(text) = SubSeq(text, p, last)
    <2>1. black # {}
        BY <1>2
    <2>2. TrimWhitespace(text) = SubSeq(text, first, last)
        <3> HIDE DEF first, last
        <3>1. TrimWhitespace(text) = IF black = {} THEN <<>> ELSE SubSeq(text, first, last)
            BY DEF TrimWhitespace, black, first, last
        <3> QED
            BY <2>1, <3>1
    <2> QED
        BY <1>4, <2>2
<1>7. last \in p .. Len(text)
    <2>1. last >= p /\ last \in 1 .. Len(text)
        BY <1>2, <1>5
    <2> HIDE DEF last
    <2> QED
        BY <2>1
<1> HIDE DEF first, last
<1> DEFINE trimmed == SubSeq(text, p, last)
<1>8. /\ trimmed \in Seq(Letters) /\ Len(trimmed) = last - p + 1
      /\ \A i \in 1 .. last - p + 1 : trimmed[i] = text[p + i - 1]
    <2>1. \A i \in p .. last : text[i] \in Letters
        BY <1>1, <1>7
    <2>2. /\ trimmed \in Seq(Letters) /\ Len(trimmed) = IF p <= last THEN last - p + 1 ELSE 0
          /\ \A i \in 1 .. last - p + 1 : trimmed[i] = text[p + i - 1]
        BY <1>1, <1>7, <2>1, SubSeqProperties
    <2> HIDE DEF trimmed
    <2> QED
        BY <1>1, <1>7, <2>2
<1> HIDE DEF trimmed
<1>9. 1 \in 1 .. Len(trimmed) /\ trimmed[1] = text[p]
    <2>1. 1 \in 1 .. last - p + 1 /\ p + 1 - 1 = p
        BY <1>1, <1>7
    <2>2. trimmed[1] = text[p + 1 - 1]
        BY <1>8, <2>1
    <2> QED
        BY <1>8, <2>1, <2>2
<1>10. ASSUME NEW q \in p + 1 .. Len(text), text[q] \notin Space
       PROVE  q - p + 1 \in 1 .. Len(trimmed) /\ trimmed[q - p + 1] = text[q]
    <2>1. q \in black
        BY <1>1, <1>10 DEF black
    <2>2. q <= last
        BY <1>5, <2>1
    <2>3. q - p + 1 \in 1 .. last - p + 1 /\ p + (q - p + 1) - 1 = q
        BY <1>1, <1>7, <2>2
    <2>4. trimmed[q - p + 1] = text[p + (q - p + 1) - 1]
        BY <1>8, <2>3
    <2> QED
        BY <1>8, <2>3, <2>4
<1> QED
    BY <1>6, <1>8, <1>9, <1>10 DEF trimmed

\* The process is aborted only where no offset was kept.
LEMMA AbortedSays ==
    ASSUME LexerAssumption, Inv
    PROVE  AbortedUnanchored
<1> SUFFICES ASSUME status = "aborted"
             PROVE  /\ tokens # <<>> /\ tokens[Len(tokens)].kind \in {",", ":"}
                    /\ \E begin \in {tokens[Len(tokens)].end + 1} :
                       \E operand \in {TrimWhitespace(SubSeq(original_input, begin,
                                                             Len(original_input)))} :
                            \/ OccursAt(<<":", ":">>, operand, 1)
                            \/ At(operand, 1) \in {"\t", "]", "}"}
    BY DEF AbortedUnanchored
<1>1. PICK p \in LastEnd + 1 .. Offset : Unanchored(p)
    BY DEF Inv, BufferInv
<1>2. /\ tokens # <<>> /\ tokens[Len(tokens)].kind \in {",", ":"}
      /\ LastEnd = tokens[Len(tokens)].end /\ LastEnd \in Nat
    BY <1>1, LastEndIn DEF Unanchored, Inv
<1>3. /\ original_input \in Seq(Letters) /\ Len(original_input) \in Nat /\ Offset \in Nat
      /\ Offset <= Len(original_input)
    BY OffsetsIn DEF Inv, LexerType
<1>0. LastEnd \in Nat /\ p \in Nat /\ LastEnd + 1 <= p /\ p <= Offset
    <2>1. LastEnd \in Nat /\ p \in LastEnd + 1 .. Offset
        BY <1>1, <1>2
    <2> QED
        BY <1>3, <2>1
<1> DEFINE begin == LastEnd + 1
           text == SubSeq(original_input, begin, Len(original_input))
           k == p - LastEnd
           operand == TrimWhitespace(text)
<1>4. /\ text \in Seq(Letters) /\ Len(text) = Len(original_input) - LastEnd
      /\ \A i \in 1 .. Len(text) : text[i] = original_input[LastEnd + i]
    <2>1. \A i \in begin .. Len(original_input) : original_input[i] \in Letters
        BY <1>0, <1>3
    <2>2. p \in Nat /\ LastEnd + 1 <= p /\ p <= Len(original_input)
        BY <1>0, <1>3
    <2> HIDE DEF text
    <2>3. /\ SubSeq(original_input, begin, Len(original_input)) \in Seq(Letters)
          /\ Len(SubSeq(original_input, begin, Len(original_input)))
             = IF begin <= Len(original_input) THEN Len(original_input) - begin + 1 ELSE 0
          /\ \A i \in 1 .. Len(original_input) - begin + 1 :
                SubSeq(original_input, begin, Len(original_input))[i]
                = original_input[begin + i - 1]
        BY <1>0, <1>3, <2>1, SubSeqProperties
    <2>4. /\ text \in Seq(Letters) /\ Len(text) = Len(original_input) - begin + 1
          /\ \A i \in 1 .. Len(original_input) - begin + 1 :
                text[i] = original_input[begin + i - 1]
        BY <1>0, <1>3, <2>2, <2>3 DEF text
    <2>5. Len(original_input) - begin + 1 = Len(original_input) - LastEnd
          /\ \A i \in 1 .. Len(original_input) - LastEnd : begin + i - 1 = LastEnd + i
        BY <1>0, <1>3
    <2> HIDE DEF begin
    <2> QED
        BY <2>4, <2>5
<1> HIDE DEF text
<1>5. /\ k \in 1 .. Len(text) /\ LastEnd + k = p /\ text[k] = original_input[p]
      /\ k \in 1 .. Offset - LastEnd
    <2>1. k \in 1 .. Len(text) /\ LastEnd + k = p /\ k \in 1 .. Offset - LastEnd
        BY <1>0, <1>3, <1>4
    <2> HIDE DEF k
    <2> QED
        BY <1>4, <2>1
<1> HIDE DEF k
<1>6. \A i \in 1 .. k - 1 : text[i] \in Space
    <2> TAKE i \in 1 .. k - 1
    <2>1. i \in 1 .. Len(text) /\ LastEnd + i \in LastEnd + 1 .. p - 1
        BY <1>0, <1>3, <1>4, <1>5
    <2> QED
        BY <1>1, <1>4, <2>1 DEF Unanchored
<1>7. original_input[p] \in {"\t", "]", "}", ":"}
    BY <1>1 DEF Unanchored
<1>8. text[k] \notin Space
    BY <1>5, <1>7, Sets
<1>9. /\ operand \in Seq(Letters) /\ 1 \in 1 .. Len(operand) /\ operand[1] = original_input[p]
      /\ \A q \in k + 1 .. Len(text) : text[q] \notin Space =>
            q - k + 1 \in 1 .. Len(operand) /\ operand[q - k + 1] = text[q]
    <2> HIDE DEF operand
    <2>1. /\ TrimWhitespace(text) \in Seq(Letters) /\ 1 \in 1 .. Len(TrimWhitespace(text))
          /\ TrimWhitespace(text)[1] = text[k]
          /\ \A q \in k + 1 .. Len(text) : text[q] \notin Space =>
                /\ q - k + 1 \in 1 .. Len(TrimWhitespace(text))
                /\ TrimWhitespace(text)[q - k + 1] = text[q]
        BY <1>4, <1>5, <1>6, <1>8, TrimIs
    <2> QED
        BY <1>5, <2>1 DEF operand
<1> HIDE DEF operand
<1>10. CASE original_input[p] \in {"\t", "]", "}"}
    <2>1. At(operand, 1) \in {"\t", "]", "}"}
        <3>1. 1 \in DOMAIN operand
            BY <1>9
        <3> QED
            BY <1>9, <1>10, <3>1 DEF At
    <2> QED
        BY <1>2, <2>1 DEF operand, text, begin
<1>11. CASE p < Offset /\ original_input[p] = ":" /\ original_input[p + 1] = ":"
    <2>1. k + 1 \in k + 1 .. Len(text) /\ LastEnd + (k + 1) = p + 1
          /\ k + 1 \in 1 .. Len(text)
        <3>1. p < Offset
            BY <1>11
        <3> QED
            BY <1>0, <1>3, <1>4, <1>5, <3>1
    <2>2. text[k + 1] = ":"
        BY <1>4, <1>11, <2>1
    <2>3. 2 \in 1 .. Len(operand) /\ operand[2] = ":" /\ operand[1] = ":"
        <3>1. text[k + 1] \notin Space
            BY <2>2, Sets
        <3>2. 2 \in 1 .. Len(operand) /\ operand[2] = text[k + 1]
            <4> DEFINE q == k + 1
            <4>1. q \in k + 1 .. Len(text) /\ text[q] \notin Space
                BY <2>1, <3>1
            <4>2. (q - k) + 1 = 2
                BY <1>5
            <4> HIDE DEF q
            <4>3. q - k + 1 \in 1 .. Len(operand) /\ operand[q - k + 1] = text[q]
                BY <1>9, <4>1
            <4> QED
                BY <4>2, <4>3 DEF q
        <3> QED
            BY <1>9, <1>11, <2>1, <2>2, <3>2
    <2>4. OccursAt(<<":", ":">>, operand, 1)
        <3> DEFINE two == <<":", ":">>
        <3>1. Len(two) = 2 /\ two[1] = ":" /\ two[2] = ":"
            OBVIOUS
        <3>2. Len(operand) >= 2 /\ Len(operand) \in Nat /\ ":" \in Letters
            BY <1>9, <2>3
        <3>3. two \in Seq(Letters)
            BY <3>2
        <3> HIDE DEF two
        <3>4. SubSeq(operand, 1, 2) \in Seq(Letters) /\ Len(SubSeq(operand, 1, 2)) = 2
              /\ \A i \in 1 .. 2 : SubSeq(operand, 1, 2)[i] = operand[i]
            BY <1>9, <3>2
        <3>5. \A i \in 1 .. 2 : operand[i] = two[i]
            <4>1. \A i \in 1 .. 2 : i = 1 \/ i = 2
                OBVIOUS
            <4> QED
                BY <2>3, <3>1, <4>1
        <3>6. SubSeq(operand, 1, 2) = two
            BY <3>1, <3>3, <3>4, <3>5, SeqEqual
        <3>7. OccursAt(two, operand, 1)
            BY <3>1, <3>2, <3>6 DEF OccursAt
        <3> QED
            BY <3>7 DEF two
    <2> QED
        BY <1>2, <2>4 DEF operand, text, begin
<1> QED
    BY <1>1, <1>10, <1>11 DEF Unanchored

-----------------------------------------------------------------------------
(* A modifier is followed by modifiers up to a colon. *)

\* Where the text goes on behind the blanks.
LEMMA SkipIs ==
    ASSUME NEW t \in Seq(Letters), NEW i \in 1 .. Len(t) + 1
    PROVE  /\ SkipBlanks(t, i) \in i .. Len(t) + 1
           /\ \A j \in i .. SkipBlanks(t, i) - 1 : j \in 1 .. Len(t) /\ t[j] = " "
<1> DEFINE S == {j \in i .. Len(t) + 1 : At(t, j) # " "}
<1>1. Len(t) \in Nat /\ DOMAIN t = 1 .. Len(t)
    OBVIOUS
<1>2. Len(t) + 1 \in S /\ S \in SUBSET Nat /\ S # {}
    <2>1. Len(t) + 1 \notin DOMAIN t /\ Len(t) + 1 \in i .. Len(t) + 1
        BY <1>1
    <2>2. At(t, Len(t) + 1) # " "
        BY <2>1 DEF At
    <2>3. Len(t) + 1 \in S
        BY <2>1, <2>2
    <2>4. i .. Len(t) + 1 \subseteq Nat
        BY <1>1
    <2>5. S \subseteq i .. Len(t) + 1
        OBVIOUS
    <2> QED
        BY <2>3, <2>4, <2>5
<1>3. Min(S) \in S /\ \A x \in S : Min(S) <= x
    <2> HIDE DEF S
    <2> QED
        BY <1>2, MinExists
<1>4. SkipBlanks(t, i) = Min(S)
    BY <1>2 DEF SkipBlanks, Least
<1> DEFINE m == Min(S)
<1>5. m \in i .. Len(t) + 1 /\ m \in Nat
    <2>1. S \subseteq i .. Len(t) + 1
        OBVIOUS
    <2> HIDE DEF S
    <2> QED
        BY <1>1, <1>2, <1>3, <2>1
<1>6. \A j \in i .. m - 1 : j \notin S /\ j \in 1 .. Len(t)
    <2>1. \A x \in S : m <= x
        BY <1>3
    <2> HIDE DEF m, S
    <2> QED
        BY <1>1, <1>5, <2>1
<1>7. \A j \in i .. m - 1 : t[j] = " " /\ j \in 1 .. Len(t)
    <2> TAKE j \in i .. m - 1
    <2>1. j \in i .. Len(t) + 1 /\ j \in DOMAIN t
        <3> HIDE DEF m, S
        <3> QED
            BY <1>1, <1>5, <1>6
    <2>2. At(t, j) = " "
        BY <1>6, <2>1
    <2> QED
        BY <1>6, <2>1, <2>2 DEF At
<1> HIDE DEF S
<1> QED
    BY <1>4, <1>5, <1>7

\* A comma and a modifier at a place, and the place behind them.
Goer(t, i) ==
    /\ At(t, i) = ","
    /\ At(t, SkipBlanks(t, i + 1)) \in Word
    /\ At(t, SkipBlanks(t, i + 1) + 1) \notin IdentifierChar \cup Word
Beyond(t, i) == SkipBlanks(t, SkipBlanks(t, i + 1) + 1)

\* What is behind a word that goes on the list of modifiers.
LEMMA GoerIs ==
    ASSUME NEW t \in Seq(Letters), NEW i \in 1 .. Len(t) + 2, Goer(t, i)
    PROVE  /\ i \in 1 .. Len(t) /\ Beyond(t, i) \in i + 1 .. Len(t) + 1
           /\ \A j \in i .. Beyond(t, i) - 1 : t[j] \in Word \cup {",", " "}
<1> DEFINE w == SkipBlanks(t, i + 1)
           b == SkipBlanks(t, w + 1)
<1>1. DOMAIN t = 1 .. Len(t) /\ Len(t) \in Nat /\ i \in Nat
    OBVIOUS
<1>2. i \in 1 .. Len(t) /\ t[i] = ","
    <2>1. i \in DOMAIN t
        BY DEF Goer, At
    <2> QED
        BY <1>1, <2>1 DEF Goer, At
<1>0. i \in 1 .. Len(t)
    BY <1>2
<1>3. /\ w \in i + 1 .. Len(t) + 1
      /\ \A j \in i + 1 .. w - 1 : t[j] = " "
    <2>1. i + 1 \in 1 .. Len(t) + 1
        BY <1>0, <1>1
    <2> QED
        BY <2>1, SkipIs
<1>4. w \in DOMAIN t /\ t[w] \in Word
    <2>1. At(t, w) \in Word
        BY DEF Goer
    <2> HIDE DEF w
    <2> QED
        BY <2>1 DEF At, Word
<1>5. w \in i + 1 .. Len(t)
    <2>1. w \in i + 1 .. Len(t) + 1 /\ w \in 1 .. Len(t)
        BY <1>1, <1>3, <1>4
    <2> HIDE DEF w
    <2> QED
        BY <1>0, <1>1, <2>1
<1>6. /\ b \in w + 1 .. Len(t) + 1
      /\ \A j \in w + 1 .. b - 1 : t[j] = " "
    <2> HIDE DEF w
    <2>1. w + 1 \in 1 .. Len(t) + 1
        BY <1>1, <1>5
    <2> QED
        BY <2>1, SkipIs
<1>61. b \in w + 1 .. Len(t) + 1
    BY <1>6
<1>7. b \in i + 1 .. Len(t) + 1
    <2> HIDE DEF w, b
    <2> QED
        BY <1>0, <1>1, <1>5, <1>61
<1>8. \A j \in i .. b - 1 : t[j] \in Word \cup {",", " "}
    <2> TAKE j \in i .. b - 1
    <2>1. j = i \/ j \in i + 1 .. w - 1 \/ j = w \/ j \in w + 1 .. b - 1
        <3> HIDE DEF w, b
        <3> QED
            BY <1>0, <1>1, <1>5, <1>61
    <2> HIDE DEF w, b
    <2> QED
        BY <1>2, <1>3, <1>4, <1>6, <2>1
<1> QED
    BY <1>2, <1>7, <1>8 DEF Beyond

\* Modifiers up to a colon, from a place on.
Leads(t, i) ==
    \E c \in i .. Len(t) :
        t[c] = ":" /\ \A j \in i .. c - 1 : t[j] \in Word \cup {",", " "}

\* A list of modifiers leads to a colon, by least counterexample.
LEMMA FollowsIs ==
    ASSUME NEW t \in Seq(Letters), ModifierListFollows(t)
    PROVE  Leads(t, 1)
<1> DEFINE n == Len(t) + 2
           Says(G, i) == At(t, i) = ":" \/ (Goer(t, i) /\ Beyond(t, i) \in G)
           IsList(f) == f = [i \in 1 .. n |->
                \/ At(t, i) = ":"
                \/ /\ At(t, i) = ","
                   /\ LET word == SkipBlanks(t, i + 1) IN
                      /\ At(t, word) \in Word /\ At(t, word + 1) \notin IdentifierChar \cup Word
                      /\ f[SkipBlanks(t, word + 1)]]
           follows == CHOOSE f : IsList(f)
           Found == {k \in 0 .. n : \E G \in SUBSET (1 .. n) :
                        \A i \in k + 1 .. n : i \in G <=> Says(G, i)}
<1>1. n \in Nat /\ Len(t) \in Nat /\ DOMAIN t = 1 .. Len(t)
    OBVIOUS
<1>2. \A i \in 1 .. n : Goer(t, i) => Beyond(t, i) \in i + 1 .. n /\ i \in 1 .. Len(t)
    <2> TAKE i \in 1 .. n
    <2> HAVE Goer(t, i)
    <2>1. Beyond(t, i) \in i + 1 .. Len(t) + 1 /\ i \in 1 .. Len(t)
        BY GoerIs
    <2> QED
        BY <1>1, <2>1
<1>3. n \in Found
    <2>1. \A i \in n + 1 .. n : i \in {} <=> Says({}, i)
        BY <1>1
    <2>2. {} \in SUBSET (1 .. n) /\ n \in 0 .. n
        BY <1>1
    <2> HIDE DEF Says, n
    <2> QED
        BY <2>1, <2>2
<1>4. \A k \in 1 .. n : k \in Found => k - 1 \in Found
    <2> TAKE k \in 1 .. n
    <2> HAVE k \in Found
    <2>1. PICK G \in SUBSET (1 .. n) : \A i \in k + 1 .. n : i \in G <=> Says(G, i)
        OBVIOUS
    <2> DEFINE H == IF Says(G, k) THEN G \cup {k} ELSE G \ {k}
    <2>2. H \in SUBSET (1 .. n) /\ k - 1 \in 0 .. n
        BY <1>1
    <2>3. \A i \in k .. n : Says(H, i) <=> Says(G, i)
        <3> TAKE i \in k .. n
        <3>1. Goer(t, i) => Beyond(t, i) \in i + 1 .. n /\ i \in 1 .. n
            BY <1>1, <1>2
        <3>2. Goer(t, i) => Beyond(t, i) # k
            BY <1>1, <3>1
        <3>3. Goer(t, i) => (Beyond(t, i) \in H <=> Beyond(t, i) \in G)
            BY <3>2
        <3> HIDE DEF H
        <3> QED
            BY <3>3
    <2>4. \A i \in (k - 1) + 1 .. n : i \in H <=> Says(H, i)
        <3> TAKE i \in (k - 1) + 1 .. n
        <3>1. i \in k .. n
            BY <1>1
        <3>2. CASE i = k
            <4>1. i \in H <=> Says(G, i)
                <5> HIDE DEF Says
                <5> QED
                    BY <3>2
            <4> HIDE DEF H, Says
            <4> QED
                BY <2>3, <3>1, <4>1
        <3>3. CASE i # k
            <4>1. i \in k + 1 .. n
                BY <1>1, <3>1, <3>3
            <4>2. i \in H <=> i \in G
                <5> HIDE DEF Says
                <5> QED
                    BY <3>3
            <4> HIDE DEF H, Says
            <4> QED
                BY <2>1, <2>3, <3>1, <4>1, <4>2
        <3> QED
            BY <3>2, <3>3
    <2> HIDE DEF H, Says, n
    <2> QED
        BY <2>2, <2>4
<1>5. \E G \in SUBSET (1 .. n) : \A i \in 1 .. n : i \in G <=> Says(G, i)
    <2>1. 0 \in Found
        <3>1. \A k \in 0 .. n : k \in Found
            <4> HIDE DEF Found, n
            <4> QED
                BY <1>1, <1>3, <1>4, PassedBack
        <3>2. 0 \in 0 .. n
            BY <1>1
        <3> HIDE DEF Found, n
        <3> QED
            BY <3>1, <3>2
    <2>2. 0 + 1 = 1
        OBVIOUS
    <2> HIDE DEF Says, n
    <2> QED
        BY <2>1, <2>2
<1>6. PICK G \in SUBSET (1 .. n) : \A i \in 1 .. n : i \in G <=> Says(G, i)
    BY <1>5
<1> DEFINE g == [i \in 1 .. n |-> i \in G]
<1>7. IsList(g)
    <2>1. \A i \in 1 .. n :
            g[i] = ( \/ At(t, i) = ":"
                     \/ /\ At(t, i) = ","
                        /\ LET word == SkipBlanks(t, i + 1) IN
                           /\ At(t, word) \in Word
                           /\ At(t, word + 1) \notin IdentifierChar \cup Word
                           /\ g[SkipBlanks(t, word + 1)])
        <3> TAKE i \in 1 .. n
        <3>1. g[i] = (i \in G)
            OBVIOUS
        <3>2. i \in G <=> (At(t, i) = ":" \/ (Goer(t, i) /\ Beyond(t, i) \in G))
            BY <1>6
        <3>3. Goer(t, i) => Beyond(t, i) \in 1 .. n
            BY <1>1, <1>2
        <3>4. Goer(t, i) => g[Beyond(t, i)] = (Beyond(t, i) \in G)
            BY <3>3
        <3>5. (i \in G) = (At(t, i) = ":" \/ (Goer(t, i) /\ Beyond(t, i) \in G))
            BY <3>2
        <3>6. (Goer(t, i) /\ Beyond(t, i) \in G) = (Goer(t, i) /\ g[Beyond(t, i)])
            <4>1. CASE Goer(t, i)
                <5> HIDE DEF g
                <5>1. g[Beyond(t, i)] = (Beyond(t, i) \in G)
                    BY <3>4, <4>1
                <5> QED
                    BY <5>1
            <4>2. CASE ~Goer(t, i)
                <5> HIDE DEF g
                <5> QED
                    BY <4>2
            <4> QED
                BY <4>1, <4>2
        <3> HIDE DEF g
        <3>7. g[i] = (At(t, i) = ":" \/ (Goer(t, i) /\ g[Beyond(t, i)]))
            BY <3>1, <3>5, <3>6
        <3>8. (At(t, i) = ":" \/ (Goer(t, i) /\ g[Beyond(t, i)]))
              = ( \/ At(t, i) = ":"
                  \/ /\ At(t, i) = ","
                     /\ LET word == SkipBlanks(t, i + 1) IN
                        /\ At(t, word) \in Word
                        /\ At(t, word + 1) \notin IdentifierChar \cup Word
                        /\ g[SkipBlanks(t, word + 1)])
            BY Zenon DEF Goer, Beyond
        <3> QED
            BY <3>7, <3>8
    <2> HIDE DEF n
    <2> QED
        BY <2>1
<1>8. IsList(follows)
    <2> HIDE DEF IsList
    <2> QED
        BY <1>7
<1>9. follows[SkipBlanks(t, 1)]
    BY DEF ModifierListFollows
<1>10. \A i \in 1 .. n : follows[i] =>
            At(t, i) = ":" \/ (Goer(t, i) /\ follows[Beyond(t, i)])
    <2> HIDE DEF follows, n
    <2> QED
        BY <1>8 DEF Goer, Beyond
<1> HIDE DEF IsList, follows
<1> DEFINE Led == {k \in 0 .. n : \A i \in k + 1 .. n : follows[i] => Leads(t, i)}
<1>11. n \in Led
    BY <1>1
<1>12. \A k \in 1 .. n : k \in Led => k - 1 \in Led
    <2> TAKE k \in 1 .. n
    <2> HAVE k \in Led
    <2>1. follows[k] => Leads(t, k)
        <3> HAVE follows[k]
        <3>1. CASE At(t, k) = ":"
            <4>1. k \in 1 .. Len(t) /\ t[k] = ":"
                BY <1>1, <3>1 DEF At
            <4>2. k \in k .. Len(t) /\ \A j \in k .. k - 1 : FALSE
                BY <4>1
            <4> QED
                BY <4>1, <4>2 DEF Leads
        <3>2. CASE Goer(t, k) /\ follows[Beyond(t, k)]
            <4>1. /\ k \in 1 .. Len(t) /\ Beyond(t, k) \in k + 1 .. Len(t) + 1
                  /\ \A j \in k .. Beyond(t, k) - 1 : t[j] \in Word \cup {",", " "}
                BY <3>2, GoerIs
            <4>2. Beyond(t, k) \in k + 1 .. n
                BY <1>2, <3>2
            <4>3. Leads(t, Beyond(t, k))
                BY <3>2, <4>2
            <4>4. PICK b \in k + 1 .. Len(t) + 1 : b = Beyond(t, k)
                BY <4>1
            <4>5. PICK c \in b .. Len(t) :
                    t[c] = ":" /\ \A j \in b .. c - 1 : t[j] \in Word \cup {",", " "}
                BY <4>3, <4>4 DEF Leads
            <4>6. c \in k .. Len(t) /\ \A j \in k .. c - 1 : j \in k .. b - 1 \/ j \in b .. c - 1
                BY <1>1
            <4>7. \A j \in k .. c - 1 : t[j] \in Word \cup {",", " "}
                BY <4>1, <4>4, <4>5, <4>6
            <4> QED
                BY <4>5, <4>6, <4>7 DEF Leads
        <3> QED
            BY <1>10, <3>1, <3>2
    <2>2. \A i \in (k - 1) + 1 .. n : i = k \/ i \in k + 1 .. n
        BY <1>1
    <2>3. k - 1 \in 0 .. n
        BY <1>1
    <2> QED
        BY <2>1, <2>2, <2>3
<1>13. 0 \in Led
    <2>1. \A k \in 0 .. n : k \in Led
        <3> HIDE DEF Led, n
        <3> QED
            BY <1>1, <1>11, <1>12, PassedBack
    <2>2. 0 \in 0 .. n
        BY <1>1
    <2> HIDE DEF Led, n
    <2> QED
        BY <2>1, <2>2
<1>14. PICK b \in 1 .. Len(t) + 1 :
            b = SkipBlanks(t, 1) /\ \A j \in 1 .. b - 1 : t[j] = " "
    <2>1. 1 \in 1 .. Len(t) + 1
        BY <1>1
    <2>2. /\ SkipBlanks(t, 1) \in 1 .. Len(t) + 1
          /\ \A j \in 1 .. SkipBlanks(t, 1) - 1 : t[j] = " "
        BY <2>1, SkipIs
    <2> QED
        BY <2>2
<1>15. Leads(t, b)
    <2>1. b \in 0 + 1 .. n
        BY <1>1
    <2> QED
        BY <1>9, <1>13, <1>14, <2>1
<1>16. PICK c \in b .. Len(t) :
            t[c] = ":" /\ \A j \in b .. c - 1 : t[j] \in Word \cup {",", " "}
    BY <1>15 DEF Leads
<1>17. c \in 1 .. Len(t) /\ \A j \in 1 .. c - 1 : j \in 1 .. b - 1 \/ j \in b .. c - 1
    BY <1>1
<1>18. \A j \in 1 .. c - 1 : t[j] \in Word \cup {",", " "}
    BY <1>14, <1>16, <1>17
<1> QED
    BY <1>16, <1>17, <1>18 DEF Leads

\* Behind every modifier that was returned.
ModInv ==
    \A n \in DOMAIN tokens :
        tokens[n].kind \in Word => Leads(original_input, tokens[n].end + 1)
FullInv == Inv /\ ModInv

\* What leads to a colon still does when more is typed.
LEMMA LeadsOn ==
    ASSUME NEW s \in Seq(Letters), NEW t \in Seq(Letters), Len(s) <= Len(t),
           \A i \in 1 .. Len(s) : t[i] = s[i], NEW i \in Nat \ {0}, Leads(s, i)
    PROVE  Leads(t, i)
<1>1. PICK c \in i .. Len(s) :
        s[c] = ":" /\ \A j \in i .. c - 1 : s[j] \in Word \cup {",", " "}
    BY DEF Leads
<1>2. Len(s) \in Nat /\ Len(t) \in Nat
    OBVIOUS
<1>3. c \in i .. Len(t) /\ c \in 1 .. Len(s) /\ \A j \in i .. c - 1 : j \in 1 .. Len(s)
    BY <1>2
<1> QED
    BY <1>1, <1>3 DEF Leads

\* What was looked at is in the text.
LEMMA AheadLeads ==
    ASSUME LexerAssumption, LexerType, PlaceInv, Ready(F), rest[1] \in Word,
           ModifierListFollows(LookAhead)
    PROVE  Leads(original_input, Offset + 2)
<1>1. /\ Peeked \in Nat /\ Peeked + 1 <= Unseen
      /\ Len(LookAhead) = Peeked
      /\ \A i \in 1 .. Peeked :
            LookAhead[i] = rest[i + 1] /\ LookAhead[i] = original_input[Offset + 1 + i]
    BY PeekedIs
<1>2. /\ original_input \in Seq(Letters) /\ Offset \in Nat /\ Len(original_input) \in Nat
      /\ rest \in Seq(Letters \cup {End}) /\ Len(rest) \in Nat
      /\ Unseen = Len(original_input) - Offset
    BY OffsetsIn DEF LexerType, Unseen
<1> DEFINE t == LookAhead
           n == Peeked
<1>3. t \in Seq(Letters)
    <2>1. \A i \in 1 .. n : t[i] \in Letters
        <3> TAKE i \in 1 .. n
        <3>1. Offset + 1 + i \in 1 .. Len(original_input)
            <4>1. /\ n \in Nat /\ n + 1 <= Len(original_input) - Offset
                  /\ Offset \in Nat /\ Len(original_input) \in Nat
                BY <1>1, <1>2
            <4> HIDE DEF n
            <4> QED
                BY <4>1
        <3> QED
            BY <1>1, <1>2, <3>1
    <2>2. t \in Seq(Letters \cup {End})
        <3>1. LookAhead = SubSeq(rest, 2, n + 1) /\ n \in Nat /\ n + 1 <= Len(rest)
            BY <1>1, <1>2 DEF LookAhead, PlaceInv
        <3> HIDE DEF n
        <3> QED
            BY <1>2, <3>1
    <2>3. Len(t) = n /\ n \in Nat
        BY <1>1
    <2> HIDE DEF t, n
    <2>4. t = [i \in 1 .. n |-> t[i]]
        BY <2>2, <2>3
    <2> QED
        BY <2>1, <2>3, <2>4
<1>4. Leads(t, 1)
    BY <1>3, FollowsIs
<1> HIDE DEF t
<1>5. PICK c \in 1 .. Len(t) :
        t[c] = ":" /\ \A j \in 1 .. c - 1 : t[j] \in Word \cup {",", " "}
    BY <1>4 DEF Leads
<1>6. Len(t) = n /\ \A i \in 1 .. n : t[i] = original_input[Offset + 1 + i]
    BY <1>1 DEF t
<1>7. n \in Nat /\ n + 1 <= Len(original_input) - Offset
    BY <1>1, <1>2
<1> HIDE DEF n
<1>8. Offset + 1 + c \in Offset + 2 .. Len(original_input) /\ c \in 1 .. n
    BY <1>2, <1>6, <1>7
<1>9. \A j \in Offset + 2 .. Offset + 1 + c - 1 : original_input[j] \in Word \cup {",", " "}
    <2> TAKE j \in Offset + 2 .. Offset + 1 + c - 1
    <2>1. j - (Offset + 1) \in 1 .. c - 1 /\ j - (Offset + 1) \in 1 .. n
          /\ Offset + 1 + (j - (Offset + 1)) = j
        <3>1. Offset \in Nat /\ c \in 1 .. n /\ n \in Nat
            BY <1>2, <1>7, <1>8
        <3> HIDE DEF Offset
        <3> QED
            BY <3>1
    <2>2. t[j - (Offset + 1)] \in Word \cup {",", " "}
        BY <1>5, <2>1
    <2>3. t[j - (Offset + 1)] = original_input[j]
        BY <1>6, <2>1
    <2> QED
        BY <2>2, <2>3
<1>10. original_input[Offset + 1 + c] = ":"
    <2>1. t[c] = original_input[Offset + 1 + c]
        BY <1>6, <1>8
    <2> QED
        BY <1>5, <2>1
<1>11. PICK d \in Offset + 2 .. Len(original_input) : d = Offset + 1 + c
    BY <1>8
<1>12. original_input[d] = ":" /\ \A j \in Offset + 2 .. d - 1 :
            original_input[j] \in Word \cup {",", " "}
    <2>1. d - 1 = Offset + 1 + c - 1
        <3>1. Offset \in Nat /\ c \in 1 .. n /\ n \in Nat
            BY <1>2, <1>7, <1>8
        <3> QED
            BY <1>11, <3>1
    <2>2. original_input[d] = ":"
        BY <1>10, <1>11
    <2> QED
        BY <1>9, <2>1, <2>2, Zenon
<1> QED
    BY <1>12 DEF Leads

\* No step takes that back.
LEMMA ModifiersKept ==
    ASSUME LexerAssumption, FullInv, Shaped
    PROVE  ModInv'
<1>1. /\ LexerType /\ PlaceInv /\ TokensOrdered /\ ModInv
    BY DEF FullInv, Inv
<1>2. /\ \A i \in 1 .. Len(original_input) : original_input'[i] = original_input[i]
      /\ original_input \in Seq(Letters) /\ original_input' \in Seq(Letters)
      /\ Len(original_input') >= Len(original_input)
    BY <1>1, PlaceStep DEF LexerType
<1>3. tokens \in Seq(Tokens) /\ Len(tokens) \in Nat
    BY <1>1, LastEndIn
<1>4. \A n \in DOMAIN tokens :
        tokens[n].kind \in Word => Leads(original_input', tokens[n].end + 1)
    <2> TAKE n \in DOMAIN tokens
    <2> HAVE tokens[n].kind \in Word
    <2>0. tokens[n] \in Tokens
        BY <1>3
    <2>1. tokens[n].end \in Nat
        BY <2>0 DEF Tokens
    <2>2. Leads(original_input, tokens[n].end + 1) /\ tokens[n].end + 1 \in Nat \ {0}
        BY <1>1, <2>1 DEF ModInv
    <2>3. Len(original_input) <= Len(original_input')
        BY <1>2
    <2> QED
        BY <1>2, <2>2, <2>3, LeadsOn
<1>5. CASE tokens' = tokens
    BY <1>4, <1>5 DEF ModInv
<1>6. ASSUME NEW kind, NEW begin, NEW end, tokens' = Append(tokens, Token(kind, begin, end)),
             kind \in Word => Leads(original_input', end + 1)
      PROVE  ModInv'
    <2>1. /\ DOMAIN tokens' = DOMAIN tokens \cup {Len(tokens) + 1}
          /\ tokens'[Len(tokens) + 1] = Token(kind, begin, end)
          /\ \A n \in DOMAIN tokens : tokens'[n] = tokens[n]
        BY <1>3, <1>6
    <2>2. Token(kind, begin, end).kind = kind /\ Token(kind, begin, end).end = end
        BY DEF Token
    <2> QED
        BY <1>4, <1>6, <2>1, <2>2 DEF ModInv
<1>7. ASSUME NEW kind \in Kinds, Divides(kind) PROVE ModInv'
    <2>1. /\ tokens' = Append(tokens, Token(kind, Offset, Offset + 1))
          /\ original_input' = original_input
          /\ kind \in Word => ModifierListFollows(LookAhead) /\ Ready(F) /\ rest[1] = kind
        BY <1>7 DEF Divides, Goes
    <2>2. kind \in Word => Leads(original_input', (Offset + 1) + 1)
        <3> HAVE kind \in Word
        <3>1. Leads(original_input, Offset + 2)
            BY <1>1, <2>1, AheadLeads
        <3>2. (Offset + 1) + 1 = Offset + 2
            BY <1>1, OffsetsIn
        <3> QED
            BY <2>1, <3>1, <3>2
    <2> HIDE DEF Offset
    <2> QED
        BY <1>6, <2>1, <2>2
<1>8. ASSUME Emits PROVE ModInv'
    <2>1. CASE tokens' = tokens
        BY <1>5, <2>1
    <2>2. CASE tokens' = Append(tokens, Token("operand", expression_begin_offset, Offset))
        <3>1. "operand" \notin Word
            BY DEF Word
        <3> QED
            BY <1>6, <2>2, <3>1
    <2> QED
        BY <1>8, <2>1, <2>2 DEF Emits
<1>9. (\E c \in Letters \cup {End} : Types(c)) \/ Skips \/ Grows(1) \/ Grows(2) \/ Leaves \/ Ends
        => tokens' = tokens
    BY DEF Types, Skips, Grows, Leaves, Ends
<1> QED
    BY <1>5, <1>7, <1>8, <1>9 DEF Shaped

\* All of the invariant holds at first, ...
LEMMA FullStart ==
    ASSUME LexerAssumption, Init
    PROVE  FullInv
<1>1. tokens = <<>>
    BY DEF Init
<1>2. ModInv
    BY <1>1 DEF ModInv
<1> QED
    BY <1>2, InvStart DEF FullInv

\* ... and every step keeps it.
LEMMA FullStep ==
    ASSUME LexerAssumption, FullInv, [Next]_vars
    PROVE  FullInv'
<1>1. Inv'
    BY InvStep DEF FullInv
<1>2. CASE UNCHANGED vars
    <2>1. UNCHANGED <<tokens, original_input>>
        BY <1>2 DEF vars
    <2>2. ModInv'
        BY <2>1 DEF FullInv, ModInv
    <2> QED
        BY <1>1, <2>2 DEF FullInv
<1>3. CASE Next
    <2>1. Shaped
        BY <1>3, StepIs DEF FullInv, Inv
    <2> QED
        BY <1>1, <2>1, ModifiersKept DEF FullInv
<1> QED
    BY <1>2, <1>3

\* The first colon behind a modifier, and what is before it.
LEMMA ModifiersSay ==
    ASSUME FullInv
    PROVE  ModifiersLeadToColon
<1> SUFFICES ASSUME NEW n \in DOMAIN tokens, tokens[n].kind \in Word
             PROVE  \E colon \in {Find(<<":">>, original_input, tokens[n].end + 1)} :
                        /\ colon # 0
                        /\ ToSet(SubSeq(original_input, tokens[n].end + 1, colon - 1))
                            \subseteq Word \cup {",", " "}
    BY DEF ModifiersLeadToColon
<1> DEFINE t == original_input
           from == tokens[n].end + 1
           S == {i \in from .. Len(t) : OccursAt(<<":">>, t, i)}
<1>1. t \in Seq(Letters) /\ Len(t) \in Nat /\ DOMAIN t = 1 .. Len(t)
    BY DEF FullInv, Inv, LexerType
<1>2. from \in Nat \ {0}
    <2>0. tokens \in Seq(Tokens)
        BY LastEndIn DEF FullInv, Inv
    <2>01. tokens[n] \in Tokens
        BY <2>0
    <2>1. tokens[n].end \in Nat
        BY <2>01 DEF Tokens
    <2> QED
        BY <2>1
<1>3. Leads(t, from)
    BY DEF FullInv, ModInv
<1> HIDE DEF from
<1>4. PICK c \in from .. Len(t) :
        t[c] = ":" /\ \A j \in from .. c - 1 : t[j] \in Word \cup {",", " "}
    BY <1>3 DEF Leads
<1>5. \A i \in from .. Len(t) : OccursAt(<<":">>, t, i) <=> t[i] = ":"
    <2> TAKE i \in from .. Len(t)
    <2>1. i \in 1 .. Len(t) /\ i + 1 - 1 = i /\ i <= Len(t)
        BY <1>1, <1>2
    <2> HIDE DEF t
    <2>2. SubSeq(t, i, i) = <<t[i]>>
        <3>1. t \in Seq(Letters) /\ i \in 1 .. Len(t)
            BY <1>1, <2>1
        <3>2. /\ SubSeq(t, i, i) \in Seq(Letters) /\ Len(SubSeq(t, i, i)) = 1
              /\ SubSeq(t, i, i)[1] = t[i]
            BY <3>1, SubSeqProperties
        <3>3. <<t[i]>> \in Seq(Letters) /\ Len(<<t[i]>>) = 1 /\ <<t[i]>>[1] = t[i]
            BY <3>1
        <3>4. \A k \in 1 .. 1 : k = 1
            OBVIOUS
        <3> QED
            BY <3>2, <3>3, <3>4, SeqEqual
    <2>3. Len(<<":">>) = 1
        OBVIOUS
    <2>4. OccursAt(<<":">>, t, i) <=> <<t[i]>> = <<":">>
        BY <2>1, <2>2, <2>3 DEF OccursAt
    <2>5. <<t[i]>> = <<":">> <=> t[i] = ":"
        <3>1. <<t[i]>>[1] = t[i] /\ <<":">>[1] = ":"
            OBVIOUS
        <3> QED
            BY <3>1
    <2> QED
        BY <2>4, <2>5
<1>6. c \in S /\ S \in SUBSET Nat /\ S # {}
    <2>1. c \in S
        BY <1>4, <1>5
    <2>2. from .. Len(t) \subseteq Nat /\ S \subseteq from .. Len(t)
        BY <1>1, <1>2
    <2> HIDE DEF S
    <2> QED
        BY <2>1, <2>2
<1>7. Min(S) \in S /\ \A x \in S : Min(S) <= x
    <2> HIDE DEF S
    <2> QED
        BY <1>6, MinExists
<1>8. Find(<<":">>, t, from) = Min(S)
    BY <1>6 DEF Find, Least
<1> DEFINE m == Min(S)
<1>9. m \in from .. c /\ m \in from .. Len(t) /\ t[m] = ":"
    <2>1. m <= c
        BY <1>6, <1>7
    <2>2. m \in from .. Len(t) /\ OccursAt(<<":">>, t, m)
        BY <1>7
    <2> HIDE DEF m, S, t
    <2>3. t[m] = ":"
        BY <1>5, <2>2
    <2>4. m \in from .. c
        BY <1>1, <1>2, <2>1, <2>2
    <2> QED
        BY <2>2, <2>3, <2>4
<1> HIDE DEF m, S, t
<1>10. m # 0
    BY <1>2, <1>9
<1>11. ToSet(SubSeq(t, from, m - 1)) \subseteq Word \cup {",", " "}
    <2>1. /\ SubSeq(t, from, m - 1) \in Seq(Letters)
          /\ Len(SubSeq(t, from, m - 1)) = m - from
          /\ \A i \in 1 .. m - from : SubSeq(t, from, m - 1)[i] = t[from + i - 1]
        <3>1. m - 1 \in 0 .. Len(t) /\ from \in 1 .. Len(t) /\ m - 1 >= from - 1
            BY <1>1, <1>2, <1>9
        <3> QED
            BY <1>1, <1>2, <1>9, <3>1, SubSeqProperties
    <2>2. \A i \in 1 .. m - from : from + i - 1 \in from .. c - 1
        BY <1>1, <1>2, <1>9
    <2>3. \A i \in 1 .. m - from : SubSeq(t, from, m - 1)[i] \in Word \cup {",", " "}
        BY <1>4, <2>1, <2>2
    <2>4. \A x \in ToSet(SubSeq(t, from, m - 1)) :
            \E i \in 1 .. m - from : x = SubSeq(t, from, m - 1)[i]
        <3> DEFINE u == SubSeq(t, from, m - 1)
        <3>1. DOMAIN u = 1 .. m - from
            <4>1. u \in Seq(Letters) /\ Len(u) = m - from
                BY <2>1
            <4> HIDE DEF u
            <4> QED
                BY <4>1
        <3> HIDE DEF u
        <3>2. \A x \in ToSet(u) : \E i \in 1 .. m - from : x = u[i]
            BY <3>1 DEF ToSet
        <3> QED
            BY <3>2 DEF u
    <2> QED
        BY <2>3, <2>4
<1> QED
    BY <1>8, <1>10, <1>11 DEF m, t, from

\* The lexer knows the place it reads, however far it looked ahead and took back; its
\* tokens are all of the list; a modifier leads to a colon; and it aborts only where no
\* offset is kept: omplexer.ll, for all texts of any length.
THEOREM LexerKeeps ==
    ASSUME LexerAssumption
    PROVE  Spec => [](LocationExact /\ TokensPartition
                      /\ ModifiersLeadToColon /\ AbortedUnanchored)
<1>1. Init => FullInv
    BY FullStart
<1>2. FullInv /\ [Next]_vars => FullInv'
    BY FullStep
<1>3. FullInv => LocationExact /\ TokensPartition /\ ModifiersLeadToColon /\ AbortedUnanchored
    BY LocationSays, TokensSay, ModifiersSay, AbortedSays DEF FullInv
<1> QED
    BY <1>1, <1>2, <1>3, PTL DEF Spec
=============================================================================
