------------------------ MODULE ParserContext_proofs ------------------------
(***************************************************************************)
(* First the clause containers, for every set of directives, clauses,      *)
(* kinds and base languages and every sequence of operations on them.      *)
(*                                                                         *)
(* Then the semantic actions, for every text, nesting and number of        *)
(* directives: they use the containers only through these operations, so   *)
(* the audit of the containers succeeds after every parse, whatever        *)
(* becomes of the parser's pointers.  And what they make of an accepted    *)
(* text: each clause, bracket, nesting and comma.                          *)
(***************************************************************************)
EXTENDS ParserContext, SequenceTheorems, TLAPS

-----------------------------------------------------------------------------
(* The containers. *)

\* The place a clause gets when another directive adopts it is a position.
LEMMA AdoptedPositionType ==
    ASSUME TypeOK, NEW d \in Directive, NEW s \in Directive,
           NEW c \in Range(order[s])
    PROVE  AdoptedPosition(d, s, c) \in Nat
<1>1. PICK i \in DOMAIN order[s] : order[s][i] = c
  BY DEF Range
<1>2. (CHOOSE j \in DOMAIN order[s] : order[s][j] = c) \in DOMAIN order[s]
  BY <1>1
<1>3. order[s] \in Seq(Clause) /\ order[d] \in Seq(Clause)
  BY DEF TypeOK
<1>4. DOMAIN order[s] = 1 .. Len(order[s]) /\ Len(order[d]) \in Nat
  BY <1>3
<1> QED
  BY <1>2, <1>4 DEF AdoptedPosition

\* Registering and placing a clause keeps the containers well typed.
LEMMA AddClauseType ==
    ASSUME TypeOK, NEW d \in Directive, NEW k \in AllKinds, NEW c \in Clause,
           RegisterClause(d, k, c), PlaceLast(d, c)
    PROVE  /\ owned' \in [Directive -> SUBSET Clause]
           /\ index' \in [Directive -> [AllKinds -> Seq(Clause)]]
           /\ order' \in [Directive -> Seq(Clause)]
           /\ clauseKind' \in [Clause -> AllKinds]
           /\ position' \in [Clause -> Nat]
<1>1. owned' \in [Directive -> SUBSET Clause]
  BY DEF TypeOK, RegisterClause
<1>2. index' \in [Directive -> [AllKinds -> Seq(Clause)]]
  BY DEF TypeOK, RegisterClause
<1>3. order' \in [Directive -> Seq(Clause)]
  BY DEF TypeOK, PlaceLast
<1>4. clauseKind' \in [Clause -> AllKinds]
  BY DEF TypeOK, RegisterClause
<1>5. Len(order[d]) \in Nat
  BY DEF TypeOK
<1>6. position' \in [Clause -> Nat]
  BY <1>5 DEF TypeOK, PlaceLast
<1> QED
  BY <1>1, <1>2, <1>3, <1>4, <1>6

\* Freshly built directives own nothing.
LEMMA StoreTypeInit == StoreInit => TypeOK
<1> SUFFICES ASSUME StoreInit PROVE TypeOK
  OBVIOUS
<1>1. <<>> \in Seq(Clause) /\ OMPC_order \in AllKinds
  BY DEF AllKinds
<1>2. index \in [Directive -> [AllKinds -> Seq(Clause)]]
  BY <1>1 DEF StoreInit
<1>3. order \in [Directive -> Seq(Clause)]
  BY <1>1 DEF StoreInit
<1>4. position \in [Clause -> Nat]
  BY DEF StoreInit
<1>5. /\ owned \in [Directive -> SUBSET Clause]
      /\ dirLang \in [Directive -> BaseLang]
      /\ clauseKind \in [Clause -> AllKinds]
      /\ clauseLang \in [Clause -> BaseLang]
      /\ sep \in [Clause -> Separator]
      /\ comma \in BOOLEAN
  BY <1>1, LangAssumption DEF StoreInit, Separator
<1> QED
  BY <1>2, <1>3, <1>4, <1>5 DEF TypeOK

\* Every operation of a directive keeps the containers well-typed.
LEMMA StoreTypeStep == TypeOK /\ [StoreNext]_storeVars => TypeOK'
<1> SUFFICES ASSUME TypeOK, [StoreNext]_storeVars PROVE TypeOK'
  OBVIOUS
<1>1. ASSUME NEW d \in Directive, NEW k \in AllKinds, NEW c \in Clause,
             AddClause(d, k, c)
      PROVE  TypeOK'
  <2>1. RegisterClause(d, k, c) /\ PlaceLast(d, c)
    BY <1>1 DEF AddClause
  <2>2. clauseLang' \in [Clause -> BaseLang] /\ dirLang' \in [Directive -> BaseLang]
    BY <1>1 DEF AddClause, RegisterClause, TypeOK
  <2>3. sep' \in [Clause -> Separator] /\ comma' \in BOOLEAN
    BY <1>1 DEF AddClause, TakeSeparator, TypeOK, Separator
  <2> QED
    BY <2>1, <2>2, <2>3, AddClauseType DEF TypeOK
<1>2. ASSUME NEW d \in Directive, NEW c \in Clause, AddOrderClause(d, c)
      PROVE  TypeOK'
  <2>1. RegisterClause(d, OMPC_order, c) /\ PlaceLast(d, c) /\ OMPC_order \in AllKinds
    BY <1>2 DEF AddOrderClause, AllKinds
  <2>2. clauseLang' \in [Clause -> BaseLang] /\ dirLang' \in [Directive -> BaseLang]
    BY <1>2 DEF AddOrderClause, RegisterClause, TypeOK
  <2>3. sep' \in [Clause -> Separator] /\ comma' \in BOOLEAN
    BY <1>2 DEF AddOrderClause, TypeOK, Separator
  <2> QED
    BY <2>1, <2>2, <2>3, AddClauseType DEF TypeOK
<1>3. ASSUME NEW b \in BOOLEAN, SetSeparator(b) PROVE TypeOK'
  BY <1>3 DEF SetSeparator, TypeOK
<1>4. ASSUME NEW d \in Directive, NEW l \in BaseLang, SetBaseLang(d, l)
      PROVE  TypeOK'
  BY <1>4 DEF SetBaseLang, TypeOK
<1>5. ASSUME NEW d \in Directive, NEW s \in Directive, AdoptClauses(d, s)
      PROVE  TypeOK'
  <2>1. AdoptedLang(d, s) \in BaseLang
    BY DEF AdoptedLang, TypeOK
  <2>2. owned' \in [Directive -> SUBSET Clause]
    BY <1>5 DEF AdoptClauses, AdoptedIndex, AdoptedOrder, AdoptedStorage, Relabelled, TypeOK
  <2>3. index' \in [Directive -> [AllKinds -> Seq(Clause)]]
    <3> DEFINE joined == [k \in AllKinds |-> index[d][k] \o index[s][k]]
               none == [k \in AllKinds |-> <<>>]
    <3>1. index' = [index EXCEPT ![d] = joined, ![s] = none]
      BY <1>5 DEF AdoptClauses, AdoptedIndex, AdoptedOrder, AdoptedStorage, Relabelled
    <3>2. /\ index \in [Directive -> [AllKinds -> Seq(Clause)]]
          /\ \A k \in AllKinds : index[d][k] \in Seq(Clause) /\ index[s][k] \in Seq(Clause)
      BY DEF TypeOK
    <3>3. joined \in [AllKinds -> Seq(Clause)]
      BY <3>2
    <3>4. <<>> \in Seq(Clause)
      OBVIOUS
    <3>5. none \in [AllKinds -> Seq(Clause)]
      BY <3>4
    <3> HIDE DEF joined, none
    <3> QED
      BY <3>1, <3>2, <3>3, <3>5
  <2>4. order' \in [Directive -> Seq(Clause)]
    <3>1. order' = [order EXCEPT ![d] = order[d] \o order[s], ![s] = <<>>]
      BY <1>5 DEF AdoptClauses, AdoptedIndex, AdoptedOrder, AdoptedStorage, Relabelled
    <3>2. order \in [Directive -> Seq(Clause)]
      BY DEF TypeOK
    <3>3. order[d] \o order[s] \in Seq(Clause) /\ <<>> \in Seq(Clause)
      BY <3>2
    <3> QED
      BY <3>1, <3>2, <3>3
  <2>5. position' \in [Clause -> Nat]
    BY <1>5, AdoptedPositionType DEF AdoptClauses, AdoptedIndex, AdoptedOrder, AdoptedStorage, Relabelled, TypeOK
  <2>6. /\ dirLang' \in [Directive -> BaseLang]
        /\ clauseLang' \in [Clause -> BaseLang]
    BY <1>5, <2>1 DEF AdoptClauses, AdoptedIndex, AdoptedOrder, AdoptedStorage, Relabelled, TypeOK
  <2> QED
    BY <1>5, <2>2, <2>3, <2>4, <2>5, <2>6 DEF AdoptClauses, AdoptedIndex, AdoptedOrder, AdoptedStorage, Relabelled, TypeOK
<1>6. CASE UNCHANGED storeVars
  BY <1>6 DEF storeVars, TypeOK
<1> QED
  BY <1>1, <1>2, <1>3, <1>4, <1>5, <1>6 DEF StoreNext

\* The containers only ever hold clauses of the right shape.
THEOREM StoreTypeCorrect == StoreSpec => []TypeOK
<1> QED
  BY StoreTypeInit, StoreTypeStep, PTL DEF StoreSpec

-----------------------------------------------------------------------------
(***************************************************************************)
(* The inductive invariant: the audit finds nothing, owners are disjoint,  *)
(* the kind indexes follow source order, and clauses have their owner's    *)
(* language.  SingleOwner is what lets a step on one directive be ignored  *)
(* when auditing another; OwnedOrdered is what makes adoption, which walks *)
(* the source's order, renumber every clause it moves.                     *)
(***************************************************************************)
Containers == StoreAlwaysValid /\ SingleOwner /\ IndexInSourceOrder

StoreInv == TypeOK /\ Containers /\ LanguageOfOwner

\* Registering a fresh clause and placing it last keeps the containers in step.
LEMMA AddKeepsContainers ==
    ASSUME TypeOK, TypeOK', Containers,
           NEW d \in Directive, NEW k \in AllKinds, NEW c \in Clause,
           RegisterClause(d, k, c), PlaceLast(d, c)
    PROVE  Containers'
<1> USE DEF ValidateInvariants, IndexKindMatches, IndexOwned, OrderOwned,
            PositionMatches, OrderIndexed, OwnedOrdered
<1> DEFINE n == Len(order[d])
           m == Len(index[d][k])
<1>1. \A e \in Directive : c \notin owned[e]
  BY DEF RegisterClause, Live
<1>2. /\ owned' = [owned EXCEPT ![d] = owned[d] \cup {c}]
      /\ clauseKind' = [clauseKind EXCEPT ![c] = k]
      /\ position' = [position EXCEPT ![c] = n]
      /\ order' = [order EXCEPT ![d] = Append(order[d], c)]
      /\ index' = [index EXCEPT ![d] = [index[d] EXCEPT ![k] = Append(index[d][k], c)]]
  BY DEF RegisterClause, PlaceLast, TypeOK
<1>3. /\ order \in [Directive -> Seq(Clause)]
      /\ \A e \in Directive : order[e] \in Seq(Clause) /\ DOMAIN order[e] = 1 .. Len(order[e])
      /\ n \in Nat
  BY DEF TypeOK
<1>4. /\ index \in [Directive -> [AllKinds -> Seq(Clause)]]
      /\ \A e \in Directive, q \in AllKinds :
            index[e][q] \in Seq(Clause) /\ DOMAIN index[e][q] = 1 .. Len(index[e][q])
      /\ m \in Nat
  <2>1. index \in [Directive -> [AllKinds -> Seq(Clause)]]
    BY DEF TypeOK
  <2>2. ASSUME NEW e \in Directive, NEW q \in AllKinds
        PROVE  index[e][q] \in Seq(Clause)
    <3>1. index[e] \in [AllKinds -> Seq(Clause)]
      BY <2>1
    <3> QED
      BY <3>1
  <2>3. \A t \in Seq(Clause) : DOMAIN t = 1 .. Len(t) /\ Len(t) \in Nat
    OBVIOUS
  <2> QED
    BY <2>1, <2>2, <2>3
<1>5. /\ order'[d] = Append(order[d], c)
      /\ DOMAIN order'[d] = 1 .. n + 1
      /\ \A i \in 1 .. n : order'[d][i] = order[d][i]
      /\ order'[d][n + 1] = c
  BY <1>2, <1>3
<1>6. \A e \in Directive : e # d => order'[e] = order[e]
  BY <1>2, <1>3
<1>7. /\ index'[d][k] = Append(index[d][k], c)
      /\ DOMAIN index'[d][k] = 1 .. m + 1
      /\ \A i \in 1 .. m : index'[d][k][i] = index[d][k][i]
      /\ index'[d][k][m + 1] = c
  BY <1>2, <1>4
<1>8. \A e \in Directive, q \in AllKinds : e # d \/ q # k => index'[e][q] = index[e][q]
  BY <1>2, <1>4
<1>9. /\ owned'[d] = owned[d] \cup {c}
      /\ \A e \in Directive : e # d => owned'[e] = owned[e]
  BY <1>2 DEF TypeOK
<1>10. /\ clauseKind'[c] = k /\ position'[c] = n
       /\ \A b \in Clause : b # c => clauseKind'[b] = clauseKind[b] /\ position'[b] = position[b]
  BY <1>2 DEF TypeOK
<1>11. \A e \in Directive : \A i \in DOMAIN order[e] :
          order[e][i] \in owned[e] /\ order[e][i] \in Clause /\ order[e][i] # c
  BY <1>1, <1>3 DEF Containers, StoreAlwaysValid, TypeOK
<1>12. \A e \in Directive, q \in AllKinds : \A i \in DOMAIN index[e][q] :
          /\ index[e][q][i] \in owned[e] /\ index[e][q][i] \in Clause
          /\ index[e][q][i] # c
  BY <1>1, <1>4 DEF Containers, StoreAlwaysValid, TypeOK
<1> HIDE DEF n, m
<1>13. SingleOwner'
  BY <1>1, <1>9 DEF Containers, SingleOwner
<1>14. ASSUME NEW e \in Directive PROVE ValidateInvariants(e)'
  <2>0. ValidateInvariants(e)
    BY DEF Containers, StoreAlwaysValid
  <2>1. ASSUME NEW q \in AllKinds, NEW i \in DOMAIN index'[e][q]
        PROVE  clauseKind'[index'[e][q][i]] = q /\ index'[e][q][i] \in owned'[e]
    <3>1. CASE e = d /\ q = k
      <4>1. CASE i = m + 1
        BY <3>1, <4>1, <1>7, <1>9, <1>10
      <4>2. CASE i # m + 1
        <5>1. i \in DOMAIN index[d][k] /\ index'[d][k][i] = index[d][k][i]
          BY <2>1, <3>1, <4>2, <1>4, <1>7 DEF m
        <5> QED
          BY <3>1, <5>1, <2>0, <1>9, <1>10, <1>12
      <4> QED
        BY <4>1, <4>2
    <3>2. CASE e # d \/ q # k
      BY <2>1, <3>2, <2>0, <1>8, <1>9, <1>10, <1>12
    <3> QED
      BY <3>1, <3>2
  <2>2. ASSUME NEW q \in AllKinds PROVE IsInjective(index'[e][q])
    <3>1. CASE e = d /\ q = k
      <4>1. \A i, j \in 1 .. m : index[d][k][i] = index[d][k][j] => i = j
        BY <3>1, <2>0, <1>4 DEF IsInjective, IndexWithoutDuplicate, m
      <4>2. \A i \in 1 .. m : index[d][k][i] # c
        BY <1>4, <1>12 DEF m
      <4> QED
        BY <3>1, <4>1, <4>2, <1>4, <1>7 DEF IsInjective
    <3>2. CASE e # d \/ q # k
      BY <3>2, <2>0, <1>8 DEF IndexWithoutDuplicate
    <3> QED
      BY <3>1, <3>2
  <2>3. IsInjective(order'[e])
    <3>1. CASE e = d
      <4>1. \A i, j \in 1 .. n : order[d][i] = order[d][j] => i = j
        BY <3>1, <2>0, <1>3 DEF IsInjective, OrderWithoutDuplicate, n
      <4>2. \A i \in 1 .. n : order[d][i] # c
        BY <1>3, <1>11 DEF n
      <4> QED
        BY <3>1, <4>1, <4>2, <1>3, <1>5 DEF IsInjective
    <3>2. CASE e # d
      BY <3>2, <2>0, <1>6 DEF OrderWithoutDuplicate
    <3> QED
      BY <3>1, <3>2
  <2>4. ASSUME NEW i \in DOMAIN order'[e]
        PROVE  /\ order'[e][i] \in owned'[e]
               /\ position'[order'[e][i]] = i - 1
    <3>1. CASE e = d /\ i = n + 1
      BY <2>4, <3>1, <1>3, <1>5, <1>9, <1>10
    <3>2. CASE e = d /\ i # n + 1
      <4>1. i \in DOMAIN order[d] /\ i \in 1 .. n
        BY <2>4, <3>2, <1>3, <1>5 DEF n
      <4>2. order'[e][i] = order[d][i] /\ order[d][i] \in Clause /\ order[d][i] # c
        BY <3>2, <4>1, <1>5, <1>11
      <4>3. order[d][i] \in owned[d] /\ position[order[d][i]] = i - 1
        BY <3>2, <4>1, <2>0
      <4> QED
        BY <3>2, <4>2, <4>3, <1>9, <1>10
    <3>3. CASE e # d
      BY <2>4, <3>3, <2>0, <1>6, <1>9, <1>10, <1>11
    <3> QED
      BY <3>1, <3>2, <3>3
  <2>5. ASSUME NEW i \in DOMAIN order'[e]
        PROVE  order'[e][i] \in Range(index'[e][clauseKind'[order'[e][i]]])
    <3>1. CASE e = d /\ i = n + 1
      <4>1. order'[e][i] = c /\ clauseKind'[c] = k
        BY <3>1, <1>5, <1>10
      <4>2. m + 1 \in DOMAIN index'[d][k]
        BY <1>4, <1>7
      <4> QED
        BY <3>1, <4>1, <4>2, <1>7 DEF Range
    <3>2. CASE ~ (e = d /\ i = n + 1)
      <4>1. i \in DOMAIN order[e] /\ order'[e][i] = order[e][i]
        <5>1. CASE e = d
          <6>1. i \in 1 .. n + 1 /\ i # n + 1
            BY <2>5, <3>2, <5>1, <1>5
          <6>2. i \in 1 .. n
            BY <6>1, <1>3
          <6> QED
            BY <5>1, <6>2, <1>3, <1>5 DEF n
        <5>2. CASE e # d
          BY <2>5, <5>2, <1>6
        <5> QED
          BY <5>1, <5>2
      <4> DEFINE b == order[e][i]
                 q == clauseKind[b]
      <4>2. b \in Clause /\ b # c /\ q \in AllKinds /\ clauseKind'[b] = q
        BY <4>1, <1>10, <1>11 DEF TypeOK
      <4>3. PICK j \in DOMAIN index[e][q] : index[e][q][j] = b
        BY <4>1, <2>0 DEF Range
      <4>4. j \in DOMAIN index'[e][q] /\ index'[e][q][j] = b
        <5>1. CASE e = d /\ q = k
          <6>1. j \in 1 .. m
            BY <4>3, <5>1, <1>4 DEF m
          <6> QED
            BY <4>3, <5>1, <6>1, <1>4, <1>7
        <5>2. CASE e # d \/ q # k
          BY <4>2, <4>3, <5>2, <1>8
        <5> QED
          BY <5>1, <5>2
      <4> QED
        BY <4>1, <4>2, <4>4 DEF Range
    <3> QED
      BY <3>1, <3>2
  <2>6. owned'[e] \subseteq Range(order'[e])
    <3> SUFFICES ASSUME NEW b \in owned'[e] PROVE b \in Range(order'[e])
      OBVIOUS
    <3>1. CASE e = d /\ b = c
      <4>1. n + 1 \in DOMAIN order'[d]
        BY <1>3, <1>5
      <4> QED
        BY <3>1, <4>1, <1>5 DEF Range
    <3>2. CASE ~ (e = d /\ b = c)
      <4>1. b \in owned[e]
        BY <3>2, <1>9
      <4>2. PICK j \in DOMAIN order[e] : order[e][j] = b
        BY <4>1, <2>0 DEF Range
      <4>3. j \in DOMAIN order'[e] /\ order'[e][j] = b
        <5>1. CASE e = d
          <6>1. j \in 1 .. n
            BY <4>2, <5>1, <1>3 DEF n
          <6> QED
            BY <4>2, <5>1, <6>1, <1>3, <1>5
        <5>2. CASE e # d
          BY <4>2, <5>2, <1>6
        <5> QED
          BY <5>1, <5>2
      <4> QED
        BY <4>3 DEF Range
    <3> QED
      BY <3>1, <3>2
  <2> QED
    BY <2>1, <2>2, <2>3, <2>4, <2>5, <2>6 DEF IndexWithoutDuplicate, OrderWithoutDuplicate
<1>15. ASSUME NEW e \in Directive, NEW q \in AllKinds,
              NEW i \in DOMAIN index'[e][q], NEW j \in DOMAIN index'[e][q], i < j
       PROVE  position'[index'[e][q][i]] < position'[index'[e][q][j]]
  <2>0. \A a, b \in DOMAIN index[e][q] :
           a < b => position[index[e][q][a]] < position[index[e][q][b]]
    BY DEF Containers, IndexInSourceOrder
  <2>1. CASE e = d /\ q = k /\ j = m + 1
    <3>1. i \in DOMAIN index[d][k] /\ index'[d][k][i] = index[d][k][i]
      BY <1>15, <2>1, <1>4, <1>7 DEF m
    <3>2. index[d][k][i] \in Range(order[d])
      BY <3>1, <1>12 DEF Containers, StoreAlwaysValid
    <3>3. PICK p \in DOMAIN order[d] : order[d][p] = index[d][k][i]
      BY <3>2 DEF Range
    <3>4. position[index[d][k][i]] = p - 1 /\ p \in 1 .. n
      BY <3>3, <1>3 DEF Containers, StoreAlwaysValid, n
    <3>5. position'[index[d][k][i]] = p - 1
      BY <3>1, <3>4, <1>10, <1>12
    <3> QED
      BY <2>1, <3>1, <3>4, <3>5, <1>3, <1>7, <1>10
  <2>2. CASE ~ (e = d /\ q = k /\ j = m + 1)
    <3>1. /\ i \in DOMAIN index[e][q] /\ index'[e][q][i] = index[e][q][i]
          /\ j \in DOMAIN index[e][q] /\ index'[e][q][j] = index[e][q][j]
      <4>1. CASE e = d /\ q = k
        <5>1. i \in 1 .. m /\ j \in 1 .. m
          BY <1>15, <2>2, <4>1, <1>4, <1>7
        <5> QED
          BY <4>1, <5>1, <1>4, <1>7 DEF m
      <4>2. CASE e # d \/ q # k
        BY <1>15, <4>2, <1>8
      <4> QED
        BY <4>1, <4>2
    <3> QED
      BY <1>15, <3>1, <2>0, <1>10, <1>12
  <2> QED
    BY <2>1, <2>2
<1> QED
  BY <1>13, <1>14, <1>15 DEF Containers, StoreAlwaysValid, IndexInSourceOrder

\* Where the elements of the concatenation w of t and u come from and go to.
Joined(t, u, w) ==
    /\ \A i \in DOMAIN w :
          /\ i \in Int
          /\ \/ i \in DOMAIN t /\ w[i] = t[i]
             \/ /\ i > Len(t)
                /\ i - Len(t) \in DOMAIN u
                /\ w[i] = u[i - Len(t)]
    /\ \A i \in DOMAIN t : i \in DOMAIN w /\ w[i] = t[i]
    /\ \A i \in DOMAIN u : i + Len(t) \in DOMAIN w /\ w[i + Len(t)] = u[i]

\* The elements of a concatenation are those of its parts, in that order.
LEMMA JoinedElements ==
    ASSUME NEW S, NEW t \in Seq(S), NEW u \in Seq(S)
    PROVE  Joined(t, u, t \o u)
<1>1. /\ t \o u \in Seq(S)
      /\ Len(t \o u) = Len(t) + Len(u)
      /\ \A i \in 1 .. Len(t) + Len(u) :
            (t \o u)[i] = IF i <= Len(t) THEN t[i] ELSE u[i - Len(t)]
  BY ConcatProperties
<1>2. /\ DOMAIN t = 1 .. Len(t) /\ Len(t) \in Nat
      /\ DOMAIN u = 1 .. Len(u) /\ Len(u) \in Nat
      /\ DOMAIN (t \o u) = 1 .. Len(t) + Len(u)
  BY <1>1
<1> QED
  BY <1>1, <1>2 DEF Joined

\* What adoption does to the position of every clause that had one: the
\* adopted clauses move up by the length of the adopter's list, and no clause
\* of another directive moves.
LEMMA AdoptedPositions ==
    ASSUME TypeOK, Containers, NEW d \in Directive, NEW s \in Directive,
           AdoptClauses(d, s)
    PROVE  /\ \A b \in owned[s] : position'[b] = Len(order[d]) + position[b]
           /\ \A e \in Directive : e # s =>
                 \A b \in owned[e] : position'[b] = position[b]
           /\ \A e \in Directive : \A b \in owned[e] : position[b] \in 0 .. Len(order[e]) - 1
<1>1. \A e \in Directive : order[e] \in Seq(Clause) /\ DOMAIN order[e] = 1 .. Len(order[e])
                           /\ Len(order[e]) \in Nat
  BY DEF TypeOK
<1>2. \A e \in Directive : owned[e] \subseteq Clause
  BY DEF TypeOK
<1>3. \A b \in Clause : position'[b] = IF b \in Range(order[s])
                                       THEN AdoptedPosition(d, s, b)
                                       ELSE position[b]
  BY DEF AdoptClauses, AdoptedIndex, AdoptedOrder, AdoptedStorage, Relabelled
<1>4. ASSUME NEW e \in Directive, NEW b \in owned[e]
      PROVE  \E i \in DOMAIN order[e] : order[e][i] = b /\ position[b] = i - 1
  BY <1>4 DEF Containers, StoreAlwaysValid, ValidateInvariants, OwnedOrdered,
              PositionMatches, Range
<1>5. ASSUME NEW b \in owned[s] PROVE position'[b] = Len(order[d]) + position[b]
  <2>1. PICK i \in DOMAIN order[s] : order[s][i] = b /\ position[b] = i - 1
    BY <1>4
  <2>2. \A j \in DOMAIN order[s] : order[s][j] = b => j = i
    BY <2>1 DEF Containers, StoreAlwaysValid, ValidateInvariants,
                OrderWithoutDuplicate, IsInjective
  <2>3. (CHOOSE j \in DOMAIN order[s] : order[s][j] = b) = i
    BY <2>1, <2>2
  <2>4. b \in Range(order[s]) /\ b \in Clause
    BY <2>1, <1>2 DEF Range
  <2>5. position'[b] = Len(order[d]) - 1 + i
    BY <1>3, <2>3, <2>4 DEF AdoptedPosition
  <2>6. Len(order[d]) \in Nat /\ i \in Int
    BY <2>1, <1>1
  <2> QED
    BY <2>1, <2>5, <2>6
<1>6. ASSUME NEW e \in Directive, e # s, NEW b \in owned[e]
      PROVE  position'[b] = position[b]
  <2>1. b \notin owned[s]
    BY <1>6 DEF Containers, SingleOwner
  <2>2. b \notin Range(order[s])
    BY <2>1 DEF Containers, StoreAlwaysValid, ValidateInvariants, OrderOwned, Range
  <2> QED
    BY <2>2, <1>2, <1>3
<1>7. ASSUME NEW e \in Directive, NEW b \in owned[e]
      PROVE  position[b] \in 0 .. Len(order[e]) - 1
  <2>1. PICK i \in DOMAIN order[e] : position[b] = i - 1
    BY <1>4
  <2> QED
    BY <2>1, <1>1
<1> QED
  BY <1>5, <1>6, <1>7

\* Adoption keeps the containers of the adopter and of the source in step.
LEMMA AdoptKeepsContainers ==
    ASSUME TypeOK, TypeOK', Containers, NEW d \in Directive, NEW s \in Directive,
           AdoptClauses(d, s)
    PROVE  Containers'
<1> DEFINE n == Len(order[d])
<1>1. d # s
  BY DEF AdoptClauses, AdoptedIndex, AdoptedOrder, AdoptedStorage, Relabelled, Adopts
<1>2. /\ \A e \in Directive : order[e] \in Seq(Clause) /\ DOMAIN order[e] = 1 .. Len(order[e])
      /\ n \in Nat
  BY DEF TypeOK
<1>3. \A e \in Directive, q \in AllKinds :
         /\ index[e][q] \in Seq(Clause)
         /\ DOMAIN index[e][q] = 1 .. Len(index[e][q])
         /\ Len(index[e][q]) \in Nat
  <2>1. index \in [Directive -> [AllKinds -> Seq(Clause)]]
    BY DEF TypeOK
  <2>2. ASSUME NEW e \in Directive, NEW q \in AllKinds PROVE index[e][q] \in Seq(Clause)
    <3>1. index[e] \in [AllKinds -> Seq(Clause)]
      BY <2>1
    <3> QED
      BY <3>1
  <2>3. \A t \in Seq(Clause) : DOMAIN t = 1 .. Len(t) /\ Len(t) \in Nat
    OBVIOUS
  <2> QED
    BY <2>2, <2>3
<1>4. /\ order'[d] = order[d] \o order[s]
      /\ order'[s] = <<>>
      /\ \A e \in Directive : e # d /\ e # s => order'[e] = order[e]
  BY <1>1 DEF AdoptClauses, AdoptedIndex, AdoptedOrder, AdoptedStorage, Relabelled, TypeOK
<1>5. \A i \in DOMAIN order'[d] : i \in Int /\
         \/ i \in DOMAIN order[d] /\ order'[d][i] = order[d][i]
         \/ i - n \in DOMAIN order[s] /\ order'[d][i] = order[s][i - n]
  <2>1. order[d] \in Seq(Clause) /\ order[s] \in Seq(Clause)
    BY <1>2
  <2>2. Joined(order[d], order[s], order[d] \o order[s])
    BY <2>1, JoinedElements
  <2> QED
    BY <2>2, <1>4 DEF Joined
<1>6. /\ \A i \in DOMAIN order[d] : i \in DOMAIN order'[d] /\ order'[d][i] = order[d][i]
      /\ \A i \in DOMAIN order[s] : i + n \in DOMAIN order'[d] /\ order'[d][i + n] = order[s][i]
  <2>1. order[d] \in Seq(Clause) /\ order[s] \in Seq(Clause)
    BY <1>2
  <2>2. Joined(order[d], order[s], order[d] \o order[s])
    BY <2>1, JoinedElements
  <2> QED
    BY <2>2, <1>4 DEF Joined
<1>7. /\ \A q \in AllKinds : index'[d][q] = index[d][q] \o index[s][q]
      /\ \A q \in AllKinds : index'[s][q] = <<>>
      /\ \A e \in Directive : e # d /\ e # s => index'[e] = index[e]
  BY <1>1 DEF AdoptClauses, AdoptedIndex, AdoptedOrder, AdoptedStorage, Relabelled, TypeOK
<1>joined. ASSUME NEW q \in AllKinds
       PROVE  Joined(index[d][q], index[s][q], index'[d][q])
  <2>1. index[d][q] \in Seq(Clause) /\ index[s][q] \in Seq(Clause)
    BY <1>3
  <2>2. Joined(index[d][q], index[s][q], index[d][q] \o index[s][q])
    BY <2>1, JoinedElements
  <2>3. index'[d][q] = index[d][q] \o index[s][q]
    BY <1>7
  <2> QED
    BY <2>2, <2>3
<1>8. \A q \in AllKinds : \A i \in DOMAIN index'[d][q] :
         \/ i \in DOMAIN index[d][q] /\ index'[d][q][i] = index[d][q][i]
         \/ /\ i > Len(index[d][q])
            /\ i - Len(index[d][q]) \in DOMAIN index[s][q]
            /\ index'[d][q][i] = index[s][q][i - Len(index[d][q])]
  BY <1>joined DEF Joined
<1>9. \A q \in AllKinds :
         /\ \A i \in DOMAIN index[d][q] :
               i \in DOMAIN index'[d][q] /\ index'[d][q][i] = index[d][q][i]
         /\ \A i \in DOMAIN index[s][q] :
               /\ i + Len(index[d][q]) \in DOMAIN index'[d][q]
               /\ index'[d][q][i + Len(index[d][q])] = index[s][q][i]
         /\ \A i \in DOMAIN index'[d][q] : i \in Int
  BY <1>joined DEF Joined
<1>10. /\ owned'[d] = owned[d] \cup owned[s]
       /\ owned'[s] = {}
       /\ \A e \in Directive : e # d /\ e # s => owned'[e] = owned[e]
       /\ clauseKind' = clauseKind
  BY <1>1 DEF AdoptClauses, AdoptedIndex, AdoptedOrder, AdoptedStorage, Relabelled, TypeOK
<1>11. /\ \A b \in owned[s] : position'[b] = n + position[b]
       /\ \A e \in Directive : e # s => \A b \in owned[e] : position'[b] = position[b]
       /\ \A e \in Directive : \A b \in owned[e] : position[b] \in 0 .. Len(order[e]) - 1
  BY AdoptedPositions
<1>12. \A e \in Directive : ValidateInvariants(e)
  BY DEF Containers, StoreAlwaysValid
<1>13. \A b \in owned[s] : b \notin owned[d]
  BY <1>1 DEF Containers, SingleOwner
<1>14. SingleOwner'
  BY <1>10 DEF Containers, SingleOwner
<1> HIDE DEF n
<1>15. ASSUME NEW q \in AllKinds, NEW i \in DOMAIN index'[d][q],
             NEW j \in DOMAIN index'[d][q], i < j
      PROVE  position'[index'[d][q][i]] < position'[index'[d][q][j]]
  <2> DEFINE m == Len(index[d][q])
             a == index'[d][q][i]
             b == index'[d][q][j]
  <2>1. \A e \in Directive : \A h \in DOMAIN index[e][q] : index[e][q][h] \in owned[e]
    BY <1>12 DEF ValidateInvariants, IndexOwned
  <2>2. \A e \in Directive : \A h, l \in DOMAIN index[e][q] : h < l =>
           position[index[e][q][h]] < position[index[e][q][l]]
    BY DEF Containers, IndexInSourceOrder
  <2>3. m \in Nat /\ DOMAIN index[d][q] = 1 .. m
    BY <1>3
  <2>4. i \in Int /\ j \in Int
    BY <1>9, <1>15
  <2>5. CASE i \in DOMAIN index[d][q] /\ j \in DOMAIN index[d][q]
    <3>1. a = index[d][q][i] /\ b = index[d][q][j]
      BY <2>5, <1>9
    <3>2. position'[a] = position[a] /\ position'[b] = position[b]
      BY <3>1, <2>1, <2>5, <1>1, <1>11
    <3> QED
      BY <3>1, <3>2, <2>2, <2>5, <1>15
  <2>6. CASE i \in DOMAIN index[d][q] /\ j \notin DOMAIN index[d][q]
    <3>1. a = index[d][q][i] /\ a \in owned[d]
      BY <2>6, <2>1, <1>9
    <3>2. b \in owned[s]
      BY <2>6, <2>1, <1>8
    <3>3. position'[a] = position[a] /\ position[a] \in 0 .. n - 1
      BY <3>1, <1>1, <1>11 DEF n
    <3>4. position'[b] = n + position[b] /\ position[b] \in Nat
      BY <3>2, <1>2, <1>11
    <3> QED
      BY <3>3, <3>4, <1>2
  <2>7. CASE i \notin DOMAIN index[d][q] /\ j \notin DOMAIN index[d][q]
    <3>1. /\ i - m \in DOMAIN index[s][q] /\ a = index[s][q][i - m]
          /\ j - m \in DOMAIN index[s][q] /\ b = index[s][q][j - m]
      BY <2>7, <1>8
    <3>2. i - m < j - m
      BY <2>3, <2>4, <1>15
    <3>3. position[a] < position[b]
      BY <3>1, <3>2, <2>2
    <3>4. a \in owned[s] /\ b \in owned[s]
      BY <3>1, <2>1
    <3>5. position'[a] = n + position[a] /\ position'[b] = n + position[b]
      BY <3>4, <1>11
    <3>6. position[a] \in Int /\ position[b] \in Int
      BY <3>4, <1>11
    <3> QED
      BY <3>3, <3>5, <3>6, <1>2
  <2>8. CASE i \notin DOMAIN index[d][q] /\ j \in DOMAIN index[d][q]
    <3>1. i > m /\ j <= m
      BY <2>3, <2>8, <1>8
    <3> QED
      BY <3>1, <2>3, <2>4, <1>15
  <2> QED
    BY <2>5, <2>6, <2>7, <2>8
<1>16. ValidateInvariants(d)'
  <2>1. ASSUME NEW q \in AllKinds, NEW i \in DOMAIN index'[d][q]
        PROVE  clauseKind'[index'[d][q][i]] = q /\ index'[d][q][i] \in owned'[d]
    <3>1. \A e \in Directive : \A j \in DOMAIN index[e][q] :
             clauseKind[index[e][q][j]] = q /\ index[e][q][j] \in owned[e]
      BY <1>12 DEF ValidateInvariants, IndexKindMatches, IndexOwned
    <3>2. CASE i \in DOMAIN index[d][q] /\ index'[d][q][i] = index[d][q][i]
      BY <3>1, <3>2, <1>10
    <3>3. CASE /\ i - Len(index[d][q]) \in DOMAIN index[s][q]
               /\ index'[d][q][i] = index[s][q][i - Len(index[d][q])]
      BY <3>1, <3>3, <1>10
    <3> QED
      BY <3>2, <3>3, <1>8
  <2>3. ASSUME NEW q \in AllKinds PROVE IsInjective(index'[d][q])
    <3>1. ASSUME NEW i \in DOMAIN index'[d][q], NEW j \in DOMAIN index'[d][q], i # j
          PROVE  index'[d][q][i] # index'[d][q][j]
      <4>1. i \in Int /\ j \in Int
        BY <3>1, <1>9
      <4>2. \A h \in DOMAIN index'[d][q] : position'[index'[d][q][h]] \in Int
        <5>1. \A h \in DOMAIN index'[d][q] : index'[d][q][h] \in owned'[d]
          BY <2>1
        <5>2. \A b \in owned'[d] : position'[b] \in Int
          BY <1>1, <1>2, <1>10, <1>11
        <5> QED
          BY <5>1, <5>2
      <4>3. CASE i < j
        BY <4>2, <4>3, <1>15
      <4>4. CASE j < i
        BY <4>2, <4>4, <1>15
      <4> QED
        BY <3>1, <4>1, <4>3, <4>4
    <3> QED
      BY <3>1 DEF IsInjective
  <2>4. ASSUME NEW i \in DOMAIN order'[d]
        PROVE  /\ order'[d][i] \in owned'[d]
               /\ position'[order'[d][i]] = i - 1
    <3>1. \A e \in Directive : \A j \in DOMAIN order[e] :
             order[e][j] \in owned[e] /\ position[order[e][j]] = j - 1
      BY <1>12 DEF ValidateInvariants, OrderOwned, PositionMatches
    <3>2. CASE i \in DOMAIN order[d] /\ order'[d][i] = order[d][i]
      BY <3>1, <3>2, <1>1, <1>10, <1>11
    <3>3. CASE i - n \in DOMAIN order[s] /\ order'[d][i] = order[s][i - n]
      <4>1. /\ order[s][i - n] \in owned[s]
            /\ position'[order[s][i - n]] = n + ((i - n) - 1)
        BY <3>1, <3>3, <1>11
      <4>2. i \in Int
        BY <1>2, <1>4
      <4> QED
        BY <3>3, <4>1, <4>2, <1>2, <1>10
    <3> QED
      BY <3>2, <3>3, <1>5
  <2>5. IsInjective(order'[d])
    <3>1. \A i \in DOMAIN order'[d] : i \in Int
      BY <1>2, <1>4
    <3> QED
      BY <3>1, <2>4 DEF IsInjective
  <2>6. ASSUME NEW i \in DOMAIN order'[d]
        PROVE  order'[d][i] \in Range(index'[d][clauseKind'[order'[d][i]]])
    <3> DEFINE b == order'[d][i]
               q == clauseKind[b]
    <3>1. \A e \in Directive : \A j \in DOMAIN order[e] :
             /\ order[e][j] \in Clause
             /\ order[e][j] \in Range(index[e][clauseKind[order[e][j]]])
      BY <1>2, <1>12 DEF ValidateInvariants, OrderIndexed
    <3>2. b \in Clause /\ (b \in Range(index[d][q]) \/ b \in Range(index[s][q]))
      BY <3>1, <1>5
    <3>3. q \in AllKinds
      BY <3>2 DEF TypeOK
    <3>4. b \in Range(index'[d][q])
      BY <3>2, <3>3, <1>9 DEF Range
    <3> QED
      BY <3>4, <1>10
  <2>7. owned'[d] \subseteq Range(order'[d])
    <3>1. \A e \in Directive : owned[e] \subseteq Range(order[e])
      BY <1>12 DEF ValidateInvariants, OwnedOrdered
    <3> QED
      BY <3>1, <1>6, <1>10 DEF Range
  <2> QED
    BY <2>1, <2>3, <2>4, <2>5, <2>6, <2>7
       DEF ValidateInvariants, IndexKindMatches, IndexOwned, IndexWithoutDuplicate,
           OrderOwned, OrderWithoutDuplicate, PositionMatches, OrderIndexed, OwnedOrdered
<1>17. ASSUME NEW e \in Directive, e # d PROVE ValidateInvariants(e)'
  <2>1. CASE e = s
    <3>1. owned'[e] = {} /\ order'[e] = <<>> /\ \A q \in AllKinds : index'[e][q] = <<>>
      BY <2>1, <1>4, <1>7, <1>10
    <3>2. DOMAIN order'[e] = {} /\ \A q \in AllKinds : DOMAIN index'[e][q] = {}
      BY <3>1
    <3> QED
      BY <3>1, <3>2
         DEF ValidateInvariants, IndexKindMatches, IndexOwned, IndexWithoutDuplicate,
             OrderOwned, OrderWithoutDuplicate, PositionMatches, OrderIndexed,
             OwnedOrdered, IsInjective
  <2>2. CASE e # s
    <3>1. /\ owned'[e] = owned[e] /\ order'[e] = order[e] /\ index'[e] = index[e]
          /\ clauseKind' = clauseKind
      BY <1>17, <2>2, <1>4, <1>7, <1>10
    <3>2. \A i \in DOMAIN order[e] : position'[order[e][i]] = position[order[e][i]]
      BY <2>2, <1>11, <1>12 DEF ValidateInvariants, OrderOwned
    <3> QED
      BY <3>1, <3>2, <1>12
         DEF ValidateInvariants, IndexKindMatches, IndexOwned, IndexWithoutDuplicate,
             OrderOwned, OrderWithoutDuplicate, PositionMatches, OrderIndexed,
             OwnedOrdered
  <2> QED
    BY <2>1, <2>2
<1>18. ASSUME NEW e \in Directive, NEW q \in AllKinds,
              NEW i \in DOMAIN index'[e][q], NEW j \in DOMAIN index'[e][q], i < j
       PROVE  position'[index'[e][q][i]] < position'[index'[e][q][j]]
  <2>1. CASE e = d
    BY <1>18, <1>15, <2>1
  <2>2. CASE e = s
    <3>1. index'[e][q] = <<>>
      BY <2>2, <1>7
    <3>2. DOMAIN index'[e][q] = {}
      BY <3>1
    <3> QED
      BY <1>18, <3>2
  <2>3. CASE e # d /\ e # s
    <3>1. index'[e] = index[e]
      BY <2>3, <1>7
    <3>2. position'[index[e][q][i]] = position[index[e][q][i]]
          /\ position'[index[e][q][j]] = position[index[e][q][j]]
      BY <1>18, <2>3, <3>1, <1>11, <1>12 DEF ValidateInvariants, IndexOwned
    <3> QED
      BY <1>18, <3>1, <3>2 DEF Containers, IndexInSourceOrder
  <2> QED
    BY <2>1, <2>2, <2>3
<1> QED
  BY <1>14, <1>16, <1>17, <1>18 DEF Containers, StoreAlwaysValid, IndexInSourceOrder

\* The clauses of a directive follow its base language through every operation.
LEMMA LanguageKept ==
    ASSUME StoreInv, [StoreNext]_storeVars
    PROVE  LanguageOfOwner'
<1> USE DEF StoreInv
<1>1. ASSUME NEW d \in Directive, NEW k \in AllKinds, NEW c \in Clause,
             RegisterClause(d, k, c), UNCHANGED dirLang
      PROVE  LanguageOfOwner'
  <2>1. \A e \in Directive : c \notin owned[e]
    BY <1>1 DEF RegisterClause, Live
  <2>2. \A e \in Directive : \A b \in owned'[e] : b \in owned[e] \/ (e = d /\ b = c)
    BY <1>1 DEF RegisterClause, TypeOK
  <2>3. /\ clauseLang'[c] = dirLang[d]
        /\ \A b \in Clause : b # c => clauseLang'[b] = clauseLang[b]
    BY <1>1 DEF RegisterClause, TypeOK
  <2>4. \A e \in Directive : owned[e] \subseteq Clause
    BY DEF TypeOK
  <2> QED
    BY <1>1, <2>1, <2>2, <2>3, <2>4 DEF LanguageOfOwner
<1>2. ASSUME NEW d \in Directive, NEW l \in BaseLang, SetBaseLang(d, l)
      PROVE  LanguageOfOwner'
  BY <1>2 DEF SetBaseLang, TypeOK, LanguageOfOwner, Containers, SingleOwner
<1>3. ASSUME NEW d \in Directive, NEW s \in Directive, AdoptClauses(d, s)
      PROVE  LanguageOfOwner'
  <2>1. d # s
    BY <1>3 DEF AdoptClauses, AdoptedIndex, AdoptedOrder, AdoptedStorage, Relabelled, Adopts
  <2>2. /\ owned'[d] = owned[d] \cup owned[s] /\ owned'[s] = {}
        /\ \A e \in Directive : e # d /\ e # s => owned'[e] = owned[e]
    BY <1>3, <2>1 DEF AdoptClauses, AdoptedIndex, AdoptedOrder, AdoptedStorage, Relabelled, TypeOK
  <2>3. /\ dirLang'[d] = AdoptedLang(d, s)
        /\ \A e \in Directive : e # d => dirLang'[e] = dirLang[e]
    BY <1>3 DEF AdoptClauses, AdoptedIndex, AdoptedOrder, AdoptedStorage, Relabelled, TypeOK
  <2>4. \A b \in Clause : clauseLang'[b] = IF b \in owned[d] \cup owned[s]
                                           THEN AdoptedLang(d, s) ELSE clauseLang[b]
    BY <1>3 DEF AdoptClauses, AdoptedIndex, AdoptedOrder, AdoptedStorage, Relabelled
  <2>5. \A e \in Directive : owned[e] \subseteq Clause
    BY DEF TypeOK
  <2>6. \A e \in Directive : e # d /\ e # s => \A b \in owned[e] : b \notin owned[d] \cup owned[s]
    BY DEF Containers, SingleOwner
  <2> QED
    BY <2>2, <2>3, <2>4, <2>5, <2>6 DEF LanguageOfOwner
<1>4. CASE UNCHANGED <<owned, clauseLang, dirLang>>
  BY <1>4 DEF LanguageOfOwner
<1>5. OMPC_order \in AllKinds
  BY DEF AllKinds
<1> QED
  BY <1>1, <1>2, <1>3, <1>4, <1>5
     DEF StoreNext, AddClause, AddOrderClause, SetSeparator, storeVars

\* Every operation preserves the invariant.
LEMMA StoreInvInductive ==
    StoreInv /\ TypeOK' /\ [StoreNext]_storeVars => StoreInv'
<1> SUFFICES ASSUME StoreInv, TypeOK', [StoreNext]_storeVars PROVE StoreInv'
  OBVIOUS
<1>1. LanguageOfOwner'
  BY LanguageKept
<1>2. TypeOK /\ Containers
  BY DEF StoreInv
<1>3. OMPC_order \in AllKinds
  BY DEF AllKinds
<1>4. ASSUME NEW d \in Directive, NEW k \in AllKinds, NEW c \in Clause, AddClause(d, k, c)
      PROVE  Containers'
  BY <1>2, <1>4, AddKeepsContainers DEF AddClause
<1>5. ASSUME NEW d \in Directive, NEW c \in Clause, AddOrderClause(d, c)
      PROVE  Containers'
  BY <1>2, <1>3, <1>5, AddKeepsContainers DEF AddOrderClause
<1>6. ASSUME NEW d \in Directive, NEW s \in Directive, AdoptClauses(d, s)
      PROVE  Containers'
  BY <1>2, <1>6, AdoptKeepsContainers
<1>7. ASSUME UNCHANGED <<owned, index, order, clauseKind, position>>
      PROVE  Containers'
  <2>1. ASSUME NEW d \in Directive PROVE ValidateInvariants(d)'
    <3>1. ValidateInvariants(d)
      BY <1>2 DEF Containers, StoreAlwaysValid
    <3> QED
      BY <1>7, <3>1
         DEF ValidateInvariants, IndexKindMatches, IndexOwned, IndexWithoutDuplicate,
             OrderOwned, OrderWithoutDuplicate, PositionMatches, OrderIndexed,
             OwnedOrdered
  <2>2. SingleOwner'
    BY <1>2, <1>7 DEF Containers, SingleOwner
  <2>3. IndexInSourceOrder'
    BY <1>2, <1>7 DEF Containers, IndexInSourceOrder
  <2> QED
    BY <2>1, <2>2, <2>3 DEF Containers, StoreAlwaysValid
<1>8. Containers'
  <2>1. ASSUME NEW b \in BOOLEAN, SetSeparator(b) PROVE Containers'
    BY <1>7, <2>1 DEF SetSeparator
  <2>2. ASSUME NEW d \in Directive, NEW l \in BaseLang, SetBaseLang(d, l)
        PROVE  Containers'
    BY <1>7, <2>2 DEF SetBaseLang
  <2>3. CASE UNCHANGED storeVars
    BY <1>7, <2>3 DEF storeVars
  <2> QED
    BY <1>4, <1>5, <1>6, <2>1, <2>2, <2>3 DEF StoreNext
<1> QED
  BY <1>1, <1>8 DEF StoreInv

\* Freshly built directives satisfy the invariant.
LEMMA StoreInvInit == StoreInit => StoreInv
<1> SUFFICES ASSUME StoreInit PROVE StoreInv
  OBVIOUS
<1>1. TypeOK
  BY StoreTypeInit
<1>2. \A d \in Directive : owned[d] = {} /\ order[d] = <<>> /\ DOMAIN order[d] = {}
  BY DEF StoreInit
<1>3. \A d \in Directive, k \in AllKinds : DOMAIN index[d][k] = {}
  BY DEF StoreInit
<1>4. ASSUME NEW d \in Directive PROVE ValidateInvariants(d)
  BY <1>2, <1>3
     DEF ValidateInvariants, IndexKindMatches, IndexOwned, IndexWithoutDuplicate,
         OrderOwned, OrderWithoutDuplicate, PositionMatches, OrderIndexed,
         OwnedOrdered, IsInjective
<1>5. SingleOwner /\ LanguageOfOwner
  BY <1>2 DEF SingleOwner, LanguageOfOwner
<1>6. IndexInSourceOrder
  BY <1>3 DEF IndexInSourceOrder
<1> QED
  BY <1>1, <1>4, <1>5, <1>6 DEF StoreInv, Containers, StoreAlwaysValid

\* The invariant holds in every state the operations of a directive can reach.
THEOREM StoreInvariant == StoreSpec => []StoreInv
<1>1. StoreInit => StoreInv
  BY StoreInvInit
<1>2. StoreInv /\ TypeOK' /\ [StoreNext]_storeVars => StoreInv'
  BY StoreInvInductive
<1>3. StoreSpec => []TypeOK
  BY StoreTypeCorrect
<1> QED
  BY <1>1, <1>2, <1>3, PTL DEF StoreSpec

\* Every directive that was built through the operations of OpenMPDirective
\* passes validateInvariants, however its clauses got there.
THEOREM BuiltDirectivesAreValid == StoreSpec => []StoreAlwaysValid
<1>1. StoreInv => StoreAlwaysValid
  BY DEF StoreInv, Containers
<1> QED
  BY <1>1, StoreInvariant, PTL

\* No clause is ever owned, and therefore freed, by two directives.
THEOREM ClausesHaveOneOwner == StoreSpec => []SingleOwner
<1>1. StoreInv => SingleOwner
  BY DEF StoreInv, Containers
<1> QED
  BY <1>1, StoreInvariant, PTL

\* The per-kind views list occurrences in source order.
THEOREM IndexFollowsSource == StoreSpec => []IndexInSourceOrder
<1>1. StoreInv => IndexInSourceOrder
  BY DEF StoreInv, Containers
<1> QED
  BY <1>1, StoreInvariant, PTL

\* A clause always has the base language of the directive that owns it.
THEOREM ClausesSpeakTheirOwnersLanguage == StoreSpec => []LanguageOfOwner
<1>1. StoreInv => LanguageOfOwner
  BY DEF StoreInv
<1> QED
  BY <1>1, StoreInvariant, PTL

\* Placing a clause last keeps every pair of clauses in its directive and order.
LEMMA PlaceKeepsOrder ==
    ASSUME TypeOK, NEW d \in Directive, NEW c \in Clause, PlaceLast(d, c),
           NEW e \in Directive
    PROVE  \A i \in DOMAIN order[e] : i \in DOMAIN order'[e] /\ order'[e][i] = order[e][i]
<1>1. /\ order[d] \in Seq(Clause)
      /\ e # d => order'[e] = order[e]
      /\ order'[d] = Append(order[d], c)
  BY DEF TypeOK, PlaceLast
<1>2. \A i \in DOMAIN order[d] :
         i \in DOMAIN order'[d] /\ order'[d][i] = order[d][i]
  BY <1>1
<1> QED
  BY <1>1, <1>2

\* No operation drops a clause, separates two clauses of a directive, or swaps
\* them: adoption moves a directive's clauses as a block.
THEOREM ClausesStayInOrder == StoreSpec => SourceOrderKept
<1> DEFINE Kept(d, i, j) == \E e \in Directive : \E m, n \in DOMAIN order'[e] :
                               /\ m < n
                               /\ order'[e][m] = order[d][i]
                               /\ order'[e][n] = order[d][j]
<1>1. ASSUME TypeOK, [StoreNext]_storeVars, NEW f \in Directive,
             NEW i \in DOMAIN order[f], NEW j \in DOMAIN order[f], i < j
      PROVE  Kept(f, i, j)
  <2>1. ASSUME NEW d \in Directive, NEW c \in Clause, PlaceLast(d, c)
        PROVE  Kept(f, i, j)
    <3>1. \A h \in DOMAIN order[f] : h \in DOMAIN order'[f] /\ order'[f][h] = order[f][h]
      BY <1>1, <2>1, PlaceKeepsOrder
    <3> QED
      BY <1>1, <3>1
  <2>2. ASSUME order' = order PROVE Kept(f, i, j)
    BY <1>1, <2>2
  <2>3. ASSUME NEW d \in Directive, NEW s \in Directive, AdoptClauses(d, s)
        PROVE  Kept(f, i, j)
    <3>1. d # s /\ order[d] \in Seq(Clause) /\ order[s] \in Seq(Clause)
      BY <1>1, <2>3 DEF AdoptClauses, AdoptedIndex, AdoptedOrder, AdoptedStorage, Relabelled, Adopts, TypeOK
    <3>2. /\ order'[d] = order[d] \o order[s]
          /\ f # d /\ f # s => order'[f] = order[f]
      BY <1>1, <2>3, <3>1 DEF AdoptClauses, AdoptedIndex, AdoptedOrder, AdoptedStorage, Relabelled, TypeOK
    <3>3. Joined(order[d], order[s], order'[d])
      BY <3>1, <3>2, JoinedElements
    <3>4. CASE f = d
      <4>1. \A h \in DOMAIN order[f] : h \in DOMAIN order'[f] /\ order'[f][h] = order[f][h]
        BY <3>3, <3>4 DEF Joined
      <4> QED
        BY <1>1, <4>1
    <3>5. CASE f = s
      <4> DEFINE n == Len(order[d])
      <4>1. /\ i + n \in DOMAIN order'[d] /\ order'[d][i + n] = order[f][i]
            /\ j + n \in DOMAIN order'[d] /\ order'[d][j + n] = order[f][j]
        BY <1>1, <3>3, <3>5 DEF Joined
      <4>2. i + n < j + n
        BY <1>1, <3>1, <3>5
      <4> HIDE DEF n
      <4> QED
        BY <4>1, <4>2
    <3>6. CASE f # d /\ f # s
      BY <1>1, <3>2, <3>6
    <3> QED
      BY <3>4, <3>5, <3>6
  <2> HIDE DEF Kept
  <2>4. CASE \E d \in Directive, k \in AllKinds, c \in Clause : AddClause(d, k, c)
    BY <2>1, <2>4 DEF AddClause
  <2>5. CASE \E d \in Directive, c \in Clause : AddOrderClause(d, c)
    BY <2>1, <2>5 DEF AddOrderClause
  <2>6. CASE (\E b \in BOOLEAN : SetSeparator(b)) \/ (\E d \in Directive, l \in BaseLang : SetBaseLang(d, l))
    BY <2>2, <2>6 DEF SetSeparator, SetBaseLang
  <2>7. CASE UNCHANGED storeVars
    BY <2>2, <2>7 DEF storeVars
  <2> QED
    BY <1>1, <2>3, <2>4, <2>5, <2>6, <2>7 DEF StoreNext
<1>2. TypeOK /\ [StoreNext]_storeVars
      => [\A d \in Directive : \A i, j \in DOMAIN order[d] : i < j =>
             \E e \in Directive : \E m, n \in DOMAIN order'[e] :
                /\ m < n
                /\ order'[e][m] = order[d][i]
                /\ order'[e][n] = order[d][j]]_storeVars
  BY <1>1
<1> QED
  BY <1>2, StoreTypeCorrect, PTL DEF StoreSpec, SourceOrderKept

-----------------------------------------------------------------------------
(***************************************************************************)
(* The refinement of ClauseList: a clause that is added occurs, adoption   *)
(* moves a list, every other operation is a stutter.                       *)
(***************************************************************************)

\* Each kind index is the source order filtered by that kind.
LEMMA IndexesFilterOrder == StoreInv => Promise!AnswersByKind
<1> SUFFICES ASSUME StoreInv PROVE Promise!AnswersByKind
  OBVIOUS
<1>1. TypeOK /\ Containers
  BY DEF StoreInv
<1>2. /\ DOMAIN index = Directive
      /\ \A d \in Directive :
            /\ DOMAIN index[d] = AllKinds
            /\ \A k \in AllKinds : index[d][k] \in Seq(Clause)
  BY <1>1 DEF TypeOK
<1>3. ASSUME NEW d \in Directive, NEW k \in AllKinds
      PROVE  Promise!IsFiltered(index[d][k], order[d], {c \in Clause : clauseKind[c] = k})
  <2> DEFINE chosen == {c \in Clause : clauseKind[c] = k}
             a == index[d][k]
             l == order[d]
  <2>1. ValidateInvariants(d)
    BY <1>1 DEF Containers, StoreAlwaysValid
  <2>2. a \in Seq(Clause) /\ l \in Seq(Clause) /\ DOMAIN a = 1 .. Len(a) /\ DOMAIN l = 1 .. Len(l)
        /\ Len(l) \in Nat
    <3>1. a \in Seq(Clause) /\ l \in Seq(Clause)
      BY <1>1, <1>2 DEF TypeOK
    <3> QED
      BY <3>1
  <2>3. \A i \in DOMAIN a : a[i] \in chosen /\ \E m \in DOMAIN l : l[m] = a[i]
    BY <2>1, <2>2
       DEF ValidateInvariants, IndexKindMatches, IndexOwned, OwnedOrdered, Range
  <2>4. \A m \in DOMAIN l : l[m] \in chosen => \E i \in DOMAIN a : a[i] = l[m]
    BY <2>1 DEF ValidateInvariants, OrderIndexed, Range
  <2>5. Range(a) = Range(l) \cap chosen
    BY <2>3, <2>4 DEF Range
  <2>6. ASSUME NEW i \in DOMAIN a, NEW j \in DOMAIN a, i < j
        PROVE  \E m, n \in DOMAIN l : m < n /\ l[m] = a[i] /\ l[n] = a[j]
    <3>1. PICK m \in DOMAIN l, n \in DOMAIN l : l[m] = a[i] /\ l[n] = a[j]
      BY <2>3
    <3>2. position[a[i]] < position[a[j]]
      BY <1>1, <2>6 DEF Containers, IndexInSourceOrder
    <3>3. position[l[m]] = m - 1 /\ position[l[n]] = n - 1
      BY <2>1 DEF ValidateInvariants, PositionMatches
    <3>4. m \in Int /\ n \in Int /\ m - 1 < n - 1
      BY <2>2, <3>1, <3>2, <3>3
    <3> QED
      BY <3>1, <3>4
  <2> HIDE DEF a, l
  <2> QED
    BY <2>2, <2>5, <2>6 DEF Promise!IsFiltered, Promise!Range, Range, a, l
<1> QED
  BY <1>2, <1>3 DEF Promise!AnswersByKind

\* Registering and placing a clause is an occurrence of the abstract list.
LEMMA AddIsOccurrence ==
    ASSUME StoreInv, NEW d \in Directive, NEW k \in AllKinds, NEW c \in Clause,
           RegisterClause(d, k, c), PlaceLast(d, c)
    PROVE  Promise!Occur(d, k, c)
<1>1. c \notin Promise!Listed
  <2>1. \A e \in Directive : \A i \in DOMAIN order[e] : order[e][i] \in owned[e]
    BY DEF StoreInv, Containers, StoreAlwaysValid, ValidateInvariants, OrderOwned
  <2> QED
    BY <2>1 DEF RegisterClause, Live, Promise!Listed, Promise!Range
<1> QED
  BY <1>1 DEF Promise!Occur, RegisterClause, PlaceLast

\* Every operation is a step or a stutter of the abstract list.
LEMMA StoreStepRefines ==
    StoreInv /\ StoreInv' /\ [StoreNext]_storeVars => [Promise!ListNext]_(Promise!listVars)
<1>1. StoreInv' => Promise!AnswersByKind'
  BY IndexesFilterOrder, PTL
<1> SUFFICES ASSUME StoreInv, StoreInv', [StoreNext]_storeVars
             PROVE  [Promise!ListNext]_(Promise!listVars)
  OBVIOUS
<1>2. ASSUME NEW d \in Directive, NEW k \in AllKinds, NEW c \in Clause, AddClause(d, k, c)
      PROVE  Promise!ListNext
  BY <1>1, <1>2, AddIsOccurrence DEF AddClause, Promise!ListNext
<1>3. ASSUME NEW d \in Directive, NEW c \in Clause, AddOrderClause(d, c)
      PROVE  Promise!ListNext
  <2>1. OMPC_order \in AllKinds
    BY DEF AllKinds
  <2> QED
    BY <1>1, <1>3, <2>1, AddIsOccurrence DEF AddOrderClause, Promise!ListNext
<1>4. ASSUME NEW d \in Directive, NEW s \in Directive, AdoptClauses(d, s)
      PROVE  Promise!ListNext
  <2>1. Promise!Move(d, s)
    BY <1>4 DEF AdoptClauses, Adopts, AdoptedOrder, Promise!Move
  <2> QED
    BY <1>1, <2>1 DEF Promise!ListNext
<1>5. ASSUME UNCHANGED <<order, clauseKind, index>> PROVE UNCHANGED Promise!listVars
  BY <1>5 DEF Promise!listVars
<1> QED
  BY <1>2, <1>3, <1>4, <1>5 DEF StoreNext, SetSeparator, SetBaseLang, storeVars

\* Freshly built directives have empty lists.
LEMMA StoreInitRefines == StoreInit => Promise!ListInit
<1> SUFFICES ASSUME StoreInit PROVE Promise!ListInit
  OBVIOUS
<1>1. Promise!AnswersByKind
  BY StoreInvInit, IndexesFilterOrder
<1>2. clauseKind \in [Clause -> AllKinds]
  BY StoreInvInit DEF StoreInv, TypeOK
<1> QED
  BY <1>1, <1>2 DEF StoreInit, Promise!ListInit

\* The three containers of every directive behave as one list of clause
\* occurrences, to which a clause is appended or a whole other list is moved;
\* each kind index is that list filtered.
THEOREM ContainersAreOneList == StoreSpec => RefinesClauseList
  BY StoreInitRefines, StoreStepRefines, StoreInvariant, PTL
     DEF StoreSpec, RefinesClauseList, Promise!ListSpec

-----------------------------------------------------------------------------
(* The parser. *)

\* Constructing a directive is one setBaseLang on the containers.
LEMMA MakeDirectiveUsesStore ==
    ASSUME NEW d \in Directive, MakeDirective(d)
    PROVE  StoreNext
<1> QED
  BY ParserLangAssumption DEF MakeDirective, StoreNext

\* addClauseAt adds a clause to the current directive or, without one, does nothing.
LEMMA NewClauseUsesStore ==
    ASSUME ParserTypeOK, NEW c \in Clause,
           NEW k \in {"private", "when", "match", "otherwise", "default"}, NewClause(k, c)
    PROVE  [StoreNext]_storeVars
<1>1. curD = NULL \/ curD \in Directive
  BY DEF ParserTypeOK
<1>2. k \in AllKinds
  BY ClauseKindAssumption DEF AllKinds
<1> QED
  BY <1>1, <1>2 DEF NewClause, StoreNext

\* The actions that reduce a rule about directives.
LEMMA ReadDirectiveUsesStore ==
    ASSUME ParserTypeOK, ReadDirective
    PROVE  [StoreNext]_storeVars
<1>1. ASSUME NEW symbol, PlainDirective(symbol) \/ Metadirective(symbol)
                         \/ DeclareVariantDirective(symbol)
      PROVE  StoreNext
  BY <1>1, MakeDirectiveUsesStore DEF PlainDirective, Metadirective, DeclareVariantDirective
<1>2. ASSUME EndMetadirective \/ EndDirective
      PROVE  StoreNext
  BY <1>2, MakeDirectiveUsesStore DEF EndMetadirective, EndDirective
<1>3. ASSUME EndPaired
      PROVE  [StoreNext]_storeVars
  <2>1. CASE parD = NULL
    BY <1>3, <2>1 DEF EndPaired, Undefined
  <2>2. CASE parD # NULL /\ Taken(curD) = NULL
    BY <1>3, <2>2 DEF EndPaired
  <2>3. CASE parD # NULL /\ Taken(curD) # NULL
    <3>1. parD \in Directive /\ curD \in Directive
      BY <2>3 DEF ParserTypeOK, Taken
    <3>2. AdoptClauses(parD, curD)
      BY <1>3, <2>3 DEF EndPaired
    <3> QED
      BY <3>1, <3>2 DEF StoreNext
  <2> QED
    BY <2>1, <2>2, <2>3
<1> QED
  BY <1>1, <1>2, <1>3 DEF ReadDirective

\* The actions that reduce a rule about clauses.
LEMMA ReadClauseUsesStore ==
    ASSUME ParserTypeOK, ReadClause
    PROVE  [StoreNext]_storeVars
<1>1. ASSUME NEW l, FirstClause(l) \/ NextClause(l) \/ NextClauseSilently(l) \/ LeaveOut(l)
      PROVE  UNCHANGED storeVars
  BY <1>1 DEF FirstClause, NextClause, NextClauseSilently, LeaveOut, Silent
<1>2. ASSUME NEW l, NextClauseAfterComma(l)
      PROVE  StoreNext
  BY <1>2 DEF NextClauseAfterComma, StoreNext
<1>3. ASSUME PlainClause \/ WhenClause \/ MatchClause \/ OtherwiseClause \/ DefaultVariantClause
      PROVE  [StoreNext]_storeVars
  BY <1>3, NewClauseUsesStore
     DEF PlainClause, WhenClause, MatchClause, OtherwiseClause, DefaultVariantClause
<1>4. ASSUME OrderClause
      PROVE  [StoreNext]_storeVars
  <2>1. CASE curD = NULL
    BY <1>4, <2>1 DEF OrderClause, Undefined
  <2>2. CASE curD # NULL
    <3>1. curD \in Directive
      BY <2>2 DEF ParserTypeOK
    <3> QED
      BY <1>4, <2>2, <3>1 DEF OrderClause, StoreNext
  <2> QED
    BY <2>1, <2>2
<1> QED
  BY <1>1, <1>2, <1>3, <1>4 DEF ReadClause

\* The actions about variants leave the containers alone.
LEMMA ReadVariantKeepsStore ==
    ASSUME ReadVariant
    PROVE  UNCHANGED storeVars
<1> QED
  BY DEF ReadVariant, OtherwiseOpen, WhenColon, WhenVariant, SetWhenVariant, WhenClose,
         VariantClose, Undefined, Silent

\* So do the actions about context selectors.
LEMMA ReadSelectorKeepsStore ==
    ASSUME ReadSelector
    PROVE  UNCHANGED storeVars
<1>1. ASSUME NEW symbol, SimpleTrait(symbol) \/ ConstructTrait(symbol)
      PROVE  UNCHANGED storeVars
  BY <1>1 DEF SimpleTrait, ConstructTrait, Undefined, Silent
<1> QED
  BY <1>1 DEF ReadSelector, OpenSet, OpenConstructSet, AnotherSet, TakeTrait, SetEnd,
              Undefined, Silent

\* Every step of the parser is an operation of the containers, or none.
LEMMA ParserStepUsesStore ==
    ParserTypeOK /\ [ParserNext]_vars => [StoreNext]_storeVars
<1> SUFFICES ASSUME ParserTypeOK, [ParserNext]_vars PROVE [StoreNext]_storeVars
  OBVIOUS
<1>1. CASE BeginParse
  BY <1>1 DEF BeginParse, ResetParserState, StoreNext
<1>2. CASE SyntaxError
  BY <1>2 DEF SyntaxError
<1>3. CASE Accept
  <2>1. curD = NULL \/ curD \in Directive
    BY DEF ParserTypeOK
  <2> QED
    BY <1>3, <2>1, ParserLangAssumption DEF Accept, StoreNext
<1>4. CASE UNCHANGED vars
  BY <1>4 DEF vars
<1> QED
  BY <1>1, <1>2, <1>3, <1>4, ReadDirectiveUsesStore, ReadClauseUsesStore,
     ReadVariantKeepsStore, ReadSelectorKeepsStore DEF ParserNext

-----------------------------------------------------------------------------
(***************************************************************************)
(* Type correctness.  The conjuncts of ParserTypeOK about the parser's own *)
(* state, in two groups: what the actions of the grammar may change, and   *)
(* the phase.                                                              *)
(***************************************************************************)
PointersOK ==
    /\ {curD, parD, result} \subseteq Directive \cup {NULL}
    /\ {curC, parC} \subseteq Clause \cup {NULL}

HoldersOK ==
    /\ storage \subseteq Directive
    /\ made \in Nat
    /\ variantOf \in [Clause -> Directive \cup {NULL}]
    /\ traitsOf \in [Clause -> Seq(Directive \cup {NULL})]
    /\ pairedOf \in [Directive -> Directive \cup {NULL}]

BuilderOK == setOpen \in [Clause -> BOOLEAN] /\ misused \in [Clause -> BOOLEAN]

PhaseOK ==
    /\ phase \in {"idle", "parsing", "accepted", "rejected", "undefined"}
    /\ before \in Nat /\ parses \in 0 .. MaxParses

ContextOK == PointersOK /\ HoldersOK /\ BuilderOK /\ PhaseOK

\* The type invariant is the containers' together with these groups.
LEMMA TypeOKParts == ParserTypeOK <=> TypeOK /\ ContextOK
BY DEF ParserTypeOK, ContextOK, PointersOK, HoldersOK, BuilderOK, PhaseOK

\* An action that runs into undefined behaviour changes nothing but the phase.
LEMMA UndefinedKeepsContext ==
    ASSUME ContextOK, Undefined
    PROVE  ContextOK'
<1> QED
  BY DEF ContextOK, PointersOK, HoldersOK, BuilderOK, PhaseOK, Undefined, pointerVars,
         holderVars, traitVars

\* takeDirectiveOwnership answers a directive the storage owned, or null.
LEMMA TakenType ==
    ASSUME HoldersOK, NEW d
    PROVE  Taken(d) \in Directive \cup {NULL}
BY DEF HoldersOK, Taken

\* Rules about directives.
LEMMA ReadDirectiveKeepsContext ==
    ASSUME ContextOK, ReadDirective
    PROVE  ContextOK'
<1>1. ASSUME NEW d \in Directive, MakeDirective(d)
      PROVE  HoldersOK' /\ BuilderOK' /\ curD' \in Directive /\ result' = result
  <2>1. made + 1 \in Nat
    BY DEF ContextOK, HoldersOK
  <2>2. made' = made + 1 /\ storage' = storage \cup {d} /\ curD' = d
        /\ UNCHANGED <<result, variantOf, traitsOf, pairedOf, setOpen, misused>>
    BY <1>1 DEF MakeDirective, traitVars
  <2> QED
    BY <2>1, <2>2 DEF ContextOK, HoldersOK, BuilderOK
<1>2. ASSUME NEW symbol, PlainDirective(symbol) \/ Metadirective(symbol)
                         \/ DeclareVariantDirective(symbol) \/ EndMetadirective
      PROVE  ContextOK'
  <2>1. /\ \E d \in Directive : MakeDirective(d)
        /\ UNCHANGED <<phase, parses, before, curC, parD, parC>>
    BY <1>2 DEF PlainDirective, Metadirective, DeclareVariantDirective, EndMetadirective,
                Continue
  <2> QED
    BY <1>1, <2>1 DEF ContextOK, PointersOK, PhaseOK
<1>3. ASSUME EndDirective
      PROVE  ContextOK'
  <2>1. PICK d \in Directive : MakeDirective(d) /\ parD' = d /\ parC' = curC
    BY <1>3 DEF EndDirective, SaveParent
  <2>2. UNCHANGED <<phase, parses, before, curC>>
    BY <1>3 DEF EndDirective, Continue
  <2> QED
    BY <1>1, <2>1, <2>2 DEF ContextOK, PointersOK, PhaseOK
<1>4. ASSUME EndPaired
      PROVE  ContextOK'
  <2>1. CASE parD = NULL
    BY <1>4, <2>1, UndefinedKeepsContext DEF EndPaired
  <2>2. CASE parD # NULL
    <3>1. parD \in Directive /\ Taken(curD) \in Directive \cup {NULL}
      BY <2>2, TakenType DEF ContextOK, PointersOK
    <3>2. /\ pairedOf' = [pairedOf EXCEPT ![parD] = Taken(curD)]
          /\ storage' = storage \ {curD}
          /\ UNCHANGED <<made, variantOf, traitsOf>>
      BY <1>4, <2>2 DEF EndPaired
    <3>3. HoldersOK'
      BY <3>1, <3>2 DEF ContextOK, HoldersOK
    <3>4. /\ curD' = parD /\ curC' = parC /\ parD' = NULL /\ parC' = NULL
          /\ UNCHANGED <<result, phase, parses, before, setOpen, misused>>
      BY <1>4, <2>2 DEF EndPaired, RestoreParent, Continue, traitVars
    <3> QED
      BY <3>3, <3>4 DEF ContextOK, PointersOK, BuilderOK, PhaseOK
  <2> QED
    BY <2>1, <2>2
<1> QED
  BY <1>2, <1>3, <1>4 DEF ReadDirective

\* Rules about clauses.
LEMMA ReadClauseKeepsContext ==
    ASSUME ContextOK, ReadClause
    PROVE  ContextOK'
<1> USE DEF ContextOK, PointersOK, HoldersOK, BuilderOK, PhaseOK, Continue, holderVars,
            traitVars, pointerVars
<1>1. ASSUME NEW l, FirstClause(l) \/ NextClause(l) \/ NextClauseAfterComma(l)
                    \/ NextClauseSilently(l) \/ LeaveOut(l)
      PROVE  ContextOK'
  BY <1>1 DEF FirstClause, NextClause, NextClauseAfterComma, NextClauseSilently, LeaveOut,
              Silent
<1>2. ASSUME NEW k, NEW c \in Clause, NewClause(k, c)
      PROVE  /\ curC' \in Clause \cup {NULL}
             /\ UNCHANGED <<curD, storage, made, result, variantOf, traitsOf, pairedOf,
                            setOpen, misused>>
  BY <1>2 DEF NewClause
<1>3. ASSUME PlainClause \/ WhenClause \/ MatchClause \/ OtherwiseClause
      PROVE  ContextOK'
  <2>1. /\ \E k : \E c \in Clause : NewClause(k, c)
        /\ UNCHANGED <<phase, parses, before, parD, parC>>
    BY <1>3 DEF PlainClause, WhenClause, MatchClause, OtherwiseClause
  <2> QED
    BY <1>2, <2>1
<1>4. ASSUME DefaultVariantClause
      PROVE  ContextOK'
  <2>1. PICK c \in Clause : NewClause("default", c) /\ parD' = curD /\ parC' = c
    BY <1>4 DEF DefaultVariantClause, SaveParent
  <2>2. UNCHANGED <<phase, parses, before>>
    BY <1>4 DEF DefaultVariantClause
  <2> QED
    BY <1>2, <2>1, <2>2
<1>5. ASSUME OrderClause
      PROVE  ContextOK'
  <2>1. CASE curD = NULL
    BY <1>5, <2>1, UndefinedKeepsContext DEF OrderClause
  <2>2. CASE curD # NULL
    BY <1>5, <2>2 DEF OrderClause
  <2> QED
    BY <2>1, <2>2
<1> QED
  BY <1>1, <1>3, <1>4, <1>5 DEF ReadClause

\* Rules that give a clause its variant.
LEMMA ReadVariantKeepsContext ==
    ASSUME ContextOK, ReadVariant
    PROVE  ContextOK'
<1> USE DEF ContextOK, PointersOK, HoldersOK, BuilderOK, PhaseOK, Continue, holderVars,
            traitVars, pointerVars, RestoreParent
<1>1. ASSUME OtherwiseOpen \/ WhenColon \/ WhenVariant \/ WhenClose
      PROVE  ContextOK'
  BY <1>1 DEF OtherwiseOpen, WhenColon, WhenVariant, WhenClose, SaveParent, Silent
<1>2. ASSUME parC # NULL, HoldVariant
      PROVE  HoldersOK' /\ UNCHANGED <<result, setOpen, misused>>
  <2>1. Taken(curD) \in Directive \cup {NULL}
    BY TakenType
  <2> QED
    BY <1>2, <2>1 DEF HoldVariant
<1>3. ASSUME SetWhenVariant \/ VariantClose
      PROVE  ContextOK'
  <2>1. CASE parC = NULL
    BY <1>3, <2>1, UndefinedKeepsContext DEF SetWhenVariant, VariantClose
  <2>2. CASE parC # NULL
    <3>1. HoldVariant
      BY <1>3, <2>2 DEF SetWhenVariant, VariantClose
    <3>2. /\ UNCHANGED <<phase, parses, before>>
          /\ \/ UNCHANGED <<curD, curC, parD, parC>>
             \/ curD' = parD /\ curC' = parC /\ parD' = NULL /\ parC' = NULL
      BY <1>3, <2>2 DEF SetWhenVariant, VariantClose
    <3> QED
      BY <1>2, <2>2, <3>1, <3>2
  <2> QED
    BY <2>1, <2>2
<1> QED
  BY <1>1, <1>3 DEF ReadVariant

\* Rules about context selectors.
LEMMA ReadSelectorKeepsContext ==
    ASSUME ContextOK, ReadSelector
    PROVE  ContextOK'
<1> USE DEF ContextOK, PointersOK, HoldersOK, BuilderOK, PhaseOK, Continue, holderVars,
            traitVars, pointerVars
<1>1. ASSUME NEW symbol, AnotherSet \/ ConstructTrait(symbol)
      PROVE  ContextOK'
  BY <1>1 DEF AnotherSet, ConstructTrait, Silent
<1>2. ASSUME NEW c \in Clause, BeginTraitSet(c) \/ EndTraitSet(c)
      PROVE  BuilderOK'
  BY <1>2 DEF BeginTraitSet, EndTraitSet
<1>3. ASSUME OpenSet \/ OpenConstructSet
      PROVE  ContextOK'
  <2>1. CASE ~IsVariantClause(curC)
    BY <1>3, <2>1, UndefinedKeepsContext DEF OpenSet, OpenConstructSet
  <2>2. CASE IsVariantClause(curC)
    <3>1. curC \in Clause
      BY <2>2 DEF IsVariantClause
    <3>2. BeginTraitSet(curC)
      BY <1>3, <2>2 DEF OpenSet, OpenConstructSet
    <3>3. /\ UNCHANGED <<phase, parses, before, curD, curC, storage, made, result, variantOf,
                         traitsOf, pairedOf>>
          /\ parD' \in {parD, curD} /\ parC' \in {parC, curC}
      BY <1>3, <2>2 DEF OpenSet, OpenConstructSet, SaveParent
    <3> QED
      BY <1>2, <3>1, <3>2, <3>3
  <2> QED
    BY <2>1, <2>2
<1>4. ASSUME NEW symbol, SimpleTrait(symbol)
      PROVE  ContextOK'
  <2>1. CASE ~IsVariantClause(curC)
    BY <1>4, <2>1, UndefinedKeepsContext DEF SimpleTrait
  <2>2. CASE IsVariantClause(curC)
    <3>1. curC \in Clause
      BY <2>2 DEF IsVariantClause
    <3> QED
      BY <1>4, <2>2, <3>1 DEF SimpleTrait
  <2> QED
    BY <2>1, <2>2
<1>5. ASSUME TakeTrait
      PROVE  ContextOK'
  <2>1. CASE ~IsVariantClause(parC)
    BY <1>5, <2>1, UndefinedKeepsContext DEF TakeTrait
  <2>2. CASE IsVariantClause(parC)
    <3>1. parC \in Clause /\ Taken(curD) \in Directive \cup {NULL}
      BY <2>2, TakenType DEF IsVariantClause
    <3>2. Append(traitsOf[parC], Taken(curD)) \in Seq(Directive \cup {NULL})
      BY <3>1
    <3>3. /\ misused' \in [Clause -> BOOLEAN]
          /\ traitsOf' \in [Clause -> Seq(Directive \cup {NULL})]
      BY <1>5, <2>2, <3>1, <3>2 DEF TakeTrait
    <3>4. /\ storage' = storage \ {curD}
          /\ UNCHANGED <<phase, parses, before, curD, curC, parD, parC, made, result,
                         variantOf, pairedOf, setOpen>>
      BY <1>5, <2>2 DEF TakeTrait
    <3> QED
      BY <3>3, <3>4
  <2> QED
    BY <2>1, <2>2
<1>6. ASSUME SetEnd
      PROVE  ContextOK'
  <2> DEFINE c == IF parC # NULL THEN parC ELSE curC
  <2>1. CASE ~IsVariantClause(c)
    BY <1>6, <2>1, UndefinedKeepsContext DEF SetEnd
  <2>2. CASE IsVariantClause(c)
    <3>1. c \in Clause
      BY <2>2 DEF IsVariantClause
    <3>2. EndTraitSet(c)
      BY <1>6, <2>2 DEF SetEnd
    <3>3. /\ UNCHANGED <<phase, parses, before, storage, made, result, variantOf, traitsOf,
                         pairedOf>>
          /\ \/ UNCHANGED <<curD, curC, parD, parC>>
             \/ curD' = parD /\ curC' = parC /\ parD' = NULL /\ parC' = NULL
      BY <1>6, <2>2 DEF SetEnd, RestoreParent
    <3> QED
      BY <1>2, <3>1, <3>2, <3>3
  <2> QED
    BY <2>1, <2>2
<1> QED
  BY <1>1, <1>3, <1>4, <1>5, <1>6 DEF ReadSelector

\* Every step of the parser keeps its state well-typed.
LEMMA ParserTypeStep == ParserTypeOK /\ [ParserNext]_vars => ParserTypeOK'
<1> SUFFICES ASSUME ParserTypeOK, [ParserNext]_vars PROVE ParserTypeOK'
  OBVIOUS
<1>1. TypeOK /\ ContextOK
  BY TypeOKParts
<1>2. TypeOK'
  BY <1>1, ParserStepUsesStore, StoreTypeStep
<1>3. ContextOK'
  <2> USE DEF ContextOK, PointersOK, HoldersOK, BuilderOK, PhaseOK, holderVars, traitVars,
              pointerVars
  <2>1. CASE BeginParse
    <3>1. parses < MaxParses /\ parses \in 0 .. MaxParses
      BY <1>1, <2>1 DEF BeginParse
    <3>2. parses + 1 \in 0 .. MaxParses
      BY <3>1, MaxParsesAssumption
    <3> QED
      BY <1>1, <2>1, <3>2 DEF BeginParse, ResetParserState
  <2>2. CASE SyntaxError
    BY <1>1, <2>2 DEF SyntaxError, Drop
  <2>3. CASE Accept
    BY <1>1, <2>3, TakenType DEF Accept, Drop
  <2>4. CASE UNCHANGED vars
    BY <1>1, <2>4 DEF vars, parserVars
  <2> QED
    BY <1>1, <2>1, <2>2, <2>3, <2>4, ReadDirectiveKeepsContext, ReadClauseKeepsContext,
       ReadVariantKeepsContext, ReadSelectorKeepsContext DEF ParserNext
<1> QED
  BY <1>2, <1>3 DEF ParserTypeOK, ContextOK, PointersOK, HoldersOK, BuilderOK, PhaseOK

\* Directives are idle and unowned when the program starts.
LEMMA ParserTypeInit == ParserInit => ParserTypeOK
<1> SUFFICES ASSUME ParserInit PROVE ParserTypeOK
  OBVIOUS
<1>1. TypeOK
  BY StoreTypeInit DEF ParserInit
<1>2. <<>> \in Seq(Directive \cup {NULL}) /\ 0 \in 0 .. MaxParses
  BY MaxParsesAssumption
<1>3. ContextOK
  BY <1>2 DEF ParserInit, ContextOK, PointersOK, HoldersOK, BuilderOK, PhaseOK
<1> QED
  BY <1>1, <1>3, TypeOKParts

\* The parser's pointers, owners and selector builders always refer to directives
\* and clauses that were made, whatever the text.
THEOREM ParserTypeCorrect == ParserSpec => []ParserTypeOK
<1> QED
  BY ParserTypeInit, ParserTypeStep, PTL DEF ParserSpec

\* The detailed parser implements the clause containers' specification: every
\* semantic action is one operation of a directive, or leaves all of them alone.
THEOREM ParserUsesStore == ParserSpec => StoreSpec
<1>1. ParserInit => StoreInit
  BY DEF ParserInit
<1> QED
  BY <1>1, ParserStepUsesStore, ParserTypeCorrect, PTL DEF ParserSpec, StoreSpec

\* After any sequence of accepted and rejected texts, even those that misuse the
\* parent pair, validateInvariants has nothing to report about the containers of
\* any directive the parser has built.
THEOREM ParsedDirectivesAreValid == ParserSpec => []StoreAlwaysValid
<1> QED
  BY ParserUsesStore, BuiltDirectivesAreValid, PTL

\* So the clauses of every directive the parser builds are one list, of which the
\* answer for a kind is the part of that kind.
THEOREM ParsedClausesAreOneList == ParserSpec => RefinesClauseList
  BY ParserUsesStore, ContainersAreOneList, PTL

-----------------------------------------------------------------------------
(***************************************************************************)
(* Ownership.  SoleHolder is inductive once it is known that a directive   *)
(* not yet made has no holder: the storage gets only new directives, and   *)
(* every other holder gets what it takes out of the storage.               *)
(***************************************************************************)
OwnershipInv ==
    /\ SoleHolder
    /\ \A d \in Directive : Holders(d) # {} => d <= made

\* Membership in Holders, holder by holder.
LEMMA HoldersMembers ==
    ASSUME NEW d \in Directive, NEW h
    PROVE  h \in Holders(d) <=>
              \/ h = <<"storage", NULL, 0>> /\ d \in storage
              \/ h = <<"caller", NULL, 0>> /\ result = d
              \/ \E c \in Clause : h = <<"variant", c, 0>> /\ variantOf[c] = d
              \/ \E e \in Directive : h = <<"paired", e, 0>> /\ pairedOf[e] = d
              \/ \E c \in Clause : \E i \in DOMAIN traitsOf[c] :
                    h = <<"trait", c, i>> /\ traitsOf[c][i] = d
BY DEF Holders

\* A step after which every directive has fewer holders keeps the invariant.
LEMMA ShrinkKeepsOwnership ==
    ASSUME OwnershipInv, \A d \in Directive : Holders(d)' \subseteq Holders(d), made' = made
    PROVE  OwnershipInv'
BY DEF OwnershipInv, SoleHolder

\* So does one that moves a directive from the storage to one new holder.
LEMMA MoveKeepsOwnership ==
    ASSUME OwnershipInv, made' = made, NEW x, NEW g,
           \A d \in Directive : Holders(d)' \subseteq Holders(d) \cup (IF d = x THEN {g} ELSE {}),
           x \in Directive => x \in storage /\ <<"storage", NULL, 0>> \notin Holders(x)'
    PROVE  OwnershipInv'
<1>1. ASSUME NEW d \in Directive, d # x
      PROVE  Holders(d)' \subseteq Holders(d)
  BY <1>1
<1>2. ASSUME x \in Directive
      PROVE  Holders(x)' \subseteq {g} /\ x <= made
  <2>1. <<"storage", NULL, 0>> \in Holders(x)
    BY <1>2, HoldersMembers
  <2>2. Holders(x) = {<<"storage", NULL, 0>>}
    BY <1>2, <2>1 DEF OwnershipInv, SoleHolder
  <2> QED
    BY <1>2, <2>2 DEF OwnershipInv
<1> QED
  BY <1>1, <1>2 DEF OwnershipInv, SoleHolder

\* makeDirectiveAt gives a new directive to the storage.
LEMMA MakeKeepsOwnership ==
    ASSUME ParserTypeOK, OwnershipInv, NEW d \in Directive, MakeDirective(d)
    PROVE  OwnershipInv'
<1>1. d = made + 1 /\ made' = made + 1 /\ storage' = storage \cup {d} /\ made \in Nat
      /\ UNCHANGED <<result, variantOf, traitsOf, pairedOf>>
  BY DEF MakeDirective, ParserTypeOK
<1>2. Directive \subseteq Nat
  BY NumberAssumption
<1>3. \A e \in Directive : e # d => Holders(e)' = Holders(e)
  BY <1>1 DEF Holders
<1>4. Holders(d) = {}
  BY <1>1, <1>2 DEF OwnershipInv
<1>5. Holders(d)' \subseteq Holders(d) \cup {<<"storage", NULL, 0>>}
  BY <1>1 DEF Holders
<1>6. \A e \in Directive : e <= made => e <= made'
  BY <1>1, <1>2
<1> QED
  BY <1>1, <1>2, <1>3, <1>4, <1>5, <1>6 DEF OwnershipInv, SoleHolder

\* A clause takes its variant out of the storage.
LEMMA HoldVariantKeepsOwnership ==
    ASSUME ParserTypeOK, OwnershipInv, parC # NULL, HoldVariant
    PROVE  OwnershipInv'
<1> DEFINE x == Taken(curD)
<1>1. /\ variantOf' = [variantOf EXCEPT ![parC] = x]
      /\ storage' = storage \ {curD}
      /\ UNCHANGED <<made, result, traitsOf, pairedOf>>
  BY DEF HoldVariant
<1>2. parC \in Clause /\ variantOf \in [Clause -> Directive \cup {NULL}]
  BY DEF ParserTypeOK
<1>3. \A d \in Directive : d \notin storage' => <<"storage", NULL, 0>> \notin Holders(d)'
  BY DEF Holders
<1>4. x \in Directive => x \in storage /\ x \notin storage'
  BY <1>1, NullAssumption DEF Taken
<1>5. ASSUME NEW d \in Directive
      PROVE  Holders(d)' \subseteq Holders(d) \cup (IF d = x THEN {<<"variant", parC, 0>>} ELSE {})
  <2> HIDE DEF x
  <2> QED
    BY <1>1, <1>2 DEF Holders
<1> HIDE DEF x
<1> QED
  BY <1>1, <1>3, <1>4, <1>5, MoveKeepsOwnership

\* A clause takes a construct trait out of the storage.
LEMMA TakeTraitKeepsOwnership ==
    ASSUME ParserTypeOK, OwnershipInv, IsVariantClause(parC), TakeTrait
    PROVE  OwnershipInv'
<1> DEFINE x == Taken(curD)
           n == Len(traitsOf[parC]) + 1
<1>1. /\ storage' = storage \ {curD}
      /\ UNCHANGED <<made, result, variantOf, pairedOf>>
      /\ \/ traitsOf' = [traitsOf EXCEPT ![parC] = Append(@, x)]
         \/ UNCHANGED traitsOf
  BY DEF TakeTrait
<1>2. parC \in Clause /\ traitsOf \in [Clause -> Seq(Directive \cup {NULL})]
  BY DEF ParserTypeOK, IsVariantClause
<1>3. \A d \in Directive : d \notin storage' => <<"storage", NULL, 0>> \notin Holders(d)'
  BY DEF Holders
<1>4. x \in Directive => x \in storage /\ x \notin storage'
  BY <1>1, NullAssumption DEF Taken
<1>5. x \in Directive \cup {NULL}
  BY DEF Taken, ParserTypeOK
<1> HIDE DEF x
<1>6. ASSUME NEW c \in Clause, NEW i \in DOMAIN traitsOf'[c]
      PROVE  \/ i \in DOMAIN traitsOf[c] /\ traitsOf'[c][i] = traitsOf[c][i]
             \/ c = parC /\ i = n /\ traitsOf'[c][i] = x
  <2>1. CASE UNCHANGED traitsOf \/ c # parC
    BY <1>1, <1>2, <2>1
  <2>2. CASE traitsOf' = [traitsOf EXCEPT ![parC] = Append(@, x)] /\ c = parC
    <3>1. traitsOf'[c] = Append(traitsOf[c], x) /\ traitsOf[c] \in Seq(Directive \cup {NULL})
      BY <1>2, <2>2
    <3> QED
      BY <1>5, <2>2, <3>1
  <2> QED
    BY <1>1, <2>1, <2>2
<1>7. ASSUME NEW d \in Directive
      PROVE  Holders(d)' \subseteq Holders(d) \cup (IF d = x THEN {<<"trait", parC, n>>} ELSE {})
  <2> HIDE DEF n
  <2>1. ASSUME NEW c \in Clause, NEW i \in DOMAIN traitsOf'[c], traitsOf'[c][i] = d
        PROVE  \/ i \in DOMAIN traitsOf[c] /\ traitsOf[c][i] = d
               \/ d = x /\ c = parC /\ i = n
    BY <1>6, <2>1
  <2> QED
    BY <1>1, <2>1 DEF Holders
<1> QED
  BY <1>1, <1>3, <1>4, <1>7, MoveKeepsOwnership

\* The END directive takes the directive it names out of the storage.
LEMMA EndPairedKeepsOwnership ==
    ASSUME ParserTypeOK, OwnershipInv, parD # NULL, EndPaired
    PROVE  OwnershipInv'
<1> DEFINE x == Taken(curD)
<1>1. /\ pairedOf' = [pairedOf EXCEPT ![parD] = x]
      /\ storage' = storage \ {curD}
      /\ UNCHANGED <<made, result, traitsOf, variantOf>>
  BY DEF EndPaired
<1>2. parD \in Directive /\ pairedOf \in [Directive -> Directive \cup {NULL}]
  BY DEF ParserTypeOK
<1>3. \A d \in Directive : d \notin storage' => <<"storage", NULL, 0>> \notin Holders(d)'
  BY DEF Holders
<1>4. x \in Directive => x \in storage /\ x \notin storage'
  BY <1>1, NullAssumption DEF Taken
<1>5. ASSUME NEW d \in Directive
      PROVE  Holders(d)' \subseteq Holders(d) \cup (IF d = x THEN {<<"paired", parD, 0>>} ELSE {})
  <2> HIDE DEF x
  <2> QED
    BY <1>1, <1>2 DEF Holders
<1> HIDE DEF x
<1> QED
  BY <1>1, <1>3, <1>4, <1>5, MoveKeepsOwnership

\* At the end of a text the caller takes the outermost directive.
LEMMA AcceptKeepsOwnership ==
    ASSUME ParserTypeOK, OwnershipInv, Accept
    PROVE  OwnershipInv'
<1>1. storage' = {} /\ UNCHANGED <<made, variantOf, traitsOf, pairedOf>>
  BY DEF Accept, Drop
<1>2. CASE UNCHANGED result
  <2>1. \A d \in Directive : Holders(d)' \subseteq Holders(d)
    BY <1>1, <1>2 DEF Holders
  <2> QED
    BY <1>1, <2>1, ShrinkKeepsOwnership
<1>3. CASE result' = Taken(curD)
  <2> DEFINE x == Taken(curD)
  <2>1. x \in Directive => x \in storage
    BY NullAssumption DEF Taken
  <2>2. \A d \in Directive : <<"storage", NULL, 0>> \notin Holders(d)'
    BY <1>1 DEF Holders
  <2>3. ASSUME NEW d \in Directive
        PROVE  Holders(d)' \subseteq Holders(d) \cup (IF d = x THEN {<<"caller", NULL, 0>>} ELSE {})
    <3>1. result' = x
      BY <1>3
    <3> HIDE DEF x
    <3> QED
      BY <1>1, <3>1 DEF Holders
  <2> HIDE DEF x
  <2> QED
    BY <1>1, <2>1, <2>2, <2>3, MoveKeepsOwnership
<1> QED
  BY <1>2, <1>3 DEF Accept

\* Every step keeps the invariant: the other actions move no directive.
LEMMA OwnershipStep == ParserTypeOK /\ OwnershipInv /\ [ParserNext]_vars => OwnershipInv'
<1> SUFFICES ASSUME ParserTypeOK, OwnershipInv, [ParserNext]_vars PROVE OwnershipInv'
  OBVIOUS
<1>1. ASSUME /\ storage' \subseteq storage
             /\ result' \in {result, NULL}
             /\ UNCHANGED <<made, variantOf, traitsOf, pairedOf>>
      PROVE  OwnershipInv'
  <2>1. \A d \in Directive : Holders(d)' \subseteq Holders(d)
    BY <1>1, NullAssumption DEF Holders
  <2> QED
    BY <1>1, <2>1, ShrinkKeepsOwnership
<1>2. ASSUME Undefined PROVE OwnershipInv'
  BY <1>1, <1>2 DEF Undefined, holderVars
<1>3. CASE BeginParse \/ SyntaxError \/ UNCHANGED vars
  BY <1>1, <1>3 DEF BeginParse, SyntaxError, Drop, vars, parserVars, holderVars
<1>4. CASE Accept
  BY <1>4, AcceptKeepsOwnership
<1>5. CASE ReadDirective
  <2>1. ASSUME NEW symbol, PlainDirective(symbol) \/ Metadirective(symbol)
                           \/ DeclareVariantDirective(symbol) \/ EndMetadirective \/ EndDirective
        PROVE  OwnershipInv'
    BY <2>1, MakeKeepsOwnership
       DEF PlainDirective, Metadirective, DeclareVariantDirective, EndMetadirective, EndDirective
  <2>2. CASE EndPaired
    BY <1>2, <2>2, EndPairedKeepsOwnership DEF EndPaired
  <2> QED
    BY <1>5, <2>1, <2>2 DEF ReadDirective
<1>6. CASE ReadClause
  <2> SUFFICES ASSUME ~Undefined PROVE UNCHANGED holderVars
    BY <1>1, <1>2 DEF holderVars
  <2>1. ASSUME NEW l, FirstClause(l) \/ NextClause(l) \/ NextClauseAfterComma(l)
                      \/ NextClauseSilently(l) \/ LeaveOut(l)
        PROVE  UNCHANGED holderVars
    BY <2>1 DEF FirstClause, NextClause, NextClauseAfterComma, NextClauseSilently, LeaveOut,
                Silent
  <2>2. ASSUME PlainClause \/ OrderClause \/ WhenClause \/ MatchClause \/ OtherwiseClause
               \/ DefaultVariantClause
        PROVE  UNCHANGED holderVars
    BY <2>2 DEF PlainClause, OrderClause, WhenClause, MatchClause, OtherwiseClause,
                DefaultVariantClause, NewClause
  <2> QED
    BY <1>6, <2>1, <2>2 DEF ReadClause
<1>7. CASE ReadVariant
  <2>1. CASE OtherwiseOpen \/ WhenColon \/ WhenVariant \/ WhenClose
    BY <1>1, <2>1 DEF OtherwiseOpen, WhenColon, WhenVariant, WhenClose, Silent, holderVars
  <2>2. CASE SetWhenVariant \/ VariantClose
    BY <1>2, <2>2, HoldVariantKeepsOwnership DEF SetWhenVariant, VariantClose
  <2> QED
    BY <1>7, <2>1, <2>2 DEF ReadVariant
<1>8. CASE ReadSelector
  <2>1. CASE TakeTrait
    BY <1>2, <2>1, TakeTraitKeepsOwnership DEF TakeTrait
  <2>2. ASSUME NEW symbol, ~Undefined, OpenSet \/ OpenConstructSet \/ AnotherSet \/ SetEnd
                           \/ SimpleTrait(symbol) \/ ConstructTrait(symbol)
        PROVE  UNCHANGED holderVars
    BY <2>2 DEF OpenSet, OpenConstructSet, AnotherSet, SetEnd, SimpleTrait, ConstructTrait,
                Silent
  <2> QED
    BY <1>1, <1>2, <1>8, <2>1, <2>2 DEF ReadSelector, holderVars
<1> QED
  BY <1>3, <1>4, <1>5, <1>6, <1>7, <1>8 DEF ParserNext

\* No text makes two owners of one directive, so destroying a result, a rejected
\* parse's storage or a clause frees every directive once.
THEOREM DirectivesHaveOneHolder == ParserSpec => []SoleHolder
<1>1. ParserInit => OwnershipInv
  <2> SUFFICES ASSUME ParserInit, NEW d \in Directive PROVE Holders(d) = {}
    BY DEF OwnershipInv, SoleHolder
  <2>1. NULL # d
    BY NullAssumption
  <2> QED
    BY <2>1 DEF ParserInit, Holders
<1>2. OwnershipInv => SoleHolder
  BY DEF OwnershipInv
<1> QED
  BY <1>1, <1>2, OwnershipStep, ParserTypeCorrect, PTL DEF ParserSpec

-----------------------------------------------------------------------------
(***************************************************************************)
(* The stack.                                                              *)
(***************************************************************************)
Returns == {"takeTrait", "setWhenVariant", "variantClose", "endPaired"}

Symbol ==
    Returns
    \cup {"directive", "paired", "clauses", "clause", "more", "mclauses", "mclause", "mmore",
          "dclauses", "dclause", "dmore", "set", "moreSets", "traits", "constructTraits", "trait",
          "moreTraits", "setEnd", "whenColon", "whenVariant", "variant", "whenClose",
          "otherwiseVariant"}

MayStandOn(x, y) ==
    \/ x = "clause" /\ y = "more"
    \/ x \in {"clauses", "more"} /\ y \in {"end"} \cup Returns
    \/ x \in {"directive", "mclauses", "mmore", "dclauses", "dmore", "endPaired"} /\ y = "end"
    \/ x \in {"mclause", "whenColon", "whenClose", "otherwiseVariant", "variantClose"}
       /\ y = "mmore"
    \/ x = "dclause" /\ y = "dmore"
    \/ x \in {"set", "setEnd"} /\ y = "moreSets"
    \/ x = "moreSets" /\ y \in {"whenColon", "dmore"}
    \/ x \in {"traits", "constructTraits", "moreTraits"} /\ y = "setEnd"
    \/ x = "trait" /\ y = "takeTrait"
    \/ x = "takeTrait" /\ y = "moreTraits"
    \/ x \in {"whenVariant", "setWhenVariant"} /\ y = "whenClose"
    \/ x = "variant" /\ y \in {"setWhenVariant", "variantClose"}
    \/ x = "paired" /\ y = "endPaired"

\* The stack as the parser sees it, with the end of the text below its last symbol.
Sym == [i \in Nat \ {0} |-> IF i <= Len(todo) THEN todo[i] ELSE "end"]

StackOK ==
    /\ todo \in Seq(Symbol)
    /\ \A i \in 1 .. Len(todo) : MayStandOn(Sym[i], Sym[i + 1])

Place ==
    IF Sym[1] = "clause" THEN Sym[3]
    ELSE IF Sym[1] \in {"clauses", "more"} THEN Sym[2]
    ELSE Sym[1]

\* Nothing stands on the end of the text.
LEMMA EndIsLast ==
    ASSUME StackOK, NEW i \in Nat \ {0}, Sym[i] = "end"
    PROVE  i > Len(todo)
<1>1. ASSUME i \in 1 .. Len(todo)
      PROVE  FALSE
  BY <1>1 DEF StackOK, MayStandOn
<1> QED
  BY <1>1 DEF StackOK

\* The head of the stack is its first symbol.
LEMMA HeadSymbol ==
    ASSUME StackOK, NEW s, At(s)
    PROVE  Len(todo) \in Nat \ {0} /\ todo # <<>> /\ Sym[1] = s /\ MayStandOn(s, Sym[2])
<1>1. todo \in Seq(Symbol) /\ todo # <<>> /\ Head(todo) = s
  BY DEF StackOK, At
<1>2. Len(todo) \in Nat \ {0} /\ todo[1] = s
  BY <1>1
<1>3. Sym[1] = s
  BY <1>2 DEF Sym
<1> QED
  BY <1>1, <1>2, <1>3 DEF StackOK

\* Tuples of one, two and three symbols are sequences.
LEMMA Tuples ==
    ASSUME NEW S, NEW a \in S, NEW b \in S, NEW c \in S
    PROVE  <<a>> \in Seq(S) /\ <<a, b>> \in Seq(S) /\ <<a, b, c>> \in Seq(S)
OBVIOUS

\* Continue puts symbols where the head was and moves the rest of the stack.
LEMMA Shift ==
    ASSUME StackOK, todo # <<>>, NEW w \in Seq(Symbol), Continue(w)
    PROVE  /\ todo' \in Seq(Symbol) /\ Len(todo') = Len(w) + Len(todo) - 1
           /\ \A i \in 1 .. Len(w) : Sym'[i] = w[i]
           /\ \A i \in Nat \ {0} : i > Len(w) => Sym'[i] = Sym[i - Len(w) + 1]
<1>1. todo' = w \o Tail(todo) /\ Len(todo) \in Nat \ {0} /\ Len(w) \in Nat
  BY DEF Continue, StackOK
<1>2. /\ Tail(todo) \in Seq(Symbol) /\ Len(Tail(todo)) = Len(todo) - 1
      /\ \A i \in 1 .. Len(todo) - 1 : Tail(todo)[i] = todo[i + 1]
  BY HeadTailProperties DEF StackOK
<1>3. /\ todo' \in Seq(Symbol) /\ Len(todo') = Len(w) + Len(todo) - 1
      /\ \A i \in 1 .. Len(todo') :
            todo'[i] = IF i <= Len(w) THEN w[i] ELSE Tail(todo)[i - Len(w)]
  BY <1>1, <1>2, ConcatProperties
<1>4. ASSUME NEW i \in 1 .. Len(w)
      PROVE  Sym'[i] = w[i]
  BY <1>1, <1>3 DEF Sym
<1>5. ASSUME NEW i \in Nat \ {0}, i > Len(w)
      PROVE  Sym'[i] = Sym[i - Len(w) + 1]
  <2>1. CASE i <= Len(todo')
    <3>1. i - Len(w) \in 1 .. Len(todo) - 1 /\ i - Len(w) + 1 \in Nat \ {0}
      BY <1>1, <1>3, <1>5, <2>1
    <3>2. todo'[i] = todo[i - Len(w) + 1]
      BY <1>1, <1>2, <1>3, <1>5, <2>1, <3>1
    <3> QED
      BY <1>1, <2>1, <3>1, <3>2 DEF Sym
  <2>2. CASE i > Len(todo')
    BY <1>1, <1>3, <1>5, <2>2 DEF Sym
  <2> QED
    BY <1>1, <1>3, <2>1, <2>2
<1> QED
  BY <1>3, <1>4, <1>5

\* If the symbols put there may stand on each other and on what is below, the stack
\* stays one that the grammar leads to.
LEMMA ShiftKeepsStack ==
    ASSUME StackOK, todo # <<>>, NEW w \in Seq(Symbol), Continue(w),
           \A i \in 1 .. Len(w) : MayStandOn(Sym'[i], Sym'[i + 1])
    PROVE  StackOK'
<1>1. ASSUME NEW i \in 1 .. Len(todo'), i > Len(w)
      PROVE  MayStandOn(Sym'[i], Sym'[i + 1])
  <2>1. Len(w) \in Nat /\ Len(todo) \in Nat /\ i \in Nat \ {0} /\ i + 1 \in Nat \ {0} /\ i + 1 > Len(w)
        /\ Len(todo') = Len(w) + Len(todo) - 1
    BY <1>1, Shift DEF StackOK
  <2>2. Sym'[i] = Sym[i - Len(w) + 1] /\ Sym'[i + 1] = Sym[i - Len(w) + 1 + 1]
    <3>1. i + 1 - Len(w) + 1 = i - Len(w) + 1 + 1
      BY <2>1
    <3> QED
      BY <1>1, <2>1, <3>1, Shift
  <2>3. i - Len(w) + 1 \in 1 .. Len(todo)
    BY <1>1, <2>1
  <2> QED
    BY <2>2, <2>3 DEF StackOK
<1>2. Len(w) \in Nat /\ todo' \in Seq(Symbol) /\ Len(todo') \in Nat
  BY Shift
<1>3. \A i \in 1 .. Len(todo') : i \in 1 .. Len(w) \/ i > Len(w)
  BY <1>2
<1> QED
  BY <1>1, <1>2, <1>3 DEF StackOK

\* A symbol that is taken away uncovers the one below it.
LEMMA Pop ==
    ASSUME StackOK, todo # <<>>, Continue(<<>>)
    PROVE  StackOK' /\ Sym'[1] = Sym[2] /\ Sym'[2] = Sym[3] /\ Sym'[3] = Sym[4]
<1> DEFINE w == <<>>
<1>1. w \in Seq(Symbol) /\ Len(w) = 0
  BY Tuples
<1>2. Continue(w)
  OBVIOUS
<1> HIDE DEF w
<1>3. /\ \A i \in 1 .. Len(w) : Sym'[i] = w[i]
      /\ \A i \in Nat \ {0} : i > Len(w) => Sym'[i] = Sym[i - Len(w) + 1]
  BY <1>1, <1>2, Shift
<1>4. Sym'[1] = Sym[2] /\ Sym'[2] = Sym[3] /\ Sym'[3] = Sym[4]
  BY <1>1, <1>3
<1>5. \A i \in 1 .. Len(w) : MayStandOn(Sym'[i], Sym'[i + 1])
  BY <1>1, <1>4
<1> QED
  BY <1>1, <1>2, <1>4, <1>5, ShiftKeepsStack

\* A symbol takes the place of the head.
LEMMA Replace ==
    ASSUME StackOK, todo # <<>>, NEW a \in Symbol,
           Continue(<<a>>), MayStandOn(a, Sym[2])
    PROVE  StackOK' /\ Sym'[1] = a /\ Sym'[2] = Sym[2] /\ Sym'[3] = Sym[3]
<1> DEFINE w == <<a>>
<1>1. w \in Seq(Symbol) /\ Len(w) = 1 /\ w[1] = a
  BY Tuples
<1>2. Continue(w)
  OBVIOUS
<1> HIDE DEF w
<1>3. /\ \A i \in 1 .. Len(w) : Sym'[i] = w[i]
      /\ \A i \in Nat \ {0} : i > Len(w) => Sym'[i] = Sym[i - Len(w) + 1]
  BY <1>1, <1>2, Shift
<1>4. Sym'[1] = a /\ Sym'[2] = Sym[2] /\ Sym'[3] = Sym[3]
  BY <1>1, <1>3
<1>5. \A i \in 1 .. Len(w) : MayStandOn(Sym'[i], Sym'[i + 1])
  BY <1>1, <1>4
<1> QED
  BY <1>1, <1>2, <1>4, <1>5, ShiftKeepsStack

\* Two symbols take the place of the head.
LEMMA Push ==
    ASSUME StackOK, todo # <<>>, NEW a \in Symbol, NEW b \in Symbol,
           Continue(<<a, b>>), MayStandOn(a, b), MayStandOn(b, Sym[2])
    PROVE  StackOK' /\ Sym'[1] = a /\ Sym'[2] = b /\ Sym'[3] = Sym[2]
<1> DEFINE w == <<a, b>>
<1>1. w \in Seq(Symbol) /\ Len(w) = 2 /\ w[1] = a /\ w[2] = b
  BY Tuples
<1>2. Continue(w)
  OBVIOUS
<1> HIDE DEF w
<1>3. /\ \A i \in 1 .. Len(w) : Sym'[i] = w[i]
      /\ \A i \in Nat \ {0} : i > Len(w) => Sym'[i] = Sym[i - Len(w) + 1]
  BY <1>1, <1>2, Shift
<1>4. Sym'[1] = a /\ Sym'[2] = b /\ Sym'[3] = Sym[2]
  BY <1>1, <1>3
<1>5. \A i \in 1 .. Len(w) : MayStandOn(Sym'[i], Sym'[i + 1])
  BY <1>1, <1>4
<1> QED
  BY <1>1, <1>2, <1>4, <1>5, ShiftKeepsStack

\* Three symbols take the place of the head.
LEMMA PushThree ==
    ASSUME StackOK, todo # <<>>, NEW a \in Symbol, NEW b \in Symbol, NEW c \in Symbol,
           Continue(<<a, b, c>>), MayStandOn(a, b), MayStandOn(b, c), MayStandOn(c, Sym[2])
    PROVE  StackOK' /\ Sym'[1] = a /\ Sym'[2] = b /\ Sym'[3] = c
<1> DEFINE w == <<a, b, c>>
<1>1. w \in Seq(Symbol) /\ Len(w) = 3 /\ w[1] = a /\ w[2] = b /\ w[3] = c
  BY Tuples
<1>2. Continue(w)
  OBVIOUS
<1> HIDE DEF w
<1>3. /\ \A i \in 1 .. Len(w) : Sym'[i] = w[i]
      /\ \A i \in Nat \ {0} : i > Len(w) => Sym'[i] = Sym[i - Len(w) + 1]
  BY <1>1, <1>2, Shift
<1>4. Sym'[1] = a /\ Sym'[2] = b /\ Sym'[3] = c /\ Sym'[4] = Sym[2]
  BY <1>1, <1>3
<1>5. \A i \in 1 .. Len(w) : MayStandOn(Sym'[i], Sym'[i + 1])
  BY <1>1, <1>4
<1> QED
  BY <1>1, <1>2, <1>4, <1>5, ShiftKeepsStack

-----------------------------------------------------------------------------
(***************************************************************************)
(* Where each action takes the parse from and to.                          *)
(***************************************************************************)
WellPlaced == "nested" \notin Forms /\ "misplaced" \notin Forms

\* A directive begins.
Begins(d) ==
    /\ StackOK' /\ todo # <<>>
    /\ MakeDirective(d)
    /\ UNCHANGED <<phase, parses, before, curC>>
    /\ \/ /\ \/ Place = "directive" /\ Place' \in {"end", "mclauses", "dclauses"}
             \/ Place = "variant" /\ Place' \in {"setWhenVariant", "variantClose"}
             \/ Place = "paired" /\ Place' = "endPaired"
             \/ Place = "trait" /\ Place' = "takeTrait"
          /\ UNCHANGED <<parD, parC>>
       \/ Place = "directive" /\ Place' = "paired" /\ SaveParent(d, curC)

\* Rules about directives.
LEMMA DirectivePlaces ==
    ASSUME StackOK, WellPlaced, ReadDirective, ~Undefined
    PROVE  (\E d \in Directive : Begins(d)) \/ EndPaired
<1> USE DEF Place, MayStandOn, Symbol, Returns, Begins
<1>1. ASSUME NEW symbol \in {"directive", "variant", "paired", "trait"}, PlainDirective(symbol)
      PROVE  \E d \in Directive : Begins(d)
  <2>1. At(symbol) /\ Continue(<<"clauses">>)
    BY <1>1 DEF PlainDirective
  <2>2. StackOK' /\ todo # <<>> /\ Place = symbol /\ Place' = Sym[2] /\ MayStandOn(symbol, Sym[2])
    BY <1>1, <2>1, HeadSymbol, Replace
  <2> QED
    BY <1>1, <2>1, <2>2 DEF PlainDirective, Continue
<1>2. ASSUME NEW symbol \in Nesting({"variant", "paired"}), Metadirective(symbol)
      PROVE  \E d \in Directive : Begins(d)
  <2>1. symbol = "directive"
    BY DEF Nesting, WellPlaced
  <2>2. StackOK' /\ todo # <<>> /\ Place = "directive" /\ Place' = "mclauses"
    BY <1>2, <2>1, HeadSymbol, Replace DEF Metadirective
  <2> QED
    BY <1>2, <2>2 DEF Metadirective, Continue
<1>3. ASSUME NEW symbol \in Nesting({"variant"}), DeclareVariantDirective(symbol)
      PROVE  \E d \in Directive : Begins(d)
  <2>1. symbol = "directive"
    BY DEF Nesting, WellPlaced
  <2>2. StackOK' /\ todo # <<>> /\ Place = "directive" /\ Place' = "dclauses"
    BY <1>3, <2>1, HeadSymbol, Replace DEF DeclareVariantDirective
  <2> QED
    BY <1>3, <2>2 DEF DeclareVariantDirective, Continue
<1>4. ASSUME EndMetadirective
      PROVE  \E d \in Directive : Begins(d)
  <2>1. StackOK' /\ todo # <<>> /\ Place = "paired" /\ Place' = "endPaired"
    BY <1>4, HeadSymbol, Pop DEF EndMetadirective
  <2> QED
    BY <1>4, <2>1 DEF EndMetadirective, Continue
<1>5. ASSUME EndDirective
      PROVE  \E d \in Directive : Begins(d)
  <2>1. StackOK' /\ todo # <<>> /\ Place = "directive" /\ Place' = "paired"
    BY <1>5, HeadSymbol, Push DEF EndDirective
  <2> QED
    BY <1>5, <2>1 DEF EndDirective, Continue
<1> QED
  BY <1>1, <1>2, <1>3, <1>4, <1>5 DEF ReadDirective

\* The directive that END names is complete, and with it the text.
LEMMA EndPairedPlaces ==
    ASSUME StackOK, EndPaired, ~Undefined
    PROVE  /\ StackOK' /\ todo # <<>> /\ todo' = <<>>
           /\ Place = "endPaired" /\ Place' = "end"
<1>1. At("endPaired") /\ Continue(<<>>)
  BY DEF EndPaired
<1>2. todo # <<>> /\ Sym[1] = "endPaired" /\ Sym[2] = "end"
  BY <1>1, HeadSymbol DEF MayStandOn, Returns
<1>3. StackOK' /\ Sym'[1] = "end"
  BY <1>1, <1>2, Pop
<1>4. todo' \in Seq(Symbol) /\ (1 \in 1 .. Len(todo') => MayStandOn("end", Sym'[2]))
  BY <1>3 DEF StackOK
<1>5. ~MayStandOn("end", Sym'[2])
  BY DEF MayStandOn
<1>6. todo' = <<>>
  BY <1>4, <1>5, EmptySeq
<1> QED
  BY <1>2, <1>3, <1>6 DEF Place

\* Rules about clauses.
LEMMA ListPlaces ==
    ASSUME StackOK,
           \/ \E l \in ListKind : FirstClause(l) \/ NextClause(l) \/ NextClauseAfterComma(l)
                                  \/ NextClauseSilently(l)
           \/ \E symbol \in Optional : LeaveOut(symbol)
    PROVE  /\ StackOK' /\ todo # <<>>
           /\ \/ Place \in {"end"} \cup Returns /\ Place' = Place
              \/ Place \in {"mclauses", "mmore"} /\ Place' \in {"mclause", "end"}
              \/ Place \in {"dclauses", "dmore"} /\ Place' \in {"dclause", "end"}
              \/ Place = "moreSets" /\ Place' \in {"whenColon", "dmore"}
              \/ Place = "moreTraits" /\ Place' = "setEnd"
              \/ Place = "otherwiseVariant" /\ Place' = "mmore"
              \/ Place = "whenVariant" /\ Place' = "whenClose"
<1> USE DEF Place, MayStandOn, Symbol, Returns, ListKind, ClauseSymbol, MoreSymbol
<1>1. ASSUME NEW l \in ListKind, FirstClause(l)
      PROVE  /\ StackOK' /\ todo # <<>>
             /\ \/ Place \in {"end"} \cup Returns /\ Place' = Place
                \/ Place = "mclauses" /\ Place' = "mclause"
                \/ Place = "dclauses" /\ Place' = "dclause"
  BY <1>1, HeadSymbol, Push DEF FirstClause
<1>2. ASSUME NEW l \in ListKind, NextClause(l) \/ NextClauseAfterComma(l) \/ NextClauseSilently(l)
      PROVE  /\ StackOK' /\ todo # <<>>
             /\ \/ Place \in {"end"} \cup Returns /\ Place' = Place
                \/ Place = "mmore" /\ Place' = "mclause"
                \/ Place = "dmore" /\ Place' = "dclause"
  <2>1. At(MoreSymbol[l]) /\ Continue(<<ClauseSymbol[l], MoreSymbol[l]>>)
    BY <1>2 DEF NextClause, NextClauseAfterComma, NextClauseSilently
  <2>2. CASE l = "clauses"
    BY <2>1, <2>2, HeadSymbol, Push
  <2>3. CASE l # "clauses"
    BY <2>1, <2>3, HeadSymbol, Push
  <2> QED
    BY <2>2, <2>3
<1>3. ASSUME NEW symbol \in Optional, LeaveOut(symbol)
      PROVE  /\ StackOK' /\ todo # <<>>
             /\ \/ Place \in {"end"} \cup Returns /\ Place' = Place
                \/ Place \in {"mclauses", "mmore", "dclauses", "dmore"} /\ Place' = "end"
                \/ Place = "moreSets" /\ Place' \in {"whenColon", "dmore"}
                \/ Place = "moreTraits" /\ Place' = "setEnd"
                \/ Place = "otherwiseVariant" /\ Place' = "mmore"
                \/ Place = "whenVariant" /\ Place' = "whenClose"
  <2>1. symbol \in {"clauses", "more", "mclauses", "mmore", "dclauses", "dmore", "moreSets",
                    "moreTraits", "otherwiseVariant", "whenVariant"}
    BY DEF Optional
  <2>2. StackOK' /\ todo # <<>> /\ Sym[1] = symbol /\ Sym'[1] = Sym[2] /\ MayStandOn(symbol, Sym[2])
    BY <1>3, HeadSymbol, Pop DEF LeaveOut
  <2> QED
    BY <2>1, <2>2
<1> QED
  BY <1>1, <1>2, <1>3

\* A clause of a plain directive stands on the rest of that directive's list.
LEMMA PlaceOfClause ==
    ASSUME StackOK, At("clause")
    PROVE  /\ todo # <<>> /\ Sym[1] = "clause" /\ Sym[2] = "more"
           /\ Place = Sym[3] /\ Place \in {"end"} \cup Returns
<1>1. todo # <<>> /\ Sym[1] = "clause" /\ Sym[2] = "more"
  BY HeadSymbol DEF MayStandOn, Returns
<1>2. Len(todo) >= 2
  BY <1>1 DEF StackOK, Sym
<1>3. MayStandOn(Sym[2], Sym[3])
  BY <1>2 DEF StackOK
<1> QED
  BY <1>1, <1>3 DEF Place, MayStandOn, Returns

\* Rules that build a clause.
LEMMA ClausePlaces ==
    ASSUME StackOK
    PROVE  /\ PlainClause \/ (OrderClause /\ curD # NULL) =>
                 /\ StackOK' /\ todo # <<>>
                 /\ Sym[1] = "clause" /\ Place \in {"end"} \cup Returns /\ Place' = Place
           /\ WhenClause => StackOK' /\ todo # <<>> /\ Place = "mclause" /\ Place' = "set"
           /\ MatchClause => StackOK' /\ todo # <<>> /\ Place = "dclause" /\ Place' = "set"
           /\ OtherwiseClause =>
                 StackOK' /\ todo # <<>> /\ Place = "mclause" /\ Place' = "otherwiseVariant"
           /\ DefaultVariantClause =>
                 StackOK' /\ todo # <<>> /\ Place = "mclause" /\ Place' = "variant"
<1> USE DEF Place, MayStandOn, Symbol, Returns
<1>2. ASSUME PlainClause \/ (OrderClause /\ curD # NULL)
      PROVE  /\ StackOK' /\ todo # <<>>
             /\ Sym[1] = "clause" /\ Place \in {"end"} \cup Returns /\ Place' = Place
  <2>1. At("clause") /\ Continue(<<>>)
    BY <1>2 DEF PlainClause, OrderClause
  <2> QED
    BY <2>1, PlaceOfClause, Pop
<1>3. WhenClause => StackOK' /\ todo # <<>> /\ Place = "mclause" /\ Place' = "set"
  <2> SUFFICES ASSUME WhenClause
               PROVE  StackOK' /\ todo # <<>> /\ Place = "mclause" /\ Place' = "set"
    OBVIOUS
  <2>1. At("mclause") /\ Continue(<<"set", "moreSets", "whenColon">>)
    BY DEF WhenClause
  <2>2. todo # <<>> /\ Sym[1] = "mclause" /\ Sym[2] = "mmore"
    BY <2>1, HeadSymbol
  <2>3. StackOK' /\ Sym'[1] = "set"
    BY <2>1, <2>2, PushThree
  <2> QED
    BY <2>2, <2>3
<1>4. MatchClause => StackOK' /\ todo # <<>> /\ Place = "dclause" /\ Place' = "set"
  BY HeadSymbol, Push DEF MatchClause
<1>5. OtherwiseClause => StackOK' /\ todo # <<>> /\ Place = "mclause" /\ Place' = "otherwiseVariant"
  BY HeadSymbol, Replace DEF OtherwiseClause
<1>6. DefaultVariantClause => StackOK' /\ todo # <<>> /\ Place = "mclause" /\ Place' = "variant"
  BY HeadSymbol, Push DEF DefaultVariantClause
<1> QED
  BY <1>2, <1>3, <1>4, <1>5, <1>6

\* Rules that give a clause its variant.
LEMMA VariantPlaces ==
    ASSUME StackOK, ~Undefined
    PROVE  /\ OtherwiseOpen =>
                 StackOK' /\ todo # <<>> /\ Place = "otherwiseVariant" /\ Place' = "variant"
           /\ WhenColon => StackOK' /\ todo # <<>> /\ Place = "whenColon" /\ Place' = "whenVariant"
           /\ WhenVariant => StackOK' /\ todo # <<>> /\ Place = "whenVariant" /\ Place' = "variant"
           /\ SetWhenVariant =>
                 StackOK' /\ todo # <<>> /\ Place = "setWhenVariant" /\ Place' = "whenClose"
           /\ WhenClose => StackOK' /\ todo # <<>> /\ Place = "whenClose" /\ Place' = "mmore"
           /\ VariantClose => StackOK' /\ todo # <<>> /\ Place = "variantClose" /\ Place' = "mmore"
<1> USE DEF Place, MayStandOn, Symbol, Returns
<1>1. OtherwiseOpen => StackOK' /\ todo # <<>> /\ Place = "otherwiseVariant" /\ Place' = "variant"
  BY HeadSymbol, Push DEF OtherwiseOpen
<1>2. WhenColon => StackOK' /\ todo # <<>> /\ Place = "whenColon" /\ Place' = "whenVariant"
  BY HeadSymbol, Push DEF WhenColon
<1>3. WhenVariant => StackOK' /\ todo # <<>> /\ Place = "whenVariant" /\ Place' = "variant"
  BY HeadSymbol, Push DEF WhenVariant
<1>4. SetWhenVariant => StackOK' /\ todo # <<>> /\ Place = "setWhenVariant" /\ Place' = "whenClose"
  BY HeadSymbol, Pop DEF SetWhenVariant
<1>5. WhenClose => StackOK' /\ todo # <<>> /\ Place = "whenClose" /\ Place' = "mmore"
  BY HeadSymbol, Pop DEF WhenClose
<1>6. VariantClose => StackOK' /\ todo # <<>> /\ Place = "variantClose" /\ Place' = "mmore"
  BY HeadSymbol, Pop DEF VariantClose
<1> QED
  BY <1>1, <1>2, <1>3, <1>4, <1>5, <1>6

\* Rules about context selectors.
LEMMA SelectorPlaces ==
    ASSUME StackOK, WellPlaced, ~Undefined
    PROVE  /\ OpenSet => StackOK' /\ todo # <<>> /\ Place = "set" /\ Place' = "traits"
           /\ OpenConstructSet =>
                 StackOK' /\ todo # <<>> /\ Place = "set" /\ Place' = "constructTraits"
           /\ AnotherSet => StackOK' /\ todo # <<>> /\ Place = "moreSets" /\ Place' = "set"
           /\ \A symbol \in SimpleTraitAt : SimpleTrait(symbol) =>
                 StackOK' /\ todo # <<>> /\ Place = "traits" /\ Place' = "setEnd"
           /\ \A symbol \in ConstructTraitAt : ConstructTrait(symbol) =>
                 /\ StackOK' /\ todo # <<>>
                 /\ Place \in {"constructTraits", "moreTraits"} /\ Place' = "trait"
           /\ TakeTrait => StackOK' /\ todo # <<>> /\ Place = "takeTrait" /\ Place' = "moreTraits"
           /\ SetEnd => StackOK' /\ todo # <<>> /\ Place = "setEnd" /\ Place' = "moreSets"
<1> USE DEF Place, MayStandOn, Symbol, Returns
<1>1. OpenSet => StackOK' /\ todo # <<>> /\ Place = "set" /\ Place' = "traits"
  BY HeadSymbol, Push DEF OpenSet
<1>2. OpenConstructSet => StackOK' /\ todo # <<>> /\ Place = "set" /\ Place' = "constructTraits"
  BY HeadSymbol, Push DEF OpenConstructSet
<1>3. AnotherSet => StackOK' /\ todo # <<>> /\ Place = "moreSets" /\ Place' = "set"
  BY HeadSymbol, Push DEF AnotherSet
<1>4. ASSUME NEW symbol \in SimpleTraitAt, SimpleTrait(symbol)
      PROVE  StackOK' /\ todo # <<>> /\ Place = "traits" /\ Place' = "setEnd"
  <2>1. symbol = "traits"
    BY DEF SimpleTraitAt, WellPlaced
  <2> QED
    BY <1>4, <2>1, HeadSymbol, Pop DEF SimpleTrait
<1>5. ASSUME NEW symbol \in ConstructTraitAt, ConstructTrait(symbol)
      PROVE  /\ StackOK' /\ todo # <<>>
             /\ Place \in {"constructTraits", "moreTraits"} /\ Place' = "trait"
  <2>1. symbol \in {"constructTraits", "moreTraits"}
    BY DEF ConstructTraitAt, WellPlaced
  <2> QED
    <3>1. At(symbol) /\ Continue(<<"trait", "takeTrait", "moreTraits">>)
      BY <1>5 DEF ConstructTrait
    <3>2. todo # <<>> /\ Sym[1] = symbol /\ Sym[2] = "setEnd"
      BY <2>1, <3>1, HeadSymbol
    <3>3. StackOK' /\ Sym'[1] = "trait"
      BY <3>1, <3>2, PushThree
    <3> QED
      BY <2>1, <3>2, <3>3
<1>6. TakeTrait => StackOK' /\ todo # <<>> /\ Place = "takeTrait" /\ Place' = "moreTraits"
  BY HeadSymbol, Pop DEF TakeTrait
<1>7. SetEnd => StackOK' /\ todo # <<>> /\ Place = "setEnd" /\ Place' = "moreSets"
  BY HeadSymbol, Pop DEF SetEnd
<1> QED
  BY <1>1, <1>2, <1>3, <1>4, <1>5, <1>6, <1>7

-----------------------------------------------------------------------------
(***************************************************************************)
(* The pointers.                                                           *)
(***************************************************************************)
Saved ==
    Returns \cup {"paired", "trait", "moreTraits", "constructTraits", "variant", "whenVariant",
                  "whenClose"}
Opened == {"traits", "constructTraits", "moreTraits", "trait", "takeTrait", "setEnd"}
Selecting == Opened \cup {"set", "moreSets"}
Bare ==
    Selecting \cup {"whenColon", "whenVariant", "variant", "setWhenVariant", "variantClose",
                    "otherwiseVariant"}

Frame == [dir : Directive, clause : Clause \cup {NULL}]
Depth == IF Place \in Returns THEN 2 ELSE IF Place = "directive" THEN 0 ELSE 1

ScopeOK ==
    /\ scope \in Seq(Frame)
    /\ Len(scope) = Depth
    /\ \A i \in 1 .. Len(scope) : scope[i].clause \in Live \cup {NULL}

PairOK ==
    /\ Place \in Saved => parD # NULL
    /\ parD # NULL =>
          /\ Place \in Saved \cup {"setEnd"}
          /\ parD = scope[1].dir /\ parC = scope[1].clause
    /\ parD = NULL =>
          /\ parC = NULL
          /\ scope = <<>> => curD = NULL /\ curC = NULL
          /\ scope # <<>> => curD = scope[1].dir /\ curC = scope[1].clause
    /\ Place \in Returns => curD = scope[2].dir

ClauseInHand ==
    /\ Place \in Selecting => IsVariantClause(scope[1].clause)
    /\ Place \in Bare => scope[1].clause # NULL

ContextInv == StackOK /\ ScopeOK /\ PairOK /\ ClauseInHand

\* A directive that begins is put on the scope.
LEMMA ScopeOpens ==
    ASSUME scope \in Seq(Frame), NEW f \in Frame, scope' = Append(scope, f)
    PROVE  /\ scope' \in Seq(Frame) /\ Len(scope') = Len(scope) + 1
           /\ \A i \in 1 .. Len(scope) : scope'[i] = scope[i]
           /\ scope'[Len(scope) + 1] = f
OBVIOUS

\* A directive that is complete is taken off the scope.
LEMMA ScopeCloses ==
    ASSUME scope \in Seq(Frame), scope # <<>>, scope' = SubSeq(scope, 1, Len(scope) - 1)
    PROVE  /\ scope' \in Seq(Frame) /\ Len(scope') = Len(scope) - 1
           /\ \A i \in 1 .. Len(scope') : scope'[i] = scope[i]
<1> DEFINE n == Len(scope) - 1
<1>1. n \in Nat /\ Len(scope) = n + 1
  BY EmptySeq
<1>2. \A i \in 1 .. n : scope[i] \in Frame
  BY <1>1
<1>3. scope' = SubSeq(scope, 1, n)
  OBVIOUS
<1> HIDE DEF n
<1>4. /\ scope' \in Seq(Frame)
      /\ Len(scope') = IF 1 <= n THEN n - 1 + 1 ELSE 0
      /\ \A i \in 1 .. n - 1 + 1 : scope'[i] = scope[1 + i - 1]
  BY <1>1, <1>2, <1>3, SubSeqProperties
<1>5. n - 1 + 1 = n /\ Len(scope') = n
  BY <1>1, <1>4
<1>6. \A i \in 1 .. n : 1 + i - 1 = i
  BY <1>1
<1> QED
  BY <1>1, <1>4, <1>5, <1>6

\* A clause that is written changes only the innermost frame.
LEMMA ScopeWrites ==
    ASSUME scope \in Seq(Frame), scope # <<>>, NEW c \in Clause,
           scope' = [scope EXCEPT ![Len(scope)].clause = c]
    PROVE  /\ scope' \in Seq(Frame) /\ Len(scope') = Len(scope)
           /\ \A i \in 1 .. Len(scope) : scope'[i].dir = scope[i].dir
           /\ \A i \in 1 .. Len(scope) - 1 : scope'[i] = scope[i]
           /\ scope'[Len(scope)].clause = c
<1>1. Len(scope) \in 1 .. Len(scope) /\ scope[Len(scope)] \in Frame
  OBVIOUS
<1>2. [scope[Len(scope)] EXCEPT !.clause = c] \in Frame
  BY <1>1 DEF Frame
<1>3. scope' = [scope EXCEPT ![Len(scope)] = [scope[Len(scope)] EXCEPT !.clause = c]]
  OBVIOUS
<1>4. scope' \in Seq(Frame) /\ Len(scope') = Len(scope)
  BY <1>1, <1>2, <1>3
<1>5. \A i \in 1 .. Len(scope) :
         scope'[i] = IF i = Len(scope) THEN [scope[Len(scope)] EXCEPT !.clause = c] ELSE scope[i]
  BY <1>1, <1>3
<1>6. [scope[Len(scope)] EXCEPT !.clause = c].dir = scope[Len(scope)].dir
      /\ [scope[Len(scope)] EXCEPT !.clause = c].clause = c
  BY <1>1 DEF Frame
<1> QED
  BY <1>1, <1>4, <1>5, <1>6

\* A directive that begins becomes the innermost one.
LEMMA BeginsKeepsContext ==
    ASSUME ParserTypeOK, ContextInv, NEW d \in Directive, Begins(d)
    PROVE  ContextInv'
<1>1. /\ scope' = Append(scope, [dir |-> d, clause |-> NULL])
      /\ curD' = d /\ curC' = curC
      /\ Live' = Live /\ clauseKind' = clauseKind
  BY DEF Begins, MakeDirective, SetBaseLang, Live
<1>2. /\ scope' \in Seq(Frame) /\ Len(scope') = Len(scope) + 1
      /\ \A i \in 1 .. Len(scope) : scope'[i] = scope[i]
      /\ scope'[Len(scope) + 1] = [dir |-> d, clause |-> NULL]
  <2>1. [dir |-> d, clause |-> NULL] \in Frame
    BY DEF Frame
  <2> QED
    BY <1>1, <2>1, ScopeOpens DEF ContextInv, ScopeOK
<1>3. ScopeOK'
  <2>1. Len(scope') = Depth'
    BY <1>2 DEF ContextInv, ScopeOK, Begins, Depth, Returns
  <2>2. ASSUME NEW i \in 1 .. Len(scope')
        PROVE  scope'[i].clause \in Live \cup {NULL}
    BY <1>2, <2>2 DEF ContextInv, ScopeOK
  <2> QED
    BY <1>1, <1>2, <2>1, <2>2 DEF ScopeOK
<1>4. d # NULL
  BY NullAssumption
<1>5. CASE Place = "directive"
  <2>1. scope = <<>> /\ scope'[1] = [dir |-> d, clause |-> NULL] /\ scope' # <<>>
    <3>1. Len(scope) = 0 /\ scope \in Seq(Frame)
      BY <1>5 DEF ContextInv, ScopeOK, Depth, Returns
    <3>2. Len(scope') = 1 /\ scope'[1] = [dir |-> d, clause |-> NULL]
      BY <1>2, <3>1
    <3>3. scope = <<>>
      BY <3>1, EmptySeq
    <3>4. scope' # <<>>
      BY <3>2, EmptySeq
    <3> QED
      BY <3>2, <3>3, <3>4
  <2>2. parD = NULL /\ parC = NULL /\ curC = NULL
    BY <1>5, <2>1 DEF ContextInv, PairOK, Saved, Returns
  <2>3. /\ Place' \notin Returns /\ Place' \notin Selecting /\ Place' \notin Bare
        /\ \/ Place' \notin Saved /\ parD' = NULL /\ parC' = NULL
           \/ Place' \in Saved /\ parD' = d /\ parC' = NULL
    BY <1>5, <2>2 DEF Begins, SaveParent, Returns, Selecting, Opened, Bare, Saved
  <2>4. PairOK'
    BY <1>1, <1>4, <2>1, <2>2, <2>3 DEF PairOK
  <2> QED
    BY <1>3, <2>3, <2>4 DEF ContextInv, ClauseInHand, Begins
<1>6. CASE Place # "directive"
  <2>1. /\ Place \in {"variant", "paired", "trait"} /\ Place' \in Returns
        /\ (Place \in Selecting <=> Place' \in Selecting) /\ (Place \in Bare <=> Place' \in Bare)
        /\ UNCHANGED <<parD, parC>>
    BY <1>6 DEF Begins, Returns, Selecting, Opened, Bare
  <2>2. Len(scope) = 1 /\ scope'[1] = scope[1] /\ scope'[2].dir = d /\ scope' # <<>>
    BY <1>2, <2>1 DEF ContextInv, ScopeOK, Depth, Returns
  <2>3. parD # NULL /\ Place' \in Saved
    BY <2>1 DEF ContextInv, PairOK, Saved
  <2>4. PairOK'
    BY <1>1, <2>1, <2>2, <2>3 DEF ContextInv, PairOK
  <2>5. ClauseInHand'
    BY <1>1, <2>1, <2>2 DEF ContextInv, ClauseInHand, IsVariantClause
  <2> QED
    BY <1>3, <2>4, <2>5 DEF ContextInv, Begins
<1> QED
  BY <1>5, <1>6

\* The step neither adds nor removes a clause, nor changes the kind of one.
SameClauses == Live' = Live /\ clauseKind' = clauseKind

\* What the clause in hand is known to be where the step leads to, it already was.
Demands == /\ Place' \in Selecting => Place \in Selecting
           /\ Place' \in Bare => Place \in Bare
           /\ Place' \in {"paired", "endPaired"} => Place' = Place

\* Adoption moves clauses between directives.
LEMMA AdoptKeepsLive ==
    ASSUME TypeOK, NEW d \in Directive, NEW s \in Directive, AdoptClauses(d, s)
    PROVE  SameClauses
<1>1. /\ d # s /\ clauseKind' = clauseKind
      /\ owned' = [owned EXCEPT ![d] = owned[d] \cup owned[s], ![s] = {}]
  BY DEF AdoptClauses, Adopts, AdoptedStorage
<1>2. owned'[d] = owned[d] \cup owned[s] /\ owned'[s] = {}
      /\ \A e \in Directive \ {d, s} : owned'[e] = owned[e]
  BY <1>1 DEF TypeOK
<1>3. Live' \subseteq Live
  BY <1>2 DEF Live
<1>4. ASSUME NEW c \in Live
      PROVE  c \in Live'
  <2>1. PICK e \in Directive : c \in owned[e]
    BY DEF Live
  <2>2. CASE e \in {d, s}
    BY <1>2, <2>1, <2>2 DEF Live
  <2>3. CASE e \notin {d, s}
    BY <1>2, <2>1, <2>3 DEF Live
  <2> QED
    BY <2>2, <2>3
<1> QED
  BY <1>1, <1>3, <1>4 DEF SameClauses

\* A step that moves only through the text.
LEMMA StayKeepsContext ==
    ASSUME ContextInv, StackOK', SameClauses, Demands,
           UNCHANGED <<scope, curD, curC, parD, parC>>, Depth' = Depth,
           Place' \in Saved => Place \in Saved,
           Place \in Saved \cup {"setEnd"} => Place' \in Saved \cup {"setEnd"},
           Place' \in Returns => Place \in Returns
    PROVE  ContextInv'
<1>1. ScopeOK'
  BY DEF ContextInv, ScopeOK, SameClauses
<1>2. PairOK'
  BY DEF ContextInv, PairOK
<1>3. ClauseInHand'
  BY DEF ContextInv, ClauseInHand, Demands, SameClauses, IsVariantClause
<1> QED
  BY <1>1, <1>2, <1>3 DEF ContextInv

\* A step that saves the current pair finds no pair saved.
LEMMA SavingKeepsContext ==
    ASSUME ContextInv, StackOK', SameClauses, Demands,
           UNCHANGED <<scope, curD, curC>>, SaveParent(curD, curC),
           Depth = 1, Depth' = 1, Place \notin Saved \cup {"setEnd"},
           Place' \in Saved \ Returns
    PROVE  ContextInv'
<1>1. ScopeOK'
  BY DEF ContextInv, ScopeOK, SameClauses
<1>2. scope # <<>> /\ scope[1] \in Frame
  BY EmptySeq DEF ContextInv, ScopeOK
<1>3. parD = NULL /\ curD = scope[1].dir /\ curC = scope[1].clause
  BY <1>2 DEF ContextInv, PairOK
<1>4. curD # NULL
  BY <1>2, <1>3, NullAssumption DEF Frame
<1>5. PairOK'
  BY <1>3, <1>4 DEF PairOK, SaveParent
<1>6. ClauseInHand'
  BY DEF ContextInv, ClauseInHand, Demands, SameClauses, IsVariantClause
<1> QED
  BY <1>1, <1>5, <1>6 DEF ContextInv

\* A step that restores the saved pair comes back to the outer directive.
LEMMA RestoringKeepsContext ==
    ASSUME ContextInv, StackOK', SameClauses, Demands,
           UNCHANGED scope, RestoreParent, parD # NULL,
           Depth = 1, Depth' = 1, Place' \notin Saved
    PROVE  ContextInv'
<1>1. ScopeOK'
  BY DEF ContextInv, ScopeOK, SameClauses
<1>2. scope # <<>>
  BY EmptySeq DEF ContextInv, ScopeOK
<1>3. parD = scope[1].dir /\ parC = scope[1].clause /\ Returns \subseteq Saved
  BY DEF ContextInv, PairOK, Saved
<1>4. PairOK'
  BY <1>2, <1>3 DEF PairOK, RestoreParent
<1>5. ClauseInHand'
  BY DEF ContextInv, ClauseInHand, Demands, SameClauses, IsVariantClause
<1> QED
  BY <1>1, <1>4, <1>5 DEF ContextInv

\* The innermost directive is complete.
Completes == scope' = SubSeq(scope, 1, Len(scope) - 1)

\* A step that completes the inner directive comes back to the outer one.
LEMMA ClosingKeepsContext ==
    ASSUME ContextInv, StackOK', SameClauses, Demands,
           Completes,
           Place \in Returns, Place' \notin Returns \cup {"directive"},
           \/ Place' \in Saved /\ UNCHANGED <<curD, curC, parD, parC>>
           \/ Place' \notin Saved /\ RestoreParent
    PROVE  ContextInv'
<1>1. Len(scope) = 2 /\ scope \in Seq(Frame) /\ scope # <<>>
  BY EmptySeq DEF ContextInv, ScopeOK, Depth
<1>2. /\ scope' \in Seq(Frame) /\ Len(scope') = 1 /\ scope'[1] = scope[1]
  BY <1>1, ScopeCloses DEF Completes
<1>3. ScopeOK'
  <2>1. Depth' = 1
    BY DEF Depth
  <2>2. scope[1].clause \in Live \cup {NULL} /\ Live' = Live
    BY <1>1 DEF ContextInv, ScopeOK, SameClauses
  <2> QED
    BY <1>2, <2>1, <2>2 DEF ScopeOK
<1>4. scope' # <<>>
  BY <1>2, EmptySeq
<1>5. parD # NULL /\ parD = scope'[1].dir /\ parC = scope'[1].clause
  BY <1>2 DEF ContextInv, PairOK, Saved
<1>6. PairOK'
  BY <1>4, <1>5 DEF PairOK, RestoreParent
<1>7. ClauseInHand'
  BY <1>2 DEF ContextInv, ClauseInHand, Demands, SameClauses, IsVariantClause
<1> QED
  BY <1>3, <1>6, <1>7 DEF ContextInv

\* A clause is built: on the innermost directive, and current from then on.
Writes(c, k) ==
    LET d == scope[Len(scope)].dir IN
    /\ StackOK' /\ todo # <<>>
    /\ c \in Clause \ Live /\ Live' = Live \cup {c}
    /\ clauseKind' = [clauseKind EXCEPT ![c] = k]
    /\ order' = [order EXCEPT ![d] = Append(@, c)]
    /\ written' = [written EXCEPT ![d] = Append(@, c)]
    /\ scope' = [scope EXCEPT ![Len(scope)].clause = c]
    /\ curD = d /\ curD' = d /\ curC' = c
    /\ UNCHANGED <<phase, before, made, storage, result, variantOf, traitsOf, pairedOf, setOpen,
                   misused, writtenIn>>
    /\ \/ /\ \/ Place \in {"end"} \cup Returns /\ Place' = Place
             \/ Place = "mclause" /\ k = "when" /\ Place' = "set"
             \/ Place = "dclause" /\ k = "match" /\ Place' = "set"
             \/ Place = "mclause" /\ Place' = "otherwiseVariant"
          /\ UNCHANGED <<parD, parC>>
       \/ Place = "mclause" /\ Place' = "variant" /\ SaveParent(curD, c)

\* Where a clause may be written, the innermost directive is the current one.
LEMMA CurrentIsInnermost ==
    ASSUME ContextInv, Place \in {"end", "mclause", "dclause"} \cup Returns
    PROVE  /\ scope # <<>> /\ Innermost = scope[Len(scope)] /\ curD = Innermost.dir
           /\ curD \in Directive
<1>1. scope \in Seq(Frame) /\ Len(scope) = Depth /\ Depth \in {1, 2} /\ (Depth = 2 <=> Place \in Returns)
  BY DEF ContextInv, ScopeOK, Depth, Returns
<1>2. scope # <<>> /\ Innermost = scope[Len(scope)] /\ scope[Len(scope)] \in Frame
  BY <1>1, EmptySeq DEF Innermost
<1>3. curD = scope[Len(scope)].dir
  <2>1. CASE Place \in Returns
    BY <1>1, <2>1 DEF ContextInv, PairOK
  <2>2. CASE Place \notin Returns
    <3>1. Place \notin Saved \cup {"setEnd"} /\ Len(scope) = 1
      BY <1>1, <2>2 DEF Saved, Returns
    <3> QED
      BY <1>2, <3>1 DEF ContextInv, PairOK
  <2> QED
    BY <2>1, <2>2
<1> QED
  BY <1>2, <1>3 DEF Frame

\* AddClause and AddOrderClause add one clause that was not there.
LEMMA AddsOne ==
    ASSUME TypeOK, NEW d \in Directive, NEW k \in AllKinds, NEW c \in Clause,
           RegisterClause(d, k, c)
    PROVE  c \notin Live /\ Live' = Live \cup {c}
<1>1. c \notin Live /\ owned' = [owned EXCEPT ![d] = @ \cup {c}]
  BY DEF RegisterClause
<1>2. owned'[d] = owned[d] \cup {c} /\ \A e \in Directive \ {d} : owned'[e] = owned[e]
  BY <1>1 DEF TypeOK
<1>3. \A e \in Directive : owned'[e] \subseteq owned[e] \cup {c}
  BY <1>2
<1>4. \A e \in Directive : owned[e] \subseteq owned'[e]
  BY <1>2
<1> QED
  BY <1>1, <1>2, <1>3, <1>4 DEF Live

\* Each rule that builds a clause builds it on the innermost directive.
LEMMA ClauseIsWritten ==
    ASSUME ParserTypeOK, ContextInv, ~Undefined,
           \/ PlainClause \/ OrderClause \/ WhenClause \/ MatchClause \/ OtherwiseClause
           \/ DefaultVariantClause
    PROVE  \E c \in Clause, k \in AllKinds : Writes(c, k)
<1>1. \/ /\ PlainClause \/ OrderClause
         /\ Place \in {"end"} \cup Returns /\ Place' = Place
      \/ WhenClause /\ Place = "mclause" /\ Place' = "set"
      \/ MatchClause /\ Place = "dclause" /\ Place' = "set"
      \/ OtherwiseClause /\ Place = "mclause" /\ Place' = "otherwiseVariant"
      \/ DefaultVariantClause /\ Place = "mclause" /\ Place' = "variant"
  <2>1. OrderClause => curD # NULL
    BY DEF OrderClause
  <2> QED
    BY <2>1, ClausePlaces DEF ContextInv
<1>2. StackOK' /\ todo # <<>>
  BY <1>1, ClausePlaces DEF ContextInv, OrderClause
<1> DEFINE d == scope[Len(scope)].dir
<1>3. scope # <<>> /\ Innermost = scope[Len(scope)] /\ curD = d /\ d \in Directive /\ d # NULL
  BY <1>1, CurrentIsInnermost, NullAssumption
<1> HIDE DEF d
<1>4. TypeOK /\ AllKinds = Kind \cup {OMPC_order}
  BY DEF ParserTypeOK, AllKinds
<1>5. ASSUME NEW c \in Clause, NEW k \in AllKinds, RegisterClause(d, k, c), PlaceLast(d, c),
             WriteClause(c), curC' = c
      PROVE  /\ c \in Clause \ Live /\ Live' = Live \cup {c}
             /\ clauseKind' = [clauseKind EXCEPT ![c] = k]
             /\ order' = [order EXCEPT ![d] = Append(@, c)]
             /\ written' = [written EXCEPT ![d] = Append(@, c)]
             /\ scope' = [scope EXCEPT ![Len(scope)].clause = c]
             /\ writtenIn' = writtenIn
  <2>1. c \notin Live /\ Live' = Live \cup {c}
    BY <1>3, <1>4, <1>5, AddsOne
  <2> QED
    BY <1>3, <1>5, <2>1 DEF RegisterClause, PlaceLast, WriteClause, d
<1>6. ASSUME NEW c \in Clause, NEW k \in {"private", "when", "match", "otherwise", "default"},
             NewClause(k, c)
      PROVE  /\ k \in AllKinds /\ RegisterClause(d, k, c) /\ PlaceLast(d, c) /\ WriteClause(c)
             /\ curC' = c /\ curD' = d
             /\ UNCHANGED <<storage, made, result, variantOf, traitsOf, pairedOf, setOpen, misused>>
  BY <1>3, <1>4, <1>6, ClauseKindAssumption DEF NewClause, AddClause, holderVars, traitVars
<1>7. CASE PlainClause
  <2>1. PICK c \in Clause : NewClause("private", c)
    BY <1>7 DEF PlainClause
  <2>2. UNCHANGED <<phase, before, parD, parC>>
    BY <1>7 DEF PlainClause, Continue
  <2> QED
    BY <1>2, <1>3, <1>5, <1>6, <1>7, <2>1, <2>2, ClausePlaces DEF Writes, d, ContextInv
<1>8. CASE OrderClause
  <2>1. PICK c \in Clause : AddOrderClause(d, c) /\ WriteClause(c) /\ curC' = c
    BY <1>3, <1>8 DEF OrderClause
  <2>2. /\ UNCHANGED <<phase, before, parD, parC, curD>>
        /\ UNCHANGED <<storage, made, result, variantOf, traitsOf, pairedOf, setOpen, misused>>
    BY <1>3, <1>8 DEF OrderClause, Continue, holderVars, traitVars
  <2>3. OMPC_order \in AllKinds /\ RegisterClause(d, OMPC_order, c) /\ PlaceLast(d, c)
    BY <1>4, <2>1 DEF AddOrderClause
  <2> QED
    BY <1>2, <1>3, <1>5, <1>8, <2>1, <2>2, <2>3, ClausePlaces DEF Writes, d, ContextInv
<1>9. CASE WhenClause
  <2>1. PICK c \in Clause : NewClause("when", c)
    BY <1>9 DEF WhenClause
  <2>2. UNCHANGED <<phase, before, parD, parC>>
    BY <1>9 DEF WhenClause, Continue
  <2> QED
    BY <1>2, <1>3, <1>5, <1>6, <1>9, <2>1, <2>2, ClausePlaces DEF Writes, d, ContextInv
<1>10. CASE MatchClause
  <2>1. PICK c \in Clause : NewClause("match", c)
    BY <1>10 DEF MatchClause
  <2>2. UNCHANGED <<phase, before, parD, parC>>
    BY <1>10 DEF MatchClause, Continue
  <2> QED
    BY <1>2, <1>3, <1>5, <1>6, <1>10, <2>1, <2>2, ClausePlaces DEF Writes, d, ContextInv
<1>11. CASE OtherwiseClause
  <2>1. PICK c \in Clause : NewClause("otherwise", c)
    BY <1>11 DEF OtherwiseClause
  <2>2. UNCHANGED <<phase, before, parD, parC>>
    BY <1>11 DEF OtherwiseClause, Continue
  <2> QED
    BY <1>2, <1>3, <1>5, <1>6, <1>11, <2>1, <2>2, ClausePlaces DEF Writes, d, ContextInv
<1>12. CASE DefaultVariantClause
  <2>1. PICK c \in Clause : NewClause("default", c) /\ SaveParent(curD, c)
    BY <1>12 DEF DefaultVariantClause
  <2>2. UNCHANGED <<phase, before>>
    BY <1>12 DEF DefaultVariantClause, Continue
  <2> QED
    BY <1>2, <1>3, <1>5, <1>6, <1>12, <2>1, <2>2, ClausePlaces DEF Writes, d, ContextInv
<1> QED
  BY <1>7, <1>8, <1>9, <1>10, <1>11, <1>12

\* A clause just built is the clause in hand of the innermost directive.
LEMMA WritesKeepsContext ==
    ASSUME ParserTypeOK, ContextInv, NEW c \in Clause, NEW k \in AllKinds, Writes(c, k)
    PROVE  ContextInv'
<1>1. /\ scope \in Seq(Frame) /\ Len(scope) = Depth /\ scope # <<>>
      /\ Depth \in {1, 2} /\ (Depth = 2 <=> Place \in Returns)
  BY EmptySeq DEF ContextInv, ScopeOK, Depth, Writes, Returns
<1>2. /\ scope' \in Seq(Frame) /\ Len(scope') = Len(scope)
      /\ \A i \in 1 .. Len(scope) : scope'[i].dir = scope[i].dir
      /\ \A i \in 1 .. Len(scope) - 1 : scope'[i] = scope[i]
      /\ scope'[Len(scope)].clause = c
  BY <1>1, ScopeWrites DEF Writes
<1>3. Live' = Live \cup {c} /\ c \notin Live /\ c # NULL /\ scope' # <<>>
  BY <1>1, <1>2, NullAssumption, EmptySeq DEF Writes
<1>4. /\ clauseKind'[c] = k
      /\ \A b \in Live : clauseKind'[b] = clauseKind[b]
  BY <1>3 DEF Writes, ParserTypeOK, TypeOK, Live
<1>5. ScopeOK'
  <2>1. Depth' = Depth
    BY DEF Writes, Depth, Returns
  <2>2. ASSUME NEW i \in 1 .. Len(scope)
        PROVE  scope'[i].clause \in Live' \cup {NULL}
    <3>1. CASE i = Len(scope)
      BY <1>2, <1>3, <3>1
    <3>2. CASE i # Len(scope)
      <4>1. i \in 1 .. Len(scope) - 1
        BY <1>1, <3>2
      <4> QED
        BY <1>2, <1>3, <4>1 DEF ContextInv, ScopeOK
    <3> QED
      BY <3>1, <3>2
  <2> QED
    BY <1>1, <1>2, <2>1, <2>2 DEF ScopeOK
<1>6. CASE Place \in Returns
  <2>1. /\ Place' = Place /\ Len(scope) = 2 /\ scope'[1] = scope[1]
        /\ UNCHANGED <<parD, parC>> /\ curD' = curD
    BY <1>1, <1>2, <1>6 DEF Writes, Returns
  <2>2. parD # NULL /\ curD = scope[2].dir /\ scope'[2].dir = scope[2].dir
    BY <1>2, <1>6, <2>1 DEF ContextInv, PairOK, Saved
  <2>3. PairOK'
    BY <2>1, <2>2 DEF ContextInv, PairOK
  <2>4. scope[1].clause \in Live \cup {NULL}
    BY <1>1, <2>1 DEF ContextInv, ScopeOK
  <2>5. ClauseInHand'
    BY <1>4, <2>1, <2>4 DEF ContextInv, ClauseInHand, IsVariantClause
  <2> QED
    BY <1>5, <2>3, <2>5 DEF ContextInv, Writes
<1>7. CASE Place \notin Returns
  <2>1. /\ Len(scope) = 1 /\ scope'[1].clause = c /\ scope'[1].dir = scope[1].dir
        /\ curD' = scope'[1].dir /\ curC' = c /\ curD = scope[1].dir
    BY <1>1, <1>2, <1>7 DEF Writes
  <2>2. parD = NULL /\ parC = NULL
    <3>1. Place \notin Saved \cup {"setEnd"}
      BY <1>7 DEF Writes, Saved, Returns
    <3> QED
      BY <3>1 DEF ContextInv, PairOK
  <2>3. curD # NULL
    <3>1. scope[1] \in Frame
      BY <1>1, <2>1
    <3> QED
      BY <2>1, <3>1, NullAssumption DEF Frame
  <2>4. /\ Place' \in Saved => Place' = "variant"
        /\ Place' \notin Returns
        /\ Place' \in Selecting => k \in VariantKind
        /\ Place' = "variant" => parD' = curD /\ parC' = c
        /\ Place' # "variant" => UNCHANGED <<parD, parC>>
    BY <1>7 DEF Writes, Saved, Returns, Selecting, Opened, VariantKind, SaveParent
  <2>5. PairOK'
    <3>1. CASE Place' = "variant"
      BY <2>1, <2>3, <2>4, <3>1 DEF PairOK, Saved
    <3>2. CASE Place' # "variant"
      BY <1>3, <2>1, <2>2, <2>4, <3>2 DEF PairOK
    <3> QED
      BY <3>1, <3>2
  <2>6. ClauseInHand'
    BY <1>3, <1>4, <2>1, <2>4 DEF ClauseInHand, IsVariantClause
  <2> QED
    BY <1>5, <2>5, <2>6 DEF ContextInv, Writes
<1> QED
  BY <1>6, <1>7

\* The clause in hand is the outer directive's, and either the saved or the current one.
LEMMA TheClauseInHand ==
    ASSUME ContextInv
    PROVE  /\ Place \in Bare => scope[1].clause \in Clause
           /\ Place \in Selecting => IsVariantClause(scope[1].clause)
           /\ Place \in Saved => parD # NULL /\ parD = scope[1].dir /\ parC = scope[1].clause
           /\ Place \in Bare \ (Saved \cup {"setEnd"}) =>
                 parD = NULL /\ parC = NULL /\ curC = scope[1].clause
           /\ Place = "setEnd" =>
                 /\ (IF parC # NULL THEN parC ELSE curC) = scope[1].clause
                 /\ parC # NULL <=> parD # NULL
<1>1. ASSUME Place \in Bare
      PROVE  scope[1] \in Frame /\ scope # <<>> /\ scope[1].clause # NULL
  <2>1. Len(scope) \in {1, 2} /\ scope \in Seq(Frame)
    BY <1>1 DEF ContextInv, ScopeOK, Depth, Bare, Selecting, Opened, Returns
  <2> QED
    BY <1>1, <2>1, EmptySeq DEF ContextInv, ClauseInHand
<1>2. Place \in Bare => scope[1].clause \in Clause
  BY <1>1 DEF Frame
<1>3. "setEnd" \in Bare
  BY DEF Bare, Selecting, Opened
<1> QED
  BY <1>1, <1>2, <1>3 DEF ContextInv, PairOK, ClauseInHand

\* Outside a clause list the parse is at the head of the stack.
LEMMA PlaceIsHead ==
    ASSUME StackOK, NEW s, At(s), s \notin {"clause", "clauses", "more"}
    PROVE  Place = s
BY HeadSymbol DEF Place

\* No rule dereferences a null pointer or takes a clause for one of another class.
LEMMA NothingUndefined ==
    ASSUME ParserTypeOK, ContextInv, WellPlaced, phase = "parsing",
           ReadDirective \/ ReadClause \/ ReadVariant \/ ReadSelector
    PROVE  phase' = "parsing"
<1> USE DEF Continue
<1>1. CASE ReadDirective
  <2>1. EndPaired => parD # NULL
    BY PlaceIsHead, TheClauseInHand DEF EndPaired, ContextInv, Saved, Returns
  <2> QED
    BY <1>1, <2>1 DEF ReadDirective, PlainDirective, Metadirective, DeclareVariantDirective,
                      EndMetadirective, EndDirective, EndPaired
<1>2. CASE ReadClause
  <2>1. ASSUME OrderClause
        PROVE  curD # NULL
    <3>1. Place \in {"end"} \cup Returns
      BY <2>1, PlaceOfClause DEF OrderClause, ContextInv
    <3> QED
      BY <3>1, CurrentIsInnermost, NullAssumption
  <2>2. ASSUME NEW l, FirstClause(l) \/ NextClause(l) \/ NextClauseAfterComma(l)
                      \/ NextClauseSilently(l) \/ LeaveOut(l)
        PROVE  phase' = phase
    BY <2>2 DEF FirstClause, NextClause, NextClauseAfterComma, NextClauseSilently, LeaveOut
  <2> QED
    BY <1>2, <2>1, <2>2 DEF ReadClause, PlainClause, OrderClause, WhenClause, MatchClause,
                            OtherwiseClause, DefaultVariantClause
<1>3. CASE ReadVariant
  <2>1. SetWhenVariant \/ VariantClose => parC # NULL
    <3>1. SetWhenVariant \/ VariantClose => Place \in Saved \cap Bare
      BY PlaceIsHead DEF SetWhenVariant, VariantClose, ContextInv, Saved, Bare, Returns
    <3> QED
      BY <3>1, TheClauseInHand, NullAssumption
  <2> QED
    BY <1>3, <2>1 DEF ReadVariant, OtherwiseOpen, WhenColon, WhenVariant, SetWhenVariant, WhenClose,
                      VariantClose
<1>4. CASE ReadSelector
  <2>1. OpenSet \/ OpenConstructSet => IsVariantClause(curC)
    <3>1. OpenSet \/ OpenConstructSet => Place = "set"
      BY PlaceIsHead DEF OpenSet, OpenConstructSet, ContextInv
    <3>2. "set" \in Selecting /\ "set" \in Bare \ (Saved \cup {"setEnd"})
      BY DEF Selecting, Bare, Saved, Returns
    <3> QED
      BY <3>1, <3>2, TheClauseInHand
  <2>2. ASSUME NEW symbol \in SimpleTraitAt, SimpleTrait(symbol)
        PROVE  IsVariantClause(curC)
    <3>1. symbol = "traits"
      BY DEF SimpleTraitAt, WellPlaced
    <3>2. Place = "traits"
      BY <2>2, <3>1, PlaceIsHead DEF SimpleTrait, ContextInv
    <3>3. "traits" \in Selecting /\ "traits" \in Bare \ (Saved \cup {"setEnd"})
      BY DEF Selecting, Opened, Bare, Saved, Returns
    <3> QED
      BY <3>2, <3>3, TheClauseInHand
  <2>3. TakeTrait => IsVariantClause(parC)
    <3>1. TakeTrait => Place = "takeTrait"
      BY PlaceIsHead DEF TakeTrait, ContextInv
    <3>2. "takeTrait" \in Selecting /\ "takeTrait" \in Saved
      BY DEF Selecting, Opened, Saved, Returns
    <3> QED
      BY <3>1, <3>2, TheClauseInHand
  <2>4. SetEnd => IsVariantClause(IF parC # NULL THEN parC ELSE curC)
    <3>1. SetEnd => Place = "setEnd"
      BY PlaceIsHead DEF SetEnd, ContextInv
    <3>2. "setEnd" \in Selecting
      BY DEF Selecting, Opened
    <3> QED
      BY <3>1, <3>2, TheClauseInHand
  <2>5. OpenSet \/ OpenConstructSet => phase' = phase
    BY <2>1 DEF OpenSet, OpenConstructSet
  <2>6. ASSUME NEW symbol \in SimpleTraitAt, SimpleTrait(symbol)
        PROVE  phase' = phase
    BY <2>2, <2>6 DEF SimpleTrait
  <2>7. ASSUME NEW symbol \in ConstructTraitAt, ConstructTrait(symbol)
        PROVE  phase' = phase
    BY <2>7 DEF ConstructTrait
  <2>8. TakeTrait \/ SetEnd \/ AnotherSet => phase' = phase
    BY <2>3, <2>4 DEF TakeTrait, SetEnd, AnotherSet
  <2> QED
    BY <1>4, <2>5, <2>6, <2>7, <2>8 DEF ReadSelector
<1> QED
  BY <1>1, <1>2, <1>3, <1>4

-----------------------------------------------------------------------------
(***************************************************************************)
(* The other steps.                                                        *)
(***************************************************************************)
\* No directive or clause is made, moved or given to a holder.
KeepsText ==
    UNCHANGED <<phase, before, made, scope, storage, result, variantOf, traitsOf, pairedOf, order,
                written, writtenIn>>

\* Steps that only read on, save the pair, restore it, or call the selector builder.
Moves ==
    /\ StackOK' /\ todo # <<>> /\ KeepsText /\ SameClauses /\ Demands
    /\ \/ UNCHANGED traitVars /\ (Place \in Opened <=> Place' \in Opened)
       \/ Place = "set" /\ Place' \in Opened /\ BeginTraitSet(scope[1].clause)
       \/ /\ Place = "traits" /\ Place' \in Opened /\ setOpen' = setOpen
          /\ misused' = [misused EXCEPT ![scope[1].clause] = @ \/ ~setOpen[scope[1].clause]]
       \/ Place = "setEnd" /\ Place' = "moreSets" /\ EndTraitSet(scope[1].clause)

\* Steps inside a clause list.
LEMMA ListMoves ==
    ASSUME ContextInv,
           \/ \E l \in ListKind : FirstClause(l) \/ NextClause(l) \/ NextClauseAfterComma(l)
                                  \/ NextClauseSilently(l)
           \/ \E symbol \in Optional : LeaveOut(symbol)
    PROVE  Moves /\ ContextInv'
<1>1. /\ StackOK' /\ todo # <<>>
      /\ \/ Place \in {"end"} \cup Returns /\ Place' = Place
         \/ Place \in {"mclauses", "mmore"} /\ Place' \in {"mclause", "end"}
         \/ Place \in {"dclauses", "dmore"} /\ Place' \in {"dclause", "end"}
         \/ Place = "moreSets" /\ Place' \in {"whenColon", "dmore"}
         \/ Place = "moreTraits" /\ Place' = "setEnd"
         \/ Place = "otherwiseVariant" /\ Place' = "mmore"
         \/ Place = "whenVariant" /\ Place' = "whenClose"
  BY ListPlaces DEF ContextInv
<1>2. /\ Demands /\ Depth' = Depth
      /\ Place' \in Saved => Place \in Saved
      /\ Place \in Saved \cup {"setEnd"} => Place' \in Saved \cup {"setEnd"}
      /\ Place' \in Returns => Place \in Returns
      /\ Place \in Opened <=> Place' \in Opened
  BY <1>1 DEF Demands, Depth, Saved, Returns, Selecting, Opened, Bare
<1>3. UNCHANGED <<phase, parses, before, owned, index, order, clauseKind, pointerVars, holderVars,
                  traitVars, scope, writtenIn, written>>
  BY DEF FirstClause, NextClause, NextClauseAfterComma, NextClauseSilently, LeaveOut, Silent,
         Continue, SetSeparator, storeVars, ghostVars
<1>4. SameClauses /\ KeepsText /\ UNCHANGED <<scope, curD, curC, parD, parC>>
  BY <1>3 DEF SameClauses, KeepsText, Live, pointerVars, holderVars
<1> QED
  BY <1>1, <1>2, <1>3, <1>4, StayKeepsContext DEF Moves

\* Steps between a clause and its variant.
LEMMA VariantMoves ==
    ASSUME ContextInv, ~Undefined, OtherwiseOpen \/ WhenColon \/ WhenVariant \/ WhenClose
    PROVE  Moves /\ ContextInv'
<1>1. /\ StackOK' /\ todo # <<>>
      /\ \/ OtherwiseOpen /\ Place = "otherwiseVariant" /\ Place' = "variant"
         \/ WhenColon /\ Place = "whenColon" /\ Place' = "whenVariant"
         \/ WhenVariant /\ Place = "whenVariant" /\ Place' = "variant"
         \/ WhenClose /\ Place = "whenClose" /\ Place' = "mmore"
  BY VariantPlaces DEF ContextInv
<1>2. Demands /\ Depth = 1 /\ Depth' = 1 /\ (Place \in Opened <=> Place' \in Opened)
  BY <1>1 DEF Demands, Depth, Returns, Selecting, Opened, Bare
<1>3. UNCHANGED <<phase, before, storeVars, holderVars, traitVars, ghostVars>>
  BY DEF OtherwiseOpen, WhenColon, WhenVariant, WhenClose, Silent, Continue
<1>4. SameClauses /\ KeepsText
  BY <1>3 DEF SameClauses, KeepsText, Live, storeVars, holderVars, ghostVars
<1>5. CASE OtherwiseOpen \/ WhenColon
  <2>1. SaveParent(curD, curC) /\ UNCHANGED <<curD, curC>>
    BY <1>5 DEF OtherwiseOpen, WhenColon
  <2>2. Place \notin Saved \cup {"setEnd"} /\ Place' \in Saved \ Returns
    BY <1>1, <1>5, PlaceIsHead DEF ContextInv, OtherwiseOpen, WhenColon, Saved, Returns
  <2> QED
    BY <1>1, <1>2, <1>3, <1>4, <2>1, <2>2, SavingKeepsContext DEF Moves, KeepsText
<1>6. CASE WhenVariant
  <2>1. UNCHANGED <<curD, curC, parD, parC>> /\ Place = "whenVariant" /\ Place' = "variant"
    BY <1>6, VariantPlaces DEF ContextInv, WhenVariant, Silent, pointerVars
  <2>2. "variant" \in Saved /\ "whenVariant" \in Saved /\ "variant" \notin Returns
    BY DEF Saved, Returns
  <2> QED
    BY <1>1, <1>2, <1>3, <1>4, <2>1, <2>2, StayKeepsContext DEF Moves, KeepsText
<1>7. CASE WhenClose
  <2>1. RestoreParent /\ Place = "whenClose" /\ Place' = "mmore"
    BY <1>7, VariantPlaces DEF ContextInv, WhenClose
  <2>2. "whenClose" \in Saved /\ "mmore" \notin Saved
    BY DEF Saved, Returns
  <2>3. parD # NULL
    BY <2>1, <2>2, TheClauseInHand
  <2> QED
    BY <1>1, <1>2, <1>3, <1>4, <2>1, <2>2, <2>3, RestoringKeepsContext DEF Moves, KeepsText
<1> QED
  BY <1>5, <1>6, <1>7

\* Steps inside a context selector, except the one that takes a construct trait.
LEMMA SelectorMoves ==
    ASSUME ContextInv, WellPlaced, ~Undefined,
           \/ OpenSet \/ OpenConstructSet \/ AnotherSet \/ SetEnd
           \/ \E symbol \in SimpleTraitAt : SimpleTrait(symbol)
           \/ \E symbol \in ConstructTraitAt : ConstructTrait(symbol)
    PROVE  Moves /\ ContextInv'
<1> DEFINE c == scope[1].clause
<1>1. ASSUME StackOK', Demands, UNCHANGED <<phase, before, storeVars, holderVars, ghostVars>>
      PROVE  SameClauses /\ KeepsText /\ UNCHANGED scope
  BY <1>1 DEF SameClauses, KeepsText, Live, storeVars, holderVars, ghostVars
<1> USE DEF Continue
<1>2. CASE OpenSet
  <2>1. StackOK' /\ todo # <<>> /\ Place = "set" /\ Place' = "traits"
    BY <1>2, SelectorPlaces DEF ContextInv
  <2>2. /\ Demands /\ Depth' = Depth /\ Place' \in Opened
        /\ Place \notin Saved \cup {"setEnd"} /\ Place' \notin Saved /\ Place' \notin Returns
        /\ Place \in Bare
    BY <2>1 DEF Demands, Depth, Saved, Returns, Selecting, Opened, Bare
  <2>3. curC = c
    BY <2>2, TheClauseInHand
  <2>4. BeginTraitSet(c) /\ UNCHANGED <<phase, before, storeVars, pointerVars, holderVars, ghostVars>>
    BY <1>2, <2>3 DEF OpenSet
  <2> QED
    BY <1>1, <2>1, <2>2, <2>4, StayKeepsContext DEF Moves, pointerVars
<1>3. CASE OpenConstructSet
  <2>1. StackOK' /\ todo # <<>> /\ Place = "set" /\ Place' = "constructTraits"
    BY <1>3, SelectorPlaces DEF ContextInv
  <2>2. /\ Demands /\ Depth = 1 /\ Depth' = 1 /\ Place' \in Opened
        /\ Place \notin Saved \cup {"setEnd"} /\ Place' \in Saved \ Returns
        /\ Place \in Bare
    BY <2>1 DEF Demands, Depth, Saved, Returns, Selecting, Opened, Bare
  <2>3. curC = c
    BY <2>2, TheClauseInHand
  <2>4. /\ BeginTraitSet(c) /\ SaveParent(curD, curC)
        /\ UNCHANGED <<phase, before, storeVars, curD, curC, holderVars, ghostVars>>
    BY <1>3, <2>3 DEF OpenConstructSet
  <2> QED
    BY <1>1, <2>1, <2>2, <2>4, SavingKeepsContext DEF Moves
<1>4. CASE AnotherSet
  <2>1. StackOK' /\ todo # <<>> /\ Place = "moreSets" /\ Place' = "set"
    BY <1>4, SelectorPlaces DEF ContextInv
  <2>2. /\ Demands /\ Depth' = Depth /\ (Place \in Opened <=> Place' \in Opened)
        /\ Place \notin Saved \cup {"setEnd"} /\ Place' \notin Saved /\ Place' \notin Returns
    BY <2>1 DEF Demands, Depth, Saved, Returns, Selecting, Opened, Bare
  <2>3. UNCHANGED <<phase, before, storeVars, pointerVars, holderVars, traitVars, ghostVars>>
    BY <1>4 DEF AnotherSet, Silent
  <2> QED
    BY <1>1, <2>1, <2>2, <2>3, StayKeepsContext DEF Moves, pointerVars
<1>5. ASSUME NEW symbol \in SimpleTraitAt, SimpleTrait(symbol)
      PROVE  Moves /\ ContextInv'
  <2>1. StackOK' /\ todo # <<>> /\ Place = "traits" /\ Place' = "setEnd"
    BY <1>5, SelectorPlaces DEF ContextInv
  <2>2. /\ Demands /\ Depth' = Depth /\ Place' \in Opened
        /\ Place \notin Saved \cup {"setEnd"} /\ Place' \notin Saved /\ Place' \notin Returns
        /\ Place \in Bare
    BY <2>1 DEF Demands, Depth, Saved, Returns, Selecting, Opened, Bare
  <2>3. curC = c
    BY <2>2, TheClauseInHand
  <2>4. /\ misused' = [misused EXCEPT ![c] = @ \/ ~setOpen[c]] /\ setOpen' = setOpen
        /\ UNCHANGED <<phase, before, storeVars, pointerVars, holderVars, ghostVars>>
    BY <1>5, <2>3 DEF SimpleTrait
  <2> QED
    BY <1>1, <2>1, <2>2, <2>4, StayKeepsContext DEF Moves, pointerVars
<1>6. ASSUME NEW symbol \in ConstructTraitAt, ConstructTrait(symbol)
      PROVE  Moves /\ ContextInv'
  <2>1. StackOK' /\ todo # <<>> /\ Place \in {"constructTraits", "moreTraits"} /\ Place' = "trait"
    BY <1>6, SelectorPlaces DEF ContextInv
  <2>2. /\ Demands /\ Depth' = Depth /\ (Place \in Opened <=> Place' \in Opened)
        /\ Place \in Saved /\ Place' \in Saved /\ Place' \notin Returns
    BY <2>1 DEF Demands, Depth, Saved, Returns, Selecting, Opened, Bare
  <2>3. UNCHANGED <<phase, before, storeVars, pointerVars, holderVars, traitVars, ghostVars>>
    BY <1>6 DEF ConstructTrait, Silent
  <2> QED
    BY <1>1, <2>1, <2>2, <2>3, StayKeepsContext DEF Moves, pointerVars
<1>7. CASE SetEnd
  <2>1. StackOK' /\ todo # <<>> /\ Place = "setEnd" /\ Place' = "moreSets"
    BY <1>7, SelectorPlaces DEF ContextInv
  <2>2. /\ Demands /\ Depth = 1 /\ Depth' = 1 /\ Place' \notin Saved
    BY <2>1 DEF Demands, Depth, Saved, Returns, Selecting, Opened, Bare
  <2>3. (IF parC # NULL THEN parC ELSE curC) = c /\ (parC # NULL <=> parD # NULL)
    BY <2>1, TheClauseInHand
  <2>4. /\ EndTraitSet(c) /\ UNCHANGED <<phase, before, storeVars, holderVars, ghostVars>>
        /\ IF parC # NULL THEN RestoreParent ELSE UNCHANGED pointerVars
    BY <1>7, <2>3 DEF SetEnd
  <2>5. Moves
    BY <1>1, <2>1, <2>2, <2>4 DEF Moves
  <2>6. CASE parD # NULL
    BY <1>1, <2>1, <2>2, <2>3, <2>4, <2>5, <2>6, RestoringKeepsContext
  <2>7. CASE parD = NULL
    <3>1. scope # <<>> /\ parC = NULL /\ curD = scope[1].dir /\ curC = scope[1].clause
      BY <2>2, <2>7, EmptySeq DEF ContextInv, ScopeOK, PairOK
    <3>2. UNCHANGED <<scope, curD, curC, parD, parC>>
      BY <1>1, <2>1, <2>2, <2>4, <3>1 DEF pointerVars
    <3>3. PairOK'
      BY <2>2, <2>7, <3>1, <3>2 DEF PairOK, Saved
    <3>4. ScopeOK' /\ ClauseInHand'
      BY <2>2, <2>5, <3>2 DEF Moves, Demands, SameClauses, ContextInv, ScopeOK, ClauseInHand,
                              IsVariantClause
    <3> QED
      BY <2>1, <2>5, <3>3, <3>4 DEF ContextInv
  <2> QED
    BY <2>5, <2>6, <2>7
<1> QED
  BY <1>2, <1>3, <1>4, <1>5, <1>6, <1>7

\* The inner directive is complete and goes to the holder the text has it in.
Closes ==
    /\ StackOK' /\ todo # <<>> /\ Completes /\ SameClauses /\ Demands
    /\ Place \in Returns /\ Place' \notin Returns \cup {"directive"}
    /\ curD = scope[2].dir /\ parD = scope[1].dir /\ parC = scope[1].clause
    /\ storage' = storage \ {curD}
    /\ UNCHANGED <<phase, before, made, result, written, writtenIn>>
    /\ \/ /\ Place = "endPaired" /\ Place' = "end" /\ todo' = <<>>
          /\ pairedOf' = [pairedOf EXCEPT ![parD] = Taken(curD)]
          /\ IF Taken(curD) = NULL THEN order' = order
             ELSE order' = [order EXCEPT ![parD] = order[parD] \o order[curD], ![curD] = <<>>]
          /\ UNCHANGED <<variantOf, traitsOf, setOpen, misused>>
       \/ /\ Place \in {"setWhenVariant", "variantClose"} /\ Place' \in {"whenClose", "mmore"}
          /\ variantOf' = [variantOf EXCEPT ![parC] = Taken(curD)]
          /\ UNCHANGED <<pairedOf, traitsOf, setOpen, misused, order>>
       \/ /\ Place = "takeTrait" /\ Place' = "moreTraits"
          /\ IF setOpen[parC]
             THEN /\ traitsOf' = [traitsOf EXCEPT ![parC] = Append(@, Taken(curD))]
                  /\ UNCHANGED misused
             ELSE misused' = [misused EXCEPT ![parC] = TRUE] /\ UNCHANGED traitsOf
          /\ UNCHANGED <<variantOf, pairedOf, setOpen, order>>

\* What completes an inner directive finds it current, and the outer pair saved.
LEMMA InnerIsCurrent ==
    ASSUME ContextInv, Place \in Returns
    PROVE  /\ Len(scope) = 2 /\ scope \in Seq(Frame)
           /\ curD = scope[2].dir /\ curD \in Directive
           /\ parD = scope[1].dir /\ parD \in Directive /\ parD # NULL
           /\ parC = scope[1].clause
<1>1. Len(scope) = 2 /\ scope \in Seq(Frame)
  BY DEF ContextInv, ScopeOK, Depth
<1>2. scope[1] \in Frame /\ scope[2] \in Frame
  BY <1>1
<1>3. curD = scope[2].dir /\ parD = scope[1].dir /\ parC = scope[1].clause /\ parD # NULL
  BY DEF ContextInv, PairOK, Saved
<1> QED
  BY <1>1, <1>2, <1>3 DEF Frame

\* The END directive takes the directive it names.
LEMMA EndPairedCloses ==
    ASSUME ParserTypeOK, ContextInv, WellPlaced, ~Undefined, EndPaired
    PROVE  Closes /\ ContextInv'
<1>1. /\ StackOK' /\ todo # <<>> /\ todo' = <<>>
      /\ Place = "endPaired" /\ Place' = "end"
  BY EndPairedPlaces DEF ContextInv
<1>2. /\ Place \in Returns /\ Place' \notin Returns \cup {"directive"} /\ Place' \notin Saved
      /\ Demands
  BY <1>1 DEF Returns, Saved, Demands, Selecting, Opened, Bare
<1>3. /\ curD = scope[2].dir /\ curD \in Directive
      /\ parD = scope[1].dir /\ parD \in Directive /\ parD # NULL /\ parC = scope[1].clause
  BY <1>2, InnerIsCurrent
<1>4. /\ Completes /\ RestoreParent
      /\ pairedOf' = [pairedOf EXCEPT ![parD] = Taken(curD)]
      /\ storage' = storage \ {curD}
      /\ IF Taken(curD) = NULL THEN UNCHANGED storeVars ELSE AdoptClauses(parD, curD)
      /\ UNCHANGED <<phase, before, made, result, written, writtenIn, variantOf, traitsOf, setOpen,
                     misused>>
  BY <1>3 DEF EndPaired, Completes, Continue, traitVars
<1>5. /\ SameClauses
      /\ IF Taken(curD) = NULL THEN order' = order
         ELSE order' = [order EXCEPT ![parD] = order[parD] \o order[curD], ![curD] = <<>>]
  <2>1. CASE Taken(curD) = NULL
    BY <1>4, <2>1 DEF storeVars, SameClauses, Live
  <2>2. CASE Taken(curD) # NULL
    BY <1>3, <1>4, <2>2, AdoptKeepsLive DEF ParserTypeOK, AdoptClauses, AdoptedOrder
  <2> QED
    BY <2>1, <2>2
<1>6. ContextInv'
  BY <1>1, <1>2, <1>4, <1>5, ClosingKeepsContext
<1> QED
  BY <1>1, <1>2, <1>3, <1>4, <1>5, <1>6 DEF Closes

\* A clause takes its variant.
LEMMA VariantCloses ==
    ASSUME ContextInv, ~Undefined, SetWhenVariant \/ VariantClose
    PROVE  Closes /\ ContextInv'
<1>1. /\ StackOK' /\ todo # <<>>
      /\ \/ SetWhenVariant /\ Place = "setWhenVariant" /\ Place' = "whenClose"
         \/ VariantClose /\ Place = "variantClose" /\ Place' = "mmore"
  BY VariantPlaces DEF ContextInv
<1>2. /\ Place \in Returns /\ Place' \notin Returns \cup {"directive"} /\ Demands
      /\ Place = "setWhenVariant" => Place' \in Saved
      /\ Place = "variantClose" => Place' \notin Saved
  BY <1>1 DEF Returns, Saved, Demands, Selecting, Opened, Bare
<1>3. curD = scope[2].dir /\ parD = scope[1].dir /\ parC = scope[1].clause
  BY <1>2, InnerIsCurrent
<1>4. /\ HoldVariant /\ UNCHANGED <<phase, before, storeVars>>
      /\ \/ Place = "setWhenVariant" /\ UNCHANGED <<curD, curC, parD, parC>>
         \/ Place = "variantClose" /\ RestoreParent
  BY <1>1 DEF SetWhenVariant, VariantClose, Continue, pointerVars
<1>5. /\ Completes /\ SameClauses /\ order' = order
      /\ variantOf' = [variantOf EXCEPT ![parC] = Taken(curD)]
      /\ storage' = storage \ {curD}
      /\ UNCHANGED <<made, result, written, writtenIn, pairedOf, traitsOf, setOpen, misused>>
  BY <1>4 DEF HoldVariant, Completes, SameClauses, Live, storeVars, traitVars
<1>6. ContextInv'
  BY <1>1, <1>2, <1>4, <1>5, ClosingKeepsContext
<1> QED
  BY <1>1, <1>2, <1>3, <1>4, <1>5, <1>6 DEF Closes

\* A clause takes a construct trait.
LEMMA TakeTraitCloses ==
    ASSUME ContextInv, WellPlaced, ~Undefined, TakeTrait
    PROVE  Closes /\ ContextInv'
<1>1. StackOK' /\ todo # <<>> /\ Place = "takeTrait" /\ Place' = "moreTraits"
  BY SelectorPlaces DEF ContextInv
<1>2. /\ Place \in Returns /\ Place' \notin Returns \cup {"directive"} /\ Demands
      /\ Place' \in Saved
  BY <1>1 DEF Returns, Saved, Demands, Selecting, Opened, Bare
<1>3. curD = scope[2].dir /\ parD = scope[1].dir /\ parC = scope[1].clause
  BY <1>2, InnerIsCurrent
<1>4. /\ IF setOpen[parC]
         THEN /\ traitsOf' = [traitsOf EXCEPT ![parC] = Append(@, Taken(curD))]
              /\ UNCHANGED misused
         ELSE misused' = [misused EXCEPT ![parC] = TRUE] /\ UNCHANGED traitsOf
      /\ storage' = storage \ {curD} /\ Completes
      /\ UNCHANGED <<phase, before, storeVars, pointerVars, made, result, variantOf, pairedOf,
                     setOpen, writtenIn, written>>
  BY DEF TakeTrait, Completes, Continue
<1>5. SameClauses /\ order' = order /\ UNCHANGED <<curD, curC, parD, parC>>
  BY <1>4 DEF SameClauses, Live, storeVars, pointerVars
<1>6. ContextInv'
  BY <1>1, <1>2, <1>4, <1>5, ClosingKeepsContext
<1> QED
  BY <1>1, <1>2, <1>3, <1>4, <1>5, <1>6 DEF Closes

-----------------------------------------------------------------------------
(***************************************************************************)
(* Every step of a parse is one of four.                                   *)
(***************************************************************************)
\* The four are the beginning of a directive, a clause, the end of an inner directive,
\* and what only moves on.
LEMMA ParsingSteps ==
    ASSUME ParserTypeOK, ContextInv, WellPlaced, phase = "parsing",
           ReadDirective \/ ReadClause \/ ReadVariant \/ ReadSelector
    PROVE  /\ phase' = "parsing" /\ ContextInv'
           /\ \/ \E d \in Directive : Begins(d)
              \/ \E c \in Clause, k \in AllKinds : Writes(c, k)
              \/ Closes
              \/ Moves
<1>1. phase' = "parsing"
  BY NothingUndefined
<1>2. ~Undefined
  BY <1>1 DEF Undefined
<1>3. CASE ReadDirective
  BY <1>1, <1>2, <1>3, DirectivePlaces, BeginsKeepsContext, EndPairedCloses DEF ContextInv
<1>4. CASE ReadClause
  <2>1. \A l \in {"clauses", "mclauses"} : l \in ListKind
    BY DEF ListKind, ClauseSymbol
  <2> QED
    BY <1>1, <1>2, <1>4, <2>1, ListMoves, ClauseIsWritten, WritesKeepsContext DEF ReadClause
<1>5. CASE ReadVariant
  BY <1>1, <1>2, <1>5, VariantMoves, VariantCloses DEF ReadVariant
<1>6. CASE ReadSelector
  BY <1>1, <1>2, <1>6, SelectorMoves, TakeTraitCloses DEF ReadSelector
<1> QED
  BY <1>3, <1>4, <1>5, <1>6

\* The three ways out of a parse, and the way in.
LEMMA BeginParseContext ==
    ASSUME BeginParse
    PROVE  ContextInv' /\ phase' = "parsing" /\ Place' = "directive" /\ scope' = <<>>
<1>1. /\ curD' = NULL /\ curC' = NULL /\ parD' = NULL /\ parC' = NULL
      /\ phase' = "parsing" /\ todo' = <<"directive">> /\ scope' = <<>>
  BY DEF BeginParse, ResetParserState
<1>2. "directive" \in Symbol
  BY DEF Symbol
<1>3. todo' \in Seq(Symbol) /\ Len(todo') = 1 /\ todo'[1] = "directive"
  BY <1>1, <1>2, Tuples
<1>4. Sym'[1] = "directive" /\ Sym'[2] = "end"
  BY <1>3 DEF Sym
<1>5. StackOK'
  BY <1>3, <1>4 DEF StackOK, MayStandOn
<1>6. Place' = "directive"
  BY <1>4 DEF Place
<1>7. ScopeOK'
  BY <1>1, <1>6 DEF ScopeOK, Depth, Returns
<1>8. PairOK' /\ ClauseInHand'
  BY <1>1, <1>6 DEF PairOK, ClauseInHand, Saved, Bare, Selecting, Opened, Returns
<1> QED
  BY <1>1, <1>5, <1>6, <1>7, <1>8 DEF ContextInv

\* Rules are reduced only while a text is being parsed.
LEMMA ReadingIsParsing ==
    ASSUME ReadDirective \/ ReadClause \/ ReadVariant \/ ReadSelector
    PROVE  phase = "parsing"
BY DEF ReadDirective, ReadClause, ReadVariant, ReadSelector, At, PlainDirective, Metadirective,
       DeclareVariantDirective, EndMetadirective, EndDirective, EndPaired, FirstClause, NextClause,
       NextClauseAfterComma, NextClauseSilently, LeaveOut, PlainClause, OrderClause, WhenClause,
       MatchClause, OtherwiseClause, DefaultVariantClause, OtherwiseOpen, WhenColon, WhenVariant,
       SetWhenVariant, WhenClose, VariantClose, OpenSet, OpenConstructSet, AnotherSet, SimpleTrait,
       ConstructTrait, TakeTrait, SetEnd

\* The context holds while a text is being parsed, and no text is left unanswered.
AnswerInv ==
    /\ phase # "undefined"
    /\ phase = "parsing" => ContextInv

\* Every step keeps it.
LEMMA AnswerStep ==
    ASSUME ParserTypeOK, AnswerInv, WellPlaced, [ParserNext]_vars
    PROVE  AnswerInv'
<1>1. CASE BeginParse
  BY <1>1, BeginParseContext DEF AnswerInv
<1>2. CASE SyntaxError \/ Accept
  BY <1>2 DEF SyntaxError, Accept, AnswerInv
<1>3. CASE ReadDirective \/ ReadClause \/ ReadVariant \/ ReadSelector
  <2>1. phase = "parsing"
    BY <1>3, ReadingIsParsing
  <2> QED
    BY <1>3, <2>1, ParsingSteps DEF AnswerInv
<1>4. CASE UNCHANGED vars
  <2>1. UNCHANGED <<phase, todo, scope, curD, curC, parD, parC, owned, clauseKind>>
    BY <1>4 DEF vars, parserVars, storeVars, pointerVars, ghostVars
  <2>2. ContextInv => ContextInv'
    BY <2>1 DEF ContextInv, StackOK, Sym, ScopeOK, Depth, Place, Live, PairOK, ClauseInHand,
                IsVariantClause
  <2> QED
    BY <2>1, <2>2 DEF AnswerInv
<1> QED
  BY <1>1, <1>2, <1>3, <1>4 DEF ParserNext

\* Whatever text it is given, of any length, the parser comes back with a result or a
\* diagnostic: no semantic action meets a null parent or a clause of another class.
THEOREM EveryTextAnswered ==
    ASSUME WellPlaced PROVE ParserSpec => []EveryTextIsAnswered
<1>1. ParserInit => AnswerInv
  BY DEF ParserInit, AnswerInv
<1>2. ParserTypeOK /\ AnswerInv /\ [ParserNext]_vars => AnswerInv'
  BY AnswerStep
<1>3. AnswerInv => EveryTextIsAnswered
  BY DEF AnswerInv, EveryTextIsAnswered
<1> QED
  BY <1>1, <1>2, <1>3, ParserTypeCorrect, PTL DEF ParserSpec

-----------------------------------------------------------------------------
(***************************************************************************)
(* The record of the text: which directives are being written, and which   *)
(* clauses they have been given.                                           *)
(***************************************************************************)
ClassifiedStep ==
    \/ \E d \in Directive : Begins(d)
    \/ \E c \in Clause, k \in AllKinds : Writes(c, k)
    \/ Closes
    \/ Moves

\* A step of the parser begins a parse, ends it, is one of the four, or changes nothing.
LEMMA StepClasses ==
    ASSUME ParserTypeOK, AnswerInv, WellPlaced, [ParserNext]_vars
    PROVE  \/ BeginParse
           \/ phase = "parsing" /\ ContextInv /\ (SyntaxError \/ Accept)
           \/ phase = "parsing" /\ phase' = "parsing" /\ ContextInv /\ ContextInv' /\ ClassifiedStep
           \/ UNCHANGED vars
<1>1. CASE ReadDirective \/ ReadClause \/ ReadVariant \/ ReadSelector
  <2>1. phase = "parsing"
    BY <1>1, ReadingIsParsing
  <2> QED
    BY <1>1, <2>1, ParsingSteps DEF AnswerInv, ClassifiedStep
<1>2. CASE SyntaxError \/ Accept
  BY <1>2 DEF SyntaxError, Accept, AnswerInv
<1> QED
  BY <1>1, <1>2 DEF ParserNext

ScopeInText ==
    /\ \A i \in 1 .. Len(scope) :
          /\ scope[i].dir \in Text \cap storage
          /\ scope[i].clause # NULL => scope[i].clause \in Range(written[scope[i].dir])
    /\ Len(scope) = 2 => scope[1].dir # scope[2].dir

RecordInv ==
    /\ 1 .. made \subseteq Directive /\ before <= made
    /\ written \in [Directive -> Seq(Clause)]
    /\ \A d \in Directive : Range(written[d]) \subseteq Live
    /\ \A d \in Directive : d > made => written[d] = <<>>
    /\ phase = "parsing" => ScopeInText

\* The directives of the text exist, and so do their clauses.
LEMMA TextIsMade ==
    ASSUME ParserTypeOK, RecordInv, NEW d \in Text
    PROVE  d \in Directive /\ \A c \in Range(written[d]) : c \in Live /\ c \in Clause
<1>1. d \in 1 .. made
  <2>1. made \in Nat /\ before \in Nat
    BY DEF ParserTypeOK
  <2> QED
    BY <2>1 DEF Text
<1>2. d \in Directive
  BY <1>1 DEF RecordInv
<1>3. Range(written[d]) \subseteq Live
  BY <1>2 DEF RecordInv
<1>4. Live \subseteq Clause
  BY DEF Live, ParserTypeOK, TypeOK
<1> QED
  BY <1>2, <1>3, <1>4

\* A new directive belongs to the text and has no clauses yet.
LEMMA BeginsKeepsRecord ==
    ASSUME ParserTypeOK, ContextInv, RecordInv, ScopeInText, NEW d \in Directive, Begins(d)
    PROVE  RecordInv' /\ ScopeInText'
<1>1. /\ d = made + 1 /\ made' = d /\ before' = before /\ storage' = storage \cup {d}
      /\ written' = written /\ Live' = Live
      /\ scope' = Append(scope, [dir |-> d, clause |-> NULL])
  BY DEF Begins, MakeDirective, SetBaseLang, Live
<1>2. /\ scope' \in Seq(Frame) /\ Len(scope') = Len(scope) + 1 /\ Len(scope) \in Nat
      /\ \A i \in 1 .. Len(scope) : scope'[i] = scope[i]
      /\ scope'[Len(scope) + 1] = [dir |-> d, clause |-> NULL]
  <2>1. [dir |-> d, clause |-> NULL] \in Frame
    BY DEF Frame
  <2> QED
    BY <1>1, <2>1, ScopeOpens DEF ContextInv, ScopeOK
<1>3. made \in Nat /\ before \in Nat /\ before <= made
  BY DEF ParserTypeOK, RecordInv
<1>4. d \in Text' /\ Text \subseteq Text' /\ d \notin Text
  BY <1>1, <1>3 DEF Text
<1>5. ASSUME NEW i \in 1 .. Len(scope')
      PROVE  /\ scope'[i].dir \in Text' \cap storage'
             /\ scope'[i].clause # NULL => scope'[i].clause \in Range(written'[scope'[i].dir])
  <2>1. CASE i \in 1 .. Len(scope)
    BY <1>1, <1>2, <1>4, <2>1 DEF ScopeInText
  <2>2. CASE i = Len(scope) + 1
    BY <1>1, <1>2, <1>4, <2>2
  <2> QED
    BY <1>2, <2>1, <2>2
<1>6. ASSUME Len(scope') = 2
      PROVE  scope'[1].dir # scope'[2].dir
  <2> DEFINE f == [dir |-> d, clause |-> NULL]
  <2>0. f.dir = d
    OBVIOUS
  <2> HIDE DEF f
  <2>1. Len(scope) = 1 /\ scope'[1] = scope[1] /\ scope'[2].dir = d
    <3>1. Len(scope) = 1
      <4> DEFINE m == Len(scope)
      <4>1. m + 1 = 2 /\ m \in Nat
        BY <1>2, <1>6
      <4> HIDE DEF m
      <4>2. m = 1
        BY <4>1
      <4> QED
        BY <4>2 DEF m
    <3>2. scope'[1] = scope[1] /\ scope'[2] = f
      BY <1>2, <3>1 DEF f
    <3> QED
      BY <2>0, <3>1, <3>2
  <2>2. scope[1].dir \in Text
    BY <2>1 DEF ScopeInText
  <2> QED
    BY <1>4, <2>1, <2>2
<1>7. 1 .. made' \subseteq Directive /\ before' <= made'
  BY <1>1, <1>3 DEF RecordInv
<1>8. \A e \in Directive : e > made' => e > made
  BY <1>1, <1>3, NumberAssumption
<1> QED
  BY <1>1, <1>5, <1>6, <1>7, <1>8 DEF RecordInv, ScopeInText

\* Appending to a sequence adds the one element to its range.
LEMMA AppendedRange ==
    ASSUME NEW S, NEW s \in Seq(S), NEW x \in S
    PROVE  Append(s, x) \in Seq(S) /\ Range(Append(s, x)) = Range(s) \cup {x}
<1>1. /\ Append(s, x) \in Seq(S) /\ Len(Append(s, x)) = Len(s) + 1 /\ Len(s) \in Nat
      /\ Append(s, x)[Len(s) + 1] = x
      /\ \A i \in 1 .. Len(s) : Append(s, x)[i] = s[i]
  OBVIOUS
<1>2. DOMAIN Append(s, x) = 1 .. Len(s) + 1 /\ DOMAIN s = 1 .. Len(s)
  BY <1>1
<1>3. x \in Range(Append(s, x))
  BY <1>1, <1>2 DEF Range
<1>4. ASSUME NEW y \in Range(s)
      PROVE  y \in Range(Append(s, x))
  BY <1>1, <1>2 DEF Range
<1>5. ASSUME NEW y \in Range(Append(s, x)), y # x
      PROVE  y \in Range(s)
  <2>1. PICK i \in 1 .. Len(s) + 1 : Append(s, x)[i] = y
    BY <1>2 DEF Range
  <2>2. i \in 1 .. Len(s)
    BY <1>1, <1>5, <2>1
  <2> QED
    BY <1>1, <1>2, <2>1, <2>2 DEF Range
<1> QED
  BY <1>1, <1>3, <1>4, <1>5

\* Who gets the clause that is written.
LEMMA WritesOne ==
    ASSUME ParserTypeOK, ContextInv, RecordInv, ScopeInText,
           NEW c \in Clause, NEW k \in AllKinds, Writes(c, k),
           NEW d, d = scope[Len(scope)].dir
    PROVE  /\ Len(scope) \in {1, 2} /\ d \in Directive /\ d \in Text /\ d \in storage
           /\ written'[d] = Append(written[d], c) /\ written[d] \in Seq(Clause)
           /\ \A e \in Directive \ {d} : written'[e] = written[e]
           /\ written' \in [Directive -> Seq(Clause)]
           /\ Range(written'[d]) = Range(written[d]) \cup {c}
           /\ \A e \in Directive : c \notin Range(written[e])
           /\ scope' \in Seq(Frame) /\ Len(scope') = Len(scope)
           /\ \A i \in 1 .. Len(scope) : scope'[i].dir = scope[i].dir
           /\ \A i \in 1 .. Len(scope) - 1 : scope'[i] = scope[i]
           /\ scope'[Len(scope)].clause = c
<1>1. scope \in Seq(Frame) /\ Len(scope) \in {1, 2} /\ scope # <<>>
  BY EmptySeq DEF ContextInv, ScopeOK, Depth, Writes, Returns
<1>2. scope[Len(scope)] \in Frame /\ Len(scope) \in 1 .. Len(scope)
  BY <1>1
<1>3. d \in Directive /\ d \in Text /\ d \in storage
  BY <1>2 DEF Frame, ScopeInText
<1>4. written' = [written EXCEPT ![d] = Append(@, c)]
      /\ scope' = [scope EXCEPT ![Len(scope)].clause = c] /\ c \notin Live
  BY DEF Writes
<1>5. /\ written'[d] = Append(written[d], c) /\ written[d] \in Seq(Clause)
      /\ \A e \in Directive \ {d} : written'[e] = written[e]
      /\ written' \in [Directive -> Seq(Clause)]
  <2>1. written \in [Directive -> Seq(Clause)]
    BY DEF RecordInv
  <2>2. Append(written[d], c) \in Seq(Clause)
    BY <1>3, <2>1
  <2> QED
    BY <1>3, <1>4, <2>1, <2>2
<1>6. Range(written'[d]) = Range(written[d]) \cup {c}
  BY <1>5, AppendedRange
<1>7. \A e \in Directive : c \notin Range(written[e])
  BY <1>4 DEF RecordInv
<1> QED
  BY <1>1, <1>3, <1>4, <1>5, <1>6, <1>7, ScopeWrites

\* A clause that is written is recorded on a directive of the text.
LEMMA WritesKeepsRecord ==
    ASSUME ParserTypeOK, ContextInv, RecordInv, ScopeInText,
           NEW c \in Clause, NEW k \in AllKinds, Writes(c, k)
    PROVE  RecordInv' /\ ScopeInText'
<1> DEFINE d == scope[Len(scope)].dir
<1> HIDE DEF d
<1>1. /\ Len(scope) \in {1, 2} /\ d \in Directive /\ d \in Text /\ d \in storage
      /\ written'[d] = Append(written[d], c)
      /\ \A e \in Directive \ {d} : written'[e] = written[e]
      /\ written' \in [Directive -> Seq(Clause)]
      /\ Range(written'[d]) = Range(written[d]) \cup {c}
      /\ Len(scope') = Len(scope)
      /\ \A i \in 1 .. Len(scope) : scope'[i].dir = scope[i].dir
      /\ \A i \in 1 .. Len(scope) - 1 : scope'[i] = scope[i]
      /\ scope'[Len(scope)].clause = c
  BY WritesOne DEF d
<1>2. UNCHANGED <<made, before, storage>> /\ Live' = Live \cup {c} /\ Text' = Text
  BY DEF Writes, Text
<1>3. ASSUME NEW e \in Directive
      PROVE  Range(written'[e]) \subseteq Live' /\ Range(written[e]) \subseteq Range(written'[e])
  <2>1. CASE e = d
    BY <1>1, <1>2, <2>1 DEF RecordInv
  <2>2. CASE e # d
    BY <1>1, <1>2, <2>2 DEF RecordInv
  <2> QED
    BY <2>1, <2>2
<1>4. d <= made /\ d \in Nat /\ made \in Nat
  BY <1>1, NumberAssumption DEF Text, ParserTypeOK
<1>5. ASSUME NEW e \in Directive, e > made'
      PROVE  written'[e] = <<>>
  BY <1>1, <1>2, <1>4, <1>5, NumberAssumption DEF RecordInv
<1>6. ASSUME NEW i \in 1 .. Len(scope)
      PROVE  /\ scope'[i].dir \in Text' \cap storage'
             /\ scope'[i].clause # NULL => scope'[i].clause \in Range(written'[scope'[i].dir])
  <2>1. scope'[i].dir \in Text' \cap storage' /\ scope[i].dir \in Directive
    <3>1. scope[i] \in Frame
      BY DEF ContextInv, ScopeOK
    <3> QED
      BY <1>1, <1>2, <3>1 DEF ScopeInText, Frame
  <2>2. CASE i = Len(scope)
    BY <1>1, <2>1, <2>2 DEF d
  <2>3. CASE i # Len(scope)
    <3>1. i \in 1 .. Len(scope) - 1
      BY <1>1, <2>3
    <3> QED
      BY <1>1, <1>3, <2>1, <3>1 DEF ScopeInText
  <2> QED
    BY <2>1, <2>2, <2>3
<1>7. Len(scope') = 2 => scope'[1].dir # scope'[2].dir
  BY <1>1 DEF ScopeInText
<1> QED
  BY <1>1, <1>2, <1>3, <1>5, <1>6, <1>7 DEF RecordInv, ScopeInText

\* What an inner directive leaves behind when it is complete.
LEMMA ClosesOne ==
    ASSUME ParserTypeOK, ContextInv, ScopeInText, Closes
    PROVE  /\ scope \in Seq(Frame) /\ Len(scope) = 2 /\ scope[1] \in Frame /\ scope[2] \in Frame
           /\ scope' \in Seq(Frame) /\ Len(scope') = 1 /\ scope'[1] = scope[1]
           /\ curD \in Directive /\ curD \in Text /\ curD \in storage /\ Taken(curD) = curD
           /\ parD \in Directive /\ parD \in Text /\ parD \in storage /\ parD # curD
           /\ scope[1].dir = parD /\ scope[2].dir = curD /\ scope[1].clause = parC
           /\ curD # NULL /\ parD # NULL
<1>1. Len(scope) = 2 /\ scope \in Seq(Frame)
  BY InnerIsCurrent DEF Closes
<1>2. scope[1] \in Frame /\ scope[2] \in Frame /\ scope # <<>>
  BY <1>1, EmptySeq
<1>3. scope' \in Seq(Frame) /\ Len(scope') = 1 /\ scope'[1] = scope[1]
  BY <1>1, <1>2, ScopeCloses DEF Closes, Completes
<1>4. scope[2].dir = curD /\ scope[1].dir = parD /\ scope[1].clause = parC
  BY DEF Closes
<1>5. curD \in Directive /\ parD \in Directive
  BY <1>2, <1>4 DEF Frame
<1>6. curD \in Text \cap storage /\ parD \in Text \cap storage /\ parD # curD
  BY <1>1, <1>4 DEF ScopeInText
<1> QED
  BY <1>1, <1>2, <1>3, <1>4, <1>5, <1>6, NullAssumption DEF Taken

\* The outer directive stays in the storage and keeps what is recorded of it.
LEMMA ClosesKeepsRecord ==
    ASSUME ParserTypeOK, ContextInv, RecordInv, ScopeInText, Closes
    PROVE  RecordInv' /\ ScopeInText'
<1>1. /\ Len(scope) = 2 /\ Len(scope') = 1 /\ scope'[1] = scope[1] /\ scope[1].dir = parD
      /\ parD # curD /\ parD \in Text \cap storage
  BY ClosesOne
<1>2. /\ UNCHANGED <<made, before, written>> /\ storage' = storage \ {curD} /\ Live' = Live
      /\ Text' = Text
  BY DEF Closes, SameClauses, Text
<1>3. ScopeInText'
  BY <1>1, <1>2 DEF ScopeInText
<1> QED
  BY <1>2, <1>3 DEF RecordInv

\* Moving on changes nothing of the record.
LEMMA MovesKeepsRecord ==
    ASSUME RecordInv, ScopeInText, Moves
    PROVE  RecordInv' /\ ScopeInText'
BY DEF Moves, KeepsText, SameClauses, RecordInv, ScopeInText, Text

\* A new text has nothing in it.
LEMMA BeginParseRecord ==
    ASSUME ParserTypeOK, RecordInv, BeginParse
    PROVE  /\ RecordInv' /\ ScopeInText' /\ Text' = {}
           /\ UNCHANGED <<made, owned, order, clauseKind, sep, written, writtenIn, commaFirst,
                          variantOf, traitsOf, pairedOf, setOpen, misused>>
<1>1. /\ UNCHANGED <<made, owned, order, clauseKind, sep, written, writtenIn, commaFirst, variantOf,
                     traitsOf, pairedOf, setOpen, misused>>
      /\ before' = made /\ scope' = <<>>
  BY DEF BeginParse, ResetParserState, SetSeparator, traitVars
<1>2. made \in Nat
  BY DEF ParserTypeOK
<1>3. Text' = {}
  BY <1>1, <1>2 DEF Text
<1>4. ScopeInText'
  BY <1>1 DEF ScopeInText
<1>5. Live' = Live
  BY <1>1 DEF Live
<1> QED
  BY <1>1, <1>2, <1>3, <1>4, <1>5 DEF RecordInv

\* A parse ends with the text as it is.
LEMMA EndKeepsRecord ==
    ASSUME RecordInv, SyntaxError \/ Accept
    PROVE  /\ RecordInv' /\ Text' = Text /\ phase' # "parsing"
           /\ phase' = "accepted" => /\ Accept /\ todo = <<>> /\ curD # NULL
                                     /\ result' = Taken(curD)
           /\ UNCHANGED <<made, before, owned, order, clauseKind, sep, written, writtenIn,
                          commaFirst, variantOf, traitsOf, pairedOf, setOpen, misused>>
<1>1. /\ UNCHANGED <<made, before, owned, order, clauseKind, sep, written, writtenIn, commaFirst,
                     variantOf, traitsOf, pairedOf, setOpen, misused>>
      /\ phase' \in {"rejected", "accepted"}
      /\ phase' = "accepted" => /\ Accept /\ todo = <<>> /\ curD # NULL /\ result' = Taken(curD)
  BY DEF SyntaxError, Accept, SetBaseLang, storeVars, traitVars, ghostVars
<1>2. Live' = Live /\ Text' = Text
  BY <1>1 DEF Live, Text
<1> QED
  BY <1>1, <1>2 DEF RecordInv

\* Every step keeps the record.
LEMMA RecordStep ==
    ASSUME ParserTypeOK, AnswerInv, RecordInv, WellPlaced, [ParserNext]_vars
    PROVE  RecordInv'
<1>1. CASE phase = "parsing" /\ ContextInv /\ ClassifiedStep
  BY <1>1, BeginsKeepsRecord, WritesKeepsRecord, ClosesKeepsRecord, MovesKeepsRecord
     DEF ClassifiedStep, RecordInv
<1>2. CASE UNCHANGED vars
  BY <1>2 DEF vars, parserVars, storeVars, holderVars, ghostVars, RecordInv, ScopeInText, Live, Text
<1> QED
  BY <1>1, <1>2, StepClasses, BeginParseRecord, EndKeepsRecord

-----------------------------------------------------------------------------
(***************************************************************************)
(* The clauses of each directive are those the text gives it.              *)
(***************************************************************************)
Named(d) == \E e \in Directive : pairedOf[e] = d

Given(d) ==
    IF pairedOf[d] # NULL THEN written[pairedOf[d]]
    ELSE IF Named(d) THEN <<>>
    ELSE written[d]

\* While a text is read, no directive being written is paired, and what END stands
\* before has no clauses.
PairsOpen ==
    /\ Place \in {"paired", "endPaired"} => written[scope[1].dir] = <<>>
    /\ todo # <<>> => \A i \in 1 .. Len(scope) : pairedOf[scope[i].dir] = NULL

ClausesInv ==
    /\ \A d \in Directive : pairedOf[d] # NULL =>
          /\ d <= made /\ pairedOf[d] <= made
          /\ d > before <=> pairedOf[d] > before
    /\ \A d \in Directive : order[d] = Given(d)
    /\ phase = "parsing" => PairsOpen

\* A directive in the storage is not the one that an END directive has taken.
LEMMA StoredIsNotNamed ==
    ASSUME SoleHolder, NEW d \in Directive, d \in storage
    PROVE  ~Named(d)
<1>1. ASSUME NEW e \in Directive, pairedOf[e] = d
      PROVE  FALSE
  <2>1. <<"storage", NULL, 0>> \in Holders(d) /\ <<"paired", e, 0>> \in Holders(d)
    BY <1>1, HoldersMembers
  <2>2. <<"storage", NULL, 0>> # <<"paired", e, 0>>
    OBVIOUS
  <2> QED
    BY <2>1, <2>2 DEF SoleHolder
<1> QED
  BY <1>1 DEF Named

\* A new directive is not paired.
LEMMA BeginsKeepsClauses ==
    ASSUME ParserTypeOK, ContextInv, RecordInv, ScopeInText, ClausesInv, PairsOpen,
           NEW d \in Directive, Begins(d)
    PROVE  ClausesInv'
<1>1. /\ d = made + 1 /\ made' = d /\ before' = before /\ todo # <<>>
      /\ UNCHANGED <<written, order, pairedOf>>
      /\ scope' = Append(scope, [dir |-> d, clause |-> NULL])
  BY DEF Begins, MakeDirective, SetBaseLang
<1>2. /\ scope' \in Seq(Frame) /\ Len(scope') = Len(scope) + 1 /\ Len(scope) \in Nat
      /\ \A i \in 1 .. Len(scope) : scope'[i] = scope[i]
      /\ scope'[Len(scope) + 1].dir = d
  <2>1. [dir |-> d, clause |-> NULL] \in Frame
    BY DEF Frame
  <2> QED
    BY <1>1, <2>1, ScopeOpens DEF ContextInv, ScopeOK
<1>3. made \in Nat /\ written[d] = <<>> /\ pairedOf[d] = NULL
  BY <1>1 DEF ParserTypeOK, RecordInv, ClausesInv
<1>4. Place' \in {"paired", "endPaired"} => written'[scope'[1].dir] = <<>>
  <2>1. CASE Place' = "paired"
    <3>1. Len(scope) = 0
      BY <2>1 DEF Begins, ContextInv, ScopeOK, Depth, Returns
    <3> QED
      BY <1>1, <1>2, <1>3, <3>1
  <2>2. CASE Place' = "endPaired"
    <3>1. Place = "paired" /\ Len(scope) = 1
      BY <2>2 DEF Begins, ContextInv, ScopeOK, Depth, Returns
    <3> QED
      BY <1>1, <1>2, <3>1 DEF PairsOpen
  <2> QED
    BY <2>1, <2>2
<1>5. ASSUME NEW i \in 1 .. Len(scope')
      PROVE  pairedOf'[scope'[i].dir] = NULL
  <2>1. CASE i \in 1 .. Len(scope)
    BY <1>1, <1>2, <2>1 DEF PairsOpen
  <2>2. CASE i = Len(scope) + 1
    BY <1>1, <1>2, <1>3, <2>2
  <2> QED
    BY <1>2, <2>1, <2>2
<1>6. PairsOpen'
  BY <1>4, <1>5 DEF PairsOpen
<1>7. \A e \in Directive : order'[e] = Given(e)'
  BY <1>1 DEF ClausesInv, Given, Named
<1>8. ASSUME NEW e \in Directive, pairedOf'[e] # NULL
      PROVE  e <= made' /\ pairedOf'[e] <= made' /\ (e > before' <=> pairedOf'[e] > before')
  <2>1. e \in Nat /\ pairedOf[e] \in Nat
    BY <1>1, <1>8, NumberAssumption DEF ParserTypeOK
  <2> QED
    BY <1>1, <1>3, <1>8, <2>1 DEF ClausesInv
<1> QED
  BY <1>6, <1>7, <1>8 DEF ClausesInv

\* The clause goes to the end of the innermost directive's clauses, in the text and
\* in the directive, which no END directive has taken yet.
LEMMA WritesKeepsClauses ==
    ASSUME ParserTypeOK, ContextInv, RecordInv, ScopeInText, SoleHolder, ClausesInv, PairsOpen,
           NEW c \in Clause, NEW k \in AllKinds, Writes(c, k)
    PROVE  ClausesInv'
<1> PICK d : d = scope[Len(scope)].dir
  OBVIOUS
<1>1. /\ Len(scope) \in {1, 2} /\ d \in Directive /\ d \in storage
      /\ written'[d] = Append(written[d], c)
      /\ \A e \in Directive \ {d} : written'[e] = written[e]
      /\ Len(scope') = Len(scope)
      /\ \A i \in 1 .. Len(scope) : scope'[i].dir = scope[i].dir
  BY WritesOne
<1>2. /\ UNCHANGED <<made, before, pairedOf>> /\ todo # <<>>
      /\ order' = [order EXCEPT ![d] = Append(@, c)] /\ order \in [Directive -> Seq(Clause)]
  BY DEF Writes, ParserTypeOK, TypeOK, Returns
<1>3. \A i \in 1 .. Len(scope) : pairedOf[scope[i].dir] = NULL
  BY <1>2 DEF PairsOpen
<1>4. pairedOf[d] = NULL /\ ~Named(d)
  BY <1>1, <1>3, StoredIsNotNamed
<1>5. order'[d] = Given(d)'
  <2>1. order[d] = written[d]
    BY <1>1, <1>4 DEF ClausesInv, Given
  <2>0. order'[d] = Append(order[d], c)
    BY <1>1, <1>2
  <2>2. Given(d)' = written'[d]
    BY <1>2, <1>4 DEF Given, Named
  <2> QED
    BY <1>1, <2>0, <2>1, <2>2
<1>6. ASSUME NEW e \in Directive, e # d
      PROVE  order'[e] = Given(e)'
  <2>1. order'[e] = order[e] /\ written'[e] = written[e]
    BY <1>1, <1>2, <1>6
  <2>2. pairedOf[e] # NULL => pairedOf[e] \in Directive /\ pairedOf[e] # d
    BY <1>4 DEF ParserTypeOK, Named
  <2>3. pairedOf[e] # NULL => written'[pairedOf[e]] = written[pairedOf[e]]
    BY <1>1, <2>2
  <2>4. Given(e)' = Given(e)
    BY <1>2, <2>1, <2>3 DEF Given, Named
  <2> QED
    BY <2>1, <2>4 DEF ClausesInv
<1>7. PairsOpen'
  <2>1. ASSUME Place' \in {"paired", "endPaired"}
        PROVE  written'[scope'[1].dir] = <<>>
    <3>0. Place \in Returns
      BY <2>1 DEF Writes, Returns
    <3>1. Len(scope) = 2
      BY <3>0, InnerIsCurrent
    <3>4. Place' = Place
      BY <2>1 DEF Writes
    <3>2. scope[1] \in Frame
      BY <3>1 DEF ContextInv, ScopeOK
    <3>3. scope[1].dir \in Directive /\ scope[1].dir # d /\ scope'[1].dir = scope[1].dir
      BY <1>1, <3>1, <3>2 DEF ScopeInText, Frame
    <3> QED
      BY <1>1, <2>1, <3>3, <3>4 DEF PairsOpen
  <2>2. \A i \in 1 .. Len(scope') : pairedOf'[scope'[i].dir] = NULL
    BY <1>1, <1>2, <1>3
  <2> QED
    BY <2>1, <2>2 DEF PairsOpen
<1>8. \A e \in Directive : order'[e] = Given(e)'
  BY <1>5, <1>6
<1>9. UNCHANGED <<made, before, pairedOf>>
  BY <1>2
<1> QED
  BY <1>7, <1>8, <1>9 DEF ClausesInv

\* The END directive, which has no clauses, takes those of the directive it names.
LEMMA ClosesKeepsClauses ==
    ASSUME ParserTypeOK, ContextInv, RecordInv, ScopeInText, SoleHolder, ClausesInv, PairsOpen,
           Closes
    PROVE  ClausesInv'
<1>1. /\ scope[1].dir = parD /\ scope[2].dir = curD /\ parD # curD /\ Taken(curD) = curD
      /\ curD \in Directive /\ curD \in Text /\ curD \in storage
      /\ parD \in Directive /\ parD \in Text /\ parD \in storage /\ Len(scope) = 2
      /\ Len(scope') = 1 /\ scope'[1] = scope[1] /\ curD # NULL
  BY ClosesOne
<1>2. UNCHANGED <<made, before, written>> /\ todo # <<>>
  BY DEF Closes
<1>3. pairedOf[parD] = NULL /\ pairedOf[curD] = NULL /\ ~Named(parD) /\ ~Named(curD)
  <2>1. pairedOf[scope[1].dir] = NULL /\ pairedOf[scope[2].dir] = NULL
    BY <1>1, <1>2 DEF PairsOpen
  <2> QED
    BY <1>1, <2>1, StoredIsNotNamed
<1>4. order[parD] = written[parD] /\ order[curD] = written[curD]
  BY <1>1, <1>3 DEF ClausesInv, Given
<1>5. CASE Place = "endPaired"
  <2>1. /\ Place' = "end" /\ todo' = <<>>
        /\ pairedOf' = [pairedOf EXCEPT ![parD] = curD]
        /\ order' = [order EXCEPT ![parD] = order[parD] \o order[curD], ![curD] = <<>>]
    BY <1>1, <1>5 DEF Closes
  <2>2. pairedOf'[parD] = curD /\ \A e \in Directive \ {parD} : pairedOf'[e] = pairedOf[e]
    BY <1>1, <2>1 DEF ParserTypeOK
  <2>3. /\ order'[parD] = order[parD] \o order[curD] /\ order'[curD] = <<>>
        /\ \A e \in Directive \ {parD, curD} : order'[e] = order[e]
    BY <1>1, <2>1 DEF ParserTypeOK, TypeOK
  <2>4. order'[parD] = written[curD]
    <3>1. order[parD] = <<>> /\ order[curD] \in Seq(Clause)
      BY <1>1, <1>4, <1>5 DEF PairsOpen, ParserTypeOK, TypeOK
    <3>2. order[parD] \o order[curD] = order[curD]
      BY <3>1
    <3> QED
      BY <1>4, <2>3, <3>2
  <2>5. ASSUME NEW e \in Directive
        PROVE  order'[e] = Given(e)'
    <3>1. CASE e = parD
      BY <1>1, <1>2, <2>2, <2>4, <3>1 DEF Given
    <3>2. CASE e = curD
      <4>1. Named(e)' /\ pairedOf'[e] = NULL
        BY <1>1, <1>3, <2>2, <3>2 DEF Named
      <4> QED
        BY <2>3, <3>2, <4>1 DEF Given
    <3>3. CASE e \notin {parD, curD}
      <4>1. pairedOf'[e] = pairedOf[e] /\ order'[e] = order[e]
        BY <2>2, <2>3, <3>3
      <4>2. Named(e)' <=> Named(e)
        BY <1>1, <1>3, <2>2, <3>3, NullAssumption DEF Named
      <4> QED
        BY <1>2, <4>1, <4>2 DEF Given, ClausesInv
    <3> QED
      BY <3>1, <3>2, <3>3
  <2>6. ASSUME NEW e \in Directive, pairedOf'[e] # NULL
        PROVE  e <= made' /\ pairedOf'[e] <= made' /\ (e > before' <=> pairedOf'[e] > before')
    <3>1. CASE e = parD
      <4>1. pairedOf'[e] = curD /\ e \in Text /\ curD \in Text
        BY <1>1, <2>2, <3>1
      <4>2. before \in Nat /\ made \in Nat /\ before' = before /\ made' = made
        BY <1>2 DEF ParserTypeOK
      <4> QED
        BY <4>1, <4>2 DEF Text
    <3>2. CASE e # parD
      BY <1>2, <2>2, <2>6, <3>2 DEF ClausesInv
    <3> QED
      BY <3>1, <3>2
  <2>7. PairsOpen'
    BY <2>1 DEF PairsOpen
  <2> QED
    BY <2>5, <2>6, <2>7 DEF ClausesInv
<1>6. CASE Place # "endPaired"
  <2>1. UNCHANGED <<pairedOf, order>> /\ Place' \notin {"paired", "endPaired"}
    BY <1>6 DEF Closes, Returns
  <2>2. PairsOpen'
    BY <1>1, <1>3, <2>1 DEF PairsOpen
  <2>3. \A e \in Directive : order'[e] = Given(e)'
    BY <1>2, <2>1 DEF ClausesInv, Given, Named
  <2> QED
    BY <1>2, <2>1, <2>2, <2>3 DEF ClausesInv
<1> QED
  BY <1>5, <1>6

\* Every step keeps the clauses as the text gives them.
LEMMA ClausesStep ==
    ASSUME ParserTypeOK, AnswerInv, RecordInv, RecordInv', SoleHolder, ClausesInv, WellPlaced,
           [ParserNext]_vars
    PROVE  ClausesInv'
<1>1. CASE phase = "parsing" /\ ContextInv /\ ClassifiedStep
  <2>1. ASSUME Moves
        PROVE  ClausesInv'
    <3>1. /\ UNCHANGED <<made, before, written, order, pairedOf, scope>> /\ todo # <<>>
          /\ Place' \in {"paired", "endPaired"} => Place' = Place
      BY <2>1 DEF Moves, KeepsText, Demands
    <3>2. PairsOpen'
      BY <1>1, <3>1 DEF ClausesInv, PairsOpen
    <3>3. \A e \in Directive : order'[e] = Given(e)'
      BY <3>1 DEF ClausesInv, Given, Named
    <3> QED
      BY <3>1, <3>2, <3>3 DEF ClausesInv
  <2> QED
    BY <1>1, <2>1, BeginsKeepsClauses, WritesKeepsClauses, ClosesKeepsClauses
       DEF ClassifiedStep, RecordInv, ClausesInv
<1>2. CASE BeginParse
  <2>1. UNCHANGED <<made, order, written, pairedOf>> /\ before' = made
    BY <1>2, BeginParseRecord DEF BeginParse
  <2>2. PairsOpen'
    BY <1>2, BeginParseContext DEF PairsOpen
  <2>3. \A e \in Directive : order'[e] = Given(e)'
    BY <2>1 DEF ClausesInv, Given, Named
  <2>4. ASSUME NEW e \in Directive, pairedOf'[e] # NULL
        PROVE  e <= made' /\ pairedOf'[e] <= made' /\ (e > before' <=> pairedOf'[e] > before')
    <3>1. e \in Nat /\ pairedOf[e] \in Nat /\ made \in Nat
      BY <2>1, <2>4, NumberAssumption DEF ParserTypeOK
    <3> QED
      BY <2>1, <2>4, <3>1 DEF ClausesInv
  <2> QED
    BY <2>2, <2>3, <2>4 DEF ClausesInv
<1>3. CASE SyntaxError \/ Accept
  <2>1. UNCHANGED <<made, before, order, written, pairedOf>> /\ phase' # "parsing"
    BY <1>3, EndKeepsRecord
  <2>2. \A e \in Directive : order'[e] = Given(e)'
    BY <2>1 DEF ClausesInv, Given, Named
  <2> QED
    BY <2>1, <2>2 DEF ClausesInv
<1>4. CASE UNCHANGED vars
  <2>1. UNCHANGED <<phase, made, before, order, written, pairedOf, scope, todo>>
    BY <1>4 DEF vars, parserVars, storeVars, holderVars, ghostVars
  <2> QED
    BY <2>1 DEF ClausesInv, PairsOpen, Given, Named, Place, Sym
<1> QED
  BY <1>1, <1>2, <1>3, <1>4, StepClasses

\* Before the first parse there is no text.
LEMMA TextInit ==
    ASSUME ParserInit
    PROVE  AnswerInv /\ RecordInv /\ ClausesInv
<1>1. /\ made = 0 /\ before = 0 /\ phase = "idle"
      /\ written = [d \in Directive |-> <<>>] /\ order = [d \in Directive |-> <<>>]
      /\ pairedOf = [d \in Directive |-> NULL]
  BY DEF ParserInit, StoreInit
<1>2. \A d \in Directive : Range(written[d]) = {}
  BY <1>1 DEF Range
<1>3. RecordInv
  BY <1>1, <1>2 DEF RecordInv
<1>4. \A d \in Directive : order[d] = Given(d)
  BY <1>1 DEF Given
<1> QED
  BY <1>1, <1>3, <1>4 DEF AnswerInv, ClausesInv

\* Every directive of an accepted text has exactly the clauses the text gives it, in
\* that order, and an END directive those of the directive it names, whatever the
\* number of directives and clauses and whatever was parsed before.
THEOREM ClausesAreFaithful ==
    ASSUME WellPlaced PROVE ParserSpec => []ClausesFaithful
<1>1. ParserTypeOK /\ AnswerInv /\ RecordInv /\ [ParserNext]_vars => AnswerInv' /\ RecordInv'
  BY AnswerStep, RecordStep
<1>2. ParserTypeOK /\ AnswerInv /\ RecordInv /\ RecordInv' /\ SoleHolder /\ ClausesInv
      /\ [ParserNext]_vars => ClausesInv'
  BY ClausesStep
<1>3. ASSUME ParserTypeOK, RecordInv, ClausesInv
      PROVE  ClausesFaithful
  <2>1. Text \subseteq Directive /\ \A d \in Text : d > before
    BY <1>3 DEF RecordInv, Text, ParserTypeOK
  <2>2. ASSUME NEW d \in Text
        PROVE  (\E e \in Text : pairedOf[e] = d) <=> Named(d)
    <3>1. ASSUME NEW e \in Directive, pairedOf[e] = d
          PROVE  e \in Text
      <4>1. e > before /\ e <= made /\ e \in Nat /\ before \in Nat /\ made \in Nat
        BY <1>3, <2>1, <3>1, NullAssumption, NumberAssumption DEF ClausesInv, ParserTypeOK
      <4> QED
        BY <4>1 DEF Text
    <3> QED
      BY <2>1, <3>1 DEF Named
  <2> QED
    BY <1>3, <2>1, <2>2 DEF ClausesFaithful, ClausesInv, Given
<1> QED
  BY <1>1, <1>2, <1>3, TextInit, ParserTypeCorrect, DirectivesHaveOneHolder, PTL DEF ParserSpec

-----------------------------------------------------------------------------
(***************************************************************************)
(* The selector builder of each variant clause is called as it demands.    *)
(***************************************************************************)
\* While a text is read, the only set that can be open is the one being written.
SetsOpen ==
    /\ Place \in Opened => setOpen[scope[1].clause]
    /\ \A d \in Text : \A c \in Range(written[d]) :
          setOpen[c] => Place \in Opened /\ c = scope[1].clause

BuilderInv ==
    /\ \A c \in Clause : setOpen[c] => c \in Live
    /\ \A c \in Clause : ~misused[c]
    /\ phase = "parsing" => SetsOpen

\* A new directive has no clauses with selectors.
LEMMA BeginsKeepsBuilder ==
    ASSUME ParserTypeOK, ContextInv, RecordInv, ScopeInText, BuilderInv, SetsOpen,
           NEW d \in Directive, Begins(d)
    PROVE  BuilderInv'
<1>1. /\ d = made + 1 /\ made' = d /\ before' = before /\ made \in Nat /\ before \in Nat
      /\ UNCHANGED <<written, setOpen, misused>> /\ Live' = Live
      /\ scope' = Append(scope, [dir |-> d, clause |-> NULL])
  BY DEF Begins, MakeDirective, SetBaseLang, traitVars, Live, ParserTypeOK
<1>2. /\ Len(scope) \in Nat /\ \A i \in 1 .. Len(scope) : scope'[i] = scope[i]
  <2>1. [dir |-> d, clause |-> NULL] \in Frame
    BY DEF Frame
  <2> QED
    BY <1>1, <2>1, ScopeOpens DEF ContextInv, ScopeOK
<1>3. /\ Place' \in Opened <=> Place \in Opened
      /\ Place \in Opened => scope'[1] = scope[1]
  <2>1. Place' \in Opened <=> Place \in Opened
    BY DEF Begins, Opened
  <2>2. Place \in Opened => Len(scope) = 1
    BY DEF Begins, Opened, ContextInv, ScopeOK, Depth, Returns
  <2> QED
    BY <1>2, <2>1, <2>2
<1>4. ASSUME NEW e \in Text', NEW c \in Range(written'[e]), setOpen'[c]
      PROVE  Place' \in Opened /\ c = scope'[1].clause
  <2>1. CASE e = d
    <3>1. written[d] = <<>>
      BY <1>1 DEF RecordInv
    <3> QED
      BY <1>1, <1>4, <2>1, <3>1 DEF Range
  <2>2. CASE e # d
    <3>1. e \in Text
      BY <1>1, <2>2 DEF Text
    <3> QED
      BY <1>1, <1>3, <1>4, <3>1 DEF SetsOpen
  <2> QED
    BY <2>1, <2>2
<1>5. SetsOpen'
  BY <1>1, <1>3, <1>4 DEF SetsOpen
<1> QED
  BY <1>1, <1>5 DEF BuilderInv

\* The new clause has no set open.
LEMMA WritesKeepsBuilder ==
    ASSUME ParserTypeOK, ContextInv, RecordInv, ScopeInText, BuilderInv, SetsOpen,
           NEW c \in Clause, NEW k \in AllKinds, Writes(c, k)
    PROVE  BuilderInv'
<1> PICK d : d = scope[Len(scope)].dir
  OBVIOUS
<1>1. /\ d \in Directive /\ Len(scope) \in {1, 2}
      /\ \A e \in Directive \ {d} : written'[e] = written[e]
      /\ Range(written'[d]) = Range(written[d]) \cup {c}
      /\ \A i \in 1 .. Len(scope) - 1 : scope'[i] = scope[i]
  BY WritesOne
<1>2. UNCHANGED <<made, before, setOpen, misused>>
  BY DEF Writes
<1>3. Live' = Live \cup {c} /\ ~setOpen[c] /\ Text' = Text /\ Text \subseteq Directive
  BY DEF Writes, BuilderInv, Text, RecordInv, ParserTypeOK
<1>4. /\ Place' \in Opened <=> Place \in Opened
      /\ Place \in Opened => scope'[1] = scope[1]
  <2>1. Place' \in Opened <=> Place \in Opened
    BY DEF Writes, Opened, Returns
  <2>2. Place \in Opened => Place \in Returns
    BY DEF Writes, Opened, Returns
  <2>3. ASSUME Place \in Opened
        PROVE  scope'[1] = scope[1]
    <3>1. Len(scope) = 2
      BY <2>2, <2>3, InnerIsCurrent
    <3>2. 1 \in 1 .. Len(scope) - 1
      BY <3>1
    <3> QED
      BY <1>1, <3>2
  <2> QED
    BY <2>1, <2>3
<1>5. ASSUME NEW e \in Text', NEW b \in Range(written'[e]), setOpen'[b]
      PROVE  e \in Text /\ b \in Range(written[e]) /\ setOpen[b]
  BY <1>1, <1>2, <1>3, <1>5
<1>6. SetsOpen'
  BY <1>2, <1>4, <1>5 DEF SetsOpen
<1> QED
  BY <1>2, <1>3, <1>6 DEF BuilderInv

\* A trait is taken while its set is open.
LEMMA ClosesKeepsBuilder ==
    ASSUME ParserTypeOK, ContextInv, RecordInv, ScopeInText, BuilderInv, SetsOpen, Closes
    PROVE  BuilderInv'
<1>1. scope'[1] = scope[1] /\ scope[1].clause = parC
  BY ClosesOne
<1>2. UNCHANGED <<made, before, written, setOpen>> /\ Text' = Text /\ Live' = Live
  BY DEF Closes, SameClauses, Text
<1>3. Place = "takeTrait" => setOpen[parC]
  BY <1>1 DEF SetsOpen, Opened
<1>4. misused' = misused /\ (Place' \in Opened <=> Place \in Opened)
  BY <1>3 DEF Closes, Opened
<1>5. SetsOpen'
  BY <1>1, <1>2, <1>4 DEF SetsOpen
<1> QED
  BY <1>2, <1>4, <1>5 DEF BuilderInv

\* A set is opened when none is open, and traits and its end find it open.
LEMMA MovesKeepsBuilder ==
    ASSUME ParserTypeOK, ContextInv, RecordInv, ScopeInText, BuilderInv, SetsOpen, Moves
    PROVE  BuilderInv'
<1> PICK b : b = scope[1].clause
  OBVIOUS
<1>1. /\ UNCHANGED <<made, before, written, scope>> /\ Text' = Text /\ Live' = Live
  BY DEF Moves, KeepsText, SameClauses, Text
<1>2. setOpen \in [Clause -> BOOLEAN] /\ misused \in [Clause -> BOOLEAN]
  BY DEF ParserTypeOK
<1>3. ASSUME Place \in Opened \cup {"set"}
      PROVE  b \in Clause /\ b \in Live /\ (Place = "set" => ~setOpen[b])
  <2>1. Place \in Bare /\ Len(scope) \in {1, 2}
    BY <1>3 DEF Bare, Selecting, ContextInv, ScopeOK, Depth, Opened, Returns
  <2>2. b \in Clause /\ b # NULL
    BY <2>1, TheClauseInHand, NullAssumption
  <2>3. b \in Live
    BY <2>1, <2>2 DEF ContextInv, ScopeOK
  <2>4. b \in Range(written[scope[1].dir]) /\ scope[1].dir \in Text
    BY <2>1, <2>2 DEF ScopeInText
  <2> QED
    BY <2>2, <2>3, <2>4 DEF SetsOpen, Opened
<1>4. CASE UNCHANGED traitVars /\ (Place \in Opened <=> Place' \in Opened)
  BY <1>1, <1>4 DEF BuilderInv, SetsOpen, traitVars
<1>5. CASE Place = "set" /\ Place' \in Opened /\ BeginTraitSet(scope[1].clause)
  <2>1. b \in Clause /\ b \in Live /\ ~setOpen[b]
    BY <1>3, <1>5
  <2>2. /\ setOpen' = [setOpen EXCEPT ![b] = TRUE]
        /\ misused' = [misused EXCEPT ![b] = @ \/ setOpen[b]]
    BY <1>5 DEF BeginTraitSet
  <2>3. /\ setOpen'[b] /\ (misused'[b] <=> misused[b])
        /\ \A c \in Clause \ {b} : setOpen'[c] = setOpen[c] /\ misused'[c] = misused[c]
    BY <1>2, <2>1, <2>2
  <2>4. ASSUME NEW d \in Text, NEW c \in Range(written[d]), setOpen'[c]
        PROVE  c = b
    <3>1. c \in Clause /\ ~setOpen[c]
      <4>1. c \in Clause
        BY TextIsMade
      <4> QED
        BY <1>5, <4>1 DEF SetsOpen, Opened
    <3> QED
      BY <2>3, <2>4, <3>1
  <2>5. SetsOpen'
    BY <1>1, <1>5, <2>3, <2>4 DEF SetsOpen
  <2>6. \A c \in Clause : (setOpen'[c] => c \in Live) /\ ~misused'[c]
    BY <2>1, <2>3 DEF BuilderInv
  <2> QED
    BY <1>1, <2>5, <2>6 DEF BuilderInv
<1>6. CASE /\ Place = "traits" /\ Place' \in Opened /\ setOpen' = setOpen
           /\ misused' = [misused EXCEPT ![scope[1].clause] = @ \/ ~setOpen[scope[1].clause]]
  <2>1. b \in Clause /\ setOpen[b]
    BY <1>3, <1>6 DEF SetsOpen, Opened
  <2>2. \A c \in Clause : misused'[c] <=> misused[c]
    BY <1>2, <1>6, <2>1
  <2>3. SetsOpen'
    BY <1>1, <1>6 DEF SetsOpen, Opened
  <2> QED
    BY <1>1, <1>6, <2>2, <2>3 DEF BuilderInv
<1>7. CASE Place = "setEnd" /\ Place' = "moreSets" /\ EndTraitSet(scope[1].clause)
  <2>1. b \in Clause /\ setOpen[b]
    BY <1>3, <1>7 DEF SetsOpen, Opened
  <2>2. /\ setOpen' = [setOpen EXCEPT ![b] = FALSE]
        /\ misused' = [misused EXCEPT ![b] = @ \/ ~setOpen[b]]
    BY <1>7 DEF EndTraitSet
  <2>3. /\ ~setOpen'[b] /\ (misused'[b] <=> misused[b])
        /\ \A c \in Clause \ {b} : setOpen'[c] = setOpen[c] /\ misused'[c] = misused[c]
    BY <1>2, <2>1, <2>2
  <2>4. ASSUME NEW d \in Text, NEW c \in Range(written[d])
        PROVE  ~setOpen'[c]
    <3>1. c \in Clause /\ (setOpen[c] => c = b)
      BY TextIsMade DEF SetsOpen
    <3> QED
      BY <2>3, <3>1
  <2>5. SetsOpen'
    BY <1>1, <1>7, <2>4 DEF SetsOpen, Opened
  <2>6. \A c \in Clause : (setOpen'[c] => c \in Live) /\ ~misused'[c]
    BY <2>1, <2>3 DEF BuilderInv
  <2> QED
    BY <1>1, <2>5, <2>6 DEF BuilderInv
<1> QED
  BY <1>4, <1>5, <1>6, <1>7 DEF Moves

\* No step leaves a set open or misuses a builder.
LEMMA BuilderStep ==
    ASSUME ParserTypeOK, AnswerInv, RecordInv, BuilderInv, WellPlaced, [ParserNext]_vars
    PROVE  BuilderInv'
<1>1. CASE phase = "parsing" /\ ContextInv /\ ClassifiedStep
  BY <1>1, BeginsKeepsBuilder, WritesKeepsBuilder, ClosesKeepsBuilder, MovesKeepsBuilder
     DEF ClassifiedStep, RecordInv, BuilderInv
<1>2. CASE BeginParse
  <2>1. UNCHANGED <<owned, setOpen, misused>> /\ Text' = {}
    BY <1>2, BeginParseRecord
  <2>2. SetsOpen'
    BY <1>2, <2>1, BeginParseContext DEF SetsOpen, Opened
  <2> QED
    BY <2>1, <2>2 DEF BuilderInv, Live
<1>3. CASE SyntaxError \/ Accept
  BY <1>3, EndKeepsRecord DEF BuilderInv, Live
<1>4. CASE UNCHANGED vars
  <2>1. UNCHANGED <<phase, made, before, owned, written, setOpen, misused, scope, todo>>
    BY <1>4 DEF vars, parserVars, storeVars, holderVars, traitVars, ghostVars
  <2> QED
    BY <2>1 DEF BuilderInv, SetsOpen, Live, Text, Place, Sym
<1> QED
  BY <1>1, <1>2, <1>3, <1>4, StepClasses

\* At the end of the text the outermost directive is the current one, and alone.
LEMMA AcceptedScope ==
    ASSUME ContextInv, todo = <<>>
    PROVE  Place = "end" /\ Len(scope) = 1 /\ scope \in Seq(Frame) /\ curD = scope[1].dir
<1>1. Sym[1] = "end"
  BY DEF Sym
<1>2. Place = "end"
  BY <1>1 DEF Place
<1>3. Len(scope) = 1 /\ scope \in Seq(Frame)
  BY <1>2 DEF ContextInv, ScopeOK, Depth, Returns
<1>4. scope # <<>>
  BY <1>3, EmptySeq
<1>5. curD = scope[1].dir
  BY <1>2, <1>4 DEF ContextInv, PairOK, Saved, Returns
<1> QED
  BY <1>2, <1>3, <1>5

\* At the end of a text every set has been ended.
LEMMA BuilderAccepted ==
    ASSUME ParserTypeOK, AnswerInv, RecordInv, BuilderInv, BuilderNeverMisused, WellPlaced,
           [ParserNext]_vars
    PROVE  BuilderNeverMisused'
<1>1. ASSUME SyntaxError \/ Accept, phase = "parsing", ContextInv, phase' = "accepted",
             NEW d \in Text', NEW c \in Range(written'[d])
      PROVE  ~misused'[c] /\ ~setOpen'[c]
  <2>1. todo = <<>> /\ Text' = Text /\ UNCHANGED <<written, misused, setOpen>>
    BY <1>1, EndKeepsRecord
  <2>2. Place = "end"
    BY <1>1, <2>1, AcceptedScope
  <2>3. Place \notin Opened
    BY <2>2 DEF Opened
  <2>4. c \in Clause
    BY <1>1, <2>1, TextIsMade
  <2> QED
    BY <1>1, <2>1, <2>3, <2>4 DEF BuilderInv, SetsOpen
<1>2. CASE UNCHANGED vars
  BY <1>2 DEF vars, parserVars, holderVars, traitVars, ghostVars, BuilderNeverMisused, Text
<1>3. BeginParse => phase' # "accepted"
  BY DEF BeginParse
<1> QED
  BY <1>1, <1>2, <1>3, StepClasses DEF BuilderNeverMisused

\* Before the first parse no builder was called.
LEMMA BuilderInit ==
    ASSUME ParserInit
    PROVE  BuilderInv /\ BuilderNeverMisused
BY DEF ParserInit, BuilderInv, BuilderNeverMisused

\* Whatever selectors a text writes, the grammar opens and closes the sets of each
\* clause in turn, so that no accepted clause carries a construction error or a set
\* that was never ended.
THEOREM BuilderIsUsedInBrackets ==
    ASSUME WellPlaced PROVE ParserSpec => []BuilderNeverMisused
<1>1. ParserTypeOK /\ AnswerInv /\ RecordInv /\ [ParserNext]_vars => AnswerInv' /\ RecordInv'
  BY AnswerStep, RecordStep
<1>2. ParserTypeOK /\ AnswerInv /\ RecordInv /\ BuilderInv /\ BuilderNeverMisused
      /\ [ParserNext]_vars => BuilderInv' /\ BuilderNeverMisused'
  BY BuilderStep, BuilderAccepted
<1> QED
  BY <1>1, <1>2, TextInit, BuilderInit, ParserTypeCorrect, PTL DEF ParserSpec

-----------------------------------------------------------------------------
(***************************************************************************)
(* Every directive hangs where the text has it.                            *)
(***************************************************************************)
\* The holder the text gives an inner directive holds it.
Hangs(d) ==
    LET f == writtenIn[d] IN
    /\ f.dir # NULL
    /\ IF f.clause = NULL THEN pairedOf[f.dir] = d
       ELSE variantOf[f.clause] = d \/ d \in Range(traitsOf[f.clause])

\* While a text is read, each directive of it is being written or hangs in its place,
\* and the clause that is to take a variant has none.
NestingOpen ==
    /\ \A d \in Text : Hangs(d) \/ \E i \in 1 .. Len(scope) : scope[i].dir = d
    /\ Len(scope) > 0 => writtenIn[scope[1].dir] = NoFrame
    /\ Len(scope) = 2 => writtenIn[scope[2].dir] = scope[1]
    /\ Place \in Bare => variantOf[scope[1].clause] = NULL

NestingInv ==
    /\ writtenIn \in [Directive -> Frame \cup {NoFrame}]
    /\ \A c \in Clause : variantOf[c] # NULL => c \in Live
    /\ phase = "parsing" => NestingOpen

\* A new directive is the innermost one, written in the one that was.
LEMMA BeginsKeepsNesting ==
    ASSUME ParserTypeOK, ContextInv, RecordInv, ScopeInText, NestingInv, NestingOpen,
           NEW d \in Directive, Begins(d)
    PROVE  NestingInv'
<1> PICK f : f = Innermost
  OBVIOUS
<1>1. /\ d = made + 1 /\ made' = d /\ before' = before /\ made \in Nat /\ before \in Nat
      /\ UNCHANGED <<variantOf, traitsOf, pairedOf>> /\ Live' = Live
      /\ writtenIn' = [writtenIn EXCEPT ![d] = f]
      /\ scope' = Append(scope, [dir |-> d, clause |-> NULL])
  BY DEF Begins, MakeDirective, SetBaseLang, Live, ParserTypeOK
<1>2. /\ scope' \in Seq(Frame) /\ Len(scope') = Len(scope) + 1 /\ Len(scope) \in Nat
      /\ \A i \in 1 .. Len(scope) : scope'[i] = scope[i]
      /\ scope'[Len(scope) + 1].dir = d
  <2>1. [dir |-> d, clause |-> NULL] \in Frame
    BY DEF Frame
  <2> QED
    BY <1>1, <2>1, ScopeOpens DEF ContextInv, ScopeOK
<1>3. \/ Len(scope) = 0 /\ f = NoFrame
      \/ Len(scope) = 1 /\ f = scope[1] /\ f \in Frame
  <2>1. Len(scope) \in {0, 1} /\ scope \in Seq(Frame)
    BY DEF Begins, ContextInv, ScopeOK, Depth, Returns
  <2>2. CASE Len(scope) = 0
    <3>1. scope = <<>>
      BY <2>1, <2>2, EmptySeq
    <3> QED
      BY <2>2, <3>1 DEF Innermost
  <2>3. CASE Len(scope) = 1
    <3>1. scope # <<>> /\ scope[1] \in Frame
      BY <2>1, <2>3, EmptySeq
    <3> QED
      BY <2>3, <3>1 DEF Innermost
  <2> QED
    BY <2>1, <2>2, <2>3
<1>4. /\ writtenIn' \in [Directive -> Frame \cup {NoFrame}] /\ writtenIn'[d] = f
      /\ \A e \in Directive \ {d} : writtenIn'[e] = writtenIn[e]
  <2>1. f \in Frame \cup {NoFrame}
    BY <1>3
  <2>2. writtenIn \in [Directive -> Frame \cup {NoFrame}]
    BY DEF NestingInv
  <2> QED
    BY <1>1, <2>1, <2>2
<1>5. ASSUME NEW e \in Text'
      PROVE  Hangs(e)' \/ \E i \in 1 .. Len(scope') : scope'[i].dir = e
  <2>1. CASE e = d
    BY <1>2, <2>1
  <2>2. CASE e # d
    <3>1. e \in Text
      BY <1>1, <2>2 DEF Text
    <3>2. e \in Directive
      BY <3>1, TextIsMade
    <3>3. Hangs(e) => Hangs(e)'
      <4>1. writtenIn'[e] = writtenIn[e]
        BY <1>4, <2>2, <3>2
      <4> QED
        BY <1>1, <4>1 DEF Hangs
    <3>4. CASE Hangs(e)
      BY <3>3, <3>4
    <3>5. CASE \E i \in 1 .. Len(scope) : scope[i].dir = e
      <4>1. PICK i \in 1 .. Len(scope) : scope[i].dir = e
        BY <3>5
      <4>2. i \in 1 .. Len(scope') /\ scope'[i].dir = e
        BY <1>2, <4>1
      <4> QED
        BY <4>2
    <3> QED
      BY <3>1, <3>4, <3>5 DEF NestingOpen
  <2> QED
    BY <2>1, <2>2
<1>6. ASSUME Len(scope) = 1
      PROVE  /\ scope[1].dir \in Directive \ {d} /\ scope'[1] = scope[1] /\ f = scope[1]
             /\ scope'[2].dir = d
  <2>1. scope[1].dir \in Text /\ d \notin Text
    BY <1>1, <1>6 DEF ScopeInText, Text
  <2>2. scope[1].dir \in Directive
    BY <2>1, TextIsMade
  <2>3. scope'[1] = scope[1] /\ scope'[2].dir = d /\ f = scope[1]
    BY <1>2, <1>3, <1>6
  <2> QED
    BY <2>1, <2>2, <2>3
<1>7. Len(scope') > 0 => writtenIn'[scope'[1].dir] = NoFrame
  <2>1. CASE Len(scope) = 0
    BY <1>2, <1>3, <1>4, <2>1
  <2>2. CASE Len(scope) = 1
    BY <1>4, <1>6, <2>2 DEF NestingOpen
  <2> QED
    BY <1>3, <2>1, <2>2
<1>8. Len(scope') = 2 => writtenIn'[scope'[2].dir] = scope'[1]
  <2>1. CASE Len(scope) = 0
    <3>1. Len(scope') = 1
      BY <1>2, <2>1
    <3> QED
      BY <3>1
  <2>2. CASE Len(scope) = 1
    BY <1>4, <1>6, <2>2
  <2> QED
    BY <1>3, <2>1, <2>2
<1>9. Place' \in Bare => variantOf'[scope'[1].clause] = NULL
  <2>1. Place' \in Bare => Place \in Bare /\ Len(scope) = 1
    BY DEF Begins, Bare, Selecting, Opened, ContextInv, ScopeOK, Depth, Returns
  <2> QED
    BY <1>1, <1>6, <2>1 DEF NestingOpen
<1>10. NestingOpen'
  BY <1>5, <1>7, <1>8, <1>9 DEF NestingOpen
<1> QED
  BY <1>1, <1>4, <1>10 DEF NestingInv

\* A new clause has no variant.
LEMMA WritesKeepsNesting ==
    ASSUME ParserTypeOK, ContextInv, RecordInv, ScopeInText, NestingInv, NestingOpen,
           NEW c \in Clause, NEW k \in AllKinds, Writes(c, k)
    PROVE  NestingInv'
<1>1. /\ Len(scope) \in {1, 2} /\ Len(scope') = Len(scope)
      /\ \A i \in 1 .. Len(scope) : scope'[i].dir = scope[i].dir
      /\ \A i \in 1 .. Len(scope) - 1 : scope'[i] = scope[i]
      /\ scope'[Len(scope)].clause = c
  <2> PICK d : d = scope[Len(scope)].dir
    OBVIOUS
  <2> QED
    BY WritesOne
<1>2. /\ UNCHANGED <<made, before, variantOf, traitsOf, pairedOf, writtenIn>> /\ Text' = Text
      /\ Live' = Live \cup {c} /\ c \notin Live
  BY DEF Writes, Text
<1>3. ASSUME NEW e \in Text'
      PROVE  Hangs(e)' \/ \E i \in 1 .. Len(scope') : scope'[i].dir = e
  <2>1. Hangs(e)' <=> Hangs(e)
    BY <1>2 DEF Hangs
  <2> QED
    BY <1>1, <1>2, <2>1 DEF NestingOpen
<1>4. Len(scope') > 0 => writtenIn'[scope'[1].dir] = NoFrame
  <2>1. scope'[1].dir = scope[1].dir
    BY <1>1
  <2> QED
    BY <1>1, <1>2, <2>1 DEF NestingOpen
<1>5. Len(scope') = 2 => writtenIn'[scope'[2].dir] = scope'[1] /\ scope'[1] = scope[1]
  <2>1. ASSUME Len(scope) = 2
        PROVE  scope'[2].dir = scope[2].dir /\ scope'[1] = scope[1]
    BY <1>1, <2>1
  <2> QED
    BY <1>1, <1>2, <2>1 DEF NestingOpen
<1>6. ASSUME Place' \in Bare
      PROVE  variantOf'[scope'[1].clause] = NULL
  <2>1. CASE Len(scope) = 1
    <3>1. scope'[1].clause = c
      BY <1>1, <2>1
    <3> QED
      BY <1>2, <3>1 DEF NestingInv
  <2>2. CASE Len(scope) = 2
    <3>1. Place \in Returns
      BY <2>2 DEF ContextInv, ScopeOK, Depth
    <3>2. Place' = Place
      BY <3>1 DEF Writes, Returns
    <3> QED
      BY <1>1, <1>2, <1>5, <1>6, <2>2, <3>2 DEF NestingOpen
  <2> QED
    BY <1>1, <2>1, <2>2
<1>7. NestingOpen'
  BY <1>3, <1>4, <1>5, <1>6 DEF NestingOpen
<1> QED
  BY <1>2, <1>7 DEF NestingInv

\* The inner directive goes to the holder the text gives it, and to no place another
\* one has taken.
LEMMA ClosesKeepsNesting ==
    ASSUME ParserTypeOK, ContextInv, RecordInv, ScopeInText, PairsOpen, SetsOpen, NestingInv,
           NestingOpen, Closes
    PROVE  NestingInv'
<1> PICK x, p, b : x = curD /\ p = parD /\ b = parC
  OBVIOUS
<1>1. /\ Len(scope) = 2 /\ Len(scope') = 1 /\ scope'[1] = scope[1] /\ scope[1] \in Frame
      /\ x \in Directive /\ Taken(x) = x /\ p \in Directive /\ p # x /\ x # NULL /\ p # NULL
      /\ scope[1].dir = p /\ scope[2].dir = x /\ scope[1].clause = b
  BY ClosesOne
<1>2. /\ UNCHANGED <<made, before, writtenIn>> /\ Text' = Text /\ Live' = Live /\ todo # <<>>
  BY DEF Closes, SameClauses, Text
<1>3. writtenIn[x] = scope[1] /\ writtenIn[p] = NoFrame
  BY <1>1 DEF NestingOpen
<1>4. \/ /\ Place = "endPaired" /\ Place' = "end"
         /\ pairedOf' = [pairedOf EXCEPT ![p] = x]
         /\ UNCHANGED <<variantOf, traitsOf>>
      \/ /\ Place \in {"setWhenVariant", "variantClose"} /\ Place' \in {"whenClose", "mmore"}
         /\ variantOf' = [variantOf EXCEPT ![b] = x]
         /\ UNCHANGED <<pairedOf, traitsOf>>
      \/ /\ Place = "takeTrait" /\ Place' = "moreTraits"
         /\ traitsOf' = [traitsOf EXCEPT ![b] = Append(@, x)]
         /\ UNCHANGED <<variantOf, pairedOf>>
  <2>1. Place = "takeTrait" => setOpen[b]
    BY <1>1 DEF SetsOpen, Opened
  <2> QED
    BY <1>1, <2>1 DEF Closes
<1>5. Place \in Bare => b \in Clause /\ b \in Live /\ variantOf[b] = NULL
  <2>1. ASSUME Place \in Bare
        PROVE  b \in Clause
    BY <1>1, <2>1, TheClauseInHand
  <2>2. b \in Live \cup {NULL}
    BY <1>1 DEF ContextInv, ScopeOK
  <2> QED
    BY <1>1, <2>1, <2>2, NullAssumption DEF NestingOpen
<1>6. /\ Hangs(x)'
      /\ \A e \in Directive : Hangs(e) => Hangs(e)'
      /\ \A c \in Clause : variantOf'[c] # NULL => variantOf[c] # NULL \/ c \in Live
      /\ Place' \in Bare => variantOf'[b] = NULL
  <2>1. CASE Place = "endPaired"
    <3>1. /\ Place' = "end" /\ pairedOf' = [pairedOf EXCEPT ![p] = x]
          /\ UNCHANGED <<variantOf, traitsOf>>
      BY <1>4, <2>1
    <3>2. pairedOf'[p] = x /\ \A e \in Directive \ {p} : pairedOf'[e] = pairedOf[e]
      BY <1>1, <3>1 DEF ParserTypeOK
    <3>3. pairedOf[p] = NULL
      BY <1>1, <1>2 DEF PairsOpen
    <3>4. b = NULL
      <4>1. written[p] = <<>>
        BY <1>1, <2>1 DEF PairsOpen
      <4> QED
        BY <1>1, <4>1 DEF ScopeInText, Range
    <3>5. Hangs(x)'
      BY <1>1, <1>2, <1>3, <3>2, <3>4 DEF Hangs
    <3>6. ASSUME NEW e \in Directive, Hangs(e)
          PROVE  Hangs(e)'
      <4>1. e # NULL /\ writtenIn[e] \in Frame \cup {NoFrame}
        BY NullAssumption DEF NestingInv
      <4>2. writtenIn[e].clause = NULL =>
               writtenIn[e].dir \in Directive \ {p} /\ pairedOf'[writtenIn[e].dir] = e
        BY <3>2, <3>3, <3>6, <4>1 DEF Hangs, Frame, NoFrame
      <4> QED
        BY <1>2, <3>1, <3>6, <4>2 DEF Hangs
    <3> QED
      BY <3>1, <3>5, <3>6 DEF Bare, Selecting, Opened
  <2>2. CASE Place \in {"setWhenVariant", "variantClose"}
    <3>1. /\ Place' \in {"whenClose", "mmore"} /\ variantOf' = [variantOf EXCEPT ![b] = x]
          /\ UNCHANGED <<pairedOf, traitsOf>>
      BY <1>4, <2>2
    <3>2. b \in Clause /\ b \in Live /\ variantOf[b] = NULL
      BY <1>5, <2>2 DEF Bare
    <3>3. variantOf'[b] = x /\ \A c \in Clause \ {b} : variantOf'[c] = variantOf[c]
      BY <3>1, <3>2 DEF ParserTypeOK
    <3>4. Hangs(x)'
      BY <1>1, <1>2, <1>3, <3>2, <3>3, NullAssumption DEF Hangs
    <3>5. ASSUME NEW e \in Directive, Hangs(e)
          PROVE  Hangs(e)'
      <4>1. e # NULL /\ writtenIn[e] \in Frame \cup {NoFrame}
        BY NullAssumption DEF NestingInv
      <4>2. writtenIn[e].clause # NULL => writtenIn[e].clause \in Clause
        BY <4>1 DEF Frame, NoFrame
      <4>3. writtenIn[e].clause # NULL =>
               (variantOf[writtenIn[e].clause] = e => variantOf'[writtenIn[e].clause] = e)
        BY <3>2, <3>3, <4>1, <4>2
      <4> QED
        BY <1>2, <3>1, <3>5, <4>3 DEF Hangs
    <3> QED
      BY <3>1, <3>2, <3>3, <3>4, <3>5 DEF Bare, Selecting, Opened
  <2>3. CASE Place = "takeTrait"
    <3>1. /\ Place' = "moreTraits" /\ traitsOf' = [traitsOf EXCEPT ![b] = Append(@, x)]
          /\ UNCHANGED <<variantOf, pairedOf>>
      BY <1>4, <2>3
    <3>2. b \in Clause /\ b \in Live /\ variantOf[b] = NULL
      BY <1>5, <2>3 DEF Bare, Selecting, Opened
    <3>3. traitsOf'[b] = Append(traitsOf[b], x) /\ \A c \in Clause \ {b} : traitsOf'[c] = traitsOf[c]
      BY <3>1, <3>2 DEF ParserTypeOK
    <3>4. Range(traitsOf'[b]) = Range(traitsOf[b]) \cup {x}
      <4>1. traitsOf[b] \in Seq(Directive \cup {NULL}) /\ x \in Directive \cup {NULL}
        BY <1>1, <3>2 DEF ParserTypeOK
      <4> QED
        BY <3>3, <4>1, AppendedRange
    <3>5. Hangs(x)'
      BY <1>1, <1>2, <1>3, <3>2, <3>4, NullAssumption DEF Hangs
    <3>6. ASSUME NEW e \in Directive, Hangs(e)
          PROVE  Hangs(e)'
      <4>1. writtenIn[e] \in Frame \cup {NoFrame}
        BY DEF NestingInv
      <4>2. writtenIn[e].clause # NULL => writtenIn[e].clause \in Clause
        BY <4>1 DEF Frame, NoFrame
      <4>3. writtenIn[e].clause # NULL =>
               (e \in Range(traitsOf[writtenIn[e].clause])
                   => e \in Range(traitsOf'[writtenIn[e].clause]))
        BY <3>3, <3>4, <4>2
      <4> QED
        BY <1>2, <3>1, <3>6, <4>3 DEF Hangs
    <3> QED
      BY <3>1, <3>2, <3>5, <3>6
  <2> QED
    BY <1>4, <2>1, <2>2, <2>3
<1>7. ASSUME NEW e \in Text'
      PROVE  Hangs(e)' \/ \E i \in 1 .. Len(scope') : scope'[i].dir = e
  <2>1. e \in Text /\ e \in Directive
    BY <1>2, TextIsMade
  <2>2. CASE e = x
    BY <1>6, <2>2
  <2>3. CASE e = p
    BY <1>1, <2>3
  <2>4. CASE e \notin {x, p}
    <3>1. \A i \in 1 .. Len(scope) : scope[i].dir # e
      <4>1. \A i \in 1 .. Len(scope) : i \in {1, 2}
        BY <1>1
      <4> QED
        BY <1>1, <2>4, <4>1
    <3> QED
      BY <1>6, <2>1, <3>1 DEF NestingOpen
  <2> QED
    BY <2>2, <2>3, <2>4
<1>8. NestingOpen'
  BY <1>1, <1>2, <1>3, <1>6, <1>7 DEF NestingOpen
<1> QED
  BY <1>2, <1>6, <1>8 DEF NestingInv

\* No step takes a directive from its place or puts one in another's.
LEMMA NestingStep ==
    ASSUME ParserTypeOK, AnswerInv, RecordInv, ClausesInv, BuilderInv, NestingInv, WellPlaced,
           [ParserNext]_vars
    PROVE  NestingInv'
<1>1. CASE phase = "parsing" /\ ContextInv /\ ClassifiedStep
  <2>1. ASSUME Moves
        PROVE  NestingInv'
    <3>1. /\ UNCHANGED <<made, before, scope, variantOf, traitsOf, pairedOf, writtenIn>>
          /\ Live' = Live /\ (Place' \in Bare => Place \in Bare)
      BY <2>1 DEF Moves, KeepsText, SameClauses, Demands
    <3>2. NestingOpen'
      BY <1>1, <3>1 DEF NestingInv, NestingOpen, Hangs, Text
    <3> QED
      BY <3>1, <3>2 DEF NestingInv
  <2> QED
    BY <1>1, <2>1, BeginsKeepsNesting, WritesKeepsNesting, ClosesKeepsNesting
       DEF ClassifiedStep, RecordInv, ClausesInv, BuilderInv, NestingInv
<1>2. CASE BeginParse
  <2>1. UNCHANGED <<owned, variantOf, writtenIn>> /\ Text' = {}
    BY <1>2, BeginParseRecord
  <2>2. Place' = "directive" /\ scope' = <<>> /\ Len(scope') = 0
    BY <1>2, BeginParseContext
  <2>3. NestingOpen'
    BY <2>1, <2>2 DEF NestingOpen, Bare, Selecting, Opened
  <2> QED
    BY <2>1, <2>3 DEF NestingInv, Live
<1>3. CASE SyntaxError \/ Accept
  BY <1>3, EndKeepsRecord DEF NestingInv, Live
<1>4. CASE UNCHANGED vars
  <2>1. UNCHANGED <<phase, made, before, owned, scope, variantOf, traitsOf, pairedOf, writtenIn, todo>>
    BY <1>4 DEF vars, parserVars, storeVars, holderVars, ghostVars
  <2> QED
    BY <2>1 DEF NestingInv, NestingOpen, Hangs, Live, Text, Place, Sym
<1> QED
  BY <1>1, <1>2, <1>3, <1>4, StepClasses

\* What is returned is the directive that was written last of all, the outermost one.
LEMMA NestingAccepted ==
    ASSUME ParserTypeOK, AnswerInv, RecordInv, NestingInv, NestingFaithful, WellPlaced,
           [ParserNext]_vars
    PROVE  NestingFaithful'
<1>1. ASSUME SyntaxError \/ Accept, phase = "parsing", ContextInv, phase' = "accepted",
             NEW d \in Text'
      PROVE  LET f == writtenIn'[d] IN
             IF f.dir = NULL THEN result' = d
             ELSE IF f.clause = NULL THEN pairedOf'[f.dir] = d
             ELSE variantOf'[f.clause] = d \/ d \in Range(traitsOf'[f.clause])
  <2>1. /\ todo = <<>> /\ Text' = Text /\ result' = Taken(curD)
        /\ UNCHANGED <<writtenIn, pairedOf, variantOf, traitsOf>>
    BY <1>1, EndKeepsRecord
  <2>2. Len(scope) = 1 /\ curD = scope[1].dir
    BY <1>1, <2>1, AcceptedScope
  <2>3. ScopeInText /\ NestingOpen
    BY <1>1 DEF RecordInv, NestingInv
  <2>4. result' = scope[1].dir
    BY <2>1, <2>2, <2>3 DEF ScopeInText, Taken
  <2>5. CASE d = scope[1].dir
    <3>1. writtenIn'[d] = NoFrame
      BY <2>1, <2>2, <2>3, <2>5 DEF NestingOpen
    <3> QED
      BY <2>4, <2>5, <3>1 DEF NoFrame
  <2>6. CASE d # scope[1].dir
    <3>1. Hangs(d)
      BY <2>1, <2>2, <2>3, <2>6 DEF NestingOpen
    <3> QED
      BY <2>1, <3>1 DEF Hangs
  <2> QED
    BY <2>5, <2>6
<1>2. CASE UNCHANGED vars
  <2>1. UNCHANGED <<phase, made, before, result, variantOf, traitsOf, pairedOf, writtenIn>>
    BY <1>2 DEF vars, parserVars, holderVars, ghostVars
  <2> QED
    BY <2>1 DEF NestingFaithful, Text
<1>3. BeginParse => phase' # "accepted"
  BY DEF BeginParse
<1> QED
  BY <1>1, <1>2, <1>3, StepClasses DEF NestingFaithful

\* Before the first parse no directive hangs anywhere.
LEMMA NestingInit ==
    ASSUME ParserInit
    PROVE  NestingInv /\ NestingFaithful
<1>1. /\ phase = "idle" /\ writtenIn = [d \in Directive |-> NoFrame]
      /\ variantOf = [c \in Clause |-> NULL]
  BY DEF ParserInit
<1> QED
  BY <1>1 DEF NestingInv, NestingFaithful

\* However deep a text nests its variants, construct traits and END directives, one
\* parent pair is enough: every directive of an accepted text hangs where the text
\* has it, and the outermost one is the result.
THEOREM NestingIsFaithful ==
    ASSUME WellPlaced PROVE ParserSpec => []NestingFaithful
<1>1. ParserTypeOK /\ AnswerInv /\ RecordInv /\ [ParserNext]_vars => AnswerInv' /\ RecordInv'
  BY AnswerStep, RecordStep
<1>2. ParserTypeOK /\ AnswerInv /\ RecordInv /\ RecordInv' /\ SoleHolder /\ ClausesInv
      /\ BuilderInv /\ [ParserNext]_vars => ClausesInv' /\ BuilderInv'
  BY ClausesStep, BuilderStep
<1>3. ParserTypeOK /\ AnswerInv /\ RecordInv /\ ClausesInv /\ BuilderInv /\ NestingInv
      /\ NestingFaithful /\ [ParserNext]_vars => NestingInv' /\ NestingFaithful'
  BY NestingStep, NestingAccepted
<1> QED
  BY <1>1, <1>2, <1>3, TextInit, BuilderInit, NestingInit, ParserTypeCorrect,
     DirectivesHaveOneHolder, PTL DEF ParserSpec

-----------------------------------------------------------------------------
(***************************************************************************)
(* A clause is preceded by a comma exactly if it is in the text.           *)
(***************************************************************************)
WellSeparated == "order-comma" \notin Forms /\ "silent-comma" \notin Forms

SeparatorInv ==
    /\ phase = "parsing" => comma = readComma
    /\ commaFirst \subseteq Live
    /\ \A c \in Live : sep[c] = "comma" <=> c \in commaFirst

\* Rules that neither read a comma nor build a clause.
LEMMA SilentOnSeparators ==
    ASSUME ParserTypeOK, ContextInv, WellPlaced, ~Undefined,
           \/ ReadDirective \/ ReadVariant \/ ReadSelector
           \/ \E l \in ListKind : FirstClause(l) \/ NextClause(l)
           \/ \E symbol \in Optional : LeaveOut(symbol)
    PROVE  UNCHANGED <<comma, readComma, commaFirst, sep>> /\ Live' = Live
<1>1. CASE ReadDirective
  <2>1. UNCHANGED <<comma, readComma, commaFirst, sep>>
    BY <1>1 DEF ReadDirective, PlainDirective, Metadirective, DeclareVariantDirective,
                EndMetadirective, EndDirective, EndPaired, MakeDirective, SetBaseLang, AdoptClauses,
                storeVars
  <2>2. CASE EndPaired
    BY <2>1, <2>2, EndPairedCloses DEF Closes, SameClauses
  <2>3. CASE \E d \in Directive : Begins(d)
    BY <2>1, <2>3 DEF Begins, MakeDirective, SetBaseLang, Live
  <2> QED
    BY <1>1, <2>2, <2>3, DirectivePlaces DEF ContextInv
<1>2. CASE ReadVariant
  BY <1>2 DEF ReadVariant, OtherwiseOpen, WhenColon, WhenVariant, SetWhenVariant, WhenClose,
              VariantClose, HoldVariant, Silent, storeVars, ghostVars, Live
<1>3. CASE ReadSelector
  BY <1>3 DEF ReadSelector, OpenSet, OpenConstructSet, AnotherSet, SimpleTrait, ConstructTrait,
              TakeTrait, SetEnd, Silent, storeVars, ghostVars, Live
<1>4. CASE \/ \E l \in ListKind : FirstClause(l) \/ NextClause(l)
           \/ \E symbol \in Optional : LeaveOut(symbol)
  BY <1>4 DEF FirstClause, NextClause, LeaveOut, Silent, storeVars, ghostVars, Live
<1> QED
  BY <1>1, <1>2, <1>3, <1>4

\* A clause of the general path takes the separator that was read; an ORDER clause,
\* which never follows a comma, is given none.
LEMMA ClauseTakesSeparator ==
    ASSUME ParserTypeOK, ContextInv, WellSeparated, ~Undefined, SeparatorInv, comma = readComma,
           \/ PlainClause \/ OrderClause \/ WhenClause \/ MatchClause \/ OtherwiseClause
           \/ DefaultVariantClause
    PROVE  SeparatorInv'
<1>1. PICK b \in Clause, k \in AllKinds : Writes(b, k)
  BY ClauseIsWritten
<1>2. curD # NULL
  <2>1. Place \in {"end", "mclause", "dclause"} \cup Returns
    BY <1>1 DEF Writes
  <2> QED
    BY <2>1, CurrentIsInnermost, NullAssumption
<1>3. \E c \in Clause :
         /\ c \notin Live
         /\ \/ sep' = [sep EXCEPT ![c] = IF comma THEN "comma" ELSE "space"] /\ comma' = FALSE
            \/ sep' = [sep EXCEPT ![c] = "space"] /\ comma' = comma /\ ~readComma
         /\ commaFirst' = (IF readComma THEN commaFirst \cup {c} ELSE commaFirst)
         /\ readComma' = FALSE
         /\ \E d \in Directive : owned' = [owned EXCEPT ![d] = @ \cup {c}]
  <2>1. curD \in Directive
    BY <1>2 DEF ParserTypeOK
  <2>2. CASE OrderClause
    BY <1>2, <2>1, <2>2 DEF OrderClause, AddOrderClause, RegisterClause, WriteClause, WellSeparated
  <2>3. ASSUME NEW c \in Clause, NEW kind, NewClause(kind, c)
        PROVE  /\ c \notin Live
               /\ sep' = [sep EXCEPT ![c] = IF comma THEN "comma" ELSE "space"] /\ comma' = FALSE
               /\ commaFirst' = (IF readComma THEN commaFirst \cup {c} ELSE commaFirst)
               /\ readComma' = FALSE
               /\ \E d \in Directive : owned' = [owned EXCEPT ![d] = @ \cup {c}]
    BY <1>2, <2>1, <2>3 DEF NewClause, AddClause, RegisterClause, TakeSeparator, WriteClause
  <2>4. CASE \E c \in Clause, kind \in {"private", "when", "match", "otherwise", "default"} :
                NewClause(kind, c)
    BY <2>3, <2>4
  <2> QED
    BY <2>2, <2>4 DEF PlainClause, WhenClause, MatchClause, OtherwiseClause, DefaultVariantClause
<1>4. PICK c \in Clause :
         /\ c \notin Live
         /\ \/ sep' = [sep EXCEPT ![c] = IF comma THEN "comma" ELSE "space"] /\ comma' = FALSE
            \/ sep' = [sep EXCEPT ![c] = "space"] /\ comma' = comma /\ ~readComma
         /\ commaFirst' = (IF readComma THEN commaFirst \cup {c} ELSE commaFirst)
         /\ readComma' = FALSE
         /\ \E d \in Directive : owned' = [owned EXCEPT ![d] = @ \cup {c}]
  BY <1>3
<1>5. Live' = Live \cup {c}
  <2>1. PICK d \in Directive : owned' = [owned EXCEPT ![d] = @ \cup {c}]
    BY <1>4
  <2>2. owned'[d] = owned[d] \cup {c} /\ \A e \in Directive \ {d} : owned'[e] = owned[e]
    BY <2>1 DEF ParserTypeOK, TypeOK
  <2>3. \A e \in Directive : owned[e] \subseteq owned'[e] /\ owned'[e] \subseteq owned[e] \cup {c}
    BY <2>2
  <2> QED
    BY <2>2, <2>3 DEF Live
<1>6. /\ sep'[c] = (IF readComma THEN "comma" ELSE "space")
      /\ \A a \in Clause \ {c} : sep'[a] = sep[a]
      /\ comma' = FALSE
  BY <1>4 DEF ParserTypeOK, TypeOK
<1>7. Live \subseteq Clause
  BY DEF Live, ParserTypeOK, TypeOK
<1>8. ASSUME NEW a \in Live'
      PROVE  sep'[a] = "comma" <=> a \in commaFirst'
  <2>1. CASE a = c
    BY <1>4, <1>6, <2>1 DEF SeparatorInv
  <2>2. CASE a # c
    BY <1>4, <1>5, <1>6, <1>7, <2>2 DEF SeparatorInv
  <2> QED
    BY <2>1, <2>2
<1>9. commaFirst' \subseteq Live'
  BY <1>4, <1>5 DEF SeparatorInv
<1>10. comma' = readComma'
  BY <1>4, <1>6
<1> QED
  BY <1>8, <1>9, <1>10 DEF SeparatorInv

\* The flag of the parser and the text agree at every step.
LEMMA SeparatorStep ==
    ASSUME ParserTypeOK, AnswerInv, SeparatorInv, WellPlaced, WellSeparated, [ParserNext]_vars
    PROVE  SeparatorInv'
<1>1. CASE ReadDirective \/ ReadClause \/ ReadVariant \/ ReadSelector
  <2>1. phase = "parsing" /\ ContextInv
    BY <1>1, ReadingIsParsing DEF AnswerInv
  <2>2. ~Undefined
    BY <1>1, <2>1, NothingUndefined DEF Undefined
  <2>3. comma = readComma
    BY <2>1 DEF SeparatorInv
  <2>4. ASSUME UNCHANGED <<comma, readComma, commaFirst, sep>>, Live' = Live
        PROVE  SeparatorInv'
    BY <2>3, <2>4 DEF SeparatorInv
  <2>5. CASE \E l \in ListKind : NextClauseAfterComma(l)
    <3>1. comma' = TRUE /\ readComma' = TRUE /\ UNCHANGED <<commaFirst, sep, owned>>
      BY <2>5 DEF NextClauseAfterComma, SetSeparator
    <3> QED
      BY <3>1 DEF SeparatorInv, Live
  <2>6. ~\E l \in {"clauses", "mclauses"} : NextClauseSilently(l)
    BY DEF NextClauseSilently, WellSeparated
  <2>7. CASE \/ PlainClause \/ OrderClause \/ WhenClause \/ MatchClause \/ OtherwiseClause
             \/ DefaultVariantClause
    BY <2>1, <2>2, <2>3, <2>7, ClauseTakesSeparator
  <2> QED
    BY <1>1, <2>1, <2>2, <2>4, <2>5, <2>6, <2>7, SilentOnSeparators DEF ReadClause
<1>2. CASE BeginParse
  <2>1. comma' = FALSE /\ readComma' = FALSE /\ UNCHANGED <<commaFirst, sep, owned>>
    BY <1>2 DEF BeginParse, ResetParserState, SetSeparator
  <2> QED
    BY <2>1 DEF SeparatorInv, Live
<1>3. CASE SyntaxError \/ Accept
  <2>1. UNCHANGED <<commaFirst, sep, owned>> /\ phase' # "parsing"
    BY <1>3 DEF SyntaxError, Accept, SetBaseLang, storeVars, ghostVars
  <2> QED
    BY <2>1 DEF SeparatorInv, Live
<1>4. CASE UNCHANGED vars
  <2>1. UNCHANGED <<phase, comma, readComma, commaFirst, sep, owned>>
    BY <1>4 DEF vars, parserVars, storeVars, ghostVars
  <2> QED
    BY <2>1 DEF SeparatorInv, Live
<1> QED
  BY <1>1, <1>2, <1>3, <1>4 DEF ParserNext

\* Apart from ORDER clauses and the lists whose rule records no comma, a clause of an
\* accepted text has a comma before it in the IR exactly if it has one in the text,
\* also when a text before it was rejected after its last comma.
THEOREM SeparatorsAreFaithful ==
    ASSUME WellPlaced, WellSeparated PROVE ParserSpec => []SeparatorsFaithful
<1>1. ParserTypeOK /\ AnswerInv /\ RecordInv /\ [ParserNext]_vars => AnswerInv' /\ RecordInv'
  BY AnswerStep, RecordStep
<1>2. ParserTypeOK /\ AnswerInv /\ SeparatorInv /\ [ParserNext]_vars => SeparatorInv'
  BY SeparatorStep
<1>3. ParserInit => SeparatorInv
  BY DEF ParserInit, StoreInit, SeparatorInv, Live
<1>4. ParserTypeOK /\ RecordInv /\ SeparatorInv => SeparatorsFaithful
  BY TextIsMade DEF SeparatorInv, SeparatorsFaithful
<1> QED
  BY <1>1, <1>2, <1>3, <1>4, TextInit, ParserTypeCorrect, PTL DEF ParserSpec
=============================================================================
